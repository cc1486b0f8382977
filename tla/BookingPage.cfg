CONSTANTS
    Reservations = {r1}
    NoTicket = NoTicket
    MaxCalls = 2
    MaxVisits = 2
    Taps = 2
    MaxFaults = 1
    Faults = {"lapse", "lost", "disconnect", "restart", "publishFails"}

SPECIFICATION FairSpec
CHECK_DEADLOCK FALSE
INVARIANTS TypeOK NothingMissed CrowdFirst ResetFirst
PROPERTIES OutcomeIsOwn PayingSettles
