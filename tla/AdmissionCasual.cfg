SPECIFICATION Spec

CONSTANTS
    v1 = v1
    u1 = u1
    u2 = u2
    Users = {v1, u1, u2}
    NoUser = nobody
    Virtual = {v1}
    MaxCalls = 1
    MaxResets = 1
    MaxCrashes = 1
    LoadTest = FALSE
    MinBatch = 1
    MaxBatch = 1
    MaxInFlight = 1
    Bookers = {}

INVARIANT ActiveIfWaiting
PROPERTY NoOvertaking
PROPERTY VirtualHearsAdmission
