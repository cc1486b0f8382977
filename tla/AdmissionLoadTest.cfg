SPECIFICATION FairSpec

CONSTANTS
    v1 = v1
    v2 = v2
    u1 = u1
    Users = {v1, v2, u1}
    NoUser = nobody
    Virtual = {v1, v2}
    MaxCalls = 1
    MaxResets = 0
    MaxCrashes = 0
    LoadTest = TRUE
    MinBatch = 1
    MaxBatch = 2
    MaxInFlight = 1
    Bookers = {v1, v2}

INVARIANT TypeOK

PROPERTY WaiterLeavesLine
