CONSTANTS
    sim = sim
    stats = stats
    reset = reset
    u1 = u1
    u2 = u2
    Calls = {sim, reset}
    OpOf <- MCOpOf
    TotalOf <- MCTotalOf
    Users = {u1, u2}
    DemoQty = 1
    MaxVu = 2
    BatchSize = 1
    Guarantee = 1
    Faults = {}

CHECK_DEADLOCK FALSE
SPECIFICATION Spec
INVARIANT ResetCompletes
