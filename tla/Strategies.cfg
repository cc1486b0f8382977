CONSTANTS
    c1 = c1
    c2 = c2
    c3 = c3
    c4 = c4
    Requests = {c1, c2, c3, c4}
    Qty <- MCQty
    MaxQty = 2
    TotalQty = 4
    MaxRetries = 2
    NoRequest = nobody

SYMMETRY MCSymmetry
SPECIFICATION Spec
CHECK_DEADLOCK FALSE
INVARIANTS TypeOK Accounted NoOversell NeverNegative RetriesPaidFor LockIsHeld
