CONSTANTS
    r1 = r1
    r2 = r2
    r3 = r3
    r4 = r4
    k1 = k1
    k2 = k2
    k3 = k3
    Requests = {r1, r4}
    Keys = {k1, k2, k3}
    KeyOf <- MCKeyOf
    Qty <- MCQty
    MaxQty = 2
    TotalQty = 1
    Attempts = 1
    Faults = {}

SPECIFICATION Spec
INVARIANT NoOversell
