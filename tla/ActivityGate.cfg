CONSTANTS
    r1 = r1
    r2 = r2
    Rows = {r1, r2}
    HoldTtl = 1
    PaymentFallback = 4
    FlagTtl = 3
    Daily = 4
    Gap <- MCGap
    MaxFails = 1

SPECIFICATION Spec
INVARIANTS CheckedDaily SweptInTime DriftMet
SYMMETRY MCSymmetry
