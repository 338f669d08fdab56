SPECIFICATION Spec
CONSTANTS
    p1 = p1
    p2 = p2
    r1 = r1
    r2 = r2
    r3 = r3
    a = a
    b = b
    Proc = {p1, p2}
    Receipt = {r1, r2}
    Path = {a, b}
    Refs <- MCSmallRefs
    NoProc = NoProc
    NoReceipt = NoReceipt
    NoPath = NoPath
    MaxReceipts = 2
    MaxAttempts = 2
    MaxMishaps = 2
    MaxLosses = 1
SYMMETRY Symmetric
INVARIANTS
    RecoveryUnobstructed
