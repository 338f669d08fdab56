SPECIFICATION FairSpec
CONSTANTS
    p = p
    q = q
    Source = source
    Patch = {p, q}
    MaxSteps = 3
    MaxMishaps = 2
INVARIANTS
    TypeOK
    ReportIsTrue
    LoadableIsProved
PROPERTIES
    OldKeptUntilVerified
    InterruptedRebuildFinishes
