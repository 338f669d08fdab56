SPECIFICATION MCSpec
CONSTANTS
    v = v
    w = w
    s = s
    pos = pos
    Source = {s}
    Arm = {pos, neg}
    neg = neg
    Verifier = {v, w}
    Cites <- MCCites
    Showing = {"contradicted", "satisfied"}
    MaxTime = 2
    MaxResults = 4
    MaxDrafts = 2
    RequestExpiry = 1
    Fresh = 1
    MaxPapers = 1
SYMMETRY Symmetric
INVARIANTS
    TypeOK
    HistoryClosed
    WithdrawalHasItsReason
    OnlyStandingAcceptanceSettles
PROPERTIES
    ChainReplays
    NewestRunCounts
    RefutationRespected
    AcceptedOnEvidence
CHECK_DEADLOCK FALSE
