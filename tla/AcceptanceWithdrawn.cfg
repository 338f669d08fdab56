SPECIFICATION MCSpec
CONSTANTS
    v = v
    s = s
    pos = pos
    neg = neg
    Source = {s}
    Arm = {pos, neg}
    Verifier = {v}
    Cites <- MCCites
    Showing = {"contradicted", "satisfied"}
    MaxTime = 2
    MaxResults = 2
    MaxDrafts = 1
    RequestExpiry = 1
    Fresh = 1
    MaxPapers = 1
INVARIANTS
    WithdrawalIsRead
CHECK_DEADLOCK FALSE
