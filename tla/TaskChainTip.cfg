SPECIFICATION Spec
CONSTANTS
    d1 = d1
    d2 = d2
    v1 = v1
    u = u
    Root = root
    NoGrant = none
    Developers = {d1, d2}
    Verifiers = {v1}
    Unfit = {u}
    SingleUse = {d2}
    Calls <- MCCalls
    RootCalls = 8
    RootRounds = 1
    RoutineCap = 10
INVARIANT
    AuthorizedIsPublishable
CHECK_DEADLOCK FALSE
