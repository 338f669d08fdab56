SPECIFICATION FairSpec
CONSTANTS
    p1 = p1
    p2 = p2
    t1 = t1
    t2 = t2
    k1 = k1
    Proc = {p1, p2}
    TestReq = {t1}
    ToolReq = {k1}
    NoProc = NoProc
    NoReq = NoReq
    MaxMishaps = 1
    MaxGrants = 0
    MaxDenials = 0
PROPERTIES
    StagingIsCleaned
