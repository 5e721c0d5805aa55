CONSTANTS
    a = a
    b = b
    c = c
    d = d
    e = e
    isp1 = isp1
    isp2 = isp2
    Line <- MCLine
    Original <- OneLine
    T1 = {a, b}
    T2 = {c, d}
    Sizes = {2, 3}
    T2Tries = 2
    DeadRankLast = TRUE
    Disturbance = {"health", "resize", "update_dns", "shutdown"}
    MaxDisturbances = 2
    WriteFails = FALSE
SPECIFICATION RefreshFairSpec
INVARIANTS
    SystemFollowsCache
    OriginalIsKept
PROPERTIES
    ColdBootEnds
    DeadResolverIsReplaced
