CONSTANTS
    a = a
    b = b
    c = c
    d = d
    e = e
    isp1 = isp1
    isp2 = isp2
    Line <- MCLine
    Original <- TwoLines
    T1 = {a, b}
    T2 = {c}
    Sizes = {2}
    T2Tries = 2
    DeadRankLast = FALSE
    Disturbance = {"crash"}
    MaxDisturbances = 2
    WriteFails = FALSE
SPECIFICATION Spec
INVARIANT
    OriginalIsKept
