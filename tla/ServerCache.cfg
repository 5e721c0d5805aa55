CONSTANTS
    a = a
    b = b
    c = c
    d = d
    e = e
    isp1 = isp1
    isp2 = isp2
    Line <- MCLine
    Original <- TwoLines
    T1 = {a, b}
    T2 = {c}
    Sizes = {0, 1, 2}
    T2Tries = 2
    DeadRankLast = FALSE
    Disturbance = {"resize", "toggle", "update_dns", "shutdown", "crash", "edit", "health"}
    MaxDisturbances = 2
    WriteFails = TRUE
SPECIFICATION Spec
INVARIANTS
    TypeOK
    CacheFull
    OneColdBoot
PROPERTY
    ImplementsActive
