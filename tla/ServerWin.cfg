SPECIFICATION FairSpec
CONSTANTS
    a = a
    b = b
    o = o
    T1 = {a}
    T2 = {b}
    Sizes = {1, 2}
    Original <- MCOriginal
    NetshFails = FALSE
    Disturbance = {"resize", "toggle"}
    MaxDisturbances = 2
INVARIANTS TypeOK OneOfEach NoStray
PROPERTIES ImplementsActive UpdateEnds Heals
