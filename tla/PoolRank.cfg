SPECIFICATION Spec
CONSTANTS
    r1 = r1
    r2 = r2
    r3 = r3
    Resolver = {r1, r2, r3}
    T1 <- MCT1
    T2 <- MCT2
    Latencies <- MCLatencies
    MaxQueryDepth = 2
    Unit = 2
    MaxTests = 4
INVARIANTS NoneLost
PROPERTIES RankingIsJust SlowestIsLast
