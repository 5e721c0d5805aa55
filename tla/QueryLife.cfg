SPECIFICATION Spec
CONSTANTS
    q1 = q1  q2 = q2  q3 = q3  q4 = q4  r1 = r1  r2 = r2  p1 = p1  p2 = p2  name = name  None = None
    Query <- FourQueries
    Resolver <- TwoResolvers
    Port <- TwoPorts
    Name <- Names
    Doomed = {r2}
    MaxQueryDepth = 2
    BootstrapTicks = 1
SYMMETRY Interchange
INVARIANTS PendingIsGuarded HistoryIsSound
PROPERTIES OutcomeIsFinal
CHECK_DEADLOCK FALSE
