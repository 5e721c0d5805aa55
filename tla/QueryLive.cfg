SPECIFICATION FairSpec
CONSTANTS
    q1 = q1  q2 = q2  q3 = q3  q4 = q4  r1 = r1  r2 = r2  p1 = p1  p2 = p2  name = name  None = None
    Query <- FourQueries
    Resolver <- OneResolver
    Port <- TwoPorts
    Name <- Names
    Doomed = {}
    MaxQueryDepth = 3
    BootstrapTicks = 2
PROPERTIES QueryEnds DeadIsNoticed
