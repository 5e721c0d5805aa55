SPECIFICATION FairSpec
CONSTANTS
    Process = {p1, p2, p3}
    Command = {c1, c2, c3}
    serviceFlags = {"CanBeSuspended"}
    None = None
    Leftover = Leftover
INVARIANTS SoleIsSeen
PROPERTIES EveryCommandEnds OneRemains StartServes
CHECK_DEADLOCK FALSE
