CONSTANTS
    r1 = r1
    r2 = r2
    r3 = r3
    h1 = h1
    h2 = h2
    pool = pool
    cache = cache
    proposed = proposed
    Resolver <- MCResolver
    Host <- MCHost
    Pool <- MCPool
    Local <- MCLocal
    MaxRef = 3
SPECIFICATION Spec
INVARIANTS
    NoDanglingPointer
    RefCountCoversHolders
    DistinctHosts
PROPERTY ImplementsOwnership
