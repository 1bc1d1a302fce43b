SPECIFICATION FairSpec
CONSTANTS
    Threads = {t1, t2, t3, t4}
    Conns = {c1, c2, c3, c4, c5}
    None = None
    PoolSize = 1
    MaxSize = 4
INVARIANTS
    Exclusive
    SizeBounded
PROPERTIES
    KeepsPromise
    NoConnStarves
CHECK_DEADLOCK FALSE
