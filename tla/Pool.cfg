SPECIFICATION FairSpec
CONSTANTS
    Threads = {t1, t2, t3, t4}
    CHUNKS = 3
    Recycle = TRUE
    NULL = NULL
INVARIANTS
    Exclusive
    WellLinked
    PoolBound
    ExitLimit
    OwnEntries
PROPERTIES
    ThreadsStart
CHECK_DEADLOCK FALSE
