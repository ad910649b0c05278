SPECIFICATION FairSpec
CONSTANTS
    Threads = {t1, t2}
    PAGES = 2
    Parent = Parent
    PipeFails = {t2}
    Signalled = {t2}
    Killable = {t1}
    BAD = BAD
    FILE = FILE
INVARIANTS
    ParentWaits
    NoFdLeak
PROPERTIES
    ForkReturns
CHECK_DEADLOCK FALSE
