SPECIFICATION Spec
CONSTANTS
    PAGE = 32
    ALIGN = 4
    TASK_SIZE = 256
    BASE = 128
    MEM_SIZE = 32
    STACK_SIZE = 32
    ADR_HINT = 64
    RANDOM_LEN = 2
    MayFail = TRUE
    Maps <- DisjointMaps
    Args <- MCArgs
INVARIANTS
    NothingClobbered
    SetupMemory
    TopGapOnly
    CopyInside
    Relocated
    KernelView
CHECK_DEADLOCK FALSE
