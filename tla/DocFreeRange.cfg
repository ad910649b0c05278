SPECIFICATION Spec
CONSTANTS
    PMD_SIZE = 2
    PUD_SIZE = 4
    P4D_SIZE = 8
    PTRS_PER_PGD = 4
    WORD = 64
    SS_START = 24
    SS_SIZE = 4
    AREAS = 2
    Others = {1, 6, 16}
INVARIANTS
    RangeOnly
CHECK_DEADLOCK FALSE
