SPECIFICATION Spec
CONSTANTS
    Blocks = {1, 2, 3}
    BlockKinds <- MCKinds
    MASK = 1
    HighBits = {2, 4}
    MAX = 7
    Facts <- MCFacts
    Builds <- MCBuilds
    NULL = NULL
INVARIANTS
    SameTarget
    Confined
CHECK_DEADLOCK FALSE
