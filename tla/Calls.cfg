SPECIFICATION Spec
CONSTANTS
    Sites = {s1, s2}
    Restorer = Restorer
    MaxDepth = 2
    R10 = R10
    R11 = R11
    None = None
INVARIANTS
    AreaMatches
    NoFalseTrap
    RegsKept
PROPERTIES
    ReturnsToCaller
SYMMETRY Symmetry
CHECK_DEADLOCK FALSE
