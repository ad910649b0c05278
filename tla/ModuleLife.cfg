SPECIFICATION Spec
CONSTANTS
    Procs = {p1, p2}
    Files = {f1, f2}
    Symbols <- MCSymbols
    NULL = NULL
INVARIANTS
    Registrations
    CallsSafe
    ShownAlive
