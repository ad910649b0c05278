SPECIFICATION KernelSpec
CONSTANTS
    a = a
    b = b
    t1 = t1
    t2 = t2
    t3 = t3
    d1 = d1
    d2 = d2
    l1 = l1
    l2 = l2
    Tgids = {a}
    Threads = {t1, t2}
    Group <- MCGroup
    Descs = {d1, d2}
    Pagelists = {l1, l2, l3}
    THREADS_LIMIT = 2
    GL_SA_CAPACITY = 1
    MayFail = FALSE
    CopyFails = FALSE
    Careless = {t1}
    NULL = NULL
    XA_ZERO = XA_ZERO
    Zeroed = Zeroed
SYMMETRY Symmetry
INVARIANTS
    ExclusivePages
    RefsCovered
    GlBound
    GlSize
