SPECIFICATION FairKernelSpec
CONSTANTS
    a = a
    b = b
    t1 = t1
    t2 = t2
    t3 = t3
    d1 = d1
    d2 = d2
    l1 = l1
    l2 = l2
    Tgids = {a, b}
    Threads = {t1, t2, t3}
    Group <- MCGroup
    Descs = {d1, d2}
    Pagelists = {l1, l2}
    THREADS_LIMIT = 1
    GL_SA_CAPACITY = 1
    MayFail = FALSE
    CopyFails = FALSE
    Careless = {t2}
    NULL = NULL
    XA_ZERO = XA_ZERO
    Zeroed = Zeroed
ACTION_CONSTRAINT Roles
INVARIANTS
    ForkSourceStable
    NoUseAfterFree
PROPERTIES
    OpsReturn
