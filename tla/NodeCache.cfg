\* Safety: three threads, two identities.
SPECIFICATION Spec
CONSTANTS
    Threads = {t1, t2, t3}
    Keys = {k1, k2}
    Nodes = {n1, n2, n3}
    Vnodes = {v1, v2}
    NULL = NULL
    MaxVid = 2
SYMMETRY Symmetry
INVARIANTS
    UniqueIdentity
    ResultIsPinned
    IInv
