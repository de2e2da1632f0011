\* Refinement and liveness: two threads, two identities, vnodes that are reused.
SPECIFICATION FairSpec
CONSTANTS
    Threads = {t1, t2}
    Keys = {k1, k2}
    Nodes = {n1, n2}
    Vnodes = {v1, v2}
    NULL = NULL
    MaxVid = 2
PROPERTIES
    ImplementsVnodeTable
    GetsWhatItAskedFor
    SleepEnds
    FindReturns
