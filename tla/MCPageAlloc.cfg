SPECIFICATION Spec
CONSTANTS
    KThreads = {k1, k2}
    Procs = {p1, p2}
    ByteBits = 2
    KBytes = 1
    UBytes = 1
    VBytes = 1
    MaxPages = 2
    MaxBusy = 2
SYMMETRY Symmetry
CONSTRAINT FewBusy
INVARIANTS UserFramesExclusive MappedMarked RunsDisjoint LockGivenBack
CHECK_DEADLOCK FALSE
