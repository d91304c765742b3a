SPECIFICATION Spec
CONSTANTS
    KThreads = {k1, k2}
    Procs = {}
    ByteBits = 3
    KBytes = 1
    UBytes = 1
    VBytes = 1
    MaxPages = 2
    MaxBusy = 2
SYMMETRY Symmetry
CONSTRAINT FewBusy
INVARIANTS FreedFramesReturn
CHECK_DEADLOCK FALSE
