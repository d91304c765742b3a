SPECIFICATION Spec
CONSTANTS
    t1 = t1
    t2 = t2
    Threads = {t1, t2}
    ByteBits = 3
    len = 1
    PG_SIZE = 6
    Header = 2
    Link = 2
    DESC_CNT = 2
    SmallestBlock = 2
    Sizes = {2, 3, 8, 14}
    MaxHeld = 2
    MaxTaken = 2
SYMMETRY Symmetry
INVARIANTS NoOverlap InUseMapped EveryBlockCounted HaltsOnlyForMemory
CHECK_DEADLOCK FALSE
