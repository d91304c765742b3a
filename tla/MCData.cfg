SPECIFICATION MCSpec
CONSTANTS
    Callers = {c1, c2}
    Lists = {ready_list, waiters}
    Elements = {e1, e2, e3}
    NULL = NULL
    Many = Many
    Chars = {1, 2, 200}
    MaxLen = 2
    HexDigits = 2
    ByteBits = 3
    MapBytes = 2
    MaxRun = 3
    MaxChain = 9
    Ext = 1000
    Gap = 10
SYMMETRY Symmetry
INVARIANTS FindRight StringsRight PrintedRight LowestClearRun PartitionsFound
PROPERTIES ImplementsList
CHECK_DEADLOCK FALSE
