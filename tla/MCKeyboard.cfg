SPECIFICATION KeyboardSpec
CONSTANTS
    Keys = {"grey", "shift_l", "shift_r", "ctrl_r", "caps_lock"}
    Readers = {r1, r2}
    bufsize = 3
    NULL = NULL
    r1 = r1
    r2 = r2
    MaxTyped = 5
    MaxWire = 4
SYMMETRY Symmetry
INVARIANTS NoStuckModifier
PROPERTIES OldestFirst
CHECK_DEADLOCK FALSE
