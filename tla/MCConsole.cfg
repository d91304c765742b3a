SPECIFICATION Spec
CONSTANTS
    t1 = t1
    t2 = t2
    a = a
    b = b
    x = x
    y = y
    LF = LF
    BS = BS
    Blank = Blank
    None = None
    console_lock = console_lock
    Threads = {t1, t2}
    Texts <- MCTexts
    Report <- MCReport
    Rows = 3
    Cols = 3
    Base = 4
SYMMETRY Symmetry
INVARIANTS ReportReadable
PROPERTIES ImplementsTerminal
CHECK_DEADLOCK FALSE
