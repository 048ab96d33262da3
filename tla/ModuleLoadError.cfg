CONSTANTS
    a = a
    b = b
    c = c
    d = d
    NoThread = NoThread
    BadKind = "bad_sections"
    WordSize <- MCWordSize
    Writers <- WritersAB
    Readers <- ReadersABC
SPECIFICATION LoaderSpec
PROPERTY LoadReturns
CHECK_DEADLOCK FALSE
