CONSTANTS
    Threads = {t1, t2}
    Bottom = 0
    Top = 4
    Lengths = {1}
    GuardPages = 1
    None = None
SPECIFICATION Spec
INVARIANT NeverMappedTwice
CHECK_DEADLOCK FALSE
