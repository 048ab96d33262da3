CONSTANTS
    NoThread = NoThread
    WordSize = 16
    Threads = {a, b, c}
    Queriers = {a, b}
    Deleters = {}
SPECIFICATION Spec
INVARIANTS NoWrongRelease
CHECK_DEADLOCK FALSE
