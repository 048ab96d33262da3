CONSTANTS
    Users = {a, b, c}
    Finders = {a, b, c}
    Iterators = {a}
    Destroyers = {}
    Quiet = TRUE
    MaxObjects = 2
    None = None
SPECIFICATION Spec
INVARIANTS NoSelfDeadlock
CHECK_DEADLOCK FALSE
