CONSTANTS
    None = None
    Readers = {r}
    Writers = {w}
    Peekers = {r}
    Capacity = 2
    MaxItems = 3
SPECIFICATION Spec
INVARIANTS InOrder
CHECK_DEADLOCK FALSE
