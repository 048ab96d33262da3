CONSTANTS
    a = a
    b = b
    c = c
    Users <- ThreeUsers
    Finders <- ThreeUsers
    Iterators <- OnlyA
    Destroyers <- OnlyB
    Quiet = TRUE
    MaxObjects = 2
    None = None
SPECIFICATION MCSpec
INVARIANTS
    CountIsExact HeldIsAlive NoLeak
    CacheAgrees NoPermissionFromNothing PendingIsAnnounced
    AccountsAreRestored LinesAreRight
PROPERTIES
    SignalsInterruptSleep KeptUntilUnmasked ImplementsPool
\* Objects that are gone, a deleted manager and a thread that ended are not
\* used any more.
CHECK_DEADLOCK FALSE
