CONSTANTS
    a = a
    b = b
    c = c
    d = d
    NoThread = NoThread
    BadKind = "bad_header"
    WordSize <- MCWordSize
    Writers <- WritersAB
    Readers <- ReadersABC
SPECIFICATION MCSpec
INVARIANTS
    WriterExclusion NoUseAfterDelete
    TreeIsExact NoLostWakeup QueuesAreExact
PROPERTIES
    ImplementsRWLock SpinnersProgress ImplementsExclusiveLock QueuesDrain
\* A deleted mutex or timer is not used any more.
CHECK_DEADLOCK FALSE
