CONSTANTS
    Keys <- MCKeys
    None = None
    Created <- InRoot
SPECIFICATION MCSpec
INVARIANTS
    TreeIsRight MemoryIsTiled FreeListsAreExact PagesAreRight
    FilesAreKept NamesAreFound DataIsRestored
PROPERTIES
    ImplementsPool
\* Memory that ran out, and operations that end in a panic of the kernel.
CHECK_DEADLOCK FALSE
