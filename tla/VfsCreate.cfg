CONSTANTS
    Keys <- MCKeys
    None = None
    Created <- InDirectory
SPECIFICATION VfsSpec
INVARIANT NoPanic
CHECK_DEADLOCK FALSE
