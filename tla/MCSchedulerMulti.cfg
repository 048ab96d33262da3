CONSTANTS
    a = a
    b = b
    c1 = c1
    c2 = c2
    ev = ev
    ev2 = ev2
    ta = ta
    tb = tb
    None = None
    Threads <- TwoThreads
    Cpus <- TwoCpus
    Events <- TwoEvents
    TermEvent <- MCTermEvent
    Joins = {}
    Waits <- DoubleWaits
    Deletable = {}
    MaxSeq = 1
    MaxListed = 3
SPECIFICATION PairSpec
INVARIANTS NoUnterminatedDelete
CHECK_DEADLOCK FALSE
