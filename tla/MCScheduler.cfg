CONSTANTS
    a = a
    b = b
    c1 = c1
    c2 = c2
    ev = ev
    ev2 = ev2
    ta = ta
    tb = tb
    None = None
    Threads <- TwoThreads
    Cpus <- TwoCpus
    Events <- OneEvent
    TermEvent <- MCTermEvent
    Joins <- AJoinsB
    Waits <- WaitsAndJoins
    Deletable <- OnlyEv
    MaxSeq = 2
    MaxListed = 3
SPECIFICATION MCSpec
INVARIANTS ThreadsAreInOnePlace ProcessesAreHeld CheckStillHolds NoUnterminatedDelete
PROPERTY JoinReturns
