SPECIFICATION Spec
CONSTANTS
    t1 = t1
    t2 = t2
    e1 = e1
    e2 = e2
    MemoryError = MemoryError
    NULL = NULL
    Idle = Idle
    Threads = {t1, t2}
    Exc = {e1, e2, MemoryError}
    MaxLocals <- MCMaxLocals
    MaxLost <- MCMaxLost
SYMMETRY ErrorSymmetry
INVARIANTS CountsAgree CauseChainEnds ErrorStatesApart CaughtStays
PROPERTY NothingMasked
CHECK_DEADLOCK FALSE
