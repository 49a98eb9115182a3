SPECIFICATION CoroutineSpec
CONSTANTS
    Workers = {w1, w2}
    a = a
    b = b
    a1 = a1
    a2 = a2
    a11 = a11
    b1 = b1
    Coroutines <- MCCoroutineSet
    Parent <- MCParent
    None = None

    Clients = {c1, c2}
    NoTask = NoTask
    Tasks = {t1, t2, t3}
INVARIANTS
    ResumeInv
    HasExecutor
    NoFrameLeft
    UndefinedInWindows
PROPERTIES
    AwaitReturns
    GetReturns
CHECK_DEADLOCK FALSE
