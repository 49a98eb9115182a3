SPECIFICATION FairSpec
CONSTANTS
    Workers = {w1, w2}
    Clients = {c1}
    Coroutines = {k1, k2, k3}
    None = None
INVARIANTS
    SchedulerInv
    StopDrains
PROPERTIES
    ImplementsExecutor
    StopReturns
CHECK_DEADLOCK FALSE
