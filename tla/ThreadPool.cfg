\* THREADS_NUM is 2 in the code.  The third worker is there for a restart
\* while a thread detached by stopHard still lives.
SPECIFICATION FairSpec
CONSTANTS
    Workers = {w1, w2, w3}
    Clients = {c1}
    Tasks = {t1, t2}
    THREADS_NUM = 2
    MaxHardStops = 1
    None = None
INVARIANTS
    PoolInv
    WorkConserving
    StopDrains
    NoWorkerAfterDestroy
PROPERTIES
    ImplementsExecutor
    QueuedTaskRuns
    StopReturns
CHECK_DEADLOCK FALSE
