SPECIFICATION FairSpec
CONSTANTS
    Workers = {w1}
    Clients = {c1}
    Coroutines = {k1}
    None = None
PROPERTIES
    EveryCoroutineRuns
CHECK_DEADLOCK FALSE
