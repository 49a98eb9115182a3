SPECIFICATION FairSpec
CONSTANTS
    Workers = {w1, w2, w3}
    Clients = {c1, c2}
    Tasks = {t1, t2, t3, t4}
    TheStrand = strand
    None = None
INVARIANTS
    StrandInv
    NeverOverlap
PROPERTIES
    ImplementsSerialExecutor
    EveryTaskRuns
CHECK_DEADLOCK FALSE
