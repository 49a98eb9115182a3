SPECIFICATION LoggerSpec
CONSTANTS
    Callers = {t1, t2}
    Levels = {0, 1}
    Paths = {p0, p1}
    DefaultPath = p0
    MaxCalls = 2
    MaxTime = 1
SYMMETRY Symmetry
INVARIANTS
    TimeOfCall
CHECK_DEADLOCK FALSE
