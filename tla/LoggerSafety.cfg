SPECIFICATION LoggerSpec
CONSTANTS
    Callers = {t1, t2}
    Levels = {0, 1}
    Paths = {p0, p1}
    DefaultPath = p0
    MaxCalls = 5
    MaxTime = 1
SYMMETRY Symmetry
INVARIANTS
    SelectedIsCurrent
    NothingLost
CHECK_DEADLOCK FALSE
