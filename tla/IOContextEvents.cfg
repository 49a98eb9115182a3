SPECIFICATION Spec
CONSTANTS
    Workers = {w1, w2}
    Acceptor = acceptor
    Sessions = {s1}
    ListenFd = listenfd
    Fds = {f1}
    Ops = {"read", "write"}
    Failures = {}
    None = None
    Null = Null
INVARIANTS
    EventsMatch
CHECK_DEADLOCK FALSE
