\* One descriptor for two sessions, so that it is closed and used again.
SPECIFICATION FairSpec
CONSTANTS
    Workers = {w1, w2}
    Acceptor = acceptor
    Sessions = {s1, s2}
    ListenFd = listenfd
    Fds = {f1}
    Ops = {"read", "write"}
    Failures = {"accept", "read", "write"}
    None = None
    Null = Null
INVARIANTS
    OneHolder
PROPERTIES
    ConnectionServed
    ReadServed
    RunReturns
CHECK_DEADLOCK FALSE
