SPECIFICATION AllocSpec
CONSTANTS
    Threads = {t1, t2}
    Sizes = {20, 32}
    BlocksPerChunk = 2
    CacheLimit = 1
    MaxChunks = 2
    Requests <- MCRequests
    MaxDepth = 2
SYMMETRY Symmetry
INVARIANTS
    MemoryPoolInv
    CacheBound
    AllocInv
CHECK_DEADLOCK FALSE
