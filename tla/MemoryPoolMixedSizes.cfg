\* 8 and 40 bytes are in different classes with different block sizes.
SPECIFICATION Spec
CONSTANTS
    Threads = {t1, t2}
    Sizes = {8, 40}
    BlocksPerChunk = 2
    CacheLimit = 1
    MaxChunks = 3
SYMMETRY Symmetry
INVARIANTS
    SizeFits
CHECK_DEADLOCK FALSE
