\* kCheapPrepend is 8 and extraBuf 65536 in the code.  Small values let a
\* few bytes reach every branch: moving to the front needs more than
\* kCheapPrepend bytes consumed, the second vector a read beyond the first.
SPECIFICATION SequentialSpec
CONSTANTS
    KCheapPrepend = 2
    InitialSize = 3
    ExtraBuf = 2
    MaxBytes = 8
    MaxLen = 4

    Frames = {c1, c2}
    Generators = {g1, g2}
    Iterators = {i1, i2}
    Yields = 2
    NullCoro = NullCoro

    Letters <- MCLetters
    Methods = {"GET", "UNKNOWN"}
    Versions = {"HTTP/1.1", "UNKNOWN"}
    Urls <- MCUrls
    Names <- MCNames
    Values <- MCValues
    Bodies <- MCBodies
    MaxMessages = 2

    Proxies = {p1, p2}
    Root = root
    Keys <- MCKeys
    Indices = {0, 1}
    Scalars <- MCScalars
    Numbers = {7, 1234567}
    Alphabet <- MCAlphabet
    Starts <- MCStarts
    MaxText = 4
    MaxOps = 4

    Characters <- MCCharacters
    Formats <- MCFormats
    Arguments <- MCArguments
SYMMETRY Symmetry
INVARIANTS
    BufferInv
    SizeBound
    GeneratorInv
    ParsedMessage
    RoundTrip
    ProxyDenotes
    ParserAccepts
    ReadOnce
    ArgumentsUsed
PROPERTIES
    InOrder
CHECK_DEADLOCK FALSE
