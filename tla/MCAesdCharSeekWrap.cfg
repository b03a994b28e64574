CONSTANTS
    MaxOps = 2
    Buffptr = {b1, b2, b3}
    NULL = NULL
    Size = {1}
    Proc = {p1}
    NoOwner = NoOwner
    a = a
    NL = NL
    Byte = {a, NL}
    Chunk <- MCChunk
    ReadCount = {1}
    SeekCmd = {0, 1, 2}
    SeekOffset = {0, 1}
    LseekOffset = {}
    AllocMayFail = FALSE
    CopyMayFault = FALSE
    MaxPending = 1
    MaxPos = 3
SPECIFICATION CharSpec
PROPERTY SeekCountsFromOldest
