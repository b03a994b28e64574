CONSTANTS
    MaxOps = 1
    Buffptr = {b1, b2}
    NULL = NULL
    Size = {1}
    Proc = {p1, p2}
    NoOwner = NoOwner
    a = a
    NL = NL
    Byte = {a, NL}
    Chunk <- MCChunk
    ReadCount = {2}
    SeekCmd = {0}
    SeekOffset = {0}
    LseekOffset = {}
    AllocMayFail = TRUE
    CopyMayFault = FALSE
    MaxPending = 1
    MaxPos = 1
SPECIFICATION CharFairSpec
PROPERTY CallReturns
