CONSTANTS
    MaxOps = 3
    Buffptr = {b1, b2, b3, b4}
    NULL = NULL
    Size = {1}
    Proc = {p1}
    NoOwner = NoOwner
    a = a
    NL = NL
    Byte = {a, NL}
    Chunk <- MCChunk
    ReadCount = {1}
    SeekCmd = {0, 1, 2, 3}
    SeekOffset = {0, 1, 2}
    LseekOffset <- MCLseekOffset
    AllocMayFail = FALSE
    CopyMayFault = FALSE
    MaxPending = 1
    MaxPos = 3
SPECIFICATION CharSpec
SYMMETRY Symmetry
PROPERTIES
    SeekFromStart
    LseekInside
