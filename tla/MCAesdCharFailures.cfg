CONSTANTS
    MaxOps = 2
    Buffptr = {b1, b2, b3}
    NULL = NULL
    Size = {1}
    Proc = {p1, p2}
    NoOwner = NoOwner
    a = a
    NL = NL
    Byte = {a, NL}
    Chunk <- MCChunkMid
    ReadCount = {}
    SeekCmd = {}
    SeekOffset = {}
    LseekOffset = {}
    AllocMayFail = TRUE
    CopyMayFault = TRUE
    MaxPending = 1
    MaxPos = 4
SPECIFICATION CharSpec
SYMMETRY Symmetry
INVARIANTS
    Ownership
    SizesExact
    CommandsTerminated
