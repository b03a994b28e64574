CONSTANTS
    MaxOps = 10
    Buffptr = {p1}
    NULL = NULL
    Size = {1, 2}
SPECIFICATION CBSpec
INVARIANTS
    CBTypeOK
    RingShape
    FindMatchesConcatenation
PROPERTY KeepsLatest
