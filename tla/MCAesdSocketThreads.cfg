CONSTANTS
    Capacity = 1
    Chunk = {}
    NL = NL
    NUL = NUL
    Conn = {c1, c2, c3}
    Byte <- MCByte
    Segments <- AnyPackets
    SeekText = SeekText
    BadSeekText = BadSeekText
    BufferSize = 5
    AllocUnit = 4
    Stray = stray
    NoConn = NoConn
    Readers = {}
    MayFailWrite = TRUE
    MayReset = TRUE
    MaySignal = TRUE
    MayLackThread = TRUE
    c1 = c1
    c2 = c2
    c3 = c3
    x = x
    y = y
    z = z
    stray = stray
SPECIFICATION SockSpec
INVARIANTS
    SockTypeOK
    NodeOutlivesThread
    
    AnswerNeverRepeats
CHECK_DEADLOCK FALSE
