CONSTANTS
    Capacity = 1
    Chunk = {}
    NL = NL
    NUL = NUL
    Conn = {c1, c2}
    Byte <- MCByte
    Segments <- SinglePackets
    SeekText = SeekText
    BadSeekText = BadSeekText
    BufferSize = 5
    AllocUnit = 8
    Stray = stray
    NoConn = NoConn
    Readers = {c1}
    MayFailWrite = FALSE
    MayReset = FALSE
    MaySignal = FALSE
    MayLackThread = FALSE
    c1 = c1
    c2 = c2
    c3 = c3
    x = x
    y = y
    z = z
    stray = stray
SPECIFICATION SockFairSpec
PROPERTIES
    AcceptNotBlocked
    AnswerEnds
    NextClientReaps
CHECK_DEADLOCK FALSE
