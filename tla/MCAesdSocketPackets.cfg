CONSTANTS
    Capacity = 3
    Chunk = {}
    NL = NL
    NUL = NUL
    Conn = {c1, c2, c3}
    Byte <- MCByte
    Segments <- WholePackets
    SeekText = SeekText
    BadSeekText = BadSeekText
    BufferSize = 5
    AllocUnit = 8
    Stray = stray
    NoConn = NoConn
    Readers = {}
    MayFailWrite = TRUE
    MayReset = TRUE
    MaySignal = FALSE
    MayLackThread = FALSE
    c1 = c1
    c2 = c2
    c3 = c3
    x = x
    y = y
    z = z
    stray = stray
SPECIFICATION SockSpec
INVARIANTS
    PacketStoredOnce
    AnswerCoversPacket
    SentWhileGrowing
CHECK_DEADLOCK FALSE
