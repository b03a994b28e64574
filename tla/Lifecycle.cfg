CONSTANTS
    Conn = {c1, c2}
    Shell = {s1, s2}
    File = {f1, f2, f3, f4}
    Stamp = Stamp
    MaxStamps = 1
SPECIFICATION LifeFairSpec
INVARIANTS
    LifeTypeOK
    PathStays
    FileKeepsPackets
    AnswerHoldsPacket
    NoStaleNode
CHECK_DEADLOCK FALSE
PROPERTY StopCompletes
