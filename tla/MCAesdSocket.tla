---------------------------- MODULE MCAesdSocket ----------------------------
(***************************************************************************)
(* Model of the server for TLC: what the clients send, and the properties  *)
(* that compare it with what is stored and answered.  Each client sends a  *)
(* byte of its own, so that packets can be told apart.                     *)
(***************************************************************************)
EXTENDS AesdSocket, SequencesExt, FiniteSetsExt

CONSTANTS c1, c2, c3, x, y, z, stray

MCByte == {x, y, z, stray, NL, NUL, SeekText, BadSeekText}

(* Packets that end in their newline and take two recv() calls; two are    *)
(* longer than BUFFER_SIZE, and one of them overruns its buffer.  And one  *)
(* with a zero, behind which its newline is lost.                          *)
WholePackets ==
    [c \in Conn |-> CASE c = c1 -> {<<<<x>>, <<NL>>>>}
                      [] c = c2 -> {<<<<y, y, y>>, <<y, y, NL>>>>, <<<<y, y, y, y>>, <<y, y, y, NL>>>>}
                      [] c = c3 -> {<<<<z, z>>, <<NL>>>>, <<<<z, NUL, NL>>>>}]

(* Anything: an unfinished packet with a zero, bytes behind the newline,   *)
(* seek commands of both forms, segments that fill buff, packets that      *)
(* overrun their buffer.                                                   *)
AnyPackets ==
    [c \in Conn |-> CASE c = c1 -> {<<<<x, NUL, x>>>>, <<<<x, NL, x, x>>>>}
                      [] c = c2 -> {<<<<SeekText, NL>>>>, <<<<BadSeekText, NL>>>>, <<<<BadSeekText>>>>}
                      [] c = c3 -> {<<<<SeekText, NL>>>>, <<<<z, z, z, z, z>>, <<NL>>>>}]

(* Packets of one piece. *)
SinglePackets ==
    [c \in Conn |-> CASE c = c1 -> {<<<<x, x, NL>>>>}
                      [] c = c2 -> {<<<<y, NL>>>>}
                      [] c = c3 -> {<<<<z, NL>>>>}]

-----------------------------------------------------------------------------
(* What the client of c sends in all. *)
Packet(c) == FlattenSeq(request[c])

(* Whether it goes to the device. *)
Ordinary(c) == Packet(c) # <<>> /\ Head(Packet(c)) \notin {SeekText, BadSeekText}

(* The places of the packet of c among the stored commands. *)
StoredAt(c) == {i \in DOMAIN commands : commands[i] = Packet(c)}

Written == {"echo", "complete", "returned", "joined"}

(* No client that has connected so far sends a zero. *)
NoZeroYet ==
    \A c \in Conn : cpc[c] # "unused" =>
        \A i \in DOMAIN request[c] : \A k \in DOMAIN request[c][i] : request[c][i][k] # NUL

(* A client that sends its packet with a newline at the end finds it       *)
(* stored once, as one command, by the time its answer begins and not      *)
(* earlier, however many recv() calls of thread_func it takes; also when   *)
(* the process dies and is restarted in between.  It holds until a packet  *)
(* with a zero is sent, whose newline is lost so that its first part comes *)
(* to stand in front of somebody else's packet, and until the heap is      *)
(* damaged.  (The segments leave a zero in buff.  Clients send different   *)
(* packets, and nothing is evicted: Capacity is the number of clients.)    *)
PacketStoredOnce ==
    overrun = {} /\ dangled = {} /\ NoZeroYet =>
      /\ partial = <<>>
      /\ \A c \in Conn :
            Ordinary(c) =>
              /\ cpc[c] \in Written => \E i \in DOMAIN commands : StoredAt(c) = {i}
              /\ cpc[c] \in {"recv", "dispatch"} => StoredAt(c) = {}
              /\ cpc[c] = "dropped" => \A i, j \in StoredAt(c) : i = j

(* The answer to a packet, the bytes the read() loop of thread_func gets,  *)
(* holds every command of the device from the oldest to the packet itself, *)
(* whole and in order, with other threads writing in between (nothing      *)
(* being evicted).                                                         *)
AnswerCoversPacket ==
    \A c \in Conn :
        Ordinary(c) /\ cpc[c] = "complete" =>
            \A i \in StoredAt(c) : \A j \in 1 .. i :
                /\ Len(seen[c]) >= Offset[j]
                /\ SubSeq(seen[c], Offset[j - 1] + 1, Offset[j]) = commands[j]

Occurrences(b, bytes) == Cardinality({i \in DOMAIN bytes : bytes[i] = b})

(* The read() loop of thread_func gets no byte more often than clients     *)
(* have sent it, although the commands in front of the file position may   *)
(* be evicted, and others added, between two reads: an eviction makes an   *)
(* answer skip bytes, but never repeat any.                                *)
AnswerNeverRepeats ==
    \A c \in Conn, b \in Byte \ {Stray} :
        Occurrences(b, seen[c]) <= SumFunction([d \in Conn |-> Occurrences(b, Packet(d))])

=============================================================================
