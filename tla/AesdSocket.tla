----------------------------- MODULE AesdSocket -----------------------------
(***************************************************************************)
(* server/aesdsocket.c: the accept loop, its list of threads, and          *)
(* thread_func, one thread per connection, in the build with               *)
(* USE_AESD_CHAR_DEVICE.                                                   *)
(*                                                                         *)
(* /dev/aesdchar is the command log of module CommandLog, which the driver *)
(* is shown to implement (AesdChar!ImplementsLog): every write() of a      *)
(* thread is one step.  A byte is a model value; the text                  *)
(* "AESDCHAR_IOCSEEKTO:X,Y" is the one byte SeekText; BadSeekText is the   *)
(* same text up to the colon, with whatever follows it and no comma.  NUL  *)
(* is the zero byte, at which strncat, strlen and strtok end a text.       *)
(*                                                                         *)
(* Left out: syslog and console output, data_count (written by all threads *)
(* without a lock, never read), and failures of malloc, realloc, open,     *)
(* listen and accept, which all end the process as recv failing does.      *)
(***************************************************************************)
EXTENDS CommandLog

CONSTANTS Conn,         \* the connections; each is one client and one thread
          Byte,         \* the bytes that are sent
          Segments,     \* per client, what it may send: sequences of recv() results
          SeekText,     \* a well-formed seek command
          BadSeekText,  \* a seek command without its comma
          NUL,          \* the zero byte
          BufferSize,   \* BUFFER_SIZE (1024 in the code)
          NoConn,       \* "no connection", for strtok's saved pointer
          Stray,        \* a byte that happens to lie behind a stack buffer
          AllocUnit,    \* the granularity of malloc's blocks (16 in glibc)
          Readers,      \* the clients that read their answers
          MayFailWrite, \* whether the driver's write() may fail
          MayReset,     \* whether clients may reset their connections
          MaySignal,    \* whether SIGINT or SIGTERM may arrive
          MayLackThread \* whether pthread_create may fail

ASSUME ConnAssumption   == NoConn \notin Conn
ASSUME SegmentAssumption ==
    \A c \in Conn : \A s \in Segments[c] :
        s \in Seq(Seq(Byte)) /\ \A i \in DOMAIN s : Len(s[i]) \in 1 .. BufferSize
ASSUME BufferAssumption == BufferSize \in Nat \ {0} /\ AllocUnit \in Nat \ {0}
ASSUME CapacityAssumption == Capacity \in Nat \ {0}
ASSUME ByteAssumption   == Stray \in Byte /\ NUL \notin {Stray, NL}
ASSUME ReaderAssumption == Readers \subseteq Conn
ASSUME FaultAssumption  == {MayFailWrite, MayReset, MaySignal, MayLackThread} \subseteq BOOLEAN

VARIABLES server,    \* "up", "failed" after exit(1), "stopped" after exit_safely()
          mpc,       \* where the main thread is
          list,      \* the SLIST of connection nodes, head first
          scan,      \* the node SLIST_FOREACH is at
          cpc,       \* where each connection's thread is
          request,   \* the segments the client sends
          incoming,  \* the ones of them recv() has yet to return
          buffer,    \* the packet received so far
          overrun,   \* the connections whose buffer has been written past its end
          saved,     \* whose buffer strtok's static pointer points into
          left,      \* whether there is another token behind it
          mixed,     \* history: a thread has been given a number of another's text
          dangled,   \* history: the threads that have read a number from freed memory
          fpos,      \* the position of the thread's open device file
          sendbuf,   \* the text in send_buffer
          seen,      \* what read() has returned to a thread so far
          sent       \* what send() has been given by a thread so far

mainVars == <<server, mpc, list, scan>>
recvVars == <<request, incoming, buffer, overrun>>
echoVars == <<fpos, sendbuf, seen, sent>>
tokVars  == <<saved, left, mixed, dangled>>
sockVars == <<logVars, mainVars, cpc, recvVars, tokVars, echoVars>>

-----------------------------------------------------------------------------
(* The main thread: socket_connection_operations. *)

Running == server = "up"

(* The list of nodes without the one at position i: SLIST_REMOVE. *)
SLIST_REMOVE(i) == SubSeq(list, 1, i - 1) \o SubSeq(list, i + 1, Len(list))

SLIST_INSERT_HEAD(c) == <<c>> \o list

(* A client connects and waits in the backlog. *)
Connect(c) ==
    /\ Running /\ cpc[c] = "unused"
    /\ \E s \in Segments[c] : /\ request' = [request EXCEPT ![c] = s]
                             /\ incoming' = [incoming EXCEPT ![c] = s]
    /\ cpc' = [cpc EXCEPT ![c] = "backlog"]
    /\ UNCHANGED <<logVars, mainVars, buffer, overrun, tokVars, echoVars>>

(* accept, the new node at the head of the list, pthread_create. *)
Accept(c) ==
    /\ Running /\ mpc = "accept"
    /\ cpc[c] = "backlog"
    /\ list' = SLIST_INSERT_HEAD(c)
    /\ cpc' = [cpc EXCEPT ![c] = "recv"]
    /\ mpc' = "scan"
    /\ scan' = 1
    /\ UNCHANGED <<logVars, server, request, incoming, buffer, overrun, tokVars, echoVars>>

(* pthread_create fails: its result is not looked at, and the node stays   *)
(* in the list with thread_complete false and no thread to set it.         *)
AcceptNoThread(c) ==
    /\ MayLackThread
    /\ Running /\ mpc = "accept"
    /\ cpc[c] = "backlog"
    /\ list' = SLIST_INSERT_HEAD(c)
    /\ cpc' = [cpc EXCEPT ![c] = "orphan"]
    /\ mpc' = "scan"
    /\ scan' = 1
    /\ UNCHANGED <<logVars, server, recvVars, tokVars, echoVars>>

ThreadComplete(c) == cpc[c] \in {"complete", "returned"}

(* SLIST_FOREACH: the node is left alone when its thread is still busy. *)
ScanNext ==
    /\ Running /\ mpc = "scan" /\ scan <= Len(list)
    /\ ~ThreadComplete(list[scan])
    /\ scan' = scan + 1
    /\ UNCHANGED <<logVars, server, mpc, list, cpc, recvVars, tokVars, echoVars>>

(* Slip: the first node is joined whether its thread is complete or not. *)
ScanUnchecked ==
    /\ Running /\ mpc = "scan" /\ scan <= Len(list)
    /\ mpc' = "join"
    /\ UNCHANGED <<logVars, server, list, scan, cpc, recvVars, tokVars, echoVars>>

ScanFound ==
    /\ Running /\ mpc = "scan" /\ scan <= Len(list)
    /\ ThreadComplete(list[scan])
    /\ mpc' = "join"
    /\ UNCHANGED <<logVars, server, list, scan, cpc, recvVars, tokVars, echoVars>>

(* Slip: the walk ends before the last node. *)
ScanEndEarly ==
    /\ Running /\ mpc = "scan" /\ scan >= Len(list)
    /\ mpc' = "accept"
    /\ UNCHANGED <<logVars, server, list, scan, cpc, recvVars, tokVars, echoVars>>

ScanEnd ==
    /\ Running /\ mpc = "scan" /\ scan > Len(list)
    /\ mpc' = "accept"
    /\ UNCHANGED <<logVars, server, list, scan, cpc, recvVars, tokVars, echoVars>>

(* Slip: the node is removed and freed without waiting for the thread. *)
FreeWithoutJoin ==
    /\ Running /\ mpc = "join"
    /\ list' = SLIST_REMOVE(scan)
    /\ mpc' = "accept"
    /\ UNCHANGED <<logVars, server, scan, cpc, recvVars, tokVars, echoVars>>

(* Slip: the loop goes on from the node that has been freed. *)
JoinAndContinue ==
    /\ Running /\ mpc = "join"
    /\ cpc[list[scan]] = "returned"
    /\ list' = SLIST_REMOVE(scan)
    /\ cpc' = [cpc EXCEPT ![list[scan]] = "joined"]
    /\ mpc' = "scan"
    /\ scan' = scan + 1
    /\ UNCHANGED <<logVars, server, recvVars, tokVars, echoVars>>

(* pthread_join waits for the thread; then the node is removed and freed,  *)
(* and the loop is left.                                                   *)
JoinAndFree ==
    /\ Running /\ mpc = "join"
    /\ cpc[list[scan]] = "returned"
    /\ list' = SLIST_REMOVE(scan)
    /\ cpc' = [cpc EXCEPT ![list[scan]] = "joined"]
    /\ mpc' = "accept"
    /\ UNCHANGED <<logVars, server, scan, recvVars, tokVars, echoVars>>

None == [c \in Conn |-> <<>>]

(* exit(), in any thread, ends all of them and closes every connection, and *)
(* the memory of the process is gone; the device keeps what it holds.       *)
Exit(how) ==
    /\ server' = how
    /\ mpc' = "accept"
    /\ list' = <<>>
    /\ scan' = 1
    /\ cpc' = [c \in Conn |-> IF cpc[c] = "unused" THEN "unused" ELSE "dropped"]
    /\ incoming' = None /\ buffer' = None
    /\ overrun' = {}
    /\ saved' = NoConn /\ left' = FALSE /\ mixed' = FALSE /\ dangled' = {}
    /\ fpos' = [c \in Conn |-> 0]
    /\ sendbuf' = None /\ seen' = None /\ sent' = None
    /\ UNCHANGED <<logVars, request>>

ExitFailure == Exit("failed")

(* exit_safely also removes the device node, so that the device is out of  *)
(* reach of the next server until the node is made again.                  *)
exit_safely == Exit("stopped")

signal_handler == Running /\ MaySignal /\ exit_safely

(* A server that is started again begins to listen, next to the same       *)
(* device.  What the start does before, and how it may fail, is in         *)
(* Lifecycle; it concerns no state of this module.                         *)
Restart ==
    /\ server = "failed"
    /\ server' = "up"
    /\ UNCHANGED <<logVars, mpc, list, scan, cpc, recvVars, tokVars, echoVars>>

-----------------------------------------------------------------------------
(* thread_func: receiving. *)

Active(c, where) == Running /\ cpc[c] = where

(* index after the search for '\n' in buff, which is zero behind what was  *)
(* received: one past the newline, BUFFER_SIZE without one.                *)
NewlineIndex(seg) ==
    IF HasNewline(seg)
    THEN CHOOSE i \in DOMAIN seg : /\ seg[i] = NL
                                   /\ \A j \in 1 .. i - 1 : seg[j] # NL
    ELSE BufferSize

(* What strncat(buffer, buff, index + 1) can copy: up to one byte behind   *)
(* the newline or behind what was received.  A segment that fills buff has *)
(* no zero behind it, only the byte of the stack behind buff, which may or *)
(* may not be zero.                                                        *)
Copied(seg) ==
    LET n == NewlineIndex(seg) + 1
    IN  IF n <= Len(seg) THEN {SubSeq(seg, 1, n)}
        ELSE IF Len(seg) < BufferSize THEN {seg}
        ELSE {seg, Append(seg, Stray)}

(* How far a text goes: to its first zero. *)
TextEnds(text) ==
    {n \in 0 .. Len(text) : /\ \A i \in 1 .. n : text[i] # NUL
                            /\ n < Len(text) => text[n + 1] = NUL}

(* What it appends: it stops at a zero in what was received, and the bytes *)
(* behind that, the newline among them, are lost.                          *)
Appended(seg) == UNION {{SubSeq(text, 1, n) : n \in TextEnds(text)} : text \in Copied(seg)}

(* The bytes an allocation of n bytes really has. *)
Usable(n) == ((n + AllocUnit - 1) \div AllocUnit) * AllocUnit

(* What realloc(buffer, n) may leave of the text in buffer: all of it, or, *)
(* when the block has become too small for it, the part inside the block.  *)
Realloced(text, n) ==
    {text} \cup IF Len(text) < Usable(n) THEN {} ELSE {SubSeq(text, 1, Usable(n))}

(* The segment at the head of incoming is put behind what buffer holds,    *)
(* which has been reallocated for this segment alone.                      *)
Receive(c) ==
    LET seg == Head(incoming[c])
        n   == NewlineIndex(seg) + 1
    IN  /\ \E old \in Realloced(buffer[c], n), new \in Appended(seg) :
              /\ buffer' = [buffer EXCEPT ![c] = old \o new]
              /\ overrun' = overrun \cup IF Len(old \o new) < Usable(n) THEN {} ELSE {c}
        /\ incoming' = [incoming EXCEPT ![c] = Tail(@)]
        /\ UNCHANGED request

(* Slip: the loop ends after one recv, newline or not. *)
RecvOnce(c) ==
    /\ Active(c, "recv")
    /\ incoming[c] # <<>>
    /\ Receive(c)
    /\ cpc' = [cpc EXCEPT ![c] = "dispatch"]
    /\ UNCHANGED <<logVars, mainVars, tokVars, echoVars>>

(* recv returns data; the loop ends with the newline. *)
Recv(c) ==
    /\ Active(c, "recv")
    /\ incoming[c] # <<>>
    /\ Receive(c)
    /\ cpc' = [cpc EXCEPT ![c] = IF HasNewline(Head(incoming[c])) THEN "dispatch" ELSE @]
    /\ UNCHANGED <<logVars, mainVars, tokVars, echoVars>>

(* recv returns 0: the client has closed its side. *)
RecvEof(c) ==
    /\ Active(c, "recv")
    /\ incoming[c] = <<>>
    /\ cpc' = [cpc EXCEPT ![c] = "dispatch"]
    /\ UNCHANGED <<logVars, mainVars, recvVars, tokVars, echoVars>>

(* recv fails on a connection the client has reset. *)
RecvError(c) == Active(c, "recv") /\ MayReset /\ ExitFailure

(* malloc, realloc or free finds the heap damaged, by strncat or by the    *)
(* zero that strtok puts behind a token, and aborts.                       *)
HeapAbort(c) ==
    /\ Running /\ c \in overrun \cup dangled
    /\ ExitFailure

-----------------------------------------------------------------------------
(* thread_func: the command. *)

StartsWith(c, text) == buffer[c] # <<>> /\ Head(buffer[c]) = text

(* An ordinary packet is written to the device, up to its first zero; the  *)
(* buffer holds none, and all of it is written.                            *)
WritePacket(c) ==
    /\ Active(c, "dispatch")
    /\ ~StartsWith(c, SeekText) /\ ~StartsWith(c, BadSeekText)
    /\ Write(buffer[c])
    /\ cpc' = [cpc EXCEPT ![c] = "echo"]
    /\ UNCHANGED <<mainVars, recvVars, tokVars, echoVars>>

(* write() returns -1: the driver has been interrupted or has no memory.   *)
(* (What a failing krealloc does to the command under construction is in   *)
(* AesdChar.)                                                              *)
WriteFails(c) ==
    /\ MayFailWrite
    /\ Active(c, "dispatch")
    /\ ~StartsWith(c, SeekText) /\ ~StartsWith(c, BadSeekText)
    /\ ExitFailure

(* strtok finds no token at all: nothing follows the colon. *)
SeekMalformed(c) == Active(c, "dispatch") /\ buffer[c] = <<BadSeekText>> /\ exit_safely

(* strtok(buffer + 19, ","): the first number.  strtok's static pointer is *)
(* now behind it in this buffer, in front of the second number if the text *)
(* has a comma.                                                            *)
SeekFirstToken(c) ==
    /\ Active(c, "dispatch")
    /\ StartsWith(c, SeekText) \/ StartsWith(c, BadSeekText)
    /\ buffer[c] # <<BadSeekText>>
    /\ saved' = c /\ left' = StartsWith(c, SeekText)
    /\ cpc' = [cpc EXCEPT ![c] = "token"]
    /\ UNCHANGED <<logVars, mainVars, recvVars, mixed, dangled, echoVars>>

(* Whether the buffer strtok's pointer points into has not been freed. *)
SavedIsAlive == saved \in Conn /\ cpc[saved] \in {"token", "ioctl", "echo"}

(* Slip: strtok's pointer stays in front of the number that was taken.     *)
SeekKeepsLeft(c) ==
    /\ Active(c, "token")
    /\ SavedIsAlive /\ left
    /\ mixed' = (mixed \/ saved # c)
    /\ cpc' = [cpc EXCEPT ![c] = "ioctl"]
    /\ UNCHANGED <<logVars, mainVars, recvVars, saved, left, dangled, echoVars>>

(* strtok(NULL, ","): the second number, of whichever text was parsed last. *)
SeekSecondToken(c) ==
    /\ Active(c, "token")
    /\ SavedIsAlive /\ left
    /\ left' = FALSE
    /\ mixed' = (mixed \/ saved # c)
    /\ cpc' = [cpc EXCEPT ![c] = "ioctl"]
    /\ UNCHANGED <<logVars, mainVars, recvVars, saved, dangled, echoVars>>

(* The thread whose text it was has freed it: strtok reads on in memory    *)
(* that may belong to somebody else by now, and may find a token there.    *)
SeekDangling(c) ==
    /\ Active(c, "token")
    /\ ~SavedIsAlive
    /\ mixed' = TRUE
    /\ dangled' = dangled \cup {c}
    /\ cpc' = [cpc EXCEPT ![c] = "ioctl"]
    /\ UNCHANGED <<logVars, mainVars, recvVars, saved, left, echoVars>>

(* There is no second number: the text had no comma, another thread has    *)
(* taken it, or there is none in the freed memory either.                  *)
SeekNoToken(c) ==
    /\ Active(c, "token")
    /\ SavedIsAlive => ~left
    /\ exit_safely

(* The bytes of the commands in front of command i + 1. *)
Offset[i \in 0 .. Len(commands)] == IF i = 0 THEN 0 ELSE Offset[i - 1] + Len(commands[i])

(* ioctl: the driver moves the position of the fresh file into the device, *)
(* or behind its end (see AesdChar!aesd_adjust_file_offset) ...            *)
SeekDone(c) ==
    /\ Active(c, "ioctl")
    /\ \E pos \in 0 .. Offset[Len(commands)] + 1 : fpos' = [fpos EXCEPT ![c] = pos]
    /\ cpc' = [cpc EXCEPT ![c] = "echo"]
    /\ UNCHANGED <<logVars, mainVars, recvVars, tokVars, sendbuf, seen, sent>>

(* ... or refuses, and the server exits. *)
SeekFailed(c) == Active(c, "ioctl") /\ exit_safely

-----------------------------------------------------------------------------
(* thread_func: the answer. *)

(* What one read() of at most BUFFER_SIZE bytes at pos returns. *)
ReadAt(pos) ==
    LET holding == {i \in 1 .. Len(commands) : Offset[i - 1] <= pos /\ pos < Offset[i]}
    IN  IF holding = {} THEN <<>>
        ELSE LET i     == CHOOSE j \in holding : TRUE
                 first == pos - Offset[i - 1] + 1
                 last  == first + BufferSize - 1
             IN  SubSeq(commands[i], first,
                        IF last < Len(commands[i]) THEN last ELSE Len(commands[i]))

(* Slip: the position is taken to advance by BUFFER_SIZE with every read. *)
EchoFixedAdvance(c) ==
    /\ Active(c, "echo")
    /\ LET chunk == ReadAt(fpos[c])
           text  == chunk \o SubSeq(sendbuf[c], Len(chunk) + 1, Len(sendbuf[c]))
       IN  /\ chunk # <<>>
           /\ fpos' = [fpos EXCEPT ![c] = @ + BufferSize]
           /\ seen' = [seen EXCEPT ![c] = @ \o chunk]
           /\ sendbuf' = [sendbuf EXCEPT ![c] = text]
           /\ sent' = [sent EXCEPT ![c] = @ \o text]
    /\ UNCHANGED <<logVars, mainVars, cpc, recvVars, tokVars>>

(* Slip: the position advances by one byte less than was read. *)
EchoShortAdvance(c) ==
    /\ Active(c, "echo")
    /\ LET chunk == ReadAt(fpos[c])
           text  == chunk \o SubSeq(sendbuf[c], Len(chunk) + 1, Len(sendbuf[c]))
       IN  /\ chunk # <<>>
           /\ fpos' = [fpos EXCEPT ![c] = @ + Len(chunk) - 1]
           /\ seen' = [seen EXCEPT ![c] = @ \o chunk]
           /\ sendbuf' = [sendbuf EXCEPT ![c] = text]
           /\ sent' = [sent EXCEPT ![c] = @ \o text]
    /\ UNCHANGED <<logVars, mainVars, cpc, recvVars, tokVars>>

(* Slip: read() appends to what send_buffer holds. *)
EchoAppending(c) ==
    /\ Active(c, "echo")
    /\ LET chunk == ReadAt(fpos[c])
           text  == sendbuf[c] \o chunk
       IN  /\ chunk # <<>>
           /\ fpos' = [fpos EXCEPT ![c] = @ + Len(chunk)]
           /\ seen' = [seen EXCEPT ![c] = @ \o chunk]
           /\ sendbuf' = [sendbuf EXCEPT ![c] = text]
           /\ sent' = [sent EXCEPT ![c] = @ \o text]
    /\ UNCHANGED <<logVars, mainVars, cpc, recvVars, tokVars>>

(* What may lie between the end of a text in send_buffer and the zero that *)
(* strlen finds: a text that fills send_buffer has no zero of its own, and *)
(* Stray stands for whatever follows it on the stack.                      *)
Behind(text) == IF Len(text) < BufferSize THEN <<>> ELSE <<Stray>>

(* read() overwrites the front of send_buffer; send() sends the text in it *)
(* up to the first zero, so the tail of a longer earlier chunk as well.    *)
(* (The step is the return of send(), which may wait for the client for    *)
(* ever, and its read().)                                                  *)
Echo(c) ==
    /\ Active(c, "echo")
    /\ LET chunk == ReadAt(fpos[c])
           text  == chunk \o SubSeq(sendbuf[c], Len(chunk) + 1, Len(sendbuf[c]))
       IN  /\ chunk # <<>>
           /\ fpos' = [fpos EXCEPT ![c] = @ + Len(chunk)]
           /\ seen' = [seen EXCEPT ![c] = @ \o chunk]
           /\ sendbuf' = [sendbuf EXCEPT ![c] = text]
           /\ sent' = [sent EXCEPT ![c] = @ \o text \o Behind(text)]
    /\ UNCHANGED <<logVars, mainVars, cpc, recvVars, tokVars>>

(* send() to a client that has reset its connection raises SIGPIPE, which  *)
(* nothing handles.                                                        *)
EchoPipe(c) ==
    /\ Active(c, "echo") /\ MayReset
    /\ ReadAt(fpos[c]) # <<>>
    /\ ExitFailure

(* Slip: the loop ends only exactly at the end of the device. *)
EchoEndExact(c) ==
    /\ Active(c, "echo")
    /\ fpos[c] = Offset[Len(commands)]
    /\ buffer' = [buffer EXCEPT ![c] = <<>>]
    /\ fpos' = [fpos EXCEPT ![c] = 0]
    /\ sendbuf' = [sendbuf EXCEPT ![c] = <<>>]
    /\ cpc' = [cpc EXCEPT ![c] = "complete"]
    /\ UNCHANGED <<logVars, mainVars, request, incoming, overrun, tokVars, seen, sent>>

(* read() returns 0: the buffer is freed, the device file and the socket   *)
(* are closed, and thread_complete is set.                                 *)
EchoEnd(c) ==
    /\ Active(c, "echo")
    /\ ReadAt(fpos[c]) = <<>>
    /\ buffer' = [buffer EXCEPT ![c] = <<>>]
    /\ fpos' = [fpos EXCEPT ![c] = 0]
    /\ sendbuf' = [sendbuf EXCEPT ![c] = <<>>]
    /\ cpc' = [cpc EXCEPT ![c] = "complete"]
    /\ UNCHANGED <<logVars, mainVars, request, incoming, overrun, tokVars, seen, sent>>

ThreadReturn(c) ==
    /\ Active(c, "complete")
    /\ cpc' = [cpc EXCEPT ![c] = "returned"]
    /\ seen' = [seen EXCEPT ![c] = <<>>]
    /\ sent' = [sent EXCEPT ![c] = <<>>]
    /\ UNCHANGED <<logVars, mainVars, recvVars, tokVars, fpos, sendbuf>>

-----------------------------------------------------------------------------
SockInit ==
    /\ LogInit
    /\ server = "up"
    /\ mpc = "accept"
    /\ list = <<>>
    /\ scan = 1
    /\ cpc = [c \in Conn |-> "unused"]
    /\ request = None /\ incoming = None /\ buffer = None
    /\ overrun = {}
    /\ saved = NoConn /\ left = FALSE /\ mixed = FALSE /\ dangled = {}
    /\ fpos = [c \in Conn |-> 0]
    /\ sendbuf = None /\ seen = None /\ sent = None

MainStep ==
    \/ \E c \in Conn : Accept(c) \/ AcceptNoThread(c)
    \/ ScanNext \/ ScanFound \/ ScanEnd
    \/ JoinAndFree

(* What depends on the client, on what it sends and on its reading what it *)
(* is sent.                                                                *)
ClientStep(c) == Connect(c) \/ Recv(c) \/ RecvEof(c) \/ RecvError(c) \/ Echo(c) \/ EchoPipe(c)

ThreadStep(c) ==
    \/ WritePacket(c)
    \/ SeekMalformed(c)
    \/ SeekFirstToken(c) \/ SeekSecondToken(c) \/ SeekDangling(c) \/ SeekNoToken(c)
    \/ SeekDone(c) \/ SeekFailed(c)
    \/ EchoEnd(c)
    \/ ThreadReturn(c)

SockNext ==
    \/ MainStep
    \/ \E c \in Conn : ClientStep(c) \/ ThreadStep(c) \/ WriteFails(c) \/ HeapAbort(c)
    \/ signal_handler
    \/ Restart

SockSpec == SockInit /\ [][SockNext]_sockVars

(* Runnable threads run.  A client waiting in the backlog is accepted in   *)
(* its turn.  Clients need not send anything, and only Readers take what   *)
(* they are sent: send() to any other may block for ever.                  *)
SockFairness ==
    /\ WF_sockVars(MainStep)
    /\ \A c \in Conn : SF_sockVars(Accept(c)) /\ WF_sockVars(ThreadStep(c))
    /\ \A c \in Readers : WF_sockVars(ThreadStep(c) \/ Echo(c))

SockFairSpec == SockSpec /\ SockFairness

-----------------------------------------------------------------------------
SockTypeOK ==
    /\ commands \in Seq(Seq(Byte)) /\ Len(commands) <= Capacity
    /\ partial \in Seq(Byte)
    /\ server \in {"up", "failed", "stopped"}
    /\ mpc \in {"accept", "scan", "join"}
    /\ list \in Seq(Conn)
    /\ scan \in 1 .. Len(list) + 1 \/ mpc = "accept"
    /\ cpc \in [Conn -> {"unused", "backlog", "recv", "dispatch", "token", "ioctl", "echo",
                         "complete", "returned", "joined", "orphan", "dropped"}]
    /\ request \in [Conn -> Seq(Seq(Byte))] /\ incoming \in [Conn -> Seq(Seq(Byte))]
    /\ overrun \subseteq Conn
    /\ saved \in Conn \cup {NoConn} /\ left \in BOOLEAN /\ mixed \in BOOLEAN
    /\ dangled \subseteq Conn
    /\ fpos \in [Conn -> Nat]
    /\ \A f \in {buffer, sendbuf, seen, sent} : f \in [Conn -> Seq(Byte)]

Started == {"recv", "dispatch", "token", "ioctl", "echo", "complete", "returned"}

(* The list holds each thread that has not been joined exactly once, so a  *)
(* node is freed only when its thread can no longer set thread_complete in *)
(* it, and no node is lost before it is joined; a node whose thread could  *)
(* not be created stays in the list and is never joined.                   *)
NodeOutlivesThread ==
    Running =>
      /\ \A c \in Conn :
            cpc[c] \in Started \cup {"orphan"} <=> \E i \in DOMAIN list : list[i] = c
      /\ mpc = "join" => cpc[list[scan]] # "orphan"
      /\ \A i, j \in DOMAIN list : list[i] = list[j] => i = j

(* What send() is given is what read() returned, as long as every command  *)
(* fits in send_buffer with its final zero and none is shorter than the    *)
(* one before it (nothing being evicted).                                  *)
SentWhileGrowing ==
    (\A i \in DOMAIN commands : /\ Len(commands[i]) < BufferSize
                                /\ i > 1 => Len(commands[i - 1]) <= Len(commands[i]))
      => \A c \in Conn : sent[c] = seen[c]

(* strtok keeps one position for all threads, so a thread may be given the *)
(* second number of another client's text.  As long as none has read on in *)
(* a buffer that was freed, such a mix-up leaves a thread that still asks  *)
(* for its number and for which there is none: it ends in exit_safely, or  *)
(* in freed memory, and never with an answer for every client.             *)
MixUpStarvesOne ==
    mixed /\ dangled = {} =>
        \E c \in Conn : /\ cpc[c] = "token"
                        /\ left => \E d \in Conn \ {c} : cpc[d] = "token"

(* A client that connects is accepted, even when other clients have        *)
(* connected and send nothing, or do not read their answers: the main      *)
(* thread never waits for them.                                            *)
AcceptNotBlocked ==
    \A c \in Conn : cpc[c] = "backlog" ~> cpc[c] # "backlog" \/ ~Running

(* The echo loop ends although other threads keep writing and evicting,    *)
(* and although other clients do not read their answers: a packet that has *)
(* been received gets a complete answer if its client reads it.            *)
AnswerEnds ==
    \A c \in Readers : cpc[c] = "dispatch" ~> cpc[c] \in {"complete", "dropped"} \/ ~Running

(* "Iterate through linked list to wait for thread completion": when a     *)
(* thread has completed, the next client that connects makes the main      *)
(* thread join one, wherever in the list it is.  (Without a next client    *)
(* none is joined.)                                                        *)
NextClientReaps ==
    (\E c, d \in Conn : ThreadComplete(c) /\ cpc[d] = "backlog")
      ~> (\E c \in Conn : cpc[c] = "joined") \/ ~Running

=============================================================================
