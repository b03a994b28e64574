--------------------------- MODULE AesdSocketProofs ---------------------------
(***************************************************************************)
(* Proofs for the server, for any set of clients and whatever they send.   *)
(***************************************************************************)
EXTENDS MCAesdSocket, DataInduction, FiniteSetTheorems, SequenceTheorems, TLAPS

Phase == Started \cup {"unused", "backlog", "joined", "orphan", "dropped"}

(* The nodes of the list are those of the threads that have been started   *)
(* and not joined, each once; the one that is about to be joined has       *)
(* completed.  Unlike NodeOutlivesThread this holds of a dead server, too. *)
ListInv ==
    /\ server \in {"up", "failed", "stopped"}
    /\ mpc \in {"accept", "scan", "join"}
    /\ cpc \in [Conn -> Phase]
    /\ list \in Seq(Conn)
    /\ scan \in Nat \ {0}
    /\ mpc = "scan" => scan <= Len(list) + 1
    /\ mpc = "join" => scan \in DOMAIN list /\ ThreadComplete(list[scan])
    /\ \A i, j \in DOMAIN list : list[i] = list[j] => i = j
    /\ \A c \in Conn : cpc[c] \in Started \cup {"orphan"} <=> \E i \in DOMAIN list : list[i] = c

(* A number that strtok has left to take is in the text of a thread that   *)
(* still asks for one, so that this text has not been freed; and once two  *)
(* texts have been mixed up, with nobody having read freed memory, there   *)
(* is a thread that asks for a number other than the one that is left.     *)
TokenInv ==
    /\ cpc \in [Conn -> Phase]
    /\ saved \in Conn \cup {NoConn} /\ left \in BOOLEAN /\ mixed \in BOOLEAN
    /\ dangled \subseteq Conn
    /\ left => saved \in Conn /\ cpc[saved] = "token"
    /\ mixed /\ dangled = {} => \E c \in Conn : cpc[c] = "token" /\ (left => c # saved)

-----------------------------------------------------------------------------
(* SLIST_INSERT_HEAD and SLIST_REMOVE.                                     *)

(* The list with a node in front of it.                                    *)
LEMMA InsertHead ==
    ASSUME list \in Seq(Conn), NEW c \in Conn
    PROVE  LET new == SLIST_INSERT_HEAD(c) IN
           /\ new \in Seq(Conn)
           /\ Len(new) = Len(list) + 1
           /\ new[1] = c
           /\ \A i \in DOMAIN list : new[i + 1] = list[i]
           /\ \A i \in DOMAIN new : i > 1 => i - 1 \in DOMAIN list /\ new[i] = list[i - 1]
BY DEF SLIST_INSERT_HEAD

(* The list without node k: the nodes behind it move up by one.            *)
LEMMA RemoveNode ==
    ASSUME list \in Seq(Conn), NEW k \in DOMAIN list
    PROVE  LET new == SLIST_REMOVE(k) IN
           /\ new \in Seq(Conn)
           /\ Len(new) = Len(list) - 1
           /\ \A i \in DOMAIN new : new[i] = IF i < k THEN list[i] ELSE list[i + 1]
<1> DEFINE front == SubSeq(list, 1, k - 1)
           back  == SubSeq(list, k + 1, Len(list))
<1>1. k \in 1 .. Len(list) /\ Len(list) \in Nat
  OBVIOUS
<1>2. \A i \in 1 .. Len(list) : list[i] \in Conn
  OBVIOUS
<1>3. /\ front \in Seq(Conn) /\ Len(front) = k - 1
      /\ \A i \in 1 .. k - 1 : front[i] = list[i]
  BY <1>1, <1>2, SubSeqProperties
<1>4. /\ back \in Seq(Conn) /\ Len(back) = Len(list) - k
      /\ \A i \in 1 .. Len(list) - k : back[i] = list[k + i]
  BY <1>1, <1>2, SubSeqProperties
<1> HIDE DEF front, back
<1>5. /\ front \o back \in Seq(Conn)
      /\ Len(front \o back) = Len(front) + Len(back)
      /\ \A i \in 1 .. Len(front) + Len(back) : (front \o back)[i] =
            IF i <= Len(front) THEN front[i] ELSE back[i - Len(front)]
  BY <1>3, <1>4, ConcatProperties
<1>6. ASSUME NEW i \in 1 .. Len(list) - 1
      PROVE  (front \o back)[i] = IF i < k THEN list[i] ELSE list[i + 1]
  <2>1. CASE i < k
    BY <2>1, <1>1, <1>3, <1>4, <1>5
  <2>2. CASE ~(i < k)
    <3>0. i \in 1 .. Len(front) + Len(back) /\ ~(i <= Len(front)) /\ Len(front) = k - 1
      BY <2>2, <1>1, <1>3, <1>4
    <3>1. (front \o back)[i] = back[i - (k - 1)]
      BY <3>0, <1>5, Zenon
    <3>2. i - (k - 1) \in 1 .. Len(list) - k /\ k + (i - (k - 1)) = i + 1
      BY <2>2, <1>1
    <3>3. back[i - (k - 1)] = list[i + 1]
      BY <3>2, <1>4
    <3> QED BY <2>2, <3>1, <3>3
  <2> QED BY <2>1, <2>2
<1>7. Len(front \o back) = Len(list) - 1 /\ DOMAIN (front \o back) = 1 .. Len(list) - 1
  BY <1>1, <1>3, <1>4, <1>5
<1> QED BY <1>5, <1>6, <1>7 DEF SLIST_REMOVE, front, back

-----------------------------------------------------------------------------
(* The list of nodes.                                                      *)

ControlInv == ListInv /\ TokenInv

LEMMA ControlInit == SockInit => ControlInv
<1> SUFFICES ASSUME SockInit PROVE ControlInv
  OBVIOUS
<1>1. ListInv
  BY DEF SockInit, ListInv, Phase, Started
<1>2. TokenInv
  BY ConnAssumption DEF SockInit, TokenInv, Phase, Started
<1> QED BY <1>1, <1>2 DEF ControlInv

(* exit() leaves nothing of either.                                        *)
LEMMA ExitControl ==
    ASSUME ControlInv, NEW how \in {"failed", "stopped"}, Exit(how)
    PROVE  ControlInv'
<1>1. ListInv'
  BY DEF ControlInv, Exit, ListInv, Phase, Started
<1>2. TokenInv'
  BY DEF ControlInv, Exit, TokenInv, Phase, Started
<1> QED BY <1>1, <1>2 DEF ControlInv

(* A thread goes on without looking at the list, and without going back    *)
(* behind its end; or a client gets into the backlog.                      *)
LEMMA PhaseKeepsList ==
    ASSUME ListInv, UNCHANGED mainVars, NEW c \in Conn, NEW p \in Phase,
           cpc' = [cpc EXCEPT ![c] = p],
           cpc[c] \in Started \cup {"orphan"} <=> p \in Started \cup {"orphan"},
           ThreadComplete(c) => p \in {"complete", "returned"}
    PROVE  ListInv'
<1>1. \A d \in Conn : cpc'[d] = IF d = c THEN p ELSE cpc[d]
  BY DEF ListInv
<1>2. cpc' \in [Conn -> Phase]
  BY DEF ListInv
<1>3. mpc' = mpc /\ list' = list /\ scan' = scan /\ server' = server
  BY DEF mainVars
<1>4. mpc = "join" => scan \in DOMAIN list /\ cpc'[list[scan]] \in {"complete", "returned"}
  <2> SUFFICES ASSUME mpc = "join"
               PROVE  scan \in DOMAIN list /\ cpc'[list[scan]] \in {"complete", "returned"}
    OBVIOUS
  <2>1. scan \in DOMAIN list /\ list[scan] \in Conn
        /\ cpc[list[scan]] \in {"complete", "returned"}
    BY DEF ListInv, ThreadComplete
  <2> QED BY <2>1, <1>1 DEF ThreadComplete
<1>5. \A d \in Conn : cpc'[d] \in Started \cup {"orphan"} <=> \E i \in DOMAIN list : list[i] = d
  BY <1>1 DEF ListInv
<1> QED BY <1>2, <1>3, <1>4, <1>5 DEF ListInv, ThreadComplete

(* accept: the new node is at the head of the list and nowhere else.       *)
LEMMA AcceptKeepsList ==
    ASSUME ListInv, NEW c \in Conn, Accept(c) \/ AcceptNoThread(c)
    PROVE  ListInv'
<1> DEFINE new == SLIST_INSERT_HEAD(c)
<1>1. PICK p \in {"recv", "orphan"} : cpc' = [cpc EXCEPT ![c] = p]
  BY DEF Accept, AcceptNoThread
<1>2. /\ list' = new /\ mpc' = "scan" /\ scan' = 1 /\ cpc[c] = "backlog"
      /\ server' = server
  BY DEF Accept, AcceptNoThread
<1>3. list \in Seq(Conn) /\ cpc \in [Conn -> Phase]
  BY DEF ListInv
<1>4. /\ new \in Seq(Conn) /\ Len(new) = Len(list) + 1 /\ new[1] = c
      /\ \A i \in DOMAIN list : new[i + 1] = list[i]
      /\ \A i \in DOMAIN new : i > 1 => i - 1 \in DOMAIN list /\ new[i] = list[i - 1]
  BY <1>3, InsertHead
<1> HIDE DEF new
<1>5. \A i \in DOMAIN list : list[i] # c
  BY <1>2 DEF ListInv, Started
<1>6. \A i, j \in DOMAIN new : new[i] = new[j] => i = j
  <2> SUFFICES ASSUME NEW i \in DOMAIN new, NEW j \in DOMAIN new, new[i] = new[j], i < j
               PROVE  FALSE
    BY <1>4
  <2>1. j > 1 /\ j - 1 \in DOMAIN list /\ new[j] = list[j - 1]
    BY <1>4
  <2>2. CASE i = 1
    BY <2>1, <2>2, <1>4, <1>5
  <2>3. CASE i > 1
    BY <2>1, <2>3, <1>4 DEF ListInv
  <2> QED BY <2>2, <2>3, <1>4
<1>7. \A d \in Conn : cpc'[d] \in Started \cup {"orphan"} <=> \E i \in DOMAIN new : new[i] = d
  <2> TAKE d \in Conn
  <2>1. CASE d = c
    <3>1. 1 \in DOMAIN new
      BY <1>3, <1>4
    <3> QED BY <2>1, <3>1, <1>1, <1>3, <1>4 DEF Started
  <2>2. CASE d # c
    <3>1. cpc'[d] = cpc[d]
      BY <2>2, <1>1, <1>3
    <3>2. (\E i \in DOMAIN list : list[i] = d) => \E i \in DOMAIN new : new[i] = d
      <4> SUFFICES ASSUME NEW i \in DOMAIN list, list[i] = d
                   PROVE  \E k \in DOMAIN new : new[k] = d
        OBVIOUS
      <4>1. i + 1 \in DOMAIN new /\ new[i + 1] = d
        BY <1>3, <1>4
      <4> QED BY <4>1
    <3>3. (\E i \in DOMAIN new : new[i] = d) => \E i \in DOMAIN list : list[i] = d
      <4> SUFFICES ASSUME NEW i \in DOMAIN new, new[i] = d
                   PROVE  \E k \in DOMAIN list : list[k] = d
        OBVIOUS
      <4>1. i > 1
        BY <2>2, <1>4
      <4> QED BY <4>1, <1>4
    <3> QED BY <3>1, <3>2, <3>3 DEF ListInv
  <2> QED BY <2>1, <2>2
<1>8. cpc' \in [Conn -> Phase]
  BY <1>1, <1>3 DEF Phase, Started
<1> QED BY <1>2, <1>4, <1>6, <1>7, <1>8 DEF ListInv

(* The walk along the list.                                                *)
LEMMA ScanKeepsList ==
    ASSUME ListInv, ScanNext \/ ScanFound \/ ScanEnd
    PROVE  ListInv'
<1>1. CASE ScanNext
  BY <1>1 DEF ScanNext, ListInv, ThreadComplete
<1>2. CASE ScanFound
  <2>1. scan \in DOMAIN list
    BY <1>2 DEF ScanFound, ListInv
  <2> QED BY <1>2, <2>1 DEF ScanFound, ListInv, ThreadComplete
<1>3. CASE ScanEnd
  BY <1>3 DEF ScanEnd, ListInv, ThreadComplete
<1> QED BY <1>1, <1>2, <1>3

(* pthread_join and SLIST_REMOVE: exactly the node of the thread that has  *)
(* returned is taken out.                                                  *)
LEMMA JoinKeepsList ==
    ASSUME ListInv, JoinAndFree
    PROVE  ListInv'
<1> DEFINE new == SLIST_REMOVE(scan)
           c   == list[scan]
<1>1. /\ list \in Seq(Conn) /\ cpc \in [Conn -> Phase]
      /\ scan \in DOMAIN list /\ mpc' = "accept" /\ scan' = scan /\ server' = server
      /\ list' = new /\ cpc' = [cpc EXCEPT ![c] = "joined"]
  BY DEF ListInv, JoinAndFree
<1>2. /\ new \in Seq(Conn) /\ Len(new) = Len(list) - 1
      /\ \A i \in DOMAIN new : new[i] = IF i < scan THEN list[i] ELSE list[i + 1]
  BY <1>1, RemoveNode
<1>3. c \in Conn /\ \A i \in DOMAIN list : list[i] = c => i = scan
  BY <1>1 DEF ListInv
<1>4. \A i, j \in DOMAIN list : list[i] = list[j] => i = j
  BY DEF ListInv
<1> HIDE DEF new, c
<1>5. \A i \in DOMAIN new : \E k \in DOMAIN list :
          k # scan /\ new[i] = list[k] /\ k = IF i < scan THEN i ELSE i + 1
  BY <1>1, <1>2
<1>6. \A i, j \in DOMAIN new : new[i] = new[j] => i = j
  <2> TAKE i, j \in DOMAIN new
  <2>1. PICK k \in DOMAIN list : new[i] = list[k] /\ k = IF i < scan THEN i ELSE i + 1
    BY <1>5
  <2>2. PICK l \in DOMAIN list : new[j] = list[l] /\ l = IF j < scan THEN j ELSE j + 1
    BY <1>5
  <2>3. new[i] = new[j] => k = l
    BY <2>1, <2>2, <1>4, Zenon
  <2>4. scan \in Nat /\ i \in Nat /\ j \in Nat
    BY <1>1, <1>2
  <2> QED BY <2>1, <2>2, <2>3, <2>4
<1>7. \A d \in Conn : cpc'[d] \in Started \cup {"orphan"} <=> \E i \in DOMAIN new : new[i] = d
  <2> TAKE d \in Conn
  <2>1. CASE d = c
    <3>1. cpc'[d] = "joined"
      BY <2>1, <1>1, <1>3
    <3>2. \A i \in DOMAIN new : new[i] # d
      BY <2>1, <1>3, <1>5
    <3> QED BY <3>1, <3>2 DEF Started
  <2>2. CASE d # c
    <3>1. cpc'[d] = cpc[d]
      BY <2>2, <1>1
    <3>2. (\E i \in DOMAIN list : list[i] = d) => \E i \in DOMAIN new : new[i] = d
      <4> SUFFICES ASSUME NEW k \in DOMAIN list, list[k] = d
                   PROVE  \E i \in DOMAIN new : new[i] = d
        OBVIOUS
      <4>1. k # scan
        BY <2>2 DEF c
      <4>2. CASE k < scan
        <5>1. k \in DOMAIN new
          BY <4>2, <1>1, <1>2
        <5> QED BY <5>1, <4>2, <1>2
      <4>3. CASE k > scan
        <5>1. k - 1 \in DOMAIN new /\ ~(k - 1 < scan) /\ (k - 1) + 1 = k
          BY <4>3, <1>1, <1>2
        <5> QED BY <5>1, <1>2
      <4> QED BY <4>1, <4>2, <4>3, <1>1
    <3>3. (\E i \in DOMAIN new : new[i] = d) => \E i \in DOMAIN list : list[i] = d
      BY <1>5
    <3> QED BY <3>1, <3>2, <3>3 DEF ListInv
  <2> QED BY <2>1, <2>2
<1>8. cpc' \in [Conn -> Phase] /\ scan \in Nat \ {0}
  BY <1>1 DEF Phase, ListInv
<1> QED BY <1>1, <1>2, <1>6, <1>7, <1>8 DEF ListInv

-----------------------------------------------------------------------------
(* strtok's one pointer.                                                   *)

(* Every step but those of the two strtok() calls.                         *)
LEMMA PhaseKeepsToken ==
    ASSUME TokenInv, UNCHANGED tokVars, cpc' \in [Conn -> Phase],
           \A d \in Conn : cpc[d] = "token" => cpc'[d] = "token"
    PROVE  TokenInv'
BY DEF TokenInv, tokVars

(* strtok(text, ","): the other texts are given up.                        *)
LEMMA FirstKeepsToken ==
    ASSUME TokenInv, NEW c \in Conn, SeekFirstToken(c)
    PROVE  TokenInv'
<1>1. /\ cpc[c] = "dispatch" /\ cpc' = [cpc EXCEPT ![c] = "token"]
      /\ saved' = c /\ mixed' = mixed /\ dangled' = dangled
  BY DEF SeekFirstToken, Active
<1>2. cpc' \in [Conn -> Phase]
  BY <1>1 DEF TokenInv, Phase, Started
<1>3. left' \in BOOLEAN
  <2>1. StartsWith(c, SeekText) \in BOOLEAN
    BY Zenon DEF StartsWith
  <2> QED BY <2>1, Zenon DEF SeekFirstToken
<1>4. cpc'[c] = "token"
  BY <1>1 DEF TokenInv
<1>5. ASSUME mixed', dangled' = {}
      PROVE  \E d \in Conn : cpc'[d] = "token" /\ d # saved'
  <2>1. PICK d \in Conn : cpc[d] = "token"
    BY <1>1, <1>5 DEF TokenInv
  <2> QED BY <1>1, <2>1 DEF TokenInv
<1> QED BY <1>1, <1>2, <1>3, <1>4, <1>5 DEF TokenInv

(* strtok(NULL, ","): when the number is not of the thread's own text, the *)
(* thread whose text it is has none left.                                  *)
LEMMA SecondKeepsToken ==
    ASSUME TokenInv, NEW c \in Conn, SeekSecondToken(c)
    PROVE  TokenInv'
<1>1. /\ cpc[c] = "token" /\ cpc' = [cpc EXCEPT ![c] = "ioctl"]
      /\ saved' = saved /\ ~left' /\ dangled' = dangled
  BY DEF SeekSecondToken, Active
<1>2. left /\ (mixed' => mixed \/ saved # c)
  BY DEF SeekSecondToken
<1>3. cpc' \in [Conn -> Phase]
  BY <1>1 DEF TokenInv, Phase, Started
<1>4. mixed' \in BOOLEAN /\ left' \in BOOLEAN
  BY Zenon DEF SeekSecondToken
<1>5. saved \in Conn /\ cpc[saved] = "token"
  BY <1>2 DEF TokenInv
<1>6. ASSUME mixed', dangled' = {}
      PROVE  \E d \in Conn : cpc'[d] = "token"
  <2>1. CASE saved # c
    BY <2>1, <1>1, <1>5 DEF TokenInv
  <2>2. CASE saved = c
    <3>1. PICK d \in Conn : cpc[d] = "token" /\ d # saved
      BY <2>2, <1>1, <1>2, <1>6 DEF TokenInv
    <3> QED BY <2>2, <3>1, <1>1 DEF TokenInv
  <2> QED BY <2>1, <2>2
<1> QED BY <1>1, <1>3, <1>4, <1>5, <1>6 DEF TokenInv

(* strtok(NULL, ",") in freed memory: there was nothing left to take.      *)
LEMMA DanglingKeepsToken ==
    ASSUME TokenInv, NEW c \in Conn, SeekDangling(c)
    PROVE  TokenInv'
<1>1. /\ cpc[c] = "token" /\ cpc' = [cpc EXCEPT ![c] = "ioctl"]
      /\ saved' = saved /\ dangled' = dangled \cup {c} /\ ~SavedIsAlive
  BY DEF SeekDangling, Active
<1>2. ~left
  BY <1>1 DEF TokenInv, SavedIsAlive
<1>3. left' = left /\ mixed'
  BY DEF SeekDangling
<1>4. mixed' \in BOOLEAN /\ left' \in BOOLEAN
  BY Zenon DEF SeekDangling, TokenInv
<1>5. cpc' \in [Conn -> Phase]
  BY <1>1 DEF TokenInv, Phase, Started
<1> QED BY <1>1, <1>2, <1>3, <1>4, <1>5 DEF TokenInv

-----------------------------------------------------------------------------
(* All steps.                                                              *)

LEMMA MainKeepsControl ==
    ASSUME ControlInv, MainStep
    PROVE  ControlInv'
<1>1. CASE \E c \in Conn : Accept(c) \/ AcceptNoThread(c)
  <2>1. PICK c \in Conn : Accept(c) \/ AcceptNoThread(c)
    BY <1>1
  <2>2. ListInv'
    BY <2>1, AcceptKeepsList DEF ControlInv
  <2>3. UNCHANGED tokVars /\ \A d \in Conn : cpc[d] = "token" => cpc'[d] = "token"
    BY <2>1 DEF Accept, AcceptNoThread, tokVars, ControlInv, TokenInv
  <2> QED BY <2>2, <2>3, PhaseKeepsToken DEF ControlInv, ListInv
<1>2. CASE ScanNext \/ ScanFound \/ ScanEnd
  <2>1. ListInv'
    BY <1>2, ScanKeepsList DEF ControlInv
  <2>2. UNCHANGED <<tokVars, cpc>>
    BY <1>2 DEF ScanNext, ScanFound, ScanEnd
  <2> QED BY <2>1, <2>2, PhaseKeepsToken DEF ControlInv, ListInv
<1>3. CASE JoinAndFree
  <2>1. ListInv'
    BY <1>3, JoinKeepsList DEF ControlInv
  <2>2. UNCHANGED tokVars /\ \A d \in Conn : cpc[d] = "token" => cpc'[d] = "token"
    BY <1>3 DEF JoinAndFree, tokVars, ControlInv, TokenInv
  <2> QED BY <2>1, <2>2, PhaseKeepsToken DEF ControlInv, ListInv
<1> QED BY <1>1, <1>2, <1>3 DEF MainStep

(* A client, or a thread, that does not end the process.                   *)
LEMMA ThreadKeepsControl ==
    ASSUME ControlInv, NEW c \in Conn,
           \/ Connect(c) \/ Recv(c) \/ RecvEof(c) \/ WritePacket(c)
           \/ SeekFirstToken(c) \/ SeekSecondToken(c) \/ SeekDangling(c) \/ SeekDone(c)
           \/ Echo(c) \/ EchoEnd(c) \/ ThreadReturn(c)
    PROVE  ControlInv'
<1> DEFINE Goes(from, to) ==
              cpc[c] = from /\ cpc' = [cpc EXCEPT ![c] = to] /\ UNCHANGED mainVars
<1>1. \/ Goes("unused", "backlog")
      \/ Goes("recv", "dispatch") \/ Goes("recv", "recv") \/ Goes("dispatch", "echo")
      \/ Goes("dispatch", "token") \/ Goes("token", "ioctl") \/ Goes("ioctl", "echo")
      \/ Goes("echo", "echo") \/ Goes("echo", "complete") \/ Goes("complete", "returned")
  <2>1. CASE Connect(c)
    BY <2>1 DEF Connect
  <2>2. CASE Recv(c) \/ RecvEof(c)
    BY <2>2 DEF Recv, RecvEof, Active
  <2>3. CASE WritePacket(c) \/ SeekFirstToken(c) \/ SeekSecondToken(c) \/ SeekDangling(c)
             \/ SeekDone(c)
    BY <2>3 DEF WritePacket, SeekFirstToken, SeekSecondToken, SeekDangling, SeekDone, Active
  <2>4. CASE Echo(c)
    BY <2>4 DEF Echo, Active, ControlInv, ListInv
  <2>5. CASE EchoEnd(c) \/ ThreadReturn(c)
    BY <2>5 DEF EchoEnd, ThreadReturn, Active
  <2> QED BY <2>1, <2>2, <2>3, <2>4, <2>5
<1>2. PICK from, to \in Phase :
         /\ Goes(from, to)
         /\ from \in Started \cup {"orphan"} <=> to \in Started \cup {"orphan"}
         /\ from \in {"complete", "returned"} => to \in {"complete", "returned"}
         /\ from = "token" => to = "ioctl"
  BY <1>1 DEF Phase, Started
<1>3. ListInv'
  BY <1>2, PhaseKeepsList DEF ControlInv, ThreadComplete
<1>4. TokenInv'
  <2>1. CASE SeekFirstToken(c) \/ SeekSecondToken(c) \/ SeekDangling(c)
    BY <2>1, FirstKeepsToken, SecondKeepsToken, DanglingKeepsToken DEF ControlInv
  <2>2. CASE \/ Connect(c) \/ Recv(c) \/ RecvEof(c) \/ WritePacket(c)
             \/ SeekDone(c) \/ Echo(c) \/ EchoEnd(c) \/ ThreadReturn(c)
    <3>1. UNCHANGED tokVars /\ cpc[c] # "token"
      BY <2>2 DEF Connect, Recv, RecvEof, WritePacket, SeekDone, Echo, EchoEnd,
                  ThreadReturn, Active
    <3>2. \A d \in Conn : cpc[d] = "token" => cpc'[d] = "token"
      BY <1>2, <3>1 DEF ControlInv, TokenInv
    <3> QED BY <1>3, <3>1, <3>2, PhaseKeepsToken DEF ControlInv, ListInv
  <2> QED BY <2>1, <2>2
<1> QED BY <1>3, <1>4 DEF ControlInv

LEMMA StepKeepsControl == ControlInv /\ [SockNext]_sockVars => ControlInv'
<1> SUFFICES ASSUME ControlInv, [SockNext]_sockVars
             PROVE  ControlInv'
  OBVIOUS
<1>1. CASE MainStep
  BY <1>1, MainKeepsControl
<1>2. CASE \E c \in Conn : RecvError(c) \/ EchoPipe(c) \/ SeekMalformed(c)
                           \/ SeekNoToken(c) \/ SeekFailed(c) \/ HeapAbort(c)
                           \/ WriteFails(c)
  BY <1>2, ExitControl DEF RecvError, EchoPipe, SeekMalformed, SeekNoToken, SeekFailed,
                           HeapAbort, WriteFails, ExitFailure, exit_safely
<1>3. CASE \E c \in Conn : \/ Connect(c) \/ Recv(c) \/ RecvEof(c) \/ WritePacket(c)
                           \/ SeekFirstToken(c) \/ SeekSecondToken(c) \/ SeekDangling(c)
                           \/ SeekDone(c) \/ Echo(c) \/ EchoEnd(c) \/ ThreadReturn(c)
  BY <1>3, ThreadKeepsControl
<1>4. CASE signal_handler
  BY <1>4, ExitControl DEF signal_handler, exit_safely
<1>5. CASE Restart
  BY <1>5 DEF Restart, ControlInv, ListInv, TokenInv, ThreadComplete, tokVars
<1>6. CASE UNCHANGED sockVars
  BY <1>6 DEF sockVars, mainVars, tokVars, ControlInv, ListInv, TokenInv, ThreadComplete
<1> QED BY <1>1, <1>2, <1>3, <1>4, <1>5, <1>6 DEF SockNext, ClientStep, ThreadStep

(* The inductive invariant of the server's control.                        *)
THEOREM SocketControl == SockSpec => []ControlInv
BY ControlInit, StepKeepsControl, PTL DEF SockSpec

(* For any number of clients: a node is freed only when its thread can no  *)
(* longer write to it, and none is lost before it is joined.               *)
THEOREM SocketNodes == SockSpec => []NodeOutlivesThread
<1>1. ControlInv => NodeOutlivesThread
  BY DEF ControlInv, ListInv, NodeOutlivesThread, ThreadComplete
<1> QED BY SocketControl, <1>1, PTL

(* For any number of clients: once strtok has given a thread a number of   *)
(* another client's text, there is a thread that asks for one and gets     *)
(* none, unless some thread has read on in a buffer that was freed.        *)
THEOREM SocketMixUp == SockSpec => []MixUpStarvesOne
<1>1. ASSUME TokenInv
      PROVE  MixUpStarvesOne
  <2> SUFFICES ASSUME mixed, dangled = {}
               PROVE  \E c \in Conn : /\ cpc[c] = "token"
                                      /\ left => \E d \in Conn \ {c} : cpc[d] = "token"
    BY DEF MixUpStarvesOne
  <2>1. PICK c \in Conn : cpc[c] = "token" /\ (left => c # saved)
    BY <1>1 DEF TokenInv
  <2>2. left => saved \in Conn \ {c} /\ cpc[saved] = "token"
    BY <1>1, <2>1 DEF TokenInv
  <2> QED BY <2>1, <2>2
<1> QED BY SocketControl, <1>1, PTL DEF ControlInv

-----------------------------------------------------------------------------
(* The steps, by what they do to the data.                                 *)

Moves(c, from, to) == cpc[c] = from /\ cpc' = [cpc EXCEPT ![c] = to]

(* Steps that leave all data alone.                                        *)
Quiet ==
    /\ UNCHANGED <<logVars, recvVars, echoVars>>
    /\ \/ UNCHANGED cpc
       \/ \E c \in Conn :
            \/ Moves(c, "backlog", "recv") \/ Moves(c, "backlog", "orphan")
            \/ Moves(c, "returned", "joined") \/ Moves(c, "token", "ioctl")
            \/ Moves(c, "recv", "dispatch") /\ incoming[c] = <<>>
            \/ /\ Moves(c, "dispatch", "token")
               /\ buffer[c] # <<>> /\ Head(buffer[c]) \in {SeekText, BadSeekText}

(* Every step is quiet, ends the process or is one of seven.               *)
LEMMA StepKinds ==
    ASSUME ControlInv, [SockNext]_sockVars
    PROVE  \/ Quiet
           \/ \E how : Exit(how)
           \/ \E c \in Conn : \/ Connect(c) \/ Recv(c) \/ WritePacket(c) \/ SeekDone(c)
                              \/ Echo(c) \/ EchoEnd(c) \/ ThreadReturn(c)
<1>1. CASE MainStep
  <2>1. CASE \E c \in Conn : Accept(c) \/ AcceptNoThread(c)
    <3>1. PICK c \in Conn : Accept(c) \/ AcceptNoThread(c)
      BY <2>1
    <3> QED BY <3>1 DEF Accept, AcceptNoThread, Quiet, Moves, recvVars, logVars, echoVars
  <2>2. CASE ScanNext \/ ScanFound \/ ScanEnd
    BY <2>2 DEF ScanNext, ScanFound, ScanEnd, Quiet, recvVars, logVars, echoVars
  <2>3. CASE JoinAndFree
    <3>1. list[scan] \in Conn
      BY <2>3 DEF JoinAndFree, ControlInv, ListInv
    <3>2. Moves(list[scan], "returned", "joined") /\ UNCHANGED <<logVars, recvVars, echoVars>>
      BY <2>3 DEF JoinAndFree, Moves
    <3> QED BY <3>1, <3>2 DEF Quiet
  <2> QED BY <1>1, <2>1, <2>2, <2>3 DEF MainStep
<1>2. CASE \E c \in Conn : RecvError(c) \/ EchoPipe(c) \/ SeekMalformed(c)
                           \/ SeekNoToken(c) \/ SeekFailed(c) \/ HeapAbort(c)
                           \/ WriteFails(c)
  BY <1>2 DEF RecvError, EchoPipe, SeekMalformed, SeekNoToken, SeekFailed,
              HeapAbort, WriteFails, ExitFailure, exit_safely
<1>3. CASE \E c \in Conn : RecvEof(c) \/ SeekFirstToken(c) \/ SeekSecondToken(c)
                           \/ SeekDangling(c)
  <2>1. PICK c \in Conn : RecvEof(c) \/ SeekFirstToken(c) \/ SeekSecondToken(c)
                           \/ SeekDangling(c)
    BY <1>3
  <2>2. CASE RecvEof(c)
    BY <2>2 DEF RecvEof, Active, Quiet, Moves
  <2>3. CASE SeekFirstToken(c)
    BY <2>3 DEF SeekFirstToken, StartsWith, Active, Quiet, Moves
  <2>4. CASE SeekSecondToken(c) \/ SeekDangling(c)
    BY <2>4 DEF SeekSecondToken, SeekDangling, Active, Quiet, Moves
  <2> QED BY <2>1, <2>2, <2>3, <2>4
<1>4. CASE signal_handler
  BY <1>4 DEF signal_handler, exit_safely
<1>5. CASE Restart
  BY <1>5 DEF Restart, Quiet
<1>6. CASE UNCHANGED sockVars
  BY <1>6 DEF sockVars, Quiet
<1> QED BY <1>1, <1>2, <1>3, <1>4, <1>5, <1>6 DEF SockNext, ClientStep, ThreadStep

-----------------------------------------------------------------------------
(* Types.                                                                  *)

DataInv ==
    /\ commands \in Seq(Seq(Byte)) /\ Len(commands) <= Capacity
    /\ partial \in Seq(Byte)
    /\ request \in [Conn -> Seq(Seq(Byte))] /\ incoming \in [Conn -> Seq(Seq(Byte))]
    /\ overrun \subseteq Conn
    /\ fpos \in [Conn -> Nat]
    /\ buffer \in [Conn -> Seq(Byte)] /\ sendbuf \in [Conn -> Seq(Byte)]
    /\ seen \in [Conn -> Seq(Byte)] /\ sent \in [Conn -> Seq(Byte)]

(* The place of the first newline.                                         *)
LEMMA NewlineIndexValue ==
    ASSUME NEW seg \in Seq(Byte)
    PROVE  /\ NewlineIndex(seg) \in Nat \ {0}
           /\ HasNewline(seg) => /\ NewlineIndex(seg) \in 1 .. Len(seg)
                                 /\ seg[NewlineIndex(seg)] = NL
           /\ ~HasNewline(seg) => NewlineIndex(seg) = BufferSize
<1> DEFINE First(i) == seg[i] = NL /\ \A j \in 1 .. i - 1 : seg[j] # NL
           places == {i \in 1 .. Len(seg) : seg[i] = NL}
<1>1. CASE HasNewline(seg)
  <2>1. places \in SUBSET Nat /\ places # {}
    BY <1>1 DEF HasNewline
  <2>2. PICK k \in places : \A j \in places : k <= j
    BY <2>1, NatLeast
  <2>3. k \in DOMAIN seg /\ First(k)
    BY <2>2
  <2>4. NewlineIndex(seg) = CHOOSE i \in DOMAIN seg : First(i)
    BY <1>1 DEF NewlineIndex
  <2> HIDE DEF First
  <2>5. NewlineIndex(seg) \in DOMAIN seg /\ First(NewlineIndex(seg))
    BY <2>3, <2>4, Zenon
  <2> QED BY <1>1, <2>5 DEF First
<1>2. CASE ~HasNewline(seg)
  BY <1>2, BufferAssumption DEF NewlineIndex
<1> QED BY <1>1, <1>2

(* A block is never smaller than what was asked for is positive.           *)
LEMMA UsableType ==
    ASSUME NEW n \in Nat \ {0}
    PROVE  Usable(n) \in Nat \ {0}
<1> DEFINE q == (n + AllocUnit - 1) \div AllocUnit
<1>1. AllocUnit \in Nat \ {0}
  BY BufferAssumption
<1>2. q \in Nat \ {0}
  BY <1>1
<1> HIDE DEF q
<1>3. q * AllocUnit \in Nat \ {0}
  BY <1>1, <1>2
<1> QED BY <1>3 DEF Usable, q

(* What strncat() appends is the front of what it can copy.                *)
LEMMA AppendedFront ==
    ASSUME NEW seg \in Seq(Byte), NEW new \in Appended(seg)
    PROVE  \E text \in Copied(seg) : /\ text \in Seq(Byte)
                                     /\ \E k \in 0 .. Len(text) : new = SubSeq(text, 1, k)
<1> DEFINE m == NewlineIndex(seg) + 1
<1>1. m \in Nat
  BY NewlineIndexValue
<1>2. PICK text \in Copied(seg) : new \in {SubSeq(text, 1, k) : k \in TextEnds(text)}
  BY DEF Appended
<1>3. \E k \in 0 .. Len(text) : new = SubSeq(text, 1, k)
  BY <1>2 DEF TextEnds
<1>4. text \in {seg, Append(seg, Stray)} \/ (m <= Len(seg) /\ text = SubSeq(seg, 1, m))
  BY DEF Copied
<1> HIDE DEF m
<1>5. text \in Seq(Byte)
  <2>1. CASE m <= Len(seg) /\ text = SubSeq(seg, 1, m)
    BY <2>1, <1>1
  <2> QED BY <2>1, <1>4, ByteAssumption
<1> QED BY <1>3, <1>5

(* What recv() puts into the buffer are bytes.                             *)
LEMMA ReceivedType ==
    ASSUME NEW text \in Seq(Byte), NEW seg \in Seq(Byte), NEW n \in Nat \ {0},
           NEW old \in Realloced(text, n), NEW new \in Appended(seg)
    PROVE  old \in Seq(Byte) /\ new \in Seq(Byte) /\ old \o new \in Seq(Byte)
<1>1. ASSUME NEW s \in Seq(Byte), NEW k \in Nat, k <= Len(s) PROVE SubSeq(s, 1, k) \in Seq(Byte)
  BY <1>1
<1>2. old \in Seq(Byte)
  <2> DEFINE u == Usable(n)
  <2>1. u \in Nat
    BY UsableType
  <2>2. old = text \/ (~(Len(text) < u) /\ old = SubSeq(text, 1, u))
    BY DEF Realloced
  <2> HIDE DEF u
  <2>3. Len(text) \in Nat
    OBVIOUS
  <2> QED BY <1>1, <2>1, <2>2, <2>3
<1>3. new \in Seq(Byte)
  <2>1. PICK copy \in Seq(Byte) : \E k \in 0 .. Len(copy) : new = SubSeq(copy, 1, k)
    BY AppendedFront
  <2>2. PICK k \in 0 .. Len(copy) : new = SubSeq(copy, 1, k)
    BY <2>1
  <2>3. Len(copy) \in Nat
    OBVIOUS
  <2> QED BY <1>1, <2>2, <2>3
<1> QED BY <1>2, <1>3

(* Where the commands begin and end.                                       *)
LEMMA OffsetValues ==
    ASSUME commands \in Seq(Seq(Byte))
    PROVE  /\ Len(commands) \in Nat
           /\ Offset[0] = 0
           /\ \A i \in 0 .. Len(commands) : Offset[i] \in Nat
           /\ \A i \in 1 .. Len(commands) :
                 /\ commands[i] \in Seq(Byte) /\ Len(commands[i]) \in Nat
                 /\ i - 1 \in 0 .. Len(commands) /\ i \in 0 .. Len(commands)
                 /\ Offset[i] = Offset[i - 1] + Len(commands[i])
<1> DEFINE N == Len(commands)
           size == [i \in 0 .. N - 1 |-> Len(commands[i + 1])]
           Sum(f) == f = [i \in 0 .. Len(commands) |->
                             IF i = 0 THEN 0 ELSE f[i - 1] + Len(commands[i])]
<1>1. N \in Nat /\ \A i \in 1 .. N : commands[i] \in Seq(Byte) /\ Len(commands[i]) \in Nat
  OBVIOUS
<1> HIDE DEF N
<1>2. size \in [0 .. N - 1 -> Nat] /\ \A i \in 1 .. N : size[i - 1] = Len(commands[i])
  BY <1>1
<1> HIDE DEF size
<1>3. PICK f : f = [i \in 0 .. N |-> IF i = 0 THEN 0 ELSE f[i - 1] + size[i - 1]]
  BY <1>1, <1>2, SumExistsUpTo
<1>4. Sum(f)
  <2>1. ASSUME NEW i \in 0 .. N
        PROVE  f[i] = IF i = 0 THEN 0 ELSE f[i - 1] + Len(commands[i])
    <3>1. i # 0 => i \in 1 .. N
      BY <1>1
    <3> QED BY <1>2, <1>3, <3>1
  <2> QED BY <1>3, <2>1 DEF N
<1>5. Offset = CHOOSE g : Sum(g)
  BY Zenon DEF Offset
<1> HIDE DEF Sum
<1>6. Sum(Offset)
  BY <1>4, <1>5, Zenon
<1>7. Offset = [i \in 0 .. N |-> IF i = 0 THEN 0 ELSE Offset[i - 1] + Len(commands[i])]
  BY <1>6 DEF Sum, N
<1>8. Offset[0] = 0 /\ \A i \in 1 .. N : Offset[i] = Offset[i - 1] + Len(commands[i])
  <2>1. 0 \in 0 .. N /\ \A i \in 1 .. N : i \in 0 .. N /\ i # 0
    BY <1>1
  <2> QED BY <1>7, <2>1
<1>9. IsSum(Offset, size, 0 .. N)
  <2>1. ASSUME NEW i \in 0 .. N, i # 0 PROVE Offset[i] = Offset[i - 1] + size[i - 1]
    <3>1. i \in 1 .. N
      BY <1>1, <2>1
    <3> QED BY <1>2, <1>8, <3>1
  <2> QED BY <1>8, <2>1 DEF IsSum
<1>10. \A i \in 0 .. N : Offset[i] \in Nat
  BY <1>1, <1>2, <1>9, SumType
<1>11. \A i \in 1 .. N : i - 1 \in 0 .. N /\ i \in 0 .. N
  BY <1>1
<1> QED BY <1>1, <1>8, <1>10, <1>11 DEF N

(* The commands lie one behind the other.                                  *)
LEMMA OffsetGrows ==
    ASSUME commands \in Seq(Seq(Byte)),
           NEW i \in 0 .. Len(commands), NEW j \in i .. Len(commands)
    PROVE  Offset[i] <= Offset[j]
<1> DEFINE S == {k \in i .. Len(commands) : Offset[i] <= Offset[k]}
<1>1. /\ Len(commands) \in Nat /\ \A k \in 0 .. Len(commands) : Offset[k] \in Nat
      /\ \A k \in 1 .. Len(commands) :
            Offset[k] = Offset[k - 1] + Len(commands[k]) /\ Len(commands[k]) \in Nat
  BY OffsetValues
<1>0. i \in Nat /\ i <= Len(commands)
  BY <1>1
<1>2. i \in S
  BY <1>0, <1>1
<1>3. ASSUME NEW k \in i .. Len(commands), k \in S, k + 1 <= Len(commands) PROVE k + 1 \in S
  <2>1. k \in 0 .. Len(commands) /\ k + 1 \in 1 .. Len(commands) /\ (k + 1) - 1 = k
        /\ k + 1 \in i .. Len(commands) /\ k + 1 \in 0 .. Len(commands)
    BY <1>0, <1>1, <1>3
  <2>2. Offset[k + 1] = Offset[k] + Len(commands[k + 1])
    BY <1>1, <2>1
  <2> QED BY <1>0, <1>1, <1>3, <2>1, <2>2
<1> HIDE DEF S
<1>4. i .. Len(commands) \subseteq S
  BY <1>0, <1>1, <1>2, <1>3, UpToInduction
<1> QED BY <1>4 DEF S

(* Every position in front of the end lies in one command.                 *)
LEMMA HoldingExists ==
    ASSUME commands \in Seq(Seq(Byte)), NEW pos \in Nat, pos < Offset[Len(commands)]
    PROVE  \E i \in 1 .. Len(commands) : Offset[i - 1] <= pos /\ pos < Offset[i]
<1> DEFINE ends == {i \in 0 .. Len(commands) : pos < Offset[i]}
<1>1. /\ Len(commands) \in Nat /\ Offset[0] = 0
      /\ \A k \in 0 .. Len(commands) : Offset[k] \in Nat
  BY OffsetValues
<1>2. ends \in SUBSET Nat /\ ends # {}
  BY <1>1
<1>3. PICK i \in ends : \A k \in ends : i <= k
  BY <1>2, NatLeast
<1>4. i \in 1 .. Len(commands) /\ i - 1 \in 0 .. Len(commands) /\ ~(i <= i - 1)
  BY <1>1, <1>3
<1>5. ~(pos < Offset[i - 1])
  BY <1>3, <1>4
<1>6. Offset[i - 1] \in Nat
  BY <1>1, <1>4
<1>7. Offset[i - 1] <= pos
  BY <1>5, <1>6
<1> QED BY <1>3, <1>4, <1>7

(* What read() returns: nothing behind the end, and otherwise the next     *)
(* bytes of the command that holds the position.                           *)
LEMMA ReadAtValue ==
    ASSUME commands \in Seq(Seq(Byte)), NEW pos \in Nat
    PROVE  /\ ReadAt(pos) \in Seq(Byte)
           /\ ReadAt(pos) = <<>> => Offset[Len(commands)] <= pos
           /\ ReadAt(pos) # <<>> =>
                \E i \in 1 .. Len(commands) :
                   /\ Offset[i - 1] <= pos /\ pos < Offset[i]
                   /\ Len(ReadAt(pos)) = IF Offset[i] - pos < BufferSize
                                         THEN Offset[i] - pos ELSE BufferSize
                   /\ \A k \in 1 .. Len(ReadAt(pos)) :
                         /\ pos - Offset[i - 1] + k \in 1 .. Len(commands[i])
                         /\ ReadAt(pos)[k] = commands[i][pos - Offset[i - 1] + k]
<1> DEFINE holding == {i \in 1 .. Len(commands) : Offset[i - 1] <= pos /\ pos < Offset[i]}
<1>1. /\ Len(commands) \in Nat /\ Offset[0] = 0
      /\ \A k \in 0 .. Len(commands) : Offset[k] \in Nat
      /\ \A k \in 1 .. Len(commands) :
            commands[k] \in Seq(Byte) /\ Offset[k] = Offset[k - 1] + Len(commands[k])
  BY OffsetValues
<1>2. CASE holding = {}
  <2>1. ReadAt(pos) = <<>>
    BY <1>2 DEF ReadAt
  <2>2. ~(pos < Offset[Len(commands)])
    BY <1>2, HoldingExists
  <2>3. Offset[Len(commands)] \in Nat
    BY <1>1
  <2> QED BY <2>1, <2>2, <2>3
<1>3. CASE holding # {}
  <2> DEFINE i == CHOOSE j \in holding : TRUE
             cmd == commands[i]
             first == pos - Offset[i - 1] + 1
             last == first + BufferSize - 1
             to == IF last < Len(cmd) THEN last ELSE Len(cmd)
  <2>1. i \in holding
    BY <1>3
  <2>2. ReadAt(pos) = SubSeq(cmd, first, to)
    BY <1>3 DEF ReadAt
  <2> HIDE DEF i, cmd, first, last, to
  <2>3. /\ i \in 1 .. Len(commands) /\ Offset[i - 1] <= pos /\ pos < Offset[i]
        /\ Offset[i - 1] \in Nat /\ Offset[i] \in Nat
        /\ cmd \in Seq(Byte) /\ Len(cmd) \in Nat
        /\ Offset[i] = Offset[i - 1] + Len(cmd)
    <3>1. i \in 1 .. Len(commands) /\ Offset[i - 1] <= pos /\ pos < Offset[i]
      BY <2>1
    <3>2. i \in 0 .. Len(commands) /\ i - 1 \in 0 .. Len(commands)
      BY <1>1, <3>1
    <3>3. cmd \in Seq(Byte)
      BY <1>1, <3>1 DEF cmd
    <3> QED BY <1>1, <3>1, <3>2, <3>3 DEF cmd
  <2>4. /\ first \in 1 .. Len(cmd) /\ first = pos - Offset[i - 1] + 1
        /\ to \in first .. Len(cmd)
        /\ to - first + 1 = IF Offset[i] - pos < BufferSize THEN Offset[i] - pos ELSE BufferSize
    <3> DEFINE a == Offset[i - 1]
               b == Offset[i]
               n == Len(cmd)
    <3>1. /\ a \in Nat /\ b \in Nat /\ n \in Nat /\ b = a + n /\ a <= pos /\ pos < b
          /\ BufferSize \in Nat \ {0} /\ pos \in Nat
      BY <2>3, BufferAssumption
    <3>2. /\ first = pos - a + 1 /\ last = first + BufferSize - 1
          /\ to = IF last < n THEN last ELSE n
      BY DEF first, last, to
    <3> HIDE DEF a, b, n
    <3>3. first \in 1 .. n
      BY <3>1, <3>2
    <3>4. to \in first .. n /\ to - first + 1 = IF b - pos < BufferSize THEN b - pos ELSE BufferSize
      BY <3>1, <3>2, <3>3
    <3> QED BY <3>2, <3>3, <3>4 DEF a, b, n
  <2>5. \A k \in first .. to : cmd[k] \in Byte
    <3>1. \A k \in 1 .. Len(cmd) : cmd[k] \in Byte
      BY <2>3
    <3>2. \A k \in first .. to : k \in 1 .. Len(cmd)
      BY <2>3, <2>4
    <3> QED BY <3>1, <3>2
  <2>6. /\ SubSeq(cmd, first, to) \in Seq(Byte)
        /\ Len(SubSeq(cmd, first, to)) = to - first + 1
        /\ \A k \in 1 .. to - first + 1 : SubSeq(cmd, first, to)[k] = cmd[first + k - 1]
    BY <2>4, <2>5, SubSeqProperties
  <2>7. ReadAt(pos) # <<>>
    BY <2>2, <2>4, <2>6
  <2>8. ASSUME NEW k \in 1 .. Len(ReadAt(pos))
        PROVE  /\ pos - Offset[i - 1] + k \in 1 .. Len(commands[i])
               /\ ReadAt(pos)[k] = commands[i][pos - Offset[i - 1] + k]
    <3>1. k \in 1 .. to - first + 1
      BY <2>2, <2>6
    <3>2. first + k - 1 = pos - Offset[i - 1] + k /\ first + k - 1 \in 1 .. Len(cmd)
      <4> DEFINE a == Offset[i - 1]
                 n == Len(cmd)
      <4>1. a \in Nat /\ n \in Nat /\ first \in 1 .. n /\ first = pos - a + 1 /\ to \in first .. n
        BY <2>3, <2>4
      <4> HIDE DEF a, n
      <4>2. first + k - 1 = pos - a + k /\ first + k - 1 \in 1 .. n
        BY <3>1, <4>1
      <4> QED BY <4>2 DEF a, n
    <3> QED BY <2>2, <2>6, <3>1, <3>2 DEF cmd
  <2>9. Len(ReadAt(pos)) = IF Offset[i] - pos < BufferSize THEN Offset[i] - pos ELSE BufferSize
    BY <2>2, <2>4, <2>6
  <2> QED BY <2>2, <2>3, <2>6, <2>7, <2>8, <2>9
<1> QED BY <1>2, <1>3

(* What read() leaves in send_buffer: the chunk, and the tail of a longer  *)
(* earlier one.                                                            *)
EchoText(chunk, old) == chunk \o SubSeq(old, Len(chunk) + 1, Len(old))

LEMMA EchoTextType ==
    ASSUME NEW chunk \in Seq(Byte), NEW old \in Seq(Byte)
    PROVE  /\ EchoText(chunk, old) \in Seq(Byte)
           /\ Len(old) <= Len(chunk) => EchoText(chunk, old) = chunk
<1> DEFINE tail == SubSeq(old, Len(chunk) + 1, Len(old))
<1>1. Len(chunk) \in Nat /\ Len(old) \in Nat /\ \A k \in 1 .. Len(old) : old[k] \in Byte
  OBVIOUS
<1>2. Len(chunk) + 1 \in Int /\ Len(old) \in Int
      /\ \A k \in Len(chunk) + 1 .. Len(old) : old[k] \in Byte
  BY <1>1
<1>3. tail \in Seq(Byte)
  BY <1>2, SubSeqProperties
<1>4. Len(old) <= Len(chunk) => tail = <<>>
  BY <1>1, <1>2, SubSeqEmpty
<1> HIDE DEF tail
<1>5. chunk \o tail \in Seq(Byte) /\ chunk \o <<>> = chunk
  BY <1>3, ConcatProperties, ConcatEmptySeq
<1> QED BY <1>4, <1>5 DEF EchoText, tail

LEMMA DataInit == SockInit => DataInv
<1> SUFFICES ASSUME SockInit PROVE DataInv
  OBVIOUS
<1>1. commands = <<>> /\ partial = <<>> /\ overrun = {}
  BY DEF SockInit, LogInit
<1>2. None \in [Conn -> Seq(Seq(Byte))] /\ None \in [Conn -> Seq(Byte)]
  BY DEF None
<1>3. fpos \in [Conn -> Nat]
  BY DEF SockInit
<1> QED BY <1>1, <1>2, <1>3, CapacityAssumption DEF SockInit, DataInv

(* What a write() does to the commands and the one under construction.     *)
LEMMA WriteTypes ==
    ASSUME DataInv, NEW bytes \in Seq(Byte), Write(bytes)
    PROVE  commands' \in Seq(Seq(Byte)) /\ Len(commands') <= Capacity /\ partial' \in Seq(Byte)
<1>1. /\ commands \in Seq(Seq(Byte)) /\ Len(commands) <= Capacity /\ partial \in Seq(Byte)
      /\ Capacity \in Nat \ {0} /\ Len(commands) \in Nat
  BY CapacityAssumption DEF DataInv
<1>2. partial \o bytes \in Seq(Byte)
  BY <1>1
<1>3. CASE HasNewline(bytes)
  <2>1. commands' = Append(Kept(commands), partial \o bytes) /\ partial' = <<>>
    BY <1>3 DEF Write
  <2>2. Kept(commands) \in Seq(Seq(Byte)) /\ Len(Kept(commands)) + 1 <= Capacity
    <3>1. CASE Len(commands) = Capacity
      BY <1>1, <3>1, HeadTailProperties DEF Kept
    <3>2. CASE Len(commands) # Capacity
      BY <1>1, <3>2 DEF Kept
    <3> QED BY <3>1, <3>2
  <2> QED BY <1>2, <2>1, <2>2
<1>4. CASE ~HasNewline(bytes)
  BY <1>1, <1>2, <1>4 DEF Write
<1> QED BY <1>3, <1>4

LEMMA StepKeepsData ==
    ASSUME DataInv, ControlInv, [SockNext]_sockVars
    PROVE  DataInv'
<1>1. CASE Quiet
  BY <1>1 DEF Quiet, DataInv, logVars, recvVars, echoVars
<1>2. CASE \E how : Exit(how)
  <2>1. None \in [Conn -> Seq(Seq(Byte))] /\ None \in [Conn -> Seq(Byte)]
    BY DEF None
  <2> QED BY <1>2, <2>1 DEF Exit, DataInv, logVars
<1>3. ASSUME NEW c \in Conn, Connect(c) PROVE DataInv'
  <2>1. PICK s \in Segments[c] : request' = [request EXCEPT ![c] = s]
                                /\ incoming' = [incoming EXCEPT ![c] = s]
    BY <1>3 DEF Connect
  <2>2. s \in Seq(Seq(Byte))
    BY SegmentAssumption
  <2> QED BY <1>3, <2>1, <2>2 DEF Connect, DataInv, logVars, echoVars
<1>4. ASSUME NEW c \in Conn, Recv(c) PROVE DataInv'
  <2> DEFINE seg == Head(incoming[c])
             n == NewlineIndex(seg) + 1
  <2>1. /\ incoming[c] # <<>> /\ Receive(c) /\ UNCHANGED <<logVars, echoVars>>
        /\ incoming[c] \in Seq(Seq(Byte)) /\ buffer[c] \in Seq(Byte)
    BY <1>4 DEF Recv, DataInv
  <2>2. seg \in Seq(Byte) /\ Tail(incoming[c]) \in Seq(Seq(Byte))
    BY <2>1
  <2> HIDE DEF seg
  <2>3. n \in Nat \ {0}
    BY <2>2, NewlineIndexValue
  <2> HIDE DEF n
  <2>4. PICK old \in Realloced(buffer[c], n), new \in Appended(seg) :
           /\ buffer' = [buffer EXCEPT ![c] = old \o new]
           /\ overrun' \in {overrun, overrun \cup {c}}
    <3>1. PICK old \in Realloced(buffer[c], n), new \in Appended(seg) :
             /\ buffer' = [buffer EXCEPT ![c] = old \o new]
             /\ overrun' = overrun \cup IF Len(old \o new) < Usable(n) THEN {} ELSE {c}
      BY <2>1 DEF Receive, seg, n
    <3> QED BY <3>1
  <2>5. old \o new \in Seq(Byte)
    BY <2>1, <2>2, <2>3, ReceivedType
  <2>6. buffer' \in [Conn -> Seq(Byte)] /\ overrun' \subseteq Conn
    BY <2>4, <2>5 DEF DataInv
  <2>7. incoming' \in [Conn -> Seq(Seq(Byte))] /\ request' \in [Conn -> Seq(Seq(Byte))]
    BY <2>1, <2>2 DEF Receive, DataInv
  <2> QED BY <2>1, <2>6, <2>7 DEF DataInv, logVars, echoVars
<1>5. ASSUME NEW c \in Conn, WritePacket(c) PROVE DataInv'
  <2>1. buffer[c] \in Seq(Byte) /\ Write(buffer[c])
    BY <1>5 DEF WritePacket, DataInv
  <2>2. commands' \in Seq(Seq(Byte)) /\ Len(commands') <= Capacity /\ partial' \in Seq(Byte)
    BY <2>1, WriteTypes
  <2> QED BY <1>5, <2>2 DEF WritePacket, DataInv, recvVars, echoVars
<1>6. ASSUME NEW c \in Conn, SeekDone(c) PROVE DataInv'
  <2>1. PICK pos \in 0 .. Offset[Len(commands)] + 1 : fpos' = [fpos EXCEPT ![c] = pos]
    BY <1>6 DEF SeekDone
  <2>2. pos \in Nat
    BY <2>1
  <2> QED BY <1>6, <2>1, <2>2 DEF SeekDone, DataInv, logVars, recvVars
<1>7. ASSUME NEW c \in Conn, Echo(c) PROVE DataInv'
  <2> DEFINE chunk == ReadAt(fpos[c])
             text == EchoText(chunk, sendbuf[c])
  <2>1. /\ fpos' = [fpos EXCEPT ![c] = @ + Len(chunk)]
        /\ seen' = [seen EXCEPT ![c] = @ \o chunk]
        /\ sendbuf' = [sendbuf EXCEPT ![c] = text]
        /\ sent' = [sent EXCEPT ![c] = @ \o text \o Behind(text)]
        /\ UNCHANGED <<logVars, recvVars>>
    BY <1>7 DEF Echo, EchoText
  <2>2. chunk \in Seq(Byte) /\ sendbuf[c] \in Seq(Byte) /\ fpos[c] \in Nat
    BY ReadAtValue DEF DataInv
  <2> HIDE DEF chunk
  <2>3. text \in Seq(Byte)
    BY <2>2, EchoTextType
  <2> HIDE DEF text
  <2>4. Behind(text) \in Seq(Byte)
    BY ByteAssumption DEF Behind
  <2>5. /\ fpos[c] + Len(chunk) \in Nat /\ seen[c] \o chunk \in Seq(Byte)
        /\ sent[c] \o text \o Behind(text) \in Seq(Byte)
    BY <2>2, <2>3, <2>4 DEF DataInv
  <2> QED BY <2>1, <2>3, <2>5 DEF DataInv, logVars, recvVars
<1>8. ASSUME NEW c \in Conn, EchoEnd(c) PROVE DataInv'
  BY <1>8 DEF EchoEnd, DataInv, logVars
<1>9. ASSUME NEW c \in Conn, ThreadReturn(c) PROVE DataInv'
  BY <1>9 DEF ThreadReturn, DataInv, logVars, recvVars
<1> QED BY <1>1, <1>2, <1>3, <1>4, <1>5, <1>6, <1>7, <1>8, <1>9, StepKinds

(* SockTypeOK for any number of clients and whatever they send: positions  *)
(* stay inside the list, and the device keeps at most Capacity commands.   *)
THEOREM SocketTypes == SockSpec => []SockTypeOK
<1>1. DataInv /\ ControlInv => SockTypeOK
  <2> SUFFICES ASSUME DataInv, ControlInv PROVE SockTypeOK
    OBVIOUS
  <2>1. /\ server \in {"up", "failed", "stopped"} /\ mpc \in {"accept", "scan", "join"}
        /\ list \in Seq(Conn) /\ (scan \in 1 .. Len(list) + 1 \/ mpc = "accept")
    BY DEF ControlInv, ListInv
  <2>2. cpc \in [Conn -> {"unused", "backlog", "recv", "dispatch", "token", "ioctl", "echo",
                          "complete", "returned", "joined", "orphan", "dropped"}]
    BY DEF ControlInv, ListInv, Phase, Started
  <2>3. /\ saved \in Conn \cup {NoConn} /\ left \in BOOLEAN /\ mixed \in BOOLEAN
        /\ dangled \subseteq Conn
    BY DEF ControlInv, TokenInv
  <2>4. \A f \in {buffer, sendbuf, seen, sent} : f \in [Conn -> Seq(Byte)]
    BY DEF DataInv
  <2> QED BY <2>1, <2>2, <2>3, <2>4, Zenon DEF SockTypeOK, DataInv
<1> QED BY SocketControl, DataInit, StepKeepsData, <1>1, PTL DEF SockSpec

-----------------------------------------------------------------------------
(* Nothing evicted.                                                        *)

(* There are no more clients than the device keeps commands.               *)
FewClients == IsFiniteSet(Conn) /\ Cardinality(Conn) <= Capacity

(* The connections whose thread has been through its write().              *)
Past == {"echo", "complete", "returned", "joined", "dropped"}
Done == {c \in Conn : cpc[c] \in Past}

(* No thread has written more than one command.                            *)
RoomInv == Len(commands) <= Cardinality(Done)

(* A thread that is about to write finds room for one more.                *)
LEMMA RoomLeft ==
    ASSUME FewClients, DataInv, RoomInv, NEW c \in Conn, cpc[c] \notin Past
    PROVE  /\ Len(commands) < Capacity
           /\ Cardinality(Done \cup {c}) = Cardinality(Done) + 1
<1>1. IsFiniteSet(Conn) /\ Cardinality(Conn) \in Nat /\ Cardinality(Conn) <= Capacity
  BY FS_CardinalityType DEF FewClients
<1>2. Done \in SUBSET Conn /\ Done \cup {c} \in SUBSET Conn /\ c \notin Done
  BY DEF Done
<1>3. /\ IsFiniteSet(Done) /\ IsFiniteSet(Done \cup {c})
      /\ Cardinality(Done \cup {c}) <= Cardinality(Conn)
  BY <1>1, <1>2, FS_Subset
<1>4. Cardinality(Done) \in Nat /\ Cardinality(Done \cup {c}) = Cardinality(Done) + 1
  BY <1>2, <1>3, FS_AddElement, FS_CardinalityType
<1>5. Len(commands) \in Nat
  BY DEF DataInv
<1> QED BY <1>1, <1>3, <1>4, <1>5, CapacityAssumption DEF RoomInv

(* A write() of a thread appends, or completes nothing.                    *)
LEMMA WriteAppends ==
    ASSUME FewClients, DataInv, RoomInv, NEW c \in Conn, WritePacket(c)
    PROVE  /\ partial \o buffer[c] \in Seq(Byte)
           /\ IF HasNewline(buffer[c])
              THEN /\ commands' = Append(commands, partial \o buffer[c])
                   /\ partial \o buffer[c] # <<>> /\ partial' = <<>>
              ELSE commands' = commands
<1>1. cpc[c] = "dispatch" /\ Write(buffer[c])
  BY DEF WritePacket, Active
<1>2. Len(commands) < Capacity /\ Len(commands) \in Nat /\ Capacity \in Nat
  <2>1. cpc[c] \notin Past
    BY <1>1 DEF Past
  <2>2. Len(commands) < Capacity
    BY <2>1, RoomLeft
  <2> QED BY <2>2, CapacityAssumption DEF DataInv
<1>3. Kept(commands) = commands
  BY <1>2 DEF Kept
<1>4. buffer[c] \in Seq(Byte) /\ partial \in Seq(Byte) /\ partial \o buffer[c] \in Seq(Byte)
  BY DEF DataInv
<1>5. HasNewline(buffer[c]) => partial \o buffer[c] # <<>>
  <2> SUFFICES ASSUME NEW i \in DOMAIN buffer[c] PROVE partial \o buffer[c] # <<>>
    BY DEF HasNewline
  <2>1. Len(buffer[c]) > 0 /\ Len(partial \o buffer[c]) = Len(partial) + Len(buffer[c])
    BY <1>4
  <2> QED BY <1>4, <2>1
<1> QED BY <1>1, <1>3, <1>4, <1>5 DEF Write

LEMMA StepKeepsRoom ==
    ASSUME FewClients, DataInv, ControlInv, RoomInv, [SockNext]_sockVars
    PROVE  RoomInv'
<1>1. IsFiniteSet(Conn) /\ cpc \in [Conn -> Phase]
  BY DEF FewClients, ControlInv, ListInv
<1>2. ASSUME Done \subseteq Done', UNCHANGED commands PROVE RoomInv'
  <2>1. Done' \in SUBSET Conn
    BY DEF Done
  <2>2. IsFiniteSet(Done') /\ Done \in SUBSET Done'
    BY <1>1, <1>2, <2>1, FS_Subset
  <2>3. Cardinality(Done) <= Cardinality(Done') /\ IsFiniteSet(Done)
    BY <2>2, FS_Subset
  <2>4. Cardinality(Done) \in Nat /\ Cardinality(Done') \in Nat /\ Len(commands) \in Nat
    BY <2>2, <2>3, FS_CardinalityType DEF DataInv
  <2> QED BY <1>2, <2>3, <2>4 DEF RoomInv
<1>3. ASSUME NEW c \in Conn, NEW p \in Past, cpc' = [cpc EXCEPT ![c] = p] PROVE Done \subseteq Done'
  BY <1>1, <1>3 DEF Done
<1>4. ASSUME NEW c \in Conn, cpc[c] \notin Past, NEW p, cpc' = [cpc EXCEPT ![c] = p]
      PROVE  Done \subseteq Done'
  BY <1>1, <1>4 DEF Done
<1>5. CASE Quiet
  <2>1. Done \subseteq Done'
    BY <1>3, <1>4, <1>5 DEF Quiet, Moves, Past, Done
  <2> QED BY <1>2, <1>5, <2>1 DEF Quiet, logVars
<1>6. CASE \E how : Exit(how)
  <2>1. Done \subseteq Done'
    BY <1>6 DEF Exit, Done, Past
  <2> QED BY <1>2, <1>6, <2>1 DEF Exit, logVars
<1>7. ASSUME NEW c \in Conn, \/ Connect(c) \/ Recv(c) \/ SeekDone(c)
                             \/ Echo(c) \/ EchoEnd(c) \/ ThreadReturn(c)
      PROVE  RoomInv'
  <2>1. CASE Connect(c) \/ Recv(c)
    <3>1. Done \subseteq Done'
      BY <1>4, <2>1 DEF Connect, Recv, Active, Past
    <3> QED BY <1>2, <2>1, <3>1 DEF Connect, Recv, logVars
  <2>2. CASE SeekDone(c) \/ EchoEnd(c) \/ ThreadReturn(c)
    <3>1. Done \subseteq Done'
      BY <1>3, <2>2 DEF SeekDone, EchoEnd, ThreadReturn, Past
    <3> QED BY <1>2, <2>2, <3>1 DEF SeekDone, EchoEnd, ThreadReturn, logVars
  <2>3. CASE Echo(c)
    BY <1>2, <2>3 DEF Echo, logVars, Done
  <2> QED BY <1>7, <2>1, <2>2, <2>3
<1>8. ASSUME NEW c \in Conn, WritePacket(c) PROVE RoomInv'
  <2>1. cpc[c] \notin Past /\ cpc' = [cpc EXCEPT ![c] = "echo"]
    BY <1>8 DEF WritePacket, Active, Past
  <2>2. Done' = Done \cup {c}
    BY <1>1, <2>1 DEF Done, Past
  <2>3. Len(commands') \in {Len(commands), Len(commands) + 1} /\ Len(commands) \in Nat
    <3>1. commands \in Seq(Seq(Byte))
      BY DEF DataInv
    <3> QED BY <1>8, <3>1, WriteAppends
  <2>4. Cardinality(Done \cup {c}) = Cardinality(Done) + 1 /\ Cardinality(Done) \in Nat
    <3>1. Done \in SUBSET Conn
      BY DEF Done
    <3> QED BY <1>1, <2>1, <3>1, RoomLeft, FS_Subset, FS_CardinalityType
  <2> QED BY <2>2, <2>3, <2>4 DEF RoomInv
<1> QED BY <1>5, <1>6, <1>7, <1>8, StepKinds

-----------------------------------------------------------------------------
(* Appending a command moves none of the others.                           *)

OffsetOK ==
    /\ Len(commands) \in Nat
    /\ Offset[0] = 0
    /\ \A i \in 0 .. Len(commands) : Offset[i] \in Nat
    /\ \A i \in 1 .. Len(commands) :
          /\ commands[i] \in Seq(Byte) /\ Len(commands[i]) \in Nat
          /\ i - 1 \in 0 .. Len(commands) /\ i \in 0 .. Len(commands)
          /\ Offset[i] = Offset[i - 1] + Len(commands[i])

LEMMA OffsetIsOK == commands \in Seq(Seq(Byte)) => OffsetOK
BY OffsetValues DEF OffsetOK

LEMMA OffsetIsOKPrime == (commands \in Seq(Seq(Byte)))' => OffsetOK'
BY OffsetIsOK, PTL

LEMMA OffsetUnchanged == UNCHANGED commands => Offset' = Offset
BY DEF Offset

LEMMA ReadAtUnchanged == UNCHANGED commands => \A pos : ReadAt(pos)' = ReadAt(pos)
BY DEF Offset, ReadAt

LEMMA OffsetExtended ==
    ASSUME commands \in Seq(Seq(Byte)), NEW t \in Seq(Byte), commands' = Append(commands, t)
    PROVE  /\ commands' \in Seq(Seq(Byte)) /\ Len(commands') = Len(commands) + 1
           /\ \A i \in 1 .. Len(commands) : i \in 1 .. Len(commands') /\ commands'[i] = commands[i]
           /\ commands'[Len(commands) + 1] = t
           /\ \A i \in 0 .. Len(commands) : Offset'[i] = Offset[i]
<1>1. /\ commands' \in Seq(Seq(Byte)) /\ Len(commands') = Len(commands) + 1
      /\ \A i \in 1 .. Len(commands) : i \in 1 .. Len(commands') /\ commands'[i] = commands[i]
      /\ commands'[Len(commands) + 1] = t /\ Len(commands) \in Nat
  OBVIOUS
<1>2. OffsetOK /\ OffsetOK'
  BY <1>1, OffsetIsOK, OffsetIsOKPrime
<1> DEFINE S == {i \in 0 .. Len(commands) : Offset'[i] = Offset[i]}
<1>3. 0 \in S
  BY <1>1, <1>2 DEF OffsetOK
<1>4. ASSUME NEW i \in 0 .. Len(commands), i \in S, i + 1 <= Len(commands) PROVE i + 1 \in S
  <2>1. /\ i + 1 \in 1 .. Len(commands) /\ i + 1 \in 1 .. Len(commands')
        /\ i + 1 \in 0 .. Len(commands) /\ (i + 1) - 1 = i
    BY <1>1, <1>4
  <2>2. Offset[i + 1] = Offset[i] + Len(commands[i + 1])
    BY <1>2, <2>1 DEF OffsetOK
  <2>3. Offset'[i + 1] = Offset'[i] + Len(commands'[i + 1])
    BY <1>2, <2>1 DEF OffsetOK
  <2>4. commands'[i + 1] = commands[i + 1] /\ Offset'[i] = Offset[i]
    BY <1>1, <1>4, <2>1
  <2> QED BY <2>1, <2>2, <2>3, <2>4
<1> HIDE DEF S
<1>5. 0 .. Len(commands) \subseteq S
  BY <1>1, <1>3, <1>4, UpToInduction
<1> QED BY <1>1, <1>5 DEF S

-----------------------------------------------------------------------------
(* What is sent.                                                           *)

(* Every command fits into send_buffer, none is shorter than the one       *)
(* before it.                                                              *)
Growing ==
    \A i \in DOMAIN commands : /\ Len(commands[i]) < BufferSize
                               /\ i > 1 => Len(commands[i - 1]) <= Len(commands[i])

(* A text in send_buffer ends where a command ends, and is no longer than  *)
(* that command.                                                           *)
SentAsRead(c) ==
    /\ sent[c] = seen[c]
    /\ sendbuf[c] # <<>> =>
          \E i \in DOMAIN commands : fpos[c] = Offset[i] /\ Len(sendbuf[c]) <= Len(commands[i])

SentInv ==
    /\ \A i \in DOMAIN commands : commands[i] # <<>>
    /\ \A c \in Conn : sendbuf[c] # <<>> => cpc[c] = "echo"
    /\ Growing => \A c \in Conn : SentAsRead(c)

LEMMA SentInit == SockInit => SentInv
BY DEF SockInit, LogInit, None, SentInv, SentAsRead

(* Steps that neither write nor read: D are the connections that are       *)
(* given up.                                                               *)
LEMMA SentUnchanged ==
    ASSUME SentInv, UNCHANGED commands, NEW D \in SUBSET Conn,
           \A d \in Conn \ D : /\ sent'[d] = sent[d] /\ seen'[d] = seen[d]
                               /\ sendbuf'[d] = sendbuf[d]
                               /\ sendbuf[d] # <<>> => fpos'[d] = fpos[d]
                               /\ cpc[d] = "echo" => cpc'[d] = "echo",
           \A d \in D : sendbuf'[d] = <<>> /\ (sent[d] = seen[d] => sent'[d] = seen'[d])
    PROVE  SentInv'
<1>1. Offset' = Offset
  BY OffsetUnchanged
<1>2. \A c \in Conn : sendbuf'[c] # <<>> => cpc'[c] = "echo"
  BY DEF SentInv
<1>3. ASSUME Growing', NEW c \in Conn PROVE SentAsRead(c)'
  <2>1. SentAsRead(c)
    BY <1>3 DEF SentInv, Growing
  <2> QED BY <1>1, <2>1 DEF SentAsRead
<1> QED BY <1>2, <1>3 DEF SentInv

(* A packet is written: the commands in front of it stay where they are.   *)
LEMMA WriteKeepsSent ==
    ASSUME FewClients, DataInv, RoomInv, ControlInv, SentInv, NEW c \in Conn, WritePacket(c)
    PROVE  SentInv'
<1>1. /\ UNCHANGED echoVars /\ cpc[c] = "dispatch" /\ cpc' = [cpc EXCEPT ![c] = "echo"]
      /\ cpc \in [Conn -> Phase]
  BY DEF WritePacket, Active, ControlInv, ListInv
<1>2. CASE commands' = commands
  <2>1. \A d \in Conn : /\ sent'[d] = sent[d] /\ seen'[d] = seen[d]
                        /\ sendbuf'[d] = sendbuf[d] /\ fpos'[d] = fpos[d]
                        /\ cpc[d] = "echo" => cpc'[d] = "echo"
    BY <1>1 DEF echoVars
  <2> DEFINE D == {}
  <2>2. D \in SUBSET Conn /\ Conn \ D = Conn /\ \A d \in D : FALSE
    OBVIOUS
  <2> HIDE DEF D
  <2> QED BY <1>2, <2>1, <2>2, SentUnchanged
<1>3. CASE commands' # commands
  <2> DEFINE t == partial \o buffer[c]
  <2>1. commands' = Append(commands, t) /\ t \in Seq(Byte) /\ t # <<>>
    BY <1>3, WriteAppends
  <2> HIDE DEF t
  <2>2. commands \in Seq(Seq(Byte))
    BY DEF DataInv
  <2>3. /\ commands' \in Seq(Seq(Byte)) /\ Len(commands') = Len(commands) + 1
        /\ \A i \in 1 .. Len(commands) : i \in 1 .. Len(commands') /\ commands'[i] = commands[i]
        /\ commands'[Len(commands) + 1] = t
        /\ \A i \in 0 .. Len(commands) : Offset'[i] = Offset[i]
    BY <2>1, <2>2, OffsetExtended
  <2>4. /\ Len(commands) \in Nat
        /\ DOMAIN commands = 1 .. Len(commands) /\ DOMAIN commands' = 1 .. Len(commands) + 1
    BY <2>2, <2>3
  <2>5. \A i \in DOMAIN commands' : commands'[i] # <<>>
    BY <2>1, <2>3, <2>4 DEF SentInv
  <2>6. \A d \in Conn : sendbuf'[d] # <<>> => cpc'[d] = "echo"
    BY <1>1 DEF echoVars, SentInv
  <2>7. ASSUME Growing', NEW d \in Conn PROVE SentAsRead(d)'
    <3>1. Growing
      <4> SUFFICES ASSUME NEW i \in DOMAIN commands
                   PROVE  /\ Len(commands[i]) < BufferSize
                          /\ i > 1 => Len(commands[i - 1]) <= Len(commands[i])
        BY DEF Growing
      <4>1. /\ i \in DOMAIN commands' /\ commands'[i] = commands[i]
            /\ i > 1 => commands'[i - 1] = commands[i - 1]
        BY <2>3, <2>4
      <4> QED BY <2>7, <4>1 DEF Growing
    <3>2. SentAsRead(d)
      BY <3>1 DEF SentInv
    <3>3. sent'[d] = sent[d] /\ seen'[d] = seen[d] /\ sendbuf'[d] = sendbuf[d] /\ fpos'[d] = fpos[d]
      BY <1>1 DEF echoVars
    <3>4. ASSUME NEW i \in DOMAIN commands
          PROVE  i \in DOMAIN commands' /\ commands'[i] = commands[i] /\ Offset'[i] = Offset[i]
      BY <2>3, <2>4
    <3> QED BY <3>2, <3>3, <3>4 DEF SentAsRead
  <2> QED BY <2>5, <2>6, <2>7 DEF SentInv
<1> QED BY <1>2, <1>3

(* A text that ends at a position is no longer than what is read there.    *)
LEMMA NextIsLonger ==
    ASSUME commands \in Seq(Seq(Byte)), Growing, \A k \in DOMAIN commands : commands[k] # <<>>,
           NEW j \in DOMAIN commands, NEW i \in DOMAIN commands,
           Offset[i - 1] <= Offset[j], Offset[j] < Offset[i]
    PROVE  Len(commands[j]) <= Offset[i] - Offset[j]
<1>1. /\ DOMAIN commands = 1 .. Len(commands) /\ Len(commands) \in Nat
      /\ \A k \in 0 .. Len(commands) : Offset[k] \in Nat
      /\ \A k \in 1 .. Len(commands) :
            /\ commands[k] \in Seq(Byte) /\ Len(commands[k]) \in Nat
            /\ Offset[k] = Offset[k - 1] + Len(commands[k])
  BY OffsetValues
<1>2. i \in 1 .. Len(commands) /\ j \in 1 .. Len(commands)
  BY <1>1
<1>3. ~(i <= j)
  <2> SUFFICES ASSUME i <= j PROVE FALSE
    OBVIOUS
  <2>1. i \in 0 .. Len(commands) /\ j \in i .. Len(commands)
    BY <1>1, <1>2
  <2>2. Offset[i] <= Offset[j]
    BY <2>1, OffsetGrows
  <2>3. Offset[i] \in Nat /\ Offset[j] \in Nat
    BY <1>1, <2>1
  <2> QED BY <2>2, <2>3
<1>4. ~(j + 1 <= i - 1)
  <2> SUFFICES ASSUME j + 1 <= i - 1 PROVE FALSE
    OBVIOUS
  <2>1. /\ j + 1 \in 0 .. Len(commands) /\ i - 1 \in j + 1 .. Len(commands)
        /\ j + 1 \in 1 .. Len(commands) /\ (j + 1) - 1 = j
        /\ i - 1 \in 0 .. Len(commands) /\ j \in 0 .. Len(commands)
    <3> DEFINE n == Len(commands)
    <3>1. n \in Nat /\ i \in 1 .. n /\ j \in 1 .. n
      BY <1>1, <1>2
    <3> HIDE DEF n
    <3>2. /\ j + 1 \in 0 .. n /\ i - 1 \in j + 1 .. n
          /\ j + 1 \in 1 .. n /\ (j + 1) - 1 = j
          /\ i - 1 \in 0 .. n /\ j \in 0 .. n
      BY <3>1
    <3> QED BY <3>2 DEF n
  <2>2. Offset[j + 1] <= Offset[i - 1]
    BY <2>1, OffsetGrows
  <2>3. Offset[j + 1] = Offset[j] + Len(commands[j + 1])
    BY <1>1, <2>1
  <2>4. Len(commands[j + 1]) \in Nat \ {0}
    BY <1>1, <2>1
  <2>5. Offset[j] \in Nat /\ Offset[j + 1] \in Nat /\ Offset[i - 1] \in Nat
    BY <1>1, <2>1
  <2> QED BY <2>2, <2>3, <2>4, <2>5
<1>5. i = j + 1 /\ i > 1 /\ i - 1 = j
  BY <1>1, <1>2, <1>3, <1>4
<1>6. Len(commands[j]) <= Len(commands[i])
  BY <1>5 DEF Growing
<1>7. Offset[i] = Offset[j] + Len(commands[i]) /\ Offset[j] \in Nat /\ Len(commands[i]) \in Nat
  <2>1. j \in 0 .. Len(commands)
    BY <1>1, <1>2
  <2> QED BY <1>1, <1>2, <1>5, <2>1
<1> QED BY <1>6, <1>7

(* A read and a send.                                                      *)
LEMMA EchoKeepsSent ==
    ASSUME DataInv, ControlInv, SentInv, NEW c \in Conn, Echo(c)
    PROVE  SentInv'
<1> DEFINE chunk == ReadAt(fpos[c])
           old   == sendbuf[c]
           pos   == fpos[c]
           text  == EchoText(chunk, old)
<1>1. /\ cpc[c] = "echo" /\ cpc' = cpc /\ UNCHANGED commands /\ chunk # <<>>
      /\ fpos' = [fpos EXCEPT ![c] = @ + Len(chunk)]
      /\ seen' = [seen EXCEPT ![c] = @ \o chunk]
      /\ sendbuf' = [sendbuf EXCEPT ![c] = text]
      /\ sent' = [sent EXCEPT ![c] = @ \o text \o Behind(text)]
  BY DEF Echo, EchoText, Active, logVars
<1>2. /\ commands \in Seq(Seq(Byte)) /\ old \in Seq(Byte) /\ pos \in Nat
      /\ chunk \in Seq(Byte) /\ fpos \in [Conn -> Nat]
      /\ seen \in [Conn -> Seq(Byte)] /\ sent \in [Conn -> Seq(Byte)] /\ sendbuf \in [Conn -> Seq(Byte)]
  BY ReadAtValue DEF DataInv
<1>3. PICK i \in 1 .. Len(commands) :
         /\ Offset[i - 1] <= pos /\ pos < Offset[i]
         /\ Len(chunk) = IF Offset[i] - pos < BufferSize THEN Offset[i] - pos ELSE BufferSize
  BY <1>1, <1>2, ReadAtValue
<1> HIDE DEF chunk, old, pos, text
<1>4. /\ Len(commands) \in Nat /\ DOMAIN commands = 1 .. Len(commands)
      /\ Offset[i - 1] \in Nat /\ Offset[i] \in Nat /\ Len(commands[i]) \in Nat
      /\ Offset[i] = Offset[i - 1] + Len(commands[i])
  BY <1>2, OffsetValues
<1>5. Offset' = Offset
  BY <1>1, OffsetUnchanged
<1>6. ASSUME Growing
      PROVE  SentAsRead(c)'
  <2>1. SentAsRead(c) /\ Len(commands[i]) < BufferSize
    BY <1>4, <1>6 DEF SentInv, Growing
  <2>2. Len(chunk) = Offset[i] - pos /\ Len(chunk) <= Len(commands[i])
    <3> DEFINE a == Offset[i - 1]
               b == Offset[i]
               n == Len(commands[i])
               m == Len(chunk)
    <3>1. /\ a \in Nat /\ b \in Nat /\ n \in Nat /\ m \in Nat /\ pos \in Nat
          /\ b = a + n /\ a <= pos /\ pos < b /\ n < BufferSize
          /\ m = IF b - pos < BufferSize THEN b - pos ELSE BufferSize
      BY <1>2, <1>3, <1>4, <2>1
    <3>2. BufferSize \in Nat
      BY BufferAssumption
    <3> HIDE DEF a, b, n, m
    <3>3. m = b - pos /\ m <= n
      BY <3>1, <3>2
    <3> QED BY <3>3 DEF b, n, m
  <2>3. Len(old) <= Len(chunk)
    <3>1. CASE old = <<>>
      <4>1. Len(old) = 0 /\ Len(chunk) \in Nat
        BY <1>2, <3>1
      <4> QED BY <4>1
    <3>2. CASE old # <<>>
      <4>1. PICK j \in DOMAIN commands : pos = Offset[j] /\ Len(old) <= Len(commands[j])
        BY <2>1, <3>2 DEF SentAsRead, pos, old
      <4>2. Len(commands[j]) <= Offset[i] - Offset[j]
        BY <1>2, <1>3, <1>4, <1>6, <4>1, NextIsLonger DEF SentInv
      <4>3. Len(old) \in Nat /\ Len(commands[j]) \in Nat /\ Len(chunk) \in Nat
        BY <1>2, <1>4, OffsetValues
      <4> QED BY <2>2, <4>1, <4>2, <4>3
    <3> QED BY <3>1, <3>2
  <2>4. text = chunk
    BY <1>2, <2>3, EchoTextType DEF text
  <2>5. Behind(text) = <<>>
    <3> DEFINE n == Len(commands[i])
               m == Len(chunk)
    <3>1. n \in Nat /\ m \in Nat /\ m <= n /\ n < BufferSize
      BY <1>2, <1>4, <2>1, <2>2
    <3>2. BufferSize \in Nat
      BY BufferAssumption
    <3> HIDE DEF n, m
    <3>3. m < BufferSize
      BY <3>1, <3>2
    <3> QED BY <2>4, <3>3 DEF Behind, m
  <2>6. sent'[c] = seen'[c] /\ sendbuf'[c] = chunk /\ fpos'[c] = pos + Len(chunk)
    <3>1. sent'[c] = sent[c] \o chunk \o <<>> /\ seen'[c] = seen[c] \o chunk /\ sent[c] = seen[c]
      BY <1>1, <1>2, <2>1, <2>4, <2>5 DEF SentAsRead
    <3>2. sent[c] \o chunk \in Seq(Byte)
      BY <1>2
    <3>3. (sent[c] \o chunk) \o <<>> = sent[c] \o chunk
      BY <3>2, ConcatEmptySeq
    <3>4. sendbuf'[c] = chunk /\ fpos'[c] = pos + Len(chunk)
      BY <1>1, <1>2, <2>4 DEF pos
    <3> QED BY <3>1, <3>3, <3>4
  <2>7. fpos'[c] = Offset[i]
    BY <1>2, <1>3, <1>4, <2>2, <2>6
  <2>8. i \in DOMAIN commands' /\ commands'[i] = commands[i] /\ Offset'[i] = Offset[i]
    BY <1>1, <1>4, <1>5
  <2> QED BY <2>2, <2>6, <2>7, <2>8 DEF SentAsRead
<1>7. ASSUME Growing', NEW d \in Conn
      PROVE  SentAsRead(d)'
  <2>1. Growing
    BY <1>1, <1>7 DEF Growing
  <2>2. CASE d = c
    BY <1>6, <2>1, <2>2
  <2>3. CASE d # c
    <3>1. sent'[d] = sent[d] /\ seen'[d] = seen[d] /\ sendbuf'[d] = sendbuf[d] /\ fpos'[d] = fpos[d]
      BY <1>1, <1>2, <2>3
    <3>2. SentAsRead(d)
      BY <2>1 DEF SentInv
    <3> QED BY <1>1, <1>5, <3>1, <3>2 DEF SentAsRead
  <2> QED BY <2>2, <2>3
<1>8. \A d \in Conn : sendbuf'[d] # <<>> => cpc'[d] = "echo"
  BY <1>1, <1>2 DEF SentInv
<1> QED BY <1>1, <1>7, <1>8 DEF SentInv

LEMMA StepKeepsSent ==
    ASSUME FewClients, DataInv, RoomInv, ControlInv, SentInv, [SockNext]_sockVars
    PROVE  SentInv'
<1>1. cpc \in [Conn -> Phase]
  BY DEF ControlInv, ListInv
<1>2. CASE Quiet
  <2> DEFINE D == {}
  <2>1. \A d \in Conn : cpc[d] = "echo" => cpc'[d] = "echo"
    BY <1>1, <1>2 DEF Quiet, Moves
  <2>2. /\ UNCHANGED commands
        /\ \A d \in Conn : /\ sent'[d] = sent[d] /\ seen'[d] = seen[d]
                           /\ sendbuf'[d] = sendbuf[d] /\ fpos'[d] = fpos[d]
    BY <1>2 DEF Quiet, logVars, echoVars
  <2>3. D \in SUBSET Conn /\ Conn \ D = Conn /\ \A d \in D : FALSE
    OBVIOUS
  <2> HIDE DEF D
  <2> QED BY <2>1, <2>2, <2>3, SentUnchanged
<1>3. CASE \E how : Exit(how)
  <2> DEFINE D == Conn
  <2>1. UNCHANGED commands /\ \A d \in Conn : sendbuf'[d] = <<>> /\ sent'[d] = seen'[d]
    BY <1>3 DEF Exit, None, logVars
  <2>2. D \in SUBSET Conn /\ Conn \ D = {} /\ \A d \in D : d \in Conn
    OBVIOUS
  <2> HIDE DEF D
  <2> QED BY <2>1, <2>2, SentUnchanged
<1>4. ASSUME NEW c \in Conn, \/ Connect(c) \/ Recv(c) \/ SeekDone(c) \/ EchoEnd(c) \/ ThreadReturn(c)
      PROVE  SentInv'
  <2>1. /\ UNCHANGED commands
        /\ \A d \in Conn \ {c} : /\ sent'[d] = sent[d] /\ seen'[d] = seen[d]
                                 /\ sendbuf'[d] = sendbuf[d] /\ fpos'[d] = fpos[d]
                                 /\ cpc[d] = "echo" => cpc'[d] = "echo"
    <3>1. CASE Connect(c) \/ Recv(c)
      BY <1>1, <3>1 DEF Connect, Recv, logVars, echoVars
    <3>2. CASE SeekDone(c) \/ EchoEnd(c) \/ ThreadReturn(c)
      BY <1>1, <3>2 DEF SeekDone, EchoEnd, ThreadReturn, logVars, DataInv
    <3> QED BY <1>4, <3>1, <3>2
  <2>2. sendbuf'[c] = <<>> /\ (sent[c] = seen[c] => sent'[c] = seen'[c])
    <3>1. CASE Connect(c) \/ Recv(c) \/ SeekDone(c)
      <4>1. sendbuf[c] = <<>>
        BY <3>1 DEF Connect, Recv, SeekDone, Active, SentInv
      <4> QED BY <3>1, <4>1 DEF Connect, Recv, SeekDone, echoVars
    <3>2. CASE EchoEnd(c)
      BY <3>2 DEF EchoEnd, DataInv
    <3>3. CASE ThreadReturn(c)
      <4>1. sendbuf[c] = <<>>
        BY <3>3 DEF ThreadReturn, Active, SentInv
      <4> QED BY <3>3, <4>1 DEF ThreadReturn, DataInv
    <3> QED BY <1>4, <3>1, <3>2, <3>3
  <2> DEFINE D == {c}
  <2>3. D \in SUBSET Conn /\ Conn \ D = Conn \ {c} /\ \A d \in D : d = c
    OBVIOUS
  <2> HIDE DEF D
  <2> QED BY <2>1, <2>2, <2>3, SentUnchanged
<1> QED BY <1>2, <1>3, <1>4, StepKinds, WriteKeepsSent, EchoKeepsSent

LEMMA RoomInit == SockInit => RoomInv
<1> SUFFICES ASSUME SockInit PROVE RoomInv
  OBVIOUS
<1>1. Done = {}
  BY DEF SockInit, Done, Past
<1> QED BY <1>1, FS_EmptySet DEF SockInit, LogInit, RoomInv

(* SentWhileGrowing for any number of clients, as long as the device has   *)
(* room for the packets of all of them: what is sent is what was read.     *)
THEOREM SocketSends == FewClients /\ SockSpec => []SentWhileGrowing
<1> SUFFICES ASSUME FewClients PROVE SockSpec => []SentWhileGrowing
  OBVIOUS
<1>1. SentInv => SentWhileGrowing
  BY DEF SentInv, Growing, SentAsRead, SentWhileGrowing
<1>2. SockInit => DataInv /\ ControlInv /\ RoomInv /\ SentInv
  BY DataInit, ControlInit, RoomInit, SentInit
<1>3. (DataInv /\ ControlInv /\ RoomInv /\ SentInv) /\ [SockNext]_sockVars
        => (DataInv /\ ControlInv /\ RoomInv /\ SentInv)'
  BY StepKeepsData, StepKeepsControl, StepKeepsRoom, StepKeepsSent
<1> QED BY <1>1, <1>2, <1>3, PTL DEF SockSpec

-----------------------------------------------------------------------------
(* Packets that end in their newline.                                      *)

Seeks == {SeekText, BadSeekText}

(* Every client ends what it sends with its only newline, in segments that *)
(* leave a zero in buff ...                                                *)
EachWhole ==
    \A c \in Conn : \A s \in Segments[c] :
        /\ s # <<>>
        /\ \A i \in DOMAIN s :
              /\ Len(s[i]) < BufferSize
              /\ \A k \in DOMAIN s[i] : s[i][k] = NL <=> i = Len(s) /\ k = Len(s[i])

(* ... and a packet is told from those of other clients by its first byte. *)
EachItsOwn ==
    \A c, d \in Conn : c # d =>
        \A s \in Segments[c], t \in Segments[d] : s[1][1] = t[1][1] => s[1][1] \in Seeks

(* The beginnings of what a client sends: nothing, the first segment, and  *)
(* so on, to all of it.                                                    *)
IsJoined(f, s) ==
    /\ f \in [0 .. Len(s) -> Seq(Byte)]
    /\ f[0] = <<>>
    /\ \A i \in 1 .. Len(s) : f[i] = f[i - 1] \o s[i]
    /\ f[Len(s)] = FlattenSeq(s)

Joined(s) == CHOOSE f : IsJoined(f, s)

FirstByte(c) == request[c][1][1]
Begins(text, c) == text # <<>> /\ text[1] = FirstByte(c)

(* The segments of a whole packet.                                         *)
LEMMA SegmentShape ==
    ASSUME EachWhole, NEW c \in Conn, NEW s \in Segments[c]
    PROVE  /\ s \in Seq(Seq(Byte)) /\ Len(s) \in Nat \ {0} /\ DOMAIN s = 1 .. Len(s)
           /\ \A i \in 1 .. Len(s) :
                 /\ s[i] \in Seq(Byte) /\ Len(s[i]) \in Nat \ {0} /\ Len(s[i]) < BufferSize
                 /\ \A k \in 1 .. Len(s[i]) : s[i][k] = NL <=> i = Len(s) /\ k = Len(s[i])
                 /\ HasNewline(s[i]) <=> i = Len(s)
<1>1. s \in Seq(Seq(Byte)) /\ s # <<>> /\ \A i \in DOMAIN s : Len(s[i]) \in 1 .. BufferSize
  BY SegmentAssumption DEF EachWhole
<1>2. Len(s) \in Nat \ {0} /\ DOMAIN s = 1 .. Len(s)
  BY <1>1
<1>3. ASSUME NEW i \in 1 .. Len(s)
      PROVE  /\ s[i] \in Seq(Byte) /\ Len(s[i]) \in Nat \ {0} /\ Len(s[i]) < BufferSize
             /\ \A k \in 1 .. Len(s[i]) : s[i][k] = NL <=> i = Len(s) /\ k = Len(s[i])
             /\ HasNewline(s[i]) <=> i = Len(s)
  <2>1. /\ s[i] \in Seq(Byte) /\ Len(s[i]) \in 1 .. BufferSize /\ Len(s[i]) < BufferSize
        /\ \A k \in DOMAIN s[i] : s[i][k] = NL <=> i = Len(s) /\ k = Len(s[i])
    <3>1. i \in DOMAIN s
      BY <1>2
    <3>2. s[i] \in Seq(Byte) /\ Len(s[i]) \in 1 .. BufferSize
      BY <1>1, <3>1
    <3>3. Len(s[i]) < BufferSize
      BY <3>1 DEF EachWhole
    <3>4. ASSUME NEW k \in DOMAIN s[i] PROVE s[i][k] = NL <=> i = Len(s) /\ k = Len(s[i])
      BY <3>1 DEF EachWhole
    <3> QED BY <3>2, <3>3, <3>4
  <2>2. /\ Len(s[i]) \in Nat \ {0} /\ DOMAIN s[i] = 1 .. Len(s[i])
        /\ Len(s[i]) \in DOMAIN s[i]
    BY <2>1, BufferAssumption
  <2>3. HasNewline(s[i]) <=> i = Len(s)
    BY <2>1, <2>2 DEF HasNewline
  <2> QED BY <2>1, <2>2, <2>3
<1> QED BY <1>1, <1>2, <1>3

(* The beginnings exist, and all but the first begin with the first byte.  *)
LEMMA JoinedValue ==
    ASSUME NEW s \in Seq(Seq(Byte)), Len(s) # 0
    PROVE  IsJoined(Joined(s), s)
<1>1. PICK f \in [1 .. Len(s) -> Seq(Byte)] :
         /\ f[1] = s[1]
         /\ \A i \in 2 .. Len(s) : f[i] = f[i - 1] \o s[i]
         /\ FlattenSeq(s) = f[Len(s)]
  <2> DEFINE T == Byte
  <2>1. s \in Seq(Seq(T))
    OBVIOUS
  <2> HIDE DEF T
  <2>2. \E f \in [1 .. Len(s) -> Seq(T)] :
              /\ f[1] = s[1]
              /\ \A i \in 2 .. Len(s) : f[i] = f[i - 1] \o s[i]
              /\ FlattenSeq(s) = f[Len(s)]
    BY <2>1, FlattenValue
  <2> QED BY <2>2 DEF T
<1> DEFINE n == Len(s)
           g == [i \in 0 .. n |-> IF i = 0 THEN <<>> ELSE f[i]]
<1>2. n \in Nat \ {0} /\ \A i \in 1 .. n : s[i] \in Seq(Byte)
  OBVIOUS
<1> HIDE DEF n
<1>3. g \in [0 .. n -> Seq(Byte)] /\ g[0] = <<>> /\ g[n] = f[n]
  <2>1. ASSUME NEW i \in 0 .. n, i # 0 PROVE f[i] \in Seq(Byte)
    <3>1. i \in 1 .. Len(s)
      BY <1>2, <2>1 DEF n
    <3> QED BY <3>1
  <2> QED BY <1>2, <2>1
<1>4. ASSUME NEW i \in 1 .. n PROVE g[i] = g[i - 1] \o s[i]
  <2>1. CASE i = 1
    <3>1. g[1] = s[1] /\ g[0] = <<>> /\ s[1] \in Seq(Byte) /\ i - 1 = 0
      BY <1>1, <1>2, <2>1
    <3>2. <<>> \o s[1] = s[1]
      BY <3>1, ConcatEmptySeq
    <3> HIDE DEF g
    <3> QED BY <2>1, <3>1, <3>2
  <2>2. CASE i # 1
    <3>1. i \in 2 .. n /\ i \in 0 .. n /\ i - 1 \in 0 .. n /\ i # 0 /\ i - 1 # 0
      BY <1>2, <2>2
    <3>2. f[i] = f[i - 1] \o s[i]
      BY <1>1, <3>1 DEF n
    <3> QED BY <3>1, <3>2
  <2> QED BY <2>1, <2>2
<1> HIDE DEF g
<1>5. IsJoined(g, s)
  BY <1>1, <1>3, <1>4 DEF IsJoined, n
<1> QED BY <1>5, Zenon DEF Joined

LEMMA JoinedBegins ==
    ASSUME EachWhole, NEW c \in Conn, NEW s \in Segments[c]
    PROVE  /\ IsJoined(Joined(s), s)
           /\ FlattenSeq(s) # <<>> /\ FlattenSeq(s)[1] = s[1][1]
<1> DEFINE n == Len(s)
           f == Joined(s)
           S == {i \in 1 .. n : f[i] # <<>> /\ f[i][1] = s[1][1]}
<1>1. /\ n \in Nat \ {0} /\ s \in Seq(Seq(Byte))
      /\ \A i \in 1 .. n : s[i] \in Seq(Byte) /\ Len(s[i]) \in Nat \ {0}
  BY SegmentShape
<1>2. IsJoined(f, s)
  BY <1>1, JoinedValue
<1> HIDE DEF n, f
<1>3. /\ f \in [0 .. n -> Seq(Byte)] /\ f[0] = <<>> /\ f[n] = FlattenSeq(s)
      /\ \A i \in 1 .. n : f[i] = f[i - 1] \o s[i]
  BY <1>2 DEF IsJoined, n
<1>4. 1 \in S
  <2>0. 1 \in 1 .. n /\ 1 - 1 = 0
    BY <1>1
  <2>1. f[1] = f[0] \o s[1] /\ s[1] \in Seq(Byte) /\ Len(s[1]) \in Nat \ {0}
    BY <1>1, <1>3, <2>0
  <2>2. <<>> \o s[1] = s[1]
    BY <2>1, ConcatEmptySeq
  <2>3. s[1] # <<>>
    BY <2>1
  <2> QED BY <1>1, <1>3, <2>1, <2>2, <2>3
<1>5. ASSUME NEW i \in 1 .. n, i \in S, i + 1 <= n PROVE i + 1 \in S
  <2>1. i + 1 \in 1 .. n /\ (i + 1) - 1 = i /\ i \in 0 .. n
    BY <1>1, <1>5
  <2>2. /\ f[i + 1] = f[i] \o s[i + 1] /\ f[i] \in Seq(Byte) /\ s[i + 1] \in Seq(Byte)
        /\ f[i] # <<>> /\ f[i][1] = s[1][1]
    BY <1>1, <1>3, <1>5, <2>1
  <2> DEFINE u == f[i]
             v == s[i + 1]
  <2>3. u \in Seq(Byte) /\ v \in Seq(Byte) /\ u # <<>>
    BY <2>2
  <2> HIDE DEF u, v
  <2>4. u \o v # <<>> /\ (u \o v)[1] = u[1]
    BY <2>3
  <2> QED BY <2>1, <2>2, <2>4 DEF u, v
<1> HIDE DEF S
<1>6. 1 .. n \subseteq S
  BY <1>1, <1>4, <1>5, UpToInduction
<1>7. n \in S
  BY <1>1, <1>6
<1> QED BY <1>2, <1>3, <1>7 DEF S, f

(* What strncat() may append, once more.                                   *)
LEMMA AppendedElement ==
    ASSUME NEW seg, NEW e
    PROVE  e \in Appended(seg) <=>
               \E text \in Copied(seg) : \E k \in TextEnds(text) : e = SubSeq(text, 1, k)
BY DEF Appended

(* A segment that leaves a zero in buff and has no byte behind its newline *)
(* is appended as it is.                                                   *)
LEMMA AppendedWhole ==
    ASSUME NEW seg \in Seq(Byte), Len(seg) < BufferSize,
           \A k \in 1 .. Len(seg) : seg[k] = NL => k = Len(seg),
           \A k \in 1 .. Len(seg) : seg[k] # NUL
    PROVE  Appended(seg) = {seg}
<1> DEFINE n == NewlineIndex(seg) + 1
<1>1. Len(seg) \in Nat /\ BufferSize \in Nat
  BY BufferAssumption
<1>2. ~(n <= Len(seg))
  <2>1. CASE HasNewline(seg)
    <3>1. NewlineIndex(seg) = Len(seg)
      BY <2>1, NewlineIndexValue
    <3> QED BY <1>1, <3>1
  <2>2. CASE ~HasNewline(seg)
    <3>1. NewlineIndex(seg) = BufferSize
      BY <2>2, NewlineIndexValue
    <3> QED BY <1>1, <3>1
  <2> QED BY <2>1, <2>2
<1>3. Copied(seg) = {seg}
  BY <1>2 DEF Copied
<1>4. TextEnds(seg) = {Len(seg)}
  <2>1. ASSUME NEW k \in TextEnds(seg) PROVE k = Len(seg)
    <3>1. k \in 0 .. Len(seg) /\ (k < Len(seg) => seg[k + 1] = NUL)
      BY DEF TextEnds
    <3> QED BY <3>1, <1>1
  <2>2. Len(seg) \in TextEnds(seg)
    BY <1>1 DEF TextEnds
  <2> QED BY <2>1, <2>2
<1>5. SubSeq(seg, 1, Len(seg)) = seg
  BY <1>1
<1>6. ASSUME NEW e PROVE e \in Appended(seg) <=> e = SubSeq(seg, 1, Len(seg))
  <2>1. e \in Appended(seg) <=>
            \E text \in Copied(seg) : \E k \in TextEnds(text) : e = SubSeq(text, 1, k)
    BY AppendedElement
  <2>2. ASSUME NEW text \in Copied(seg), NEW k \in TextEnds(text)
        PROVE  SubSeq(text, 1, k) = SubSeq(seg, 1, Len(seg))
    <3>1. text = seg
      BY <1>3
    <3>2. k = Len(seg)
      BY <1>4, <3>1
    <3> QED BY <3>1, <3>2
  <2>3. seg \in Copied(seg) /\ Len(seg) \in TextEnds(seg)
    BY <1>3, <1>4
  <2> QED BY <2>1, <2>2, <2>3
<1> QED BY <1>5, <1>6

(* What the reallocation leaves begins as the text did; when the text has  *)
(* lost bytes, the buffer overruns.                                        *)
LEMMA ReallocedWhole ==
    ASSUME NEW text \in Seq(Byte), NEW n \in Nat \ {0}, NEW old \in Realloced(text, n),
           NEW seg \in Seq(Byte)
    PROVE  /\ old \in Seq(Byte)
           /\ text = <<>> => old = <<>>
           /\ text # <<>> => old # <<>> /\ old[1] = text[1]
           /\ Len(old \o seg) < Usable(n) => old = text
<1> DEFINE u == Usable(n)
<1>1. u \in Nat \ {0} /\ Len(text) \in Nat
  BY UsableType
<1>2. old = text \/ (~(Len(text) < u) /\ old = SubSeq(text, 1, u))
  BY DEF Realloced
<1> HIDE DEF u
<1>3. CASE old = text
  BY <1>3
<1>4. CASE ~(Len(text) < u) /\ old = SubSeq(text, 1, u)
  <2>1. u <= Len(text)
    BY <1>1, <1>4
  <2>2. /\ old \in Seq(Byte) /\ Len(old) = u /\ old # <<>> /\ old[1] = text[1]
    BY <1>1, <1>4, <2>1
  <2>3. text # <<>>
    BY <1>1, <2>1
  <2>4. ~(Len(old \o seg) < u)
    <3>1. Len(old \o seg) = Len(old) + Len(seg) /\ Len(seg) \in Nat
      BY <2>2
    <3> QED BY <1>1, <2>2, <3>1
  <2> QED BY <2>2, <2>3, <2>4 DEF u
<1> QED BY <1>2, <1>3, <1>4

(* While the packet of c arrives, the buffer holds the segments that       *)
(* recv() has returned, or, once it has overrun, some text that begins as  *)
(* they do.                                                                *)
ReceivedSome(c) ==
    LET s == request[c]
        k == Len(s) - Len(incoming[c])
    IN  /\ Len(incoming[c]) \in 1 .. Len(s)
        /\ \A i \in 1 .. Len(incoming[c]) : incoming[c][i] = s[k + i]
        /\ c \notin overrun => buffer[c] = Joined(s)[k]
        /\ IF k = 0 THEN buffer[c] = <<>> ELSE Begins(buffer[c], c)

ReceivedAll(c) ==
    /\ Begins(buffer[c], c) /\ HasNewline(buffer[c])
    /\ c \notin overrun => buffer[c] = Packet(c)

ClientInv(c) ==
    /\ cpc[c] # "unused" => request[c] \in Segments[c]
    /\ cpc[c] = "unused" => buffer[c] = <<>>
    /\ cpc[c] \in {"backlog", "recv"} => ReceivedSome(c)
    /\ cpc[c] = "dispatch" => ReceivedAll(c)
    /\ cpc[c] \in {"token", "ioctl"} => FirstByte(c) \in Seeks
    /\ cpc[c] \in Written /\ c \notin overrun /\ FirstByte(c) \notin Seeks =>
          \E i \in 1 .. Len(commands) : commands[i] = Packet(c)

(* Every command is the work of a thread that has been through its         *)
(* write(), and no two are of the same thread.                             *)
StoreInv ==
    /\ partial = <<>>
    /\ \A i \in 1 .. Len(commands) :
          \E d \in Done : Begins(commands[i], d) /\ FirstByte(d) \notin Seeks
    /\ \A i, j \in 1 .. Len(commands) : commands[i][1] = commands[j][1] => i = j

PacketInv == StoreInv /\ \A c \in Conn : ClientInv(c)

LEMMA PacketInit == SockInit => PacketInv
<1> SUFFICES ASSUME SockInit PROVE PacketInv
  OBVIOUS
<1>1. partial = <<>> /\ commands = <<>> /\ 1 .. Len(commands) = {}
  BY DEF SockInit, LogInit
<1>2. \A c \in Conn : cpc[c] = "unused" /\ buffer[c] = <<>>
  BY DEF SockInit, None
<1>3. StoreInv
  BY <1>1 DEF StoreInv
<1>4. ASSUME NEW c \in Conn PROVE ClientInv(c)
  BY <1>2 DEF ClientInv, Written
<1> QED BY <1>3, <1>4 DEF PacketInv

LEMMA StoreUnchanged ==
    ASSUME StoreInv, UNCHANGED logVars, Done \subseteq Done',
           \A d \in Done : request'[d] = request[d]
    PROVE  StoreInv'
BY DEF StoreInv, logVars, Begins, FirstByte

(* A connection a step does not touch.                                     *)
LEMMA ClientUntouched ==
    ASSUME NEW d \in Conn, ClientInv(d), cpc'[d] = cpc[d], request'[d] = request[d],
           incoming'[d] = incoming[d], buffer'[d] = buffer[d], d \in overrun' <=> d \in overrun,
           \A i \in 1 .. Len(commands) : i \in 1 .. Len(commands') /\ commands'[i] = commands[i]
    PROVE  ClientInv(d)'
<1>1. (Packet(d))' = Packet(d) /\ (FirstByte(d))' = FirstByte(d)
  BY DEF Packet, FirstByte
<1>2. ReceivedSome(d) => (ReceivedSome(d))'
  BY <1>1 DEF ReceivedSome, Begins
<1>3. ReceivedAll(d) => (ReceivedAll(d))'
  BY <1>1 DEF ReceivedAll, Begins, HasNewline
<1> HIDE DEF ReceivedSome, ReceivedAll
<1>4. (\E i \in 1 .. Len(commands) : commands[i] = Packet(d))
         => \E i \in 1 .. Len(commands') : commands'[i] = (Packet(d))'
  BY <1>1
<1> QED BY <1>1, <1>2, <1>3, <1>4 DEF ClientInv

(* A thread that has been through its write() stays behind it.             *)
LEMMA ClientPast ==
    ASSUME NEW c \in Conn, ClientInv(c), cpc[c] \in Written, cpc'[c] \in Written,
           request'[c] = request[c], c \in overrun' <=> c \in overrun, UNCHANGED commands
    PROVE  ClientInv(c)'
<1>1. (Packet(c))' = Packet(c) /\ (FirstByte(c))' = FirstByte(c)
  BY DEF Packet, FirstByte
<1> QED BY <1>1 DEF ClientInv, Written

(* The next segment, which has no zero.                                    *)
LEMMA RecvKeepsClient ==
    ASSUME EachWhole, DataInv, ControlInv, NoZeroYet, NEW c \in Conn, Recv(c), ClientInv(c)
    PROVE  ClientInv(c)'
<1> DEFINE s == request[c]
           m == Len(incoming[c])
           n == Len(s)
           seg == Head(incoming[c])
           u == NewlineIndex(seg) + 1
<1>1. /\ cpc[c] = "recv" /\ cpc \in [Conn -> Phase] /\ incoming[c] # <<>> /\ Receive(c)
      /\ cpc' = [cpc EXCEPT ![c] = IF HasNewline(seg) THEN "dispatch" ELSE @]
      /\ UNCHANGED request
  BY DEF Recv, Active, ControlInv, ListInv, Receive
<1>2. s \in Segments[c] /\ ReceivedSome(c)
  BY <1>1 DEF ClientInv
<1>3. /\ m \in 1 .. n /\ n \in Nat \ {0} /\ incoming[c] \in Seq(Seq(Byte)) /\ buffer[c] \in Seq(Byte)
      /\ s \in Seq(Seq(Byte)) /\ \A i \in 1 .. m : incoming[c][i] = s[n - m + i]
      /\ c \notin overrun => buffer[c] = Joined(s)[n - m]
      /\ IF n - m = 0 THEN buffer[c] = <<>> ELSE Begins(buffer[c], c)
  BY <1>2, SegmentShape DEF ReceivedSome, DataInv
<1>4. incoming' = [incoming EXCEPT ![c] = Tail(@)] /\ incoming \in [Conn -> Seq(Seq(Byte))]
  BY <1>1 DEF Receive, DataInv
<1> HIDE DEF m, n
<1>5. /\ n - m + 1 \in 1 .. n /\ n - m \in 0 .. n /\ (n - m + 1) - 1 = n - m /\ 1 \in 1 .. m
      /\ n - m + 1 = n <=> m = 1
  BY <1>3
<1>6. /\ seg = s[n - m + 1] /\ seg \in Seq(Byte) /\ seg # <<>> /\ Len(seg) < BufferSize
      /\ \A k \in 1 .. Len(seg) : seg[k] = NL => k = Len(seg)
      /\ HasNewline(seg) <=> m = 1
      /\ n - m = 0 => seg[1] = FirstByte(c)
  <2>1. seg = incoming[c][1]
    BY <1>3
  <2>2. seg = s[n - m + 1]
    BY <1>3, <1>5, <2>1
  <2>3. /\ seg \in Seq(Byte) /\ Len(seg) \in Nat \ {0} /\ Len(seg) < BufferSize
        /\ \A k \in 1 .. Len(seg) : seg[k] = NL => k = Len(seg)
        /\ HasNewline(seg) <=> n - m + 1 = n
    BY <1>2, <1>5, <2>2, SegmentShape DEF n
  <2>4. n - m = 0 => seg[1] = FirstByte(c)
    BY <2>2 DEF FirstByte
  <2> QED BY <1>5, <2>2, <2>3, <2>4
<1>7. IsJoined(Joined(s), s)
  BY <1>2, JoinedBegins
<1>17. \A k \in 1 .. Len(seg) : seg[k] # NUL
  <2>1. seg = s[n - m + 1] /\ n - m + 1 \in DOMAIN s /\ DOMAIN seg = 1 .. Len(seg)
    BY <1>3, <1>5, <1>6 DEF n
  <2> QED BY <1>1, <2>1 DEF NoZeroYet
<1> HIDE DEF s, seg
<1>8. u \in Nat \ {0}
  BY <1>6, NewlineIndexValue
<1>9. PICK old \in Realloced(buffer[c], u) :
         /\ buffer' = [buffer EXCEPT ![c] = old \o seg]
         /\ overrun' = overrun \cup IF Len(old \o seg) < Usable(u) THEN {} ELSE {c}
  <2>1. Appended(seg) = {seg}
    BY <1>6, <1>17, AppendedWhole
  <2> QED BY <1>1, <2>1 DEF Receive, seg
<1> HIDE DEF u
<1>10. /\ old \in Seq(Byte)
       /\ buffer[c] = <<>> => old = <<>>
       /\ buffer[c] # <<>> => old # <<>> /\ old[1] = buffer[c][1]
       /\ Len(old \o seg) < Usable(u) => old = buffer[c]
  BY <1>3, <1>6, <1>8, ReallocedWhole
<1>11. buffer'[c] = old \o seg /\ (c \notin overrun' => c \notin overrun /\ old = buffer[c])
  BY <1>9, <1>10 DEF DataInv
<1>12. (FirstByte(c))' = FirstByte(c) /\ (Packet(c))' = Packet(c) /\ request'[c] = s
  BY <1>1 DEF FirstByte, Packet, s
<1>13. Begins(buffer[c], c)' 
  <2>1. CASE n - m = 0
    <3>1. old = <<>>
      BY <1>3, <1>10, <2>1
    <3>2. old \o seg = seg
      BY <1>6, <3>1, ConcatEmptySeq
    <3> QED BY <1>6, <1>11, <1>12, <2>1, <3>2 DEF Begins
  <2>2. CASE n - m # 0
    <3>1. old # <<>> /\ old[1] = FirstByte(c)
      BY <1>3, <1>10, <2>2 DEF Begins
    <3>2. old \o seg # <<>> /\ (old \o seg)[1] = old[1]
      BY <1>6, <1>10, <3>1
    <3> QED BY <1>11, <1>12, <3>1, <3>2 DEF Begins
  <2> QED BY <2>1, <2>2
<1>14. c \notin overrun' => buffer'[c] = Joined(s)[n - m + 1]
  <2> SUFFICES ASSUME c \notin overrun' PROVE buffer'[c] = Joined(s)[n - m + 1]
    OBVIOUS
  <2>1. buffer'[c] = buffer[c] \o seg /\ buffer[c] = Joined(s)[n - m]
    BY <1>3, <1>11
  <2>2. Joined(s)[n - m + 1] = Joined(s)[n - m] \o s[n - m + 1]
    <3>1. n - m + 1 \in 1 .. Len(s)
      BY <1>5 DEF n
    <3>2. Joined(s)[n - m + 1] = Joined(s)[(n - m + 1) - 1] \o s[n - m + 1]
      BY <1>7, <3>1 DEF IsJoined
    <3> QED BY <1>5, <3>2
  <2> QED BY <1>6, <2>1, <2>2
<1>15. CASE m = 1
  <2>1. cpc'[c] = "dispatch" /\ HasNewline(seg)
    BY <1>1, <1>6, <1>15 DEF seg
  <2>2. HasNewline(old \o seg)
    <3>1. PICK k \in 1 .. Len(seg) : seg[k] = NL
      BY <1>6, <2>1 DEF HasNewline
    <3>2. Len(old) + k \in DOMAIN (old \o seg) /\ (old \o seg)[Len(old) + k] = seg[k]
      BY <1>6, <1>10
    <3> QED BY <3>1, <3>2 DEF HasNewline
  <2>3. c \notin overrun' => buffer'[c] = Packet(c)
    <3>1. n - m + 1 = Len(s)
      BY <1>3, <1>15 DEF n
    <3>2. Joined(s)[Len(s)] = Packet(c)
      BY <1>7 DEF IsJoined, Packet, s
    <3> QED BY <1>14, <3>1, <3>2
  <2>4. (ReceivedAll(c))'
    <3>1. HasNewline(buffer'[c])
      BY <1>11, <2>2
    <3> QED BY <1>12, <1>13, <2>3, <3>1 DEF ReceivedAll, HasNewline
  <2> QED BY <1>2, <1>12, <2>1, <2>4 DEF ClientInv, Written, s
<1>16. CASE m # 1
  <2>1. cpc'[c] = "recv"
    BY <1>1, <1>6, <1>16 DEF seg
  <2>2. /\ incoming'[c] = Tail(incoming[c]) /\ Len(incoming'[c]) = m - 1
        /\ \A i \in 1 .. m - 1 : incoming'[c][i] = incoming[c][i + 1]
    BY <1>3, <1>4 DEF m
  <2>3. \A i \in 1 .. m - 1 : incoming'[c][i] = s[n - (m - 1) + i]
    <3> SUFFICES ASSUME NEW i \in 1 .. m - 1 PROVE incoming'[c][i] = s[n - (m - 1) + i]
      OBVIOUS
    <3>1. i + 1 \in 1 .. m /\ n - m + (i + 1) = n - (m - 1) + i
      BY <1>3
    <3> QED BY <1>3, <2>2, <3>1
  <2>4. n - (m - 1) = n - m + 1 /\ n - (m - 1) # 0 /\ m - 1 \in 1 .. n
    BY <1>3, <1>16
  <2>5. (ReceivedSome(c))'
    BY <1>12, <1>13, <1>14, <2>2, <2>3, <2>4 DEF ReceivedSome, n
  <2> QED BY <1>2, <1>12, <2>1, <2>5 DEF ClientInv, Written, s
<1> QED BY <1>15, <1>16

(* A packet is stored: it is unlike all that are there.                    *)
LEMMA WriteKeepsPackets ==
    ASSUME FewClients, EachWhole, EachItsOwn, DataInv, ControlInv, RoomInv, PacketInv,
           NEW c \in Conn, WritePacket(c)
    PROVE  PacketInv'
<1>1. /\ cpc[c] = "dispatch" /\ cpc' = [cpc EXCEPT ![c] = "echo"] /\ cpc \in [Conn -> Phase]
      /\ ~StartsWith(c, SeekText) /\ ~StartsWith(c, BadSeekText)
      /\ UNCHANGED recvVars
  BY DEF WritePacket, Active, ControlInv, ListInv
<1>2. /\ request[c] \in Segments[c] /\ ReceivedAll(c) /\ partial = <<>>
  BY <1>1 DEF PacketInv, ClientInv, StoreInv
<1> DEFINE t == buffer[c]
           n == Len(commands)
<1>3. t \in Seq(Byte) /\ Begins(t, c) /\ HasNewline(t) /\ (c \notin overrun => t = Packet(c))
  BY <1>2 DEF ReceivedAll, DataInv
<1>4. FirstByte(c) \notin Seeks
  <2>1. Head(t) = FirstByte(c) /\ t # <<>>
    BY <1>3 DEF Begins
  <2> QED BY <1>1, <2>1 DEF StartsWith, Seeks
<1>5. commands' = Append(commands, t) /\ partial' = <<>>
  <2>1. partial \o t = t
    BY <1>2, <1>3, ConcatEmptySeq
  <2> QED BY <1>3, <2>1, WriteAppends
<1> HIDE DEF t
<1>6. /\ n \in Nat /\ Len(commands') = n + 1
      /\ \A i \in 1 .. n : i \in 1 .. n + 1 /\ commands'[i] = commands[i]
      /\ commands'[n + 1] = t
  <2>1. commands \in Seq(Seq(Byte))
    BY DEF DataInv
  <2> QED BY <1>3, <1>5, <2>1, OffsetExtended
<1> HIDE DEF n
<1>7. Done' = Done \cup {c} /\ c \notin Done /\ Done \subseteq Conn
  BY <1>1 DEF Done, Past
<1>8. request' = request /\ overrun' = overrun /\ buffer' = buffer /\ incoming' = incoming
  BY <1>1 DEF recvVars
<1>9. \A d \in Conn : (FirstByte(d))' = FirstByte(d) /\ (Packet(d))' = Packet(d)
  BY <1>8 DEF FirstByte, Packet
<1>10. \A i \in 1 .. n : commands[i][1] # t[1]
  <2> SUFFICES ASSUME NEW i \in 1 .. n PROVE commands[i][1] # t[1]
    OBVIOUS
  <2>1. PICK d \in Done : Begins(commands[i], d) /\ FirstByte(d) \notin Seeks
    BY DEF PacketInv, StoreInv, n
  <2>2. d \in Conn /\ d # c /\ cpc[d] # "unused"
    BY <1>7 DEF Done, Past
  <2>3. request[d] \in Segments[d]
    BY <2>2 DEF PacketInv, ClientInv
  <2>4. FirstByte(d) # FirstByte(c)
    BY <1>2, <2>1, <2>2, <2>3 DEF EachItsOwn, FirstByte
  <2> QED BY <1>3, <2>1, <2>4 DEF Begins
<1>11. (StoreInv)'
  <2>1. ASSUME NEW i \in 1 .. n + 1
        PROVE  \E d \in Done' : (Begins(commands[i], d))' /\ (FirstByte(d))' \notin Seeks
    <3>1. CASE i = n + 1
      <4>1. c \in Done' /\ (Begins(commands[i], c))' /\ (FirstByte(c))' \notin Seeks
        BY <1>3, <1>4, <1>6, <1>7, <1>9, <3>1 DEF Begins
      <4> QED BY <4>1
    <3>2. CASE i # n + 1
      <4>1. i \in 1 .. n
        BY <1>6, <3>2
      <4>2. PICK d \in Done : Begins(commands[i], d) /\ FirstByte(d) \notin Seeks
        BY <4>1 DEF PacketInv, StoreInv, n
      <4>3. d \in Done' /\ d \in Conn /\ commands'[i] = commands[i]
        BY <1>6, <1>7, <4>1
      <4>4. (Begins(commands[i], d))' /\ (FirstByte(d))' \notin Seeks
        BY <1>9, <4>2, <4>3 DEF Begins
      <4> QED BY <4>3, <4>4
    <3> QED BY <3>1, <3>2
  <2>2. ASSUME NEW i \in 1 .. n + 1, NEW j \in 1 .. n + 1, commands'[i][1] = commands'[j][1]
        PROVE  i = j
    <3>1. i \in 1 .. n \/ i = n + 1
      BY <1>6
    <3>2. j \in 1 .. n \/ j = n + 1
      BY <1>6
    <3>3. CASE i \in 1 .. n /\ j \in 1 .. n
      BY <1>6, <2>2, <3>3 DEF PacketInv, StoreInv, n
    <3>4. CASE i = n + 1 /\ j \in 1 .. n
      BY <1>6, <1>10, <2>2, <3>4
    <3>5. CASE i \in 1 .. n /\ j = n + 1
      BY <1>6, <1>10, <2>2, <3>5
    <3> QED BY <3>1, <3>2, <3>3, <3>4, <3>5
  <2> QED BY <1>5, <1>6, <2>1, <2>2 DEF StoreInv
<1>12. ASSUME NEW d \in Conn PROVE ClientInv(d)'
  <2>1. CASE d = c
    <3>1. cpc'[c] = "echo"
      BY <1>1
    <3>2. c \notin overrun' => n + 1 \in 1 .. Len(commands') /\ commands'[n + 1] = (Packet(c))'
      BY <1>3, <1>6, <1>8, <1>9
    <3> QED BY <1>2, <1>8, <2>1, <3>1, <3>2 DEF ClientInv
  <2>2. CASE d # c
    <3>1. cpc'[d] = cpc[d]
      BY <1>1, <2>2
    <3>2. \A i \in 1 .. Len(commands) : i \in 1 .. Len(commands') /\ commands'[i] = commands[i]
      BY <1>6 DEF n
    <3> QED BY <1>8, <3>1, <3>2, ClientUntouched DEF PacketInv
  <2> QED BY <2>1, <2>2
<1> QED BY <1>11, <1>12 DEF PacketInv

(* Steps in which only the connection c changes.                           *)
LEMMA OneClient ==
    ASSUME PacketInv, ControlInv, NEW c \in Conn, UNCHANGED logVars, ClientInv(c)',
           NEW p \in Phase, cpc' = [cpc EXCEPT ![c] = p],
           cpc[c] \in Past => p \in Past /\ request'[c] = request[c],
           \A d \in Conn \ {c} : /\ request'[d] = request[d] /\ incoming'[d] = incoming[d]
                                 /\ buffer'[d] = buffer[d] /\ (d \in overrun' <=> d \in overrun)
    PROVE  PacketInv'
<1>1. cpc \in [Conn -> Phase]
  BY DEF ControlInv, ListInv
<1>2. Done \subseteq Done' /\ \A d \in Done : request'[d] = request[d]
  BY <1>1 DEF Done
<1>3. StoreInv'
  BY <1>2, StoreUnchanged DEF PacketInv
<1>4. ASSUME NEW d \in Conn PROVE ClientInv(d)'
  <2>1. CASE d # c
    <3>1. cpc'[d] = cpc[d] /\ ClientInv(d)
      BY <1>1, <2>1 DEF PacketInv
    <3>2. \A i \in 1 .. Len(commands) : i \in 1 .. Len(commands') /\ commands'[i] = commands[i]
      BY DEF logVars
    <3> QED BY <2>1, <3>1, <3>2, ClientUntouched
  <2> QED BY <2>1
<1> QED BY <1>3, <1>4 DEF PacketInv

(* A client that has connected does not take back what it sends.           *)
LEMMA RequestsStay ==
    ASSUME DataInv, ControlInv, [SockNext]_sockVars, NEW d \in Conn, cpc[d] # "unused"
    PROVE  cpc'[d] # "unused" /\ request'[d] = request[d]
<1>1. cpc \in [Conn -> Phase]
  BY DEF ControlInv, ListInv
<1>2. CASE Quiet
  BY <1>1, <1>2 DEF Quiet, Moves, recvVars
<1>3. CASE \E how : Exit(how)
  BY <1>3 DEF Exit
<1>4. ASSUME NEW c \in Conn, Connect(c) PROVE cpc'[d] # "unused" /\ request'[d] = request[d]
  BY <1>1, <1>4 DEF Connect, DataInv
<1>5. ASSUME NEW c \in Conn, Recv(c) PROVE cpc'[d] # "unused" /\ request'[d] = request[d]
  BY <1>1, <1>5 DEF Recv, Receive, Active
<1>6. ASSUME NEW c \in Conn, WritePacket(c) \/ SeekDone(c) \/ Echo(c) \/ ThreadReturn(c)
      PROVE  cpc'[d] # "unused" /\ request'[d] = request[d]
  BY <1>1, <1>6 DEF WritePacket, SeekDone, Echo, ThreadReturn, Active, recvVars
<1>7. ASSUME NEW c \in Conn, EchoEnd(c) PROVE cpc'[d] # "unused" /\ request'[d] = request[d]
  BY <1>1, <1>7 DEF EchoEnd, Active
<1> QED BY <1>2, <1>3, <1>4, <1>5, <1>6, <1>7, StepKinds

(* As long as no zero is sent, none has been sent before.                  *)
LEMMA NoZeroBefore ==
    ASSUME DataInv, ControlInv, [SockNext]_sockVars, NoZeroYet'
    PROVE  NoZeroYet
BY RequestsStay DEF NoZeroYet

LEMMA StepKeepsPackets ==
    ASSUME FewClients, EachWhole, EachItsOwn, DataInv, ControlInv, RoomInv, PacketInv,
           NoZeroYet, [SockNext]_sockVars
    PROVE  PacketInv'
<1>1. cpc \in [Conn -> Phase] /\ \A c \in Conn : ClientInv(c)
  BY DEF ControlInv, ListInv, PacketInv
<1>2. CASE Quiet
  <2>1. /\ UNCHANGED logVars /\ request' = request /\ incoming' = incoming
        /\ buffer' = buffer /\ overrun' = overrun
    BY <1>2 DEF Quiet, recvVars
  <2>2. CASE UNCHANGED cpc
    <3>1. StoreInv'
      BY <2>1, <2>2, StoreUnchanged DEF PacketInv, Done
    <3>2. \A i \in 1 .. Len(commands) : i \in 1 .. Len(commands') /\ commands'[i] = commands[i]
      BY <2>1 DEF logVars
    <3>3. ASSUME NEW d \in Conn PROVE ClientInv(d)'
      BY <1>1, <2>1, <2>2, <3>2, ClientUntouched
    <3> QED BY <3>1, <3>3 DEF PacketInv
  <2>3. ASSUME NEW c \in Conn, NEW p \in Phase, cpc' = [cpc EXCEPT ![c] = p], ClientInv(c)',
               cpc[c] \in Past => p \in Past
        PROVE  PacketInv'
    BY <2>1, <2>3, OneClient
  <2>4. ASSUME NEW c \in Conn
        PROVE  (FirstByte(c))' = FirstByte(c) /\ (Packet(c))' = Packet(c)
    BY <2>1 DEF FirstByte, Packet
  <2>5. ASSUME NEW c \in Conn, Moves(c, "backlog", "recv") PROVE PacketInv'
    <3>1. cpc[c] = "backlog" /\ cpc' = [cpc EXCEPT ![c] = "recv"] /\ cpc'[c] = "recv"
      BY <1>1, <2>5 DEF Moves
    <3>2. ReceivedSome(c) => (ReceivedSome(c))'
      BY <2>1, <2>4 DEF ReceivedSome, Begins
    <3>3. ClientInv(c)'
      BY <1>1, <2>1, <3>1, <3>2 DEF ClientInv, Written
    <3> QED BY <2>3, <3>1, <3>3 DEF Phase, Started, Past
  <2>6. ASSUME NEW c \in Conn, Moves(c, "backlog", "orphan") PROVE PacketInv'
    <3>1. cpc[c] = "backlog" /\ cpc' = [cpc EXCEPT ![c] = "orphan"] /\ cpc'[c] = "orphan"
      BY <1>1, <2>6 DEF Moves
    <3>2. ClientInv(c)'
      BY <1>1, <2>1, <3>1 DEF ClientInv, Written
    <3> QED BY <2>3, <3>1, <3>2 DEF Phase, Past
  <2>7. ASSUME NEW c \in Conn, Moves(c, "returned", "joined") PROVE PacketInv'
    <3>1. cpc[c] = "returned" /\ cpc' = [cpc EXCEPT ![c] = "joined"] /\ cpc'[c] = "joined"
      BY <1>1, <2>7 DEF Moves
    <3>2. ClientInv(c)'
      BY <1>1, <2>1, <3>1, ClientPast DEF Written, logVars
    <3> QED BY <2>3, <3>1, <3>2 DEF Phase, Past
  <2>8. ASSUME NEW c \in Conn, Moves(c, "token", "ioctl") PROVE PacketInv'
    <3>1. cpc[c] = "token" /\ cpc' = [cpc EXCEPT ![c] = "ioctl"] /\ cpc'[c] = "ioctl"
      BY <1>1, <2>8 DEF Moves
    <3>2. ClientInv(c)'
      BY <1>1, <2>1, <2>4, <3>1 DEF ClientInv, Written
    <3> QED BY <2>3, <3>1, <3>2 DEF Phase, Started, Past
  <2>9. ASSUME NEW c \in Conn, Moves(c, "recv", "dispatch"), incoming[c] = <<>> PROVE PacketInv'
    <3>1. ReceivedSome(c)
      BY <1>1, <2>9 DEF Moves, ClientInv
    <3> QED BY <2>9, <3>1 DEF ReceivedSome
  <2>10. ASSUME NEW c \in Conn, Moves(c, "dispatch", "token"), buffer[c] # <<>>,
                Head(buffer[c]) \in {SeekText, BadSeekText}
         PROVE  PacketInv'
    <3>1. cpc[c] = "dispatch" /\ cpc' = [cpc EXCEPT ![c] = "token"] /\ cpc'[c] = "token"
      BY <1>1, <2>10 DEF Moves
    <3>2. Begins(buffer[c], c)
      BY <1>1, <3>1 DEF ClientInv, ReceivedAll
    <3>3. FirstByte(c) \in Seeks
      <4>1. buffer[c] \in Seq(Byte)
        BY DEF DataInv
      <4> QED BY <2>10, <3>2, <4>1 DEF Begins, Seeks
    <3>4. ClientInv(c)'
      BY <1>1, <2>1, <2>4, <3>1, <3>3 DEF ClientInv, Written
    <3> QED BY <2>3, <3>1, <3>4 DEF Phase, Started, Past
  <2> QED BY <1>2, <2>2, <2>5, <2>6, <2>7, <2>8, <2>9, <2>10 DEF Quiet
<1>3. CASE \E how : Exit(how)
  <2>1. /\ UNCHANGED <<logVars, request>>
        /\ cpc' = [c \in Conn |-> IF cpc[c] = "unused" THEN "unused" ELSE "dropped"]
        /\ \A c \in Conn : buffer'[c] = <<>>
    BY <1>3 DEF Exit, None
  <2>2. Done \subseteq Done'
    BY <2>1 DEF Done, Past
  <2>3. StoreInv'
    BY <2>1, <2>2, StoreUnchanged DEF PacketInv
  <2>4. ASSUME NEW c \in Conn PROVE ClientInv(c)'
    BY <1>1, <2>1 DEF ClientInv, Written
  <2> QED BY <2>3, <2>4 DEF PacketInv
<1>4. ASSUME NEW c \in Conn, Connect(c) PROVE PacketInv'
  <2>1. PICK s \in Segments[c] : /\ request' = [request EXCEPT ![c] = s]
                                 /\ incoming' = [incoming EXCEPT ![c] = s]
    BY <1>4 DEF Connect
  <2>2. /\ cpc[c] = "unused" /\ cpc' = [cpc EXCEPT ![c] = "backlog"] /\ cpc'[c] = "backlog"
        /\ UNCHANGED <<logVars, buffer, overrun>> /\ buffer[c] = <<>>
    BY <1>1, <1>4 DEF Connect, ClientInv
  <2>3. request'[c] = s /\ incoming'[c] = s
    BY <2>1 DEF DataInv
  <2>4. Len(s) \in Nat \ {0} /\ Joined(s)[0] = <<>>
    BY SegmentShape, JoinedBegins DEF IsJoined
  <2>5. (ReceivedSome(c))'
    <3> DEFINE n == Len(s)
    <3>1. n \in Nat \ {0}
      BY <2>4
    <3> HIDE DEF n
    <3>2. n \in 1 .. n /\ n - n = 0 /\ \A i \in 1 .. n : 0 + i = i
      BY <3>1
    <3> QED BY <2>2, <2>3, <2>4, <3>2 DEF ReceivedSome, n
  <2>6. ClientInv(c)'
    BY <2>2, <2>3, <2>5 DEF ClientInv, Written
  <2> QED BY <2>1, <2>2, <2>6, OneClient DEF Phase, Past, DataInv
<1>5. ASSUME NEW c \in Conn, Recv(c) PROVE PacketInv'
  <2>1. ClientInv(c)'
    BY <1>1, <1>5, RecvKeepsClient
  <2>2. PICK p \in {"recv", "dispatch"} : cpc' = [cpc EXCEPT ![c] = p]
    BY <1>1, <1>5 DEF Recv, Active
  <2>3. cpc[c] = "recv" /\ Receive(c) /\ UNCHANGED logVars
    BY <1>5 DEF Recv, Active
  <2>4. \A d \in Conn \ {c} : /\ request'[d] = request[d] /\ incoming'[d] = incoming[d]
                              /\ buffer'[d] = buffer[d] /\ (d \in overrun' <=> d \in overrun)
    BY <2>3 DEF Receive, DataInv
  <2>5. p \in Phase /\ cpc[c] \notin Past
    BY <2>2, <2>3 DEF Phase, Started, Past
  <2> QED BY <2>1, <2>2, <2>3, <2>4, <2>5, OneClient
<1>6. ASSUME NEW c \in Conn, SeekDone(c) PROVE PacketInv'
  <2>1. /\ cpc[c] = "ioctl" /\ cpc' = [cpc EXCEPT ![c] = "echo"] /\ cpc'[c] = "echo"
        /\ UNCHANGED <<logVars, recvVars>>
    BY <1>1, <1>6 DEF SeekDone, Active
  <2>2. /\ request' = request /\ incoming' = incoming /\ buffer' = buffer /\ overrun' = overrun
        /\ (FirstByte(c))' = FirstByte(c)
    BY <2>1 DEF recvVars, FirstByte
  <2>3. ClientInv(c)'
    BY <1>1, <2>1, <2>2 DEF ClientInv
  <2> QED BY <2>1, <2>2, <2>3, OneClient DEF Phase, Started, Past
<1>7. ASSUME NEW c \in Conn, Echo(c) PROVE PacketInv'
  <2>1. UNCHANGED <<logVars, cpc, recvVars>>
    BY <1>7 DEF Echo
  <2>2. StoreInv'
    BY <2>1, StoreUnchanged DEF PacketInv, Done, recvVars
  <2>3. ASSUME NEW d \in Conn PROVE ClientInv(d)'
    BY <1>1, <2>1, ClientUntouched DEF recvVars, logVars
  <2> QED BY <2>2, <2>3 DEF PacketInv
<1>8. ASSUME NEW c \in Conn, EchoEnd(c) \/ ThreadReturn(c) PROVE PacketInv'
  <2>1. /\ cpc[c] \in Written /\ UNCHANGED <<logVars, request, incoming, overrun>>
        /\ \A d \in Conn \ {c} : buffer'[d] = buffer[d]
    BY <1>8 DEF EchoEnd, ThreadReturn, Active, Written, recvVars, DataInv
  <2>2. PICK p \in {"complete", "returned"} : cpc' = [cpc EXCEPT ![c] = p]
    BY <1>8 DEF EchoEnd, ThreadReturn
  <2>3. cpc'[c] \in Written /\ p \in Phase /\ p \in Past
    BY <1>1, <2>2 DEF Written, Phase, Started, Past
  <2>4. ClientInv(c)'
    BY <1>1, <2>1, <2>3, ClientPast DEF logVars
  <2> QED BY <2>1, <2>2, <2>3, <2>4, OneClient
<1> QED BY <1>2, <1>3, <1>4, <1>5, <1>6, <1>7, <1>8, StepKinds, WriteKeepsPackets

(* PacketStoredOnce for any number of clients: when each sends a packet of *)
(* its own that ends in its newline, and the device has room for all.      *)
(* Packets may have zeros; the property speaks of the time before one has  *)
(* been sent.                                                              *)
THEOREM SocketStores ==
    FewClients /\ EachWhole /\ EachItsOwn /\ SockSpec => []PacketStoredOnce
<1> SUFFICES ASSUME FewClients, EachWhole, EachItsOwn
             PROVE  SockSpec => []PacketStoredOnce
  OBVIOUS
<1>1. ASSUME NoZeroYet => PacketInv, DataInv
      PROVE  PacketStoredOnce
  <2> SUFFICES ASSUME overrun = {}, PacketInv, NEW c \in Conn, Ordinary(c)
               PROVE  /\ cpc[c] \in Written => \E i \in DOMAIN commands : StoredAt(c) = {i}
                      /\ cpc[c] \in {"recv", "dispatch"} => StoredAt(c) = {}
                      /\ cpc[c] = "dropped" => \A i, j \in StoredAt(c) : i = j
    BY <1>1 DEF PacketStoredOnce, PacketInv, StoreInv
  <2>1. ClientInv(c) /\ DOMAIN commands = 1 .. Len(commands)
    BY <1>1 DEF PacketInv, DataInv
  <2>2. \A i, j \in StoredAt(c) : i = j
    BY <1>1, <2>1 DEF PacketInv, StoreInv, StoredAt
  <2>3. cpc[c] # "unused" =>
           request[c] \in Segments[c] /\ Packet(c)[1] = FirstByte(c) /\ FirstByte(c) \notin Seeks
    <3> SUFFICES ASSUME cpc[c] # "unused"
                 PROVE  /\ request[c] \in Segments[c]
                        /\ Packet(c)[1] = FirstByte(c) /\ FirstByte(c) \notin Seeks
      OBVIOUS
    <3>1. request[c] \in Segments[c]
      BY <2>1 DEF ClientInv
    <3>2. Packet(c) # <<>> /\ Packet(c)[1] = FirstByte(c)
      BY <3>1, JoinedBegins DEF Packet, FirstByte
    <3>3. Head(Packet(c)) \notin Seeks
      BY DEF Ordinary, Seeks
    <3>4. Packet(c) \in Seq(Byte)
      <4>1. IsJoined(Joined(request[c]), request[c]) /\ Len(request[c]) \in Nat
        BY <3>1, JoinedBegins, SegmentShape
      <4> QED BY <4>1 DEF IsJoined, Packet
    <3>5. Head(Packet(c)) = Packet(c)[1]
      BY <3>2, <3>4
    <3> QED BY <3>1, <3>2, <3>3, <3>5
  <2>4. ASSUME cpc[c] \in Written PROVE \E i \in DOMAIN commands : StoredAt(c) = {i}
    <3>1. PICK i \in 1 .. Len(commands) : commands[i] = Packet(c)
      BY <2>1, <2>3, <2>4 DEF ClientInv, Written
    <3>2. i \in StoredAt(c) /\ i \in DOMAIN commands
      BY <2>1, <3>1 DEF StoredAt
    <3>3. StoredAt(c) = {i}
      BY <2>2, <3>2
    <3> QED BY <3>2, <3>3
  <2>5. ASSUME cpc[c] \in {"recv", "dispatch"} PROVE StoredAt(c) = {}
    <3> SUFFICES ASSUME NEW i \in 1 .. Len(commands), commands[i] = Packet(c) PROVE FALSE
      BY <2>1 DEF StoredAt
    <3>1. PICK d \in Done : Begins(commands[i], d) /\ FirstByte(d) \notin Seeks
      BY <1>1 DEF PacketInv, StoreInv
    <3>2. d \in Conn /\ d # c /\ cpc[d] # "unused"
      BY <2>5 DEF Done, Past
    <3>3. request[d] \in Segments[d]
      BY <1>1, <3>2 DEF PacketInv, ClientInv
    <3>4. FirstByte(d) # FirstByte(c)
      BY <2>3, <2>5, <3>1, <3>2, <3>3 DEF EachItsOwn, FirstByte
    <3> QED BY <2>3, <2>5, <3>1, <3>4 DEF Begins
  <2> QED BY <2>2, <2>4, <2>5
<1>2. SockInit => DataInv /\ ControlInv /\ RoomInv /\ (NoZeroYet => PacketInv)
  BY DataInit, ControlInit, RoomInit, PacketInit
<1>3. (DataInv /\ ControlInv /\ RoomInv /\ (NoZeroYet => PacketInv)) /\ [SockNext]_sockVars
        => (DataInv /\ ControlInv /\ RoomInv /\ (NoZeroYet => PacketInv))'
  BY StepKeepsData, StepKeepsControl, StepKeepsRoom, StepKeepsPackets, NoZeroBefore
<1> QED BY <1>1, <1>2, <1>3, PTL DEF SockSpec

-----------------------------------------------------------------------------
(* What is answered.                                                       *)

Early == {"unused", "backlog", "recv", "dispatch"}

(* What c has read is the beginning of the device.                         *)
Covers(c) ==
    /\ Len(seen[c]) <= Offset[Len(commands)]
    /\ \A j \in 1 .. Len(commands) : \A k \in 1 .. Len(commands[j]) :
          Offset[j - 1] + k <= Len(seen[c]) => seen[c][Offset[j - 1] + k] = commands[j][k]

AnswerInv(c) ==
    /\ cpc[c] \in Early => fpos[c] = 0 /\ seen[c] = <<>>
    /\ cpc[c] = "echo" /\ FirstByte(c) \notin Seeks => Covers(c) /\ fpos[c] = Len(seen[c])
    /\ cpc[c] = "complete" /\ FirstByte(c) \notin Seeks =>
          /\ Covers(c)
          /\ \A i \in 1 .. Len(commands) :
                commands[i][1] = FirstByte(c) => Offset[i] <= Len(seen[c])

AnswersInv == \A c \in Conn : AnswerInv(c)

LEMMA AnswersInit == SockInit => AnswersInv
<1> SUFFICES ASSUME SockInit, NEW c \in Conn PROVE AnswerInv(c)
  BY DEF AnswersInv
<1>1. cpc[c] = "unused" /\ fpos[c] = 0 /\ seen[c] = <<>>
  BY DEF SockInit, None
<1> QED BY <1>1 DEF AnswerInv

(* A step that reads nothing for d and moves it neither into nor out of    *)
(* the loop.                                                               *)
LEMMA AnswerUntouched ==
    ASSUME NEW d \in Conn, AnswerInv(d), UNCHANGED commands,
           fpos'[d] = fpos[d], seen'[d] = seen[d],
           cpc'[d] \in Early => cpc[d] \in Early,
           cpc'[d] \in {"echo", "complete"} => cpc'[d] = cpc[d] /\ request'[d] = request[d]
    PROVE  AnswerInv(d)'
<1>1. Offset' = Offset
  BY OffsetUnchanged
<1>2. Covers(d) => (Covers(d))'
  BY <1>1 DEF Covers
<1>3. request'[d] = request[d] => (FirstByte(d))' = FirstByte(d)
  BY DEF FirstByte
<1> HIDE DEF Covers
<1> QED BY <1>1, <1>2, <1>3 DEF AnswerInv, Early

(* A packet is stored behind what has been read.                           *)
LEMMA CoversExtended ==
    ASSUME commands \in Seq(Seq(Byte)), NEW t \in Seq(Byte), commands' = Append(commands, t),
           NEW d \in Conn, Covers(d), seen'[d] = seen[d], seen[d] \in Seq(Byte)
    PROVE  (Covers(d))'
<1> DEFINE n == Len(commands)
<1>1. /\ commands' \in Seq(Seq(Byte)) /\ Len(commands') = n + 1 /\ n \in Nat
      /\ \A i \in 1 .. n : i \in 1 .. n + 1 /\ commands'[i] = commands[i]
      /\ \A i \in 0 .. n : Offset'[i] = Offset[i]
  BY OffsetExtended
<1>2. OffsetOK /\ OffsetOK'
  BY <1>1, OffsetIsOK, OffsetIsOKPrime
<1>3. /\ Offset[n] \in Nat /\ Offset'[n + 1] = Offset[n] + Len(commands'[n + 1])
      /\ Len(commands'[n + 1]) \in Nat /\ Len(seen[d]) \in Nat /\ Len(seen[d]) <= Offset[n]
  <2>1. n \in 0 .. n /\ n + 1 \in 1 .. n + 1 /\ (n + 1) - 1 = n
    BY <1>1
  <2>2. Offset'[n + 1] = Offset'[n] + Len(commands'[n + 1]) /\ Len(commands'[n + 1]) \in Nat
    BY <1>1, <1>2, <2>1 DEF OffsetOK
  <2>3. Offset'[n] = Offset[n] /\ Offset[n] \in Nat
    BY <1>1, <1>2, <2>1 DEF OffsetOK
  <2> QED BY <2>2, <2>3 DEF Covers
<1>4. Len(seen'[d]) <= Offset'[Len(commands')]
  BY <1>1, <1>3
<1>5. ASSUME NEW j \in 1 .. n + 1, NEW k \in 1 .. Len(commands'[j]),
             Offset'[j - 1] + k <= Len(seen[d])
      PROVE  seen[d][Offset'[j - 1] + k] = commands'[j][k]
  <2>1. CASE j \in 1 .. n
    <3>1. j - 1 \in 0 .. n /\ commands'[j] = commands[j]
      BY <1>1, <2>1
    <3>2. Offset'[j - 1] = Offset[j - 1]
      BY <1>1, <3>1
    <3> QED BY <1>5, <2>1, <3>1, <3>2 DEF Covers
  <2>2. CASE j = n + 1
    <3>1. j - 1 = n /\ n \in 0 .. n
      BY <1>1, <2>2
    <3>2. Offset'[j - 1] = Offset[n]
      BY <1>1, <3>1
    <3>3. k \in Nat \ {0}
      BY <1>3, <2>2
    <3> QED BY <1>3, <1>5, <3>2, <3>3
  <2> QED BY <1>1, <2>1, <2>2
<1> QED BY <1>1, <1>4, <1>5 DEF Covers

LEMMA WriteKeepsAnswers ==
    ASSUME FewClients, EachItsOwn, DataInv, ControlInv, RoomInv, PacketInv, AnswersInv,
           NEW c \in Conn, WritePacket(c)
    PROVE  AnswersInv'
<1>1. /\ cpc[c] = "dispatch" /\ cpc' = [cpc EXCEPT ![c] = "echo"] /\ cpc \in [Conn -> Phase]
      /\ ~StartsWith(c, SeekText) /\ ~StartsWith(c, BadSeekText)
      /\ request' = request /\ fpos' = fpos /\ seen' = seen
  BY DEF WritePacket, Active, ControlInv, ListInv, recvVars, echoVars
<1>2. /\ request[c] \in Segments[c] /\ ReceivedAll(c) /\ partial = <<>>
  BY <1>1 DEF PacketInv, ClientInv, StoreInv
<1> DEFINE t == buffer[c]
           n == Len(commands)
<1>3. t \in Seq(Byte) /\ Begins(t, c) /\ HasNewline(t)
  BY <1>2 DEF ReceivedAll, DataInv
<1>4. FirstByte(c) \notin Seeks
  <2>1. Head(t) = FirstByte(c) /\ t # <<>>
    BY <1>3 DEF Begins
  <2> QED BY <1>1, <2>1 DEF StartsWith, Seeks
<1>5. commands' = Append(commands, t)
  <2>1. partial \o t = t
    BY <1>2, <1>3, ConcatEmptySeq
  <2> QED BY <1>3, <2>1, WriteAppends
<1> HIDE DEF t
<1>6. /\ commands \in Seq(Seq(Byte)) /\ seen \in [Conn -> Seq(Byte)]
  BY DEF DataInv
<1>7. /\ Len(commands') = n + 1 /\ n \in Nat
      /\ \A i \in 1 .. n : commands'[i] = commands[i]
      /\ commands'[n + 1] = t
      /\ \A i \in 0 .. n : Offset'[i] = Offset[i]
  BY <1>3, <1>5, <1>6, OffsetExtended
<1> HIDE DEF n
<1>8. \A d \in Conn : (FirstByte(d))' = FirstByte(d) /\ (Covers(d) => (Covers(d))')
  <2> SUFFICES ASSUME NEW d \in Conn PROVE (FirstByte(d))' = FirstByte(d) /\ (Covers(d) => (Covers(d))')
    OBVIOUS
  <2>1. (FirstByte(d))' = FirstByte(d)
    BY <1>1 DEF FirstByte
  <2>2. Covers(d) => (Covers(d))'
    BY <1>1, <1>3, <1>5, <1>6, CoversExtended
  <2> QED BY <2>1, <2>2
<1>9. ASSUME NEW d \in Conn PROVE AnswerInv(d)'
  <2>1. CASE d = c
    <3>1. fpos[c] = 0 /\ seen[c] = <<>> /\ cpc'[c] = "echo"
      BY <1>1 DEF AnswersInv, AnswerInv, Early
    <3>2. Covers(c)
      <4>1. OffsetOK /\ Len(seen[c]) = 0
        BY <1>6, <3>1, OffsetIsOK
      <4>2. 0 <= Offset[Len(commands)]
        <5>1. Len(commands) \in 0 .. Len(commands)
          BY <4>1 DEF OffsetOK
        <5> QED BY <4>1, <5>1 DEF OffsetOK
      <4>3. ASSUME NEW j \in 1 .. Len(commands), NEW k \in 1 .. Len(commands[j])
            PROVE  ~(Offset[j - 1] + k <= 0)
        <5>1. j - 1 \in 0 .. Len(commands) /\ Len(commands[j]) \in Nat
          BY <4>1 DEF OffsetOK
        <5>2. Offset[j - 1] \in Nat
          BY <4>1, <5>1 DEF OffsetOK
        <5> QED BY <5>1, <5>2
      <4> QED BY <4>1, <4>2, <4>3 DEF Covers
    <3>3. fpos'[c] = Len(seen'[c])
      BY <1>1, <3>1
    <3> QED BY <1>8, <2>1, <3>1, <3>2, <3>3 DEF AnswerInv, Early
  <2>2. CASE d # c
    <3>1. cpc'[d] = cpc[d] /\ AnswerInv(d)
      BY <1>1, <2>2 DEF AnswersInv
    <3>2. ASSUME cpc[d] = "complete", FirstByte(d) \notin Seeks
          PROVE  \A i \in 1 .. n + 1 :
                    commands'[i][1] = FirstByte(d) => Offset'[i] <= Len(seen[d])
      <4>1. request[d] \in Segments[d]
        BY <3>2 DEF PacketInv, ClientInv
      <4>2. FirstByte(d) # FirstByte(c)
        BY <1>2, <1>4, <2>2, <4>1 DEF EachItsOwn, FirstByte
      <4>3. commands'[n + 1][1] # FirstByte(d)
        BY <1>3, <1>7, <4>2 DEF Begins
      <4>4. \A i \in 1 .. n : commands[i][1] = FirstByte(d) => Offset[i] <= Len(seen[d])
        BY <3>1, <3>2 DEF AnswerInv, n
      <4>5. \A i \in 1 .. n + 1 : i = n + 1 \/ (i \in 1 .. n /\ i \in 0 .. n)
        BY <1>7
      <4> QED BY <1>7, <4>3, <4>4, <4>5
    <3> QED BY <1>1, <1>7, <1>8, <3>1, <3>2 DEF AnswerInv
  <2> QED BY <2>1, <2>2
<1> QED BY <1>9 DEF AnswersInv

(* The commands do not overlap: a position belongs to one of them.         *)
LEMMA OnePlace ==
    ASSUME commands \in Seq(Seq(Byte)), NEW p \in Nat,
           NEW i \in 1 .. Len(commands), Offset[i - 1] < p, p <= Offset[i],
           NEW j \in 1 .. Len(commands), Offset[j - 1] < p, p <= Offset[j]
    PROVE  i = j
<1>1. OffsetOK
  BY OffsetIsOK
<1>2. ASSUME NEW a \in 1 .. Len(commands), NEW b \in 1 .. Len(commands), a < b,
             Offset[b - 1] < p, p <= Offset[a]
      PROVE  FALSE
  <2>1. a \in 0 .. Len(commands) /\ b - 1 \in a .. Len(commands) /\ b - 1 \in 0 .. Len(commands)
    <3> DEFINE n == Len(commands)
    <3>1. n \in Nat /\ a \in 1 .. n /\ b \in 1 .. n
      BY <1>1 DEF OffsetOK
    <3> HIDE DEF n
    <3>2. a \in 0 .. n /\ b - 1 \in a .. n /\ b - 1 \in 0 .. n
      BY <1>2, <3>1
    <3> QED BY <3>2 DEF n
  <2>2. Offset[a] <= Offset[b - 1]
    BY <2>1, OffsetGrows
  <2>3. Offset[a] \in Nat /\ Offset[b - 1] \in Nat
    BY <1>1, <2>1 DEF OffsetOK
  <2> QED BY <1>2, <2>2, <2>3
<1>3. ~(i < j) /\ ~(j < i)
  BY <1>2
<1>4. i \in Int /\ j \in Int
  BY <1>1 DEF OffsetOK
<1> QED BY <1>3, <1>4

(* A read continues where the last one ended.                              *)
LEMMA EchoKeepsAnswers ==
    ASSUME DataInv, ControlInv, AnswersInv, NEW c \in Conn, Echo(c)
    PROVE  AnswersInv'
<1> DEFINE chunk == ReadAt(fpos[c])
           pos   == fpos[c]
           old   == seen[c]
           n     == Len(commands)
           m     == Len(chunk)
<1>1. /\ cpc[c] = "echo" /\ UNCHANGED <<cpc, commands, request>> /\ chunk # <<>>
      /\ fpos' = [fpos EXCEPT ![c] = @ + Len(chunk)]
      /\ seen' = [seen EXCEPT ![c] = @ \o chunk]
  BY DEF Echo, Active, logVars, recvVars
<1>2. /\ commands \in Seq(Seq(Byte)) /\ pos \in Nat /\ chunk \in Seq(Byte) /\ old \in Seq(Byte)
      /\ fpos \in [Conn -> Nat] /\ seen \in [Conn -> Seq(Byte)] /\ m \in Nat
  <2>1. /\ commands \in Seq(Seq(Byte)) /\ pos \in Nat /\ old \in Seq(Byte)
        /\ fpos \in [Conn -> Nat] /\ seen \in [Conn -> Seq(Byte)]
    BY DEF DataInv
  <2>2. chunk \in Seq(Byte)
    BY <2>1, ReadAtValue
  <2> HIDE DEF chunk, pos, old
  <2>3. m \in Nat
    BY <2>2
  <2> QED BY <2>1, <2>2, <2>3
<1>3. PICK i \in 1 .. n :
         /\ Offset[i - 1] <= pos /\ pos < Offset[i]
         /\ m = IF Offset[i] - pos < BufferSize THEN Offset[i] - pos ELSE BufferSize
         /\ \A k \in 1 .. m : /\ pos - Offset[i - 1] + k \in 1 .. Len(commands[i])
                              /\ chunk[k] = commands[i][pos - Offset[i - 1] + k]
  BY <1>1, <1>2, ReadAtValue
<1>4. OffsetOK /\ Offset' = Offset
  BY <1>1, <1>2, OffsetIsOK, OffsetUnchanged
<1>5. fpos'[c] = pos + m /\ seen'[c] = old \o chunk
  BY <1>1, <1>2
<1> HIDE DEF chunk, pos, old, n, m
<1>6. /\ n \in Nat /\ i - 1 \in 0 .. n /\ i \in 0 .. n /\ Offset[i - 1] \in Nat /\ Offset[i] \in Nat
      /\ Offset[n] \in Nat /\ Offset[i] <= Offset[n]
  <2>1. n \in Nat /\ i \in 0 .. n /\ i - 1 \in 0 .. n
    BY <1>4 DEF OffsetOK, n
  <2>2. n \in i .. n /\ n \in 0 .. n
    BY <2>1
  <2>3. Offset[i] <= Offset[n]
    BY <1>2, <2>1, <2>2, OffsetGrows DEF n
  <2> QED BY <1>4, <2>1, <2>2, <2>3 DEF OffsetOK, n
<1>7. pos + m <= Offset[i]
  <2> DEFINE b == Offset[i]
  <2>1. b \in Nat /\ pos \in Nat /\ m \in Nat /\ pos < b /\ BufferSize \in Nat
        /\ m = IF b - pos < BufferSize THEN b - pos ELSE BufferSize
    BY <1>2, <1>3, <1>6, BufferAssumption
  <2> HIDE DEF b
  <2>2. pos + m <= b
    BY <2>1
  <2> QED BY <2>2 DEF b
<1>8. ASSUME FirstByte(c) \notin Seeks
      PROVE  /\ fpos'[c] = Len(seen'[c])
             /\ Len(seen'[c]) <= Offset[n]
             /\ \A j \in 1 .. n : \A k \in 1 .. Len(commands[j]) :
                   Offset[j - 1] + k <= Len(seen'[c]) => seen'[c][Offset[j - 1] + k] = commands[j][k]
  <2>1. Len(old) = pos /\ Covers(c)
    BY <1>1, <1>8 DEF AnswersInv, AnswerInv, old, pos
  <2>2. Len(old \o chunk) = pos + m
    <3>1. Len(old \o chunk) = Len(old) + Len(chunk)
      BY <1>2, ConcatProperties
    <3> QED BY <2>1, <3>1 DEF m
  <2>3. ASSUME NEW j \in 1 .. n, NEW k \in 1 .. Len(commands[j]), Offset[j - 1] + k <= pos + m
        PROVE  (old \o chunk)[Offset[j - 1] + k] = commands[j][k]
    <3> DEFINE p == Offset[j - 1] + k
    <3>1. /\ j - 1 \in 0 .. n /\ j \in 0 .. n /\ Len(commands[j]) \in Nat
          /\ Offset[j] = Offset[j - 1] + Len(commands[j])
      BY <1>4 DEF OffsetOK, n
    <3>2. Offset[j - 1] \in Nat /\ k \in Nat \ {0} /\ k <= Len(commands[j])
      BY <1>4, <3>1 DEF OffsetOK, n
    <3>3. p \in Nat /\ Offset[j - 1] < p /\ p <= Offset[j] /\ p >= 1
      BY <3>1, <3>2
    <3>4. CASE p <= pos
      <4>1. p \in 1 .. Len(old)
        BY <1>2, <2>1, <3>3, <3>4
      <4>2. (old \o chunk)[p] = old[p]
        BY <1>2, <4>1
      <4>3. old[p] = commands[j][k]
        BY <2>1, <3>4 DEF Covers, old, n
      <4> QED BY <4>2, <4>3
    <3>5. CASE ~(p <= pos)
      <4>1. Offset[i - 1] < p /\ p <= Offset[i]
        <5> DEFINE a == Offset[i - 1]
                   b == Offset[i]
        <5>1. a \in Nat /\ b \in Nat /\ pos \in Nat /\ m \in Nat /\ a <= pos /\ pos + m <= b
          BY <1>2, <1>3, <1>6, <1>7
        <5> HIDE DEF a, b, p
        <5>2. p \in Nat /\ p <= pos + m /\ ~(p <= pos)
          BY <2>3, <3>3, <3>5 DEF p
        <5>3. a < p /\ p <= b
          BY <5>1, <5>2
        <5> QED BY <5>3 DEF a, b
      <4>2. i = j
        BY <1>2, <3>3, <4>1, OnePlace DEF n
      <4> DEFINE q == p - pos
      <4>3. q \in 1 .. m /\ p = Len(old) + q /\ pos - Offset[i - 1] + q = k
        <5>1. p \in Nat /\ p <= pos + m /\ ~(p <= pos) /\ pos \in Nat /\ m \in Nat
          BY <1>2, <2>3, <3>3, <3>5
        <5>2. q \in 1 .. m /\ p = pos + q
          BY <5>1
        <5>3. pos - Offset[j - 1] + q = k
          <6> DEFINE a == Offset[j - 1]
          <6>1. a \in Nat /\ k \in Nat /\ pos \in Nat /\ q = (a + k) - pos
            BY <1>2, <3>2
          <6> HIDE DEF a, q
          <6>2. pos - a + q = k
            BY <6>1
          <6> QED BY <6>2 DEF a
        <5> QED BY <2>1, <4>2, <5>2, <5>3
      <4> HIDE DEF q, p
      <4>4. (old \o chunk)[Len(old) + q] = chunk[q]
        BY <1>2, <4>3 DEF m
      <4>5. chunk[q] = commands[i][k]
        BY <1>3, <4>3
      <4> QED BY <4>2, <4>3, <4>4, <4>5 DEF p
    <3> QED BY <3>4, <3>5
  <2>4. pos + m <= Offset[n]
    BY <1>2, <1>6, <1>7
  <2> QED BY <1>5, <2>2, <2>3, <2>4
<1>9. ASSUME NEW d \in Conn PROVE AnswerInv(d)'
  <2>1. CASE d = c
    <3>1. cpc'[c] = "echo" /\ (FirstByte(c))' = FirstByte(c) /\ commands' = commands
      BY <1>1 DEF FirstByte
    <3> QED BY <1>4, <1>8, <2>1, <3>1 DEF AnswerInv, Covers, Early, n
  <2>2. CASE d # c
    <3>1. cpc'[d] = cpc[d] /\ request'[d] = request[d] /\ fpos'[d] = fpos[d] /\ seen'[d] = seen[d]
      BY <1>1, <1>2, <2>2
    <3> QED BY <1>1, <3>1, AnswerUntouched DEF AnswersInv
  <2> QED BY <2>1, <2>2
<1> QED BY <1>9 DEF AnswersInv

LEMMA StepKeepsAnswers ==
    ASSUME FewClients, EachItsOwn, DataInv, ControlInv, RoomInv, PacketInv, AnswersInv,
           [SockNext]_sockVars
    PROVE  AnswersInv'
<1>1. cpc \in [Conn -> Phase] /\ \A c \in Conn : AnswerInv(c)
  BY DEF ControlInv, ListInv, AnswersInv
<1>2. CASE Quiet
  <2>1. UNCHANGED <<commands, request, fpos, seen>>
    BY <1>2 DEF Quiet, logVars, recvVars, echoVars
  <2>2. ASSUME NEW d \in Conn
        PROVE  /\ cpc'[d] \in Early => cpc[d] \in Early
               /\ cpc'[d] \in {"echo", "complete"} => cpc'[d] = cpc[d]
    BY <1>1, <1>2 DEF Quiet, Moves, Early
  <2> QED BY <1>1, <2>1, <2>2, AnswerUntouched DEF AnswersInv
<1>3. CASE \E how : Exit(how)
  <2>1. \A c \in Conn : /\ cpc'[c] \in {"unused", "dropped"}
                        /\ fpos'[c] = 0 /\ seen'[c] = <<>>
    BY <1>3 DEF Exit, None
  <2> QED BY <2>1 DEF AnswersInv, AnswerInv
<1>4. ASSUME NEW c \in Conn, Connect(c) \/ Recv(c) \/ ThreadReturn(c) PROVE AnswersInv'
  <2>1. /\ UNCHANGED <<commands, fpos>>
        /\ \A d \in Conn \ {c} : cpc'[d] = cpc[d] /\ request'[d] = request[d] /\ seen'[d] = seen[d]
    BY <1>1, <1>4 DEF Connect, Recv, Receive, ThreadReturn, logVars, echoVars, recvVars, DataInv
  <2>2. \/ cpc[c] \in Early /\ cpc'[c] \in Early /\ seen'[c] = seen[c]
        \/ cpc'[c] = "returned"
    BY <1>1, <1>4 DEF Connect, Recv, ThreadReturn, Active, Early, echoVars
  <2>3. ASSUME NEW d \in Conn PROVE AnswerInv(d)'
    <3>1. CASE d # c
      BY <1>1, <2>1, <3>1, AnswerUntouched
    <3>2. CASE d = c /\ cpc'[c] = "returned"
      BY <3>2 DEF AnswerInv, Early
    <3>3. CASE d = c /\ cpc[c] \in Early /\ cpc'[c] \in Early /\ seen'[c] = seen[c]
      BY <1>1, <2>1, <3>3, AnswerUntouched DEF Early
    <3> QED BY <2>2, <3>1, <3>2, <3>3
  <2> QED BY <2>3 DEF AnswersInv
<1>5. ASSUME NEW c \in Conn, SeekDone(c) PROVE AnswersInv'
  <2>1. /\ cpc[c] = "ioctl" /\ cpc' = [cpc EXCEPT ![c] = "echo"] /\ cpc'[c] = "echo"
        /\ UNCHANGED <<commands, request, seen>>
        /\ \A d \in Conn \ {c} : fpos'[d] = fpos[d]
    BY <1>1, <1>5 DEF SeekDone, Active, logVars, recvVars, DataInv
  <2>2. FirstByte(c) \in Seeks /\ (FirstByte(c))' = FirstByte(c)
    BY <2>1 DEF PacketInv, ClientInv, FirstByte
  <2>3. ASSUME NEW d \in Conn PROVE AnswerInv(d)'
    <3>1. CASE d # c
      <4>1. cpc'[d] = cpc[d]
        BY <1>1, <2>1, <3>1
      <4> QED BY <1>1, <2>1, <3>1, <4>1, AnswerUntouched
    <3>2. CASE d = c
      BY <2>1, <2>2, <3>2 DEF AnswerInv, Early
    <3> QED BY <3>1, <3>2
  <2> QED BY <2>3 DEF AnswersInv
<1>6. ASSUME NEW c \in Conn, EchoEnd(c) PROVE AnswersInv'
  <2>1. /\ cpc[c] = "echo" /\ cpc' = [cpc EXCEPT ![c] = "complete"] /\ cpc'[c] = "complete"
        /\ UNCHANGED <<commands, request, seen>> /\ ReadAt(fpos[c]) = <<>>
        /\ \A d \in Conn \ {c} : fpos'[d] = fpos[d]
    BY <1>1, <1>6 DEF EchoEnd, Active, logVars, DataInv
  <2>2. commands \in Seq(Seq(Byte)) /\ fpos[c] \in Nat
    BY DEF DataInv
  <2>3. OffsetOK /\ Offset' = Offset /\ (FirstByte(c))' = FirstByte(c)
    BY <2>1, <2>2, OffsetIsOK, OffsetUnchanged DEF FirstByte
  <2>4. Offset[Len(commands)] <= fpos[c]
    BY <2>1, <2>2, ReadAtValue
  <2>5. ASSUME FirstByte(c) \notin Seeks, NEW i \in 1 .. Len(commands)
        PROVE  Offset[i] <= Len(seen[c])
    <3>1. fpos[c] = Len(seen[c])
      BY <1>1, <2>1, <2>5 DEF AnswerInv
    <3>2. i \in 0 .. Len(commands) /\ Len(commands) \in i .. Len(commands)
          /\ Len(commands) \in 0 .. Len(commands)
      BY <2>3 DEF OffsetOK
    <3>3. Offset[i] <= Offset[Len(commands)]
      BY <2>2, <3>2, OffsetGrows
    <3>4. Offset[i] \in Nat /\ Offset[Len(commands)] \in Nat
      BY <2>3, <3>2 DEF OffsetOK
    <3> QED BY <2>2, <2>4, <3>1, <3>3, <3>4
  <2>6. Covers(c) => (Covers(c))'
    BY <2>1, <2>3 DEF Covers
  <2>7. ASSUME NEW d \in Conn PROVE AnswerInv(d)'
    <3>1. CASE d # c
      <4>1. cpc'[d] = cpc[d]
        BY <1>1, <2>1, <3>1
      <4> QED BY <1>1, <2>1, <3>1, <4>1, AnswerUntouched
    <3>2. CASE d = c
      <4>1. FirstByte(c) \notin Seeks => Covers(c)
        BY <1>1, <2>1 DEF AnswerInv
      <4> HIDE DEF Covers
      <4> QED BY <2>1, <2>3, <2>5, <2>6, <3>2, <4>1 DEF AnswerInv, Early
    <3> QED BY <3>1, <3>2
  <2> QED BY <2>7 DEF AnswersInv
<1> QED BY <1>2, <1>3, <1>4, <1>5, <1>6, StepKinds, WriteKeepsAnswers, EchoKeepsAnswers

(* AnswerCoversPacket for any number of clients, under the same conditions *)
(* as PacketStoredOnce, and until a packet with a zero is sent.            *)
THEOREM SocketAnswers ==
    FewClients /\ EachWhole /\ EachItsOwn /\ SockSpec => [](NoZeroYet => AnswerCoversPacket)
<1> SUFFICES ASSUME FewClients, EachWhole, EachItsOwn
             PROVE  SockSpec => [](NoZeroYet => AnswerCoversPacket)
  OBVIOUS
<1>1. ASSUME PacketInv, DataInv, AnswersInv
      PROVE  AnswerCoversPacket
  <2> SUFFICES ASSUME NEW c \in Conn, Ordinary(c), cpc[c] = "complete",
                      NEW i \in StoredAt(c), NEW j \in 1 .. i
               PROVE  /\ Len(seen[c]) >= Offset[j]
                      /\ SubSeq(seen[c], Offset[j - 1] + 1, Offset[j]) = commands[j]
    BY DEF AnswerCoversPacket
  <2>1. /\ request[c] \in Segments[c] /\ commands \in Seq(Seq(Byte)) /\ seen[c] \in Seq(Byte)
        /\ i \in 1 .. Len(commands) /\ commands[i] = Packet(c)
    BY <1>1 DEF PacketInv, ClientInv, DataInv, StoredAt
  <2>2. Packet(c) # <<>> /\ Packet(c)[1] = FirstByte(c)
    BY <2>1, JoinedBegins DEF Packet, FirstByte
  <2>3. FirstByte(c) \notin Seeks
    <3>1. Packet(c) \in Seq(Byte)
      BY <2>1
    <3>2. Head(Packet(c)) = Packet(c)[1]
      BY <2>2, <3>1
    <3> QED BY <2>2, <3>2 DEF Ordinary, Seeks
  <2>4. Covers(c) /\ Offset[i] <= Len(seen[c])
    BY <1>1, <2>1, <2>2, <2>3 DEF AnswersInv, AnswerInv
  <2>5. OffsetOK
    BY <2>1, OffsetIsOK
  <2>6. /\ j \in 1 .. Len(commands) /\ j \in 0 .. Len(commands) /\ i \in j .. Len(commands)
        /\ i \in 0 .. Len(commands)
    <3> DEFINE n == Len(commands)
    <3>1. n \in Nat /\ i \in 1 .. n
      BY <2>1, <2>5 DEF OffsetOK
    <3> HIDE DEF n
    <3>2. j \in 1 .. n /\ j \in 0 .. n /\ i \in j .. n /\ i \in 0 .. n
      BY <3>1
    <3> QED BY <3>2 DEF n
  <2> DEFINE a == Offset[j - 1]
             b == Offset[j]
             n == Len(commands[j])
             s == seen[c]
  <2>7. a \in Nat /\ b \in Nat /\ n \in Nat /\ b = a + n /\ commands[j] \in Seq(Byte)
    BY <2>5, <2>6 DEF OffsetOK
  <2>8. b <= Len(s)
    <3>1. Offset[j] <= Offset[i] /\ Offset[i] \in Nat
      BY <2>1, <2>5, <2>6, OffsetGrows DEF OffsetOK
    <3>2. Len(seen[c]) \in Nat
      BY <2>1
    <3> QED BY <2>4, <2>7, <3>1, <3>2
  <2>9. \A k \in 1 .. n : a + k <= Len(s) => s[a + k] = commands[j][k]
    BY <2>4, <2>6 DEF Covers
  <2>10. s \in Seq(Byte) /\ Len(s) \in Nat
    BY <2>1
  <2> HIDE DEF a, b, n, s
  <2>11. \A k \in a + 1 .. b : s[k] \in Byte
    <3>1. \A k \in a + 1 .. b : k \in 1 .. Len(s)
      BY <2>7, <2>8, <2>10
    <3> QED BY <2>10, <3>1
  <2>12. a + 1 \in Int /\ b \in Int /\ b - (a + 1) + 1 = n /\ (a + 1 <= b => b - (a + 1) + 1 = n)
         /\ (~(a + 1 <= b) => n = 0)
    BY <2>7
  <2>13. /\ SubSeq(s, a + 1, b) \in Seq(Byte)
         /\ Len(SubSeq(s, a + 1, b)) = n
         /\ \A k \in 1 .. n : SubSeq(s, a + 1, b)[k] = s[a + 1 + k - 1]
    BY <2>11, <2>12, SubSeqProperties
  <2>14. \A k \in 1 .. n : SubSeq(s, a + 1, b)[k] = commands[j][k]
    <3> SUFFICES ASSUME NEW k \in 1 .. n PROVE SubSeq(s, a + 1, b)[k] = commands[j][k]
      OBVIOUS
    <3>1. a + 1 + k - 1 = a + k /\ a + k <= Len(s)
      BY <2>7, <2>8, <2>10
    <3> QED BY <2>9, <2>13, <3>1
  <2>15. SubSeq(s, a + 1, b) = commands[j]
    BY <2>7, <2>13, <2>14, SeqEqual DEF n
  <2>16. Len(s) >= b
    BY <2>7, <2>8, <2>10
  <2> QED BY <2>15, <2>16 DEF a, b, s
<1> DEFINE Inv == DataInv /\ ControlInv /\ RoomInv /\ (NoZeroYet => PacketInv /\ AnswersInv)
<1>2. SockInit => Inv
  BY DataInit, ControlInit, RoomInit, PacketInit, AnswersInit
<1>3. Inv /\ [SockNext]_sockVars => Inv'
  BY StepKeepsData, StepKeepsControl, StepKeepsRoom, StepKeepsPackets, StepKeepsAnswers,
     NoZeroBefore
<1> QED BY <1>1, <1>2, <1>3, PTL DEF SockSpec

-----------------------------------------------------------------------------
(* How often a byte occurs.                                                *)

(* A set that is mapped into another one without two elements meeting is   *)
(* no larger.                                                              *)
LEMMA NoLarger ==
    ASSUME NEW S, NEW T, IsFiniteSet(T), NEW f \in [S -> T],
           \A s1, s2 \in S : f[s1] = f[s2] => s1 = s2
    PROVE  IsFiniteSet(S) /\ Cardinality(S) <= Cardinality(T)
<1>1. f \in Injection(S, T)
  BY DEF Injection, IsInjective
<1> QED BY <1>1, FS_Injection

Places(b, bytes) == {i \in DOMAIN bytes : bytes[i] = b}

LEMMA PlacesFinite ==
    ASSUME NEW b, NEW s \in Seq(Byte)
    PROVE  /\ Places(b, s) = {i \in 1 .. Len(s) : s[i] = b}
           /\ IsFiniteSet(Places(b, s))
           /\ Occurrences(b, s) = Cardinality(Places(b, s))
           /\ Occurrences(b, s) \in Nat
<1>1. Places(b, s) \in SUBSET (1 .. Len(s)) /\ Len(s) \in Nat
  BY DEF Places
<1>2. IsFiniteSet(1 .. Len(s))
  BY <1>1, FS_Interval
<1>3. IsFiniteSet(Places(b, s))
  BY <1>1, <1>2, FS_Subset
<1> QED BY <1>3, FS_CardinalityType DEF Places, Occurrences

LEMMA OccurrencesEmpty == \A b : Occurrences(b, <<>>) = 0
BY FS_EmptySet DEF Occurrences

LEMMA OccurrencesPart ==
    ASSUME NEW b, NEW s \in Seq(Byte), NEW n \in 0 .. Len(s)
    PROVE  SubSeq(s, 1, n) \in Seq(Byte) /\ Occurrences(b, SubSeq(s, 1, n)) <= Occurrences(b, s)
<1> DEFINE r == SubSeq(s, 1, n)
<1>1. r \in Seq(Byte) /\ Len(r) = n /\ \A i \in 1 .. n : r[i] = s[i]
  OBVIOUS
<1> HIDE DEF r
<1>2. Places(b, r) \in SUBSET Places(b, s)
  <2>1. 1 .. n \subseteq 1 .. Len(s)
    OBVIOUS
  <2> QED BY <1>1, <2>1, PlacesFinite
<1>3. Cardinality(Places(b, r)) <= Cardinality(Places(b, s))
  BY <1>2, PlacesFinite, FS_Subset
<1> QED BY <1>1, <1>3, PlacesFinite DEF r

LEMMA OccurrencesConcat ==
    ASSUME NEW b, NEW s \in Seq(Byte), NEW t \in Seq(Byte)
    PROVE  Occurrences(b, s \o t) = Occurrences(b, s) + Occurrences(b, t)
<1> DEFINE u == s \o t
           low == Places(b, s)
           high == {i \in Places(b, u) : i > Len(s)}
<1>1. /\ u \in Seq(Byte) /\ Len(u) = Len(s) + Len(t) /\ Len(s) \in Nat /\ Len(t) \in Nat
      /\ \A i \in 1 .. Len(s) : u[i] = s[i]
      /\ \A i \in 1 .. Len(t) : u[Len(s) + i] = t[i]
  OBVIOUS
<1> HIDE DEF u
<1>2. /\ Places(b, s) = {i \in 1 .. Len(s) : s[i] = b} /\ IsFiniteSet(Places(b, s))
      /\ Places(b, t) = {i \in 1 .. Len(t) : t[i] = b} /\ IsFiniteSet(Places(b, t))
      /\ Places(b, u) = {i \in 1 .. Len(u) : u[i] = b} /\ IsFiniteSet(Places(b, u))
  BY <1>1, PlacesFinite
<1>3. low \cup high = Places(b, u) /\ low \cap high = {}
  <2>1. low = {i \in Places(b, u) : i <= Len(s)}
    BY <1>1, <1>2
  <2>2. Places(b, u) \subseteq Nat
    BY <1>2
  <2> QED BY <1>1, <2>1, <2>2
<1>4. IsFiniteSet(high) /\ Cardinality(high) = Cardinality(Places(b, t))
  <2> DEFINE up == [i \in Places(b, t) |-> Len(s) + i]
             down == [i \in high |-> i - Len(s)]
  <2>1. up \in [Places(b, t) -> high] /\ \A i, j \in Places(b, t) : up[i] = up[j] => i = j
    BY <1>1, <1>2
  <2>2. down \in [high -> Places(b, t)] /\ \A i, j \in high : down[i] = down[j] => i = j
    <3>1. ASSUME NEW i \in high PROVE i - Len(s) \in 1 .. Len(t) /\ Len(s) + (i - Len(s)) = i /\ u[i] = b
      BY <1>1, <1>2
    <3>2. \A i \in high : i - Len(s) \in Places(b, t)
      BY <1>1, <1>2, <3>1
    <3> HIDE DEF high
    <3> QED BY <1>1, <3>1, <3>2
  <2> HIDE DEF up, down
  <2>3. IsFiniteSet(high) /\ Cardinality(high) <= Cardinality(Places(b, t))
    BY <1>2, <2>2, NoLarger
  <2>4. Cardinality(Places(b, t)) <= Cardinality(high)
    BY <2>1, <2>3, NoLarger
  <2> QED BY <1>2, <2>3, <2>4, FS_CardinalityType
<1>5. Cardinality(Places(b, u)) = Cardinality(low) + Cardinality(high) - Cardinality(low \cap high)
  BY <1>2, <1>3, <1>4, FS_Union
<1>6. Cardinality(low \cap high) = 0
  BY <1>3, FS_EmptySet
<1> HIDE DEF low, high
<1>7. Cardinality(low) \in Nat /\ Cardinality(high) \in Nat /\ low = Places(b, s)
  BY <1>2, <1>4, FS_CardinalityType DEF low
<1>8. Occurrences(b, u) = Cardinality(Places(b, u)) /\ Occurrences(b, s) = Cardinality(low)
      /\ Occurrences(b, t) = Cardinality(high)
  BY <1>1, <1>4, <1>7, PlacesFinite
<1> QED BY <1>5, <1>6, <1>7, <1>8 DEF u

(* strncat() copies no byte that was not sent, except for Stray.           *)
LEMMA CopiedOccurrences ==
    ASSUME NEW b, b # Stray, NEW seg \in Seq(Byte), NEW text \in Copied(seg)
    PROVE  Occurrences(b, text) <= Occurrences(b, seg)
<1> DEFINE m == NewlineIndex(seg) + 1
<1>1. m \in Nat
  BY NewlineIndexValue
<1>2. text = seg \/ text = Append(seg, Stray) \/ (m <= Len(seg) /\ text = SubSeq(seg, 1, m))
  BY DEF Copied
<1> HIDE DEF m
<1>3. CASE text = seg
  BY <1>3, PlacesFinite
<1>4. CASE text = Append(seg, Stray)
  <2>0. text \in Seq(Byte)
    BY <1>4, ByteAssumption
  <2>1. Places(b, text) \in SUBSET Places(b, seg)
    <3>1. Len(text) = Len(seg) + 1 /\ Len(seg) \in Nat /\ text[Len(seg) + 1] = Stray
          /\ \A i \in 1 .. Len(seg) : text[i] = seg[i]
      BY <1>4, ByteAssumption
    <3>2. ASSUME NEW i \in 1 .. Len(text), text[i] = b PROVE i \in 1 .. Len(seg) /\ seg[i] = b
      <4>1. i # Len(seg) + 1
        BY <3>1, <3>2
      <4> QED BY <3>1, <3>2, <4>1
    <3> QED BY <2>0, <3>2, PlacesFinite
  <2>2. Cardinality(Places(b, text)) <= Cardinality(Places(b, seg))
    BY <2>1, PlacesFinite, FS_Subset
  <2> QED BY <2>0, <2>2, PlacesFinite
<1>5. CASE m <= Len(seg) /\ text = SubSeq(seg, 1, m)
  <2>1. m \in 0 .. Len(seg)
    BY <1>1, <1>5
  <2> QED BY <1>5, <2>1, OccurrencesPart
<1> QED BY <1>2, <1>3, <1>4, <1>5

(* What recv() appends to the buffer holds no byte more often than it was  *)
(* sent, except for Stray.                                                 *)
LEMMA ReceivedOccurrences ==
    ASSUME NEW b, b # Stray,
           NEW text \in Seq(Byte), NEW seg \in Seq(Byte), NEW n \in Nat \ {0},
           NEW old \in Realloced(text, n), NEW new \in Appended(seg)
    PROVE  Occurrences(b, old \o new) <= Occurrences(b, text) + Occurrences(b, seg)
<1>1. old \in Seq(Byte) /\ new \in Seq(Byte)
  BY ReceivedType
<1>2. Occurrences(b, old) <= Occurrences(b, text)
  <2> DEFINE u == Usable(n)
  <2>1. u \in Nat
    BY UsableType
  <2>2. old = text \/ (~(Len(text) < u) /\ old = SubSeq(text, 1, u))
    BY DEF Realloced
  <2> HIDE DEF u
  <2>3. CASE old = text
    BY <2>3, PlacesFinite
  <2>4. CASE ~(Len(text) < u) /\ old = SubSeq(text, 1, u)
    <3>1. u \in 0 .. Len(text)
      BY <2>1, <2>4
    <3> QED BY <2>4, <3>1, OccurrencesPart
  <2> QED BY <2>2, <2>3, <2>4
<1>3. Occurrences(b, new) <= Occurrences(b, seg)
  <2>1. PICK copy \in Copied(seg) : /\ copy \in Seq(Byte)
                                    /\ \E k \in 0 .. Len(copy) : new = SubSeq(copy, 1, k)
    BY AppendedFront
  <2>2. Occurrences(b, new) <= Occurrences(b, copy)
    BY <2>1, OccurrencesPart
  <2>3. Occurrences(b, copy) <= Occurrences(b, seg)
    BY CopiedOccurrences
  <2>4. /\ Occurrences(b, new) \in Nat /\ Occurrences(b, copy) \in Nat
        /\ Occurrences(b, seg) \in Nat
    BY <1>1, <2>1, PlacesFinite
  <2> QED BY <2>2, <2>3, <2>4
<1>4. /\ Occurrences(b, old) \in Nat /\ Occurrences(b, text) \in Nat
      /\ Occurrences(b, new) \in Nat /\ Occurrences(b, seg) \in Nat
  BY <1>1, PlacesFinite
<1>5. Occurrences(b, old \o new) = Occurrences(b, old) + Occurrences(b, new)
  BY <1>1, OccurrencesConcat
<1> QED BY <1>2, <1>3, <1>4, <1>5

(* The places of byte b on the device that lie behind position pos.        *)
Unread(b, pos) ==
    {p \in (1 .. Len(commands)) \X (1 .. Offset[Len(commands)]) :
        /\ p[2] \in 1 .. Len(commands[p[1]])
        /\ commands[p[1]][p[2]] = b
        /\ pos < Offset[p[1] - 1] + p[2]}

LEMMA UnreadValue ==
    ASSUME commands \in Seq(Seq(Byte)), NEW b, NEW pos
    PROVE  /\ \A i \in 1 .. Len(commands) : \A k \in 1 .. Len(commands[i]) :
                 <<i, k>> \in Unread(b, pos) <=> /\ commands[i][k] = b
                                                 /\ pos < Offset[i - 1] + k
           /\ \A p \in Unread(b, pos) : /\ p[1] \in 1 .. Len(commands)
                                        /\ p[2] \in 1 .. Len(commands[p[1]])
                                        /\ p = <<p[1], p[2]>>
           /\ IsFiniteSet(Unread(b, pos)) /\ Cardinality(Unread(b, pos)) \in Nat
<1> DEFINE n == Len(commands)
<1>1. OffsetOK /\ n \in Nat
  BY OffsetIsOK
<1>2. ASSUME NEW i \in 1 .. n, NEW k \in 1 .. Len(commands[i]) PROVE k \in 1 .. Offset[n]
  <2>1. /\ i \in 0 .. n /\ n \in i .. n /\ i - 1 \in 0 .. n /\ n \in 0 .. n
    BY <1>1
  <2>2. Offset[i] <= Offset[n] /\ Offset[i] = Offset[i - 1] + Len(commands[i])
    BY <1>1, <2>1, OffsetGrows DEF OffsetOK
  <2>3. Offset[i - 1] \in Nat /\ Offset[n] \in Nat /\ Offset[i] \in Nat /\ Len(commands[i]) \in Nat
    BY <1>1, <2>1 DEF OffsetOK
  <2> QED BY <2>2, <2>3
<1>3. IsFiniteSet((1 .. n) \X (1 .. Offset[n]))
  <2>1. Offset[n] \in Nat
    BY <1>1 DEF OffsetOK
  <2>2. IsFiniteSet(1 .. n) /\ IsFiniteSet(1 .. Offset[n])
    BY <1>1, <2>1, FS_Interval
  <2> QED BY <2>2, FS_Product
<1>4. IsFiniteSet(Unread(b, pos))
  BY <1>3, FS_Subset DEF Unread
<1>5. ASSUME NEW p \in Unread(b, pos)
      PROVE  p[1] \in 1 .. n /\ p[2] \in 1 .. Len(commands[p[1]]) /\ p = <<p[1], p[2]>>
  BY DEF Unread
<1>6. ASSUME NEW i \in 1 .. n, NEW k \in 1 .. Len(commands[i])
      PROVE  <<i, k>> \in Unread(b, pos) <=> commands[i][k] = b /\ pos < Offset[i - 1] + k
  BY <1>2 DEF Unread
<1> QED BY <1>4, <1>5, <1>6, FS_CardinalityType

(* No more is unread from a position on than from the start.               *)
LEMMA UnreadShrinks ==
    ASSUME commands \in Seq(Seq(Byte)), NEW b, NEW pos \in Nat
    PROVE  Cardinality(Unread(b, pos)) <= Cardinality(Unread(b, 0))
<1>1. OffsetOK
  BY OffsetIsOK
<1>2. Unread(b, pos) \in SUBSET Unread(b, 0)
  <2> SUFFICES ASSUME NEW p \in Unread(b, pos) PROVE p \in Unread(b, 0)
    OBVIOUS
  <2> DEFINE i == p[1]
             k == p[2]
  <2>1. i \in 1 .. Len(commands) /\ k \in 1 .. Len(commands[i]) /\ p = <<i, k>>
    BY UnreadValue
  <2> HIDE DEF i, k
  <2>2. commands[i][k] = b
    BY <2>1, UnreadValue
  <2>3. 0 < Offset[i - 1] + k
    <3>1. i - 1 \in 0 .. Len(commands) /\ Len(commands[i]) \in Nat
      BY <1>1, <2>1 DEF OffsetOK
    <3>2. Offset[i - 1] \in Nat
      BY <1>1, <3>1 DEF OffsetOK
    <3> QED BY <2>1, <3>1, <3>2
  <2> QED BY <2>1, <2>2, <2>3, UnreadValue
<1> QED BY <1>2, UnreadValue, FS_Subset

(* What a read() returns is unread before it and not after it.             *)
LEMMA ReadTakes ==
    ASSUME commands \in Seq(Seq(Byte)), NEW b, NEW pos \in Nat
    PROVE  Occurrences(b, ReadAt(pos)) + Cardinality(Unread(b, pos + Len(ReadAt(pos))))
             <= Cardinality(Unread(b, pos))
<1> DEFINE chunk == ReadAt(pos)
           end   == pos + Len(chunk)
           taken == Unread(b, pos) \ Unread(b, end)
<1>1. OffsetOK /\ chunk \in Seq(Byte) /\ Len(chunk) \in Nat
  BY OffsetIsOK, ReadAtValue
<1>2. Unread(b, end) \in SUBSET Unread(b, pos)
  <2> SUFFICES ASSUME NEW p \in Unread(b, end) PROVE p \in Unread(b, pos)
    OBVIOUS
  <2> DEFINE i == p[1]
             k == p[2]
  <2>1. i \in 1 .. Len(commands) /\ k \in 1 .. Len(commands[i]) /\ p = <<i, k>>
    BY UnreadValue
  <2> HIDE DEF i, k
  <2>2. commands[i][k] = b /\ end < Offset[i - 1] + k
    BY <2>1, UnreadValue
  <2>3. i - 1 \in 0 .. Len(commands) /\ Len(commands[i]) \in Nat
    BY <1>1, <2>1 DEF OffsetOK
  <2>4. Offset[i - 1] \in Nat /\ k \in Nat
    BY <1>1, <2>1, <2>3 DEF OffsetOK
  <2> HIDE DEF chunk
  <2>5. pos < Offset[i - 1] + k
    BY <1>1, <2>2, <2>4
  <2> QED BY <2>1, <2>2, <2>5, UnreadValue
<1>3. Occurrences(b, chunk) <= Cardinality(taken)
  <2>1. CASE chunk = <<>>
    <3>1. Occurrences(b, chunk) = 0
      BY <2>1, OccurrencesEmpty
    <3>2. IsFiniteSet(taken)
      BY UnreadValue, FS_Difference
    <3> QED BY <3>1, <3>2, FS_CardinalityType
  <2>2. CASE chunk # <<>>
    <3>1. PICK i \in 1 .. Len(commands) :
            /\ Offset[i - 1] <= pos
            /\ \A k \in 1 .. Len(chunk) : /\ pos - Offset[i - 1] + k \in 1 .. Len(commands[i])
                                          /\ chunk[k] = commands[i][pos - Offset[i - 1] + k]
      BY <2>2, ReadAtValue
    <3> DEFINE skip == pos - Offset[i - 1]
    <3>2. Offset[i - 1] \in Nat /\ skip \in Nat /\ Offset[i - 1] + skip = pos
      <4>1. i - 1 \in 0 .. Len(commands)
        BY <1>1 DEF OffsetOK
      <4>2. Offset[i - 1] \in Nat
        BY <1>1, <4>1 DEF OffsetOK
      <4> QED BY <3>1, <4>2
    <3> HIDE DEF chunk
    <3>3. \A k \in 1 .. Len(chunk) : skip + k \in 1 .. Len(commands[i]) /\ chunk[k] = commands[i][skip + k]
      BY <3>1
    <3> HIDE DEF skip
    <3>4. Places(b, chunk) = {k \in 1 .. Len(chunk) : chunk[k] = b}
      BY <1>1, PlacesFinite
    <3> DEFINE at == [k \in Places(b, chunk) |-> <<i, skip + k>>]
    <3>5. ASSUME NEW k \in Places(b, chunk) PROVE <<i, skip + k>> \in taken
      <4>1. k \in 1 .. Len(chunk) /\ k \in Nat \ {0} /\ chunk[k] = b
        BY <1>1, <3>4
      <4>2. skip + k \in 1 .. Len(commands[i]) /\ commands[i][skip + k] = b
        BY <3>3, <4>1
      <4>3. pos < Offset[i - 1] + (skip + k) /\ ~(end < Offset[i - 1] + (skip + k))
        BY <1>1, <3>2, <4>1
      <4> HIDE DEF end
      <4> QED BY <4>2, <4>3, UnreadValue
    <3> HIDE DEF taken
    <3>6. at \in [Places(b, chunk) -> taken]
      BY <3>5
    <3>7. \A k1, k2 \in Places(b, chunk) : at[k1] = at[k2] => k1 = k2
      BY <1>1, <3>2, <3>4
    <3> HIDE DEF at
    <3>8. IsFiniteSet(taken)
      BY UnreadValue, FS_Difference DEF taken
    <3>9. Cardinality(Places(b, chunk)) <= Cardinality(taken)
      BY <3>6, <3>7, <3>8, NoLarger
    <3> QED BY <1>1, <3>9, PlacesFinite
  <2> QED BY <2>1, <2>2
<1> HIDE DEF chunk, end
<1>4. Cardinality(taken) = Cardinality(Unread(b, pos)) - Cardinality(Unread(b, end))
  <2>1. Unread(b, pos) \cap Unread(b, end) = Unread(b, end)
    BY <1>2
  <2>2. Cardinality(taken) = Cardinality(Unread(b, pos)) - Cardinality(Unread(b, pos) \cap Unread(b, end))
    BY UnreadValue, FS_Difference
  <2> QED BY <2>1, <2>2
<1>5. /\ Cardinality(Unread(b, pos)) \in Nat /\ Cardinality(Unread(b, end)) \in Nat
      /\ Occurrences(b, chunk) \in Nat
  BY <1>1, UnreadValue, PlacesFinite
<1> HIDE DEF taken
<1> QED BY <1>3, <1>4, <1>5 DEF chunk, end

LEMMA UnreadUnchanged == UNCHANGED commands => \A b, pos : Unread(b, pos)' = Unread(b, pos)
BY OffsetUnchanged DEF Unread

(* A new command, and the oldest of a full device dropped: the others stay *)
(* in order and none is farther from the start than before.                *)
LEMMA OffsetShifted ==
    ASSUME commands \in Seq(Seq(Byte)), NEW t \in Seq(Byte),
           commands' = Append(Kept(commands), t)
    PROVE  \E n \in Nat, d \in Nat :
              /\ Len(commands) = n + d /\ Len(commands') = n + 1
              /\ \A i \in 1 .. n : commands'[i] = commands[i + d]
              /\ commands'[n + 1] = t
              /\ \A i \in 0 .. n : Offset'[i] <= Offset[i + d]
<1>1. PICK n \in Nat, d \in Nat :
         /\ Len(commands) = n + d /\ Len(commands') = n + 1
         /\ \A i \in 1 .. n : commands'[i] = commands[i + d]
         /\ commands'[n + 1] = t
         /\ commands' \in Seq(Seq(Byte))
  <2>1. CASE Len(commands) = Capacity
    <3>1. commands # <<>> /\ Kept(commands) = Tail(commands) /\ Len(commands) \in Nat \ {0}
      BY <2>1, CapacityAssumption DEF Kept
    <3>2. /\ Tail(commands) \in Seq(Seq(Byte)) /\ Len(Tail(commands)) = Len(commands) - 1
          /\ \A i \in 1 .. Len(commands) - 1 : Tail(commands)[i] = commands[i + 1]
      BY <3>1, HeadTailProperties
    <3> DEFINE rest == Tail(commands)
    <3> HIDE DEF rest
    <3>3. commands' = Append(rest, t) /\ rest \in Seq(Seq(Byte)) /\ Len(rest) = Len(commands) - 1
          /\ \A i \in 1 .. Len(commands) - 1 : rest[i] = commands[i + 1]
      BY <3>1, <3>2 DEF rest
    <3>4. /\ Len(commands') = Len(rest) + 1 /\ commands' \in Seq(Seq(Byte))
          /\ \A i \in 1 .. Len(rest) : commands'[i] = rest[i]
          /\ commands'[Len(rest) + 1] = t
      BY <3>3
    <3> WITNESS Len(commands) - 1 \in Nat, 1 \in Nat
    <3> QED BY <3>1, <3>3, <3>4
  <2>2. CASE Len(commands) # Capacity
    <3>1. commands' = Append(commands, t) /\ Len(commands) \in Nat
      BY <2>2 DEF Kept
    <3> WITNESS Len(commands) \in Nat, 0 \in Nat
    <3> QED BY <3>1
  <2> QED BY <2>1, <2>2
<1>2. OffsetOK /\ OffsetOK'
  BY <1>1, OffsetIsOK, OffsetIsOKPrime
<1> DEFINE S == {i \in 0 .. n : Offset'[i] <= Offset[i + d]}
<1>3. 0 \in S
  <2>1. 0 + d = d /\ d \in 0 .. Len(commands)
    BY <1>1
  <2>2. Offset'[0] = 0 /\ Offset[d] \in Nat
    BY <1>2, <2>1 DEF OffsetOK
  <2> QED BY <2>1, <2>2
<1>4. ASSUME NEW i \in 0 .. n, i \in S, i + 1 <= n PROVE i + 1 \in S
  <2>1. /\ i + 1 \in 1 .. n /\ i + 1 \in 1 .. Len(commands') /\ (i + 1) - 1 = i
        /\ (i + 1) + d \in 1 .. Len(commands) /\ ((i + 1) + d) - 1 = i + d
        /\ i \in 0 .. Len(commands') /\ i + d \in 0 .. Len(commands)
    BY <1>1, <1>4
  <2>2. Offset'[i + 1] = Offset'[i] + Len(commands'[i + 1]) /\ Offset'[i] \in Nat
    BY <1>2, <2>1 DEF OffsetOK
  <2>3. /\ Offset[(i + 1) + d] = Offset[i + d] + Len(commands[(i + 1) + d]) /\ Offset[i + d] \in Nat
        /\ Len(commands[(i + 1) + d]) \in Nat
    BY <1>2, <2>1 DEF OffsetOK
  <2>4. commands'[i + 1] = commands[(i + 1) + d]
    BY <1>1, <2>1
  <2>5. Offset'[i] <= Offset[i + d]
    BY <1>4
  <2>6. Offset'[i + 1] <= Offset[(i + 1) + d]
    BY <2>2, <2>3, <2>4, <2>5
  <2> QED BY <2>1, <2>6
<1> HIDE DEF S
<1>5. 0 .. n \subseteq S
  BY <1>1, <1>3, <1>4, UpToInduction
<1>6. \A i \in 0 .. n : Offset'[i] <= Offset[i + d]
  BY <1>5 DEF S
<1> QED BY <1>1, <1>6

UnreadCounted == \A b, pos : Cardinality(Unread(b, pos)) \in Nat

LEMMA UnreadIsCounted == commands \in Seq(Seq(Byte)) => UnreadCounted
BY UnreadValue DEF UnreadCounted

LEMMA UnreadIsCountedPrime == (commands \in Seq(Seq(Byte)))' => UnreadCounted'
BY UnreadIsCounted, PTL

(* A new command adds its own bytes to what is unread, whatever is dropped *)
(* for it.                                                                 *)
LEMMA UnreadExtended ==
    ASSUME commands \in Seq(Seq(Byte)), NEW t \in Seq(Byte),
           commands' = Append(Kept(commands), t), NEW b, NEW pos \in Nat
    PROVE  Cardinality(Unread(b, pos)') <= Cardinality(Unread(b, pos)) + Occurrences(b, t)
<1>1. PICK n \in Nat, d \in Nat :
         /\ Len(commands) = n + d /\ Len(commands') = n + 1
         /\ \A i \in 1 .. n : commands'[i] = commands[i + d]
         /\ commands'[n + 1] = t
         /\ \A i \in 0 .. n : Offset'[i] <= Offset[i + d]
  BY OffsetShifted
<1> DEFINE new   == Unread(b, pos)'
           kept  == {p \in new : p[1] # n + 1}
           added == {p \in new : p[1] = n + 1}
<1>2. OffsetOK /\ OffsetOK'
  <2>1. commands' \in Seq(Seq(Byte))
    <3>1. Kept(commands) \in Seq(Seq(Byte))
      BY CapacityAssumption, HeadTailProperties DEF Kept
    <3> QED BY <3>1
  <2> QED BY <2>1, OffsetIsOK, OffsetIsOKPrime
<1>3. ASSUME NEW p \in new
      PROVE  /\ p[1] \in 1 .. n + 1 /\ p[2] \in 1 .. Len(commands'[p[1]]) /\ p = <<p[1], p[2]>>
             /\ commands'[p[1]][p[2]] = b /\ pos < Offset'[p[1] - 1] + p[2]
  BY <1>1 DEF Unread
<1> HIDE DEF new
<1>4. IsFiniteSet(kept) /\ Cardinality(kept) <= Cardinality(Unread(b, pos))
  <2> DEFINE f == [p \in kept |-> <<p[1] + d, p[2]>>]
  <2>1. ASSUME NEW p \in kept PROVE p[1] \in 1 .. n /\ <<p[1] + d, p[2]>> \in Unread(b, pos)
    <3> DEFINE i == p[1]
               k == p[2]
    <3>1. /\ i \in 1 .. n + 1 /\ i # n + 1 /\ k \in 1 .. Len(commands'[i])
          /\ commands'[i][k] = b /\ pos < Offset'[i - 1] + k
      BY <1>3
    <3> HIDE DEF i, k
    <3>2. /\ i \in 1 .. n /\ i - 1 \in 0 .. n /\ i + d \in 1 .. Len(commands)
          /\ (i + d) - 1 = (i - 1) + d /\ (i - 1) + d \in 0 .. Len(commands)
          /\ i - 1 \in 0 .. Len(commands')
      BY <1>1, <3>1
    <3>3. commands'[i] = commands[i + d] /\ Offset'[i - 1] <= Offset[(i - 1) + d]
      BY <1>1, <3>2
    <3>4. Offset'[i - 1] \in Nat /\ Offset[(i - 1) + d] \in Nat /\ Len(commands[i + d]) \in Nat
      BY <1>2, <3>2 DEF OffsetOK
    <3>5. k \in 1 .. Len(commands[i + d]) /\ commands[i + d][k] = b /\ k \in Nat
      BY <3>1, <3>3, <3>4
    <3>6. pos < Offset[(i + d) - 1] + k
      <4> DEFINE before == Offset'[i - 1]
                 after  == Offset[(i - 1) + d]
      <4>1. before \in Nat /\ after \in Nat /\ k \in Nat /\ before <= after /\ pos < before + k
        BY <3>1, <3>3, <3>4, <3>5
      <4>2. Offset[(i + d) - 1] = after
        BY <3>2
      <4> HIDE DEF before, after
      <4>3. pos < after + k
        BY <4>1
      <4> QED BY <4>2, <4>3
    <3>7. <<i + d, k>> \in Unread(b, pos)
      BY <3>2, <3>5, <3>6, UnreadValue
    <3> QED BY <3>2, <3>7 DEF i, k
  <2>2. f \in [kept -> Unread(b, pos)]
    BY <2>1
  <2>3. ASSUME NEW p \in kept, NEW q \in kept, f[p] = f[q] PROVE p = q
    <3>1. p[1] + d = q[1] + d /\ p[2] = q[2]
      BY <2>3
    <3>2. p[1] \in 1 .. n /\ q[1] \in 1 .. n
      BY <2>1, Zenon
    <3> DEFINE i == p[1]
               j == q[1]
    <3> HIDE DEF i, j
    <3>3. i = j
      <4>1. i \in 1 .. n /\ j \in 1 .. n /\ i + d = j + d
        BY <3>1, <3>2 DEF i, j
      <4> QED BY <1>1, <4>1
    <3>4. p = <<p[1], p[2]>> /\ q = <<q[1], q[2]>>
      BY <1>3
    <3> QED BY <3>1, <3>3, <3>4 DEF i, j
  <2> HIDE DEF f, kept
  <2> QED BY <2>2, <2>3, UnreadValue, NoLarger
<1>5. IsFiniteSet(added) /\ Cardinality(added) <= Occurrences(b, t)
  <2> DEFINE f == [p \in added |-> p[2]]
  <2>1. f \in [added -> Places(b, t)]
    <3>1. ASSUME NEW p \in added PROVE p[2] \in Places(b, t)
      <4>1. p[2] \in 1 .. Len(t) /\ t[p[2]] = b
        BY <1>1, <1>3
      <4> QED BY <4>1, PlacesFinite
    <3> QED BY <3>1
  <2>2. ASSUME NEW p \in added, NEW q \in added, f[p] = f[q] PROVE p = q
    <3>1. p[1] = q[1] /\ p[2] = q[2]
      BY <2>2
    <3>2. p = <<p[1], p[2]>> /\ q = <<q[1], q[2]>>
      BY <1>3
    <3> QED BY <3>1, <3>2
  <2> HIDE DEF f, added
  <2>3. IsFiniteSet(added) /\ Cardinality(added) <= Cardinality(Places(b, t))
    BY <2>1, <2>2, PlacesFinite, NoLarger
  <2> QED BY <2>3, PlacesFinite
<1>6. kept \cup added = new /\ kept \cap added = {}
  OBVIOUS
<1> HIDE DEF kept, added
<1>7. Cardinality(new) = Cardinality(kept) + Cardinality(added) - 0
  <2>1. Cardinality(new) = Cardinality(kept) + Cardinality(added) - Cardinality(kept \cap added)
    BY <1>4, <1>5, <1>6, FS_Union
  <2>2. Cardinality(kept \cap added) = 0
    BY <1>6, FS_EmptySet
  <2> QED BY <2>1, <2>2
<1>8. /\ Cardinality(kept) \in Nat /\ Cardinality(added) \in Nat
      /\ Cardinality(Unread(b, pos)) \in Nat /\ Occurrences(b, t) \in Nat
  BY <1>4, <1>5, FS_CardinalityType, UnreadValue, PlacesFinite
<1>9. Cardinality(new) <= Cardinality(Unread(b, pos)) + Occurrences(b, t)
  BY <1>4, <1>5, <1>7, <1>8
<1> QED BY <1>9 DEF new

(* A write() adds what it is given to what is unread or incomplete.        *)
LEMMA WriteAdds ==
    ASSUME DataInv, NEW t \in Seq(Byte), Write(t), NEW b, NEW pos \in Nat
    PROVE  Cardinality(Unread(b, pos)') + Occurrences(b, partial')
             <= Cardinality(Unread(b, pos)) + Occurrences(b, partial) + Occurrences(b, t)
<1>1. commands \in Seq(Seq(Byte)) /\ partial \in Seq(Byte) /\ partial \o t \in Seq(Byte)
  BY DEF DataInv
<1>2. Occurrences(b, partial \o t) = Occurrences(b, partial) + Occurrences(b, t)
  BY <1>1, OccurrencesConcat
<1>3. /\ Occurrences(b, partial) \in Nat /\ Occurrences(b, t) \in Nat
      /\ Cardinality(Unread(b, pos)) \in Nat
  BY <1>1, PlacesFinite, UnreadValue
<1>4. CASE HasNewline(t)
  <2>1. commands' = Append(Kept(commands), partial \o t) /\ partial' = <<>>
    BY <1>4 DEF Write
  <2>2. commands' \in Seq(Seq(Byte))
    BY WriteTypes
  <2>3. Cardinality(Unread(b, pos)') <= Cardinality(Unread(b, pos)) + Occurrences(b, partial \o t)
    BY <1>1, <2>1, UnreadExtended
  <2>4. Occurrences(b, partial') = 0
    BY <2>1, OccurrencesEmpty
  <2>5. Cardinality(Unread(b, pos)') \in Nat
    BY <2>2, UnreadIsCountedPrime DEF UnreadCounted
  <2> QED BY <1>2, <1>3, <2>3, <2>4, <2>5
<1>5. CASE ~HasNewline(t)
  <2>1. commands' = commands /\ partial' = partial \o t
    BY <1>5 DEF Write
  <2>2. Unread(b, pos)' = Unread(b, pos)
    BY <2>1, UnreadUnchanged
  <2> QED BY <1>2, <1>3, <2>1, <2>2
<1> QED BY <1>4, <1>5

-----------------------------------------------------------------------------
(* Nothing is read more often than it was sent.                            *)

(* The segments of a client, one taken from the front.                     *)
LEMMA FlattenOccurrences ==
    ASSUME NEW b, NEW s \in Seq(Seq(Byte))
    PROVE  /\ FlattenSeq(s) \in Seq(Byte)
           /\ s = <<>> => FlattenSeq(s) = <<>>
           /\ s # <<>> => Occurrences(b, FlattenSeq(s)) =
                             Occurrences(b, Head(s)) + Occurrences(b, FlattenSeq(Tail(s)))
<1>1. ASSUME NEW r \in Seq(Seq(Byte)), r = <<>> PROVE FlattenSeq(r) = <<>>
  BY <1>1 DEF FlattenSeq
<1>2. ASSUME NEW r \in Seq(Seq(Byte)), r # <<>>
      PROVE  \E f \in [1 .. Len(r) -> Seq(Byte)] :
                /\ f[1] = r[1]
                /\ \A i \in 2 .. Len(r) : f[i] = f[i - 1] \o r[i]
                /\ FlattenSeq(r) = f[Len(r)]
  <2> DEFINE T == Byte
  <2>1. r \in Seq(Seq(T)) /\ Len(r) # 0
    BY <1>2
  <2> HIDE DEF T
  <2>2. \E f \in [1 .. Len(r) -> Seq(T)] :
              /\ f[1] = r[1]
              /\ \A i \in 2 .. Len(r) : f[i] = f[i - 1] \o r[i]
              /\ FlattenSeq(r) = f[Len(r)]
    BY <2>1, FlattenValue
  <2> QED BY <2>2 DEF T
<1>3. CASE s = <<>>
  <2>1. FlattenSeq(s) = <<>>
    BY <1>1, <1>3
  <2>2. FlattenSeq(s) \in Seq(Byte)
    <3>1. <<>> \in Seq(Byte)
      OBVIOUS
    <3> QED BY <2>1, <3>1, Zenon
  <2> QED BY <1>3, <2>1, <2>2, Zenon
<1>4. CASE s # <<>>
  <2> DEFINE n == Len(s)
             r == Tail(s)
             Occ(t) == Occurrences(b, t)
  <2>1. PICK f \in [1 .. n -> Seq(Byte)] :
          f[1] = s[1] /\ (\A i \in 2 .. n : f[i] = f[i - 1] \o s[i]) /\ FlattenSeq(s) = f[n]
    BY <1>2, <1>4
  <2>2. /\ n \in Nat \ {0} /\ r \in Seq(Seq(Byte)) /\ Len(r) = n - 1 /\ Head(s) = s[1]
        /\ \A i \in 1 .. n : s[i] \in Seq(Byte)
        /\ \A i \in 1 .. n - 1 : r[i] = s[i + 1]
    BY <1>4, HeadTailProperties
  <2> HIDE DEF n, r
  <2>3. FlattenSeq(s) \in Seq(Byte)
    BY <2>1, <2>2
  <2>4. CASE n = 1
    <3>0. r = <<>>
      BY <2>2, <2>4
    <3>1. FlattenSeq(r) = <<>>
      BY <1>1, <2>2, <3>0
    <3>2. Occ(FlattenSeq(r)) = 0 /\ FlattenSeq(s) = Head(s) /\ Occ(Head(s)) \in Nat
      BY <2>1, <2>2, <2>4, <3>1, OccurrencesEmpty, PlacesFinite
    <3> QED BY <1>4, <2>3, <3>2 DEF r
  <2>5. CASE n # 1
    <3>1. PICK g \in [1 .. Len(r) -> Seq(Byte)] :
            /\ g[1] = r[1]
            /\ \A i \in 2 .. Len(r) : g[i] = g[i - 1] \o r[i]
            /\ FlattenSeq(r) = g[Len(r)]
      <4>1. r # <<>>
        BY <2>2, <2>5
      <4> QED BY <1>2, <2>2, <4>1
    <3> DEFINE S == {i \in 1 .. n - 1 : Occ(f[i + 1]) = Occ(s[1]) + Occ(g[i])}
    <3>2. 1 \in S
      <4>1. 1 \in 1 .. n - 1 /\ 2 \in 2 .. n /\ 2 - 1 = 1 /\ 1 + 1 = 2
        BY <2>2, <2>5
      <4>2. f[2] = s[1] \o s[2] /\ g[1] = s[2] /\ s[1] \in Seq(Byte) /\ s[2] \in Seq(Byte)
        <5>1. f[2] = f[2 - 1] \o s[2]
          BY <2>1, <4>1
        <5>2. r[1] = s[1 + 1]
          BY <2>2, <4>1
        <5>3. 1 \in 1 .. n /\ 2 \in 1 .. n
          BY <2>2, <4>1
        <5> QED BY <2>1, <2>2, <3>1, <4>1, <5>1, <5>2, <5>3
      <4>3. Occ(s[1] \o s[2]) = Occ(s[1]) + Occ(s[2])
        BY <4>2, OccurrencesConcat
      <4> QED BY <4>1, <4>2, <4>3
    <3>3. ASSUME NEW i \in 1 .. n - 1, i \in S, i + 1 <= n - 1 PROVE i + 1 \in S
      <4>1. /\ i \in 1 .. n - 1 /\ i + 1 \in 1 .. n - 1 /\ i + 1 \in 2 .. Len(r) /\ (i + 1) - 1 = i
            /\ (i + 1) + 1 \in 2 .. n /\ ((i + 1) + 1) - 1 = i + 1
            /\ i + 1 \in 1 .. n /\ (i + 1) + 1 \in 1 .. n /\ i \in 1 .. Len(r)
            /\ i + 1 \in 1 .. Len(r)
        BY <2>2, <3>3
      <4> DEFINE more == s[(i + 1) + 1]
      <4>2. f[(i + 1) + 1] = f[i + 1] \o more /\ f[i + 1] \in Seq(Byte) /\ more \in Seq(Byte)
        BY <2>1, <2>2, <4>1
      <4>3. g[i + 1] = g[i] \o more /\ g[i] \in Seq(Byte)
        BY <2>2, <3>1, <4>1
      <4> HIDE DEF more
      <4>4. Occ(f[i + 1] \o more) = Occ(f[i + 1]) + Occ(more) /\ Occ(g[i] \o more) = Occ(g[i]) + Occ(more)
        BY <4>2, <4>3, OccurrencesConcat
      <4>5. Occ(f[i + 1]) = Occ(s[1]) + Occ(g[i])
        BY <3>3
      <4>6. s[1] \in Seq(Byte)
        BY <2>2
      <4>7. Occ(s[1]) \in Nat /\ Occ(g[i]) \in Nat /\ Occ(more) \in Nat
        BY <4>2, <4>3, <4>6, PlacesFinite
      <4>8. Occ(f[(i + 1) + 1]) = Occ(s[1]) + Occ(g[i + 1])
        BY <4>2, <4>3, <4>4, <4>5, <4>7
      <4> QED BY <4>1, <4>8
    <3> HIDE DEF S
    <3>4. n - 1 \in Nat /\ 1 \in Nat /\ n - 1 \in 1 .. n - 1 /\ (n - 1) + 1 = n
      BY <2>2, <2>5
    <3>5. 1 .. n - 1 \subseteq S
      BY <3>2, <3>3, <3>4, UpToInduction
    <3>6. Occ(f[n]) = Occ(s[1]) + Occ(g[n - 1])
      <4>1. n - 1 \in S
        BY <3>4, <3>5
      <4> QED BY <3>4, <4>1 DEF S
    <3> QED BY <1>4, <2>1, <2>2, <2>3, <3>1, <3>6 DEF r
  <2> QED BY <2>4, <2>5
<1> QED BY <1>3, <1>4

(* How often each client sends b, and how often those whose thread is past *)
(* its write() have sent it.                                               *)
Sending(b) == [d \in Conn |-> Occurrences(b, Packet(d))]
Total(b)   == SumFunctionOnSet(Sending(b), Done)

LEMMA SendingValue ==
    ASSUME IsFiniteSet(Conn), DataInv, NEW b
    PROVE  /\ \A d \in Conn : Sending(b)[d] \in Nat /\ Sending(b)[d] = Occurrences(b, Packet(d))
           /\ \A D \in SUBSET Conn : SumFunctionOnSet(Sending(b), D) \in Nat
           /\ Done \in SUBSET Conn /\ Total(b) \in Nat
<1>1. \A d \in Conn : Packet(d) \in Seq(Byte)
  BY FlattenOccurrences DEF DataInv, Packet
<1>2. \A d \in Conn : Sending(b)[d] \in Nat /\ Sending(b)[d] = Occurrences(b, Packet(d))
  BY <1>1, PlacesFinite DEF Sending
<1>3. \A D \in SUBSET Conn : SumFunctionOnSet(Sending(b), D) \in Nat
  BY <1>2, SumFunctionFacts
<1>4. Done \in SUBSET Conn
  BY DEF Done
<1> QED BY <1>2, <1>3, <1>4 DEF Total

(* What has been sent stays sent.                                          *)
LEMMA TotalGrows ==
    ASSUME IsFiniteSet(Conn), DataInv, DataInv', NEW b,
           Done \subseteq Done', \A d \in Done : request'[d] = request[d]
    PROVE  Total(b) \in Nat /\ Total(b)' \in Nat /\ Total(b) <= Total(b)'
<1>1. \A d \in Conn : Packet(d) \in Seq(Byte) /\ Packet(d)' \in Seq(Byte)
  BY FlattenOccurrences DEF DataInv, Packet
<1> DEFINE f == Sending(b)
           g == Sending(b)'
<1>2. \A d \in Conn : f[d] \in Nat /\ f[d] = Occurrences(b, Packet(d))
  BY <1>1, PlacesFinite DEF Sending
<1>3. \A d \in Conn : g[d] \in Nat /\ g[d] = Occurrences(b, Packet(d)')
  BY <1>1, PlacesFinite DEF Sending
<1>4. Done \in SUBSET Conn /\ Done' \in SUBSET Conn /\ IsFiniteSet(Done)
  <2>1. Done \in SUBSET Conn /\ Done' \in SUBSET Conn
    BY DEF Done
  <2> QED BY <2>1, FS_Subset
<1>5. \A d \in Done : f[d] = g[d]
  <2>1. \A d \in Done : Packet(d)' = Packet(d)
    BY DEF Packet
  <2> QED BY <1>2, <1>3, <1>4, <2>1
<1> HIDE DEF f, g
<1>6. SumFunctionOnSet(f, Done) = SumFunctionOnSet(g, Done)
  BY <1>2, <1>4, <1>5, SumFunctionAgrees
<1>7. SumFunctionOnSet(g, Done) <= SumFunctionOnSet(g, Done')
  BY <1>3, <1>4, SumFunctionGrows
<1>8. SumFunctionOnSet(f, Done) \in Nat /\ SumFunctionOnSet(g, Done') \in Nat
  BY <1>2, <1>3, <1>4, SumFunctionFacts
<1> QED BY <1>6, <1>7, <1>8 DEF Total, f, g

Before == Early \cup {"token", "ioctl"}

(* Of b there is no more in the buffer and still to be received than the   *)
(* client sends.                                                           *)
FedInv(b, c) ==
    /\ cpc[c] = "unused" => buffer[c] = <<>>
    /\ cpc[c] \in Early =>
          Occurrences(b, buffer[c]) + Occurrences(b, FlattenSeq(incoming[c]))
             <= Occurrences(b, Packet(c))

(* A thread has read b, and has yet to read it, no more often than it has  *)
(* been written.                                                           *)
ReadInv(b, c) ==
    /\ cpc[c] \in Before => seen[c] = <<>>
    /\ Occurrences(b, seen[c]) <= Total(b)
    /\ cpc[c] = "echo" =>
          \A pos \in Nat : pos = fpos[c] =>
              Occurrences(b, seen[c]) + Cardinality(Unread(b, pos)) + Occurrences(b, partial)
                 <= Total(b)

CountInv(b) ==
    /\ Cardinality(Unread(b, 0)) + Occurrences(b, partial) <= Total(b)
    /\ \A c \in Conn : FedInv(b, c) /\ ReadInv(b, c)

LEMMA CountInit ==
    ASSUME IsFiniteSet(Conn), SockInit, NEW b
    PROVE  CountInv(b)
<1>1. DataInv
  BY DataInit
<1>2. commands = <<>> /\ partial = <<>>
  BY DEF SockInit, LogInit
<1>3. Occurrences(b, <<>>) = 0 /\ Total(b) \in Nat
  BY <1>1, OccurrencesEmpty, SendingValue
<1>4. Cardinality(Unread(b, 0)) = 0
  <2>1. Unread(b, 0) = {}
    BY <1>2 DEF Unread
  <2> QED BY <2>1, FS_EmptySet
<1>5. ASSUME NEW c \in Conn PROVE FedInv(b, c) /\ ReadInv(b, c)
  <2>1. /\ cpc[c] = "unused" /\ seen[c] = <<>> /\ buffer[c] = <<>> /\ incoming[c] = <<>>
        /\ request[c] = <<>>
    BY DEF SockInit, None
  <2>2. FlattenSeq(incoming[c]) = <<>> /\ Packet(c) = <<>>
    BY <1>1, <2>1, FlattenOccurrences DEF Packet, DataInv
  <2> QED BY <1>3, <2>1, <2>2 DEF FedInv, ReadInv
<1> QED BY <1>2, <1>3, <1>4, <1>5 DEF CountInv

(* A step that is none of receiving from d's client.                       *)
LEMMA FedUntouched ==
    ASSUME NEW b, NEW d \in Conn, FedInv(b, d),
           cpc'[d] \in Early =>
              /\ cpc[d] \in Early /\ (cpc'[d] = "unused" => cpc[d] = "unused")
              /\ buffer'[d] = buffer[d] /\ incoming'[d] = incoming[d] /\ request'[d] = request[d]
    PROVE  FedInv(b, d)'
<1>1. request'[d] = request[d] => Packet(d)' = Packet(d)
  BY DEF Packet
<1> QED BY <1>1 DEF FedInv, Early

(* A step that neither writes nor reads: what d has read is kept or given  *)
(* up, and a loop that begins begins with nothing read.                    *)
LEMMA ReadUntouched ==
    ASSUME IsFiniteSet(Conn), DataInv, DataInv', NEW b, CountInv(b),
           UNCHANGED <<commands, partial>>,
           Done \subseteq Done', \A d \in Done : request'[d] = request[d],
           NEW d \in Conn,
           seen'[d] \in {seen[d], <<>>},
           cpc'[d] \in Before => cpc[d] \in Before \/ seen'[d] = <<>>,
           cpc'[d] = "echo" => \/ cpc[d] = "echo" /\ fpos'[d] = fpos[d] /\ seen'[d] = seen[d]
                               \/ seen'[d] = <<>>
    PROVE  ReadInv(b, d)'
<1>1. Total(b) \in Nat /\ Total(b)' \in Nat /\ Total(b) <= Total(b)'
  BY TotalGrows
<1>2. \A pos : Unread(b, pos)' = Unread(b, pos)
  BY UnreadUnchanged
<1>3. ReadInv(b, d) /\ Cardinality(Unread(b, 0)) + Occurrences(b, partial) <= Total(b)
  BY DEF CountInv
<1>4. /\ \A pos \in Nat : Cardinality(Unread(b, pos)) \in Nat
                          /\ Cardinality(Unread(b, pos)) <= Cardinality(Unread(b, 0))
      /\ Occurrences(b, partial) \in Nat /\ Occurrences(b, seen[d]) \in Nat
      /\ Occurrences(b, <<>>) = 0
  BY UnreadValue, UnreadShrinks, PlacesFinite, OccurrencesEmpty DEF DataInv
<1>5. cpc'[d] \in Before => seen'[d] = <<>>
  BY <1>3 DEF ReadInv
<1>6. Occurrences(b, seen'[d]) <= Total(b)'
  <2>1. Occurrences(b, seen[d]) <= Total(b)
    BY <1>3 DEF ReadInv
  <2>2. CASE seen'[d] = seen[d]
    BY <1>1, <1>4, <2>1, <2>2
  <2>3. CASE seen'[d] = <<>>
    BY <1>1, <1>4, <2>3
  <2> QED BY <2>2, <2>3
<1>7. ASSUME cpc'[d] = "echo", NEW pos \in Nat, pos = fpos'[d]
      PROVE  Occurrences(b, seen'[d]) + Cardinality(Unread(b, pos)') + Occurrences(b, partial')
                <= Total(b)'
  <2> DEFINE unread == Cardinality(Unread(b, pos))
             all    == Cardinality(Unread(b, 0))
             rest   == Occurrences(b, partial)
             old    == Occurrences(b, seen[d])
             total  == Total(b)
             later  == Total(b)'
  <2>1. /\ unread \in Nat /\ all \in Nat /\ rest \in Nat /\ old \in Nat /\ unread <= all
        /\ total \in Nat /\ later \in Nat /\ total <= later /\ all + rest <= total
    <3>1. unread \in Nat /\ unread <= all /\ rest \in Nat /\ old \in Nat
      BY <1>4
    <3>2. all \in Nat
      BY <1>4, 0 \in Nat
    <3>3. total \in Nat /\ later \in Nat /\ total <= later
      BY <1>1
    <3>4. all + rest <= total
      BY <1>3
    <3> QED BY <3>1, <3>2, <3>3, <3>4
  <2>2. Cardinality(Unread(b, pos)') = unread /\ Occurrences(b, partial') = rest
    BY <1>2
  <2>3. CASE cpc[d] = "echo" /\ fpos'[d] = fpos[d] /\ seen'[d] = seen[d]
    <3>1. old + unread + rest <= total
      BY <1>3, <1>7, <2>3 DEF ReadInv
    <3>2. Occurrences(b, seen'[d]) = old
      BY <2>3
    <3> HIDE DEF unread, all, rest, old, total
    <3>3. old + unread + rest <= later
      BY <2>1, <3>1
    <3> QED BY <2>2, <3>2, <3>3
  <2>4. CASE seen'[d] = <<>>
    <3>1. Occurrences(b, seen'[d]) = 0
      BY <1>4, <2>4
    <3> HIDE DEF unread, all, rest, old, total
    <3>2. 0 + unread + rest <= later
      BY <2>1
    <3> QED BY <2>2, <3>1, <3>2
  <2> QED BY <1>7, <2>3, <2>4
<1> QED BY <1>5, <1>6, <1>7 DEF ReadInv

(* Steps that neither write nor read.                                      *)
LEMMA CountUntouched ==
    ASSUME IsFiniteSet(Conn), DataInv, DataInv', NEW b, CountInv(b),
           UNCHANGED <<commands, partial>>,
           Done \subseteq Done', \A d \in Done : request'[d] = request[d],
           \A d \in Conn : FedInv(b, d)',
           \A d \in Conn : /\ seen'[d] \in {seen[d], <<>>}
                           /\ cpc'[d] \in Before => cpc[d] \in Before \/ seen'[d] = <<>>
                           /\ cpc'[d] = "echo" =>
                                 \/ cpc[d] = "echo" /\ fpos'[d] = fpos[d] /\ seen'[d] = seen[d]
                                 \/ seen'[d] = <<>>
    PROVE  CountInv(b)'
<1>1. \A d \in Conn : ReadInv(b, d)'
  BY ReadUntouched
<1>2. Total(b) \in Nat /\ Total(b)' \in Nat /\ Total(b) <= Total(b)'
  BY TotalGrows
<1>3. /\ Cardinality(Unread(b, 0)) + Occurrences(b, partial) <= Total(b)
      /\ Cardinality(Unread(b, 0)) \in Nat /\ Occurrences(b, partial) \in Nat
  BY UnreadValue, PlacesFinite DEF CountInv, DataInv
<1>4. Unread(b, 0)' = Unread(b, 0)
  BY UnreadUnchanged
<1>5. Cardinality(Unread(b, 0)') + Occurrences(b, partial') <= Total(b)'
  BY <1>2, <1>3, <1>4
<1> QED BY <1>1, <1>5 DEF CountInv

(* Recv: what goes from the client into the buffer.                        *)
LEMMA RecvKeepsFed ==
    ASSUME DataInv, ControlInv, NEW b, b # Stray, NEW c \in Conn, FedInv(b, c), Recv(c)
    PROVE  FedInv(b, c)'
<1> DEFINE seg == Head(incoming[c])
           n == NewlineIndex(seg) + 1
<1>1. /\ incoming[c] # <<>> /\ Receive(c) /\ cpc[c] = "recv" /\ cpc'[c] # "unused"
      /\ incoming \in [Conn -> Seq(Seq(Byte))] /\ buffer \in [Conn -> Seq(Byte)]
  BY DEF Recv, Active, DataInv, ControlInv, ListInv
<1>2. seg \in Seq(Byte)
  BY <1>1
<1>3. n \in Nat \ {0}
  BY <1>2, NewlineIndexValue
<1>4. PICK old \in Realloced(buffer[c], n), new \in Appended(seg) : buffer'[c] = old \o new
  BY <1>1 DEF Receive
<1>5. incoming'[c] = Tail(incoming[c]) /\ request'[c] = request[c]
  BY <1>1 DEF Receive
<1>6. Occurrences(b, FlattenSeq(incoming[c])) =
         Occurrences(b, seg) + Occurrences(b, FlattenSeq(Tail(incoming[c])))
  BY <1>1, FlattenOccurrences
<1>7. Occurrences(b, FlattenSeq(Tail(incoming[c]))) \in Nat
  <2>1. Tail(incoming[c]) \in Seq(Seq(Byte))
    BY <1>1
  <2>2. FlattenSeq(Tail(incoming[c])) \in Seq(Byte)
    BY <2>1, FlattenOccurrences
  <2> QED BY <2>2, PlacesFinite
<1> HIDE DEF seg, n
<1>8. Occurrences(b, old \o new) <= Occurrences(b, buffer[c]) + Occurrences(b, seg)
  BY <1>1, <1>2, <1>3, ReceivedOccurrences
<1>9. /\ Occurrences(b, old \o new) \in Nat /\ Occurrences(b, buffer[c]) \in Nat
      /\ Occurrences(b, seg) \in Nat /\ Occurrences(b, Packet(c)) \in Nat
  <2>1. old \o new \in Seq(Byte)
    BY <1>1, <1>2, <1>3, ReceivedType
  <2>2. Packet(c) \in Seq(Byte)
    BY FlattenOccurrences DEF Packet, DataInv
  <2> QED BY <1>1, <1>2, <2>1, <2>2, PlacesFinite
<1>10. Occurrences(b, buffer[c]) + Occurrences(b, FlattenSeq(incoming[c])) <= Occurrences(b, Packet(c))
  BY <1>1 DEF FedInv, Early
<1>11. Occurrences(b, buffer'[c]) + Occurrences(b, FlattenSeq(incoming'[c])) <= Occurrences(b, Packet(c))
  <2>1. Occurrences(b, buffer'[c]) = Occurrences(b, old \o new)
    BY <1>4
  <2>2. Occurrences(b, FlattenSeq(incoming'[c])) = Occurrences(b, FlattenSeq(Tail(incoming[c])))
    BY <1>5
  <2> QED BY <1>6, <1>7, <1>8, <1>9, <1>10, <2>1, <2>2
<1>12. Packet(c)' = Packet(c)
  BY <1>5 DEF Packet
<1> QED BY <1>1, <1>11, <1>12 DEF FedInv

(* WritePacket: the client's packet counts as sent from now on.            *)
LEMMA WriteKeepsCount ==
    ASSUME IsFiniteSet(Conn), DataInv, DataInv', ControlInv, NEW b, CountInv(b),
           NEW c \in Conn, WritePacket(c)
    PROVE  CountInv(b)'
<1>1. /\ cpc[c] = "dispatch" /\ Write(buffer[c]) /\ cpc' = [cpc EXCEPT ![c] = "echo"]
      /\ UNCHANGED <<recvVars, echoVars>> /\ cpc \in [Conn -> Phase]
      /\ buffer[c] \in Seq(Byte)
  BY DEF WritePacket, Active, ControlInv, ListInv, DataInv
<1>2. UNCHANGED <<request, incoming, buffer, fpos, seen>>
  BY <1>1 DEF recvVars, echoVars
<1>3. \A d \in Conn : cpc'[d] = IF d = c THEN "echo" ELSE cpc[d]
  BY <1>1
<1>4. Done' = Done \cup {c} /\ c \in Conn \ Done /\ Done \in SUBSET Conn
  BY <1>1, <1>3 DEF Done, Past
<1> DEFINE sends == Occurrences(b, Packet(c))
<1>5. Total(b)' = Total(b) + sends /\ Total(b) \in Nat /\ sends \in Nat
  <2> DEFINE f == Sending(b)
  <2>1. Sending(b)' = f
    BY <1>2 DEF Sending, Packet
  <2>2. \A d \in Conn : f[d] \in Nat /\ f[d] = Occurrences(b, Packet(d))
    BY SendingValue
  <2>3. Total(b)' = SumFunctionOnSet(f, Done \cup {c}) /\ Total(b) = SumFunctionOnSet(f, Done)
    BY <1>4, <2>1 DEF Total
  <2> HIDE DEF f
  <2>4. SumFunctionOnSet(f, Done \cup {c}) = SumFunctionOnSet(f, Done) + f[c]
    BY <1>4, <2>2, SumFunctionFacts
  <2>5. SumFunctionOnSet(f, Done) \in Nat
    BY <1>4, <2>2, SumFunctionFacts
  <2> QED BY <2>2, <2>3, <2>4, <2>5
<1>6. Occurrences(b, buffer[c]) <= sends /\ Occurrences(b, buffer[c]) \in Nat
  <2>1. Occurrences(b, buffer[c]) + Occurrences(b, FlattenSeq(incoming[c])) <= sends
    BY <1>1 DEF CountInv, FedInv, Early
  <2>2. FlattenSeq(incoming[c]) \in Seq(Byte)
    BY FlattenOccurrences DEF DataInv
  <2>3. Occurrences(b, buffer[c]) \in Nat /\ Occurrences(b, FlattenSeq(incoming[c])) \in Nat
    BY <1>1, <2>2, PlacesFinite
  <2> HIDE DEF sends
  <2> QED BY <1>5, <2>1, <2>3
<1> HIDE DEF sends
<1>7. UnreadCounted /\ UnreadCounted' /\ Occurrences(b, partial) \in Nat
      /\ Occurrences(b, partial') \in Nat
  <2>1. commands \in Seq(Seq(Byte)) /\ (commands \in Seq(Seq(Byte)))'
        /\ partial \in Seq(Byte) /\ partial' \in Seq(Byte)
    BY DEF DataInv
  <2> QED BY <2>1, UnreadIsCounted, UnreadIsCountedPrime, PlacesFinite
<1> DEFINE Left(pos)  == Cardinality(Unread(b, pos)) + Occurrences(b, partial)
           Later(pos) == Cardinality(Unread(b, pos)') + Occurrences(b, partial')
<1>8. ASSUME NEW pos \in Nat
      PROVE  Left(pos) \in Nat /\ Later(pos) \in Nat /\ Later(pos) <= Left(pos) + sends
  <2>1. Cardinality(Unread(b, pos)) \in Nat /\ Cardinality(Unread(b, pos)') \in Nat
    BY <1>7 DEF UnreadCounted
  <2>2. Cardinality(Unread(b, pos)') + Occurrences(b, partial')
             <= Cardinality(Unread(b, pos)) + Occurrences(b, partial) + Occurrences(b, buffer[c])
    BY <1>1, WriteAdds
  <2> QED BY <1>5, <1>6, <1>7, <2>1, <2>2
<1>9. Left(0) <= Total(b)
  BY DEF CountInv
<1>10. \A pos \in Nat : Left(pos) <= Left(0)
  <2> TAKE pos \in Nat
  <2>1. Cardinality(Unread(b, pos)) <= Cardinality(Unread(b, 0))
    BY UnreadShrinks DEF DataInv
  <2>2. Cardinality(Unread(b, pos)) \in Nat /\ Cardinality(Unread(b, 0)) \in Nat
    BY <1>7 DEF UnreadCounted
  <2> QED BY <1>7, <2>1, <2>2
<1>11. ASSUME NEW d \in Conn PROVE FedInv(b, d)'
  <2>1. FedInv(b, d)
    BY DEF CountInv
  <2> QED BY <1>2, <1>3, <2>1, FedUntouched DEF Early
<1>12. ASSUME NEW d \in Conn PROVE ReadInv(b, d)'
  <2>1. ReadInv(b, d) /\ seen'[d] = seen[d] /\ fpos'[d] = fpos[d]
    BY <1>2 DEF CountInv
  <2> DEFINE old == Occurrences(b, seen[d])
  <2>2. old \in Nat
    BY PlacesFinite DEF DataInv
  <2>3. cpc'[d] \in Before => seen'[d] = <<>>
    BY <1>3, <2>1 DEF ReadInv, Before, Early
  <2>4. Occurrences(b, seen'[d]) <= Total(b)'
    <3>1. old <= Total(b)
      BY <2>1 DEF ReadInv
    <3>2. Occurrences(b, seen'[d]) = old
      BY <2>1
    <3> QED BY <1>5, <2>2, <3>1, <3>2
  <2>5. ASSUME cpc'[d] = "echo", NEW pos \in Nat, pos = fpos'[d]
        PROVE  Occurrences(b, seen'[d]) + Cardinality(Unread(b, pos)') + Occurrences(b, partial')
                  <= Total(b)'
    <3>1. old + Left(pos) <= Total(b)
      <4>1. CASE d = c
        <5>1. old = 0
          BY <1>1, <2>1, <4>1, OccurrencesEmpty DEF ReadInv, Before, Early
        <5>2. Left(pos) <= Left(0) /\ Left(pos) \in Nat /\ Left(0) \in Nat
          BY <1>8, <1>10
        <5> HIDE DEF Left, old
        <5> QED BY <1>5, <1>9, <5>1, <5>2
      <4>2. CASE d # c
        <5>1. old + Cardinality(Unread(b, pos)) + Occurrences(b, partial) <= Total(b)
          BY <1>3, <2>1, <2>5, <4>2 DEF ReadInv
        <5>2. Cardinality(Unread(b, pos)) \in Nat
          BY <1>7 DEF UnreadCounted
        <5> QED BY <1>7, <2>2, <5>1, <5>2
      <4> QED BY <4>1, <4>2
    <3>2. old + Later(pos) <= Total(b)'
      <4>1. Left(pos) \in Nat /\ Later(pos) \in Nat /\ Later(pos) <= Left(pos) + sends
        BY <1>8
      <4> HIDE DEF Left, Later, old
      <4> QED BY <1>5, <2>2, <3>1, <4>1
    <3>3. Occurrences(b, seen'[d]) = old
      BY <2>1
    <3>4. Cardinality(Unread(b, pos)') \in Nat
      BY <1>7 DEF UnreadCounted
    <3> QED BY <1>7, <2>2, <3>2, <3>3, <3>4
  <2> HIDE DEF old
  <2> QED BY <2>3, <2>4, <2>5 DEF ReadInv
<1>13. Cardinality(Unread(b, 0)') + Occurrences(b, partial') <= Total(b)'
  <2>1. Later(0) <= Left(0) + sends /\ Later(0) \in Nat /\ Left(0) \in Nat
    BY <1>8
  <2>2. Later(0) <= Total(b)'
    <3> HIDE DEF Left, Later
    <3> QED BY <1>5, <1>9, <2>1
  <2> QED BY <2>2
<1> QED BY <1>11, <1>12, <1>13 DEF CountInv

(* Echo: what is read is not left to be read.                              *)
LEMMA EchoKeepsCount ==
    ASSUME IsFiniteSet(Conn), DataInv, DataInv', ControlInv, NEW b, CountInv(b),
           NEW c \in Conn, Echo(c)
    PROVE  CountInv(b)'
<1> DEFINE chunk == ReadAt(fpos[c])
<1>1. /\ cpc[c] = "echo"
      /\ UNCHANGED <<commands, partial, cpc, request, incoming, buffer>>
      /\ fpos' = [fpos EXCEPT ![c] = @ + Len(chunk)]
      /\ seen' = [seen EXCEPT ![c] = @ \o chunk]
  BY DEF Echo, Active, logVars, recvVars
<1>2. /\ commands \in Seq(Seq(Byte)) /\ partial \in Seq(Byte)
      /\ fpos \in [Conn -> Nat] /\ seen \in [Conn -> Seq(Byte)] /\ fpos[c] \in Nat
  BY DEF DataInv
<1>3. chunk \in Seq(Byte) /\ Len(chunk) \in Nat
  BY <1>2, ReadAtValue
<1> DEFINE next   == fpos[c] + Len(chunk)
           taken  == Occurrences(b, chunk)
           unread == Cardinality(Unread(b, fpos[c]))
           behind   == Cardinality(Unread(b, next))
           rest   == Occurrences(b, partial)
           old    == Occurrences(b, seen[c])
           total  == Total(b)
<1>4. taken + behind <= unread
  BY <1>2, ReadTakes
<1>5. /\ taken \in Nat /\ unread \in Nat /\ behind \in Nat /\ rest \in Nat /\ old \in Nat
      /\ total \in Nat /\ next \in Nat
  <2>1. next \in Nat
    BY <1>2, <1>3
  <2>2. unread \in Nat /\ behind \in Nat
    BY <1>2, UnreadValue
  <2>3. taken \in Nat /\ rest \in Nat /\ old \in Nat
    BY <1>2, <1>3, PlacesFinite
  <2> QED BY <2>1, <2>2, <2>3, SendingValue
<1>6. old + unread + rest <= total
  BY <1>1, <1>2 DEF CountInv, ReadInv
<1>7. fpos'[c] = next /\ seen'[c] = seen[c] \o chunk
  BY <1>1, <1>2
<1>8. Occurrences(b, seen'[c]) = old + taken
  BY <1>2, <1>3, <1>7, OccurrencesConcat
<1>9. Total(b)' = total
  <2>1. Done' = Done /\ Sending(b)' = Sending(b)
    BY <1>1 DEF Done, Sending, Packet
  <2> QED BY <2>1 DEF Total
<1>10. \A pos : Unread(b, pos)' = Unread(b, pos)
  BY <1>1, UnreadUnchanged
<1>11. ASSUME NEW d \in Conn PROVE FedInv(b, d)'
  BY <1>1, FedUntouched DEF CountInv
<1>12. ASSUME NEW d \in Conn PROVE ReadInv(b, d)'
  <2>1. ReadInv(b, d)
    BY DEF CountInv
  <2>2. CASE d = c
    <3>1. cpc'[c] \notin Before
      BY <1>1 DEF Before, Early
    <3>2. Occurrences(b, seen'[c]) <= Total(b)'
      <4> HIDE DEF taken, unread, behind, rest, old, total
      <4> QED BY <1>4, <1>5, <1>6, <1>8, <1>9
    <3>3. ASSUME NEW pos \in Nat, pos = fpos'[c]
          PROVE  Occurrences(b, seen'[c]) + Cardinality(Unread(b, pos)') + Occurrences(b, partial')
                    <= Total(b)'
      <4>1. Cardinality(Unread(b, pos)') = behind /\ Occurrences(b, partial') = rest
        BY <1>1, <1>7, <1>10, <3>3
      <4>2. (old + taken) + behind + rest <= total
        <5> HIDE DEF taken, unread, behind, rest, old, total
        <5> QED BY <1>4, <1>5, <1>6
      <4> QED BY <1>8, <1>9, <4>1, <4>2
    <3> QED BY <2>2, <3>1, <3>2, <3>3 DEF ReadInv
  <2>3. CASE d # c
    <3>1. cpc'[d] = cpc[d] /\ seen'[d] = seen[d] /\ fpos'[d] = fpos[d] /\ partial' = partial
      BY <1>1, <1>2, <2>3
    <3> QED BY <1>9, <1>10, <2>1, <3>1 DEF ReadInv
  <2> QED BY <2>2, <2>3
<1>13. Cardinality(Unread(b, 0)') + Occurrences(b, partial') <= Total(b)'
  BY <1>1, <1>9, <1>10 DEF CountInv
<1> QED BY <1>11, <1>12, <1>13 DEF CountInv

LEMMA StepKeepsCount ==
    ASSUME IsFiniteSet(Conn), DataInv, DataInv', ControlInv, NEW b, b # Stray, CountInv(b),
           [SockNext]_sockVars
    PROVE  CountInv(b)'
<1>1. cpc \in [Conn -> Phase] /\ \A d \in Conn : FedInv(b, d)
  BY DEF ControlInv, ListInv, CountInv
<1>2. CASE Quiet
  <2>1. UNCHANGED <<commands, partial, request, incoming, buffer, fpos, seen>>
    BY <1>2 DEF Quiet, logVars, recvVars, echoVars
  <2>2. /\ Done \subseteq Done'
        /\ \A d \in Conn : /\ cpc'[d] \in Early =>
                                cpc[d] \in Early /\ (cpc'[d] = "unused" => cpc[d] = "unused")
                           /\ cpc'[d] \in Before => cpc[d] \in Before
                           /\ cpc'[d] = "echo" => cpc[d] = "echo"
    BY <1>1, <1>2 DEF Quiet, Moves, Done, Past, Before, Early
  <2>3. \A d \in Conn : FedInv(b, d)'
    BY <1>1, <2>1, <2>2, FedUntouched
  <2> QED BY <2>1, <2>2, <2>3, CountUntouched
<1>3. CASE \E how : Exit(how)
  <2>1. /\ UNCHANGED <<commands, partial, request>>
        /\ \A d \in Conn : /\ cpc'[d] = IF cpc[d] = "unused" THEN "unused" ELSE "dropped"
                           /\ buffer'[d] = <<>> /\ incoming'[d] = <<>> /\ seen'[d] = <<>>
    BY <1>3 DEF Exit, None, logVars
  <2>2. Done \subseteq Done'
    BY <2>1 DEF Done, Past
  <2>3. ASSUME NEW d \in Conn PROVE FedInv(b, d)'
    <3>1. Occurrences(b, buffer'[d]) = 0
      BY <2>1, OccurrencesEmpty
    <3>2. Occurrences(b, FlattenSeq(incoming'[d])) = 0
      <4>1. incoming'[d] \in Seq(Seq(Byte))
        BY DEF DataInv
      <4>2. FlattenSeq(incoming'[d]) = <<>>
        BY <2>1, <4>1, FlattenOccurrences
      <4> QED BY <4>2, OccurrencesEmpty
    <3>3. Occurrences(b, Packet(d)') \in Nat
      <4>1. Packet(d)' \in Seq(Byte)
        BY FlattenOccurrences DEF Packet, DataInv
      <4> QED BY <4>1, PlacesFinite
    <3> QED BY <2>1, <3>1, <3>2, <3>3 DEF FedInv
  <2> QED BY <2>1, <2>2, <2>3, CountUntouched
<1>4. ASSUME NEW c \in Conn, Connect(c) PROVE CountInv(b)'
  <2>1. PICK s \in Segments[c] : request' = [request EXCEPT ![c] = s]
                                /\ incoming' = [incoming EXCEPT ![c] = s]
    BY <1>4 DEF Connect
  <2>2. /\ UNCHANGED <<commands, partial, buffer, fpos, seen>>
        /\ cpc[c] = "unused" /\ cpc' = [cpc EXCEPT ![c] = "backlog"]
    BY <1>4 DEF Connect, logVars, echoVars
  <2>3. \A d \in Conn : cpc'[d] = IF d = c THEN "backlog" ELSE cpc[d]
    BY <1>1, <2>2
  <2>4. \A d \in Conn : d # c => request'[d] = request[d] /\ incoming'[d] = incoming[d]
    BY <2>1 DEF DataInv
  <2>5. request'[c] = s /\ incoming'[c] = s
    BY <2>1 DEF DataInv
  <2>6. Done \subseteq Done' /\ c \notin Done
    BY <2>2, <2>3 DEF Done, Past
  <2>7. ASSUME NEW d \in Conn PROVE FedInv(b, d)'
    <3>1. CASE d = c
      <4>1. buffer'[c] = <<>>
        BY <1>1, <2>2 DEF FedInv
      <4>2. Occurrences(b, buffer'[c]) = 0
        BY <4>1, OccurrencesEmpty
      <4>3. Packet(c)' = FlattenSeq(s)
        BY <2>5 DEF Packet
      <4>4. Occurrences(b, FlattenSeq(s)) \in Nat
        <5>1. s \in Seq(Seq(Byte))
          BY SegmentAssumption
        <5>2. FlattenSeq(s) \in Seq(Byte)
          BY <5>1, FlattenOccurrences
        <5> QED BY <5>2, PlacesFinite
      <4>5. Occurrences(b, buffer'[c]) + Occurrences(b, FlattenSeq(incoming'[c]))
               <= Occurrences(b, Packet(c)')
        BY <2>5, <4>2, <4>3, <4>4
      <4> QED BY <2>3, <3>1, <4>1, <4>5 DEF FedInv
    <3>2. CASE d # c
      BY <1>1, <2>2, <2>3, <2>4, <3>2, FedUntouched
    <3> QED BY <3>1, <3>2
  <2>8. \A d \in Done : request'[d] = request[d]
    BY <2>4, <2>6 DEF Done
  <2>9. \A d \in Conn : /\ cpc'[d] \in Before => cpc[d] \in Before
                        /\ cpc'[d] = "echo" => cpc[d] = "echo"
    BY <2>2, <2>3 DEF Before, Early
  <2> QED BY <2>2, <2>6, <2>7, <2>8, <2>9, CountUntouched
<1>5. ASSUME NEW c \in Conn, Recv(c) PROVE CountInv(b)'
  <2>1. /\ UNCHANGED <<commands, partial, request, fpos, seen>>
        /\ cpc[c] = "recv" /\ \E p \in {"recv", "dispatch"} : cpc' = [cpc EXCEPT ![c] = p]
        /\ \A d \in Conn : d # c => buffer'[d] = buffer[d] /\ incoming'[d] = incoming[d]
    BY <1>1, <1>5 DEF Recv, Receive, Active, logVars, echoVars, DataInv
  <2>2. /\ Done \subseteq Done'
        /\ \A d \in Conn : d # c => cpc'[d] = cpc[d]
        /\ \A d \in Conn : /\ cpc'[d] \in Before => cpc[d] \in Before
                           /\ cpc'[d] = "echo" => cpc[d] = "echo"
    BY <1>1, <2>1 DEF Done, Past, Before, Early
  <2>3. ASSUME NEW d \in Conn PROVE FedInv(b, d)'
    <3>1. CASE d = c
      BY <1>1, <1>5, <3>1, RecvKeepsFed
    <3>2. CASE d # c
      BY <1>1, <2>1, <2>2, <3>2, FedUntouched
    <3> QED BY <3>1, <3>2
  <2> QED BY <2>1, <2>2, <2>3, CountUntouched
<1>6. ASSUME NEW c \in Conn, SeekDone(c) \/ EchoEnd(c) \/ ThreadReturn(c) PROVE CountInv(b)'
  <2>1. /\ UNCHANGED <<commands, partial, request, incoming>>
        /\ cpc[c] \in {"ioctl", "echo", "complete"}
        /\ \E p \in {"echo", "complete", "returned"} : cpc' = [cpc EXCEPT ![c] = p]
        /\ \A d \in Conn : d # c => buffer'[d] = buffer[d] /\ fpos'[d] = fpos[d] /\ seen'[d] = seen[d]
        /\ seen'[c] \in {seen[c], <<>>}
        /\ cpc'[c] = "echo" => cpc[c] = "ioctl" /\ seen'[c] = seen[c]
    <3>1. CASE SeekDone(c)
      BY <1>1, <3>1 DEF SeekDone, Active, logVars, recvVars, DataInv
    <3>2. CASE EchoEnd(c)
      BY <1>1, <3>2 DEF EchoEnd, Active, logVars, DataInv
    <3>3. CASE ThreadReturn(c)
      BY <1>1, <3>3 DEF ThreadReturn, Active, logVars, recvVars, DataInv
    <3> QED BY <1>6, <3>1, <3>2, <3>3
  <2>2. /\ cpc'[c] \in {"echo", "complete", "returned"}
        /\ \A d \in Conn : d # c => cpc'[d] = cpc[d]
    BY <1>1, <2>1
  <2>3. Done \subseteq Done'
    BY <2>2 DEF Done, Past
  <2>4. cpc[c] = "ioctl" => seen[c] = <<>>
    BY DEF CountInv, ReadInv, Before
  <2>5. ASSUME NEW d \in Conn PROVE FedInv(b, d)'
    <3>1. cpc'[d] \in Early => d # c
      BY <2>2 DEF Early
    <3>2. cpc'[d] \in Early => cpc'[d] = cpc[d] /\ buffer'[d] = buffer[d]
      BY <2>1, <2>2, <3>1
    <3> QED BY <1>1, <2>1, <3>2, FedUntouched
  <2>6. ASSUME NEW d \in Conn
        PROVE  /\ seen'[d] \in {seen[d], <<>>}
               /\ cpc'[d] \in Before => cpc[d] \in Before \/ seen'[d] = <<>>
               /\ cpc'[d] = "echo" =>
                     \/ cpc[d] = "echo" /\ fpos'[d] = fpos[d] /\ seen'[d] = seen[d]
                     \/ seen'[d] = <<>>
    BY <2>1, <2>2, <2>4 DEF Before, Early
  <2> QED BY <2>1, <2>3, <2>5, <2>6, CountUntouched
<1>7. ASSUME NEW c \in Conn, WritePacket(c) PROVE CountInv(b)'
  BY <1>7, WriteKeepsCount
<1>8. ASSUME NEW c \in Conn, Echo(c) PROVE CountInv(b)'
  BY <1>8, EchoKeepsCount
<1> QED BY <1>2, <1>3, <1>4, <1>5, <1>6, <1>7, <1>8, StepKinds

CountsInv == \A b \in Byte \ {Stray} : CountInv(b)

(* All clients have sent is at least what those past their write() have.   *)
LEMMA TotalBounded ==
    ASSUME IsFiniteSet(Conn), DataInv, NEW b
    PROVE  /\ Total(b) \in Nat
           /\ SumFunction([d \in Conn |-> Occurrences(b, Packet(d))]) \in Nat
           /\ Total(b) <= SumFunction([d \in Conn |-> Occurrences(b, Packet(d))])
<1> DEFINE f == Sending(b)
<1>1. Done \in SUBSET Conn /\ Conn \in SUBSET Conn /\ \A d \in Conn : f[d] \in Nat
  BY SendingValue
<1>2. SumFunction([d \in Conn |-> Occurrences(b, Packet(d))]) = SumFunctionOnSet(f, Conn)
  BY DEF SumFunction, Sending
<1>3. Total(b) = SumFunctionOnSet(f, Done)
  BY DEF Total
<1> HIDE DEF f
<1>4. SumFunctionOnSet(f, Done) <= SumFunctionOnSet(f, Conn)
  BY <1>1, SumFunctionGrows
<1>5. SumFunctionOnSet(f, Done) \in Nat /\ SumFunctionOnSet(f, Conn) \in Nat
  BY <1>1, SumFunctionFacts
<1> QED BY <1>2, <1>3, <1>4, <1>5

(* The inductive invariant: of each byte, what a thread has read, what it  *)
(* has yet to read and what is under construction is together no more than *)
(* what the threads past their write() were sent.                          *)
THEOREM SocketCounts == IsFiniteSet(Conn) /\ SockSpec => [](DataInv /\ CountsInv)
<1> SUFFICES ASSUME IsFiniteSet(Conn) PROVE SockSpec => [](DataInv /\ CountsInv)
  OBVIOUS
<1>1. SockInit => DataInv /\ ControlInv /\ CountsInv
  BY DataInit, ControlInit, CountInit DEF CountsInv
<1>2. (DataInv /\ ControlInv /\ CountsInv) /\ [SockNext]_sockVars
        => (DataInv /\ ControlInv /\ CountsInv)'
  <2> SUFFICES ASSUME DataInv, ControlInv, CountsInv, [SockNext]_sockVars
               PROVE  (DataInv /\ ControlInv /\ CountsInv)'
    OBVIOUS
  <2>1. DataInv' /\ ControlInv'
    BY StepKeepsData, StepKeepsControl
  <2>2. ASSUME NEW b \in Byte \ {Stray} PROVE CountInv(b)'
    <3>1. CountInv(b) /\ b # Stray
      BY DEF CountsInv
    <3> QED BY <2>1, <3>1, StepKeepsCount
  <2> QED BY <2>1, <2>2 DEF CountsInv
<1> QED BY <1>1, <1>2, PTL DEF SockSpec

(* AnswerNeverRepeats for any finite set of clients, whatever they send    *)
(* and however little the device keeps: the read() loop of thread_func     *)
(* gets no byte more often than it has been sent, although commands are    *)
(* evicted and added between its reads, and although the process may die   *)
(* and be restarted.                                                       *)
THEOREM SocketNeverRepeats == IsFiniteSet(Conn) /\ SockSpec => []AnswerNeverRepeats
<1> SUFFICES ASSUME IsFiniteSet(Conn) PROVE SockSpec => []AnswerNeverRepeats
  OBVIOUS
<1>1. DataInv /\ CountsInv => AnswerNeverRepeats
  <2> SUFFICES ASSUME DataInv, CountsInv, NEW c \in Conn, NEW b \in Byte \ {Stray}
               PROVE  Occurrences(b, seen[c]) <=
                         SumFunction([d \in Conn |-> Occurrences(b, Packet(d))])
    BY DEF AnswerNeverRepeats
  <2> DEFINE sum == SumFunction([d \in Conn |-> Occurrences(b, Packet(d))])
  <2>1. Occurrences(b, seen[c]) <= Total(b)
    BY DEF CountsInv, CountInv, ReadInv
  <2>2. Total(b) \in Nat /\ sum \in Nat /\ Total(b) <= sum
    BY TotalBounded
  <2>3. Occurrences(b, seen[c]) \in Nat
    BY PlacesFinite DEF DataInv
  <2> HIDE DEF sum
  <2>4. Occurrences(b, seen[c]) <= sum
    BY <2>1, <2>2, <2>3
  <2> QED BY <2>4 DEF sum
<1> QED BY SocketCounts, <1>1, PTL

(* What WritePacket has put on the device, the command under construction  *)
(* included, holds no byte more often than clients have sent it: what is   *)
(* sent once is not stored twice, with evictions, overruns and restarts.   *)
StoredNeverDoubles ==
    \A b \in Byte \ {Stray} :
        Occurrences(b, FlattenSeq(commands)) + Occurrences(b, partial) <=
            SumFunction([d \in Conn |-> Occurrences(b, Packet(d))])

(* The bytes of the device, laid end to end, are those that are unread     *)
(* from the start.                                                         *)
LEMMA StoredAreUnread ==
    ASSUME commands \in Seq(Seq(Byte)), NEW b
    PROVE  /\ Occurrences(b, FlattenSeq(commands)) \in Nat
           /\ Occurrences(b, FlattenSeq(commands)) <= Cardinality(Unread(b, 0))
<1> DEFINE all == FlattenSeq(commands)
           Holds(i, k) == /\ i \in 1 .. Len(commands)
                          /\ k - Offset[i - 1] \in 1 .. Len(commands[i])
                          /\ commands[i][k - Offset[i - 1]] = all[k]
           entry(k) == CHOOSE i : Holds(i, k)
           at == [k \in Places(b, all) |-> <<entry(k), k - Offset[entry(k) - 1]>>]
<1>1. OffsetOK /\ all \in Seq(Byte)
  BY OffsetIsOK, FlattenOccurrences
<1>2. /\ Len(all) = Offset[Len(commands)]
      /\ \A i \in 1 .. Len(commands) : \A k \in 1 .. Len(commands[i]) :
            all[Offset[i - 1] + k] = commands[i][k]
  <2> DEFINE T == Byte
             offs == Offset
  <2>1. /\ commands \in Seq(Seq(T)) /\ offs[0] = 0
        /\ \A i \in 0 .. Len(commands) : offs[i] \in Nat
        /\ \A i \in 1 .. Len(commands) : offs[i] = offs[i - 1] + Len(commands[i])
    BY <1>1 DEF OffsetOK
  <2> HIDE DEF T, offs
  <2>2. /\ Len(all) = offs[Len(commands)]
        /\ \A i \in 1 .. Len(commands) : \A k \in 1 .. Len(commands[i]) :
              all[offs[i - 1] + k] = commands[i][k]
    BY <2>1, FlattenElements
  <2> QED BY <2>2 DEF offs
<1> HIDE DEF all
<1>3. Places(b, all) = {k \in 1 .. Len(all) : all[k] = b} /\ Occurrences(b, all) = Cardinality(Places(b, all))
      /\ Occurrences(b, all) \in Nat /\ Len(all) \in Nat
  BY <1>1, PlacesFinite
<1>4. ASSUME NEW k \in 1 .. Len(all) PROVE Holds(entry(k), k)
  <2>1. k - 1 \in Nat /\ k - 1 < Offset[Len(commands)]
    BY <1>2, <1>3
  <2>2. PICK i \in 1 .. Len(commands) : Offset[i - 1] <= k - 1 /\ k - 1 < Offset[i]
    BY <2>1, HoldingExists
  <2> DEFINE from == Offset[i - 1]
             to   == Offset[i]
             size == Len(commands[i])
  <2>3. from \in Nat /\ to \in Nat /\ size \in Nat /\ to = from + size
    <3>1. i - 1 \in 0 .. Len(commands) /\ i \in 0 .. Len(commands)
      BY <1>1 DEF OffsetOK
    <3> QED BY <1>1, <3>1 DEF OffsetOK
  <2>4. from <= k - 1 /\ k - 1 < to
    BY <2>2
  <2> HIDE DEF from, to, size
  <2>5. k - from \in 1 .. size /\ from + (k - from) = k
    BY <1>3, <2>3, <2>4
  <2>6. commands[i][k - Offset[i - 1]] = all[k]
    BY <1>2, <2>5 DEF from, size
  <2>7. Holds(i, k)
    BY <2>5, <2>6 DEF from, size
  <2> HIDE DEF Holds
  <2> QED BY <2>7, Zenon
<1> HIDE DEF entry
<1>5. ASSUME NEW k \in Places(b, all)
      PROVE  /\ at[k] \in Unread(b, 0)
             /\ at[k] = <<entry(k), k - Offset[entry(k) - 1]>>
             /\ Offset[entry(k) - 1] \in Nat /\ k \in Nat
  <2> DEFINE i == entry(k)
             from == Offset[i - 1]
             q == k - from
  <2>1. k \in 1 .. Len(all) /\ all[k] = b /\ k \in Nat
    BY <1>3
  <2>2. i \in 1 .. Len(commands) /\ q \in 1 .. Len(commands[i]) /\ commands[i][q] = b
    BY <1>4, <2>1
  <2>3. at[k] = <<i, q>>
    OBVIOUS
  <2> HIDE DEF i, at
  <2>4. from \in Nat
    <3>1. i - 1 \in 0 .. Len(commands)
      BY <1>1, <2>2 DEF OffsetOK
    <3> QED BY <1>1, <3>1 DEF OffsetOK
  <2>5. Len(commands[i]) \in Nat
    BY <1>1, <2>2 DEF OffsetOK
  <2> HIDE DEF q
  <2>6. 0 < from + q
    BY <2>2, <2>4, <2>5
  <2> HIDE DEF from
  <2>7. <<i, q>> \in Unread(b, 0)
    BY <2>2, <2>6, UnreadValue DEF from
  <2> QED BY <2>1, <2>3, <2>4, <2>7 DEF i, q, from
<1> HIDE DEF at
<1>6. at \in [Places(b, all) -> Unread(b, 0)]
  <2>1. at = [k \in Places(b, all) |-> <<entry(k), k - Offset[entry(k) - 1]>>]
    BY DEF at
  <2>2. \A k \in Places(b, all) : <<entry(k), k - Offset[entry(k) - 1]>> \in Unread(b, 0)
    BY <1>5
  <2> QED BY <2>1, <2>2
<1>7. ASSUME NEW j \in Places(b, all), NEW k \in Places(b, all), at[j] = at[k] PROVE j = k
  <2> DEFINE p == Offset[entry(j) - 1]
             q == Offset[entry(k) - 1]
  <2>1. entry(j) = entry(k) /\ j - p = k - q
    BY <1>5, <1>7
  <2>2. p = q
    BY <2>1
  <2>3. p \in Nat /\ q \in Nat /\ j \in Nat /\ k \in Nat
    BY <1>5
  <2> HIDE DEF p, q
  <2> QED BY <2>1, <2>2, <2>3
<1>8. Cardinality(Places(b, all)) <= Cardinality(Unread(b, 0))
  BY <1>6, <1>7, UnreadValue, NoLarger
<1> QED BY <1>3, <1>8 DEF all

(* StoredNeverDoubles for any finite set of clients, whatever they send    *)
(* and however little the device keeps: recv, realloc and write() lose     *)
(* bytes on some paths, but double none.                                   *)
THEOREM SocketNeverDoubles == IsFiniteSet(Conn) /\ SockSpec => []StoredNeverDoubles
<1> SUFFICES ASSUME IsFiniteSet(Conn) PROVE SockSpec => []StoredNeverDoubles
  OBVIOUS
<1>1. DataInv /\ CountsInv => StoredNeverDoubles
  <2> SUFFICES ASSUME DataInv, CountsInv, NEW b \in Byte \ {Stray}
               PROVE  Occurrences(b, FlattenSeq(commands)) + Occurrences(b, partial) <=
                         SumFunction([d \in Conn |-> Occurrences(b, Packet(d))])
    BY DEF StoredNeverDoubles
  <2> DEFINE sum    == SumFunction([d \in Conn |-> Occurrences(b, Packet(d))])
             stored == Occurrences(b, FlattenSeq(commands))
             unread == Cardinality(Unread(b, 0))
             rest   == Occurrences(b, partial)
  <2>1. stored \in Nat /\ stored <= unread /\ unread \in Nat
    BY StoredAreUnread, UnreadValue DEF DataInv
  <2>2. rest \in Nat
    BY PlacesFinite DEF DataInv
  <2>3. unread + rest <= Total(b)
    BY DEF CountsInv, CountInv
  <2>4. Total(b) \in Nat /\ sum \in Nat /\ Total(b) <= sum
    BY TotalBounded
  <2> HIDE DEF sum, stored, unread, rest
  <2>5. stored + rest <= sum
    BY <2>1, <2>2, <2>3, <2>4
  <2> QED BY <2>5 DEF sum, stored, rest
<1> QED BY SocketCounts, <1>1, PTL

=============================================================================
