------------------------------ MODULE Lifecycle ------------------------------
(***************************************************************************)
(* What lies behind file_path of server/aesdsocket.c while the server is   *)
(* started and stopped (aesdsocket-start-stop.sh) and the driver is loaded *)
(* and unloaded (aesdchar_load, aesdchar_unload), in both builds of the    *)
(* server: with USE_AESD_CHAR_DEVICE the path is /dev/aesdchar, without it *)
(* an ordinary file, to which timer_handler appends as well.               *)
(*                                                                         *)
(* A packet is named after its connection, and the device or a file holds  *)
(* a sequence of packets and time stamps.  Each write() is one step; the   *)
(* mutex around it in the second build is held for nothing else.  What     *)
(* AesdSocket models (receiving, chunks, the thread list, seeks that       *)
(* succeed) is left out, and so is eviction.  In the second build the load *)
(* scripts concern another path than the server and are left out.          *)
(*                                                                         *)
(* A server that starts goes through bind, creat, the creation of its      *)
(* timer thread and listen.  With SO_REUSEADDR the port counts as taken    *)
(* only while somebody listens on it, so two servers may bind it, and only *)
(* one of them gets past listen.                                           *)
(***************************************************************************)
EXTENDS Naturals, Sequences, FiniteSets

CONSTANTS Conn,      \* the connections, each with one packet
          Shell,     \* who runs scripts
          File,      \* the ordinary files that may come to be at file_path
          Stamp,     \* a time stamp of the timer thread
          MaxStamps  \* bound: time stamps in one file

ASSUME StampAssumption == Stamp \notin Conn /\ MaxStamps \in Nat
(* open(O_CREAT) never runs out of files: besides those that the threads   *)
(* and the timer have open there is always another.                        *)
ASSUME FileAssumption  ==
    /\ File \cap {"none", "device", "idle"} = {}
    /\ \A open \in [Conn \cup {"timer"} -> File \cup {"none"}] :
          \E f \in File : \A a \in Conn \cup {"timer"} : open[a] # f
ASSUME ActorAssumption == Conn \cap {"main", "timer"} = {}

VARIABLES build,     \* "char" with USE_AESD_CHAR_DEVICE, else "file"
          node,      \* what file_path names: "none", "device" or a file
          loaded,    \* whether the module is loaded
          content,   \* what the device and each file hold
          up,        \* whether a server runs, from its first listen() on
          signalled, \* whether SIGTERM is pending
          leaving,   \* the threads in exit_safely, past its remove()
          tpc,       \* where each connection's thread is
          file,      \* what each thread has open; "none" if nothing
          pos,       \* the file position of each thread
          timer,     \* "none" before the timer thread exists, "idle", or what it has open
          spc,       \* where each shell is in its script
          served,    \* history: what file_path named when the server that runs began to listen
          touched,   \* history: a script or a server that had not started has removed it
          rival,     \* history: another server was between bind and creat then
          overlap    \* history: the module was unloaded while a load script ran

pathVars   == <<node, loaded, content>>
threadVars == <<tpc, file, pos, timer>>
history    == <<served, touched, rival, overlap>>
lifeVars   == <<build, pathVars, up, signalled, leaving, threadVars, spc, history>>

-----------------------------------------------------------------------------
(* Opening and removing file_path. *)

Open(f) == timer = f \/ \E c \in Conn : file[c] = f

Unused(f) == f # node /\ ~Open(f)

(* Slip: open without O_CREAT. *)
OpenedNoCreate == node

(* What open(file_path, O_CREAT | ...) opens: the node's driver, a file    *)
(* that is there, or a new one.                                            *)
Opened == IF node = "none" THEN CHOOSE f \in File : Unused(f) ELSE node

(* open() of a device node fails without its driver. *)
CanOpen == node = "device" => loaded

Cleared(f) == [content EXCEPT ![f] = <<>>]

(* O_CREAT: the new file is at file_path from now on. *)
OpenCreates ==
    /\ node' = Opened
    /\ content' = IF node = "none" THEN Cleared(Opened) ELSE content

(* remove(file_path) or rm -f, from outside the server that listens. *)
RemovePath == node' = "none" /\ touched' = up

-----------------------------------------------------------------------------
(* The server: start and end. *)

(* Threads that run: exit_safely does not end the others before exit(). *)
Runs(a) == up /\ a \notin leaving

(* Where a start script is when its server has ended. *)
Done == IF build = "char" THEN "load" ELSE "idle"

(* A server that starts, and one that has been stopped while it started. *)
Starting == {"bound", "created", "timed"}
Stopped  == {"leaving", "joining", "hung"}

StartStep(s, from, to) ==
    /\ spc[s] = from
    /\ spc' = [spc EXCEPT ![s] = to]
    /\ UNCHANGED <<build, loaded, signalled, leaving, tpc, file, pos, overlap>>

(* Slip: creat comes before bind. *)
CreatBeforeBind(s) ==
    /\ StartStep(s, "exec", IF up THEN Done ELSE "bound")
    /\ node' = Opened
    /\ content' = IF Opened = "device" THEN content ELSE Cleared(Opened)
    /\ UNCHANGED <<up, timer, served, touched, rival>>

(* SO_REUSEADDR: only a server that listens stands in the way. *)
Bind(s) ==
    /\ ~up
    /\ StartStep(s, "exec", "bound")
    /\ UNCHANGED <<node, content, up, timer, served, touched, rival>>

(* The file is made, or truncated; a device has nothing to truncate. *)
Creat(s) ==
    /\ CanOpen
    /\ StartStep(s, "bound", "created")
    /\ node' = Opened
    /\ content' = IF Opened = "device" THEN content ELSE Cleared(Opened)
    /\ UNCHANGED <<up, timer, served, touched, rival>>

(* The timer thread of the second build; nobody looks whether it could be  *)
(* created.                                                                *)
TimerCreate(s) ==
    /\ build = "file"
    /\ StartStep(s, "created", "timed")
    /\ UNCHANGED <<node, content, up, timer, served, touched, rival>>

Listen(s) ==
    /\ ~up
    /\ up' = TRUE
    /\ \/ StartStep(s, "created", "serving") /\ timer' = "none"
       \/ StartStep(s, "timed", "serving") /\ timer' = "idle"
    /\ served' = node
    /\ touched' = (node = "none")
    /\ rival' = \E r \in Shell : spc[r] = "bound"
    /\ UNCHANGED <<node, content>>

(* Slip: a server that cannot start leaves through exit_safely. *)
RemoveWhenRefused(s) ==
    /\ \E from \in {"exec"} \cup Starting : StartStep(s, from, Done)
    /\ node' = "none"
    /\ UNCHANGED <<content, up, timer, served, touched, rival>>

(* exit(EXIT_FAILURE) at getaddrinfo, socket, setsockopt or bind, at creat, *)
(* or at listen when somebody else listens.                                *)
StartFails(s) ==
    /\ \/ \E from \in {"exec", "bound"} : StartStep(s, from, Done)
       \/ up /\ \E from \in {"created", "timed"} : StartStep(s, from, Done)
    /\ UNCHANGED <<node, content, up, timer, served, touched, rival>>

(* exit(): the threads are gone, with them the files that have no name any *)
(* more, and the start script goes on.                                     *)
Exit ==
    /\ up' = FALSE
    /\ signalled' = FALSE
    /\ leaving' = {}
    /\ content' = [f \in File \cup {"device"} |->
                      IF f \in {node, "device"} THEN content[f] ELSE <<>>]
    /\ tpc' = [c \in Conn |-> IF tpc[c] = "unused" THEN "unused" ELSE "dropped"]
    /\ file' = [c \in Conn |-> "none"]
    /\ pos' = [c \in Conn |-> 0]
    /\ timer' = "none"
    /\ spc' = [s \in Shell |-> IF spc[s] = "serving" THEN Done ELSE spc[s]]
    /\ served' = "none" /\ touched' = FALSE /\ rival' = FALSE
    /\ UNCHANGED <<build, node, loaded, overlap>>

(* recv fails, a client is gone: exit(1) in any thread. *)
ExitFailure == \E c \in Conn : Runs(c) /\ tpc[c] \in {"receiving", "written"} /\ Exit

(* exit_safely up to its remove(). *)
Leave(a) ==
    /\ leaving' = leaving \cup {a}
    /\ node' = "none"

Alive(a) ==
    /\ Runs(a)
    /\ a \in Conn => tpc[a] \in {"receiving", "opened", "written"}
    /\ a = "timer" => timer # "none"

(* The signal goes to the main thread, or to any other when that one is    *)
(* already in the handler, where SIGTERM is blocked.                       *)
signal_handler(a) ==
    /\ signalled
    /\ Alive(a)
    /\ a # "main" => "main" \in leaving
    /\ signalled' = FALSE
    /\ Leave(a)
    /\ UNCHANGED <<build, loaded, content, up, threadVars, spc, history>>

(* Slip: the timer thread is joined, in every build. *)
ExitAlwaysJoins ==
    /\ Cardinality(leaving) > 1
    /\ Exit

(* The rest of exit_safely.  The timer thread never ends, so the first     *)
(* thread to join it waits for ever; a second pthread_join fails, and that *)
(* thread calls exit(0).                                                   *)
exit_safely ==
    /\ leaving # {}
    /\ build = "char" \/ timer = "none" \/ Cardinality(leaving) > 1
    /\ Exit

-----------------------------------------------------------------------------
(* The server: one packet. *)

serverVars == <<up, signalled, leaving>>

Accept(c) ==
    /\ Runs("main") /\ tpc[c] = "unused"
    /\ tpc' = [tpc EXCEPT ![c] = "receiving"]
    /\ UNCHANGED <<build, pathVars, serverVars, file, pos, timer, spc, history>>

(* The packet is there: open(file_path, O_CREAT | O_APPEND | O_RDWR). *)
ThreadOpen(c) ==
    /\ Runs(c) /\ tpc[c] = "receiving" /\ CanOpen
    /\ OpenCreates
    /\ tpc' = [tpc EXCEPT ![c] = "opened"]
    /\ file' = [file EXCEPT ![c] = Opened]
    /\ UNCHANGED <<build, loaded, serverVars, pos, timer, spc, history>>

ThreadOpenFails(c) == Runs(c) /\ tpc[c] = "receiving" /\ ~CanOpen /\ Exit

(* A seek command that is malformed or refused, as every one is by an      *)
(* ordinary file.                                                          *)
SeekRefused(c) ==
    /\ Runs(c) /\ tpc[c] = "opened"
    /\ Leave(c)
    /\ UNCHANGED <<build, loaded, content, up, signalled, threadVars, spc, history>>

(* write(): on an ordinary file O_APPEND takes the position to the end, on *)
(* the device the position stays.                                          *)
ThreadWrite(c) ==
    /\ Runs(c) /\ tpc[c] = "opened"
    /\ content' = [content EXCEPT ![file[c]] = Append(@, c)]
    /\ pos' = [pos EXCEPT ![c] = IF file[c] = "device" THEN @ ELSE Len(content'[file[c]])]
    /\ tpc' = [tpc EXCEPT ![c] = "written"]
    /\ UNCHANGED <<build, node, loaded, serverVars, file, timer, spc, history>>

(* What the thread reads from its position to the end, and sends. *)
Answer(c) == SubSeq(content[file[c]], pos[c] + 1, Len(content[file[c]]))

ThreadClose(c) ==
    /\ Runs(c) /\ tpc[c] = "written"
    /\ tpc' = [tpc EXCEPT ![c] = "done"]
    /\ file' = [file EXCEPT ![c] = "none"]
    /\ pos' = [pos EXCEPT ![c] = 0]
    /\ UNCHANGED <<build, pathVars, serverVars, timer, spc, history>>

-----------------------------------------------------------------------------
(* timer_handler. *)

Stamps(f) == Len(SelectSeq(content[f], LAMBDA item : item = Stamp))

TimerOpen ==
    /\ Runs("timer") /\ timer = "idle"
    /\ node # "none" => Stamps(node) < MaxStamps
    /\ OpenCreates
    /\ timer' = Opened
    /\ UNCHANGED <<build, loaded, serverVars, tpc, file, pos, spc, history>>

(* The stamp is written and the file closed. *)
TimerWrite ==
    /\ Runs("timer") /\ timer \in File
    /\ content' = [content EXCEPT ![timer] = Append(@, Stamp)]
    /\ timer' = "idle"
    /\ UNCHANGED <<build, node, loaded, serverVars, tpc, file, pos, spc, history>>

(* The timer thread of a server that does not listen yet, or never will,   *)
(* its open and its write in one step.                                     *)
StarterStamp(s) ==
    /\ spc[s] \in {"timed", "joining", "hung"}
    /\ node # "none" => Stamps(node) < MaxStamps
    /\ node' = Opened
    /\ content' = [content EXCEPT ![Opened] = IF node = "none" THEN <<Stamp>>
                                                              ELSE Append(@, Stamp)]
    /\ UNCHANGED <<build, loaded, serverVars, threadVars, spc, history>>

-----------------------------------------------------------------------------
(* The scripts. *)

ScriptStep(s, from, to) ==
    /\ spc[s] = from
    /\ spc' = [spc EXCEPT ![s] = to]
    /\ UNCHANGED <<build, serverVars, threadVars>>

(* Where a shell runs aesdchar_load. *)
Loading == {"insmod", "rm", "mknod"}

(* start-stop-daemon -S: nothing is started next to a server it finds; one *)
(* that is about to be executed it may find or not.  The server stays in   *)
(* the foreground, whatever -d says.                                       *)
StartServer(s) ==
    /\ LET there == up \/ \E r \in Shell : spc[r] \in Starting \cup Stopped
       IN  \/ ~there /\ ScriptStep(s, "idle", "exec")
           \/ /\ there \/ \E r \in Shell : spc[r] = "exec"
              /\ ScriptStep(s, "idle", Done)
    /\ UNCHANGED <<pathVars, history>>

StartLoad(s) ==
    /\ ScriptStep(s, "load", IF \E r \in Shell : spc[r] \in Loading THEN "idle" ELSE "insmod")
    /\ UNCHANGED <<pathVars, history>>

(* Where SIGTERM takes a server that starts: to its handler, which joins   *)
(* the timer thread if there is one; to its end before the handler is      *)
(* installed; or nowhere while it has another name.  A second SIGTERM is   *)
(* the timer thread's, whose own pthread_join fails.                       *)
Terminated(state) ==
    CASE state = "exec"                -> {"exec", Done, "leaving"}
      [] state \in {"bound", "created"} -> {"leaving"}
      [] state = "timed"               -> {"joining"}
      [] state = "joining"             -> {"joining", "leaving"}
      [] state = "hung"                -> {"leaving"}
      [] OTHER                         -> {state}

(* start-stop-daemon -K: SIGTERM to every server there is. *)
StopServer(s) ==
    /\ spc[s] = "idle"
    /\ signalled' = up
    /\ \E after \in [Shell -> UNION {Terminated(spc[r]) : r \in Shell}] :
          /\ \A r \in Shell : after[r] \in Terminated(spc[r])
          /\ spc' = [after EXCEPT ![s] = IF build = "char" THEN "stop" ELSE "idle"]
    /\ UNCHANGED <<build, pathVars, up, leaving, threadVars, history>>

(* The handler of a server that starts: remove(), and exit(0) unless it    *)
(* waits for its timer thread.                                             *)
StarterLeaves(s) ==
    /\ \/ StartStep(s, "leaving", Done)
       \/ StartStep(s, "joining", "hung")
    /\ RemovePath
    /\ UNCHANGED <<content, up, timer, served, rival>>

(* ... and to a script that is loading. *)
StopLoad(s) ==
    /\ spc[s] = "stop"
    /\ spc' = [r \in Shell |-> IF r = s \/ spc[r] \in Loading THEN "idle" ELSE spc[r]]
    /\ UNCHANGED <<build, pathVars, serverVars, threadVars, history>>

LoadScript(s) ==
    build = "char" /\ ScriptStep(s, "idle", "insmod") /\ UNCHANGED <<pathVars, history>>

(* insmod, when aesdchar.ko lies next to the script, or modprobe; the      *)
(* script ends when it fails.  insmod fails when the module is loaded      *)
(* already, modprobe is content.                                           *)
Insmod(s) ==
    /\ \/ loaded' = TRUE /\ ScriptStep(s, "insmod", "rm")
       \/ UNCHANGED loaded /\ ScriptStep(s, "insmod", "idle")
    /\ UNCHANGED <<node, content, history>>

LoadRemove(s) ==
    /\ ScriptStep(s, "rm", "mknod")
    /\ RemovePath
    /\ UNCHANGED <<loaded, content, served, rival, overlap>>

(* mknod fails when something has been created there meanwhile. *)
Mknod(s) ==
    /\ ScriptStep(s, "mknod", "idle")
    /\ node' = IF node = "none" THEN "device" ELSE node
    /\ UNCHANGED <<loaded, content, history>>

(* Slip: the module does not name its owner, and goes while it is in use. *)
RmmodInUse(s) ==
    /\ build = "char"
    /\ ScriptStep(s, "idle", IF loaded THEN "unload" ELSE "idle")
    /\ loaded' = FALSE
    /\ content' = Cleared("device")
    /\ overlap' = (overlap \/ \E r \in Shell : spc[r] \in Loading)
    /\ UNCHANGED <<node, served, touched, rival>>

(* aesdchar_unload: rmmod is refused while the device is open. *)
Rmmod(s) ==
    /\ build = "char" /\ loaded /\ ~Open("device")
    /\ ScriptStep(s, "idle", "unload")
    /\ loaded' = FALSE
    /\ content' = Cleared("device")
    /\ overlap' = (overlap \/ \E r \in Shell : spc[r] \in Loading)
    /\ UNCHANGED <<node, served, touched, rival>>

(* Slip: the node stays behind. *)
UnloadKeepsNode(s) == ScriptStep(s, "unload", "idle") /\ UNCHANGED <<pathVars, history>>

UnloadRemove(s) ==
    /\ ScriptStep(s, "unload", "idle")
    /\ RemovePath
    /\ UNCHANGED <<loaded, content, served, rival, overlap>>

-----------------------------------------------------------------------------
LifeInit ==
    /\ build \in {"char", "file"}
    /\ node = "none" /\ loaded = FALSE
    /\ content = [f \in File \cup {"device"} |-> <<>>]
    /\ up = FALSE /\ signalled = FALSE /\ leaving = {}
    /\ tpc = [c \in Conn |-> "unused"]
    /\ file = [c \in Conn |-> "none"]
    /\ pos = [c \in Conn |-> 0]
    /\ timer = "none"
    /\ spc = [s \in Shell |-> "idle"]
    /\ served = "none" /\ touched = FALSE /\ rival = FALSE /\ overlap = FALSE

ThreadStep(c) ==
    Accept(c) \/ ThreadOpen(c) \/ ThreadOpenFails(c) \/ SeekRefused(c)
    \/ ThreadWrite(c) \/ ThreadClose(c)

TimerStep == TimerOpen \/ TimerWrite \/ \E s \in Shell : StarterStamp(s)

(* A script that has been begun; the others begin one. *)
ScriptRuns(s) ==
    Bind(s) \/ Creat(s) \/ TimerCreate(s) \/ Listen(s) \/ StartFails(s) \/ StarterLeaves(s)
    \/ StartLoad(s) \/ StopLoad(s)
    \/ Insmod(s) \/ LoadRemove(s) \/ Mknod(s) \/ UnloadRemove(s)

ScriptBegins(s) == StartServer(s) \/ StopServer(s) \/ LoadScript(s) \/ Rmmod(s)

Actor == Conn \cup {"main", "timer"}

LifeNext ==
    \/ \E c \in Conn : ThreadStep(c)
    \/ TimerStep
    \/ \E a \in Actor : signal_handler(a)
    \/ exit_safely
    \/ ExitFailure
    \/ \E s \in Shell : ScriptRuns(s) \/ ScriptBegins(s)

LifeSpec == LifeInit /\ [][LifeNext]_lifeVars

(* Scripts that run go on, and so does a server that has been signalled.   *)
(* Nobody owes a script.                                                   *)
LifeFairness ==
    /\ WF_lifeVars((\E a \in Actor : signal_handler(a)) \/ exit_safely)
    /\ \A s \in Shell : WF_lifeVars(ScriptRuns(s))

LifeFairSpec == LifeSpec /\ LifeFairness

-----------------------------------------------------------------------------
Item == Conn \cup {Stamp}

(* Where a shell can be. *)
ShellAt == {"idle", "exec", "serving", "load", "stop", "unload"}
           \cup Starting \cup Stopped \cup Loading

LifeTypeOK ==
    /\ build \in {"char", "file"}
    /\ node \in File \cup {"none", "device"} /\ loaded \in BOOLEAN
    /\ content \in [File \cup {"device"} -> Seq(Item)]
    /\ up \in BOOLEAN /\ signalled \in BOOLEAN
    /\ leaving \subseteq Actor
    /\ tpc \in [Conn -> {"unused", "receiving", "opened", "written", "done", "dropped"}]
    /\ file \in [Conn -> File \cup {"none", "device"}]
    /\ pos \in [Conn -> Nat]
    /\ timer \in File \cup {"none", "idle"}
    /\ spc \in [Shell -> ShellAt]
    /\ served \in File \cup {"none", "device"}
    /\ touched \in BOOLEAN /\ rival \in BOOLEAN /\ overlap \in BOOLEAN
    /\ up <=> \E s \in Shell : spc[s] = "serving"
    /\ \A c \in Conn : file[c] = "none" <=> tpc[c] \notin {"opened", "written"}

(* From its first listen until somebody stops the server, or removes       *)
(* file_path from outside, file_path names what it named then, and that is *)
(* what every thread and the timer have open: no second server, however    *)
(* far its start gets, no start script that finds the server running, no   *)
(* thread replaces it.  (What AesdSocket takes for granted of              *)
(* /dev/aesdchar.)                                                         *)
PathStays ==
    up /\ leaving = {} /\ ~touched =>
        /\ node = served
        /\ \A c \in Conn : file[c] \in {"none", served}
        /\ timer \in {"none", "idle", served}

(* In the build with an ordinary file, the file holds each packet written  *)
(* since the server began to listen exactly once, whatever the timers, the *)
(* other threads and second servers do, until file_path is removed.  The   *)
(* one thing that undoes packets is the creat of a server that had already *)
(* bound the port when this one began to listen, and only such a one: bind  *)
(* keeps the later ones from their creat.                                  *)
FileKeepsPackets ==
    build = "file" /\ up /\ leaving = {} /\ ~touched /\ ~rival =>
        \A c \in Conn : tpc[c] \in {"written", "done"} =>
            Cardinality({i \in DOMAIN content[node] : content[node][i] = c}) = 1

(* A thread that wrote its packet to the device, and goes on to read, gets *)
(* the packet itself, whatever scripts run: the driver cannot be unloaded  *)
(* under it.                                                               *)
AnswerHoldsPacket ==
    \A c \in Conn : tpc[c] = "written" /\ file[c] = "device" =>
        \E i \in DOMAIN Answer(c) : Answer(c)[i] = c

(* aesdchar_unload, "Remove stale nodes": there is no device node without  *)
(* its driver, except between the two steps of an unload, and after an     *)
(* unload in the middle of a load.                                         *)
NoStaleNode ==
    node = "device" => loaded \/ overlap \/ \E s \in Shell : spc[s] = "unload"

(* Stopping the server with the device lets the start script, which has    *)
(* been running it in the foreground, go on and end.                       *)
StopCompletes ==
    \A s \in Shell :
        build = "char" /\ signalled /\ spc[s] = "serving" ~> spc[s] = "idle"

=============================================================================
