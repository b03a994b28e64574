--------------------------- MODULE LifecycleProofs ---------------------------
(***************************************************************************)
(* What lies behind file_path, for any number of connections, shells and   *)
(* files, and for both builds of the server.                               *)
(***************************************************************************)
EXTENDS Lifecycle, FiniteSetTheorems, SequenceTheorems, TLAPS

(* A server that is not running has no threads and nothing open.           *)
DownInv ==
    ~up => /\ leaving = {} /\ timer = "none"
           /\ \A c \in Conn : tpc[c] \in {"unused", "dropped"}

(* Each build has a path of its own.  The load scripts run in one build    *)
(* only, the timer thread in the other.                                    *)
BuildInv ==
    /\ build = "char" =>
          /\ timer = "none"
          /\ \A s \in Shell : spc[s] \notin {"timed", "joining", "hung"}
    /\ build = "file" =>
          /\ node # "device"
          /\ \A c \in Conn : file[c] # "device"
          /\ \A s \in Shell : spc[s] \notin Loading \cup {"load", "unload"}

(* Nobody binds the port while a server listens. *)
RivalInv == up /\ ~rival => \A s \in Shell : spc[s] # "bound"

(* A shell that is about to make the node has loaded the driver, which is  *)
(* still there unless it was unloaded under the script.                    *)
LoadInv == (\E s \in Shell : spc[s] \in {"rm", "mknod"}) => loaded \/ overlap

(* The file the server serves is there until it is removed.                *)
ServedInv == up /\ leaving = {} /\ ~touched => node # "none"

(* A packet is at exactly one place of the sequence.                       *)
Once(seq, c) ==
    \E i \in DOMAIN seq : seq[i] = c /\ \A j \in DOMAIN seq : seq[j] = c => j = i

(* A packet that has not been written is nowhere. *)
FreshInv ==
    \A c \in Conn, f \in File \cup {"device"} :
        tpc[c] \in {"unused", "receiving", "opened"} =>
            \A i \in DOMAIN content[f] : content[f][i] # c

(* The packets that have been written are in the file once. *)
PacketInv ==
    build = "file" /\ up /\ leaving = {} /\ ~touched /\ ~rival =>
        \A c \in Conn : tpc[c] \in {"written", "done"} => Once(content[node], c)

(* A thread that has the device open reads it from the start, and its      *)
(* packet stays there: the driver is not unloaded while a thread has the   *)
(* device open.                                                            *)
DeviceInv ==
    \A c \in Conn :
        /\ pos[c] # 0 => tpc[c] = "written" /\ file[c] # "device"
        /\ tpc[c] = "written" /\ file[c] = "device" =>
              \E i \in DOMAIN content["device"] : content["device"][i] = c

LifeInv ==
    /\ LifeTypeOK
    /\ DownInv /\ BuildInv /\ LoadInv /\ RivalInv
    /\ NoStaleNode
    /\ ServedInv /\ PathStays
    /\ FreshInv /\ PacketInv /\ DeviceInv

(* A fresh system: no module, no path, no server.                          *)
LEMMA LifeInvInit == LifeInit => LifeInv
<1> SUFFICES ASSUME LifeInit PROVE LifeInv
  OBVIOUS
<1>1. LifeTypeOK
  <2>1. content \in [File \cup {"device"} -> Seq(Item)]
    BY DEF LifeInit
  <2>2. spc \in [Shell -> ShellAt]
    BY DEF LifeInit, ShellAt
  <2> QED BY <2>1, <2>2 DEF LifeInit, LifeTypeOK
<1>2. DownInv /\ BuildInv /\ LoadInv /\ RivalInv /\ NoStaleNode
  BY DEF LifeInit, DownInv, BuildInv, LoadInv, RivalInv, NoStaleNode, Loading
<1>3. ServedInv /\ PathStays /\ FreshInv /\ PacketInv /\ DeviceInv
  BY DEF LifeInit, ServedInv, PathStays, FreshInv, PacketInv, DeviceInv
<1> QED BY <1>1, <1>2, <1>3 DEF LifeInv

(* open(O_CREAT) makes a new file, and opens as it is what is there.       *)
LEMMA OpenedIs ==
    ASSUME LifeTypeOK
    PROVE  /\ node # "none" => Opened = node
           /\ node = "none" => Opened \in File /\ Unused(Opened)
           /\ Opened \in File \cup {"device"} /\ Opened # "none"
           /\ Opened = "device" <=> node = "device"
<1>1. \E f \in File : f # timer /\ \A c \in Conn : file[c] # f
  <2> DEFINE held(a) == IF a = "timer" THEN timer ELSE file[a]
             open    == [a \in Conn \cup {"timer"} |-> IF held(a) \in File THEN held(a) ELSE "none"]
  <2>1. open \in [Conn \cup {"timer"} -> File \cup {"none"}]
    OBVIOUS
  <2> HIDE DEF open
  <2>2. PICK f \in File : \A a \in Conn \cup {"timer"} : open[a] # f
    BY <2>1, FileAssumption, Zenon
  <2>3. f # timer
    BY <2>2 DEF open
  <2>4. ASSUME NEW c \in Conn PROVE file[c] # f
    BY <2>2, ActorAssumption DEF open
  <2> QED BY <2>3, <2>4
<1>2. CASE node = "none"
  <2>1. \E f \in File : Unused(f)
    BY <1>1, <1>2, FileAssumption DEF Unused, Open
  <2>2. Opened = CHOOSE f \in File : Unused(f)
    BY <1>2 DEF Opened
  <2>3. Opened \in File /\ Unused(Opened)
    BY <2>1, <2>2, Zenon
  <2> QED BY <1>2, <2>3, FileAssumption
<1>3. CASE node # "none"
  BY <1>3 DEF Opened, LifeTypeOK
<1> QED BY <1>2, <1>3

-----------------------------------------------------------------------------
(* The steps that leave the path, the server and the threads alone.        *)

(* What may change among the shells without disturbing anything: who       *)
(* serves and who unloads stays, nobody gets between insmod and mknod or   *)
(* between bind and creat, and each build keeps to its own.                *)
ShellsQuiet ==
    /\ spc' \in [Shell -> ShellAt]
    /\ \A s \in Shell :
          /\ spc'[s] = "serving" <=> spc[s] = "serving"
          /\ spc'[s] = "unload" <=> spc[s] = "unload"
          /\ spc'[s] \in {"rm", "mknod"} => spc[s] \in {"rm", "mknod"}
          /\ up /\ ~rival => spc'[s] # "bound"
          /\ build = "file" => spc'[s] \notin Loading \cup {"load"}
          /\ build = "char" => spc'[s] \notin {"timed", "joining", "hung"}

(* What the shells are known to be at. *)
LEMMA ShellFacts ==
    ASSUME LifeInv
    PROVE  /\ spc \in [Shell -> ShellAt]
           /\ build \in {"char", "file"}
           /\ \A s \in Shell :
                 /\ up /\ ~rival => spc[s] # "bound"
                 /\ build = "file" => spc[s] \notin Loading \cup {"load"}
                 /\ build = "char" => spc[s] \notin {"timed", "joining", "hung"}
BY DEF LifeInv, LifeTypeOK, BuildInv, RivalInv

LEMMA QuietKeepsInv ==
    ASSUME LifeInv, ShellsQuiet, signalled' \in BOOLEAN,
           UNCHANGED <<build, pathVars, up, leaving, threadVars, history>>
    PROVE  LifeInv'
<1> USE DEF LifeInv, pathVars, threadVars, history
<1>1. LifeTypeOK'
  BY DEF LifeTypeOK, ShellsQuiet
<1>2. DownInv'
  BY DEF DownInv
<1>3. BuildInv' /\ LoadInv' /\ RivalInv' /\ NoStaleNode'
  BY DEF LifeTypeOK, BuildInv, LoadInv, RivalInv, NoStaleNode, ShellsQuiet, Loading
<1>4. ServedInv' /\ PathStays'
  BY DEF ServedInv, PathStays
<1>5. FreshInv' /\ PacketInv' /\ DeviceInv'
  BY DEF FreshInv, PacketInv, DeviceInv, Once
<1> QED BY <1>1, <1>2, <1>3, <1>4, <1>5

(* A server that starts goes on or fails, without touching the path. *)
LEMMA StarterKeepsInv ==
    ASSUME LifeInv, NEW s \in Shell, Bind(s) \/ TimerCreate(s) \/ StartFails(s)
    PROVE  LifeInv'
<1>1. UNCHANGED <<build, pathVars, up, signalled, leaving, threadVars, history>>
  BY DEF Bind, TimerCreate, StartFails, StartStep, pathVars, threadVars, history
<1>2. signalled' \in BOOLEAN
  BY <1>1 DEF LifeInv, LifeTypeOK
<1>3. CASE Bind(s)
  <2>1. ~up /\ spc[s] = "exec" /\ spc' = [spc EXCEPT ![s] = "bound"]
    BY <1>3 DEF Bind, StartStep
  <2> QED BY <1>1, <1>2, <2>1, ShellFacts, QuietKeepsInv DEF ShellsQuiet, ShellAt, Loading, Starting
<1>4. CASE TimerCreate(s)
  <2>1. build = "file" /\ spc[s] = "created" /\ spc' = [spc EXCEPT ![s] = "timed"]
    BY <1>4 DEF TimerCreate, StartStep
  <2> QED BY <1>1, <1>2, <2>1, ShellFacts, QuietKeepsInv DEF ShellsQuiet, ShellAt, Loading, Starting
<1>5. CASE StartFails(s)
  <2>1. spc[s] \in {"exec", "bound", "created", "timed"} /\ spc' = [spc EXCEPT ![s] = Done]
    BY <1>5 DEF StartFails, StartStep
  <2> QED BY <1>1, <1>2, <2>1, ShellFacts, QuietKeepsInv DEF ShellsQuiet, ShellAt, Loading, Done
<1> QED BY <1>3, <1>4, <1>5

(* So do the scripts' own steps. *)
LEMMA ScriptsKeepInv ==
    ASSUME LifeInv, NEW s \in Shell,
           StartServer(s) \/ StartLoad(s) \/ LoadScript(s) \/ StopServer(s) \/ StopLoad(s)
    PROVE  LifeInv'
<1>1. /\ UNCHANGED <<build, pathVars, up, leaving, threadVars, history>>
      /\ signalled' = signalled \/ signalled' = up
  BY DEF StartServer, StartLoad, LoadScript, StopServer, StopLoad, ScriptStep, serverVars
<1>2. signalled' \in BOOLEAN
  BY <1>1 DEF LifeInv, LifeTypeOK
<1>3. ASSUME StartServer(s) \/ StartLoad(s) \/ LoadScript(s) PROVE ShellsQuiet
  <2>1. \/ spc[s] = "idle" /\ spc' = [spc EXCEPT ![s] = "exec"]
        \/ spc[s] = "idle" /\ spc' = [spc EXCEPT ![s] = Done]
        \/ spc[s] = "load" /\ (spc' = [spc EXCEPT ![s] = "idle"] \/ spc' = [spc EXCEPT ![s] = "insmod"])
        \/ build = "char" /\ spc[s] = "idle" /\ spc' = [spc EXCEPT ![s] = "insmod"]
    BY <1>3 DEF StartServer, StartLoad, LoadScript, ScriptStep
  <2> QED BY <2>1, ShellFacts DEF ShellsQuiet, ShellAt, Loading, Done
<1>4. ASSUME StopLoad(s) PROVE ShellsQuiet
  BY <1>4, ShellFacts DEF StopLoad, ShellsQuiet, ShellAt, Loading
<1>5. ASSUME StopServer(s) PROVE ShellsQuiet
  <2>1. PICK after \in [Shell -> UNION {Terminated(spc[r]) : r \in Shell}] :
            /\ \A r \in Shell : after[r] \in Terminated(spc[r])
            /\ spc' = [after EXCEPT ![s] = IF build = "char" THEN "stop" ELSE "idle"]
    BY <1>5 DEF StopServer
  <2>2. spc[s] = "idle"
    BY <1>5 DEF StopServer
  <2>3. ASSUME NEW r \in Shell
        PROVE  /\ after[r] \in ShellAt
               /\ after[r] = "serving" <=> spc[r] = "serving"
               /\ after[r] = "unload" <=> spc[r] = "unload"
               /\ after[r] \in {"rm", "mknod"} => spc[r] \in {"rm", "mknod"}
               /\ up /\ ~rival => after[r] # "bound"
               /\ build = "file" => after[r] \notin Loading \cup {"load"}
               /\ build = "char" => after[r] \notin {"timed", "joining", "hung"}
    <3>1. after[r] \in Terminated(spc[r]) /\ spc[r] \in ShellAt
      BY <2>1, ShellFacts
    <3>2. CASE spc[r] \in {"exec", "bound", "created", "timed", "joining", "hung"}
      BY <3>1, <3>2, ShellFacts DEF Terminated, ShellAt, Loading, Stopped, Done
    <3>3. CASE spc[r] \notin {"exec", "bound", "created", "timed", "joining", "hung"}
      <4>1. after[r] = spc[r]
        BY <3>1, <3>3 DEF Terminated
      <4> QED BY <3>1, <4>1, ShellFacts
    <3> QED BY <3>2, <3>3
  <2>4. /\ spc' \in [Shell -> ShellAt]
        /\ \A r \in Shell : spc'[r] = IF r = s THEN IF build = "char" THEN "stop" ELSE "idle"
                                               ELSE after[r]
    BY <2>1, <2>3 DEF ShellAt
  <2> QED BY <2>2, <2>3, <2>4, ShellFacts DEF ShellsQuiet, Loading
<1> QED BY <1>1, <1>2, <1>3, <1>4, <1>5, QuietKeepsInv

-----------------------------------------------------------------------------
(* The scripts that load and unload the driver.                            *)

LEMMA InsmodKeepsInv ==
    ASSUME LifeInv, NEW s \in Shell, Insmod(s)
    PROVE  LifeInv'
<1>1. /\ UNCHANGED <<build, node, content, up, signalled, leaving, threadVars, history>>
      /\ spc[s] = "insmod"
      /\ \/ spc' = [spc EXCEPT ![s] = "rm"]
         \/ spc' = [spc EXCEPT ![s] = "idle"]
  BY DEF Insmod, ScriptStep, serverVars
<1>2. loaded' = TRUE \/ (loaded' = loaded /\ spc' = [spc EXCEPT ![s] = "idle"])
  BY DEF Insmod, ScriptStep
<1>3. CASE loaded' = loaded /\ spc' = [spc EXCEPT ![s] = "idle"]
  <2>1. UNCHANGED pathVars /\ signalled' \in BOOLEAN
    BY <1>1, <1>3 DEF pathVars, LifeInv, LifeTypeOK
  <2>2. ShellsQuiet
    BY <1>1, <1>3, ShellFacts DEF ShellsQuiet, ShellAt, Loading
  <2> QED BY <1>1, <2>1, <2>2, QuietKeepsInv
<1>4. CASE loaded' = TRUE
  <2> USE <1>1, ShellFacts DEF LifeInv, threadVars, history
  <2>1. /\ spc' \in [Shell -> ShellAt]
        /\ build # "file"
        /\ \A r \in Shell : /\ spc'[r] = "serving" <=> spc[r] = "serving"
                            /\ spc'[r] = "bound" <=> spc[r] = "bound"
                            /\ spc'[r] \in {"timed", "joining", "hung"} <=>
                                  spc[r] \in {"timed", "joining", "hung"}
    BY DEF ShellAt, Loading
  <2>2. LifeTypeOK'
    BY <1>4, <2>1 DEF LifeTypeOK
  <2>3. DownInv' /\ BuildInv' /\ RivalInv'
    BY <2>1 DEF DownInv, BuildInv, RivalInv
  <2>4. LoadInv' /\ NoStaleNode'
    BY <1>4, Zenon DEF LoadInv, NoStaleNode
  <2>5. ServedInv' /\ PathStays'
    BY DEF ServedInv, PathStays
  <2>6. FreshInv' /\ PacketInv' /\ DeviceInv'
    BY DEF FreshInv, PacketInv, DeviceInv, Once
  <2> QED BY <2>2, <2>3, <2>4, <2>5, <2>6
<1> QED BY <1>2, <1>3, <1>4

(* Somebody removes the path from outside the server that listens: a       *)
(* script, or a server that is stopped while it starts.                    *)
LEMMA RemoveKeepsInv ==
    ASSUME LifeInv, NEW s \in Shell, LoadRemove(s) \/ UnloadRemove(s) \/ StarterLeaves(s)
    PROVE  LifeInv'
<1> USE DEF LifeInv
<1>1. /\ UNCHANGED <<build, loaded, content, up, signalled, leaving, tpc, file, pos, timer>>
      /\ UNCHANGED <<served, rival, overlap>>
      /\ node' = "none"
      /\ \/ spc[s] = "rm" /\ spc' = [spc EXCEPT ![s] = "mknod"]
         \/ spc[s] = "unload" /\ spc' = [spc EXCEPT ![s] = "idle"]
         \/ spc[s] = "leaving" /\ spc' = [spc EXCEPT ![s] = Done]
         \/ spc[s] = "joining" /\ spc' = [spc EXCEPT ![s] = "hung"]
  BY DEF LoadRemove, UnloadRemove, StarterLeaves, StartStep, RemovePath, ScriptStep, serverVars,
         threadVars
<1>2. touched' = up
  BY DEF LoadRemove, UnloadRemove, StarterLeaves, RemovePath
<1>3. touched' \in BOOLEAN /\ (up' => touched')
  BY <1>1, <1>2, Zenon DEF LifeTypeOK
<1>4. /\ spc' \in [Shell -> ShellAt]
      /\ \A r \in Shell : /\ spc'[r] = "serving" <=> spc[r] = "serving"
                          /\ spc'[r] = "bound" <=> spc[r] = "bound"
                          /\ spc'[r] \in {"rm", "mknod"} => spc[r] \in {"rm", "mknod"}
                          /\ build = "char" => spc'[r] \notin {"timed", "joining", "hung"}
                          /\ build = "file" => spc'[r] \notin Loading \cup {"load", "unload"}
  BY <1>1, ShellFacts DEF ShellAt, Loading, Stopped, Done, BuildInv
<1>5. LifeTypeOK'
  BY <1>1, <1>3, <1>4 DEF LifeTypeOK
<1>6. DownInv' /\ BuildInv' /\ NoStaleNode' /\ RivalInv'
  BY <1>1, <1>4 DEF DownInv, BuildInv, NoStaleNode, RivalInv
<1>7. LoadInv'
  BY <1>1, <1>4 DEF LoadInv
<1>8. ServedInv' /\ PathStays' /\ PacketInv'
  BY <1>3, Zenon DEF ServedInv, PathStays, PacketInv
<1>9. FreshInv' /\ DeviceInv'
  BY <1>1 DEF FreshInv, DeviceInv
<1> QED BY <1>5, <1>6, <1>7, <1>8, <1>9

LEMMA MknodKeepsInv ==
    ASSUME LifeInv, NEW s \in Shell, Mknod(s)
    PROVE  LifeInv'
<1> USE DEF LifeInv
<1>1. /\ UNCHANGED <<build, loaded, content, up, signalled, leaving, tpc, file, pos, timer>>
      /\ UNCHANGED <<served, touched, rival, overlap>>
      /\ node' = IF node = "none" THEN "device" ELSE node
      /\ spc[s] = "mknod" /\ spc' = [spc EXCEPT ![s] = "idle"]
  BY DEF Mknod, ScriptStep, serverVars, threadVars, history
<1>2. build = "char" /\ (loaded \/ overlap)
  BY <1>1 DEF LifeTypeOK, BuildInv, LoadInv, Loading
<1>3. /\ spc' \in [Shell -> ShellAt]
      /\ \A r \in Shell : /\ spc'[r] = "serving" <=> spc[r] = "serving"
                          /\ spc'[r] = "bound" <=> spc[r] = "bound"
                          /\ spc'[r] \in {"rm", "mknod"} => spc[r] \in {"rm", "mknod"}
                          /\ spc'[r] \notin {"timed", "joining", "hung"}
  BY <1>1, <1>2, ShellFacts DEF ShellAt
<1>4. LifeTypeOK'
  BY <1>1, <1>3 DEF LifeTypeOK
<1>5. DownInv' /\ BuildInv' /\ RivalInv'
  BY <1>1, <1>2, <1>3 DEF DownInv, BuildInv, RivalInv
<1>6. LoadInv' /\ NoStaleNode'
  BY <1>1, <1>2, <1>3 DEF LoadInv, NoStaleNode
<1>7. ServedInv' /\ PathStays'
  BY <1>1 DEF ServedInv, PathStays
<1>8. FreshInv' /\ PacketInv' /\ DeviceInv'
  BY <1>1, <1>2 DEF FreshInv, PacketInv, DeviceInv
<1> QED BY <1>4, <1>5, <1>6, <1>7, <1>8

(* rmmod empties the device, which nobody has open. *)
LEMMA RmmodKeepsInv ==
    ASSUME LifeInv, NEW s \in Shell, Rmmod(s)
    PROVE  LifeInv'
<1> USE DEF LifeInv
<1>1. /\ UNCHANGED <<build, node, up, signalled, leaving, tpc, file, pos, timer>>
      /\ UNCHANGED <<served, touched, rival>>
      /\ spc[s] = "idle" /\ spc' = [spc EXCEPT ![s] = "unload"]
      /\ content' = [content EXCEPT !["device"] = <<>>]
      /\ build = "char" /\ \A c \in Conn : file[c] # "device"
  BY DEF Rmmod, ScriptStep, serverVars, threadVars, Cleared, Open
<1>2. loaded' = FALSE /\ loaded' \in BOOLEAN
  BY DEF Rmmod
<1>3. overlap' = (overlap \/ \E r \in Shell : spc[r] \in Loading)
  BY DEF Rmmod
<1>4. overlap' \in BOOLEAN /\ (overlap => overlap')
      /\ ((\E r \in Shell : spc[r] \in {"rm", "mknod"}) => overlap')
  BY <1>3, Zenon DEF Loading, LifeTypeOK
<1>5. /\ spc' \in [Shell -> ShellAt]
      /\ spc'[s] = "unload"
      /\ \A r \in Shell : /\ spc'[r] = "serving" <=> spc[r] = "serving"
                          /\ spc'[r] = "bound" <=> spc[r] = "bound"
                          /\ spc'[r] \in {"rm", "mknod"} => spc[r] \in {"rm", "mknod"}
                          /\ spc'[r] \notin {"timed", "joining", "hung"}
  BY <1>1, ShellFacts DEF ShellAt
<1>6. content' \in [File \cup {"device"} -> Seq(Item)]
      /\ content'["device"] = <<>>
      /\ \A f \in File : content'[f] = content[f]
  BY <1>1, FileAssumption DEF LifeTypeOK
<1>7. LifeTypeOK'
  BY <1>1, <1>2, <1>4, <1>5, <1>6 DEF LifeTypeOK
<1>8. DownInv' /\ BuildInv' /\ RivalInv' /\ NoStaleNode'
  BY <1>1, <1>5 DEF DownInv, BuildInv, RivalInv, NoStaleNode
<1>9. LoadInv'
  BY <1>4, <1>5, Zenon DEF LoadInv
<1>10. ServedInv' /\ PathStays'
  BY <1>1 DEF ServedInv, PathStays
<1>11. FreshInv'
  BY <1>1, <1>6 DEF FreshInv
<1>12. PacketInv' /\ DeviceInv'
  BY <1>1 DEF PacketInv, DeviceInv
<1> QED BY <1>7, <1>8, <1>9, <1>10, <1>11, <1>12

-----------------------------------------------------------------------------
(* The server starts and ends.                                             *)

(* A server opens the path for the first time: only one that had bound the *)
(* port before the other listened can do that to a server that listens.    *)
LEMMA CreatKeepsInv ==
    ASSUME LifeInv, NEW s \in Shell, Creat(s)
    PROVE  LifeInv'
<1>1. /\ UNCHANGED <<build, loaded, up, signalled, leaving, tpc, file, pos, timer>>
      /\ UNCHANGED <<served, touched, rival, overlap>>
      /\ node' = Opened
      /\ content' = IF Opened = "device" THEN content ELSE Cleared(Opened)
      /\ spc[s] = "bound" /\ spc' = [spc EXCEPT ![s] = "created"]
  BY DEF Creat, StartStep
<1>2. /\ node # "none" => Opened = node
      /\ Opened \in File \cup {"device"} /\ Opened # "none"
      /\ Opened = "device" <=> node = "device"
  BY OpenedIs DEF LifeInv
<1>3. /\ spc' \in [Shell -> ShellAt]
      /\ \A r \in Shell : /\ spc'[r] = "serving" <=> spc[r] = "serving"
                          /\ spc'[r] = "unload" <=> spc[r] = "unload"
                          /\ spc'[r] = "bound" => spc[r] = "bound"
                          /\ spc'[r] \in {"rm", "mknod"} => spc[r] \in {"rm", "mknod"}
                          /\ build = "char" => spc'[r] \notin {"timed", "joining", "hung"}
                          /\ build = "file" => spc'[r] \notin Loading \cup {"load", "unload"}
  BY <1>1, ShellFacts DEF LifeInv, BuildInv, ShellAt, Loading, Starting
<1>4. /\ content' \in [File \cup {"device"} -> Seq(Item)]
      /\ content'["device"] = content["device"]
      /\ \A f \in File \cup {"device"} : content'[f] = content[f] \/ content'[f] = <<>>
  BY <1>1, <1>2 DEF LifeInv, LifeTypeOK, Cleared
<1>5. up => rival
  BY <1>1, Zenon DEF LifeInv, RivalInv
<1>6. LifeTypeOK'
  BY <1>1, <1>2, <1>3, <1>4 DEF LifeInv, LifeTypeOK
<1>7. DownInv' /\ BuildInv' /\ RivalInv'
  BY <1>1, <1>2, <1>3 DEF LifeInv, DownInv, BuildInv, RivalInv
<1>8. LoadInv' /\ NoStaleNode'
  BY <1>1, <1>2, <1>3 DEF LifeInv, LoadInv, NoStaleNode
<1>9. ServedInv' /\ PathStays'
  BY <1>1, <1>2 DEF LifeInv, ServedInv, PathStays
<1>10. FreshInv' /\ PacketInv' /\ DeviceInv'
  BY <1>1, <1>4, <1>5 DEF LifeInv, FreshInv, PacketInv, DeviceInv
<1> QED BY <1>6, <1>7, <1>8, <1>9, <1>10 DEF LifeInv

(* It begins to listen, without threads and without packets of its own. *)
LEMMA ListenKeepsInv ==
    ASSUME LifeInv, NEW s \in Shell, Listen(s)
    PROVE  LifeInv'
<1>1. /\ UNCHANGED <<build, node, loaded, content, signalled, leaving, tpc, file, pos, overlap>>
      /\ served' = node
      /\ \/ spc[s] = "created" /\ timer' = "none"
         \/ spc[s] = "timed" /\ timer' = "idle"
      /\ spc' = [spc EXCEPT ![s] = "serving"]
  BY DEF Listen, StartStep
<1>2. up' = TRUE /\ up' \in BOOLEAN /\ ~up
  BY DEF Listen
<1>3. /\ touched' \in BOOLEAN /\ rival' \in BOOLEAN
      /\ ~touched' => node # "none"
      /\ ~rival' => \A r \in Shell : spc[r] # "bound"
  BY DEF Listen
<1>4. /\ leaving = {}
      /\ \A c \in Conn : tpc[c] \in {"unused", "dropped"} /\ file[c] = "none"
  BY <1>2 DEF LifeInv, DownInv, LifeTypeOK
<1>5. /\ spc' \in [Shell -> ShellAt]
      /\ spc'[s] = "serving"
      /\ \A r \in Shell : /\ spc'[r] = "unload" <=> spc[r] = "unload"
                          /\ spc'[r] = "bound" => spc[r] = "bound"
                          /\ spc'[r] \in {"rm", "mknod"} => spc[r] \in {"rm", "mknod"}
                          /\ build = "char" => spc'[r] \notin {"timed", "joining", "hung"}
                          /\ build = "file" => spc'[r] \notin Loading \cup {"load", "unload"}
  BY <1>1, ShellFacts DEF LifeInv, BuildInv, ShellAt, Loading
<1>6. timer' \in {"none", "idle"} /\ (build = "char" => timer' = "none")
  BY <1>1, ShellFacts
<1>7. LifeTypeOK'
  BY <1>1, <1>2, <1>3, <1>5, <1>6 DEF LifeInv, LifeTypeOK
<1>8. DownInv'
  BY <1>2, Zenon DEF DownInv
<1>9. BuildInv' /\ RivalInv'
  BY <1>1, <1>3, <1>5, <1>6 DEF LifeInv, BuildInv, RivalInv
<1>10. LoadInv' /\ NoStaleNode'
  BY <1>1, <1>5 DEF LifeInv, LoadInv, NoStaleNode
<1>11. ServedInv' /\ PathStays'
  BY <1>1, <1>3, <1>4, <1>6 DEF ServedInv, PathStays
<1>12. FreshInv' /\ PacketInv' /\ DeviceInv'
  BY <1>1, <1>4 DEF LifeInv, FreshInv, PacketInv, DeviceInv
<1> QED BY <1>7, <1>8, <1>9, <1>10, <1>11, <1>12 DEF LifeInv

(* exit() takes all threads with it, from whichever thread it is called.   *)
LEMMA ExitKeepsInv ==
    ASSUME LifeInv, Exit
    PROVE  LifeInv'
<1>1. /\ UNCHANGED <<build, node, loaded, overlap>>
      /\ content' = [f \in File \cup {"device"} |->
                        IF f \in {node, "device"} THEN content[f] ELSE <<>>]
      /\ leaving' = {} /\ timer' = "none" /\ served' = "none"
      /\ tpc' = [c \in Conn |-> IF tpc[c] = "unused" THEN "unused" ELSE "dropped"]
      /\ file' = [c \in Conn |-> "none"]
      /\ pos' = [c \in Conn |-> 0]
      /\ spc' = [r \in Shell |-> IF spc[r] = "serving" THEN Done ELSE spc[r]]
  BY DEF Exit
<1>2. /\ up' = FALSE /\ up' \in BOOLEAN /\ signalled' = FALSE /\ signalled' \in BOOLEAN
      /\ touched' \in BOOLEAN /\ rival' \in BOOLEAN
  BY DEF Exit
<1>3. ~up'
  BY <1>2, Zenon
<1>4. /\ spc' \in [Shell -> ShellAt]
      /\ \A r \in Shell : /\ spc'[r] # "serving"
                          /\ spc'[r] = "unload" <=> spc[r] = "unload"
                          /\ spc'[r] \in {"rm", "mknod"} => spc[r] \in {"rm", "mknod"}
                          /\ build = "char" => spc'[r] \notin {"timed", "joining", "hung"}
                          /\ build = "file" => spc'[r] \notin Loading \cup {"load", "unload"}
  BY <1>1, ShellFacts DEF LifeInv, BuildInv, ShellAt, Loading, Done
<1>5. /\ content' \in [File \cup {"device"} -> Seq(Item)]
      /\ \A f \in File \cup {"device"} : content'[f] = content[f] \/ content'[f] = <<>>
  BY <1>1 DEF LifeInv, LifeTypeOK
<1>6. LifeTypeOK'
  BY <1>1, <1>2, <1>3, <1>4, <1>5 DEF LifeInv, LifeTypeOK
<1>7. DownInv'
  BY <1>1 DEF DownInv
<1>8. BuildInv' /\ LoadInv' /\ NoStaleNode'
  BY <1>1, <1>4 DEF LifeInv, BuildInv, LoadInv, NoStaleNode
<1>9. RivalInv' /\ ServedInv' /\ PathStays' /\ PacketInv'
  BY <1>3, Zenon DEF RivalInv, ServedInv, PathStays, PacketInv
<1>10. FreshInv'
  <2>1. \A c \in Conn : tpc'[c] \in {"unused", "receiving", "opened"} => tpc[c] = "unused"
    BY <1>1
  <2> QED BY <1>5, <2>1 DEF LifeInv, FreshInv
<1>11. DeviceInv'
  BY <1>1 DEF DeviceInv
<1> QED BY <1>6, <1>7, <1>8, <1>9, <1>10, <1>11 DEF LifeInv

(* A thread enters exit_safely and removes the path.                       *)
LEMMA LeaveKeepsInv ==
    ASSUME LifeInv, NEW a \in Actor, SeekRefused(a) \/ signal_handler(a)
    PROVE  LifeInv'
<1>1. /\ UNCHANGED <<build, loaded, content, tpc, file, pos, timer, spc>>
      /\ UNCHANGED <<served, touched, rival, overlap>>
      /\ leaving' = leaving \cup {a} /\ node' = "none"
  BY DEF SeekRefused, signal_handler, Leave, threadVars, history
<1>2. UNCHANGED up /\ signalled' \in BOOLEAN /\ up
  BY DEF SeekRefused, signal_handler, Runs, Alive, LifeInv, LifeTypeOK
<1>3. LifeTypeOK'
  BY <1>1, <1>2 DEF LifeInv, LifeTypeOK
<1>4. DownInv' /\ ServedInv' /\ PathStays' /\ PacketInv'
  <2>1. leaving' # {} /\ up'
    BY <1>1, <1>2
  <2> QED BY <2>1 DEF DownInv, ServedInv, PathStays, PacketInv
<1>5. BuildInv' /\ LoadInv' /\ RivalInv' /\ NoStaleNode'
  BY <1>1, <1>2 DEF LifeInv, BuildInv, LoadInv, RivalInv, NoStaleNode
<1>6. FreshInv' /\ DeviceInv'
  BY <1>1 DEF LifeInv, FreshInv, DeviceInv
<1> QED BY <1>3, <1>4, <1>5, <1>6 DEF LifeInv

-----------------------------------------------------------------------------
(* The threads of the server.                                              *)

(* What write() at the end of a file does to the packets in it.            *)
LEMMA AppendOnce ==
    ASSUME NEW seq \in Seq(Item), NEW item \in Item
    PROVE  /\ Append(seq, item) \in Seq(Item)
           /\ \E i \in DOMAIN Append(seq, item) : Append(seq, item)[i] = item
           /\ \A c : item # c /\ Once(seq, c) => Once(Append(seq, item), c)
           /\ \A c : item # c /\ (\A i \in DOMAIN seq : seq[i] # c) =>
                        \A i \in DOMAIN Append(seq, item) : Append(seq, item)[i] # c
           /\ (\A i \in DOMAIN seq : seq[i] # item) => Once(Append(seq, item), item)
           /\ \A c : (\E i \in DOMAIN seq : seq[i] = c) =>
                        \E i \in DOMAIN Append(seq, item) : Append(seq, item)[i] = c
<1> DEFINE new == Append(seq, item)
           n   == Len(seq)
<1>1. /\ new \in Seq(Item) /\ DOMAIN new = 1 .. n + 1 /\ DOMAIN seq = 1 .. n /\ n \in Nat
      /\ new[n + 1] = item /\ \A i \in 1 .. n : new[i] = seq[i]
  OBVIOUS
<1> HIDE DEF new, n
<1>2. n + 1 \in DOMAIN new /\ \A i \in DOMAIN new : i = n + 1 \/ i \in DOMAIN seq
  BY <1>1
<1>3. \A i \in DOMAIN seq : i \in DOMAIN new /\ new[i] = seq[i] /\ i # n + 1
  BY <1>1
<1>4. \A c : item # c /\ Once(seq, c) => Once(new, c)
  BY <1>1, <1>2, <1>3 DEF Once
<1>5. (\A i \in DOMAIN seq : seq[i] # item) => Once(new, item)
  BY <1>1, <1>2, <1>3 DEF Once
<1> QED BY <1>1, <1>2, <1>3, <1>4, <1>5 DEF new

(* Nothing but one thread's progress changes. *)
LEMMA AcceptKeepsInv ==
    ASSUME LifeInv, NEW c \in Conn, Accept(c) \/ ThreadClose(c)
    PROVE  LifeInv'
<1>1. /\ UNCHANGED <<build, pathVars, up, signalled, leaving, timer, spc, history>>
      /\ up
      /\ \/ /\ tpc[c] = "unused" /\ tpc' = [tpc EXCEPT ![c] = "receiving"]
            /\ UNCHANGED <<file, pos>>
         \/ /\ tpc[c] = "written" /\ tpc' = [tpc EXCEPT ![c] = "done"]
            /\ file' = [file EXCEPT ![c] = "none"] /\ pos' = [pos EXCEPT ![c] = 0]
  BY DEF Accept, ThreadClose, Runs, serverVars
<1> USE DEF pathVars, history
<1>2. /\ tpc' \in [Conn -> {"unused", "receiving", "opened", "written", "done", "dropped"}]
      /\ file' \in [Conn -> File \cup {"none", "device"}]
      /\ pos' \in [Conn -> Nat]
      /\ file'[c] = "none" /\ tpc'[c] \notin {"opened", "written"} /\ pos'[c] = 0
      /\ tpc'[c] \in {"written", "done"} <=> tpc[c] \in {"written", "done"}
      /\ tpc'[c] \in {"unused", "receiving", "opened"} <=> tpc[c] \in {"unused", "receiving", "opened"}
      /\ \A d \in Conn : d # c => tpc'[d] = tpc[d] /\ file'[d] = file[d] /\ pos'[d] = pos[d]
  <2>1. file[c] = "none" <=> tpc[c] \notin {"opened", "written"}
    BY DEF LifeInv, LifeTypeOK
  <2>2. pos[c] # 0 => tpc[c] = "written"
    BY DEF LifeInv, DeviceInv
  <2>3. /\ tpc \in [Conn -> {"unused", "receiving", "opened", "written", "done", "dropped"}]
        /\ file \in [Conn -> File \cup {"none", "device"}]
        /\ pos \in [Conn -> Nat]
    BY DEF LifeInv, LifeTypeOK
  <2>4. CASE tpc[c] = "unused"
    BY <1>1, <2>1, <2>2, <2>3, <2>4
  <2>5. CASE tpc[c] = "written"
    BY <1>1, <2>1, <2>2, <2>3, <2>5
  <2> QED BY <1>1, <2>4, <2>5
<1>3. LifeTypeOK'
  <2>1. ASSUME NEW d \in Conn PROVE file'[d] = "none" <=> tpc'[d] \notin {"opened", "written"}
    <3>1. file[d] = "none" <=> tpc[d] \notin {"opened", "written"}
      BY DEF LifeInv, LifeTypeOK
    <3> QED BY <1>2, <3>1
  <2>2. up' <=> \E s \in Shell : spc'[s] = "serving"
    BY <1>1 DEF LifeInv, LifeTypeOK
  <2> HIDE DEF pathVars, history
  <2>3. UNCHANGED <<build, node, loaded, content, up, signalled, leaving, timer, spc,
                    served, touched, rival, overlap>>
    BY <1>1 DEF pathVars, history
  <2> QED BY <1>2, <2>1, <2>2, <2>3 DEF LifeInv, LifeTypeOK
<1>4. DownInv' /\ BuildInv' /\ LoadInv' /\ RivalInv' /\ NoStaleNode'
  BY <1>1, <1>2 DEF LifeInv, DownInv, BuildInv, LoadInv, RivalInv, NoStaleNode
<1>5. ServedInv' /\ PathStays'
  BY <1>1, <1>2 DEF LifeInv, ServedInv, PathStays
<1>6. FreshInv' /\ PacketInv'
  BY <1>1, <1>2 DEF LifeInv, FreshInv, PacketInv, Once
<1>7. DeviceInv'
  BY <1>1, <1>2 DEF LifeInv, DeviceInv
<1> QED BY <1>3, <1>4, <1>5, <1>6, <1>7 DEF LifeInv

(* open(O_CREAT) by a thread or by the timer.  While the path is there, no *)
(* file is created; and a file that is created is none that anybody has    *)
(* open.                                                                   *)
LEMMA CreateKeepsPath ==
    ASSUME LifeInv, OpenCreates,
           UNCHANGED <<build, loaded, up, leaving, spc, history>>
    PROVE  /\ node' = Opened /\ Opened \in File \cup {"device"}
           /\ content' \in [File \cup {"device"} -> Seq(Item)]
           /\ content'["device"] = content["device"]
           /\ \A f \in File \cup {"device"} : content'[f] = content[f] \/ content'[f] = <<>>
           /\ Opened = "device" => node = "device"
           /\ node # "none" => Opened = node /\ content' = content
           /\ RivalInv' /\ NoStaleNode' /\ LoadInv' /\ ServedInv'
<1>1. /\ node # "none" => Opened = node
      /\ Opened \in File \cup {"device"} /\ Opened # "none"
      /\ Opened = "device" <=> node = "device"
  BY OpenedIs DEF LifeInv
<1>2. /\ node' = Opened
      /\ content' = IF node = "none" THEN Cleared(Opened) ELSE content
  BY DEF OpenCreates
<1>3. /\ content' \in [File \cup {"device"} -> Seq(Item)]
      /\ content'["device"] = content["device"]
      /\ \A f \in File \cup {"device"} : content'[f] = content[f] \/ content'[f] = <<>>
  BY <1>1, <1>2 DEF LifeInv, LifeTypeOK, Cleared
<1>4. RivalInv' /\ NoStaleNode' /\ LoadInv' /\ ServedInv'
  BY <1>1, <1>2 DEF LifeInv, RivalInv, NoStaleNode, LoadInv, ServedInv, history
<1> QED BY <1>1, <1>2, <1>3, <1>4

LEMMA OpenKeepsInv ==
    ASSUME LifeInv, NEW c \in Conn, ThreadOpen(c)
    PROVE  LifeInv'
<1>1. /\ UNCHANGED <<build, loaded, up, signalled, leaving, pos, timer, spc, history>>
      /\ up /\ OpenCreates
      /\ tpc[c] = "receiving" /\ tpc' = [tpc EXCEPT ![c] = "opened"]
      /\ file' = [file EXCEPT ![c] = Opened]
  BY DEF ThreadOpen, Runs, serverVars
<1>2. /\ node' = Opened /\ Opened \in File \cup {"device"}
      /\ content' \in [File \cup {"device"} -> Seq(Item)]
      /\ content'["device"] = content["device"]
      /\ \A f \in File \cup {"device"} : content'[f] = content[f] \/ content'[f] = <<>>
      /\ Opened = "device" => node = "device"
      /\ node # "none" => Opened = node /\ content' = content
      /\ RivalInv' /\ NoStaleNode' /\ LoadInv' /\ ServedInv'
  BY <1>1, CreateKeepsPath
<1> USE DEF history
<1>3. LifeTypeOK'
  BY <1>1, <1>2, FileAssumption DEF LifeInv, LifeTypeOK
<1>4. DownInv' /\ BuildInv'
  BY <1>1, <1>2 DEF LifeInv, LifeTypeOK, DownInv, BuildInv
<1>5. PathStays'
  BY <1>1, <1>2 DEF LifeInv, LifeTypeOK, ServedInv, PathStays
<1>6. /\ \A d \in Conn : /\ tpc'[d] \in {"unused", "receiving", "opened"} =>
                               tpc[d] \in {"unused", "receiving", "opened"}
                         /\ tpc'[d] \in {"written", "done"} => tpc[d] \in {"written", "done"}
  BY <1>1 DEF LifeInv, LifeTypeOK
<1>7. FreshInv'
  BY <1>2, <1>6 DEF LifeInv, FreshInv
<1>8. PacketInv'
  <2>1. ASSUME leaving = {}, ~touched PROVE node # "none"
    BY <1>1, <2>1 DEF LifeInv, ServedInv
  <2> QED BY <1>1, <1>2, <1>6, <2>1 DEF LifeInv, PacketInv, Once
<1>9. DeviceInv'
  BY <1>1, <1>2 DEF LifeInv, LifeTypeOK, DeviceInv
<1> QED BY <1>2, <1>3, <1>4, <1>5, <1>7, <1>8, <1>9 DEF LifeInv

(* write() of a packet, to the file at the path or to the device. *)
LEMMA WriteKeepsInv ==
    ASSUME LifeInv, NEW c \in Conn, ThreadWrite(c)
    PROVE  LifeInv'
<1> DEFINE f   == file[c]
           new == Append(content[f], c)
<1>1. /\ UNCHANGED <<build, node, loaded, up, signalled, leaving, file, timer, spc, history>>
      /\ up
      /\ tpc[c] = "opened" /\ tpc' = [tpc EXCEPT ![c] = "written"]
      /\ content' = [content EXCEPT ![f] = new]
      /\ pos' = [pos EXCEPT ![c] = IF f = "device" THEN pos[c] ELSE Len(content'[f])]
  BY DEF ThreadWrite, Runs, serverVars
<1>2. /\ f \in File \cup {"device"} /\ content[f] \in Seq(Item) /\ pos[c] = 0
      /\ content \in [File \cup {"device"} -> Seq(Item)]
      /\ tpc \in [Conn -> {"unused", "receiving", "opened", "written", "done", "dropped"}]
      /\ pos \in [Conn -> Nat]
  BY <1>1 DEF LifeInv, LifeTypeOK, DeviceInv
<1>3. /\ new \in Seq(Item)
      /\ \E i \in DOMAIN new : new[i] = c
      /\ \A d : c # d /\ Once(content[f], d) => Once(new, d)
      /\ \A d : c # d /\ (\A i \in DOMAIN content[f] : content[f][i] # d) =>
                   \A i \in DOMAIN new : new[i] # d
      /\ (\A i \in DOMAIN content[f] : content[f][i] # c) => Once(new, c)
      /\ \A d : (\E i \in DOMAIN content[f] : content[f][i] = d) => \E i \in DOMAIN new : new[i] = d
  <2>1. c \in Item
    BY DEF Item
  <2> HIDE DEF f
  <2> QED BY <1>2, <2>1, AppendOnce, Zenon
<1> HIDE DEF new, f
<1>4. /\ content' \in [File \cup {"device"} -> Seq(Item)] /\ content'[f] = new
      /\ \A g \in File \cup {"device"} : g # f => content'[g] = content[g]
      /\ Len(new) \in Nat
  BY <1>1, <1>2, <1>3
<1>5. /\ tpc' \in [Conn -> {"unused", "receiving", "opened", "written", "done", "dropped"}]
      /\ pos' \in [Conn -> Nat]
      /\ tpc'[c] = "written" /\ (f = "device" => pos'[c] = 0)
      /\ \A d \in Conn : d # c => tpc'[d] = tpc[d] /\ pos'[d] = pos[d]
  BY <1>1, <1>2, <1>4
<1>6. LifeTypeOK'
  <2>1. ASSUME NEW d \in Conn PROVE file'[d] = "none" <=> tpc'[d] \notin {"opened", "written"}
    <3>1. file[d] = "none" <=> tpc[d] \notin {"opened", "written"}
      BY DEF LifeInv, LifeTypeOK
    <3> QED BY <1>1, <1>5, <3>1
  <2> QED BY <1>1, <1>4, <1>5, <2>1 DEF LifeInv, LifeTypeOK, history
<1>7. DownInv' /\ BuildInv' /\ LoadInv' /\ RivalInv' /\ NoStaleNode' /\ ServedInv' /\ PathStays'
  BY <1>1 DEF LifeInv, DownInv, BuildInv, LoadInv, RivalInv, NoStaleNode, ServedInv, PathStays, history
<1>8. FreshInv'
  <2> SUFFICES ASSUME NEW d \in Conn, NEW g \in File \cup {"device"},
                      tpc'[d] \in {"unused", "receiving", "opened"}
               PROVE  \A i \in DOMAIN content'[g] : content'[g][i] # d
    BY DEF FreshInv
  <2>1. d # c /\ tpc[d] \in {"unused", "receiving", "opened"}
    BY <1>5
  <2>2. \A i \in DOMAIN content[g] : content[g][i] # d
    BY <2>1 DEF LifeInv, FreshInv
  <2>3. CASE g = f
    BY <1>3, <1>4, <2>1, <2>2, <2>3, Zenon
  <2>4. CASE g # f
    BY <1>4, <2>2, <2>4, Zenon
  <2> QED BY <2>3, <2>4
<1>9. PacketInv'
  <2> SUFFICES ASSUME build = "file", up, leaving = {}, ~touched, ~rival, NEW d \in Conn,
                      tpc'[d] \in {"written", "done"}
               PROVE  Once(content'[node], d)
    BY <1>1 DEF PacketInv, Once, history
  <2>1. f = node
    BY <1>2, FileAssumption DEF LifeInv, PathStays, f
  <2>2. CASE d = c
    <3>1. \A i \in DOMAIN content[f] : content[f][i] # c
      BY <1>1, <1>2 DEF LifeInv, FreshInv
    <3> QED BY <1>3, <1>4, <2>1, <2>2, <3>1, Zenon
  <2>3. CASE d # c
    <3>1. Once(content[f], d)
      BY <1>5, <2>1, <2>3 DEF LifeInv, PacketInv
    <3> QED BY <1>3, <1>4, <2>1, <2>3, <3>1, Zenon
  <2> QED BY <2>2, <2>3
<1>10. DeviceInv'
  <2> SUFFICES ASSUME NEW d \in Conn
               PROVE  /\ pos'[d] # 0 => tpc'[d] = "written" /\ file'[d] # "device"
                      /\ tpc'[d] = "written" /\ file'[d] = "device" =>
                            \E i \in DOMAIN content'["device"] : content'["device"][i] = d
    BY DEF DeviceInv
  <2>1. CASE d = c
    BY <1>1, <1>3, <1>4, <1>5, <2>1 DEF f
  <2>2. CASE d # c
    <3>1. /\ pos[d] # 0 => tpc[d] = "written" /\ file[d] # "device"
          /\ tpc[d] = "written" /\ file[d] = "device" =>
                \E i \in DOMAIN content["device"] : content["device"][i] = d
      BY DEF LifeInv, DeviceInv
    <3>2. tpc'[d] = tpc[d] /\ pos'[d] = pos[d] /\ file'[d] = file[d]
      BY <1>1, <1>5, <2>2
    <3>3. (\E i \in DOMAIN content["device"] : content["device"][i] = d) =>
              \E i \in DOMAIN content'["device"] : content'["device"][i] = d
      BY <1>3, <1>4
    <3> QED BY <3>1, <3>2, <3>3, Zenon
  <2> QED BY <2>1, <2>2
<1> QED BY <1>6, <1>7, <1>8, <1>9, <1>10 DEF LifeInv

(* The timer thread, which exists in the build with an ordinary file.      *)
LEMMA TimerKeepsInv ==
    ASSUME LifeInv, TimerOpen \/ TimerWrite
    PROVE  LifeInv'
<1>1. /\ UNCHANGED <<build, loaded, up, signalled, leaving, tpc, file, pos, spc, history>>
      /\ up
  BY DEF TimerOpen, TimerWrite, Runs, serverVars
<1> USE DEF history
<1>2. build = "file"
  BY FileAssumption DEF TimerOpen, TimerWrite, LifeInv, LifeTypeOK, BuildInv
<1>3. CASE TimerOpen
  <2>1. timer = "idle" /\ timer' = Opened /\ OpenCreates
    BY <1>3 DEF TimerOpen
  <2>2. /\ node' = Opened /\ Opened \in File \cup {"device"}
        /\ content' \in [File \cup {"device"} -> Seq(Item)]
        /\ content'["device"] = content["device"]
        /\ \A f \in File \cup {"device"} : content'[f] = content[f] \/ content'[f] = <<>>
        /\ Opened = "device" => node = "device"
        /\ node # "none" => Opened = node /\ content' = content
        /\ RivalInv' /\ NoStaleNode' /\ LoadInv' /\ ServedInv'
    BY <1>1, <2>1, CreateKeepsPath
  <2>3. Opened \in File
    BY <1>2, <2>2 DEF LifeInv, BuildInv
  <2>4. LifeTypeOK'
    BY <1>1, <2>1, <2>2, <2>3 DEF LifeInv, LifeTypeOK
  <2>5. DownInv' /\ BuildInv'
    BY <1>1, <1>2, <2>2, <2>3, FileAssumption DEF LifeInv, DownInv, BuildInv
  <2>6. PathStays'
    BY <1>1, <2>1, <2>2 DEF LifeInv, ServedInv, PathStays
  <2>7. PacketInv'
    <3>1. ASSUME leaving = {}, ~touched PROVE node # "none"
      BY <1>1, <3>1 DEF LifeInv, ServedInv
    <3> QED BY <1>1, <2>2, <3>1 DEF LifeInv, PacketInv, Once
  <2>8. FreshInv' /\ DeviceInv'
    BY <1>1, <2>2 DEF LifeInv, FreshInv, DeviceInv
  <2> QED BY <2>2, <2>4, <2>5, <2>6, <2>7, <2>8 DEF LifeInv
<1>4. CASE TimerWrite
  <2> DEFINE new == Append(content[timer], Stamp)
  <2>1. /\ timer \in File /\ timer' = "idle" /\ node' = node
        /\ content' = [content EXCEPT ![timer] = new]
    BY <1>4 DEF TimerWrite
  <2>2. content \in [File \cup {"device"} -> Seq(Item)] /\ Stamp \in Item
    BY DEF LifeInv, LifeTypeOK, Item
  <2>3. content[timer] \in Seq(Item)
    BY <2>1, <2>2
  <2>4. /\ new \in Seq(Item)
        /\ \A d : Stamp # d /\ Once(content[timer], d) => Once(new, d)
        /\ \A d : Stamp # d /\ (\A i \in DOMAIN content[timer] : content[timer][i] # d) =>
                     \A i \in DOMAIN new : new[i] # d
    BY <2>2, <2>3, AppendOnce, Zenon
  <2> HIDE DEF new
  <2>5. /\ content' \in [File \cup {"device"} -> Seq(Item)]
        /\ content'[timer] = new /\ content'["device"] = content["device"]
        /\ \A f \in File \cup {"device"} : f # timer => content'[f] = content[f]
    BY <2>1, <2>2, <2>4, FileAssumption
  <2>6. LifeTypeOK'
    BY <1>1, <2>1, <2>5 DEF LifeInv, LifeTypeOK
  <2>7. DownInv' /\ BuildInv' /\ LoadInv' /\ RivalInv' /\ NoStaleNode' /\ ServedInv' /\ PathStays'
    BY <1>1, <1>2, <2>1 DEF LifeInv, DownInv, BuildInv, LoadInv, RivalInv, NoStaleNode, ServedInv,
                            PathStays
  <2>8. FreshInv'
    BY <1>1, <2>4, <2>5, StampAssumption DEF LifeInv, FreshInv
  <2>9. PacketInv'
    <3> SUFFICES ASSUME leaving = {}, ~touched, ~rival, NEW d \in Conn, tpc[d] \in {"written", "done"}
                 PROVE  Once(content'[node], d)
      BY <1>1, <2>1 DEF PacketInv, Once
    <3>1. timer = node
      BY <1>1, <2>1, FileAssumption DEF LifeInv, PathStays
    <3>2. Once(content[timer], d)
      BY <1>1, <1>2, <3>1 DEF LifeInv, PacketInv
    <3>3. d # Stamp
      BY StampAssumption
    <3> QED BY <2>4, <2>5, <3>1, <3>2, <3>3
  <2>10. DeviceInv'
    BY <1>1, <2>5 DEF LifeInv, DeviceInv
  <2> QED BY <2>6, <2>7, <2>8, <2>9, <2>10 DEF LifeInv
<1> QED BY <1>3, <1>4

(* The timer thread of a server that does not listen, or not yet. *)
LEMMA StarterStampKeepsInv ==
    ASSUME LifeInv, NEW s \in Shell, StarterStamp(s)
    PROVE  LifeInv'
<1> DEFINE old == IF node = "none" THEN <<>> ELSE content[Opened]
           new == Append(old, Stamp)
<1>1. /\ UNCHANGED <<build, loaded, up, signalled, leaving, tpc, file, pos, timer, spc>>
      /\ UNCHANGED <<served, touched, rival, overlap>>
      /\ spc[s] \in {"timed", "joining", "hung"}
      /\ node' = Opened
      /\ content' = [content EXCEPT ![Opened] = IF node = "none" THEN <<Stamp>>
                                                ELSE Append(content[Opened], Stamp)]
  BY DEF StarterStamp, serverVars, threadVars, history
<1>2. build = "file"
  BY <1>1, ShellFacts
<1>3. /\ node # "none" => Opened = node
      /\ Opened \in File /\ Opened \notin {"none", "device"}
  BY <1>2, OpenedIs, FileAssumption DEF LifeInv, BuildInv
<1>4. /\ content \in [File \cup {"device"} -> Seq(Item)] /\ Stamp \in Item
      /\ old \in Seq(Item)
  BY <1>3 DEF LifeInv, LifeTypeOK, Item
<1>5. content' = [content EXCEPT ![Opened] = new]
  <2>1. Append(<<>>, Stamp) = <<Stamp>>
    OBVIOUS
  <2> QED BY <1>1, <2>1
<1>6. /\ new \in Seq(Item)
      /\ \A d : Stamp # d /\ Once(old, d) => Once(new, d)
      /\ \A d : Stamp # d /\ (\A i \in DOMAIN old : old[i] # d) =>
                   \A i \in DOMAIN new : new[i] # d
  <2> HIDE DEF old
  <2> QED BY <1>4, AppendOnce, Zenon
<1>7. /\ old = <<>> \/ old = content[Opened]
      /\ node # "none" => old = content[node]
  BY <1>3
<1> HIDE DEF old, new
<1>8. /\ content' \in [File \cup {"device"} -> Seq(Item)]
      /\ content'[Opened] = new /\ content'["device"] = content["device"]
      /\ \A f \in File \cup {"device"} : f # Opened => content'[f] = content[f]
  BY <1>3, <1>4, <1>5, <1>6
<1>9. LifeTypeOK'
  BY <1>1, <1>3, <1>8 DEF LifeInv, LifeTypeOK
<1>10. DownInv' /\ BuildInv' /\ LoadInv' /\ RivalInv' /\ NoStaleNode'
  BY <1>1, <1>2, <1>3 DEF LifeInv, DownInv, BuildInv, LoadInv, RivalInv, NoStaleNode
<1>11. ServedInv' /\ PathStays'
  BY <1>1, <1>3 DEF LifeInv, ServedInv, PathStays
<1>12. FreshInv'
  <2> SUFFICES ASSUME NEW d \in Conn, NEW f \in File \cup {"device"},
                      tpc[d] \in {"unused", "receiving", "opened"}
               PROVE  \A i \in DOMAIN content'[f] : content'[f][i] # d
    BY <1>1 DEF FreshInv
  <2>1. /\ \A i \in DOMAIN content[f] : content[f][i] # d
        /\ \A i \in DOMAIN content[Opened] : content[Opened][i] # d
    BY <1>3 DEF LifeInv, FreshInv
  <2>2. \A i \in DOMAIN old : old[i] # d
    BY <1>7, <2>1
  <2>3. d # Stamp
    BY StampAssumption
  <2> QED BY <1>6, <1>8, <2>1, <2>2, <2>3
<1>13. PacketInv'
  <2> SUFFICES ASSUME up, leaving = {}, ~touched, ~rival, NEW d \in Conn, tpc[d] \in {"written", "done"}
               PROVE  Once(content'[Opened], d)
    BY <1>1 DEF PacketInv, Once
  <2>1. node # "none" /\ Once(content[node], d)
    BY <1>2 DEF LifeInv, ServedInv, PacketInv
  <2>2. d # Stamp
    BY StampAssumption
  <2> QED BY <1>6, <1>7, <1>8, <2>1, <2>2
<1>14. DeviceInv'
  BY <1>1, <1>8 DEF LifeInv, DeviceInv
<1> QED BY <1>9, <1>10, <1>11, <1>12, <1>13, <1>14 DEF LifeInv

-----------------------------------------------------------------------------
(* Every command of a script and every step of the server keeps it.        *)
LEMMA LifeInvStep == LifeInv /\ [LifeNext]_lifeVars => LifeInv'
<1> SUFFICES ASSUME LifeInv, [LifeNext]_lifeVars PROVE LifeInv'
  OBVIOUS
<1>1. ASSUME NEW c \in Conn, ThreadStep(c) PROVE LifeInv'
  <2>1. CASE ThreadOpenFails(c)
    BY <2>1, ExitKeepsInv DEF ThreadOpenFails
  <2>2. CASE SeekRefused(c)
    BY <2>2, LeaveKeepsInv DEF Actor
  <2> QED BY <1>1, <2>1, <2>2, AcceptKeepsInv, OpenKeepsInv, WriteKeepsInv DEF ThreadStep
<1>2. ASSUME NEW s \in Shell, ScriptRuns(s) \/ ScriptBegins(s) PROVE LifeInv'
  <2>1. CASE ScriptRuns(s)
    BY <2>1, StarterKeepsInv, CreatKeepsInv, ListenKeepsInv, ScriptsKeepInv, InsmodKeepsInv,
       RemoveKeepsInv, MknodKeepsInv DEF ScriptRuns
  <2>2. CASE ScriptBegins(s)
    BY <2>2, ScriptsKeepInv, RmmodKeepsInv DEF ScriptBegins
  <2> QED BY <1>2, <2>1, <2>2
<1>3. CASE exit_safely \/ ExitFailure
  BY <1>3, ExitKeepsInv DEF exit_safely, ExitFailure
<1>4. ASSUME NEW a \in Actor, signal_handler(a) PROVE LifeInv'
  BY <1>4, LeaveKeepsInv
<1>5. CASE UNCHANGED lifeVars
  <2>1. /\ UNCHANGED <<build, pathVars, up, leaving, threadVars, history>>
        /\ UNCHANGED <<signalled, spc>>
    BY <1>5 DEF lifeVars
  <2>2. ShellsQuiet /\ signalled' \in BOOLEAN
    BY <2>1, ShellFacts DEF ShellsQuiet, LifeInv, LifeTypeOK
  <2> QED BY <2>1, <2>2, QuietKeepsInv
<1>6. CASE TimerStep
  BY <1>6, TimerKeepsInv, StarterStampKeepsInv DEF TimerStep
<1> QED BY <1>1, <1>2, <1>3, <1>4, <1>5, <1>6 DEF LifeNext

(* The inductive invariant holds in every reachable state, for any number  *)
(* of connections, shells and files, in both builds.                       *)
THEOREM LifeInvariant == LifeSpec => []LifeInv
BY LifeInvInit, LifeInvStep, PTL DEF LifeSpec

(* A packet is in the file exactly once.                                   *)
LEMMA OnceCounted ==
    ASSUME NEW seq, NEW c, Once(seq, c)
    PROVE  Cardinality({i \in DOMAIN seq : seq[i] = c}) = 1
<1>1. PICK i \in DOMAIN seq : {j \in DOMAIN seq : seq[j] = c} = {i}
  BY DEF Once
<1> QED BY <1>1, FS_Singleton

(* What a thread reads from the start of the device is all of it.          *)
LEMMA WholeAnswer ==
    ASSUME NEW seq \in Seq(Item)
    PROVE  SubSeq(seq, 1, Len(seq)) = seq
OBVIOUS

LEMMA LifeInvImplies == LifeInv => FileKeepsPackets /\ AnswerHoldsPacket
<1> SUFFICES ASSUME LifeInv PROVE FileKeepsPackets /\ AnswerHoldsPacket
  OBVIOUS
<1>1. FileKeepsPackets
  BY OnceCounted DEF LifeInv, PacketInv, FileKeepsPackets
<1>2. AnswerHoldsPacket
  <2> SUFFICES ASSUME NEW c \in Conn, tpc[c] = "written", file[c] = "device"
               PROVE  \E i \in DOMAIN Answer(c) : Answer(c)[i] = c
    BY DEF AnswerHoldsPacket
  <2>1. /\ pos[c] = 0 /\ content["device"] \in Seq(Item)
        /\ \E i \in DOMAIN content["device"] : content["device"][i] = c
    BY DEF LifeInv, LifeTypeOK, DeviceInv
  <2>2. Answer(c) = content["device"]
    <3>1. Answer(c) = SubSeq(content["device"], 1, Len(content["device"]))
      BY <2>1 DEF Answer
    <3> QED BY <2>1, <3>1, WholeAnswer
  <2> QED BY <2>1, <2>2
<1> QED BY <1>1, <1>2

(* The types for any number of connections, shells and files; and the      *)
(* server runs exactly while the start script that began it waits for it.  *)
THEOREM LifeTypes == LifeSpec => []LifeTypeOK
BY LifeInvariant, PTL DEF LifeInv

(* For any number of them: from its first listen until somebody stops the  *)
(* server or removes the path from outside, all threads and the timer use  *)
(* the file the path named then, however many servers try to start.        *)
THEOREM LifePath == LifeSpec => []PathStays
BY LifeInvariant, PTL DEF LifeInv

(* For any number of them: in the build with an ordinary file each packet  *)
(* is in the file exactly once, until the path is removed, and unless      *)
(* another server had bound the port before this one listened.             *)
THEOREM LifePackets == LifeSpec => []FileKeepsPackets
BY LifeInvariant, LifeInvImplies, PTL

(* For any number of them: a thread that reads the device after its write  *)
(* finds its packet, whatever load and unload scripts run.                 *)
THEOREM LifeAnswer == LifeSpec => []AnswerHoldsPacket
BY LifeInvariant, LifeInvImplies, PTL

(* For any number of them: no load or unload script leaves a node without  *)
(* its driver, unless the module is unloaded in the middle of a load.      *)
THEOREM LifeNode == LifeSpec => []NoStaleNode
BY LifeInvariant, PTL DEF LifeInv

=============================================================================
