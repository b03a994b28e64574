------------------------- MODULE SystemCallsProofs -------------------------
(***************************************************************************)
(* What do_exec and do_exec_redirect promise, for any number of children   *)
(* left over from earlier calls.                                           *)
(***************************************************************************)
EXTENDS SystemCalls, TLAPS

(* The call in waitpid has a child of its own; nobody else gives it back.  *)
SysInv ==
    /\ SysTypeOK
    /\ FileClosed
    /\ ChildrenAccounted
    /\ caller = "waiting" => child \in Pid
    /\ caller = "opened" => fd

LEMMA SysInvInit == SysInit => SysInv
BY DEF SysInit, SysInv, SysTypeOK, FileClosed, ChildrenAccounted

LEMMA SysInvNext == SysInv /\ [SysNext]_sysVars => SysInv'
<1> SUFFICES ASSUME SysInv, [SysNext]_sysVars PROVE SysInv'
  OBVIOUS
<1> USE DEF SysInv, SysTypeOK, FileClosed, ChildrenAccounted, Ended
<1>1. CASE do_system
  BY <1>1, Zenon DEF do_system, kidVars
<1>2. CASE ExecForkFails \/ RedirectOpenFails \/ RedirectForkFails
  BY <1>2 DEF ExecForkFails, RedirectOpenFails, RedirectForkFails, CallerEnds, kidVars
<1>3. CASE RedirectOpen
  BY <1>3 DEF RedirectOpen, kidVars
<1>4. CASE WaitReturns
  BY <1>4 DEF WaitReturns, Reap, CallReturns
<1>5. CASE WaitFails
  BY <1>5 DEF WaitFails, CallReturns, kidVars
<1>6. ASSUME NEW pid \in Pid, ExecFork(pid) PROVE SysInv'
  BY <1>6 DEF ExecFork, fork
<1>7. ASSUME NEW pid \in Pid, RedirectFork(pid) PROVE SysInv'
  BY <1>7 DEF RedirectFork, fork
<1>8. ASSUME NEW pid \in Pid, ChildExec(pid) \/ ChildExecFails(pid) PROVE SysInv'
  BY <1>8 DEF ChildExec, ChildExecFails, KidBecomes, callVars
<1>9. ASSUME NEW pid \in Pid, ChildRedirect(pid) \/ ChildRedirectFails(pid) PROVE SysInv'
  <2>1. CASE ChildRedirect(pid)
    <3>1. kidFd' = [kidFd EXCEPT ![pid] = FALSE] /\ kid' = [kid EXCEPT ![pid] = "running"]
      BY <2>1 DEF ChildRedirect, KidBecomes
    <3>2. kidFd' \in [Pid -> BOOLEAN]
      BY <3>1, Zenon
    <3>3. QED
      BY <2>1, <3>1, <3>2 DEF ChildRedirect, callVars
  <2>2. CASE ChildRedirectFails(pid)
    BY <2>2 DEF ChildRedirectFails, KidBecomes, callVars
  <2>3. QED
    BY <1>9, <2>1, <2>2
<1>10. ASSUME NEW pid \in Pid, CommandEnds(pid) PROVE SysInv'
  BY <1>10 DEF CommandEnds, KidBecomes, callVars
<1>11. CASE UNCHANGED sysVars
  BY <1>11 DEF sysVars, kidVars, callVars
<1>12. QED
  BY <1>1, <1>2, <1>3, <1>4, <1>5, <1>6, <1>7, <1>8, <1>9, <1>10, <1>11 DEF SysNext

(* The types for any number of children, children left over included.      *)
THEOREM SysTypes == SysSpec => []SysTypeOK
<1>1. SysInv => SysTypeOK
  BY DEF SysInv
<1>2. QED
  BY <1>1, SysInvInit, SysInvNext, PTL DEF SysSpec

(* do_exec_redirect leaves its output file open neither in the process nor *)
(* in any command, however many calls failed or were interrupted before.   *)
THEOREM RedirectFileClosed == SysSpec => []FileClosed
<1>1. SysInv => FileClosed
  BY DEF SysInv
<1>2. QED
  BY <1>1, SysInvInit, SysInvNext, PTL DEF SysSpec

(* For any number of children and however many calls were interrupted, a   *)
(* call has its own child to wait for, and what is left behind are the     *)
(* children of the interrupted calls.                                      *)
THEOREM ExecAccounts == SysSpec => []ChildrenAccounted
<1>1. SysInv => ChildrenAccounted
  BY DEF SysInv
<1>2. QED
  BY <1>1, SysInvInit, SysInvNext, PTL DEF SysSpec

=============================================================================
