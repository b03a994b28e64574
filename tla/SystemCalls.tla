---------------------------- MODULE SystemCalls ----------------------------
(***************************************************************************)
(* examples/systemcalls/systemcalls.c: a process that runs commands with   *)
(* do_system, do_exec and do_exec_redirect, any number of times, and any   *)
(* of fork, open, dup2, execv and waitpid may fail.                        *)
(*                                                                         *)
(* A child whose waitpid was interrupted stays behind, and is around when  *)
(* the process starts the next command.                                    *)
(*                                                                         *)
(* Left out: the arguments of a command, what it prints, and messages.     *)
(***************************************************************************)
CONSTANTS Pid,    \* the process ids fork may return
          NoPid

ASSUME PidAssumption == NoPid \notin Pid

VARIABLES caller,  \* where the calling process is
          child,   \* the child that waitpid waits for
          fd,      \* whether the process has the output file open
          kid,     \* the state of each child, until it has been waited for
          kidFd,   \* whether a child has the output file open under fd
          result,  \* what the last call returned
          abandoned  \* history: the children whose waitpid failed

kidVars  == <<kid, kidFd>>
callVars == <<caller, child, fd, result, abandoned>>
sysVars  == <<kidVars, callVars>>

Ended == {"exit0", "exit1", "signal"}

-----------------------------------------------------------------------------
(* do_system: system() forks, runs a shell and waits for it, and returns   *)
(* -1 when one of them fails.  Whatever else it returns is taken as true.  *)
do_system ==
    /\ caller = "idle"
    /\ \E status \in {"-1"} \cup Ended : result' = (status # "-1")
    /\ UNCHANGED <<kidVars, caller, child, fd, abandoned>>

(* exit() or abort() of the calling process. *)
CallerEnds ==
    /\ caller' = "ended"
    /\ UNCHANGED <<kidVars, child, fd, result, abandoned>>

(* fork: the child is a copy of the process, its open file included. *)
fork(pid, next) ==
    /\ kid[pid] = "none"
    /\ kid' = [kid EXCEPT ![pid] = next]
    /\ kidFd' = [kidFd EXCEPT ![pid] = fd]
    /\ child' = pid
    /\ caller' = "waiting"
    /\ UNCHANGED <<result, abandoned>>

(* do_exec *)
ExecFork(pid) == caller = "idle" /\ fork(pid, "exec") /\ UNCHANGED fd

ExecForkFails == caller = "idle" /\ CallerEnds

(* do_exec_redirect: the file is opened in front of the fork ... *)
RedirectOpen ==
    /\ caller = "idle"
    /\ caller' = "opened"
    /\ fd' = TRUE
    /\ UNCHANGED <<kidVars, child, result, abandoned>>

RedirectOpenFails == caller = "idle" /\ CallerEnds

(* Slip: the parent does not close its copy of the file. *)
RedirectForkKeepsFd(pid) == caller = "opened" /\ fork(pid, "redirect") /\ UNCHANGED fd

(* ... and closed by the parent behind it. *)
RedirectFork(pid) == caller = "opened" /\ fork(pid, "redirect") /\ fd' = FALSE

RedirectForkFails == caller = "opened" /\ CallerEnds

-----------------------------------------------------------------------------
(* The child. *)

KidBecomes(pid, state) == kid' = [kid EXCEPT ![pid] = state]

(* execv succeeds. *)
ChildExec(pid) ==
    /\ kid[pid] = "exec"
    /\ KidBecomes(pid, "running")
    /\ UNCHANGED <<kidFd, callVars>>

(* dup2 makes the file the standard output, its other descriptor is closed, *)
(* execv succeeds.                                                         *)
ChildRedirect(pid) ==
    /\ kid[pid] = "redirect"
    /\ kidFd' = [kidFd EXCEPT ![pid] = FALSE]
    /\ KidBecomes(pid, "running")
    /\ UNCHANGED callVars

(* Slip: the child runs on when execv has failed. *)
ChildRunsOn(pid) ==
    /\ kid[pid] = "exec"
    /\ KidBecomes(pid, "returned")
    /\ UNCHANGED <<kidFd, callVars>>

(* execv fails: exit(EXIT_FAILURE). *)
ChildExecFails(pid) ==
    /\ kid[pid] = "exec"
    /\ KidBecomes(pid, "exit1")
    /\ UNCHANGED <<kidFd, callVars>>

(* dup2 or execv fails: abort(). *)
ChildRedirectFails(pid) ==
    /\ kid[pid] = "redirect"
    /\ KidBecomes(pid, "signal")
    /\ UNCHANGED <<kidFd, callVars>>

(* The command ends by itself or by a signal. *)
CommandEnds(pid) ==
    /\ kid[pid] = "running"
    /\ \E how \in Ended : KidBecomes(pid, how)
    /\ UNCHANGED <<kidFd, callVars>>

-----------------------------------------------------------------------------
(* The parent, in waitpid. *)

CallReturns(value) ==
    /\ result' = value
    /\ child' = NoPid
    /\ caller' = "idle"
    /\ UNCHANGED fd

(* The entry of a child that has ended is given back. *)
Reap(pid) ==
    /\ kid' = [kid EXCEPT ![pid] = "none"]
    /\ kidFd' = [kidFd EXCEPT ![pid] = FALSE]

(* Slip: wait() for whichever child ends first. *)
WaitForAny ==
    /\ caller = "waiting"
    /\ \E pid \in Pid : /\ kid[pid] \in Ended
                        /\ Reap(pid)
                        /\ CallReturns(kid[pid] = "exit0")
    /\ UNCHANGED abandoned

(* The status of the child: WIFEXITED with EXIT_SUCCESS, or not. *)
WaitReturns ==
    /\ caller = "waiting"
    /\ kid[child] \in Ended
    /\ Reap(child)
    /\ CallReturns(kid[child] = "exit0")
    /\ UNCHANGED abandoned

(* waitpid returns -1; the child stays behind. *)
WaitFails ==
    /\ caller = "waiting"
    /\ CallReturns(FALSE)
    /\ abandoned' = abandoned \cup {child}
    /\ UNCHANGED kidVars

-----------------------------------------------------------------------------
SysInit ==
    /\ caller = "idle"
    /\ child = NoPid
    /\ fd = FALSE
    /\ kid = [pid \in Pid |-> "none"]
    /\ kidFd = [pid \in Pid |-> FALSE]
    /\ result = FALSE
    /\ abandoned = {}

SysNext ==
    \/ do_system
    \/ ExecForkFails
    \/ RedirectOpen \/ RedirectOpenFails \/ RedirectForkFails
    \/ WaitReturns \/ WaitFails
    \/ \E pid \in Pid :
          \/ ExecFork(pid) \/ RedirectFork(pid)
          \/ ChildExec(pid) \/ ChildExecFails(pid)
          \/ ChildRedirect(pid) \/ ChildRedirectFails(pid)
          \/ CommandEnds(pid)

SysSpec == SysInit /\ [][SysNext]_sysVars

-----------------------------------------------------------------------------
SysTypeOK ==
    /\ caller \in {"idle", "opened", "waiting", "ended"}
    /\ child \in Pid \cup {NoPid}
    /\ fd \in BOOLEAN /\ result \in BOOLEAN
    /\ kid \in [Pid -> {"none", "exec", "redirect", "running"} \cup Ended]
    /\ kidFd \in [Pid -> BOOLEAN]
    /\ abandoned \subseteq Pid

(* A call waits for the child it has forked and gives back that one alone: *)
(* while it waits, its child is there to be waited for, whatever happens   *)
(* to the children earlier calls have left behind, and the children left   *)
(* behind are exactly those whose waitpid failed, so a call that returns   *)
(* in any other way leaves no zombie.                                      *)
ChildrenAccounted ==
    /\ {pid \in Pid : kid[pid] # "none"}
           = abandoned \cup (IF caller = "waiting" THEN {child} ELSE {})
    /\ caller = "waiting" => child \notin abandoned

(* The output file is open only where it is needed: "This file will be     *)
(* closed at completion of the function call".  No command inherits the    *)
(* descriptor, not even one that do_exec starts later.                     *)
FileClosed ==
    /\ caller \in {"idle", "waiting"} => ~fd
    /\ \A pid \in Pid : kid[pid] \in {"exec", "running"} => ~kidFd[pid]

=============================================================================
