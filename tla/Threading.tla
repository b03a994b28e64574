------------------------------ MODULE Threading ------------------------------
(***************************************************************************)
(* examples/threading/threading.c: start_thread_obtaining_mutex, called by *)
(* someone who later joins each thread that was started and frees what it  *)
(* returned, as threading.h describes.                                     *)
(*                                                                         *)
(* Each thread has one thread_data structure, which is named after it.     *)
(* The times are left out: usleep ends some time or other.                 *)
(***************************************************************************)
EXTENDS Naturals

CONSTANTS Thread,   \* the calls of start_thread_obtaining_mutex
          NoThread  \* "nobody", as the owner of the mutex

ASSUME ThreadAssumption == NoThread \notin Thread

VARIABLES pc,        \* where each thread is
          owner,     \* the thread that has locked the mutex
          heap,      \* the threads whose thread_data is allocated
          success,   \* thread_complete_success
          returned,  \* the threads that have returned their thread_data, not NULL
          lockFailed,   \* history: the threads whose pthread_mutex_lock failed
          unlockFailed  \* history: the threads whose pthread_mutex_unlock failed

history == <<lockFailed, unlockFailed>>
vars    == <<pc, owner, heap, success, returned, history>>

-----------------------------------------------------------------------------
(* start_thread_obtaining_mutex. *)

(* malloc leaves thread_complete_success at whatever the memory held. *)
Start(t) ==
    /\ pc[t] = "unused"
    /\ pc' = [pc EXCEPT ![t] = "waiting"]
    /\ heap' = heap \cup {t}
    /\ \E garbage \in BOOLEAN : success' = [success EXCEPT ![t] = garbage]
    /\ UNCHANGED <<owner, returned, history>>

(* Slip: the structure is not freed when the thread cannot be created. *)
StartKeepsData(t) ==
    /\ pc[t] = "unused"
    /\ pc' = [pc EXCEPT ![t] = "refused"]
    /\ heap' = heap \cup {t}
    /\ UNCHANGED <<owner, success, returned, history>>

(* malloc fails, or pthread_create does and the structure is freed again. *)
StartFails(t) ==
    /\ pc[t] = "unused"
    /\ pc' = [pc EXCEPT ![t] = "refused"]
    /\ UNCHANGED <<owner, heap, success, returned, history>>

-----------------------------------------------------------------------------
(* threadfunc. *)

Lock(t) ==
    /\ pc[t] = "waiting"
    /\ owner = NoThread
    /\ owner' = t
    /\ pc' = [pc EXCEPT ![t] = "holding"]
    /\ UNCHANGED <<heap, success, returned, history>>

(* Slip: the result of pthread_mutex_lock is not looked at. *)
LockUnchecked(t) ==
    /\ pc[t] = "waiting"
    /\ lockFailed' = lockFailed \cup {t}
    /\ pc' = [pc EXCEPT ![t] = "holding"]
    /\ UNCHANGED <<owner, heap, success, returned, unlockFailed>>

(* The flag is cleared, and pthread_exit(NULL) keeps the structure from    *)
(* the caller.                                                             *)
LockFails(t) ==
    /\ pc[t] = "waiting"
    /\ lockFailed' = lockFailed \cup {t}
    /\ success' = [success EXCEPT ![t] = FALSE]
    /\ pc' = [pc EXCEPT ![t] = "exited"]
    /\ UNCHANGED <<owner, heap, returned, unlockFailed>>

(* Slip: the thread exits with the mutex locked. *)
ExitLocked(t) ==
    /\ pc[t] = "holding"
    /\ success' = [success EXCEPT ![t] = TRUE]
    /\ returned' = returned \cup {t}
    /\ pc' = [pc EXCEPT ![t] = "exited"]
    /\ UNCHANGED <<owner, heap, history>>

(* The mutex is released, the flag set, the structure returned. *)
Unlock(t) ==
    /\ pc[t] = "holding"
    /\ owner' = NoThread
    /\ success' = [success EXCEPT ![t] = TRUE]
    /\ returned' = returned \cup {t}
    /\ pc' = [pc EXCEPT ![t] = "exited"]
    /\ UNCHANGED <<heap, history>>

(* The mutex stays locked. *)
UnlockFails(t) ==
    /\ pc[t] = "holding"
    /\ unlockFailed' = unlockFailed \cup {t}
    /\ success' = [success EXCEPT ![t] = FALSE]
    /\ pc' = [pc EXCEPT ![t] = "exited"]
    /\ UNCHANGED <<owner, heap, returned, lockFailed>>

-----------------------------------------------------------------------------
(* The caller: pthread_join, then free of a pointer that is not NULL. *)
Join(t) ==
    /\ pc[t] = "exited"
    /\ pc' = [pc EXCEPT ![t] = "joined"]
    /\ heap' = heap \ (returned \cap {t})
    /\ UNCHANGED <<owner, success, returned, history>>

ThreadInit ==
    /\ pc = [t \in Thread |-> "unused"]
    /\ owner = NoThread
    /\ heap = {}
    /\ success = [t \in Thread |-> FALSE]
    /\ returned = {}
    /\ lockFailed = {} /\ unlockFailed = {}

threadfunc(t) == Lock(t) \/ LockFails(t) \/ Unlock(t) \/ UnlockFails(t)

ThreadNext == \E t \in Thread : Start(t) \/ StartFails(t) \/ threadfunc(t) \/ Join(t)

ThreadSpec == ThreadInit /\ [][ThreadNext]_vars

(* A thread that can run does, and does not wait for a call to fail.  The  *)
(* caller owes nothing, and the mutex need not be fair: each thread takes  *)
(* it once.                                                                *)
ThreadFairness ==
    \A t \in Thread : WF_vars(Lock(t)) /\ WF_vars(Unlock(t) \/ UnlockFails(t))

ThreadFairSpec == ThreadSpec /\ ThreadFairness

-----------------------------------------------------------------------------
ThreadTypeOK ==
    /\ pc \in [Thread -> {"unused", "refused", "waiting", "holding", "exited", "joined"}]
    /\ owner \in Thread \cup {NoThread}
    /\ owner \in Thread => pc[owner] = "holding" \/ owner \in unlockFailed
    /\ heap \subseteq Thread
    /\ success \in [Thread -> BOOLEAN]
    /\ returned \subseteq Thread
    /\ lockFailed \subseteq Thread /\ unlockFailed \subseteq Thread

(* The thread that sleeps between lock and unlock in threadfunc has the    *)
(* mutex, so there is at most one, whatever calls have failed before.      *)
HolderOwnsMutex == \A t \in Thread : pc[t] = "holding" => owner = t

(* A thread's thread_data is allocated as long as anybody uses it, and is  *)
(* freed exactly once the thread has been joined or could not be created.  *)
(* What the code loses is exactly the structures of the threads whose lock *)
(* or unlock fails: they return NULL, where threading.h promises the       *)
(* structure, "which can be used to free memory as well as to check        *)
(* thread_complete_success".                                               *)
DataFreedOnce ==
    heap = {t \in Thread : \/ pc[t] \in {"waiting", "holding", "exited"}
                           \/ pc[t] = "joined" /\ t \in lockFailed \cup unlockFailed}

(* Every thread that has been started gets the mutex in the end and exits, *)
(* unless an unlock fails: no path of threadfunc leaves the mutex locked.  *)
EveryThreadExits ==
    \A t \in Thread :
        pc[t] = "waiting" ~> pc[t] \in {"exited", "joined"} \/ unlockFailed # {}

=============================================================================
