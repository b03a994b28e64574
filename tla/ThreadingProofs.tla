--------------------------- MODULE ThreadingProofs ---------------------------
(***************************************************************************)
(* Proofs for the threading example, for any number of threads.            *)
(***************************************************************************)
EXTENDS Threading, TLAPS

(* What the properties need of each other: of the threads that are done,   *)
(* those that returned their structure are the ones no call on the mutex   *)
(* has failed for.                                                         *)
ReturnInv ==
    /\ returned \cap (lockFailed \cup unlockFailed) = {}
    /\ returned \cup lockFailed \cup unlockFailed =
           {t \in Thread : pc[t] \in {"exited", "joined"}}

ThreadInv == ThreadTypeOK /\ HolderOwnsMutex /\ DataFreedOnce /\ ReturnInv

(* No thread has been started yet. *)
LEMMA InitInv == ThreadInit => ThreadInv
BY ThreadAssumption DEF ThreadInit, ThreadInv, ThreadTypeOK, HolderOwnsMutex, DataFreedOnce, ReturnInv

(* start_thread_obtaining_mutex, which allocates the structure or leaves   *)
(* everything as it was.                                                   *)
LEMMA StartInv ==
    ASSUME ThreadInv, NEW t \in Thread, Start(t) \/ StartFails(t)
    PROVE  ThreadInv'
<1> USE DEF ThreadInv, history
<1>1. CASE Start(t)
  <2> USE <1>1 DEF Start
  <2>1. PICK garbage \in BOOLEAN : success' = [success EXCEPT ![t] = garbage]
    OBVIOUS
  <2>2. ThreadTypeOK'
    BY <2>1 DEF ThreadTypeOK
  <2>3. HolderOwnsMutex'
    BY DEF ThreadTypeOK, HolderOwnsMutex
  <2>4. DataFreedOnce'
    BY DEF ThreadTypeOK, DataFreedOnce
  <2>5. ReturnInv'
    BY <2>1 DEF ThreadTypeOK, ReturnInv
  <2> QED BY <2>2, <2>3, <2>4, <2>5
<1>2. CASE StartFails(t)
  BY <1>2 DEF StartFails, ThreadTypeOK, HolderOwnsMutex, DataFreedOnce, ReturnInv
<1> QED BY <1>1, <1>2

(* threadfunc up to its end. *)
LEMMA ThreadfuncInv ==
    ASSUME ThreadInv, NEW t \in Thread, threadfunc(t)
    PROVE  ThreadInv'
<1> USE DEF ThreadInv, history
<1>1. CASE Lock(t)
  <2> USE <1>1 DEF Lock
  <2>1. ThreadTypeOK' /\ DataFreedOnce' /\ ReturnInv'
    BY DEF ThreadTypeOK, DataFreedOnce, ReturnInv
  <2>2. HolderOwnsMutex'
    BY ThreadAssumption DEF ThreadTypeOK, HolderOwnsMutex
  <2> QED BY <2>1, <2>2
<1>2. CASE LockFails(t)
  BY <1>2 DEF LockFails, ThreadTypeOK, HolderOwnsMutex, DataFreedOnce, ReturnInv
<1>3. CASE Unlock(t)
  <2> USE <1>3 DEF Unlock
  <2>1. ThreadTypeOK' /\ DataFreedOnce' /\ ReturnInv'
    BY ThreadAssumption DEF ThreadTypeOK, DataFreedOnce, ReturnInv
  <2>2. HolderOwnsMutex'
    BY DEF ThreadTypeOK, HolderOwnsMutex
  <2> QED BY <2>1, <2>2
<1>4. CASE UnlockFails(t)
  BY <1>4 DEF UnlockFails, ThreadTypeOK, HolderOwnsMutex, DataFreedOnce, ReturnInv
<1> QED BY <1>1, <1>2, <1>3, <1>4 DEF threadfunc

(* The caller frees what it gets back. *)
LEMMA JoinInv ==
    ASSUME ThreadInv, NEW t \in Thread, Join(t)
    PROVE  ThreadInv'
BY DEF ThreadInv, history, Join, ThreadTypeOK, HolderOwnsMutex, DataFreedOnce, ReturnInv

(* The inductive invariant of the specification. *)
THEOREM ThreadInvariant == ThreadSpec => []ThreadInv
<1>1. ThreadInv /\ [ThreadNext]_vars => ThreadInv'
  <2> SUFFICES ASSUME ThreadInv, [ThreadNext]_vars
               PROVE  ThreadInv'
    OBVIOUS
  <2>1. CASE ThreadNext
    BY <2>1, StartInv, ThreadfuncInv, JoinInv DEF ThreadNext
  <2>2. CASE UNCHANGED vars
    BY <2>2 DEF vars, history, ThreadInv, ThreadTypeOK, HolderOwnsMutex, DataFreedOnce, ReturnInv
  <2> QED BY <2>1, <2>2
<1> QED BY InitInv, <1>1, PTL DEF ThreadSpec

(* The types for any number of threads; and the mutex has an owner that    *)
(* does not hold it only after an unlock has failed.                       *)
THEOREM ThreadTypes == ThreadSpec => []ThreadTypeOK
BY ThreadInvariant, PTL DEF ThreadInv

(* For any number of threads and whatever calls fail, threadfunc sleeps    *)
(* between lock and unlock only with the mutex.                            *)
THEOREM ThreadMutex == ThreadSpec => []HolderOwnsMutex
BY ThreadInvariant, PTL DEF ThreadInv

(* For any number of threads, thread_data outlives its thread, and what is *)
(* never freed is exactly what the threads keep from their caller after a  *)
(* call on the mutex has failed.                                           *)
THEOREM ThreadData == ThreadSpec => []DataFreedOnce
BY ThreadInvariant, PTL DEF ThreadInv

=============================================================================
