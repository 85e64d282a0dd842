--------------------------- MODULE KThreadsProofs ---------------------------
(***************************************************************************)
(* Proofs about KThreads for every number of threads and every width of    *)
(* the counter.                                                            *)
(***************************************************************************)
EXTENDS KThreads, TLAPS

USE DEF Ids

-----------------------------------------------------------------------------
(* my_mutex names the thread between its mutex_lock and mutex_unlock, and  *)
(* names nobody when no thread is there.                                   *)
MutexHeld ==
  \A t \in Ids : my_mutex = t <=> thread_pc[t] \in {"load", "store", "unlock"}

(* The value loaded is still the counter's when the thread stores.         *)
LoadedIsCurrent ==
  \A t \in Ids : thread_pc[t] = "store" => tmp[t] = global_var

(* A thread that is yet to be created has no control point. *)
CreatedSoFar ==
  threads_pc = "init" => \A t \in Ids : t >= next => thread_pc[t] = "none"

(* kthread_stop has returned for a thread only after the thread's return.  *)
StoppedSoFar ==
  /\ threads_pc = "stopping" => \A t \in Ids : t < next => thread_pc[t] = "exited"
  /\ threads_pc = "gone" => \A t \in Ids : thread_pc[t] = "exited"

ThreadsIndInv ==
  ThreadsTypeOK /\ MutexHeld /\ LoadedIsCurrent /\ NoIncrementLost
  /\ CreatedSoFar /\ StoppedSoFar

(* The initial state satisfies the inductive invariant. *)
LEMMA ThreadsInitInv == ThreadsInit => ThreadsIndInv
BY KThreadsAssumption
   DEF ThreadsInit, ThreadsIndInv, ThreadsTypeOK, MutexHeld, LoadedIsCurrent,
       NoIncrementLost, CreatedSoFar, StoppedSoFar

(* init and exit never touch the mutex or the counter. *)
LEMMA ModuleStep ==
  ASSUME ThreadsIndInv, Module
  PROVE  ThreadsIndInv'
<1> USE KThreadsAssumption
    DEF ThreadsIndInv, ThreadsTypeOK, MutexHeld, LoadedIsCurrent, NoIncrementLost,
        CreatedSoFar, StoppedSoFar, thread
<1>1. CASE Create BY <1>1 DEF Create
<1>2. CASE CreateErr BY <1>2 DEF CreateErr
<1>3. CASE InitDone BY <1>3 DEF InitDone
<1>4. CASE Exit BY <1>4 DEF Exit
<1>5. CASE StopCall BY <1>5 DEF StopCall
<1>6. CASE StopReturn BY <1>6 DEF StopReturn
<1>7. CASE StopErr BY <1>7 DEF StopErr
<1>8. CASE ExitDone BY <1>8 DEF ExitDone
<1> QED BY <1>1, <1>2, <1>3, <1>4, <1>5, <1>6, <1>7, <1>8 DEF Module, StopNext

(* A thread loads, adds and stores with the mutex in its hands, so nobody  *)
(* else is at a store with an older value.                                 *)
LEMMA ThreadStep ==
  ASSUME ThreadsIndInv, NEW t \in Ids, Thread(t)
  PROVE  ThreadsIndInv'
<1> USE KThreadsAssumption
    DEF ThreadsIndInv, ThreadsTypeOK, MutexHeld, LoadedIsCurrent, NoIncrementLost,
        CreatedSoFar, StoppedSoFar, module, Goto
<1>1. CASE Start(t) BY <1>1 DEF Start
<1>2. CASE Test(t) BY <1>2 DEF Test
<1>3. CASE Lock(t) BY <1>3 DEF Lock
<1>4. CASE Load(t) BY <1>4 DEF Load
<1>5. CASE Store(t)
  <2>1. tmp[t] = global_var /\ global_var = incs BY <1>5 DEF Store
  <2>2. \A u \in Ids : thread_pc'[u] # "store" BY <1>5 DEF Store
  <2>3. (incs + 1) % Modulus \in 0 .. Modulus - 1 OBVIOUS
  <2> QED BY <1>5, <2>1, <2>2, <2>3 DEF Store
<1>6. CASE Unlock(t) BY <1>6 DEF Unlock
<1>7. CASE Sleep(t) BY <1>7 DEF Sleep
<1>8. CASE Leave(t) BY <1>8 DEF Leave
<1> QED BY <1>1, <1>2, <1>3, <1>4, <1>5, <1>6, <1>7, <1>8 DEF Thread

(* Every step keeps the inductive invariant. *)
LEMMA ThreadsStep == ThreadsIndInv /\ [ThreadsNext]_threadvars => ThreadsIndInv'
<1> SUFFICES ASSUME ThreadsIndInv, [ThreadsNext]_threadvars
             PROVE  ThreadsIndInv'
  OBVIOUS
<1>1. CASE UNCHANGED threadvars
  BY <1>1 DEF threadvars, module, thread, ThreadsIndInv, ThreadsTypeOK, MutexHeld,
              LoadedIsCurrent, NoIncrementLost, CreatedSoFar, StoppedSoFar
<1> QED BY <1>1, ModuleStep, ThreadStep DEF ThreadsNext

(* What the inductive invariant says at the end of rmmod. *)
LEMMA ThreadsImplies == ThreadsIndInv => AllStopped
BY DEF ThreadsIndInv, ThreadsTypeOK, MutexHeld, StoppedSoFar, AllStopped

(* threads.c: no interleaving of the five thread functions, of their       *)
(* creation and of kthread_stop loses an increment of global_var, whatever *)
(* the number of threads and the width of the counter.                     *)
THEOREM CounterCorrect == ThreadsSpec => []NoIncrementLost
<1>1. ThreadsIndInv => NoIncrementLost BY DEF ThreadsIndInv
<1> QED BY <1>1, ThreadsInitInv, ThreadsStep, PTL DEF ThreadsSpec

(* threads.c: when exit_func returns, every thread has left its function   *)
(* and the mutex is free, whatever the number of threads.                  *)
THEOREM StopCorrect == ThreadsSpec => []AllStopped
<1> QED BY ThreadsInitInv, ThreadsStep, ThreadsImplies, PTL DEF ThreadsSpec

=============================================================================
