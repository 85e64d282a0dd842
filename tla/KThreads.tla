------------------------------ MODULE KThreads ------------------------------
(***************************************************************************)
(* The kernel threads of HW10 (threads.c): init creates and starts the     *)
(* threads one by one, each increments global_var under my_mutex and       *)
(* sleeps, exit stops them in order.  A load and the store after it are    *)
(* two steps.  global_var has Modulus values in place of 2^32.             *)
(***************************************************************************)
EXTENDS Integers

CONSTANTS
  Threads,       \* number of threads, 5 in the code
  Modulus        \* values of the counter

ASSUME KThreadsAssumption == Threads \in Nat \ {0} /\ Modulus \in Nat \ {0}

Ids == 0 .. Threads - 1

VARIABLES
  threads_pc,   \* module: "init", "up", "stopping", "gone" or "oops"
  next,         \* index init or exit works on
  task,         \* "null", "task", or "err" for an ERR_PTR
  should_stop,  \* per thread: kthread_stop was called
  thread_pc,    \* per thread: control point
  tmp,          \* per thread: the value loaded
  my_mutex,     \* holder, or -1
  global_var,
  incs          \* history: increments made, in the counter's width

module == <<threads_pc, next, task, should_stop>>
thread == <<thread_pc, tmp, my_mutex, global_var, incs>>
threadvars == <<module, thread>>

ThreadsTypeOK ==
  /\ threads_pc \in {"init", "up", "stopping", "gone", "oops"} /\ next \in 0 .. Threads
  /\ task \in [Ids -> {"null", "task", "err"}]
  /\ should_stop \in [Ids -> BOOLEAN]
  /\ thread_pc \in [Ids -> {"none", "new", "test", "lock", "load", "store", "unlock",
                            "sleep", "leave", "exited"}]
  /\ tmp \in [Ids -> 0 .. Modulus - 1]
  /\ my_mutex \in Ids \cup {-1}
  /\ global_var \in 0 .. Modulus - 1 /\ incs \in 0 .. Modulus - 1

ThreadsInit ==
  /\ threads_pc = "init" /\ next = 0
  /\ task = [t \in Ids |-> "null"] /\ should_stop = [t \in Ids |-> FALSE]
  /\ thread_pc = [t \in Ids |-> "none"] /\ tmp = [t \in Ids |-> 0]
  /\ my_mutex = -1 /\ global_var = 0 /\ incs = 0

-----------------------------------------------------------------------------
(* init_func *)

(* kthread_run succeeds *)
Create ==
  /\ threads_pc = "init" /\ next < Threads
  /\ task' = [task EXCEPT ![next] = "task"]
  /\ thread_pc' = [thread_pc EXCEPT ![next] = "new"]
  /\ next' = next + 1
  /\ UNCHANGED <<threads_pc, should_stop, tmp, my_mutex, global_var, incs>>

(* kthread_run fails with an ERR_PTR, which if (task[i]) takes for a       *)
(* thread: "created and started successfully".                             *)
CreateErr ==
  /\ threads_pc = "init" /\ next < Threads
  /\ task' = [task EXCEPT ![next] = "err"]
  /\ next' = next + 1
  /\ UNCHANGED <<threads_pc, should_stop, thread>>

InitDone ==
  /\ threads_pc = "init" /\ next = Threads
  /\ threads_pc' = "up"
  /\ UNCHANGED <<next, task, should_stop, thread>>

-----------------------------------------------------------------------------
(* kthread_func_1 .. kthread_func_5 *)

Goto(t, l) == thread_pc' = [thread_pc EXCEPT ![t] = l]

(* First run: a thread stopped before it ran never calls its function. *)
Start(t) ==
  /\ thread_pc[t] = "new"
  /\ Goto(t, IF should_stop[t] THEN "exited" ELSE "test")
  /\ UNCHANGED <<module, tmp, my_mutex, global_var, incs>>

(* while (!kthread_should_stop()) *)
Test(t) ==
  /\ thread_pc[t] = "test"
  /\ Goto(t, IF should_stop[t] THEN "leave" ELSE "lock")
  /\ UNCHANGED <<module, tmp, my_mutex, global_var, incs>>

(* return 0, in kthread_func_4 after one more msleep *)
Leave(t) ==
  /\ thread_pc[t] = "leave"
  /\ Goto(t, "exited")
  /\ UNCHANGED <<module, tmp, my_mutex, global_var, incs>>

(* Variant that does not wait for the mutex. *)
LockFree(t) ==
  /\ thread_pc[t] = "lock"
  /\ my_mutex' = t
  /\ Goto(t, "load")
  /\ UNCHANGED <<module, tmp, global_var, incs>>

Lock(t) ==
  /\ thread_pc[t] = "lock" /\ my_mutex = -1
  /\ my_mutex' = t
  /\ Goto(t, "load")
  /\ UNCHANGED <<module, tmp, global_var, incs>>

(* global_var++ *)
Load(t) ==
  /\ thread_pc[t] = "load"
  /\ tmp' = [tmp EXCEPT ![t] = global_var]
  /\ Goto(t, "store")
  /\ UNCHANGED <<module, my_mutex, global_var, incs>>

Store(t) ==
  /\ thread_pc[t] = "store"
  /\ global_var' = (tmp[t] + 1) % Modulus
  /\ incs' = (incs + 1) % Modulus
  /\ Goto(t, "unlock")
  /\ UNCHANGED <<module, tmp, my_mutex>>

(* Variant that forgets the mutex when it is told to stop. *)
UnlockUnlessStopped(t) ==
  /\ thread_pc[t] = "unlock"
  /\ my_mutex' = IF should_stop[t] THEN my_mutex ELSE -1
  /\ Goto(t, "sleep")
  /\ UNCHANGED <<module, tmp, global_var, incs>>

Unlock(t) ==
  /\ thread_pc[t] = "unlock"
  /\ my_mutex' = -1
  /\ Goto(t, "sleep")
  /\ UNCHANGED <<module, tmp, global_var, incs>>

(* msleep: not cut short by kthread_stop *)
Sleep(t) ==
  /\ thread_pc[t] = "sleep"
  /\ Goto(t, "test")
  /\ UNCHANGED <<module, tmp, my_mutex, global_var, incs>>

Thread(t) ==
  \/ Start(t) \/ Test(t) \/ Lock(t) \/ Load(t) \/ Store(t) \/ Unlock(t)
  \/ Sleep(t) \/ Leave(t)

-----------------------------------------------------------------------------
(* exit_func: kthread_stop on each task in turn *)

Exit ==
  /\ threads_pc = "up"
  /\ threads_pc' = "stopping" /\ next' = 0
  /\ UNCHANGED <<task, should_stop, thread>>

StopCall ==
  /\ threads_pc = "stopping" /\ next < Threads
  /\ task[next] = "task" /\ ~ should_stop[next]
  /\ should_stop' = [should_stop EXCEPT ![next] = TRUE]
  /\ UNCHANGED <<threads_pc, next, task, thread>>

(* Variant that does not wait for the thread to end. *)
StopNoWait ==
  /\ threads_pc = "stopping" /\ next < Threads
  /\ should_stop[next]
  /\ next' = next + 1
  /\ UNCHANGED <<threads_pc, task, should_stop, thread>>

(* kthread_stop returns when the thread has exited. *)
StopReturn ==
  /\ threads_pc = "stopping" /\ next < Threads
  /\ should_stop[next] /\ thread_pc[next] = "exited"
  /\ next' = next + 1
  /\ UNCHANGED <<threads_pc, task, should_stop, thread>>

(* kthread_stop on an ERR_PTR: undefined *)
StopErr ==
  /\ threads_pc = "stopping" /\ next < Threads /\ task[next] = "err"
  /\ threads_pc' = "oops"
  /\ UNCHANGED <<next, task, should_stop, thread>>

ExitDone ==
  /\ threads_pc = "stopping" /\ next = Threads
  /\ threads_pc' = "gone"
  /\ UNCHANGED <<next, task, should_stop, thread>>

StopNext == StopCall \/ StopReturn \/ StopErr \/ ExitDone

Module == Create \/ CreateErr \/ InitDone \/ Exit \/ StopNext

ThreadsNext == Module \/ \E t \in Ids : Thread(t)

ThreadsSpec == ThreadsInit /\ [][ThreadsNext]_threadvars

-----------------------------------------------------------------------------
(* No increment is lost, whatever the interleaving: global_var counts what *)
(* the threads did.                                                        *)
NoIncrementLost == global_var = incs

(* rmmod returns only when every thread has left its function, with the    *)
(* mutex free, so no thread runs in memory that is gone.                   *)
AllStopped ==
  threads_pc = "gone" => my_mutex = -1 /\ \A t \in Ids : thread_pc[t] = "exited"

(* rmmod returns: no thread waits for ever for the mutex or sleeps through *)
(* its stop.  With the ERR_PTR of a failed kthread_run it comes to no good *)
(* end, but it does not hang either.                                       *)
StopReturns == threads_pc = "stopping" ~> threads_pc \in {"gone", "oops"}

=============================================================================
