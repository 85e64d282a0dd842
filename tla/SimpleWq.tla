------------------------------ MODULE SimpleWq ------------------------------
(***************************************************************************)
(* The work queue of HW6 (simple_wq.c): init allocates two works and       *)
(* queues them, my_wq_function prints and frees the work it is called for, *)
(* exit flushes and destroys the queue.  The queue runs one work at a      *)
(* time; the worker may run between any two calls of init.                 *)
(***************************************************************************)
EXTENDS Integers, Sequences

VARIABLES
  wq_pc,      \* module: control point
  my_wq,      \* the queue was created
  allocated,  \* works allocated and not yet freed
  wq,         \* works queued
  current,    \* work being executed, 0 for none
  made, done  \* history: works allocated, works freed, in order

wqvars == <<wq_pc, my_wq, allocated, wq, current, made, done>>

SimpleWqTypeOK ==
  /\ wq_pc \in {"create", "work", "work2", "in", "flush", "gone", "oops"}
  /\ my_wq \in BOOLEAN /\ allocated \subseteq {1, 2} /\ current \in 0 .. 2
  /\ wq \in Seq({1, 2}) /\ made \in Seq({1, 2}) /\ done \in Seq({1, 2})

SimpleWqInit ==
  /\ wq_pc = "create" /\ my_wq = FALSE /\ allocated = {} /\ wq = << >>
  /\ current = 0 /\ made = << >> /\ done = << >>

-----------------------------------------------------------------------------
(* simple_wq_init *)

(* create_workqueue; init returns 0 also when it fails *)
WqCreate ==
  /\ wq_pc = "create"
  /\ my_wq' \in BOOLEAN /\ wq_pc' = IF my_wq' THEN "work" ELSE "in"
  /\ UNCHANGED <<allocated, wq, current, made, done>>

WorkNumber == IF wq_pc = "work" THEN 1 ELSE 2
AfterWork == IF wq_pc = "work" THEN "work2" ELSE "in"

(* Variant that queues work again in place of work2. *)
WqQueueFirst ==
  /\ wq_pc \in {"work", "work2"}
  /\ allocated' = allocated \cup {WorkNumber} /\ made' = Append(made, WorkNumber)
  /\ wq' = IF wq = << >> THEN Append(wq, 1) ELSE wq
  /\ wq_pc' = AfterWork
  /\ UNCHANGED <<my_wq, current, done>>

(* kmalloc, INIT_WORK and queue_work *)
WqQueue ==
  /\ wq_pc \in {"work", "work2"}
  /\ allocated' = allocated \cup {WorkNumber} /\ made' = Append(made, WorkNumber)
  /\ wq' = Append(wq, WorkNumber)
  /\ wq_pc' = AfterWork
  /\ UNCHANGED <<my_wq, current, done>>

(* kmalloc fails: the work is left out *)
WqNoMemory ==
  /\ wq_pc \in {"work", "work2"}
  /\ wq_pc' = AfterWork
  /\ UNCHANGED <<my_wq, allocated, wq, current, made, done>>

-----------------------------------------------------------------------------
(* The worker takes the next work. *)
WqStart ==
  /\ current = 0 /\ wq # << >>
  /\ current' = Head(wq) /\ wq' = Tail(wq)
  /\ UNCHANGED <<wq_pc, my_wq, allocated, made, done>>

(* my_wq_function: kfree(work) *)
my_wq_function ==
  /\ current # 0
  /\ allocated' = allocated \ {current} /\ done' = Append(done, current)
  /\ current' = 0
  /\ UNCHANGED <<wq_pc, my_wq, wq, made>>

-----------------------------------------------------------------------------
(* simple_wq_exit: flush_workqueue of no queue is undefined. *)
WqExit ==
  /\ wq_pc = "in"
  /\ wq_pc' = IF my_wq THEN "flush" ELSE "oops"
  /\ UNCHANGED <<my_wq, allocated, wq, current, made, done>>

(* Variant that waits for the queue but not for the work being executed. *)
WqDestroyNoWait ==
  /\ wq_pc = "flush" /\ wq = << >>
  /\ wq_pc' = "gone" /\ my_wq' = FALSE
  /\ UNCHANGED <<allocated, wq, current, made, done>>

(* flush_workqueue returns, destroy_workqueue *)
WqDestroy ==
  /\ wq_pc = "flush" /\ wq = << >> /\ current = 0
  /\ wq_pc' = "gone" /\ my_wq' = FALSE
  /\ UNCHANGED <<allocated, wq, current, made, done>>

WqWorker == WqStart \/ my_wq_function

SimpleWqNext ==
  \/ WqCreate \/ WqQueue \/ WqNoMemory
  \/ WqWorker
  \/ WqExit \/ WqDestroy

SimpleWqSpec == SimpleWqInit /\ [][SimpleWqNext]_wqvars

-----------------------------------------------------------------------------
(* No work runs that has been freed; when rmmod returns, every work was    *)
(* executed and freed once, in the order of queueing, and none is left.    *)
WorksFreed ==
  /\ current # 0 => current \in allocated
  /\ wq_pc = "gone" => done = made /\ allocated = {} /\ current = 0

(* rmmod returns: the flush ends. *)
WqExitReturns == wq_pc = "flush" ~> wq_pc = "gone"

=============================================================================
