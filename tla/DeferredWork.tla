---------------------------- MODULE DeferredWork ----------------------------
(***************************************************************************)
(* Deferred work of HW6 (hrt.c): a high-resolution timer fires, restarts   *)
(* itself a number of times and then schedules two tasklets; each tasklet  *)
(* schedules a work and a delayed work; exit cancels the timer, flushes    *)
(* the system queue and kills the tasklets.                                *)
(*                                                                         *)
(* The kernel's part is modelled by its rules: HI_SOFTIRQ is served before *)
(* TASKLET_SOFTIRQ, tasklets of one kind in the order of their scheduling, *)
(* a work that is pending is not queued again, and a work never runs twice *)
(* at the same time.                                                       *)
(***************************************************************************)
EXTENDS Integers, Sequences

CONSTANT Restarts   \* initial value of restart, 5 in the code
ASSUME DeferredAssumption == Restarts \in Nat

Works == {"my_work", "my_work2"}

VARIABLES
  mpc,       \* module: "up", or the call that exit is in, or "gone"
  restart,
  timer,     \* hr_timer is armed
  hi_vec,    \* tasklets waiting in HI_SOFTIRQ
  vec,       \* tasklets waiting in TASKLET_SOFTIRQ
  delay,     \* the timer of my_work2 is running
  queued,    \* works in the queue of kworker
  running,   \* works being executed
  flushing,  \* what flush_scheduled_work waits for: <<work, "queued" or "running">>
  order,     \* history: tasklets run
  served     \* history: tasklets run when my_work was last started

tasklets == <<hi_vec, vec, order>>
works == <<delay, queued, running, flushing, served>>
deferredvars == <<mpc, restart, timer, tasklets, works>>

Tasklets == {"regularTasklet", "hiPriorTasklet"}

DeferredTypeOK ==
  /\ mpc \in {"up", "flush", "flushing", "kill", "kill_hi", "gone"}
  /\ restart \in -1 .. Restarts
  /\ timer \in BOOLEAN /\ delay \in BOOLEAN
  /\ hi_vec \in Seq(Tasklets) /\ vec \in Seq(Tasklets) /\ order \in Seq(Tasklets)
  /\ queued \subseteq Works /\ running \subseteq Works
  /\ flushing \subseteq Works \X {"queued", "running"}
  /\ served \in 0 .. Len(order)

(* hrt_init *)
DeferredInit ==
  /\ mpc = "up" /\ restart = Restarts /\ timer = TRUE
  /\ hi_vec = << >> /\ vec = << >> /\ order = << >>
  /\ delay = FALSE /\ queued = {} /\ running = {} /\ flushing = {} /\ served = 0

-----------------------------------------------------------------------------
(* if (restart--) restart the timer, else schedule the tasklets *)
my_hrtimer_callback ==
  /\ timer
  /\ restart' = restart - 1
  /\ timer' = (restart # 0)
  /\ IF restart # 0
     THEN UNCHANGED <<hi_vec, vec>>
     ELSE /\ vec' = Append(vec, "regularTasklet")
          /\ hi_vec' = Append(hi_vec, "hiPriorTasklet")
  /\ UNCHANGED <<mpc, order, works>>

(* Variant that skips a work that is busy. *)
TaskletBodyIfIdle ==
  /\ queued' = IF "my_work" \in running THEN queued ELSE queued \cup {"my_work"}
  /\ delay' = (delay \/ "my_work2" \notin queued)
  /\ UNCHANGED <<running, flushing, served>>

(* tasklet_fn and tasklet_hi_fn: schedule_work(&my_work) and               *)
(* schedule_delayed_work(&my_work2); my_work3 and my_work4 are not used.   *)
TaskletBody ==
  /\ queued' = queued \cup {"my_work"}
  /\ delay' = (delay \/ "my_work2" \notin queued)
  /\ UNCHANGED <<running, flushing, served>>

RunHiTasklet ==
  /\ hi_vec # << >>
  /\ hi_vec' = Tail(hi_vec) /\ order' = Append(order, Head(hi_vec))
  /\ TaskletBody
  /\ UNCHANGED <<mpc, restart, timer, vec>>

RunTasklet ==
  /\ hi_vec = << >> /\ vec # << >>
  /\ vec' = Tail(vec) /\ order' = Append(order, Head(vec))
  /\ TaskletBody
  /\ UNCHANGED <<mpc, restart, timer, hi_vec>>

-----------------------------------------------------------------------------
(* The system workqueue *)

Alive == mpc # "gone"

(* 10 s are over *)
DelayExpires ==
  /\ Alive /\ delay
  /\ delay' = FALSE /\ queued' = queued \cup {"my_work2"}
  /\ UNCHANGED <<mpc, restart, timer, tasklets, running, flushing, served>>

WorkStart(w) ==
  /\ Alive /\ w \in queued /\ w \notin running
  /\ queued' = queued \ {w} /\ running' = running \cup {w}
  /\ flushing' = {IF f = <<w, "queued">> THEN <<w, "running">> ELSE f : f \in flushing}
  /\ served' = IF w = "my_work" THEN Len(order) ELSE served
  /\ UNCHANGED <<mpc, restart, timer, tasklets, delay>>

(* my_work_handler returns *)
WorkEnd(w) ==
  /\ Alive /\ w \in running
  /\ running' = running \ {w} /\ flushing' = flushing \ {<<w, "running">>}
  /\ UNCHANGED <<mpc, restart, timer, tasklets, delay, queued, served>>

-----------------------------------------------------------------------------
(* hrt_exit *)

(* hrtimer_cancel *)
DeferredExit ==
  /\ mpc = "up"
  /\ timer' = FALSE /\ mpc' = "flush"
  /\ UNCHANGED <<restart, tasklets, works>>

(* flush_scheduled_work: what is queued now, or running, is waited for *)
Flush ==
  /\ mpc = "flush"
  /\ flushing' = (queued \X {"queued"}) \cup (running \X {"running"})
  /\ mpc' = "flushing"
  /\ UNCHANGED <<restart, timer, tasklets, delay, queued, running, served>>

FlushReturn ==
  /\ mpc = "flushing" /\ flushing = {}
  /\ mpc' = "kill"
  /\ UNCHANGED <<restart, timer, tasklets, works>>

(* Variant without the first tasklet_kill. *)
KillNoWait ==
  /\ mpc = "kill"
  /\ mpc' = "kill_hi"
  /\ UNCHANGED <<restart, timer, tasklets, works>>

(* tasklet_kill waits until a tasklet that is scheduled has run. *)
KillRegular ==
  /\ mpc = "kill" /\ "regularTasklet" \notin {vec[i] : i \in 1 .. Len(vec)}
  /\ mpc' = "kill_hi"
  /\ UNCHANGED <<restart, timer, tasklets, works>>

(* Variant that waits for a run that may never have been scheduled. *)
KillHiAfterRun ==
  /\ mpc = "kill_hi" /\ "hiPriorTasklet" \in {order[i] : i \in 1 .. Len(order)}
  /\ mpc' = "gone"
  /\ UNCHANGED <<restart, timer, tasklets, works>>

KillHi ==
  /\ mpc = "kill_hi" /\ "hiPriorTasklet" \notin {hi_vec[i] : i \in 1 .. Len(hi_vec)}
  /\ mpc' = "gone"
  /\ UNCHANGED <<restart, timer, tasklets, works>>

ExitNext == Flush \/ FlushReturn \/ KillRegular \/ KillHi
Softirq == RunHiTasklet \/ RunTasklet
Worker(w) == WorkStart(w) \/ WorkEnd(w)

DeferredNext ==
  \/ my_hrtimer_callback \/ Softirq
  \/ DelayExpires \/ \E w \in Works : Worker(w)
  \/ DeferredExit \/ ExitNext

DeferredSpec == DeferredInit /\ [][DeferredNext]_deferredvars

-----------------------------------------------------------------------------
(* Scheduling a work that is pending or running loses nothing: once        *)
(* my_work is off the queue, it was started after the last tasklet that    *)
(* asked for it.                                                           *)
WorkServesAll == "my_work" \notin queued => served = Len(order)

(* After rmmod neither the timer nor a tasklet can run. *)
NoTaskletAfterExit ==
  mpc = "gone" => ~ timer /\ hi_vec = << >> /\ vec = << >>

(* After rmmod no work is queued, delayed or at work.  The assignment of   *)
(* HW6 asks for it; exit flushes before it kills the tasklets that         *)
(* schedule works, and never cancels the delayed one.                      *)
WorksCancelled ==
  mpc = "gone" => ~ delay /\ queued = {} /\ running = {}

(* rmmod returns: the flush and the two kills all end. *)
ExitReturns == mpc = "flush" ~> mpc = "gone"

=============================================================================
