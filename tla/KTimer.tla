------------------------------- MODULE KTimer -------------------------------
(***************************************************************************)
(* The timer of HW6 (timer.c) that arms itself again a number of times.    *)
(* start and the period are left out: when the callback runs is the        *)
(* kernel's choice.  The board has one CPU: the callback is one step, so   *)
(* del_timer cannot meet it half-way.                                      *)
(***************************************************************************)
EXTENDS Integers

CONSTANT TimerRestarts   \* initial value of restart, 5 in the code
ASSUME KTimerAssumption == TimerRestarts \in Nat

VARIABLES
  timer_pc,       \* module: "init", "in" or "gone"
  timer_restart,  \* restart
  pending,        \* my_timer is armed
  calls           \* history: callbacks run

timervars == <<timer_pc, timer_restart, pending, calls>>

KTimerTypeOK ==
  /\ timer_pc \in {"init", "in", "gone"}
  /\ timer_restart \in -1 .. TimerRestarts /\ pending \in BOOLEAN
  /\ calls \in 0 .. TimerRestarts + 1

KTimerInit ==
  timer_pc = "init" /\ timer_restart = TimerRestarts /\ pending = FALSE /\ calls = 0

(* timer_init: mod_timer(&my_timer, start) *)
TimerInit ==
  /\ timer_pc = "init"
  /\ timer_pc' = "in" /\ pending' = TRUE
  /\ UNCHANGED <<timer_restart, calls>>

(* Variant: if (--restart) *)
CallbackPredecrement ==
  /\ pending
  /\ timer_restart' = timer_restart - 1 /\ pending' = (timer_restart # 1)
  /\ calls' = calls + 1
  /\ UNCHANGED timer_pc

(* timer_callback: if (restart--) start += delay and mod_timer *)
Callback ==
  /\ pending
  /\ timer_restart' = timer_restart - 1 /\ pending' = (timer_restart # 0)
  /\ calls' = calls + 1
  /\ UNCHANGED timer_pc

(* Variant without del_timer. *)
TimerExitNoDel ==
  /\ timer_pc = "in"
  /\ timer_pc' = "gone"
  /\ UNCHANGED <<timer_restart, pending, calls>>

(* timer_exit: del_timer *)
TimerExit ==
  /\ timer_pc = "in"
  /\ timer_pc' = "gone" /\ pending' = FALSE
  /\ UNCHANGED <<timer_restart, calls>>

KTimerNext == TimerInit \/ Callback \/ TimerExit

KTimerSpec == KTimerInit /\ [][KTimerNext]_timervars

-----------------------------------------------------------------------------
(* The callback runs once more than restart says, unless exit comes first, *)
(* and never after exit.                                                   *)
TimerGone ==
  /\ timer_pc = "gone" => ~ pending
  /\ timer_pc = "in" /\ ~ pending => calls = TimerRestarts + 1

=============================================================================
