----------------------------- MODULE EventList -----------------------------
(***************************************************************************)
(* The circular list of events of HW9 (spinlock.c).  A periodic timer puts *)
(* the next number into the first element, if that is empty, and rotates   *)
(* the list; a second timer, in place of a button interrupt, takes the     *)
(* first number it finds.  The list is a sequence of numbers, 0 for an     *)
(* empty element.  Time is in steps of 100 ms.                             *)
(*                                                                         *)
(* The two callbacks may run on two CPUs; each critical section under      *)
(* list_spinlock is one step.  A callback is short: time does not pass     *)
(* while one runs.                                                         *)
(***************************************************************************)
EXTENDS Integers, Sequences, FiniteSets

CONSTANTS
  Allocated,   \* how many of init's allocations succeed, from 0 to 5 in the code
  Times,       \* times of timer_callback, 15 in the code
  IrqTimes     \* times of irq_simulation_callback, 6 in the code

ASSUME EventAssumption ==
  Allocated \subseteq Nat /\ Times \in Nat \ {0} /\ IrqTimes \in Nat \ {0}

VARIABLES
  loaded,            \* the module is in
  list,              \* the numbers, from the head of the list
  current_number,    \* head.current_number
  times, irq_times,  \* the two static counters
  now,               \* jiffies
  my_timer, irq_timer,  \* expiry of the pending timers, -1 if not pending
  tpc, ipc,          \* control points of the two callbacks
  printed,           \* history: numbers taken, in order
  overflow           \* history: numbers reported as not stored

timers == <<now, my_timer, irq_timer>>
eventvars == <<loaded, list, current_number, times, irq_times, timers, tpc, ipc,
          printed, overflow>>

EventTypeOK ==
  /\ loaded \in BOOLEAN
  /\ list \in Seq(Nat)
  /\ current_number \in Nat
  /\ times \in Int /\ irq_times \in Int
  /\ now \in Nat /\ my_timer \in Int /\ irq_timer \in Int
  /\ tpc \in {"idle", "lock", "rearm"} /\ ipc \in {"idle", "lock", "rearm"}
  /\ printed \in Seq(Nat) /\ overflow \in Seq(Nat)

(* simple_wq_init: every kmalloc may fail, the list has as many elements   *)
(* as succeeded.                                                           *)
EventInit ==
  /\ loaded = TRUE
  /\ \E n \in Allocated : list = [i \in 1 .. n |-> 0]
  /\ current_number = 0
  /\ times = Times /\ irq_times = IrqTimes
  /\ now = 0 /\ my_timer = 10 /\ irq_timer = 15
  /\ tpc = "idle" /\ ipc = "idle"
  /\ printed = << >> /\ overflow = << >>

-----------------------------------------------------------------------------
(* Pending timers expire in the order of their times. *)
Due(t, other) == t # -1 /\ (other = -1 \/ t <= other)

(* timer_callback up to the lock: the number is taken outside it *)
TimerFire ==
  /\ loaded /\ tpc = "idle" /\ Due(my_timer, irq_timer)
  /\ my_timer <= now \/ ipc = "idle"
  /\ now' = (IF my_timer > now THEN my_timer ELSE now)
  /\ my_timer' = -1
  /\ current_number' = current_number + 1
  /\ tpc' = "lock"
  /\ UNCHANGED <<loaded, list, times, irq_times, irq_timer, ipc, printed, overflow>>

(* Variant that does not look whether the element is empty. *)
TimerStoreOver ==
  /\ loaded /\ tpc = "lock" /\ list # << >>
  /\ list' = Append(Tail(list), current_number)
  /\ tpc' = "rearm"
  /\ UNCHANGED <<loaded, current_number, times, irq_times, timers, ipc, printed,
                 overflow>>

(* The first element is empty: fill it and list_rotate_left. *)
TimerStore ==
  /\ loaded /\ tpc = "lock" /\ list # << >> /\ list[1] = 0
  /\ list' = Append(Tail(list), current_number)
  /\ tpc' = "rearm"
  /\ UNCHANGED <<loaded, current_number, times, irq_times, timers, ipc, printed,
                 overflow>>

(* The first element is in use: report the number. *)
TimerOverflow ==
  /\ loaded /\ tpc = "lock" /\ list # << >> /\ list[1] # 0
  /\ overflow' = Append(overflow, current_number)
  /\ tpc' = "rearm"
  /\ UNCHANGED <<loaded, list, current_number, times, irq_times, timers, ipc,
                 printed>>

(* if (--times) mod_timer(&my_timer, jiffies + 500 ms) *)
TimerRearm ==
  /\ loaded /\ tpc = "rearm"
  /\ times' = times - 1
  /\ my_timer' = (IF times - 1 # 0 THEN now + 5 ELSE my_timer)
  /\ tpc' = "idle"
  /\ UNCHANGED <<loaded, list, current_number, irq_times, now, irq_timer, ipc,
                 printed, overflow>>

-----------------------------------------------------------------------------
(* irq_simulation_callback *)

IrqFire ==
  /\ loaded /\ ipc = "idle" /\ Due(irq_timer, my_timer)
  /\ irq_timer <= now \/ tpc = "idle"
  /\ now' = (IF irq_timer > now THEN irq_timer ELSE now)
  /\ irq_timer' = -1
  /\ ipc' = "lock"
  /\ UNCHANGED <<loaded, list, current_number, times, irq_times, my_timer, tpc,
                 printed, overflow>>

(* Positions of the filled elements, and the first of them. *)
Filled == {i \in 1 .. Len(list) : list[i] # 0}
First == CHOOSE i \in Filled : \A j \in Filled : i <= j

(* Variant that takes the last filled element. *)
IrqTakeLast ==
  /\ loaded /\ ipc = "lock"
  /\ IF Filled # {}
     THEN LET f == CHOOSE i \in Filled : \A j \in Filled : i >= j
          IN  printed' = Append(printed, list[f]) /\ list' = [list EXCEPT ![f] = 0]
     ELSE UNCHANGED <<list, printed>>
  /\ ipc' = "rearm"
  /\ UNCHANGED <<loaded, current_number, times, irq_times, timers, tpc, overflow>>

(* The loop stops at the first element with a number and empties it. *)
IrqTake ==
  /\ loaded /\ ipc = "lock"
  /\ IF Filled # {}
     THEN /\ printed' = Append(printed, list[First])
          /\ list' = [list EXCEPT ![First] = 0]
     ELSE UNCHANGED <<list, printed>>
  /\ ipc' = "rearm"
  /\ UNCHANGED <<loaded, current_number, times, irq_times, timers, tpc, overflow>>

(* if (--times) mod_timer(&my_timer, jiffies + 600 ms): the other timer *)
IrqRearm ==
  /\ loaded /\ ipc = "rearm"
  /\ irq_times' = irq_times - 1
  /\ my_timer' = (IF irq_times - 1 # 0 THEN now + 6 ELSE my_timer)
  /\ ipc' = "idle"
  /\ UNCHANGED <<loaded, list, current_number, times, now, irq_timer, tpc,
                 printed, overflow>>

(* simple_wq_exit frees the list; the timers are left as they are.  What a *)
(* callback does after that is undefined and not modelled.                 *)
EventExit ==
  /\ loaded
  /\ loaded' = FALSE /\ list' = << >>
  /\ UNCHANGED <<current_number, times, irq_times, timers, tpc, ipc, printed,
                 overflow>>

EventNext ==
  \/ TimerFire \/ TimerStore \/ TimerOverflow \/ TimerRearm
  \/ IrqFire \/ IrqTake \/ IrqRearm
  \/ EventExit

EventSpec == EventInit /\ [][EventNext]_eventvars

-----------------------------------------------------------------------------
(* The list is a FIFO queue under both callbacks: what is still in the     *)
(* list, read from the head, is in the order of storing, and came after    *)
(* what was printed.                                                       *)
Fifo ==
  /\ \A i \in 1 .. Len(printed), j \in Filled : printed[i] < list[j]
  /\ \A i, j \in Filled : i < j => list[i] < list[j]

(* The numbers a callback has dealt with. *)
Dealt == current_number - (IF tpc = "lock" THEN 1 ELSE 0)

(* While the module is in, every number is printed, in the list or         *)
(* reported as overflow, and exactly one of these.                         *)
NoneLost ==
  loaded => Len(printed) + Len(overflow) + Cardinality(Filled) = Dealt

=============================================================================
