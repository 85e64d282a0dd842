-------------------------------- MODULE Hw3 --------------------------------
(***************************************************************************)
(* The button and LED driver of HW16 (hw3.c).  Both edges of the button    *)
(* raise an edge-triggered interrupt; the handler records the level, marks *)
(* it as new data and, while the kernel has control, toggles the LED on a  *)
(* press.  Programs read the level (blocking or not), poll for it, and set *)
(* the LED with write() or ioctl().                                        *)
(*                                                                         *)
(* Every critical section under hw3->lock is one step.  The interrupt      *)
(* controller latches one edge: edges that arrive before the handler runs  *)
(* coalesce.                                                               *)
(***************************************************************************)
EXTENDS Integers, Sequences

CONSTANTS
  Users,       \* threads that call read() on a blocking file
  MaxEdges     \* bound on the button edges

ASSUME Hw3Assumption == MaxEdges \in Nat

VARIABLES
  ppc,         \* control point of hw3_probe, "done", or of the removal
  btn, edges,  \* level of the button; edges so far
  irq_pend,    \* an edge is latched
  ipc,         \* handler: "idle", or "wake" before wake_up_interruptible
  data_ready, btn_on, led_on, control,   \* fields of struct hw3
  led,         \* level of the LED output
  rpc,         \* per user: control point in hw3_read
  val,         \* per user: the level it took
  last,        \* history: level taken by the latest read
  clash        \* history: led_on was set when probe turned the LED off

button == <<btn, edges, irq_pend>>
state == <<data_ready, btn_on, led_on, control, led>>
users == <<rpc, val, last>>
probe == <<ppc, clash>>

Levels == {0, 1}

DriverTypeOK ==
  /\ ppc \in {"misc", "led", "done", "release", "gone"}
  /\ btn \in Levels /\ edges \in 0 .. MaxEdges /\ irq_pend \in BOOLEAN
  /\ ipc \in {"idle", "wake"}
  /\ data_ready \in BOOLEAN
  /\ btn_on \in Levels /\ led_on \in Levels /\ control \in Levels
  /\ led \in Levels
  /\ rpc \in [Users -> {"idle", "test", "wait", "asleep", "copy"}]
  /\ val \in [Users -> Levels] /\ last \in Levels /\ clash \in BOOLEAN

(* hw3_probe up to init_waitqueue_head: memory zeroed, LED driven low,     *)
(* kernel control, interrupt requested.  An edge between the request and   *)
(* the initialisation of the wait queue is not modelled.                   *)
DriverInit ==
  /\ ppc = "misc"
  /\ btn \in Levels /\ edges = 0 /\ irq_pend = FALSE /\ ipc = "idle"
  /\ data_ready = FALSE /\ btn_on = 0 /\ led_on = 0 /\ control = 1 /\ led = 0
  /\ rpc = [u \in Users |-> "idle"] /\ val = [u \in Users |-> 0] /\ last = 0
  /\ clash = FALSE

(* misc_register: from here on programs can open /dev/hw3.  If it fails,   *)
(* probe fails and devres releases everything.                             *)
ProbeMisc ==
  /\ ppc = "misc"
  /\ ppc' \in {"led", "release"}
  /\ UNCHANGED <<clash, button, ipc, state, users>>

(* gpiod_set_value(led_gpio, 0), without the lock and without led_on *)
ProbeLed ==
  /\ ppc = "led"
  /\ led' = 0 /\ ppc' = "done" /\ clash' = (led_on = 1)
  /\ UNCHANGED <<button, ipc, data_ready, btn_on, led_on, control, users>>

(* hw3_remove: misc_deregister.  An open file holds the module, so nobody  *)
(* is in a call; the interrupt is still requested.                         *)
Remove ==
  /\ ppc = "done" /\ \A u \in Users : rpc[u] = "idle"
  /\ ppc' = "release"
  /\ UNCHANGED <<clash, button, ipc, state, users>>

(* devres: the interrupt is freed once no handler runs, then the lines and *)
(* the memory.                                                             *)
DevresRelease ==
  /\ ppc = "release" /\ ipc = "idle"
  /\ ppc' = "gone"
  /\ UNCHANGED <<clash, button, ipc, state, users>>

-----------------------------------------------------------------------------
(* Button and handler. *)

Edge ==
  /\ edges < MaxEdges
  /\ btn' = 1 - btn /\ edges' = edges + 1 /\ irq_pend' = TRUE
  /\ UNCHANGED <<probe, ipc, state, users>>

(* Variant that stores the level the button had before the edge. *)
IsrStale ==
  /\ irq_pend /\ ipc = "idle" /\ ppc # "gone"
  /\ irq_pend' = FALSE /\ ipc' = "wake"
  /\ data_ready' = TRUE /\ btn_on' = 1 - btn
  /\ LET toggle == btn = 1 /\ control = 1
     IN  /\ led_on' = IF toggle THEN 1 - led_on ELSE led_on
         /\ led' = IF toggle THEN 1 - led_on ELSE led
  /\ UNCHANGED <<probe, btn, edges, control, users>>

(* Variant that toggles led_on and forgets the output. *)
IsrNoGpio ==
  /\ irq_pend /\ ipc = "idle" /\ ppc # "gone"
  /\ irq_pend' = FALSE /\ ipc' = "wake"
  /\ data_ready' = TRUE /\ btn_on' = btn
  /\ led_on' = IF btn = 1 /\ control = 1 THEN 1 - led_on ELSE led_on
  /\ UNCHANGED <<probe, btn, edges, control, led, users>>

(* hw3_btn_isr, the part under the lock *)
Isr ==
  /\ irq_pend /\ ipc = "idle" /\ ppc # "gone"
  /\ irq_pend' = FALSE /\ ipc' = "wake"
  /\ data_ready' = TRUE /\ btn_on' = btn
  /\ LET toggle == btn = 1 /\ control = 1
     IN  /\ led_on' = IF toggle THEN 1 - led_on ELSE led_on
         /\ led' = IF toggle THEN 1 - led_on ELSE led
  /\ UNCHANGED <<probe, btn, edges, control, users>>

(* wake_up_interruptible(&wait) *)
IsrWake ==
  /\ ipc = "wake"
  /\ ipc' = "idle"
  /\ rpc' = [u \in Users |-> IF rpc[u] = "asleep" THEN "wait" ELSE rpc[u]]
  /\ UNCHANGED <<probe, button, state, val, last>>

-----------------------------------------------------------------------------
(* hw3_read *)

Opened == ppc \in {"led", "done"}

(* The critical section that takes the data. *)
Take ==
  /\ data_ready
  /\ data_ready' = FALSE
  /\ last' = btn_on

ReadCall(u) ==
  /\ Opened /\ rpc[u] = "idle"
  /\ rpc' = [rpc EXCEPT ![u] = "test"]
  /\ UNCHANGED <<probe, button, ipc, state, val, last>>

(* val = btn_on; data_ready = false *)
ReadTake(u) ==
  /\ rpc[u] = "test" /\ Take
  /\ val' = [val EXCEPT ![u] = btn_on]
  /\ rpc' = [rpc EXCEPT ![u] = "copy"]
  /\ UNCHANGED <<probe, button, ipc, btn_on, led_on, control, led>>

(* while (!data_ready): release the lock and wait *)
ReadNone(u) ==
  /\ rpc[u] = "test" /\ ~ data_ready
  /\ rpc' = [rpc EXCEPT ![u] = "wait"]
  /\ UNCHANGED <<probe, button, ipc, state, val, last>>

(* Variant that sleeps without testing the condition again. *)
ReadWaitBlind(u) ==
  /\ rpc[u] = "wait"
  /\ rpc' = [rpc EXCEPT ![u] = "asleep"]
  /\ UNCHANGED <<probe, button, ipc, state, val, last>>

(* wait_event_interruptible(wait, data_ready) *)
ReadWait(u) ==
  /\ rpc[u] = "wait"
  /\ rpc' = [rpc EXCEPT ![u] = IF data_ready THEN "test" ELSE "asleep"]
  /\ UNCHANGED <<probe, button, ipc, state, val, last>>

(* A signal: -ERESTARTSYS *)
ReadIntr(u) ==
  /\ rpc[u] = "asleep"
  /\ rpc' = [rpc EXCEPT ![u] = "idle"]
  /\ UNCHANGED <<probe, button, ipc, state, val, last>>

(* copy_to_user, good or not; the data is consumed either way *)
ReadCopy(u) ==
  /\ rpc[u] = "copy"
  /\ rpc' = [rpc EXCEPT ![u] = "idle"]
  /\ UNCHANGED <<probe, button, ipc, state, val, last>>

Read(u) ==
  \/ ReadCall(u) \/ ReadTake(u) \/ ReadNone(u) \/ ReadWait(u)
  \/ ReadIntr(u) \/ ReadCopy(u)

-----------------------------------------------------------------------------
(* Setting the LED and the control. *)

(* hw3_write of a number v: only a change reaches the output *)
Write(v) ==
  /\ led_on' = v
  /\ led' = IF led_on # v THEN v ELSE led
  /\ UNCHANGED <<data_ready, btn_on, control>>

(* HW3IOC_SETLED *)
SetLed(v) ==
  /\ led_on' = v /\ led' = v
  /\ UNCHANGED <<data_ready, btn_on, control>>

(* HW3IOC_KERN_CONTROL *)
KernControl(c) ==
  /\ control' = c
  /\ UNCHANGED <<data_ready, btn_on, led_on, led>>

(* Some other program. *)
OtherSet ==
  /\ Opened
  /\ \E v \in Levels : Write(v) \/ SetLed(v) \/ KernControl(v)
  /\ UNCHANGED <<probe, button, ipc, users>>

DriverNext ==
  \/ ProbeMisc \/ ProbeLed \/ Remove \/ DevresRelease
  \/ Edge \/ Isr \/ IsrWake
  \/ OtherSet
  \/ \E u \in Users : Read(u)

vars == <<probe, button, ipc, state, users>>

Spec == DriverInit /\ [][DriverNext]_vars

-----------------------------------------------------------------------------
(* No lost wake-up: a reader sleeps on new data only until the handler     *)
(* that produced it reaches wake_up_interruptible.                         *)
NoLostWakeup ==
  \A u \in Users : rpc[u] = "asleep" /\ data_ready => ipc = "wake"

(* Coalesced edges lose intermediate levels but never the final one: once  *)
(* everything is handled and taken, the last level read is the level of    *)
(* the button.                                                             *)
LatestDelivered ==
  edges > 0 /\ ~ irq_pend /\ ~ data_ready => last = btn

(* The LED shows led_on, which is what HW3IOC_GETLED reports and what      *)
(* hw3_write compares with, unless led_on was already set when the end of  *)
(* probe turned the LED off behind its back.                               *)
LedMatches == ppc \in {"done", "release", "gone"} /\ ~ clash => led = led_on

=============================================================================
