----------------------------- MODULE OnboardIrq -----------------------------
(***************************************************************************)
(* The button counter of HW7 (onboard_irq.c).  gpio_irq_handler counts the *)
(* presses and wakes gpio_interrupt_thread_fn, which prints the count;     *)
(* debugfs gives the counter to users, who may write it.  Init increments  *)
(* the same counter after it has requested the interrupt, in two steps     *)
(* each time, a load and a store, that the handler may come between.  The  *)
(* board has one CPU: the handler is one step.                             *)
(***************************************************************************)
EXTENDS Integers

CONSTANTS
  MaxPresses,   \* bound: presses of the button
  MaxWrites,    \* bound: writes to the debugfs file
  Written       \* values users write to it

ASSUME OnboardAssumption ==
  MaxPresses \in Nat /\ MaxWrites \in Nat /\ Written \subseteq Nat

VARIABLES
  mpc,            \* module: control point of init or exit
  held,           \* what the module owns: "dir", "irq"
  button,         \* who has requested the line BUTTON: "none", "irq", "io"
  counter,
  tmp,            \* counter as init loaded it
  simulate_busy,  \* module parameter, writable
  runthread,      \* IRQTF_RUNTHREAD: the thread has been woken
  tpc,            \* control point of the interrupt thread
  presses,        \* history: presses handled
  seen,           \* history: presses at the last line the thread printed
  writes          \* history: writes to the debugfs file

module == <<mpc, held, button, tmp>>
history == <<presses, seen, writes>>
vars == <<module, counter, simulate_busy, runthread, tpc, history>>

TypeOK ==
  /\ mpc \in {"dir", "gpio", "irq", "load1", "store1", "load20", "store20", "up",
              "free", "wait", "rmdir", "gone", "failed"}
  /\ held \subseteq {"dir", "irq"} /\ button \in {"none", "irq", "io"}
  /\ counter \in Nat /\ tmp \in Nat
  /\ simulate_busy \in BOOLEAN /\ runthread \in BOOLEAN
  /\ tpc \in {"none", "idle", "run", "sleep", "exited"}
  /\ presses \in Nat /\ seen \in Nat /\ writes \in Nat

Init ==
  /\ mpc = "dir" /\ held = {} /\ button = "none" /\ tmp = 0
  /\ counter = 0 /\ simulate_busy = FALSE
  /\ runthread = FALSE /\ tpc = "none"
  /\ presses = 0 /\ seen = 0 /\ writes = 0

-----------------------------------------------------------------------------
(* onboard_io_init *)

(* debugfs_create_dir and debugfs_create_u32; an ERR_PTR passes the test   *)
(* for NULL, and there is no file then.                                    *)
InitDir ==
  /\ mpc = "dir"
  /\ \/ mpc' = "gpio" /\ held' = held \cup {"dir"}
     \/ mpc' = "gpio" /\ held' = held
     \/ mpc' = "failed" /\ held' = held
  /\ UNCHANGED <<button, tmp, counter, simulate_busy, runthread, tpc, history>>

(* button_gpio_init: another module may have the line; it frees the line   *)
(* itself if it cannot be an input                                         *)
InitButton ==
  /\ mpc = "gpio"
  /\ \/ mpc' = "irq" /\ button = "none" /\ button' = "irq"
     \/ mpc' = "failed" /\ UNCHANGED button
  /\ UNCHANGED <<held, tmp, counter, simulate_busy, runthread, tpc, history>>

(* request_threaded_irq; its failure goes to err_button, past err_led, and *)
(* the line stays requested                                                *)
InitIrq ==
  /\ mpc = "irq"
  /\ \/ mpc' = "load1" /\ held' = held \cup {"irq"} /\ tpc' = "idle"
     \/ mpc' = "failed" /\ UNCHANGED <<held, tpc>>
  /\ UNCHANGED <<button, tmp, counter, simulate_busy, runthread, history>>

(* counter++ and counter += 20 *)
InitLoad ==
  /\ mpc \in {"load1", "load20"}
  /\ tmp' = counter
  /\ mpc' = IF mpc = "load1" THEN "store1" ELSE "store20"
  /\ UNCHANGED <<held, button, counter, simulate_busy, runthread, tpc, history>>

InitStore ==
  /\ mpc \in {"store1", "store20"}
  /\ counter' = tmp + (IF mpc = "store1" THEN 1 ELSE 20)
  /\ mpc' = IF mpc = "store1" THEN "load20" ELSE "up"
  /\ UNCHANGED <<held, button, tmp, simulate_busy, runthread, tpc, history>>

-----------------------------------------------------------------------------
(* The interrupt and its thread *)

(* Variant that does not wake a thread that is at work. *)
HandlerNoWake ==
  /\ "irq" \in held /\ presses < MaxPresses
  /\ counter' = counter + 1
  /\ presses' = presses + 1
  /\ runthread' = (tpc = "idle")
  /\ UNCHANGED <<module, simulate_busy, tpc, seen, writes>>

gpio_irq_handler ==
  /\ "irq" \in held /\ presses < MaxPresses
  /\ counter' = counter + 1
  /\ presses' = presses + 1
  /\ runthread' = TRUE
  /\ UNCHANGED <<module, simulate_busy, tpc, seen, writes>>

(* irq_thread of the kernel: test_and_clear_bit(IRQTF_RUNTHREAD), also     *)
(* once more after kthread_stop                                            *)
ThreadWake ==
  /\ tpc = "idle" /\ runthread
  /\ runthread' = FALSE
  /\ tpc' = "run"
  /\ UNCHANGED <<module, counter, simulate_busy, history>>

(* gpio_interrupt_thread_fn *)
ThreadFn ==
  /\ tpc = "run"
  /\ seen' = presses
  /\ tpc' = IF simulate_busy THEN "sleep" ELSE "idle"
  /\ UNCHANGED <<module, counter, simulate_busy, runthread, presses, writes>>

(* msleep(2000) ends *)
ThreadSlept ==
  /\ tpc = "sleep"
  /\ tpc' = "idle"
  /\ UNCHANGED <<module, counter, simulate_busy, runthread, history>>

(* the thread has been told to stop and nothing is left to handle *)
ThreadExit ==
  /\ tpc = "idle" /\ mpc = "wait" /\ ~ runthread
  /\ tpc' = "exited"
  /\ UNCHANGED <<module, counter, simulate_busy, runthread, history>>

-----------------------------------------------------------------------------
(* Users: the debugfs file and the module parameter.  A failed init leaves *)
(* the file behind; what a write does then is undefined and not modelled.  *)

DebugfsWrite(v) ==
  /\ "dir" \in held /\ mpc # "failed" /\ writes < MaxWrites
  /\ counter' = v
  /\ writes' = writes + 1
  /\ UNCHANGED <<module, simulate_busy, runthread, tpc, presses, seen>>

SetBusy ==
  /\ mpc \notin {"gone", "failed"}
  /\ simulate_busy' = ~ simulate_busy
  /\ UNCHANGED <<module, counter, runthread, tpc, history>>

-----------------------------------------------------------------------------
(* onboard_io_exit *)

(* button_gpio_deinit: the interrupt is still requested *)
ExitButton ==
  /\ mpc = "up"
  /\ mpc' = "free" /\ button' = "none"
  /\ UNCHANGED <<held, tmp, counter, simulate_busy, runthread, tpc, history>>

(* free_irq: no handler runs from here on; the thread is told to stop *)
ExitIrq ==
  /\ mpc = "free"
  /\ mpc' = "wait" /\ held' = held \ {"irq"}
  /\ UNCHANGED <<button, tmp, counter, simulate_busy, runthread, tpc, history>>

(* Variant: free_irq_nosync *)
ExitNoWait ==
  /\ mpc = "wait"
  /\ mpc' = "rmdir"
  /\ UNCHANGED <<held, button, tmp, counter, simulate_busy, runthread, tpc, history>>

(* free_irq returns *)
ExitWait ==
  /\ mpc = "wait" /\ tpc = "exited"
  /\ mpc' = "rmdir"
  /\ UNCHANGED <<held, button, tmp, counter, simulate_busy, runthread, tpc, history>>

(* debugfs_remove_recursive *)
ExitDir ==
  /\ mpc = "rmdir"
  /\ mpc' = "gone" /\ held' = held \ {"dir"}
  /\ UNCHANGED <<button, tmp, counter, simulate_busy, runthread, tpc, history>>

-----------------------------------------------------------------------------
InitNext == InitDir \/ InitButton \/ InitIrq \/ InitLoad \/ InitStore
ThreadNext == ThreadWake \/ ThreadFn \/ ThreadSlept \/ ThreadExit
ExitNext == ExitIrq \/ ExitWait \/ ExitDir

Next ==
  \/ InitNext \/ gpio_irq_handler \/ ThreadNext
  \/ (\E v \in Written : DebugfsWrite(v)) \/ SetBusy
  \/ ExitButton \/ ExitNext

Spec == Init /\ [][Next]_vars

(* The interrupt thread is scheduled and its sleep ends; exit, once         *)
(* called, goes on.  Nobody has to press, write or unload.                 *)
FairSpec == Spec /\ WF_vars(ThreadNext) /\ WF_vars(ExitNext)

-----------------------------------------------------------------------------
(* Once init is done, and if users have written nothing, the counter has   *)
(* every press and the 21 that init adds.  The assignment of HW7 holds the *)
(* counter safe because one side only reads it; but init, which adds to it *)
(* with the interrupt requested, is a second side that writes.             *)
PressesCounted == mpc = "up" /\ writes = 0 => counter = presses + 21

(* However many presses fall on one wakeup, and also when they come while  *)
(* the thread sleeps, a thread with nothing to do has printed after the    *)
(* last of them.                                                           *)
LatestPrinted ==
  tpc \in {"idle", "exited"} /\ ~ runthread => seen = presses

(* rmmod returns only when the thread has ended, with no press left        *)
(* unprinted and nothing still owned.                                      *)
ExitClean ==
  mpc = "gone" => /\ tpc = "exited" /\ seen = presses
                  /\ held = {} /\ button # "irq"

(* Every press is followed by a line of the thread that counts it. *)
PressPrinted == \A n \in 1 .. MaxPresses : presses >= n ~> seen >= n

(* rmmod returns, also when the thread is in its long sleep. *)
ExitReturns == mpc = "free" ~> mpc = "gone"

=============================================================================
