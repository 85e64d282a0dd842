----------------------------- MODULE OnboardIo -----------------------------
(***************************************************************************)
(* The button poller of HW6 (onboard_io.c) beside the counter of HW7: both *)
(* request the line BUTTON.  A timer reads the button a number of times    *)
(* and is to switch the LED of the SD card; but led_gpio_init lacks the    *)
(* braces of its first if, returns after gpio_request, and led_gpio stays  *)
(* -1, so no LED is ever switched.  The board has one CPU: the callback is *)
(* one step.                                                               *)
(***************************************************************************)
EXTENDS OnboardIrq

CONSTANTS
  Times,      \* times, 15 in the code
  MaxIoLoads  \* bound: insmod calls

ASSUME OnboardIoAssumption == Times \in Nat \ {0} /\ MaxIoLoads \in Nat

VARIABLES
  io_pc,      \* module: "out", "led" or "timer" in init, "in"
  io_loads,
  led_sd,     \* who has requested LED_SD: "class" (its LED driver), "io", "none"
  times, armed  \* of my_timer

io == <<io_pc, io_loads, led_sd, times, armed>>

IoTypeOK ==
  /\ TypeOK
  /\ io_pc \in {"out", "led", "timer", "in"} /\ io_loads \in 0 .. MaxIoLoads
  /\ led_sd \in {"class", "io", "none"}
  /\ times \in 0 .. Times /\ armed \in BOOLEAN

IoInit ==
  /\ io_pc = "out" /\ io_loads = 0 /\ led_sd = "class"
  /\ times = Times /\ armed = FALSE

-----------------------------------------------------------------------------
(* Variant that frees the line first, as led_gpio_init does. *)
IoButtonFreeFirst ==
  /\ io_pc = "out" /\ io_loads < MaxIoLoads
  /\ io_loads' = io_loads + 1 /\ times' = Times
  /\ \/ io_pc' = "led" /\ button' = "io"
     \/ io_pc' = "out" /\ button' = "none"
  /\ UNCHANGED <<led_sd, armed>>

(* button_gpio_init *)
IoButton ==
  /\ io_pc = "out" /\ io_loads < MaxIoLoads
  /\ io_loads' = io_loads + 1 /\ times' = Times
  /\ \/ io_pc' = "led" /\ button = "none" /\ button' = "io"
     \/ io_pc' = "out" /\ UNCHANGED button
  /\ UNCHANGED <<led_sd, armed>>

(* led_gpio_init: gpio_free of whoever has the line, then gpio_request; if *)
(* that fails, err_led gives the button back.                              *)
IoLed ==
  /\ io_pc = "led"
  /\ \/ io_pc' = "timer" /\ led_sd' = "io" /\ UNCHANGED button
     \/ io_pc' = "out" /\ led_sd' = "none" /\ button' = "none"
  /\ UNCHANGED <<io_loads, times, armed>>

(* mod_timer(&my_timer, start) *)
IoTimer ==
  /\ io_pc = "timer"
  /\ io_pc' = "in" /\ armed' = TRUE
  /\ UNCHANGED <<button, io_loads, led_sd, times>>

(* timer_callback *)
timer_callback ==
  /\ armed
  /\ times' = times - 1 /\ armed' = (times # 1)
  /\ UNCHANGED <<button, io_pc, io_loads, led_sd>>

(* Variant that leaves the timer alone. *)
IoExitNoDel ==
  /\ io_pc = "in"
  /\ io_pc' = "out" /\ button' = "none"
  /\ UNCHANGED <<io_loads, led_sd, times, armed>>

(* onboard_io_exit: del_timer, button_gpio_deinit; the LED is not freed *)
IoExit ==
  /\ io_pc = "in"
  /\ io_pc' = "out" /\ armed' = FALSE /\ button' = "none"
  /\ UNCHANGED <<io_loads, led_sd, times>>

IoNext == IoButton \/ IoLed \/ IoTimer \/ timer_callback \/ IoExit

(* Everything of onboard_irq.c but the line. *)
irqvars == <<mpc, held, tmp, counter, simulate_busy, runthread, tpc, history>>

PairInit == Init /\ IoInit

PairNext ==
  \/ Next /\ UNCHANGED io
  \/ IoNext /\ UNCHANGED irqvars

PairSpec == PairInit /\ [][PairNext]_<<vars, io>>

FairPairSpec ==
  /\ PairSpec
  /\ WF_<<vars, io>>(ThreadNext /\ UNCHANGED io)
  /\ WF_<<vars, io>>(ExitNext /\ UNCHANGED io)

-----------------------------------------------------------------------------
(* Code that reads the button or is called for it runs only while its      *)
(* module is in and has the line, however the modules come and go; exit    *)
(* of onboard_irq, which frees the line before the interrupt, is the       *)
(* exception.                                                              *)
ButtonOwned ==
  /\ armed => io_pc = "in" /\ button = "io"
  /\ "irq" \in held => button = "irq" \/ mpc = "free"

=============================================================================
