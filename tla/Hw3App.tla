------------------------------- MODULE Hw3App -------------------------------
(***************************************************************************)
(* hw3-app.c of HW16 on top of the driver: it takes the LED away from the  *)
(* kernel, then COUNT times waits for the button with poll(), reads the    *)
(* level without blocking and toggles the LED on a release.                *)
(***************************************************************************)
EXTENDS Hw3

CONSTANT COUNT   \* turns of the main loop
ASSUME AppAssumption == COUNT \in Nat

VARIABLES
  apc,        \* control point of main()
  turn,       \* i
  buf,        \* buf[0]: 0, 1 or 2 for any other character
  app_led,    \* the local led_on
  releases,   \* history: releases read
  toggles,    \* history: toggles made
  others      \* history: what other programs did to it, "data" or "led"

history == <<releases, toggles, others>>
app == <<apc, turn, buf, app_led, history>>

TypeOK ==
  /\ DriverTypeOK
  /\ apc \in {"control", "getled", "poll", "read", "act", "write",
              "exit"}
  /\ turn \in 0 .. COUNT
  /\ buf \in 0 .. 2 /\ app_led \in Levels
  /\ releases \in Nat /\ toggles \in Nat
  /\ others \subseteq {"data", "led"}

(* buf and led_on are uninitialised locals. *)
AppInit ==
  /\ apc = "control" /\ turn = 0
  /\ buf \in 0 .. 2 /\ app_led \in Levels
  /\ releases = 0 /\ toggles = 0 /\ others = {}

(* Variant that leaves the LED to the kernel. *)
AppNoControl ==
  /\ apc = "control" /\ Opened
  /\ apc' = "getled"
  /\ UNCHANGED <<turn, buf, app_led, history, vars>>

(* open, then KERN_CONTROL with 0 *)
AppControl ==
  /\ apc = "control" /\ Opened
  /\ KernControl(0)
  /\ apc' = "getled"
  /\ UNCHANGED <<turn, buf, app_led, history, probe, button, ipc, users>>

(* GETLED *)
AppGetLed ==
  /\ apc = "getled"
  /\ app_led' = led_on
  /\ apc' = "poll"
  /\ UNCHANGED <<turn, buf, history, vars>>

(* poll() returns POLLIN because data_ready is set. *)
AppPoll ==
  /\ apc = "poll" /\ turn < COUNT /\ data_ready
  /\ apc' = "read"
  /\ UNCHANGED <<turn, buf, app_led, history, vars>>

(* poll() times out or fails: goto end, the kernel does not get the LED    *)
(* back.                                                                   *)
AppTimeout ==
  /\ apc = "poll" /\ turn < COUNT /\ ~ data_ready
  /\ apc' = "exit"
  /\ UNCHANGED <<turn, buf, app_led, history, vars>>

(* read() on the O_NONBLOCK file *)
AppRead ==
  /\ apc = "read" /\ Take
  /\ buf' = btn_on
  /\ releases' = IF btn_on = 0 THEN releases + 1 ELSE releases
  /\ apc' = "act"
  /\ UNCHANGED <<turn, app_led, toggles, others, probe, button, ipc, btn_on,
                 led_on, control, led, rpc, val>>

(* read() returns -EAGAIN: an error is printed and buf keeps what it had *)
AppReadAgain ==
  /\ apc = "read" /\ ~ data_ready
  /\ others' = others \cup {"data"}
  /\ apc' = "act"
  /\ UNCHANGED <<turn, buf, app_led, releases, toggles, vars>>

(* Variant that acts on presses as well. *)
AppActAlways ==
  /\ apc = "act"
  /\ app_led' = 1 - app_led /\ buf' = 1 - app_led /\ toggles' = toggles + 1
  /\ apc' = "write"
  /\ UNCHANGED <<turn, releases, others, vars>>

(* buf[0] == '0': toggle; sprintf leaves the new value in buf *)
AppAct ==
  /\ apc = "act" /\ buf = 0
  /\ app_led' = 1 - app_led /\ buf' = 1 - app_led /\ toggles' = toggles + 1
  /\ apc' = "write"
  /\ UNCHANGED <<turn, releases, others, vars>>

AppSkip ==
  /\ apc = "act" /\ buf # 0
  /\ turn' = turn + 1 /\ apc' = "poll"
  /\ UNCHANGED <<buf, app_led, history, vars>>

(* write(fd, buf, 2) *)
AppWrite ==
  /\ apc = "write"
  /\ Write(app_led)
  /\ turn' = turn + 1 /\ apc' = "poll"
  /\ UNCHANGED <<buf, app_led, history, probe, button, ipc, users>>

(* KERN_CONTROL with 1, close *)
AppRestore ==
  /\ apc = "poll" /\ turn = COUNT
  /\ KernControl(1)
  /\ apc' = "exit"
  /\ UNCHANGED <<turn, buf, app_led, history, probe, button, ipc, users>>

AppNext ==
  \/ AppControl \/ AppGetLed \/ AppPoll \/ AppTimeout \/ AppRead
  \/ AppReadAgain \/ AppAct \/ AppSkip \/ AppWrite \/ AppRestore

AppVars == <<vars, app>>

(* Other programs and the button go on meanwhile; the driver is not        *)
(* removed while the program has its file open.                            *)
Others ==
  /\ DriverNext
  /\ Remove => apc \in {"control", "exit"}
  /\ others' = IF OtherSet /\ apc \notin {"control", "exit"}
               THEN others \cup {"led"} ELSE others
  /\ UNCHANGED <<apc, turn, buf, app_led, releases, toggles>>

Init == DriverInit /\ AppInit
Next == AppNext \/ Others
AppSpec == Init /\ [][Next]_AppVars

-----------------------------------------------------------------------------
(* From GETLED until it gives the LED back, the program's led_on is the    *)
(* driver's except while a toggle is on its way to write(): no press slips *)
(* in between KERN_CONTROL and GETLED, and none toggles the LED behind its *)
(* back, unless another program sets the LED or the control.               *)
AppLedMatches ==
  apc \in {"poll", "read", "act"} /\ "led" \notin others => app_led = led_on

(* "Handle release button event": the LED is toggled once per release that *)
(* was read, never twice for one and never for none, as long as no other   *)
(* reader takes the data between poll and read.                            *)
TogglePerRelease ==
  "data" \notin others =>
    /\ toggles <= releases
    /\ releases <= toggles + (IF apc = "act" THEN 1 ELSE 0)

=============================================================================
