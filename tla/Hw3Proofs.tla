----------------------------- MODULE Hw3Proofs -----------------------------
(***************************************************************************)
(* Proofs about the driver of HW16 for every set of readers and every      *)
(* number of button edges: alone, and under hw3-app for every COUNT.       *)
(***************************************************************************)
EXTENDS Hw3App, TLAPS

USE DEF Levels

-----------------------------------------------------------------------------
(* The driver. *)

(* The last level the handler recorded is the button's, unless an edge is  *)
(* latched.                                                                *)
Recorded == edges > 0 /\ ~ irq_pend => btn_on = btn

(* The output shows led_on, unless the end of probe found it set.          *)
LedFollows == ~ clash => led = led_on

DriverInv ==
  DriverTypeOK /\ NoLostWakeup /\ Recorded /\ LatestDelivered /\ LedFollows

LEMMA DriverInitInv == DriverInit => DriverInv
<1> SUFFICES ASSUME DriverInit PROVE DriverInv
  OBVIOUS
<1>0. irq_pend \in BOOLEAN /\ data_ready \in BOOLEAN /\ clash \in BOOLEAN
  BY DEF DriverInit
<1>1. DriverTypeOK BY <1>0, Hw3Assumption DEF DriverInit, DriverTypeOK
<1>2. NoLostWakeup BY DEF DriverInit, NoLostWakeup
<1> QED BY <1>1, <1>2 DEF DriverInit, DriverInv, Recorded, LatestDelivered, LedFollows

(* probe, removal and devres. *)
LEMMA ProbeStep ==
  ASSUME DriverInv, ProbeMisc \/ ProbeLed \/ Remove \/ DevresRelease
  PROVE  DriverInv'
<1> USE DEF DriverInv, DriverTypeOK, NoLostWakeup, Recorded, LatestDelivered,
            LedFollows, button, state, users
<1>1. CASE ProbeMisc BY <1>1 DEF ProbeMisc
<1>2. CASE ProbeLed
  <2>1. clash' \in BOOLEAN /\ (~ clash' => led_on # 1) BY <1>2 DEF ProbeLed
  <2> QED BY <1>2, <2>1 DEF ProbeLed
<1>3. CASE Remove BY <1>3 DEF Remove
<1>4. CASE DevresRelease BY <1>4 DEF DevresRelease
<1> QED BY <1>1, <1>2, <1>3, <1>4

(* The button and the handler: whoever sleeps when the data comes is woken *)
(* by the second half of the handler.                                      *)
LEMMA ButtonStep ==
  ASSUME DriverInv, Edge \/ Isr \/ IsrWake
  PROVE  DriverInv'
<1> USE Hw3Assumption
    DEF DriverInv, DriverTypeOK, NoLostWakeup, Recorded, LatestDelivered,
        LedFollows, button, state, users, probe
<1>1. CASE Edge
  <2>1. btn' \in Levels /\ edges' \in 0 .. MaxEdges BY <1>1 DEF Edge
  <2>2. irq_pend' \in BOOLEAN BY <1>1 DEF Edge
  <2>3. DriverTypeOK' BY <1>1, <2>1, <2>2 DEF Edge
  <2>4. NoLostWakeup' /\ LedFollows' BY <1>1 DEF Edge
  <2>5. Recorded' /\ LatestDelivered' BY <1>1 DEF Edge
  <2> QED BY <2>3, <2>4, <2>5 DEF DriverInv
<1>2. CASE Isr
  <2>1. irq_pend' \in BOOLEAN /\ data_ready' \in BOOLEAN BY <1>2 DEF Isr
  <2>2. DriverTypeOK' BY <1>2, <2>1 DEF Isr
  <2>3. NoLostWakeup' /\ LedFollows' BY <1>2 DEF Isr
  <2>4. Recorded' /\ LatestDelivered' BY <1>2 DEF Isr
  <2> QED BY <2>2, <2>3, <2>4 DEF DriverInv
<1>3. CASE IsrWake BY <1>3 DEF IsrWake
<1> QED BY <1>1, <1>2, <1>3

(* Setting the LED or the control. *)
LEMMA SetStep ==
  ASSUME DriverInv, NEW v \in Levels, Write(v) \/ SetLed(v) \/ KernControl(v),
         UNCHANGED <<probe, button, ipc, users>>
  PROVE  DriverInv'
BY DEF Write, SetLed, KernControl, DriverInv, DriverTypeOK, NoLostWakeup, Recorded,
       LatestDelivered, LedFollows, button, users, probe

(* A reader tests data_ready again before it sleeps and takes the level    *)
(* that was recorded last.                                                 *)
LEMMA ReaderStep ==
  ASSUME DriverInv, NEW u \in Users, Read(u)
  PROVE  DriverInv'
<1> USE DEF DriverInv, DriverTypeOK, NoLostWakeup, Recorded, LatestDelivered,
            LedFollows, button, state, probe
<1>1. CASE ReadCall(u) BY <1>1 DEF ReadCall
<1>2. CASE ReadTake(u) BY <1>2 DEF ReadTake, Take
<1>3. CASE ReadNone(u) BY <1>3 DEF ReadNone
<1>4. CASE ReadWait(u) BY <1>4 DEF ReadWait
<1>5. CASE ReadIntr(u) BY <1>5 DEF ReadIntr
<1>6. CASE ReadCopy(u) BY <1>6 DEF ReadCopy
<1> QED BY <1>1, <1>2, <1>3, <1>4, <1>5, <1>6 DEF Read

(* Nothing happens to the driver. *)
LEMMA DriverStutter == DriverInv /\ UNCHANGED vars => DriverInv'
BY DEF vars, probe, button, state, users, DriverInv, DriverTypeOK, NoLostWakeup,
       Recorded, LatestDelivered, LedFollows

LEMMA DriverStep == DriverInv /\ [DriverNext]_vars => DriverInv'
<1>1. DriverInv /\ OtherSet => DriverInv' BY SetStep DEF OtherSet
<1> QED BY <1>1, ProbeStep, ButtonStep, ReaderStep, DriverStutter DEF DriverNext

LEMMA DriverImplies == DriverInv => NoLostWakeup /\ LatestDelivered /\ LedMatches
BY DEF DriverInv, LedFollows, LedMatches

(* hw3.c: no reader sleeps through the data it waits for, whatever the     *)
(* number of readers: the condition is tested again between the unlock and *)
(* the sleep, and the handler wakes after it has set it.                   *)
THEOREM ReaderWoken == Spec => []NoLostWakeup
BY DriverInitInv, DriverStep, DriverImplies, PTL DEF Spec

(* hw3.c: edges coalesce and readers race for the level, but the level of  *)
(* the last edge is the one that is read last.                             *)
THEOREM LevelDelivered == Spec => []LatestDelivered
BY DriverInitInv, DriverStep, DriverImplies, PTL DEF Spec

(* hw3.c: between the handler, write() and the two ioctls the LED and      *)
(* led_on stay together, except for the store at the end of probe.         *)
THEOREM LedCorrect == Spec => []LedMatches
BY DriverInitInv, DriverStep, DriverImplies, PTL DEF Spec

-----------------------------------------------------------------------------
(* The program. *)

(* In a turn of the loop there is a turn left.                             *)
TurnLeft == apc \in {"read", "act", "write"} => turn < COUNT

(* The kernel does not toggle the LED while the program has it.            *)
Controlled ==
  apc \in {"getled", "poll", "read", "act", "write"} /\ "led" \notin others
    => control = 0

(* One toggle is due after a release was read, none otherwise.             *)
ToggleDue ==
  "data" \notin others =>
    releases = toggles + (IF apc = "act" /\ buf = 0 THEN 1 ELSE 0)

AppInv ==
  TypeOK /\ DriverInv /\ TurnLeft /\ Controlled /\ AppLedMatches /\ ToggleDue

LEMMA AppInitInv == Init => AppInv
<1> SUFFICES ASSUME Init PROVE AppInv
  OBVIOUS
<1>1. DriverInv BY DriverInitInv DEF Init
<1> QED BY <1>1, AppAssumption
        DEF Init, AppInit, AppInv, TypeOK, DriverInv, TurnLeft, Controlled,
            AppLedMatches, ToggleDue

(* A step of the program keeps what the driver guarantees. *)
LEMMA AppKeepsDriver == AppInv /\ AppNext => DriverInv'
<1> SUFFICES ASSUME AppInv, AppNext PROVE DriverInv'
  OBVIOUS
<1> USE DEF AppInv
<1>1. CASE UNCHANGED vars BY <1>1, DriverStutter
<1>2. CASE AppControl BY <1>2, SetStep DEF AppControl
<1>3. CASE AppWrite BY <1>3, SetStep DEF AppWrite, TypeOK
<1>4. CASE AppRestore BY <1>4, SetStep DEF AppRestore
<1>5. CASE AppRead
  BY <1>5 DEF AppRead, Take, DriverInv, DriverTypeOK, NoLostWakeup, Recorded,
              LatestDelivered, LedFollows, button, probe
<1> QED BY <1>1, <1>2, <1>3, <1>4, <1>5
        DEF AppNext, AppGetLed, AppPoll, AppTimeout, AppReadAgain, AppAct, AppSkip

(* A step of the program keeps the rest. *)
LEMMA AppStep == AppInv /\ AppNext => AppInv'
<1> SUFFICES ASSUME AppInv, AppNext PROVE AppInv'
  OBVIOUS
<1>d. DriverInv' /\ DriverTypeOK' BY AppKeepsDriver DEF DriverInv
<1> USE <1>d, AppAssumption
    DEF AppInv, TypeOK, TurnLeft, Controlled, AppLedMatches, ToggleDue, history,
        vars, state
<1>t. DriverTypeOK OBVIOUS
<1>1. CASE AppControl BY <1>1 DEF AppControl, KernControl
<1>2. CASE AppGetLed BY <1>2, <1>t DEF AppGetLed, DriverTypeOK
<1>3. CASE AppPoll BY <1>3 DEF AppPoll
<1>4. CASE AppTimeout BY <1>4 DEF AppTimeout
<1>5. CASE AppRead BY <1>5, <1>t DEF AppRead, DriverTypeOK
<1>6. CASE AppReadAgain BY <1>6 DEF AppReadAgain
<1>7. CASE AppAct BY <1>7 DEF AppAct
<1>8. CASE AppSkip BY <1>8 DEF AppSkip
<1>9. CASE AppWrite BY <1>9 DEF AppWrite, Write
<1>10. CASE AppRestore BY <1>10 DEF AppRestore, KernControl
<1> QED BY <1>1, <1>2, <1>3, <1>4, <1>5, <1>6, <1>7, <1>8, <1>9, <1>10 DEF AppNext

(* Only the handler under kernel control and other programs that set       *)
(* something change what the program relies on.                            *)
LEMMA OthersStep == AppInv /\ Others => AppInv'
<1> SUFFICES ASSUME AppInv, Others PROVE AppInv'
  OBVIOUS
<1>d. DriverInv' /\ DriverTypeOK' BY DriverStep DEF AppInv, Others, DriverInv
<1>0. DriverNext BY DEF Others
<1>1. OtherSet \/ (control' = control /\ (led_on' = led_on \/ control # 0))
  <2>1. CASE ProbeMisc \/ ProbeLed \/ Remove \/ DevresRelease
    BY <2>1 DEF ProbeMisc, ProbeLed, Remove, DevresRelease, state
  <2>2. CASE Edge \/ IsrWake BY <2>2 DEF Edge, IsrWake, state
  <2>4. CASE Isr BY <2>4 DEF Isr, AppInv, DriverInv, DriverTypeOK
  <2>3. CASE \E u \in Users : Read(u)
    BY <2>3 DEF Read, ReadCall, ReadTake, ReadNone, ReadWait, ReadIntr, ReadCopy,
                state
  <2> QED BY <2>1, <2>2, <2>3, <2>4, <1>0 DEF DriverNext
<1>2. others' \subseteq {"data", "led"} /\ others \subseteq others'
  BY DEF Others, AppInv, TypeOK
<1>3. OtherSet /\ apc \notin {"control", "exit"} => "led" \in others'
  BY DEF Others
<1> QED BY <1>d, <1>1, <1>2, <1>3
        DEF Others, AppInv, TypeOK, TurnLeft, Controlled, AppLedMatches, ToggleDue

LEMMA AppNextStep == AppInv /\ [Next]_AppVars => AppInv'
<1> SUFFICES ASSUME AppInv, UNCHANGED AppVars PROVE AppInv'
  BY AppStep, OthersStep DEF Next
<1>1. DriverInv' BY DriverStutter DEF AppInv, AppVars
<1> QED BY <1>1
        DEF AppInv, AppVars, app, history, vars, state, TypeOK, DriverInv, TurnLeft,
            Controlled, AppLedMatches, ToggleDue

LEMMA AppImplies == AppInv => TogglePerRelease
BY DEF AppInv, TypeOK, ToggleDue, TogglePerRelease

(* hw3-app.c: its led_on is the driver's from GETLED on, whatever the      *)
(* button and other readers do; only another program that sets the LED or  *)
(* the control comes between.                                              *)
THEOREM AppCorrect == AppSpec => []AppLedMatches
<1>1. AppInv => AppLedMatches BY DEF AppInv
<1> QED BY <1>1, AppInitInv, AppNextStep, PTL DEF AppSpec

(* hw3-app.c: one toggle per release that was read, for every COUNT and    *)
(* any number of edges.                                                    *)
THEOREM ToggleCorrect == AppSpec => []TogglePerRelease
BY AppImplies, AppInitInv, AppNextStep, PTL DEF AppSpec

(* hw3.c under hw3-app.c: the program's non-blocking read() takes no       *)
(* wake-up from a sleeping reader and no level from the last one.          *)
THEOREM AppKeepsReaders == AppSpec => [](NoLostWakeup /\ LatestDelivered /\ LedMatches)
<1>1. AppInv => NoLostWakeup /\ LatestDelivered /\ LedMatches
  BY DriverImplies DEF AppInv
<1> QED BY <1>1, AppInitInv, AppNextStep, PTL DEF AppSpec

=============================================================================
