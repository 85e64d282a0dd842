----------------------------- MODULE Bank1Proofs -----------------------------
(***************************************************************************)
(* Proofs about Bank1 for every set of LEDs, every choice of those that    *)
(* are lines of the bank, every set of callers, with and without platform  *)
(* data, every text written to dndMode and every number of loads.          *)
(***************************************************************************)
EXTENDS Bank1, TLAPS

-----------------------------------------------------------------------------
(* hw1: the registers are mapped from the end of init to the end of exit,  *)
(* which waits for the thread.                                             *)
Hw1InPlace ==
  /\ mapped <=> hw1_pc \in {"in", "stop"}
  /\ thread # "none" => hw1_pc \in {"in", "stop"}

(* hw2: the interrupt is requested between two calls of init and the       *)
(* free_irq of exit; one that a failed init has left stays.                *)
Hw2InPlace ==
  /\ "irq" \in held => hw2_pc \in {"led", "in"}
  /\ "orphan" \in held => hw2_pc \in {"out", "irq"}
  /\ isr => hw2_pc \in {"led", "in", "free"} \/ "orphan" \in held

(* What hw1 has loaded is still so, except for LEDs set since.             *)
LoadCurrent ==
  /\ thread = "store" => \A l \in OnChip \ switched : level[l] = 1 <=> l \in val
  /\ hw1_pc = "store" => \A l \in OnChip \ turned : l \in outputs <=> l \in val

(* leds-gpio: LEDs are used while they are registered, which they are to   *)
(* the end once probe has succeeded, unless the module is unloaded.        *)
LedsInPlace ==
  /\ leds_pc \in {"out", "failed"} => registered = {}
  /\ leds_pc \in {"bound", "closing", "down"} => registered = children
  /\ leds_pc \in {"closing", "down"} \/ (later = {} /\ left = {})
  /\ leds_pc = "down" => left = {}
  /\ later \cap left = {}
  /\ \A k \in calls : k.led \in registered

-----------------------------------------------------------------------------
(* What holds of one LED. *)

(* Calls that meet are recorded. *)
MeetingsSeen(l) ==
  \A j, k \in On(l) :
    j # k => l \in overlapped /\ (j.at \in BlinkPoints => l \in mixed)

(* A call that meets no other sets what was asked for last, or a work will *)
(* set it again; ...                                                       *)
SetsBrightness(l) ==
  \A k \in On(l) :
    k.by # "shutdown" /\ l \notin overlapped =>
      /\ k.at \in {"work", "level"} => k.value = brightness[l] \/ l \in queued
      /\ k.at \in {"test", "put", "blink"} =>
           k.value = brightness[l] \/ l \in queued \cup hushed
      /\ k.at = "clear" => level[l] = brightness[l] \/ l \in queued \cup hushed \cup garbled

(* ... that of shutdown switches off. *)
SwitchesOff(l) ==
  \A k \in On(l) :
    k.by = "shutdown" =>
      /\ leds_pc = "closing" /\ l \notin left \cup retain
      /\ l \notin later \ overlapped
      /\ k.value = 0 /\ k.at \in SetPoints
      /\ k.at = "clear" /\ l \notin overlapped => level[l] = 0 \/ l \in garbled

(* A call that meets no other finds the mark as it left or tested it.      *)
MarkKept(l) ==
  /\ \A k \in On(l) :
       /\ k.at \in {"mode", "flash"} => l \in blinking \cup (overlapped \cap mixed)
       /\ k.at = "put" => l \notin blinking \ overlapped
       /\ k.at = "clear" => l \notin flashing \ mixed
  /\ l \in flashing => l \in blinking \cup mixed

(* LedShowsBrightness of one LED *)
Shows(l) ==
  l \in registered =>
    /\ AtRest(l) => \/ level[l] = brightness[l]
                    \/ l \in blinking \cup ShutOff \cup overlapped \cup hushed \cup garbled
    /\ l \in outputs \cup undone

(* DarkAfterShutdown of one LED, from the end of its call on *)
Dark(l) ==
  (/\ leds_pc \in {"closing", "down"}
   /\ l \in children \ (left \cup retain \cup later \cup overlapped))
    => \/ \E k \in On(l) : k.by = "shutdown"
       \/ On(l) = {} /\ (level[l] = 0 \/ l \in garbled) /\ l \notin blinking

Sound(l) ==
  /\ MeetingsSeen(l) /\ SetsBrightness(l) /\ SwitchesOff(l) /\ MarkKept(l)
  /\ Shows(l) /\ Dark(l)

BankInv ==
  /\ BankTypeOK /\ Hw1TypeOK /\ Hw2TypeOK /\ LedsTypeOK
  /\ Hw1InPlace /\ Hw2InPlace /\ LoadCurrent /\ LedsInPlace
  /\ \A l \in Leds : Sound(l)

-----------------------------------------------------------------------------
(* A step that leaves LED l alone, except that hw1 may garble its level    *)
(* and make its line an input, which is recorded.                          *)
Keeps(l) ==
  /\ On(l)' = On(l)
  /\ brightness'[l] = brightness[l]
  /\ level'[l] = level[l] \/ l \in garbled'
  /\ l \in garbled => l \in garbled'
  /\ l \in outputs \cup undone => l \in outputs' \cup undone'
  /\ l \in registered' <=> l \in registered
  /\ l \in children' <=> l \in children
  /\ l \in left' <=> l \in left
  /\ l \in retain' <=> l \in retain
  /\ l \in queued' <=> l \in queued
  /\ l \in blinking' <=> l \in blinking
  /\ l \in flashing' <=> l \in flashing
  /\ l \in hushed' <=> l \in hushed
  /\ l \in overlapped' <=> l \in overlapped
  /\ l \in mixed' <=> l \in mixed
  /\ l \in later' <=> l \in later

(* Such a step keeps what holds of the LED, if it is none of shutdown's    *)
(* own.                                                                    *)
LEMMA SoundKept ==
  ASSUME NEW l \in Leds, Sound(l), Keeps(l),
         \/ leds_pc' = leds_pc
         \/ leds_pc \notin {"closing", "down"} /\ leds_pc' \notin {"closing", "down"}
  PROVE  Sound(l)'
<1> USE DEF Sound, Keeps
<1>1. MeetingsSeen(l)' BY DEF MeetingsSeen
<1>2. SetsBrightness(l)' BY DEF SetsBrightness
<1>3. SwitchesOff(l)' BY DEF SwitchesOff
<1>4. MarkKept(l)' BY DEF MarkKept
<1>5. Shows(l)' BY DEF Shows, AtRest, ShutOff
<1>6. Dark(l)' BY DEF Dark
<1> QED BY <1>1, <1>2, <1>3, <1>4, <1>5, <1>6

LEMMA BankInitInv == Init => BankInv
<1> SUFFICES ASSUME Init PROVE BankInv
  OBVIOUS
<1> USE DEF Init
<1>1. BankTypeOK BY DEF BankInit, BankTypeOK
<1>2. Hw1TypeOK
  <2>1. mapped \in BOOLEAN BY DEF Hw1Init
  <2> QED BY <2>1 DEF Hw1Init, Hw1TypeOK
<1>3. Hw2TypeOK
  <2>1. isr \in BOOLEAN BY DEF Hw2Init
  <2> QED BY <2>1, Hw2Assumption DEF Hw2Init, Hw2TypeOK
<1>4. Hw1InPlace /\ LoadCurrent BY DEF Hw1Init, Hw1InPlace, LoadCurrent
<1>5. Hw2InPlace BY DEF Hw2Init, Hw2InPlace
<1>6. LedsTypeOK BY DEF LedsInit, LedsTypeOK
<1>7. LedsInPlace BY DEF LedsInit, LedsInPlace
<1>8. ASSUME NEW l \in Leds PROVE Sound(l)
  <2>1. On(l) = {} BY DEF LedsInit, On
  <2> QED BY <2>1 DEF LedsInit, Sound, MeetingsSeen, SetsBrightness, SwitchesOff, MarkKept,
                      Shows, Dark
<1> QED BY <1>1, <1>2, <1>3, <1>4, <1>5, <1>6, <1>7, <1>8 DEF BankInv

-----------------------------------------------------------------------------
(* hw1 and hw2 *)

(* What the LED driver is owed by who shares the bank: a level that        *)
(* changes is recorded, and so is a line that is no output any more.       *)
LEMMA OthersStep ==
  ASSUME BankInv, UNCHANGED leds, garbled \subseteq garbled',
         \A l \in Leds : level'[l] = level[l] \/ l \in garbled',
         (outputs \cup undone) \cap Leds \subseteq outputs' \cup undone'
  PROVE  LedsTypeOK' /\ LedsInPlace' /\ \A l \in Leds : Sound(l)'
<1>1. /\ UNCHANGED <<children, leds_pc, class, registered, can_sleep, retain, left>>
      /\ UNCHANGED <<dndMode, brightness, queued, blinking, flashing, calls, hushed>>
      /\ UNCHANGED <<overlapped, mixed, later>>
  BY DEF leds, device, met
<1>2. LedsTypeOK' BY <1>1 DEF BankInv, LedsTypeOK
<1>3. LedsInPlace' BY <1>1 DEF BankInv, LedsInPlace
<1>4. ASSUME NEW l \in Leds PROVE Sound(l)'
  <2>1. On(l)' = On(l) BY <1>1 DEF On
  <2>2. Keeps(l) BY <1>1, <2>1 DEF Keeps
  <2> QED BY <1>1, <2>2, SoundKept DEF BankInv
<1> QED BY <1>2, <1>3, <1>4

LEMMA Hw1Step ==
  ASSUME BankInv, Hw1Next, UNCHANGED <<hw2, leds>>
  PROVE  BankInv'
<1> USE BankAssumption DEF Lines
<1>1. Hw2TypeOK' /\ Hw2InPlace' BY DEF BankInv, Hw2TypeOK, Hw2InPlace, hw2
<1>2. BankTypeOK /\ Hw1TypeOK /\ Hw1InPlace /\ LoadCurrent BY DEF BankInv
<1>3. ASSUME UNCHANGED <<level, outputs, garbled>>, undone' = undone
      PROVE  LedsTypeOK' /\ LedsInPlace' /\ \A l \in Leds : Sound(l)'
  BY <1>3, OthersStep
<1>4. CASE Hw1Load \/ Hw1Exit
  <2>1. Hw1TypeOK' /\ Hw1InPlace'
    BY <1>2, <1>4 DEF Hw1Load, Hw1Exit, Hw1TypeOK, Hw1InPlace
  <2>2. UNCHANGED bank /\ undone' = undone BY <1>4 DEF Hw1Load, Hw1Exit
  <2>3. LoadCurrent' BY <1>2, <1>4, <2>2 DEF Hw1Load, Hw1Exit, LoadCurrent, bank
  <2>4. BankTypeOK' BY <1>2, <2>2 DEF BankTypeOK, bank
  <2> QED BY <1>1, <1>3, <2>1, <2>2, <2>3, <2>4 DEF BankInv, bank
<1>5. CASE SetupLoad
  <2>1. Hw1TypeOK' /\ Hw1InPlace'
    BY <1>2, <1>5 DEF SetupLoad, Hw1TypeOK, Hw1InPlace, BankTypeOK
  <2>2. BankTypeOK' BY <1>2, <1>5 DEF SetupLoad, BankTypeOK
  <2>3. LoadCurrent' BY <1>2, <1>5 DEF SetupLoad, LoadCurrent, Hw1InPlace
  <2>4. UNCHANGED <<level, outputs, garbled>> /\ undone' = undone BY <1>5 DEF SetupLoad
  <2> QED BY <1>1, <1>3, <2>1, <2>2, <2>3, <2>4 DEF BankInv
<1>6. CASE SetupStore
  <2>1. /\ outputs' = (outputs \ OnChip) \cup val \cup {LED_LINE}
        /\ undone' = undone \cup turned
        /\ UNCHANGED <<level, switched, turned, garbled, btn>>
    BY <1>6 DEF SetupStore
  <2>2. BankTypeOK' BY <1>2, <2>1 DEF BankTypeOK, Hw1TypeOK
  <2>3. Hw1TypeOK' BY <1>2, <1>6, <2>1 DEF SetupStore, Hw1TypeOK, BankTypeOK
  <2>4. Hw1InPlace' BY <1>2, <1>6 DEF SetupStore, Hw1InPlace
  <2>5. LoadCurrent' BY <1>2, <1>6 DEF SetupStore, LoadCurrent, Hw1InPlace
  <2>6. (outputs \cup undone) \cap Leds \subseteq outputs' \cup undone'
    <3>1. \A l \in OnChip \ turned : l \in outputs => l \in val
      BY <1>2, <1>6 DEF SetupStore, LoadCurrent
    <3> QED BY <2>1, <3>1
  <2>7. LedsTypeOK' /\ LedsInPlace' /\ \A l \in Leds : Sound(l)'
    BY <2>1, <2>6, OthersStep
  <2> QED BY <1>1, <2>2, <2>3, <2>4, <2>5, <2>7 DEF BankInv
<1>7. CASE Hw1Run
  <2>1. UNCHANGED bank /\ undone' = undone BY <1>7 DEF Hw1Run
  <2>2. mapped' \in BOOLEAN BY <1>2, <1>7 DEF Hw1Run, Hw1TypeOK
  <2>3. Hw1TypeOK' BY <1>2, <1>7, <2>2 DEF Hw1Run, Hw1TypeOK
  <2>4. Hw1InPlace' BY <1>2, <1>7 DEF Hw1Run, Hw1InPlace, Hw1TypeOK
  <2>5. LoadCurrent' BY <1>2, <1>7, <2>1 DEF Hw1Run, LoadCurrent, Hw1InPlace, bank
  <2>6. BankTypeOK' BY <1>2, <2>1 DEF BankTypeOK, bank
  <2> QED BY <1>1, <1>3, <2>1, <2>3, <2>4, <2>5, <2>6 DEF BankInv, bank
<1>8. CASE ThreadTest \/ ThreadSlept
  <2>1. UNCHANGED bank /\ undone' = undone
    BY <1>8 DEF ThreadTest, ThreadSlept
  <2>2. Hw1TypeOK'
    BY <1>2, <1>8 DEF ThreadTest, ThreadSlept, Hw1TypeOK, BankTypeOK
  <2>3. Hw1InPlace' BY <1>2, <1>8 DEF ThreadTest, ThreadSlept, Hw1InPlace
  <2>4. LoadCurrent' BY <1>2, <1>8, <2>1 DEF ThreadTest, ThreadSlept, LoadCurrent, bank
  <2>5. BankTypeOK' BY <1>2, <2>1 DEF BankTypeOK, bank
  <2> QED BY <1>1, <1>3, <2>1, <2>2, <2>3, <2>4, <2>5 DEF BankInv, bank
<1>9. CASE ThreadLoad
  <2>1. UNCHANGED <<level, outputs, garbled>> /\ undone' = undone BY <1>9 DEF ThreadLoad
  <2>2. Hw1TypeOK' BY <1>2, <1>9 DEF ThreadLoad, Hw1TypeOK, DataOut
  <2>3. Hw1InPlace' BY <1>2, <1>9 DEF ThreadLoad, Hw1InPlace
  <2>4. LoadCurrent' BY <1>2, <1>9 DEF ThreadLoad, LoadCurrent, Hw1InPlace, DataOut
  <2>5. BankTypeOK' BY <1>2, <1>9 DEF ThreadLoad, BankTypeOK
  <2> QED BY <1>1, <1>3, <2>1, <2>2, <2>3, <2>4, <2>5 DEF BankInv
<1>10. CASE ThreadStore
  <2>1. /\ thread = "store" /\ level' = [i \in Lines |-> Stored(i)]
        /\ garbled' = garbled \cup switched
        /\ UNCHANGED <<outputs, btn, switched, turned, hw1_pc, mapped, undone>>
    BY <1>10 DEF ThreadStore
  <2>2. \A i \in Lines : Stored(i) \in {0, 1}
    BY <1>2 DEF Stored, Hw1TypeOK, BankTypeOK
  <2>3. BankTypeOK'
    <3>1. level' \in [Lines -> {0, 1}] BY <2>1, <2>2
    <3> QED BY <1>2, <2>1, <3>1 DEF BankTypeOK
  <2>4. Hw1TypeOK' BY <1>2, <1>10 DEF ThreadStore, Hw1TypeOK
  <2>5. Hw1InPlace' BY <1>2, <1>10 DEF ThreadStore, Hw1InPlace
  <2>6. LoadCurrent' BY <1>2, <1>10 DEF ThreadStore, LoadCurrent, Hw1InPlace
  <2>7. ASSUME NEW l \in Leds PROVE level'[l] = level[l] \/ l \in garbled'
    <3>1. level'[l] = Stored(l) BY <2>1
    <3>2. l \in OnChip \ switched => (level[l] = 1 <=> l \in val)
      BY <1>2, <2>1 DEF LoadCurrent
    <3>3. level[l] \in {0, 1} BY <1>2 DEF BankTypeOK
    <3> QED BY <2>1, <3>1, <3>2, <3>3 DEF Stored
  <2>8. LedsTypeOK' /\ LedsInPlace' /\ \A l \in Leds : Sound(l)'
    BY <2>1, <2>7, OthersStep
  <2> QED BY <1>1, <2>3, <2>4, <2>5, <2>6, <2>8 DEF BankInv
<1>11. CASE Hw1Stopped
  <2>1. UNCHANGED bank /\ undone' = undone BY <1>11 DEF Hw1Stopped
  <2>2. mapped' = FALSE /\ mapped' \in BOOLEAN BY <1>11 DEF Hw1Stopped
  <2>3. Hw1TypeOK' BY <1>2, <1>11, <2>2 DEF Hw1Stopped, Hw1TypeOK
  <2>4. Hw1InPlace' BY <1>2, <1>11, <2>2 DEF Hw1Stopped, Hw1InPlace
  <2>5. LoadCurrent' BY <1>2, <1>11, <2>1 DEF Hw1Stopped, LoadCurrent, bank
  <2>6. BankTypeOK' BY <1>2, <2>1 DEF BankTypeOK, bank
  <2> QED BY <1>1, <1>3, <2>1, <2>3, <2>4, <2>5, <2>6 DEF BankInv, bank
<1> QED BY <1>4, <1>5, <1>6, <1>7, <1>8, <1>9, <1>10, <1>11 DEF Hw1Next, ThreadNext

LEMMA Hw2Step ==
  ASSUME BankInv, Hw2Next, UNCHANGED <<hw1, leds>>
  PROVE  BankInv'
<1> USE BankAssumption, Hw2Assumption DEF Lines
<1>1. Hw1TypeOK' /\ Hw1InPlace' BY DEF BankInv, Hw1TypeOK, Hw1InPlace, hw1
<1>2. BankTypeOK /\ Hw2TypeOK /\ Hw2InPlace /\ LoadCurrent BY DEF BankInv
<1>3. UNCHANGED <<undone, thread, hw1_pc, val>> BY DEF hw1
<1>4. ASSUME UNCHANGED <<garbled, switched, turned>>,
             \A l \in Leds : level'[l] = level[l] /\ (l \in outputs' <=> l \in outputs)
      PROVE  LoadCurrent' /\ LedsTypeOK' /\ LedsInPlace' /\ \A l \in Leds : Sound(l)'
  <2>1. LoadCurrent' BY <1>2, <1>3, <1>4 DEF LoadCurrent
  <2> QED BY <1>3, <1>4, <2>1, OthersStep
<1>5. CASE Hw2Load \/ Hw2Irq \/ Hw2LedBusy \/ Hw2Exit \/ Hw2Freed
  <2>1. UNCHANGED bank
    BY <1>5 DEF Hw2Load, Hw2Irq, Hw2LedBusy, Hw2Exit, Hw2Freed
  <2>2. BankTypeOK' BY <1>2, <2>1 DEF bank, BankTypeOK
  <2>3. Hw2TypeOK'
    <3>1. isr' \in BOOLEAN
      BY <1>2, <1>5 DEF Hw2Load, Hw2Irq, Hw2LedBusy, Hw2Exit, Hw2Freed, Hw2TypeOK
    <3>2. hw2_loads' \in 0 .. MaxLoads /\ hw2_pc' \in {"out", "irq", "led", "in", "free"}
      BY <1>2, <1>5 DEF Hw2Load, Hw2Irq, Hw2LedBusy, Hw2Exit, Hw2Freed, Hw2TypeOK
    <3>3. held' \subseteq {"btn", "irq", "led", "orphan"}
      BY <1>2, <1>5 DEF Hw2Load, Hw2Irq, Hw2LedBusy, Hw2Exit, Hw2Freed, Hw2TypeOK
    <3> QED BY <3>1, <3>2, <3>3 DEF Hw2TypeOK
  <2>4. Hw2InPlace'
    BY <1>2, <1>5 DEF Hw2Load, Hw2Irq, Hw2LedBusy, Hw2Exit, Hw2Freed, Hw2InPlace
  <2>5. LoadCurrent' /\ LedsTypeOK' /\ LedsInPlace' /\ \A l \in Leds : Sound(l)'
    BY <1>4, <2>1 DEF bank
  <2> QED BY <1>1, <2>2, <2>3, <2>4, <2>5 DEF BankInv
<1>6. CASE Hw2Led
  <2>1. /\ outputs' = outputs \cup {LED_LINE} /\ level' = [level EXCEPT ![LED_LINE] = 0]
        /\ UNCHANGED <<btn, switched, turned, garbled>>
    BY <1>6 DEF Hw2Led
  <2>2. \A l \in Leds : level'[l] = level[l] BY <1>2, <2>1 DEF BankTypeOK
  <2>3. BankTypeOK' BY <1>2, <2>1 DEF BankTypeOK
  <2>4. Hw2TypeOK' BY <1>2, <1>6 DEF Hw2Led, Hw2TypeOK
  <2>5. Hw2InPlace' BY <1>2, <1>6 DEF Hw2Led, Hw2InPlace
  <2>6. LoadCurrent' /\ LedsTypeOK' /\ LedsInPlace' /\ \A l \in Leds : Sound(l)'
    BY <1>4, <2>1, <2>2
  <2> QED BY <1>1, <2>3, <2>4, <2>5, <2>6 DEF BankInv
<1>7. CASE Button
  <2>1. /\ btn' = 1 - btn
        /\ UNCHANGED <<level, outputs, switched, turned, garbled, hw2_pc, hw2_loads, held>>
    BY <1>7 DEF Button
  <2>2. BankTypeOK' BY <1>2, <2>1 DEF BankTypeOK
  <2>3. isr' = (isr \/ (btn = 0 /\ "irq" \in held)) /\ isr' \in BOOLEAN BY <1>7 DEF Button
  <2>4. Hw2TypeOK' BY <1>2, <2>1, <2>3 DEF Hw2TypeOK
  <2>5. Hw2InPlace' BY <1>2, <2>1, <2>3 DEF Hw2InPlace
  <2>6. LoadCurrent' /\ LedsTypeOK' /\ LedsInPlace' /\ \A l \in Leds : Sound(l)'
    BY <1>4, <2>1
  <2> QED BY <1>1, <2>2, <2>4, <2>5, <2>6 DEF BankInv
<1>8. CASE Isr
  <2>1. /\ level' = [level EXCEPT ![LED_LINE] = 0] /\ isr' = FALSE
        /\ UNCHANGED <<outputs, btn, switched, turned, garbled, hw2_pc, hw2_loads, held>>
    BY <1>8 DEF Isr
  <2>2. \A l \in Leds : level'[l] = level[l] BY <1>2, <2>1 DEF BankTypeOK
  <2>3. BankTypeOK' BY <1>2, <2>1 DEF BankTypeOK
  <2>4. isr' \in BOOLEAN BY <2>1
  <2>5. Hw2TypeOK' BY <1>2, <2>1, <2>4 DEF Hw2TypeOK
  <2>6. Hw2InPlace' BY <1>2, <2>1 DEF Hw2InPlace
  <2>7. LoadCurrent' /\ LedsTypeOK' /\ LedsInPlace' /\ \A l \in Leds : Sound(l)'
    BY <1>4, <2>1, <2>2
  <2> QED BY <1>1, <2>3, <2>5, <2>6, <2>7 DEF BankInv
<1> QED BY <1>5, <1>6, <1>7, <1>8 DEF Hw2Next

-----------------------------------------------------------------------------
(* The LED driver: what its steps have in common *)

(* A step of the LED driver leaves hw1 and hw2 alone. *)
LEMMA LedsStepIs ==
  ASSUME BankInv, UNCHANGED <<hw1, hw2>>, BankTypeOK', LoadCurrent', LedsTypeOK',
         LedsInPlace', \A l \in Leds : Sound(l)'
  PROVE  BankInv'
BY DEF BankInv, Hw1TypeOK, Hw2TypeOK, Hw1InPlace, Hw2InPlace, hw1, hw2

(* The bank's part if a step does not touch it, ... *)
LEMMA BankKept ==
  ASSUME BankInv, UNCHANGED <<bank, hw1>>
  PROVE  BankTypeOK' /\ LoadCurrent'
BY DEF BankInv, BankTypeOK, LoadCurrent, bank, hw1

(* ... and if it sets one LED. *)
LEMMA ValueSet ==
  ASSUME BankInv, NEW l \in Leds, NEW value \in {0, 1}, gpiod_set_value(l, value),
         UNCHANGED <<btn, hw1>>,
         \/ UNCHANGED <<outputs, turned>>
         \/ outputs' = outputs \cup {l} /\ turned' = turned \cup ({l} \cap OnChip)
  PROVE  /\ BankTypeOK' /\ LoadCurrent'
         /\ level'[l] = value /\ l \notin garbled'
         /\ \A j \in Leds \ {l} : /\ level'[j] = level[j]
                                  /\ j \in garbled' <=> j \in garbled
                                  /\ j \in outputs' <=> j \in outputs
         /\ outputs \subseteq outputs'
<1> USE BankAssumption DEF Lines
<1>1. BankTypeOK /\ LoadCurrent BY DEF BankInv
<1>2. /\ level' = [level EXCEPT ![l] = value] /\ switched' = switched \cup ({l} \cap OnChip)
      /\ garbled' = garbled \ {l}
  BY DEF gpiod_set_value
<1>3. BankTypeOK' BY <1>1, <1>2 DEF BankTypeOK
<1>4. \A j \in Lines : level'[j] = IF j = l THEN value ELSE level[j]
  BY <1>1, <1>2 DEF BankTypeOK
<1>5. LoadCurrent'
  <2>1. UNCHANGED <<thread, hw1_pc, val>> BY DEF hw1
  <2>2. \A j \in OnChip \ switched' : j \notin switched /\ j # l BY <1>2
  <2>3. \A j \in OnChip \ turned' : j \notin turned /\ (j \in outputs' <=> j \in outputs)
    OBVIOUS
  <2> QED BY <1>1, <1>4, <2>1, <2>2, <2>3 DEF LoadCurrent
<1> QED BY <1>2, <1>3, <1>4, <1>5

(* k with another point *)
LEMMA WithAt ==
  ASSUME NEW k \in Call, NEW point \in {"work"} \cup SetPoints \cup BlinkPoints
  PROVE  LET n == [k EXCEPT !.at = point]
         IN  n \in Call /\ n.led = k.led /\ n.by = k.by /\ n.value = k.value /\ n.at = point
BY DEF Call

(* Calls that go on, return or begin are calls of one LED. *)
LEMMA CallsMoved ==
  ASSUME LedsTypeOK, NEW k \in calls, NEW n \in Call, n.led = k.led,
         calls' = (calls \ {k}) \cup {n}
  PROVE  /\ calls' \subseteq Call
         /\ On(k.led)' = (On(k.led) \ {k}) \cup {n}
         /\ \A j \in Leds \ {k.led} : On(j)' = On(j)
<1>1. calls' \subseteq Call BY DEF LedsTypeOK
<1>2. On(k.led)' = (On(k.led) \ {k}) \cup {n} BY DEF On
<1>3. ASSUME NEW j \in Leds \ {k.led} PROVE On(j)' = On(j) BY DEF On
<1> QED BY <1>1, <1>2, <1>3

LEMMA CallReturned ==
  ASSUME LedsTypeOK, NEW k \in calls, Return(k)
  PROVE  /\ calls' \subseteq Call
         /\ On(k.led)' = On(k.led) \ {k}
         /\ \A j \in Leds \ {k.led} : On(j)' = On(j)
<1> USE DEF Return
<1>1. calls' \subseteq Call BY DEF LedsTypeOK
<1>2. On(k.led)' = On(k.led) \ {k} BY DEF On
<1>3. ASSUME NEW j \in Leds \ {k.led} PROVE On(j)' = On(j) BY DEF On
<1> QED BY <1>1, <1>2, <1>3

LEMMA CallBegun ==
  ASSUME LedsTypeOK, NEW l \in Leds, NEW c \in Setters \cup {"work", "shutdown"},
         NEW point \in {"work"} \cup SetPoints \cup BlinkPoints, NEW value \in {0, 1},
         Begin(l, c, point, value)
  PROVE  /\ \E n \in Call :
              /\ n.led = l /\ n.by = c /\ n.at = point /\ n.value = value
              /\ calls' = calls \cup {n} /\ On(l)' = On(l) \cup {n}
         /\ calls' \subseteq Call
         /\ \A j \in Leds \ {l} : /\ On(j)' = On(j)
                                  /\ j \in overlapped' <=> j \in overlapped
                                  /\ j \in mixed' <=> j \in mixed
                                  /\ j \in later' <=> j \in later
         /\ overlapped' \subseteq Leds /\ mixed' \subseteq Leds /\ later' \subseteq Leds
         /\ l \in overlapped' <=> On(l) # {}
         /\ l \in mixed => l \in mixed'
         /\ On(l) # {} /\ (point = "mark" \/ \E k \in On(l) : k.at \in BlinkPoints)
              => l \in mixed'
         /\ later' = IF c # "shutdown" /\ leds_pc \in {"closing", "down"} /\ l \notin left
                     THEN later \cup {l} ELSE later
<1> DEFINE n == [led |-> l, by |-> c, at |-> point, value |-> value]
<1>1. n \in Call /\ n.led = l /\ n.by = c /\ n.at = point /\ n.value = value
  BY DEF Call
<1>2. calls' = calls \cup {n} /\ calls' \subseteq Call BY <1>1 DEF Begin, LedsTypeOK
<1>3. On(l)' = On(l) \cup {n} BY <1>1, <1>2 DEF On
<1>4. ASSUME NEW j \in Leds \ {l} PROVE On(j)' = On(j) BY <1>1, <1>2 DEF On
<1> HIDE DEF n
<1>5. overlapped' = IF On(l) = {} THEN overlapped \ {l} ELSE overlapped \cup {l}
  BY DEF Begin
<1>6. /\ mixed' = mixed \/ mixed' = mixed \cup {l}
      /\ On(l) # {} /\ (point = "mark" \/ \E k \in On(l) : k.at \in BlinkPoints)
           => l \in mixed'
  BY DEF Begin
<1>7. later' = IF c # "shutdown" /\ leds_pc \in {"closing", "down"} /\ l \notin left
               THEN later \cup {l} ELSE later
  BY DEF Begin
<1>8. overlapped' \subseteq Leds /\ mixed' \subseteq Leds /\ later' \subseteq Leds
  BY <1>5, <1>6, <1>7 DEF LedsTypeOK
<1> QED BY <1>1, <1>2, <1>3, <1>4, <1>5, <1>6, <1>7, <1>8

(* A call goes on: it keeps its value, but for the level that it computes, *)
(* and none of the histories of meetings changes.                          *)
LEMMA MeetingsGoOn ==
  ASSUME NEW l \in Leds, MeetingsSeen(l), NEW k \in On(l), NEW n,
         n.at \in BlinkPoints => k.at \in BlinkPoints,
         On(l)' = (On(l) \ {k}) \cup {n}, UNCHANGED met
  PROVE  MeetingsSeen(l)'
<1>1. UNCHANGED <<overlapped, mixed>> BY DEF met
<1> QED BY <1>1 DEF MeetingsSeen

LEMMA MeetingsReturn ==
  ASSUME NEW l \in Leds, MeetingsSeen(l), On(l)' \subseteq On(l), UNCHANGED met
  PROVE  MeetingsSeen(l)'
<1>1. UNCHANGED <<overlapped, mixed>> BY DEF met
<1> QED BY <1>1 DEF MeetingsSeen

(* A call of an LED that is not recorded as overlapped is the only one; a  *)
(* call of gpio_blink_set that is not recorded as mixed is, too.           *)
LEMMA Only ==
  ASSUME NEW l \in Leds, MeetingsSeen(l), NEW k \in On(l)
  PROVE  /\ l \notin overlapped => On(l) = {k}
         /\ l \notin mixed => \/ On(l) = {k}
                              \/ \A j \in On(l) : j.at \notin BlinkPoints
BY DEF MeetingsSeen

-----------------------------------------------------------------------------
(* The steps of a call *)

(* What a step of a call owes: it leaves the other LEDs alone.             *)
LEMMA CallStepIs ==
  ASSUME BankInv, NEW k \in calls,
         UNCHANGED <<hw1, hw2, outputs, device, dndMode, brightness, queued, met>>,
         BankTypeOK', LoadCurrent',
         calls' \subseteq Call, \A n \in calls' : n.led = k.led \/ n \in calls,
         blinking' \subseteq Leds, flashing' \subseteq Leds, hushed' \subseteq Leds,
         \A j \in Leds \ {k.led} :
           /\ On(j)' = On(j) /\ level'[j] = level[j]
           /\ j \in garbled' <=> j \in garbled
           /\ j \in blinking' <=> j \in blinking
           /\ j \in flashing' <=> j \in flashing
           /\ j \in hushed' <=> j \in hushed,
         Sound(k.led)'
  PROVE  BankInv'
<1>1. LedsTypeOK /\ LedsInPlace BY DEF BankInv
<1>2. /\ UNCHANGED <<children, leds_pc, class, registered, can_sleep, retain, left>>
      /\ UNCHANGED <<overlapped, mixed, later, undone>>
  BY DEF device, met, hw1
<1>3. LedsTypeOK' BY <1>1, <1>2 DEF LedsTypeOK
<1>4. LedsInPlace' BY <1>1, <1>2 DEF LedsInPlace
<1>5. ASSUME NEW j \in Leds PROVE Sound(j)'
  <2>1. CASE j = k.led BY <2>1
  <2>2. CASE j # k.led
    <3>1. Keeps(j) BY <1>2, <2>2 DEF Keeps
    <3> QED BY <1>2, <3>1, SoundKept DEF BankInv
  <2> QED BY <2>1, <2>2
<1> QED BY <1>3, <1>4, <1>5, LedsStepIs

(* What a call k of LED l finds, for the proofs that follow *)
LEMMA CallFinds ==
  ASSUME BankInv, NEW k \in calls
  PROVE  /\ k \in Call /\ k.led \in Leds /\ k \in On(k.led) /\ Sound(k.led)
         /\ k.value \in {0, 1} /\ k.led \in registered
BY DEF BankInv, LedsTypeOK, LedsInPlace, On, Call

LEMMA ComputeLevelStep ==
  ASSUME BankInv, UNCHANGED <<hw1, hw2>>, NEW k \in calls, ComputeLevel(k)
  PROVE  BankInv'
<1> DEFINE l == k.led
<1>1. /\ k \in Call /\ l \in Leds /\ k \in On(l) /\ Sound(l) /\ k.value \in {0, 1}
      /\ LedsTypeOK
  BY CallFinds DEF BankInv
<1>2. PICK v \in Levels(k.value) :
        calls' = (calls \ {k}) \cup {[k EXCEPT !.at = "test", !.value = v]}
  BY DEF ComputeLevel
<1> DEFINE n == [k EXCEPT !.at = "test", !.value = v]
<1>3. v \in {0, 1} /\ (k.value = 0 => v = 0) /\ (dndMode = 0 => v = k.value)
  BY <1>1, <1>2 DEF Levels
<1>4. n \in Call /\ n.led = l /\ n.by = k.by /\ n.value = v /\ n.at = "test"
  BY <1>1, <1>3 DEF Call, SetPoints
<1>5. calls' = (calls \ {k}) \cup {n} BY <1>2
<1> HIDE DEF n
<1>6. /\ calls' \subseteq Call /\ On(l)' = (On(l) \ {k}) \cup {n}
      /\ \A j \in Leds \ {l} : On(j)' = On(j)
  BY <1>1, <1>4, <1>5, CallsMoved
<1>7. /\ k.at = "level"
      /\ hushed' = IF k.value # 0 /\ dndMode # 0 THEN hushed \cup {l} ELSE hushed \ {l}
      /\ UNCHANGED <<bank, device, dndMode, brightness, queued, blinking, flashing, met>>
  BY DEF ComputeLevel
<1> HIDE DEF l
<1>8. /\ UNCHANGED <<level, outputs, garbled, leds_pc, registered, children, retain, left>>
      /\ UNCHANGED <<overlapped, mixed, later>>
  BY <1>7 DEF bank, device, met
<1>9. l \notin overlapped => On(l)' = {n}
  BY <1>1, <1>6, Only DEF Sound
<1>10. Sound(l)'
  <2> USE DEF SetPoints, BlinkPoints
  <2>1. MeetingsSeen(l)' BY <1>1, <1>4, <1>6, <1>7, MeetingsGoOn DEF Sound
  <2>2. SetsBrightness(l)'
    <3>1. k.by # "shutdown" /\ l \notin overlapped => k.value = brightness[l] \/ l \in queued
      BY <1>1, <1>7 DEF Sound, SetsBrightness
    <3>2. v = k.value \/ l \in hushed' BY <1>1, <1>3, <1>7
    <3> QED BY <1>4, <1>7, <1>8, <1>9, <3>1, <3>2 DEF SetsBrightness
  <2>3. SwitchesOff(l)'
    BY <1>1, <1>3, <1>4, <1>6, <1>7, <1>8 DEF Sound, SwitchesOff
  <2>4. MarkKept(l)' BY <1>1, <1>4, <1>6, <1>7, <1>8 DEF Sound, MarkKept
  <2>5. Shows(l)'
    <3>1. ~ AtRest(l)' BY <1>6 DEF AtRest
    <3> QED BY <1>1, <1>8, <3>1 DEF Sound, Shows, hw1
  <2>6. Dark(l)' BY <1>1, <1>4, <1>6, <1>8, <1>9, Only DEF Sound, Dark
  <2> QED BY <2>1, <2>2, <2>3, <2>4, <2>5, <2>6 DEF Sound
<1>11. hushed' \subseteq Leds /\ \A j \in Leds \ {l} : j \in hushed' <=> j \in hushed
  BY <1>1, <1>7 DEF LedsTypeOK
<1>12. BankTypeOK' /\ LoadCurrent' BY <1>7, BankKept
<1>13. blinking' \subseteq Leds /\ flashing' \subseteq Leds BY <1>1, <1>7 DEF LedsTypeOK
<1>14. \A m \in calls' : m.led = l \/ m \in calls BY <1>4, <1>5
<1> QED
  BY <1>6, <1>7, <1>8, <1>10, <1>11, <1>12, <1>13, <1>14, CallStepIs DEF l

(* A call that goes on at another point; n is the call after the step. *)
LEMMA GoesOn ==
  ASSUME BankInv, NEW k \in calls, NEW point \in SetPoints \cup BlinkPoints, GoOn(k, point)
  PROVE  \E n \in Call :
           /\ n.led = k.led /\ n.by = k.by /\ n.value = k.value /\ n.at = point
           /\ calls' \subseteq Call /\ \A m \in calls' : m.led = k.led \/ m \in calls
           /\ On(k.led)' = (On(k.led) \ {k}) \cup {n}
           /\ \A j \in Leds \ {k.led} : On(j)' = On(j)
           /\ k.led \notin overlapped => On(k.led)' = {n}
<1> DEFINE n == [k EXCEPT !.at = point]
<1>1. /\ k \in Call /\ k.led \in Leds /\ k \in On(k.led) /\ MeetingsSeen(k.led)
      /\ LedsTypeOK
  BY CallFinds DEF BankInv, Sound
<1>2. n \in Call /\ n.led = k.led /\ n.by = k.by /\ n.value = k.value /\ n.at = point
  BY <1>1, WithAt
<1>3. calls' = (calls \ {k}) \cup {n} BY DEF GoOn
<1> HIDE DEF n
<1>4. /\ calls' \subseteq Call /\ On(k.led)' = (On(k.led) \ {k}) \cup {n}
      /\ \A j \in Leds \ {k.led} : On(j)' = On(j)
  BY <1>1, <1>2, <1>3, CallsMoved
<1>5. k.led \notin overlapped => On(k.led)' = {n} BY <1>1, <1>4, Only
<1>6. \A m \in calls' : m.led = k.led \/ m \in calls BY <1>2, <1>3
<1> QED BY <1>2, <1>4, <1>5, <1>6

(* A call that returns *)
LEMMA Returns ==
  ASSUME BankInv, NEW k \in calls, Return(k)
  PROVE  /\ calls' \subseteq Call /\ \A m \in calls' : m \in calls
         /\ On(k.led)' = On(k.led) \ {k}
         /\ \A j \in Leds \ {k.led} : On(j)' = On(j)
         /\ k.led \notin overlapped => On(k.led)' = {}
<1>1. k.led \in Leds /\ k \in On(k.led) /\ MeetingsSeen(k.led) /\ LedsTypeOK
  BY CallFinds DEF BankInv, Sound
<1>2. /\ calls' \subseteq Call /\ On(k.led)' = On(k.led) \ {k}
      /\ \A j \in Leds \ {k.led} : On(j)' = On(j)
  BY <1>1, CallReturned
<1>3. k.led \notin overlapped => On(k.led)' = {} BY <1>1, <1>2, Only
<1>4. \A m \in calls' : m \in calls BY DEF Return
<1> QED BY <1>2, <1>3, <1>4

LEMMA TestBlinkingStep ==
  ASSUME BankInv, UNCHANGED <<hw1, hw2>>, NEW k \in calls, TestBlinking(k)
  PROVE  BankInv'
<1> DEFINE l == k.led
           point == IF l \in blinking THEN "blink" ELSE "put"
<1>1. /\ k \in Call /\ l \in Leds /\ k \in On(l) /\ Sound(l) /\ k.value \in {0, 1}
      /\ LedsTypeOK
  BY CallFinds DEF BankInv
<1>2. /\ k.at = "test" /\ GoOn(k, point)
      /\ UNCHANGED <<bank, device, dndMode, brightness, queued, blinking, flashing, hushed>>
      /\ UNCHANGED met
  BY DEF TestBlinking
<1>3. point \in SetPoints \cup BlinkPoints BY DEF SetPoints
<1>4. PICK n \in Call :
        /\ n.led = l /\ n.by = k.by /\ n.value = k.value /\ n.at = point
        /\ calls' \subseteq Call /\ \A m \in calls' : m.led = l \/ m \in calls
        /\ On(l)' = (On(l) \ {k}) \cup {n}
        /\ \A j \in Leds \ {l} : On(j)' = On(j)
        /\ l \notin overlapped => On(l)' = {n}
  BY <1>2, <1>3, GoesOn
<1>5. point \in {"blink", "put"} /\ (point = "put" => l \notin blinking) OBVIOUS
<1> HIDE DEF l, point
<1>6. /\ UNCHANGED <<level, outputs, garbled, leds_pc, registered, children, retain, left>>
      /\ UNCHANGED <<overlapped, mixed, later>>
  BY <1>2 DEF bank, device, met
<1>7. Sound(l)'
  <2> USE DEF SetPoints, BlinkPoints
  <2>1. MeetingsSeen(l)' BY <1>1, <1>2, <1>4, <1>5, MeetingsGoOn DEF Sound
  <2>2. SetsBrightness(l)'
    BY <1>1, <1>2, <1>4, <1>5, <1>6 DEF Sound, SetsBrightness
  <2>3. SwitchesOff(l)' BY <1>1, <1>2, <1>4, <1>5, <1>6 DEF Sound, SwitchesOff
  <2>4. MarkKept(l)' BY <1>1, <1>2, <1>4, <1>5, <1>6 DEF Sound, MarkKept
  <2>5. Shows(l)'
    <3>1. ~ AtRest(l)' BY <1>4 DEF AtRest
    <3> QED BY <1>1, <1>6, <3>1 DEF Sound, Shows, hw1
  <2>6. Dark(l)' BY <1>1, <1>4, <1>6, Only DEF Sound, Dark
  <2> QED BY <2>1, <2>2, <2>3, <2>4, <2>5, <2>6 DEF Sound
<1>8. BankTypeOK' /\ LoadCurrent' BY <1>2, BankKept
<1>9. blinking' \subseteq Leds /\ flashing' \subseteq Leds /\ hushed' \subseteq Leds
  BY <1>1, <1>2 DEF LedsTypeOK
<1> QED BY <1>2, <1>4, <1>6, <1>7, <1>8, <1>9, CallStepIs DEF l

LEMMA PutLevelStep ==
  ASSUME BankInv, UNCHANGED <<hw1, hw2>>, NEW k \in calls, PutLevel(k)
  PROVE  BankInv'
<1> DEFINE l == k.led
<1>1. /\ k \in Call /\ l \in Leds /\ k \in On(l) /\ Sound(l) /\ k.value \in {0, 1}
      /\ LedsTypeOK
  BY CallFinds DEF BankInv
<1>2. /\ k.at = "put" /\ Return(k) /\ gpiod_set_value(l, k.value)
      /\ UNCHANGED <<outputs, btn, turned, device, dndMode, brightness, queued, blinking>>
      /\ UNCHANGED <<flashing, hushed, met>>
  BY DEF PutLevel
<1>3. /\ calls' \subseteq Call /\ \A m \in calls' : m \in calls
      /\ On(l)' = On(l) \ {k} /\ \A j \in Leds \ {l} : On(j)' = On(j)
      /\ l \notin overlapped => On(l)' = {}
  BY <1>2, Returns
<1> HIDE DEF l
<1>4. /\ BankTypeOK' /\ LoadCurrent' /\ level'[l] = k.value /\ l \notin garbled'
      /\ \A j \in Leds \ {l} : level'[j] = level[j] /\ (j \in garbled' <=> j \in garbled)
  BY <1>1, <1>2, ValueSet
<1>5. /\ UNCHANGED <<leds_pc, registered, children, retain, left, overlapped, mixed, later>>
  BY <1>2 DEF device, met
<1>6. Sound(l)'
  <2> USE DEF SetPoints, BlinkPoints
  <2>1. MeetingsSeen(l)' BY <1>1, <1>2, <1>3, MeetingsReturn DEF Sound
  <2>2. SetsBrightness(l)' BY <1>3, <1>5 DEF SetsBrightness
  <2>3. SwitchesOff(l)' BY <1>1, <1>3, <1>5 DEF Sound, SwitchesOff
  <2>4. MarkKept(l)' BY <1>1, <1>2, <1>3, <1>5 DEF Sound, MarkKept
  <2>5. Shows(l)'
    <3>1. CASE l \in overlapped BY <1>1, <1>2, <1>5, <3>1 DEF Sound, Shows, hw1
    <3>2. CASE k.by = "shutdown" /\ l \notin overlapped
      <4>1. leds_pc = "closing" /\ l \notin left \cup retain \cup later
        BY <1>1, <3>2 DEF Sound, SwitchesOff
      <4>2. registered = children BY <4>1 DEF BankInv, LedsInPlace
      <4>3. l \in registered => l \in ShutOff' BY <1>5, <4>1, <4>2 DEF ShutOff
      <4> QED BY <1>1, <1>2, <1>5, <4>3 DEF Sound, Shows, hw1
    <3>3. CASE k.by # "shutdown" /\ l \notin overlapped
      <4>1. k.value = brightness[l] \/ l \in queued \cup hushed
        BY <1>1, <1>2, <3>3 DEF Sound, SetsBrightness
      <4> QED BY <1>1, <1>2, <1>4, <1>5, <4>1 DEF Sound, Shows, AtRest, hw1
    <3> QED BY <3>1, <3>2, <3>3
  <2>6. Dark(l)'
    <3>1. CASE k.by = "shutdown" /\ l \notin overlapped
      <4>1. k.value = 0 /\ l \notin blinking
        BY <1>1, <1>2, <3>1 DEF Sound, SwitchesOff, MarkKept
      <4> QED BY <1>2, <1>3, <1>4, <1>5, <3>1, <4>1 DEF Dark
    <3>2. CASE k.by # "shutdown" /\ l \notin overlapped
      BY <1>1, <1>3, <1>5, <3>2, Only DEF Sound, Dark
    <3>3. CASE l \in overlapped BY <1>5, <3>3 DEF Dark
    <3> QED BY <3>1, <3>2, <3>3
  <2> QED BY <2>1, <2>2, <2>3, <2>4, <2>5, <2>6 DEF Sound
<1>7. blinking' \subseteq Leds /\ flashing' \subseteq Leds /\ hushed' \subseteq Leds
  BY <1>1, <1>2 DEF LedsTypeOK
<1> QED BY <1>2, <1>3, <1>4, <1>6, <1>7, CallStepIs DEF l

LEMMA EndBlinkStep ==
  ASSUME BankInv, UNCHANGED <<hw1, hw2>>, NEW k \in calls, EndBlink(k)
  PROVE  BankInv'
<1> DEFINE l == k.led
<1>1. /\ k \in Call /\ l \in Leds /\ k \in On(l) /\ Sound(l) /\ k.value \in {0, 1}
      /\ LedsTypeOK
  BY CallFinds DEF BankInv
<1>2. /\ k.at = "blink" /\ GoOn(k, "clear") /\ gpiod_set_value(l, k.value)
      /\ flashing' = flashing \ {l}
      /\ UNCHANGED <<outputs, btn, turned, device, dndMode, brightness, queued, blinking>>
      /\ UNCHANGED <<hushed, met>>
  BY DEF EndBlink
<1>3. "clear" \in SetPoints \cup BlinkPoints BY DEF SetPoints
<1>4. PICK n \in Call :
        /\ n.led = l /\ n.by = k.by /\ n.value = k.value /\ n.at = "clear"
        /\ calls' \subseteq Call /\ \A m \in calls' : m.led = l \/ m \in calls
        /\ On(l)' = (On(l) \ {k}) \cup {n}
        /\ \A j \in Leds \ {l} : On(j)' = On(j)
        /\ l \notin overlapped => On(l)' = {n}
  BY <1>2, <1>3, GoesOn
<1> HIDE DEF l
<1>5. /\ BankTypeOK' /\ LoadCurrent' /\ level'[l] = k.value /\ l \notin garbled'
      /\ \A j \in Leds \ {l} : level'[j] = level[j] /\ (j \in garbled' <=> j \in garbled)
  BY <1>1, <1>2, ValueSet
<1>6. UNCHANGED <<leds_pc, registered, children, retain, left, overlapped, mixed, later>>
  BY <1>2 DEF device, met
<1>7. Sound(l)'
  <2> USE DEF SetPoints, BlinkPoints
  <2>1. MeetingsSeen(l)' BY <1>1, <1>2, <1>4, MeetingsGoOn DEF Sound
  <2>2. SetsBrightness(l)'
    BY <1>1, <1>2, <1>4, <1>5, <1>6 DEF Sound, SetsBrightness
  <2>3. SwitchesOff(l)'
    BY <1>1, <1>2, <1>4, <1>5, <1>6 DEF Sound, SwitchesOff
  <2>4. MarkKept(l)' BY <1>1, <1>2, <1>4, <1>6 DEF Sound, MarkKept
  <2>5. Shows(l)'
    <3>1. ~ AtRest(l)' BY <1>4 DEF AtRest
    <3> QED BY <1>1, <1>2, <1>6, <3>1 DEF Sound, Shows, hw1
  <2>6. Dark(l)' BY <1>1, <1>4, <1>6, Only DEF Sound, Dark
  <2> QED BY <2>1, <2>2, <2>3, <2>4, <2>5, <2>6 DEF Sound
<1>8. /\ blinking' \subseteq Leds /\ flashing' \subseteq Leds /\ hushed' \subseteq Leds
      /\ \A j \in Leds \ {l} : j \in flashing' <=> j \in flashing
  BY <1>1, <1>2 DEF LedsTypeOK
<1> QED BY <1>2, <1>4, <1>5, <1>7, <1>8, CallStepIs DEF l

LEMMA ClearBlinkingStep ==
  ASSUME BankInv, UNCHANGED <<hw1, hw2>>, NEW k \in calls, ClearBlinking(k)
  PROVE  BankInv'
<1> DEFINE l == k.led
<1>1. /\ k \in Call /\ l \in Leds /\ k \in On(l) /\ Sound(l) /\ k.value \in {0, 1}
      /\ LedsTypeOK
  BY CallFinds DEF BankInv
<1>2. /\ k.at = "clear" /\ Return(k) /\ blinking' = blinking \ {l}
      /\ UNCHANGED <<bank, device, dndMode, brightness, queued, flashing, hushed, met>>
  BY DEF ClearBlinking
<1>3. /\ calls' \subseteq Call /\ \A m \in calls' : m \in calls
      /\ On(l)' = On(l) \ {k} /\ \A j \in Leds \ {l} : On(j)' = On(j)
      /\ l \notin overlapped => On(l)' = {}
  BY <1>2, Returns
<1> HIDE DEF l
<1>4. /\ UNCHANGED <<level, outputs, garbled, leds_pc, registered, children, retain, left>>
      /\ UNCHANGED <<overlapped, mixed, later>>
  BY <1>2 DEF bank, device, met
<1>5. Sound(l)'
  <2> USE DEF SetPoints, BlinkPoints
  <2>1. MeetingsSeen(l)' BY <1>1, <1>2, <1>3, MeetingsReturn DEF Sound
  <2>2. SetsBrightness(l)' BY <1>3, <1>4 DEF SetsBrightness
  <2>3. SwitchesOff(l)' BY <1>1, <1>3, <1>4 DEF Sound, SwitchesOff
  <2>4. MarkKept(l)'
    <3>1. l \in flashing => l \in mixed BY <1>1, <1>2 DEF Sound, MarkKept
    <3>2. \A j \in On(l)' : j.at \in {"mode", "flash"} => l \in overlapped \cap mixed
      BY <1>1, <1>3 DEF Sound, MeetingsSeen
    <3> QED BY <1>1, <1>2, <1>3, <1>4, <3>1, <3>2 DEF Sound, MarkKept
  <2>5. Shows(l)'
    <3>1. CASE l \in overlapped BY <1>1, <1>4, <3>1 DEF Sound, Shows, hw1
    <3>2. CASE k.by = "shutdown" /\ l \notin overlapped
      <4>1. leds_pc = "closing" /\ l \notin left \cup retain \cup later
        BY <1>1, <3>2 DEF Sound, SwitchesOff
      <4>2. registered = children BY <4>1 DEF BankInv, LedsInPlace
      <4>3. l \in registered => l \in ShutOff' BY <1>4, <4>1, <4>2 DEF ShutOff
      <4> QED BY <1>1, <1>4, <4>3 DEF Sound, Shows, hw1
    <3>3. CASE k.by # "shutdown" /\ l \notin overlapped
      <4>1. level[l] = brightness[l] \/ l \in queued \cup hushed \cup garbled
        BY <1>1, <1>2, <3>3 DEF Sound, SetsBrightness
      <4> QED BY <1>1, <1>2, <1>4, <4>1 DEF Sound, Shows, AtRest, hw1
    <3> QED BY <3>1, <3>2, <3>3
  <2>6. Dark(l)'
    <3>1. CASE k.by = "shutdown" /\ l \notin overlapped
      <4>1. level[l] = 0 \/ l \in garbled BY <1>1, <1>2, <3>1 DEF Sound, SwitchesOff
      <4> QED BY <1>2, <1>3, <1>4, <3>1, <4>1 DEF Dark
    <3>2. CASE k.by # "shutdown" /\ l \notin overlapped
      BY <1>1, <1>3, <1>4, <3>2, Only DEF Sound, Dark
    <3>3. CASE l \in overlapped BY <1>4, <3>3 DEF Dark
    <3> QED BY <3>1, <3>2, <3>3
  <2> QED BY <2>1, <2>2, <2>3, <2>4, <2>5, <2>6 DEF Sound
<1>6. BankTypeOK' /\ LoadCurrent' BY <1>2, BankKept
<1>7. /\ blinking' \subseteq Leds /\ flashing' \subseteq Leds /\ hushed' \subseteq Leds
      /\ \A j \in Leds \ {l} : j \in blinking' <=> j \in blinking
  BY <1>1, <1>2 DEF LedsTypeOK
<1> QED BY <1>2, <1>3, <1>4, <1>5, <1>6, <1>7, CallStepIs DEF l

LEMMA MarkBlinkingStep ==
  ASSUME BankInv, UNCHANGED <<hw1, hw2>>, NEW k \in calls, MarkBlinking(k)
  PROVE  BankInv'
<1> DEFINE l == k.led
<1>1. /\ k \in Call /\ l \in Leds /\ k \in On(l) /\ Sound(l) /\ LedsTypeOK
  BY CallFinds DEF BankInv
<1>2. /\ k.at = "mark" /\ GoOn(k, "mode") /\ blinking' = blinking \cup {l}
      /\ UNCHANGED <<bank, device, dndMode, brightness, queued, flashing, hushed, met>>
  BY DEF MarkBlinking
<1>3. "mode" \in SetPoints \cup BlinkPoints BY DEF BlinkPoints
<1>4. PICK n \in Call :
        /\ n.led = l /\ n.by = k.by /\ n.value = k.value /\ n.at = "mode"
        /\ calls' \subseteq Call /\ \A m \in calls' : m.led = l \/ m \in calls
        /\ On(l)' = (On(l) \ {k}) \cup {n}
        /\ \A j \in Leds \ {l} : On(j)' = On(j)
        /\ l \notin overlapped => On(l)' = {n}
  BY <1>2, <1>3, GoesOn
<1> HIDE DEF l
<1>5. /\ UNCHANGED <<level, outputs, garbled, leds_pc, registered, children, retain, left>>
      /\ UNCHANGED <<overlapped, mixed, later>>
  BY <1>2 DEF bank, device, met
<1>6. k.by # "shutdown"
  BY <1>1, <1>2 DEF Sound, SwitchesOff, SetPoints
<1>7. Sound(l)'
  <2> USE DEF SetPoints, BlinkPoints
  <2>1. MeetingsSeen(l)' BY <1>1, <1>2, <1>4, MeetingsGoOn DEF Sound
  <2>2. SetsBrightness(l)' BY <1>4, <1>5 DEF SetsBrightness
  <2>3. SwitchesOff(l)' BY <1>1, <1>4, <1>5, <1>6 DEF Sound, SwitchesOff
  <2>4. MarkKept(l)'
    <3>1. On(l)' = {n} \/ l \in overlapped \cap mixed
      BY <1>1, <1>2, <1>4 DEF Sound, MeetingsSeen
    <3> QED BY <1>1, <1>2, <1>4, <1>5, <3>1 DEF Sound, MarkKept
  <2>5. Shows(l)'
    <3>1. ~ AtRest(l)' BY <1>4 DEF AtRest
    <3> QED BY <1>1, <1>5, <3>1 DEF Sound, Shows, hw1
  <2>6. Dark(l)' BY <1>1, <1>4, <1>5, Only DEF Sound, Dark
  <2> QED BY <2>1, <2>2, <2>3, <2>4, <2>5, <2>6 DEF Sound
<1>8. BankTypeOK' /\ LoadCurrent' BY <1>2, BankKept
<1>9. /\ blinking' \subseteq Leds /\ flashing' \subseteq Leds /\ hushed' \subseteq Leds
      /\ \A j \in Leds \ {l} : j \in blinking' <=> j \in blinking
  BY <1>1, <1>2 DEF LedsTypeOK
<1> QED BY <1>2, <1>4, <1>5, <1>7, <1>8, <1>9, CallStepIs DEF l

(* A call of gpio_blink_set that returns leaves the LED marked, unless it  *)
(* met another.                                                            *)
LEMMA BlinkReturns ==
  ASSUME BankInv, NEW k \in calls, k.at \in {"mode", "flash"}, Return(k),
         UNCHANGED <<hw1, bank, device, dndMode, brightness, queued, blinking, hushed, met>>,
         flashing' = flashing \/ (k.at = "flash" /\ flashing' = flashing \cup {k.led})
  PROVE  Sound(k.led)'
<1> DEFINE l == k.led
<1>1. l \in Leds /\ k \in On(l) /\ Sound(l) BY CallFinds
<1>2. /\ On(l)' = On(l) \ {k} /\ (l \notin overlapped => On(l)' = {})
      /\ k.at \in {"mode", "flash"} /\ (flashing' = flashing \/ flashing' = flashing \cup {l})
  BY Returns
<1> HIDE DEF l
<1>3. /\ UNCHANGED <<level, outputs, garbled, leds_pc, registered, children, retain, left>>
      /\ UNCHANGED <<overlapped, mixed, later>>
  BY DEF bank, device, met
<1>4. l \in blinking \cup (overlapped \cap mixed)
  BY <1>1, <1>2 DEF Sound, MarkKept
<1> USE DEF SetPoints, BlinkPoints
<1>5. k.by # "shutdown" BY <1>1, <1>2 DEF Sound, SwitchesOff
<1>6. MeetingsSeen(l)' BY <1>1, <1>2, MeetingsReturn DEF Sound
<1>7. SetsBrightness(l)' BY <1>2, <1>3 DEF SetsBrightness
<1>8. SwitchesOff(l)' BY <1>1, <1>2, <1>3 DEF Sound, SwitchesOff
<1>9. MarkKept(l)'
  <2>1. \A j \in On(l)' : l \in overlapped \cap mixed
    BY <1>1, <1>2 DEF Sound, MeetingsSeen
  <2> QED BY <1>1, <1>2, <1>3, <1>4, <2>1 DEF Sound, MarkKept
<1>10. Shows(l)' BY <1>1, <1>3, <1>4 DEF Sound, Shows, hw1
<1>11. Dark(l)' BY <1>1, <1>2, <1>3, <1>5, Only DEF Sound, Dark
<1>12. Sound(l)' BY <1>6, <1>7, <1>8, <1>9, <1>10, <1>11 DEF Sound
<1> QED BY <1>12 DEF l

LEMMA TestModeStep ==
  ASSUME BankInv, UNCHANGED <<hw1, hw2>>, NEW k \in calls, TestMode(k)
  PROVE  BankInv'
<1> DEFINE l == k.led
<1>1. /\ k \in Call /\ l \in Leds /\ k \in On(l) /\ Sound(l) /\ LedsTypeOK
  BY CallFinds DEF BankInv
<1>2. /\ k.at = "mode" /\ (GoOn(k, "flash") \/ Return(k))
      /\ UNCHANGED <<bank, device, dndMode, brightness, queued, blinking, flashing, hushed>>
      /\ UNCHANGED met
  BY DEF TestMode
<1>3. /\ UNCHANGED <<level, outputs, garbled, leds_pc, registered, children, retain, left>>
      /\ UNCHANGED <<overlapped, mixed, later>>
  BY <1>2 DEF bank, device, met
<1>4. BankTypeOK' /\ LoadCurrent' BY <1>2, BankKept
<1>5. blinking' \subseteq Leds /\ flashing' \subseteq Leds /\ hushed' \subseteq Leds
  BY <1>1, <1>2 DEF LedsTypeOK
<1>6. CASE GoOn(k, "flash")
  <2>1. "flash" \in SetPoints \cup BlinkPoints BY DEF BlinkPoints
  <2>2. PICK n \in Call :
          /\ n.led = l /\ n.by = k.by /\ n.value = k.value /\ n.at = "flash"
          /\ calls' \subseteq Call /\ \A m \in calls' : m.led = l \/ m \in calls
          /\ On(l)' = (On(l) \ {k}) \cup {n}
          /\ \A j \in Leds \ {l} : On(j)' = On(j)
          /\ l \notin overlapped => On(l)' = {n}
    BY <1>6, <2>1, GoesOn
  <2> HIDE DEF l
  <2>3. k.by # "shutdown" BY <1>1, <1>2 DEF Sound, SwitchesOff, SetPoints
  <2>4. Sound(l)'
    <3> USE DEF SetPoints, BlinkPoints
    <3>1. MeetingsSeen(l)' BY <1>1, <1>2, <2>2, MeetingsGoOn DEF Sound
    <3>2. SetsBrightness(l)' BY <1>3, <2>2 DEF SetsBrightness
    <3>3. SwitchesOff(l)' BY <1>1, <1>3, <2>2, <2>3 DEF Sound, SwitchesOff
    <3>4. MarkKept(l)' BY <1>1, <1>2, <1>3, <2>2 DEF Sound, MarkKept
    <3>5. Shows(l)'
      <4>1. ~ AtRest(l)' BY <2>2 DEF AtRest
      <4> QED BY <1>1, <1>3, <4>1 DEF Sound, Shows, hw1
    <3>6. Dark(l)' BY <1>1, <1>3, <2>2, <2>3, Only DEF Sound, Dark
    <3> QED BY <3>1, <3>2, <3>3, <3>4, <3>5, <3>6 DEF Sound
  <2> QED BY <1>2, <1>3, <1>4, <1>5, <2>2, <2>4, CallStepIs DEF l
<1>7. CASE Return(k)
  <2>1. Sound(k.led)' BY <1>2, <1>7, BlinkReturns
  <2>2. /\ calls' \subseteq Call /\ \A m \in calls' : m \in calls
        /\ \A j \in Leds \ {k.led} : On(j)' = On(j)
    BY <1>7, Returns
  <2> QED BY <1>2, <1>3, <1>4, <1>5, <2>1, <2>2, CallStepIs
<1> QED BY <1>2, <1>6, <1>7

LEMMA FlashStep ==
  ASSUME BankInv, UNCHANGED <<hw1, hw2>>, NEW k \in calls, Flash(k)
  PROVE  BankInv'
<1>1. k.led \in Leds /\ LedsTypeOK BY CallFinds DEF BankInv
<1>2. /\ k.at = "flash" /\ Return(k) /\ flashing' = flashing \cup {k.led}
      /\ UNCHANGED <<bank, device, dndMode, brightness, queued, blinking, hushed, met>>
  BY DEF Flash
<1>3. UNCHANGED <<level, outputs, garbled>> BY <1>2 DEF bank
<1>4. BankTypeOK' /\ LoadCurrent' BY <1>2, BankKept
<1>5. /\ blinking' \subseteq Leds /\ flashing' \subseteq Leds /\ hushed' \subseteq Leds
      /\ \A j \in Leds \ {k.led} : j \in flashing' <=> j \in flashing
  BY <1>1, <1>2 DEF LedsTypeOK
<1>6. Sound(k.led)' BY <1>2, BlinkReturns
<1>7. /\ calls' \subseteq Call /\ \A m \in calls' : m \in calls
      /\ \A j \in Leds \ {k.led} : On(j)' = On(j)
  BY <1>2, Returns
<1> QED BY <1>2, <1>3, <1>4, <1>5, <1>6, <1>7, CallStepIs

LEMMA WorkTestStep ==
  ASSUME BankInv, UNCHANGED <<hw1, hw2>>, NEW k \in calls, WorkTest(k)
  PROVE  BankInv'
<1> DEFINE l == k.led
<1>1. /\ k \in Call /\ l \in Leds /\ k \in On(l) /\ Sound(l) /\ LedsTypeOK
  BY CallFinds DEF BankInv
<1>2. /\ k.at = "work"
      /\ \/ GoOn(k, "level") /\ UNCHANGED hushed
         \/ Return(k) /\ hushed' = hushed \cup {l}
      /\ UNCHANGED <<bank, device, dndMode, brightness, queued, blinking, flashing, met>>
  BY DEF WorkTest
<1>3. /\ UNCHANGED <<level, outputs, garbled, leds_pc, registered, children, retain, left>>
      /\ UNCHANGED <<overlapped, mixed, later>>
  BY <1>2 DEF bank, device, met
<1>4. BankTypeOK' /\ LoadCurrent' BY <1>2, BankKept
<1>5. /\ blinking' \subseteq Leds /\ flashing' \subseteq Leds /\ hushed' \subseteq Leds
      /\ \A j \in Leds \ {l} : j \in hushed' <=> j \in hushed
  BY <1>1, <1>2 DEF LedsTypeOK
<1>6. k.by # "shutdown" BY <1>1, <1>2 DEF Sound, SwitchesOff, SetPoints
<1>7. CASE GoOn(k, "level") /\ UNCHANGED hushed
  <2>1. "level" \in SetPoints \cup BlinkPoints BY DEF SetPoints
  <2>2. PICK n \in Call :
          /\ n.led = l /\ n.by = k.by /\ n.value = k.value /\ n.at = "level"
          /\ calls' \subseteq Call /\ \A m \in calls' : m.led = l \/ m \in calls
          /\ On(l)' = (On(l) \ {k}) \cup {n}
          /\ \A j \in Leds \ {l} : On(j)' = On(j)
          /\ l \notin overlapped => On(l)' = {n}
    BY <1>7, <2>1, GoesOn
  <2> HIDE DEF l
  <2>3. Sound(l)'
    <3> USE DEF SetPoints, BlinkPoints
    <3>1. MeetingsSeen(l)' BY <1>1, <1>2, <2>2, MeetingsGoOn DEF Sound
    <3>2. SetsBrightness(l)'
      BY <1>1, <1>2, <1>3, <1>7, <2>2 DEF Sound, SetsBrightness
    <3>3. SwitchesOff(l)' BY <1>1, <1>3, <1>6, <2>2 DEF Sound, SwitchesOff
    <3>4. MarkKept(l)' BY <1>1, <1>2, <1>3, <2>2 DEF Sound, MarkKept
    <3>5. Shows(l)'
      <4>1. ~ AtRest(l)' BY <2>2 DEF AtRest
      <4> QED BY <1>1, <1>3, <4>1 DEF Sound, Shows, hw1
    <3>6. Dark(l)' BY <1>1, <1>3, <1>6, <2>2, Only DEF Sound, Dark
    <3> QED BY <3>1, <3>2, <3>3, <3>4, <3>5, <3>6 DEF Sound
  <2> QED BY <1>2, <1>3, <1>4, <1>5, <2>2, <2>3, CallStepIs DEF l
<1>8. CASE Return(k) /\ hushed' = hushed \cup {l}
  <2>1. /\ calls' \subseteq Call /\ \A m \in calls' : m \in calls
        /\ On(l)' = On(l) \ {k} /\ \A j \in Leds \ {l} : On(j)' = On(j)
        /\ l \notin overlapped => On(l)' = {}
    BY <1>8, Returns
  <2> HIDE DEF l
  <2>2. Sound(l)'
    <3> USE DEF SetPoints, BlinkPoints
    <3>1. MeetingsSeen(l)' BY <1>1, <1>2, <2>1, MeetingsReturn DEF Sound
    <3>2. SetsBrightness(l)' BY <1>3, <2>1 DEF SetsBrightness
    <3>3. SwitchesOff(l)' BY <1>1, <1>3, <2>1 DEF Sound, SwitchesOff
    <3>4. MarkKept(l)' BY <1>1, <1>2, <1>3, <2>1 DEF Sound, MarkKept
    <3>5. Shows(l)' BY <1>1, <1>3, <1>8 DEF Sound, Shows, hw1
    <3>6. Dark(l)' BY <1>1, <1>3, <1>6, <2>1, Only DEF Sound, Dark
    <3> QED BY <3>1, <3>2, <3>3, <3>4, <3>5, <3>6 DEF Sound
  <2> QED BY <1>2, <1>3, <1>4, <1>5, <2>1, <2>2, CallStepIs DEF l
<1> QED BY <1>2, <1>7, <1>8

-----------------------------------------------------------------------------
(* Calls that begin, and what users do without a call *)

(* A step that concerns one LED *)
LEMMA OneLedStep ==
  ASSUME BankInv, UNCHANGED <<hw1, hw2>>, NEW l \in Leds,
         BankTypeOK', LoadCurrent', LedsTypeOK', LedsInPlace',
         \/ leds_pc' = leds_pc
         \/ leds_pc \notin {"closing", "down"} /\ leds_pc' \notin {"closing", "down"},
         \A j \in Leds \ {l} : Keeps(j), Sound(l)'
  PROVE  BankInv'
<1>1. ASSUME NEW j \in Leds PROVE Sound(j)'
  <2>1. CASE j = l BY <2>1
  <2>2. CASE j # l BY <2>2, SoundKept DEF BankInv
  <2> QED BY <2>1, <2>2
<1> QED BY <1>1, LedsStepIs

(* A user's call or that of the work *)
LEMMA UserBegins ==
  ASSUME BankInv, NEW l \in registered, NEW c \in Setters \cup {"work"},
         NEW point \in {"work", "level", "mark"}, NEW value \in {0, 1},
         Begin(l, c, point, value),
         UNCHANGED <<hw1, hw2, bank, device, dndMode, blinking, flashing, hushed>>,
         brightness' \in [Leds -> {0, 1}],
         \A j \in Leds \ {l} : /\ brightness'[j] = brightness[j]
                               /\ j \in queued' <=> j \in queued,
         queued' \subseteq queued,
         point # "mark" => brightness'[l] = value
  PROVE  BankInv'
<1>1. /\ BankTypeOK /\ LedsTypeOK /\ LedsInPlace /\ LoadCurrent /\ l \in Leds /\ Sound(l)
      /\ c # "shutdown"
  BY LedsAssumption DEF BankInv, LedsTypeOK
<1>2. c \in Setters \cup {"work", "shutdown"}
      /\ point \in {"work"} \cup SetPoints \cup BlinkPoints
  BY DEF SetPoints, BlinkPoints
<1>3. /\ calls' \subseteq Call
      /\ \A j \in Leds \ {l} : /\ On(j)' = On(j)
                               /\ j \in overlapped' <=> j \in overlapped
                               /\ j \in mixed' <=> j \in mixed
                               /\ j \in later' <=> j \in later
      /\ overlapped' \subseteq Leds /\ mixed' \subseteq Leds /\ later' \subseteq Leds
      /\ l \in overlapped' <=> On(l) # {}
      /\ l \in mixed => l \in mixed'
      /\ On(l) # {} /\ (point = "mark" \/ \E k \in On(l) : k.at \in BlinkPoints)
           => l \in mixed'
      /\ later' = IF c # "shutdown" /\ leds_pc \in {"closing", "down"} /\ l \notin left
                  THEN later \cup {l} ELSE later
  BY <1>1, <1>2, CallBegun
<1>4. PICK n \in Call :
        /\ n.led = l /\ n.by = c /\ n.at = point /\ n.value = value
        /\ calls' = calls \cup {n} /\ On(l)' = On(l) \cup {n}
  BY <1>1, <1>2, CallBegun
<1> USE DEF SetPoints, BlinkPoints
<1>5. /\ UNCHANGED <<children, leds_pc, class, registered, can_sleep, retain, left, undone>>
      /\ UNCHANGED <<level, outputs, garbled>>
  BY DEF device, bank, hw1
<1>6. BankTypeOK' /\ LoadCurrent' BY BankKept
<1>7. LedsTypeOK' BY <1>1, <1>3, <1>5 DEF LedsTypeOK
<1>8. LedsInPlace'
  <2>1. later' \cap left' = {} /\ (leds_pc' \in {"closing", "down"} \/ later' = {})
    BY <1>1, <1>3, <1>5 DEF LedsInPlace
  <2> QED BY <1>1, <1>3, <1>4, <1>5, <2>1 DEF LedsInPlace
<1>9. \A j \in Leds \ {l} : Keeps(j) BY <1>3, <1>5 DEF Keeps
<1>10. Sound(l)'
  <2>1. MeetingsSeen(l)' BY <1>3, <1>4 DEF MeetingsSeen
  <2>2. SetsBrightness(l)' BY <1>3, <1>4, <1>5 DEF SetsBrightness
  <2>3. SwitchesOff(l)' BY <1>1, <1>3, <1>4, <1>5 DEF Sound, SwitchesOff
  <2>4. MarkKept(l)' BY <1>1, <1>3, <1>4, <1>5 DEF Sound, MarkKept
  <2>5. Shows(l)'
    <3>1. ~ AtRest(l)' BY <1>4 DEF AtRest
    <3> QED BY <1>1, <1>5, <3>1 DEF Sound, Shows
  <2>6. Dark(l)' BY <1>1, <1>3, <1>5 DEF Dark
  <2> QED BY <2>1, <2>2, <2>3, <2>4, <2>5, <2>6 DEF Sound
<1> QED BY <1>1, <1>5, <1>6, <1>7, <1>8, <1>9, <1>10, OneLedStep

LEMMA UserStep ==
  ASSUME BankInv, UNCHANGED <<hw1, hw2>>, NEW l \in Leds, UserNext(l) \/ WorkBegin(l)
  PROVE  BankInv'
<1>1. BankTypeOK /\ LedsTypeOK /\ LedsInPlace /\ LoadCurrent /\ Sound(l) BY DEF BankInv
<1>2. ASSUME NEW c \in Setters, Blink(l, c) PROVE BankInv'
  <2>1. /\ l \in registered /\ Begin(l, c, "mark", 0)
        /\ UNCHANGED <<bank, device, dndMode, brightness, queued, blinking, flashing, hushed>>
    BY <1>2 DEF Blink, Usable
  <2>2. brightness' \in [Leds -> {0, 1}] BY <1>1, <2>1 DEF LedsTypeOK
  <2> QED BY <2>1, <2>2, UserBegins
<1>3. ASSUME NEW c \in Setters, NEW value \in {0, 1}, SetNow(l, c, value) PROVE BankInv'
  <2>1. /\ l \in registered /\ Begin(l, c, "level", value)
        /\ brightness' = [brightness EXCEPT ![l] = value]
        /\ UNCHANGED <<bank, device, dndMode, queued, blinking, flashing, hushed>>
    BY <1>3 DEF SetNow, Usable
  <2>2. /\ brightness' \in [Leds -> {0, 1}] /\ brightness'[l] = value
        /\ \A j \in Leds \ {l} : brightness'[j] = brightness[j]
    BY <1>1, <2>1 DEF LedsTypeOK
  <2> QED BY <2>1, <2>2, UserBegins
<1>4. ASSUME NEW value \in {0, 1}, SetLater(l, value) PROVE BankInv'
  <2>1. /\ l \in registered \cap can_sleep /\ queued' = queued \cup {l}
        /\ brightness' = [brightness EXCEPT ![l] = value]
        /\ UNCHANGED <<bank, device, dndMode, blinking, flashing, calls, hushed, met>>
    BY <1>4 DEF SetLater
  <2>2. /\ UNCHANGED <<children, leds_pc, class, registered, can_sleep, retain, left, undone>>
        /\ UNCHANGED <<level, outputs, garbled, overlapped, mixed, later>>
    BY <2>1 DEF device, bank, met, hw1
  <2>3. \A j \in Leds : On(j)' = On(j) BY <2>1 DEF On
  <2>4. BankTypeOK' /\ LoadCurrent' BY <2>1, BankKept
  <2>5. LedsTypeOK' BY <1>1, <2>1, <2>2 DEF LedsTypeOK
  <2>6. LedsInPlace' BY <1>1, <2>1, <2>2 DEF LedsInPlace
  <2>7. \A j \in Leds \ {l} : Keeps(j) BY <1>1, <2>1, <2>2, <2>3 DEF Keeps, LedsTypeOK
  <2>8. Sound(l)'
    <3>1. MeetingsSeen(l)' BY <1>1, <2>2, <2>3 DEF Sound, MeetingsSeen
    <3>2. SetsBrightness(l)' BY <2>1, <2>3 DEF SetsBrightness
    <3>3. SwitchesOff(l)' BY <1>1, <2>2, <2>3 DEF Sound, SwitchesOff
    <3>4. MarkKept(l)' BY <1>1, <2>1, <2>2, <2>3 DEF Sound, MarkKept
    <3>5. Shows(l)'
      <4>1. ~ AtRest(l)' BY <2>1 DEF AtRest
      <4> QED BY <1>1, <2>2, <4>1 DEF Sound, Shows
    <3>6. Dark(l)' BY <1>1, <2>1, <2>2, <2>3 DEF Sound, Dark
    <3> QED BY <3>1, <3>2, <3>3, <3>4, <3>5, <3>6 DEF Sound
  <2> QED BY <2>2, <2>4, <2>5, <2>6, <2>7, <2>8, OneLedStep
<1>5. CASE WorkBegin(l)
  <2>1. /\ l \in queued /\ queued' = queued \ {l} /\ Begin(l, "work", "work", brightness[l])
        /\ UNCHANGED <<bank, device, dndMode, brightness, blinking, flashing, hushed>>
    BY <1>5 DEF WorkBegin
  <2>2. l \in registered /\ brightness[l] \in {0, 1} BY <1>1, <2>1 DEF LedsTypeOK
  <2>3. brightness' \in [Leds -> {0, 1}] BY <1>1, <2>1 DEF LedsTypeOK
  <2> QED BY <2>1, <2>2, <2>3, UserBegins
<1> QED BY <1>2, <1>3, <1>4, <1>5 DEF UserNext

LEMMA DndStep ==
  ASSUME BankInv, UNCHANGED <<hw1, hw2>>, NEW t \in Texts, STORE_dndMode(t)
  PROVE  BankInv'
<1>1. BankTypeOK /\ LedsTypeOK /\ LedsInPlace /\ LoadCurrent BY DEF BankInv
<1>2. UNCHANGED <<bank, device, brightness, queued, blinking, flashing, calls, hushed, met>>
  BY DEF STORE_dndMode
<1>3. dndMode' \in Int
  <2>1. \A u \in DOMAIN kstrtoint : kstrtoint[u] \in Int BY DEF kstrtoint
  <2> QED BY <1>1, <2>1 DEF STORE_dndMode, LedsTypeOK
<1>4. BankTypeOK' /\ LoadCurrent' BY <1>2, BankKept
<1>5. /\ UNCHANGED <<children, leds_pc, class, registered, can_sleep, retain, left, undone>>
      /\ UNCHANGED <<level, outputs, garbled, overlapped, mixed, later>>
  BY <1>2 DEF device, bank, met, hw1
<1>6. LedsTypeOK' BY <1>1, <1>2, <1>3, <1>5 DEF LedsTypeOK
<1>7. LedsInPlace' BY <1>1, <1>2, <1>5 DEF LedsInPlace
<1>8. ASSUME NEW l \in Leds PROVE Sound(l)'
  <2>1. On(l)' = On(l) BY <1>2 DEF On
  <2>2. Keeps(l) BY <1>2, <1>5, <2>1 DEF Keeps
  <2> QED BY <1>5, <2>2, SoundKept DEF BankInv
<1> QED BY <1>4, <1>6, <1>7, <1>8, LedsStepIs

-----------------------------------------------------------------------------
(* Probe, rmmod and shutdown *)

LEMMA ProbeStep ==
  ASSUME BankInv, UNCHANGED <<hw1, hw2>>, LedsProbe
  PROVE  BankInv'
<1>1. LedsTypeOK /\ LedsInPlace /\ leds_pc = "out" BY DEF BankInv, LedsProbe
<1>2. /\ leds_pc' = "probe" /\ class' = "attr" /\ children' \subseteq Leds
      /\ UNCHANGED <<bank, registered, can_sleep, retain, left, dndMode, brightness>>
      /\ UNCHANGED <<queued, blinking, flashing, calls, hushed, met>>
  BY DEF LedsProbe
<1>3. UNCHANGED <<overlapped, mixed, later>> BY <1>2 DEF met
<1>4. registered = {} /\ left = {} /\ later = {} /\ calls = {}
  BY <1>1 DEF LedsInPlace, LedsTypeOK
<1>5. BankTypeOK' /\ LoadCurrent' BY <1>2, BankKept
<1>6. LedsTypeOK' BY <1>1, <1>2, <1>3, <1>4 DEF LedsTypeOK
<1>7. LedsInPlace' BY <1>2, <1>3, <1>4 DEF LedsInPlace
<1>8. ASSUME NEW l \in Leds PROVE Sound(l)'
  <2>1. On(l)' = {} BY <1>2, <1>4 DEF On
  <2>2. l \in flashing => l \in blinking \cup mixed BY DEF BankInv, Sound, MarkKept
  <2>3. MeetingsSeen(l)' /\ SetsBrightness(l)' /\ SwitchesOff(l)'
    BY <2>1 DEF MeetingsSeen, SetsBrightness, SwitchesOff
  <2>4. MarkKept(l)' BY <1>2, <1>3, <2>1, <2>2 DEF MarkKept
  <2>5. Shows(l)' BY <1>2, <1>4 DEF Shows
  <2>6. Dark(l)' BY <1>2 DEF Dark
  <2> QED BY <2>3, <2>4, <2>5, <2>6 DEF Sound
<1> QED BY <1>5, <1>6, <1>7, <1>8, LedsStepIs

LEMMA CreateStep ==
  ASSUME BankInv, UNCHANGED <<hw1, hw2>>, NEW l \in Leds, create_gpio_led(l)
  PROVE  BankInv'
<1>1. LedsTypeOK /\ LedsInPlace BY DEF BankInv
<1>2. PICK state \in {0, 1} : /\ gpiod_set_value(l, state)
                             /\ brightness' = [brightness EXCEPT ![l] = state]
  BY DEF create_gpio_led
<1>3. /\ leds_pc = "probe" /\ l \in children \ registered
      /\ can_sleep \subseteq can_sleep' /\ can_sleep' \subseteq can_sleep \cup ({l} \ OnChip)
      /\ retain' \in {retain, retain \cup {l}}
      /\ outputs' = outputs \cup {l} /\ turned' = turned \cup ({l} \cap OnChip)
      /\ registered' = registered \cup {l}
      /\ leds_pc' = IF registered' = children THEN "bound" ELSE "probe"
      /\ UNCHANGED <<btn, children, class, left, dndMode, queued, blinking, flashing>>
      /\ UNCHANGED <<calls, hushed, met>>
  BY DEF create_gpio_led
<1>4. UNCHANGED <<overlapped, mixed, later, undone>> BY <1>3 DEF met, hw1
<1>5. /\ BankTypeOK' /\ LoadCurrent' /\ level'[l] = state /\ l \notin garbled'
      /\ \A j \in Leds \ {l} : /\ level'[j] = level[j]
                               /\ j \in garbled' <=> j \in garbled
                               /\ j \in outputs' <=> j \in outputs
  BY <1>2, <1>3, ValueSet
<1>6. /\ brightness' \in [Leds -> {0, 1}] /\ brightness'[l] = state
      /\ \A j \in Leds \ {l} : brightness'[j] = brightness[j]
  BY <1>1, <1>2 DEF LedsTypeOK
<1>7. \A j \in Leds : On(j)' = On(j) BY <1>3 DEF On
<1>8. On(l) = {} BY <1>1, <1>3 DEF LedsInPlace, On
<1>9. LedsTypeOK' BY <1>1, <1>3, <1>4, <1>6 DEF LedsTypeOK
<1>10. LedsInPlace' BY <1>1, <1>3, <1>4 DEF LedsInPlace
<1>11. \A j \in Leds \ {l} : Keeps(j)
  BY <1>3, <1>4, <1>5, <1>6, <1>7 DEF Keeps
<1>12. leds_pc \notin {"closing", "down"} /\ leds_pc' \notin {"closing", "down"} BY <1>3
<1>13. Sound(l)'
  <2>1. On(l)' = {} BY <1>7, <1>8
  <2>2. l \in flashing => l \in blinking \cup mixed BY DEF BankInv, Sound, MarkKept
  <2>3. MeetingsSeen(l)' /\ SetsBrightness(l)' /\ SwitchesOff(l)'
    BY <2>1 DEF MeetingsSeen, SetsBrightness, SwitchesOff
  <2>4. MarkKept(l)' BY <1>3, <1>4, <2>1, <2>2 DEF MarkKept
  <2>5. Shows(l)' BY <1>3, <1>5, <1>6 DEF Shows
  <2>6. Dark(l)' BY <1>12 DEF Dark
  <2> QED BY <2>3, <2>4, <2>5, <2>6 DEF Sound
<1> QED BY <1>5, <1>9, <1>10, <1>11, <1>12, <1>13, OneLedStep

(* A failed probe and rmmod *)
LEMMA UnregisterStep ==
  ASSUME BankInv, UNCHANGED <<hw1, hw2>>, LedsProbeFails \/ LedsUnload
  PROVE  BankInv'
<1> USE BankAssumption DEF Lines
<1>1. BankTypeOK /\ LedsTypeOK /\ LedsInPlace /\ LoadCurrent BY DEF BankInv
<1>2. /\ leds_pc \in {"probe", "bound", "failed"} /\ leds_pc' \in {"failed", "out"}
      /\ Unregister
      /\ UNCHANGED <<outputs, btn, turned, children, class, left, dndMode, calls, hushed>>
      /\ UNCHANGED met
  BY DEF LedsProbeFails, LedsUnload
<1>3. UNCHANGED <<overlapped, mixed, later, undone, thread, hw1_pc, val>>
  BY <1>2 DEF met, hw1
<1> DEFINE off == (registered \ retain) \ (IF dndMode < 1 THEN {} ELSE can_sleep)
<1>4. off \subseteq Leds BY <1>1 DEF LedsTypeOK
<1>5. /\ calls = {}
      /\ level' = [i \in Lines |-> IF i \in off THEN 0 ELSE level[i]]
      /\ switched' = switched \cup (off \cap OnChip) /\ garbled' = garbled \ off
      /\ flashing' = flashing \ (off \cap blinking) /\ blinking' = blinking \ off
      /\ brightness' = [l \in Leds |-> IF l \in registered \ retain THEN 0 ELSE brightness[l]]
      /\ registered' = {} /\ can_sleep' = {} /\ retain' = {} /\ queued' = {}
  BY <1>2 DEF Unregister
<1> HIDE DEF off
<1>6. BankTypeOK' BY <1>1, <1>2, <1>5 DEF BankTypeOK
<1>7. LoadCurrent'
  <2>1. \A l \in OnChip \ switched' : l \notin switched /\ level'[l] = level[l] BY <1>5
  <2> QED BY <1>1, <1>2, <1>3, <2>1 DEF LoadCurrent
<1>8. LedsTypeOK'
  <2>1. brightness' \in [Leds -> {0, 1}] BY <1>1, <1>5 DEF LedsTypeOK
  <2> QED BY <1>1, <1>2, <1>3, <1>5, <2>1 DEF LedsTypeOK
<1>9. LedsInPlace' BY <1>1, <1>2, <1>3, <1>5 DEF LedsInPlace
<1>10. ASSUME NEW l \in Leds PROVE Sound(l)'
  <2>1. On(l)' = {} BY <1>2, <1>5 DEF On
  <2>2. l \in flashing => l \in blinking \cup mixed BY DEF BankInv, Sound, MarkKept
  <2>3. MeetingsSeen(l)' /\ SetsBrightness(l)' /\ SwitchesOff(l)'
    BY <2>1 DEF MeetingsSeen, SetsBrightness, SwitchesOff
  <2>4. MarkKept(l)' BY <1>3, <1>5, <2>1, <2>2 DEF MarkKept
  <2>5. Shows(l)' BY <1>5 DEF Shows
  <2>6. Dark(l)' BY <1>2 DEF Dark
  <2> QED BY <2>3, <2>4, <2>5, <2>6 DEF Sound
<1> QED BY <1>6, <1>7, <1>8, <1>9, <1>10, LedsStepIs

LEMMA ShutdownEdgesStep ==
  ASSUME BankInv, UNCHANGED <<hw1, hw2>>, ShutdownBegin \/ ShutdownEnd
  PROVE  BankInv'
<1>1. LedsTypeOK /\ LedsInPlace BY DEF BankInv
<1>2. /\ UNCHANGED <<bank, children, registered, can_sleep, retain, dndMode, brightness>>
      /\ UNCHANGED <<queued, blinking, flashing, calls, hushed, met>>
  BY DEF ShutdownBegin, ShutdownEnd
<1>3. UNCHANGED <<level, outputs, garbled, overlapped, mixed, later, undone>>
  BY <1>2 DEF bank, met, hw1
<1>4. BankTypeOK' /\ LoadCurrent' BY <1>2, BankKept
<1>5. CASE ShutdownBegin
  <2>1. leds_pc = "bound" /\ leds_pc' = "closing" /\ left' = children /\ class' = class
    BY <1>5 DEF ShutdownBegin
  <2>2. LedsTypeOK' BY <1>1, <1>2, <1>3, <2>1 DEF LedsTypeOK
  <2>3. LedsInPlace' BY <1>1, <1>2, <1>3, <2>1 DEF LedsInPlace
  <2>4. ASSUME NEW l \in Leds PROVE Sound(l)'
    <3>1. On(l)' = On(l) /\ Sound(l) BY <1>2 DEF On, BankInv
    <3>2. MeetingsSeen(l)' BY <1>3, <3>1 DEF Sound, MeetingsSeen
    <3>3. SetsBrightness(l)' BY <1>2, <1>3, <3>1 DEF Sound, SetsBrightness
    <3>4. SwitchesOff(l)' BY <2>1, <3>1 DEF Sound, SwitchesOff
    <3>5. MarkKept(l)' BY <1>2, <1>3, <3>1 DEF Sound, MarkKept
    <3>6. Shows(l)' BY <1>2, <1>3, <2>1, <3>1 DEF Sound, Shows, AtRest, ShutOff
    <3>7. Dark(l)' BY <1>2, <2>1 DEF Dark
    <3> QED BY <3>2, <3>3, <3>4, <3>5, <3>6, <3>7 DEF Sound
  <2> QED BY <1>4, <2>2, <2>3, <2>4, LedsStepIs
<1>6. CASE ShutdownEnd
  <2>1. /\ leds_pc = "closing" /\ leds_pc' = "down" /\ left = {} /\ left' = left
        /\ class' = "bare" /\ \A k \in calls : k.by # "shutdown"
    BY <1>6 DEF ShutdownEnd
  <2>2. LedsTypeOK' BY <1>1, <1>2, <1>3, <2>1 DEF LedsTypeOK
  <2>3. LedsInPlace' BY <1>1, <1>2, <1>3, <2>1 DEF LedsInPlace
  <2>4. ASSUME NEW l \in Leds PROVE Sound(l)'
    <3>1. On(l)' = On(l) /\ Sound(l) BY <1>2 DEF On, BankInv
    <3>2. MeetingsSeen(l)' BY <1>3, <3>1 DEF Sound, MeetingsSeen
    <3>3. SetsBrightness(l)' BY <1>2, <1>3, <3>1 DEF Sound, SetsBrightness
    <3>4. SwitchesOff(l)'
      <4>1. \A k \in On(l) : k.by # "shutdown" BY <2>1 DEF On
      <4> QED BY <3>1, <4>1 DEF SwitchesOff
    <3>5. MarkKept(l)' BY <1>2, <1>3, <3>1 DEF Sound, MarkKept
    <3>6. Shows(l)' BY <1>2, <1>3, <2>1, <3>1 DEF Sound, Shows, AtRest, ShutOff
    <3>7. Dark(l)' BY <1>2, <1>3, <2>1, <3>1 DEF Sound, Dark
    <3> QED BY <3>2, <3>3, <3>4, <3>5, <3>6, <3>7 DEF Sound
  <2> QED BY <1>4, <2>2, <2>3, <2>4, LedsStepIs
<1> QED BY <1>5, <1>6

LEMMA ShutdownNextStep ==
  ASSUME BankInv, UNCHANGED <<hw1, hw2>>, NEW l \in Leds, ShutdownNext(l)
  PROVE  BankInv'
<1>1. LedsTypeOK /\ LedsInPlace /\ Sound(l) BY DEF BankInv
<1>2. /\ leds_pc = "closing" /\ l \in left /\ left' = left \ {l}
      /\ IF l \in retain THEN UNCHANGED <<calls, met>>
                         ELSE Begin(l, "shutdown", "level", 0)
      /\ UNCHANGED <<bank, children, leds_pc, class, registered, can_sleep, retain, dndMode>>
      /\ UNCHANGED <<brightness, queued, blinking, flashing, hushed>>
  BY DEF ShutdownNext
<1>3. UNCHANGED <<level, outputs, garbled, undone>> BY <1>2 DEF bank, hw1
<1>4. BankTypeOK' /\ LoadCurrent' BY <1>2, BankKept
<1>5. CASE l \in retain
  <2>1. UNCHANGED <<calls, overlapped, mixed, later>> BY <1>2, <1>5 DEF met
  <2>2. \A j \in Leds : On(j)' = On(j) BY <2>1 DEF On
  <2>3. LedsTypeOK' BY <1>1, <1>2, <2>1 DEF LedsTypeOK
  <2>4. LedsInPlace' BY <1>1, <1>2, <2>1 DEF LedsInPlace
  <2>5. \A j \in Leds \ {l} : Keeps(j) BY <1>2, <1>3, <2>1, <2>2 DEF Keeps
  <2>6. Sound(l)'
    <3>1. MeetingsSeen(l)' BY <1>1, <2>1, <2>2 DEF Sound, MeetingsSeen
    <3>2. SetsBrightness(l)' BY <1>1, <1>2, <1>3, <2>1, <2>2 DEF Sound, SetsBrightness
    <3>3. SwitchesOff(l)' BY <1>1, <1>2, <1>5, <2>2 DEF Sound, SwitchesOff
    <3>4. MarkKept(l)' BY <1>1, <1>2, <2>1, <2>2 DEF Sound, MarkKept
    <3>5. Shows(l)'
      BY <1>1, <1>2, <1>3, <1>5, <2>1, <2>2 DEF Sound, Shows, AtRest, ShutOff
    <3>6. Dark(l)' BY <1>2, <1>5 DEF Dark
    <3> QED BY <3>1, <3>2, <3>3, <3>4, <3>5, <3>6 DEF Sound
  <2> QED BY <1>2, <1>4, <2>3, <2>4, <2>5, <2>6, OneLedStep
<1>6. CASE l \notin retain
  <2>1. /\ "shutdown" \in Setters \cup {"work", "shutdown"} /\ 0 \in {0, 1}
        /\ "level" \in {"work"} \cup SetPoints \cup BlinkPoints
        /\ Begin(l, "shutdown", "level", 0)
    BY <1>2, <1>6 DEF SetPoints
  <2>2. /\ calls' \subseteq Call
        /\ \A j \in Leds \ {l} : /\ On(j)' = On(j)
                                 /\ j \in overlapped' <=> j \in overlapped
                                 /\ j \in mixed' <=> j \in mixed
                                 /\ j \in later' <=> j \in later
        /\ overlapped' \subseteq Leds /\ mixed' \subseteq Leds /\ later' \subseteq Leds
        /\ l \in overlapped' <=> On(l) # {}
        /\ l \in mixed => l \in mixed'
        /\ On(l) # {} /\ (\E k \in On(l) : k.at \in BlinkPoints) => l \in mixed'
        /\ later' = later
    BY <1>1, <2>1, CallBegun
  <2>3. PICK n \in Call :
          /\ n.led = l /\ n.by = "shutdown" /\ n.at = "level" /\ n.value = 0
          /\ calls' = calls \cup {n} /\ On(l)' = On(l) \cup {n}
    BY <1>1, <2>1, CallBegun
  <2>4. l \in registered /\ l \notin later BY <1>1, <1>2 DEF LedsInPlace, LedsTypeOK
  <2>5. LedsTypeOK' BY <1>1, <1>2, <2>2 DEF LedsTypeOK
  <2>6. LedsInPlace' BY <1>1, <1>2, <2>2, <2>3, <2>4 DEF LedsInPlace
  <2>7. \A j \in Leds \ {l} : Keeps(j) BY <1>2, <1>3, <2>2 DEF Keeps
  <2>8. Sound(l)'
    <3> USE DEF SetPoints, BlinkPoints
    <3>1. MeetingsSeen(l)' BY <2>2, <2>3 DEF MeetingsSeen
    <3>2. SetsBrightness(l)' BY <2>2, <2>3 DEF SetsBrightness
    <3>3. SwitchesOff(l)'
      BY <1>1, <1>2, <1>3, <1>6, <2>2, <2>3, <2>4 DEF Sound, SwitchesOff
    <3>4. MarkKept(l)' BY <1>1, <1>2, <2>2, <2>3 DEF Sound, MarkKept
    <3>5. Shows(l)'
      <4>1. ~ AtRest(l)' BY <2>3 DEF AtRest
      <4> QED BY <1>1, <1>2, <1>3, <4>1 DEF Sound, Shows
    <3>6. Dark(l)' BY <2>3 DEF Dark
    <3> QED BY <3>1, <3>2, <3>3, <3>4, <3>5, <3>6 DEF Sound
  <2> QED BY <1>2, <1>4, <2>5, <2>6, <2>7, <2>8, OneLedStep
<1> QED BY <1>5, <1>6

-----------------------------------------------------------------------------
LEMMA BankStep == BankInv /\ [Next]_vars => BankInv'
<1> SUFFICES ASSUME BankInv, [Next]_vars PROVE BankInv'
  OBVIOUS
<1>1. CASE UNCHANGED vars
  <2>1. UNCHANGED <<bank, hw1, hw2, leds>> BY <1>1 DEF vars
  <2>2. Hw1TypeOK' /\ Hw2TypeOK' /\ Hw1InPlace' /\ Hw2InPlace'
    BY <2>1 DEF BankInv, Hw1TypeOK, Hw2TypeOK, Hw1InPlace, Hw2InPlace, hw1, hw2
  <2>3. BankTypeOK' /\ LoadCurrent' BY <2>1, BankKept
  <2>4. LedsTypeOK' /\ LedsInPlace' /\ \A l \in Leds : Sound(l)'
    BY <2>1, OthersStep DEF bank, hw1
  <2> QED BY <2>2, <2>3, <2>4 DEF BankInv
<1>2. CASE LedsNext /\ UNCHANGED <<hw1, hw2>>
  <2>1. ASSUME NEW k \in calls, CallNext(k) PROVE BankInv'
    BY <1>2, <2>1, ComputeLevelStep, TestBlinkingStep, PutLevelStep, EndBlinkStep,
       ClearBlinkingStep, MarkBlinkingStep, TestModeStep, FlashStep, WorkTestStep
       DEF CallNext
  <2>2. ASSUME NEW l \in Leds,
               create_gpio_led(l) \/ UserNext(l) \/ WorkBegin(l) \/ ShutdownNext(l)
        PROVE  BankInv'
    BY <1>2, <2>2, CreateStep, UserStep, ShutdownNextStep
  <2>3. CASE LedsProbe \/ LedsProbeFails \/ LedsUnload \/ ShutdownBegin \/ ShutdownEnd
    BY <1>2, <2>3, ProbeStep, UnregisterStep, ShutdownEdgesStep
  <2>4. ASSUME NEW t \in Texts, STORE_dndMode(t) PROVE BankInv'
    BY <1>2, <2>4, DndStep
  <2> QED BY <1>2, <2>1, <2>2, <2>3, <2>4 DEF LedsNext
<1> QED BY <1>1, <1>2, Hw1Step, Hw2Step DEF Next

(* leds-gpio.c: once nothing is under way that will set it, a registered   *)
(* LED shows the last brightness asked for, and its line is an output,     *)
(* however the steps of gpio_led_set, of the works, of writes of dndMode   *)
(* and of hw1's load and store interleave; the exceptions are an LED that  *)
(* blinks or that shutdown has switched off, one whose last calls          *)
(* overlapped, one whose last setting met a dndMode that is on, and one    *)
(* that was set between a load of hw1 and its store.                       *)
THEOREM BrightnessCorrect == Spec => []LedShowsBrightness
<1>1. BankInv => LedShowsBrightness
  BY DEF BankInv, LedsTypeOK, Sound, Shows, LedShowsBrightness
<1> QED BY <1>1, BankInitInv, BankStep, PTL DEF Spec

(* leds-gpio.c: an LED that the board makes blink is marked, so that the   *)
(* next gpio_led_set ends the blinking, unless gpio_blink_set has met      *)
(* another call of that LED.                                               *)
THEOREM BlinkingCorrect == Spec => []BlinkingIsMarked
<1>1. BankInv => BlinkingIsMarked
  BY DEF BankInv, LedsTypeOK, Sound, MarkKept, BlinkingIsMarked
<1> QED BY <1>1, BankInitInv, BankStep, PTL DEF Spec

(* leds-gpio.c: after gpio_led_shutdown no LED is on and none blinks but   *)
(* those to be retained, those that a user, a trigger, a timer or a work   *)
(* used again after the loop came to them or while it set them, those hw1  *)
(* has stored an old value for, and, blinking, those without their mark.   *)
THEOREM ShutdownCorrect == Spec => []DarkAfterShutdown
<1>1. BankInv => DarkAfterShutdown
  <2> SUFFICES ASSUME BankInv, leds_pc = "down",
                      NEW l \in children \ (retain \cup later \cup overlapped)
               PROVE  (level[l] = 0 \/ l \in garbled) /\ (l \notin flashing \/ l \in mixed)
    BY DEF DarkAfterShutdown
  <2>1. l \in Leds /\ left = {} /\ Sound(l) BY DEF BankInv, LedsTypeOK, LedsInPlace
  <2>2. \A k \in On(l) : k.by # "shutdown" BY <2>1 DEF Sound, SwitchesOff
  <2>3. (level[l] = 0 \/ l \in garbled) /\ l \notin blinking
    BY <2>1, <2>2 DEF Sound, Dark
  <2> QED BY <2>1, <2>3 DEF Sound, MarkKept
<1> QED BY <1>1, BankInitInv, BankStep, PTL DEF Spec

(* hw1.c, hw2.c: the thread ends before the registers are unmapped and the *)
(* handler before hw2_exit returns, also if hw2 is loaded again after an   *)
(* init that failed.                                                       *)
THEOREM HandlersGone == Spec => []NoCodeAfterExit
<1>1. BankInv => NoCodeAfterExit
  BY DEF BankInv, Hw1InPlace, Hw2InPlace, NoCodeAfterExit
<1> QED BY <1>1, BankInitInv, BankStep, PTL DEF Spec

=============================================================================
