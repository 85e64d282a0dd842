------------------------------- MODULE Bank1 -------------------------------
(***************************************************************************)
(* hw1, hw2 and the LED driver loaded side by side on one GPIO bank.  They *)
(* do not call each other; they meet in the bank's registers, in the LED   *)
(* of hw1 and hw2 and in the button.                                       *)
(***************************************************************************)
EXTENDS Hw1, Hw2, GpioLeds

vars == <<bank, hw1, hw2, leds>>

TypeOK == BankTypeOK /\ Hw1TypeOK /\ Hw2TypeOK /\ LedsTypeOK

Init == BankInit /\ Hw1Init /\ Hw2Init /\ LedsInit

(* Bound: what has no line in common is not loaded at the same time.  The  *)
(* LED driver meets hw1 on the lines of the bank, and hw2 not at all.      *)
Apart ==
  \/ class' = "none"
  \/ hw2_loads' = 0 /\ (children' \subseteq OnChip \/ hw1_pc' = "out")

Next ==
  \/ Hw1Next /\ UNCHANGED <<hw2, leds>> /\ Apart
  \/ Hw2Next /\ UNCHANGED <<hw1, leds>> /\ Apart
  \/ LedsNext /\ UNCHANGED <<hw1, hw2>> /\ Apart

Spec == Init /\ [][Next]_vars

(* The thread of hw1 is scheduled and its sleep ends. *)
Fairness == WF_vars(ThreadNext /\ UNCHANGED <<hw2, leds>>)
FairSpec == Spec /\ Fairness

-----------------------------------------------------------------------------
(* Nothing is under way that will set the LED. *)
AtRest(l) == l \notin queued /\ On(l) = {}

(* LEDs whose last setting is that of gpio_led_shutdown. *)
ShutOff ==
  IF leds_pc \in {"closing", "down"} THEN children \ (left \cup retain \cup later) ELSE {}

(* An LED that nobody is setting shows the last brightness asked for, also *)
(* when hw1 stored the whole register meanwhile, unless it blinks, or      *)
(* shutdown has switched it off; the exceptions are an LED whose last      *)
(* calls overlapped (gpio_led_set has no lock), one whose last setting met *)
(* a dndMode that is on (the work then sets nothing and gpio_led_set what  *)
(* it finds on its stack), and one that was set between a load of hw1 and  *)
(* its store.  Its line stays an output, with the like exception for hw1's *)
(* init.                                                                   *)
LedShowsBrightness ==
  \A l \in registered :
    /\ AtRest(l) => \/ level[l] = brightness[l]
                    \/ l \in blinking \cup ShutOff \cup overlapped \cup hushed \cup garbled
    /\ l \in outputs \cup undone

(* The board makes only such LEDs blink as are marked, so that gpio_led_set *)
(* will end it, also if the mode changes meanwhile; the exception is an    *)
(* LED for which gpio_blink_set has met another call, which may clear the  *)
(* mark before the board is asked to blink.                                *)
BlinkingIsMarked == flashing \subseteq blinking \cup mixed

(* Neither the thread of hw1 nor the handler of hw2 runs when its module   *)
(* is gone or the registers are unmapped.  (If the LED is taken, init of   *)
(* hw2 leaves the handler behind.)                                         *)
NoCodeAfterExit ==
  /\ thread # "none" => mapped /\ hw1_pc \in {"in", "stop"}
  /\ (isr \/ "irq" \in held) => hw2_pc # "out" \/ "orphan" \in held

(* After shutdown every LED that need not be retained is off, also in      *)
(* do-not-disturb mode and if it blinked.  Shutdown stops no trigger, timer *)
(* or work: the exceptions are LEDs used again after shutdown came to them *)
(* or while it set them, and those that hw1 has stored an old value for;   *)
(* and one that blinks without its mark goes on blinking.                  *)
DarkAfterShutdown ==
  leds_pc = "down" =>
    \A l \in children \ (retain \cup later \cup overlapped) :
      (level[l] = 0 \/ l \in garbled) /\ (l \notin flashing \/ l \in mixed)

(* While hw1 is loaded the LED follows the button, also against hw2's      *)
(* handler, which switches it off at each release.                         *)
LedFollowsButton ==
  \A b \in {0, 1} :
    (hw1_pc = "in" /\ btn = b)
      ~> (level[LED_LINE] = 1 - b \/ btn # b \/ hw1_pc # "in")

=============================================================================
