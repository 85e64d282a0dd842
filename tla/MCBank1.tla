------------------------------ MODULE MCBank1 ------------------------------
(***************************************************************************)
(* An instance of Bank1 for TLC: behaviours with an LED of the bank, which *)
(* meets hw1, and behaviours with one on an expander, which meets nobody.  *)
(***************************************************************************)
EXTENDS Bank1

CONSTANT Trigger   \* the caller beside hw1, and the one that makes an LED blink

(* Bound: beside hw1 nobody writes dndMode, nothing blinks, and one        *)
(* trigger sets the LED.                                                   *)
Beside ==
  /\ children' \subseteq OnChip /\ dndMode' = 0
  /\ \A k \in calls' : k.by \in {Trigger, "shutdown"} /\ k.at \notin BlinkPoints

(* Bound: an LED that is not on the bank is there before the button and    *)
(* hw1 do anything, and they then stay as they are; of the callers one     *)
(* makes the LED blink.                                                    *)
Alone ==
  /\ children' # {} /\ children' \cap OnChip = {}
  /\ btn' = 1 /\ level'[LED_LINE] = 0 /\ LED_LINE \notin outputs'
  /\ Hw1Init' /\ Hw2Init'
  /\ \A k \in calls' : k.at \in BlinkPoints => k.by = Trigger

MCNext == Next /\ (Beside \/ Alone)

MCSpec == Init /\ [][MCNext]_vars /\ Fairness

=============================================================================
