------------------------------ MODULE GpioBank ------------------------------
(***************************************************************************)
(* GPIO bank 1 of the board and the button on bank 0, as the modules of    *)
(* HW15 (hw1.c, hw2.c) and the LED driver of HW13 (leds-gpio.c) use them.  *)
(* The GPIO driver of the kernel changes single lines; hw1 writes the      *)
(* registers as a whole.                                                   *)
(***************************************************************************)
EXTENDS Integers

CONSTANTS
  Leds,     \* the LEDs of leds-gpio.c
  OnChip    \* those that are lines of bank 1; the others are on an expander

LED_LINE == "gpio1_15"   \* the LED of hw1 and hw2
Lines == Leds \cup {LED_LINE}

ASSUME BankAssumption == LED_LINE \notin Leds /\ OnChip \subseteq Leds

VARIABLES
  level,     \* what each line puts out (GPIO1_DATAOUT)
  outputs,   \* lines that are outputs (GPIO1_OE)
  btn,       \* the button line, 0 while pressed
  switched,  \* history: LEDs of the bank set since hw1 last loaded DATAOUT
  turned,    \* history: LEDs of the bank made outputs since hw1 loaded OE
  garbled    \* history: LEDs set between a load of hw1 and its store, and not since

bank == <<level, outputs, btn, switched, turned, garbled>>

BankTypeOK ==
  /\ level \in [Lines -> {0, 1}]
  /\ outputs \subseteq Lines
  /\ btn \in {0, 1}
  /\ switched \subseteq OnChip /\ turned \subseteq OnChip /\ garbled \subseteq OnChip

BankInit ==
  /\ level = [i \in Lines |-> 0]
  /\ outputs = {} /\ btn = 1
  /\ switched = {} /\ turned = {} /\ garbled = {}

(* gpiod_set_value of one LED, which leaves the other lines alone. *)
gpiod_set_value(l, value) ==
  /\ level' = [level EXCEPT ![l] = value]
  /\ switched' = switched \cup ({l} \cap OnChip)
  /\ garbled' = garbled \ {l}

=============================================================================
