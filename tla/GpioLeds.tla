------------------------------ MODULE GpioLeds ------------------------------
(***************************************************************************)
(* The LED driver of HW13: the kernel's leds-gpio.c with a class attribute *)
(* dndMode ("do not disturb").  No lock is held in gpio_led_set and        *)
(* gpio_blink_set: whoever calls them for one LED (users, its trigger, the *)
(* timer of the LED class that blinks by software, its work, shutdown)     *)
(* may come between any two of their steps.                                *)
(*                                                                         *)
(* The LED class is modelled by what the driver relies on: it remembers    *)
(* the last brightness; an LED whose line can sleep is set by a work, one  *)
(* per LED, which takes the last brightness when it begins; unregistering  *)
(* waits for calls, switches the LED off and flushes the work.             *)
(***************************************************************************)
EXTENDS GpioBank

CONSTANTS
  Setters,   \* users, triggers and timers; each calls for one LED at a time
  Platform,  \* the board gives platform data with gpio_blink_set, no device tree
  Texts      \* what users write to dndMode

ASSUME LedsAssumption ==
  Platform \in BOOLEAN /\ "work" \notin Setters /\ "shutdown" \notin Setters

(* kstrtoint(buf, 2, &dndMode): the texts that are numbers to base 2 *)
kstrtoint == [t \in {"-1", "0", "1", "11"} |->
                CASE t = "-1" -> -1 [] t = "0" -> 0 [] t = "1" -> 1 [] t = "11" -> 3]

VARIABLES
  children,     \* the LEDs of the device, its child nodes
  leds_pc,      \* driver: "out", "probe", "bound", "failed", "closing", "down"
  class,        \* gpioLedsClass: "none", "attr" with the attribute, or "bare"
  registered,   \* LEDs that are registered with the LED class
  can_sleep,    \* LEDs whose line can sleep
  retain,       \* LEDs with LED_RETAIN_AT_SHUTDOWN
  left,         \* LEDs that the loop of shutdown has not come to
  dndMode,
  brightness,   \* LED class: last brightness asked for
  queued,       \* works of the LED class that are queued
  blinking,     \* led_dat->blinking
  flashing,     \* LEDs that the board makes blink
  calls,        \* the calls of gpio_led_set and gpio_blink_set in progress
  hushed,       \* history: LEDs whose last setting met a mode that is on
  overlapped,   \* history: LEDs whose last call met another one in progress
  mixed,        \* history: LEDs for which gpio_blink_set met another call
  later         \* history: LEDs used again after shutdown came to them

device == <<children, leds_pc, class, registered, can_sleep, retain, left>>
met == <<overlapped, mixed, later>>
leds == <<device, dndMode, brightness, queued, blinking, flashing, calls, hushed, met>>

(* A call: its LED, its caller, what it does next, and the value asked     *)
(* for, from line 92 on the level computed.                                *)
SetPoints == {"level", "test", "put", "blink", "clear"}
BlinkPoints == {"mark", "mode", "flash"}
Call == [led : Leds, by : Setters \cup {"work", "shutdown"},
         at : {"work"} \cup SetPoints \cup BlinkPoints, value : {0, 1}]

LedsTypeOK ==
  /\ children \subseteq Leds
  /\ leds_pc \in {"out", "probe", "bound", "failed", "closing", "down"}
  /\ class \in {"none", "attr", "bare"} /\ dndMode \in Int
  /\ registered \subseteq children /\ retain \subseteq registered
  /\ can_sleep \subseteq registered \ OnChip /\ left \subseteq children
  /\ brightness \in [Leds -> {0, 1}] /\ queued \subseteq can_sleep
  /\ blinking \subseteq Leds /\ flashing \subseteq Leds
  /\ calls \subseteq Call
  /\ hushed \subseteq Leds /\ overlapped \subseteq Leds /\ mixed \subseteq Leds
  /\ later \subseteq Leds

LedsInit ==
  /\ children = {} /\ leds_pc = "out" /\ class = "none" /\ registered = {}
  /\ can_sleep = {} /\ retain = {} /\ left = {} /\ dndMode = 0
  /\ brightness = [l \in Leds |-> 0] /\ queued = {}
  /\ blinking = {} /\ flashing = {} /\ calls = {}
  /\ hushed = {} /\ overlapped = {} /\ mixed = {} /\ later = {}

-----------------------------------------------------------------------------
(* A call begins, goes on, returns. *)

On(l) == {k \in calls : k.led = l}

Begin(l, c, point, value) ==
  /\ calls' = calls \cup {[led |-> l, by |-> c, at |-> point, value |-> value]}
  /\ overlapped' = IF On(l) = {} THEN overlapped \ {l} ELSE overlapped \cup {l}
  /\ mixed' = IF /\ On(l) # {}
                 /\ point = "mark" \/ \E k \in On(l) : k.at \in BlinkPoints
              THEN mixed \cup {l} ELSE mixed
  /\ later' = IF c # "shutdown" /\ leds_pc \in {"closing", "down"} /\ l \notin left
              THEN later \cup {l} ELSE later

GoOn(k, point) == calls' = (calls \ {k}) \cup {[k EXCEPT !.at = point]}
Return(k) == calls' = calls \ {k}

-----------------------------------------------------------------------------
(* gpio_led_set *)

(* Variant that looks at dndMode first, also to switch off. *)
LevelsDndFirst(value) == IF dndMode # 0 THEN {0, 1} ELSE {value}

(* The levels that gpio_led_set may compute; an LED that is to be lit in a *)
(* mode other than 0 has its level uninitialised.                          *)
Levels(value) ==
  IF value = 0 THEN {0} ELSE IF dndMode = 0 THEN {1} ELSE {0, 1}

(* level is computed *)
ComputeLevel(k) ==
  /\ k.at = "level"
  /\ \E v \in Levels(k.value) :
       calls' = (calls \ {k}) \cup {[k EXCEPT !.at = "test", !.value = v]}
  /\ hushed' = IF k.value # 0 /\ dndMode # 0 THEN hushed \cup {k.led} ELSE hushed \ {k.led}
  /\ UNCHANGED <<bank, device, dndMode, brightness, queued, blinking, flashing, met>>

(* if (led_dat->blinking) *)
TestBlinking(k) ==
  /\ k.at = "test"
  /\ GoOn(k, IF k.led \in blinking THEN "blink" ELSE "put")
  /\ UNCHANGED <<bank, device, dndMode, brightness, queued, blinking, flashing, hushed,
                 met>>

(* gpiod_set_value or gpiod_set_value_cansleep *)
PutLevel(k) ==
  /\ k.at = "put"
  /\ gpiod_set_value(k.led, k.value)
  /\ Return(k)
  /\ UNCHANGED <<outputs, btn, turned, device, dndMode, brightness, queued, blinking,
                 flashing, hushed, met>>

(* Variant that switches the LED off whatever it was asked for. *)
EndBlinkLow(k) ==
  /\ k.at = "blink"
  /\ gpiod_set_value(k.led, 0) /\ flashing' = flashing \ {k.led}
  /\ GoOn(k, "clear")
  /\ UNCHANGED <<outputs, btn, turned, device, dndMode, brightness, queued, blinking,
                 hushed, met>>

(* platform_gpio_blink_set(level): blinking ends *)
EndBlink(k) ==
  /\ k.at = "blink"
  /\ gpiod_set_value(k.led, k.value) /\ flashing' = flashing \ {k.led}
  /\ GoOn(k, "clear")
  /\ UNCHANGED <<outputs, btn, turned, device, dndMode, brightness, queued, blinking,
                 hushed, met>>

(* led_dat->blinking = 0 *)
ClearBlinking(k) ==
  /\ k.at = "clear"
  /\ blinking' = blinking \ {k.led}
  /\ Return(k)
  /\ UNCHANGED <<bank, device, dndMode, brightness, queued, flashing, hushed, met>>

-----------------------------------------------------------------------------
(* gpio_blink_set *)

(* Variant that marks the LED only in a mode that lets it blink. *)
MarkInMode(k) ==
  /\ k.at = "mark"
  /\ blinking' = IF dndMode < 1 THEN blinking \cup {k.led} ELSE blinking
  /\ GoOn(k, "mode")
  /\ UNCHANGED <<bank, device, dndMode, brightness, queued, flashing, hushed, met>>

(* led_dat->blinking = 1 *)
MarkBlinking(k) ==
  /\ k.at = "mark"
  /\ blinking' = blinking \cup {k.led}
  /\ GoOn(k, "mode")
  /\ UNCHANGED <<bank, device, dndMode, brightness, queued, flashing, hushed, met>>

(* if (dndMode < 1) *)
TestMode(k) ==
  /\ k.at = "mode"
  /\ IF dndMode < 1 THEN GoOn(k, "flash") ELSE Return(k)
  /\ UNCHANGED <<bank, device, dndMode, brightness, queued, blinking, flashing, hushed,
                 met>>

(* platform_gpio_blink_set(GPIO_LED_BLINK) *)
Flash(k) ==
  /\ k.at = "flash"
  /\ flashing' = flashing \cup {k.led}
  /\ Return(k)
  /\ UNCHANGED <<bank, device, dndMode, brightness, queued, blinking, hushed, met>>

-----------------------------------------------------------------------------
(* gpio_led_set_blocking, called by the work of the LED *)

WorkBegin(l) ==
  /\ l \in queued /\ \A k \in On(l) : k.by # "work"
  /\ queued' = queued \ {l}
  /\ Begin(l, "work", "work", brightness[l])
  /\ UNCHANGED <<bank, device, dndMode, brightness, blinking, flashing, hushed>>

(* if (dndMode < 1); the mode may change before gpio_led_set looks again *)
WorkTest(k) ==
  /\ k.at = "work"
  /\ \/ dndMode < 1 /\ GoOn(k, "level") /\ UNCHANGED hushed
     \/ dndMode >= 1 /\ Return(k) /\ hushed' = hushed \cup {k.led}
  /\ UNCHANGED <<bank, device, dndMode, brightness, queued, blinking, flashing, met>>

-----------------------------------------------------------------------------
(* Users, triggers and timers.  Shutdown stops none of them. *)

Usable(l, c) == l \in registered /\ \A k \in calls : k.by # c

(* brightness of an LED that cannot sleep *)
SetNow(l, c, value) ==
  /\ Usable(l, c) /\ l \notin can_sleep
  /\ brightness' = [brightness EXCEPT ![l] = value]
  /\ Begin(l, c, "level", value)
  /\ UNCHANGED <<bank, device, dndMode, queued, blinking, flashing, hushed>>

(* brightness of one that can: the work is scheduled *)
SetLater(l, value) ==
  /\ l \in registered \cap can_sleep
  /\ brightness' = [brightness EXCEPT ![l] = value]
  /\ queued' = queued \cup {l}
  /\ UNCHANGED <<bank, device, dndMode, blinking, flashing, calls, hushed, met>>

(* cdev.blink_set, which create_gpio_led gives to LEDs of platform data *)
Blink(l, c) ==
  /\ Platform /\ Usable(l, c)
  /\ Begin(l, c, "mark", 0)
  /\ UNCHANGED <<bank, device, dndMode, brightness, queued, blinking, flashing, hushed>>

(* STORE_dndMode: a text that is no number leaves the mode as it is *)
STORE_dndMode(t) ==
  /\ class = "attr" /\ leds_pc # "out"
  /\ dndMode' = IF t \in DOMAIN kstrtoint THEN kstrtoint[t] ELSE dndMode
  /\ UNCHANGED <<bank, device, brightness, queued, blinking, flashing, calls, hushed,
                 met>>

-----------------------------------------------------------------------------
(* gpio_led_probe, gpio_leds_create, create_gpio_led *)

(* class_create and class_create_file.  A class that an earlier module     *)
(* left behind makes class_create fail, and probe uses the error pointer:  *)
(* undefined and not modelled.                                             *)
LedsProbe ==
  /\ leds_pc = "out" /\ class = "none"
  /\ leds_pc' = "probe" /\ class' = "attr"
  /\ children' \in SUBSET Leds \ {{}}
  /\ UNCHANGED <<bank, registered, can_sleep, retain, left, dndMode, brightness, queued,
                 blinking, flashing, calls, hushed, met>>

(* One LED: the state of its template, or the level it has ("keep"); the   *)
(* line becomes an output, the LED is registered and can be used.          *)
create_gpio_led(l) ==
  /\ leds_pc = "probe" /\ l \in children \ registered
  /\ \E state \in {0, 1} :     \* keep, on, off
       /\ gpiod_set_value(l, state)
       /\ brightness' = [brightness EXCEPT ![l] = state]
  /\ can_sleep' \in IF l \in OnChip THEN {can_sleep} ELSE {can_sleep, can_sleep \cup {l}}
  /\ retain' \in {retain, retain \cup {l}}
  /\ outputs' = outputs \cup {l} /\ turned' = turned \cup ({l} \cap OnChip)
  /\ registered' = registered \cup {l}
  /\ leds_pc' = IF registered' = children THEN "bound" ELSE "probe"
  /\ UNCHANGED <<btn, children, class, left, dndMode, queued, blinking, flashing, calls,
                 hushed, met>>

(* led_classdev_unregister of every LED: off unless it is to be retained.  *)
(* An LED that can sleep stays as it is in do-not-disturb mode.            *)
Unregister ==
  LET off == (registered \ retain) \ (IF dndMode < 1 THEN {} ELSE can_sleep)
  IN  /\ calls = {} /\ queued \cap retain = {}
      /\ level' = [i \in Lines |-> IF i \in off THEN 0 ELSE level[i]]
      /\ switched' = switched \cup (off \cap OnChip) /\ garbled' = garbled \ off
      /\ flashing' = flashing \ (off \cap blinking) /\ blinking' = blinking \ off
      /\ brightness' = [l \in Leds |-> IF l \in registered \ retain THEN 0 ELSE brightness[l]]
      /\ registered' = {} /\ can_sleep' = {} /\ retain' = {} /\ queued' = {}

(* an LED that has no line or cannot be registered: devm undoes the others *)
LedsProbeFails ==
  /\ leds_pc = "probe" /\ Unregister
  /\ leds_pc' = "failed"
  /\ UNCHANGED <<outputs, btn, turned, children, class, left, dndMode, calls, hushed,
                 met>>

(* rmmod: there is no remove, so the class stays, with the attribute *)
LedsUnload ==
  /\ leds_pc \in {"bound", "failed"} /\ Unregister
  /\ leds_pc' = "out"
  /\ UNCHANGED <<outputs, btn, turned, children, class, left, dndMode, calls, hushed,
                 met>>

-----------------------------------------------------------------------------
(* gpio_led_shutdown; the loop takes the LEDs in an order that the model   *)
(* leaves open *)

ShutdownBegin ==
  /\ leds_pc = "bound"
  /\ leds_pc' = "closing" /\ left' = children
  /\ UNCHANGED <<bank, children, class, registered, can_sleep, retain, dndMode,
                 brightness, queued, blinking, flashing, calls, hushed, met>>

(* Variant that passes over an LED that blinks. *)
ShutdownSkips(l) ==
  /\ leds_pc = "closing" /\ l \in left /\ \A k \in calls : k.by # "shutdown"
  /\ left' = left \ {l}
  /\ IF l \in retain \cup blinking THEN UNCHANGED <<calls, met>>
                                   ELSE Begin(l, "shutdown", "level", 0)
  /\ UNCHANGED <<bank, children, leds_pc, class, registered, can_sleep, retain, dndMode,
                 brightness, queued, blinking, flashing, hushed>>

(* gpio_led_set(LED_OFF) of an LED that need not be retained *)
ShutdownNext(l) ==
  /\ leds_pc = "closing" /\ l \in left /\ \A k \in calls : k.by # "shutdown"
  /\ left' = left \ {l}
  /\ IF l \in retain THEN UNCHANGED <<calls, met>> ELSE Begin(l, "shutdown", "level", 0)
  /\ UNCHANGED <<bank, children, leds_pc, class, registered, can_sleep, retain, dndMode,
                 brightness, queued, blinking, flashing, hushed>>

(* class_remove_file *)
ShutdownEnd ==
  /\ leds_pc = "closing" /\ left = {} /\ \A k \in calls : k.by # "shutdown"
  /\ leds_pc' = "down" /\ class' = "bare"
  /\ UNCHANGED <<bank, children, registered, can_sleep, retain, left, dndMode,
                 brightness, queued, blinking, flashing, calls, hushed, met>>

-----------------------------------------------------------------------------
CallNext(k) ==
  \/ ComputeLevel(k) \/ TestBlinking(k) \/ PutLevel(k) \/ EndBlink(k) \/ ClearBlinking(k)
  \/ MarkBlinking(k) \/ TestMode(k) \/ Flash(k) \/ WorkTest(k)

UserNext(l) ==
  \/ \E c \in Setters : Blink(l, c) \/ \E value \in {0, 1} : SetNow(l, c, value)
  \/ \E value \in {0, 1} : SetLater(l, value)

LedsNext ==
  \/ \E k \in calls : CallNext(k)
  \/ \E l \in Leds : create_gpio_led(l) \/ UserNext(l) \/ WorkBegin(l) \/ ShutdownNext(l)
  \/ LedsProbe \/ LedsProbeFails \/ LedsUnload \/ ShutdownBegin \/ ShutdownEnd
  \/ \E t \in Texts : STORE_dndMode(t)

=============================================================================
