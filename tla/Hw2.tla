-------------------------------- MODULE Hw2 --------------------------------
(***************************************************************************)
(* hw2.c of HW15: the button's rising edge runs hw2_btn_isr in an          *)
(* interrupt thread, which switches the LED to led_on; led_on is 0 and     *)
(* nothing changes it.  Init gives nothing back when it fails.             *)
(***************************************************************************)
EXTENDS GpioBank

CONSTANT MaxLoads   \* bound: insmod calls of hw2
ASSUME Hw2Assumption == MaxLoads \in Nat

VARIABLES
  hw2_pc,   \* module: "out", where init or exit is, or "in"
  hw2_loads,
  held,     \* "btn", "irq" and "led", what hw2 has requested and not freed;
            \* "orphan" for the interrupt of a module that is gone
  isr       \* the interrupt thread has hw2_btn_isr to run

hw2 == <<hw2_pc, hw2_loads, held, isr>>

Hw2TypeOK ==
  /\ hw2_pc \in {"out", "irq", "led", "in", "free"}
  /\ hw2_loads \in 0 .. MaxLoads
  /\ held \subseteq {"btn", "irq", "led", "orphan"} /\ isr \in BOOLEAN

Hw2Init == hw2_pc = "out" /\ hw2_loads = 0 /\ held = {} /\ isr = FALSE

-----------------------------------------------------------------------------
(* hw2_init: gpio_free(BTN_GPIO) of whoever has it, then gpio_request *)
Hw2Load ==
  /\ hw2_pc = "out" /\ hw2_loads < MaxLoads
  /\ hw2_loads' = hw2_loads + 1
  /\ \/ hw2_pc' = "irq" /\ held' = held \cup {"btn"}
     \/ hw2_pc' = "out" /\ held' = held \ {"btn"}
  /\ UNCHANGED <<bank, isr>>

(* request_threaded_irq: fails if a failed init has left it requested *)
Hw2Irq ==
  /\ hw2_pc = "irq"
  /\ \/ hw2_pc' = "led" /\ "orphan" \notin held /\ held' = held \cup {"irq"}
     \/ hw2_pc' = "out" /\ UNCHANGED held
  /\ UNCHANGED <<bank, hw2_loads, isr>>

(* gpio_request(LED_GPIO) and gpio_direction_output(LED_GPIO, led_on) *)
Hw2Led ==
  /\ hw2_pc = "led"
  /\ hw2_pc' = "in" /\ held' = held \cup {"led"}
  /\ outputs' = outputs \cup {LED_LINE}
  /\ level' = [level EXCEPT ![LED_LINE] = 0]
  /\ UNCHANGED <<btn, switched, turned, garbled, hw2_loads, isr>>

(* the LED is taken: -EINVAL with the interrupt requested *)
Hw2LedBusy ==
  /\ hw2_pc = "led"
  /\ hw2_pc' = "out" /\ held' = (held \ {"irq"}) \cup {"orphan"}
  /\ UNCHANGED <<bank, hw2_loads, isr>>

(* The button: its rising edge is the release. *)
Button ==
  /\ btn' = 1 - btn
  /\ isr' = (isr \/ (btn = 0 /\ "irq" \in held))
  /\ UNCHANGED <<level, outputs, switched, turned, garbled, hw2_pc, hw2_loads, held>>

(* hw2_btn_isr.  What an orphan does is undefined and not modelled. *)
Isr ==
  /\ isr /\ "orphan" \notin held
  /\ isr' = FALSE
  /\ level' = [level EXCEPT ![LED_LINE] = 0]
  /\ UNCHANGED <<outputs, btn, switched, turned, garbled, hw2_pc, hw2_loads, held>>

(* hw2_exit: free_irq; no handler starts from here on *)
Hw2Exit ==
  /\ hw2_pc = "in"
  /\ hw2_pc' = "free" /\ held' = held \ {"irq"}
  /\ UNCHANGED <<bank, hw2_loads, isr>>

(* Variant: free_irq does not wait. *)
Hw2FreedNoWait ==
  /\ hw2_pc = "free"
  /\ hw2_pc' = "out" /\ held' = {}
  /\ UNCHANGED <<bank, hw2_loads, isr>>

(* free_irq returns when the handler has ended; both lines are freed *)
Hw2Freed ==
  /\ hw2_pc = "free" /\ ~ isr
  /\ hw2_pc' = "out" /\ held' = {}
  /\ UNCHANGED <<bank, hw2_loads, isr>>

Hw2Next ==
  \/ Hw2Load \/ Hw2Irq \/ Hw2Led \/ Hw2LedBusy
  \/ Button \/ Isr \/ Hw2Exit \/ Hw2Freed

=============================================================================
