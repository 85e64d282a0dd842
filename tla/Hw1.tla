-------------------------------- MODULE Hw1 --------------------------------
(***************************************************************************)
(* hw1.c of HW15: a kernel thread polls the button through the mapped      *)
(* registers and switches the LED by loading, changing and storing the     *)
(* whole of GPIO1_DATAOUT; init does the same to GPIO1_OE.                 *)
(***************************************************************************)
EXTENDS GpioBank

VARIABLES
  hw1_pc,    \* module: "out", "load", "store", "run" (in init), "in", "stop"
  mapped,    \* btn_gpio and led_gpio are mapped
  thread,    \* control point of hw1_thread
  btn_val,
  val,       \* the register as loaded: lines that are 1, or outputs
  undone     \* history: LEDs made outputs between init's load and its store

hw1 == <<hw1_pc, mapped, thread, btn_val, val, undone>>

Hw1TypeOK ==
  /\ hw1_pc \in {"out", "load", "store", "run", "in", "stop"}
  /\ mapped \in BOOLEAN
  /\ thread \in {"none", "test", "load", "store", "sleep"}
  /\ btn_val \in {0, 1} /\ val \subseteq Lines /\ undone \subseteq Leds

Hw1Init ==
  /\ hw1_pc = "out" /\ mapped = FALSE /\ thread = "none"
  /\ btn_val = 1 /\ val = {} /\ undone = {}

(* The lines of the bank that are on. *)
DataOut == {i \in OnChip \cup {LED_LINE} : level[i] = 1}

-----------------------------------------------------------------------------
(* hw1_init *)

(* hw1_mux_pins, and hw1_setup_gpio up to BTN and the clocks *)
Hw1Load ==
  /\ hw1_pc = "out"
  /\ hw1_pc' = "load"
  /\ UNCHANGED <<bank, mapped, thread, btn_val, val, undone>>

(* val = ioread32(GPIO1_OE) *)
SetupLoad ==
  /\ hw1_pc = "load"
  /\ val' = outputs \cap (OnChip \cup {LED_LINE}) /\ turned' = {}
  /\ hw1_pc' = "store"
  /\ UNCHANGED <<level, outputs, btn, switched, garbled, mapped, thread, btn_val, undone>>

(* val &= ~LED_LINE; iowrite32(val): a line made an output since the load  *)
(* is an input again.                                                      *)
SetupStore ==
  /\ hw1_pc = "store"
  /\ outputs' = (outputs \ OnChip) \cup val \cup {LED_LINE}
  /\ undone' = undone \cup turned
  /\ val' = {} /\ hw1_pc' = "run"
  /\ UNCHANGED <<level, btn, switched, turned, garbled, mapped, thread, btn_val>>

(* the two ioremap and kthread_run; err1 unmaps *)
Hw1Run ==
  /\ hw1_pc = "run"
  /\ \/ hw1_pc' = "in" /\ mapped' = TRUE /\ thread' = "test"
     \/ hw1_pc' = "out" /\ UNCHANGED <<mapped, thread>>
  /\ UNCHANGED <<bank, btn_val, val, undone>>

-----------------------------------------------------------------------------
(* hw1_thread_func; the first test is that of the kernel's kthread() *)

(* kthread_should_stop, and btn_val = ioread32(btn_gpio) *)
ThreadTest ==
  /\ thread = "test"
  /\ IF hw1_pc = "stop" THEN thread' = "none" /\ UNCHANGED btn_val
                        ELSE thread' = "load" /\ btn_val' = btn
  /\ UNCHANGED <<bank, hw1_pc, mapped, val, undone>>

(* led_val = ioread32(led_gpio) *)
ThreadLoad ==
  /\ thread = "load"
  /\ val' = DataOut /\ switched' = {}
  /\ thread' = "store"
  /\ UNCHANGED <<level, outputs, btn, turned, garbled, hw1_pc, mapped, btn_val, undone>>

(* Variant that writes the LED's bit alone, the others as 0. *)
StoredBit(i) ==
  IF i = LED_LINE THEN 1 - btn_val ELSE IF i \in OnChip THEN 0 ELSE level[i]

(* Variant with the two cases of the button swapped. *)
StoredSwapped(i) ==
  IF i = LED_LINE THEN btn_val
  ELSE IF i \in OnChip THEN (IF i \in val THEN 1 ELSE 0) ELSE level[i]

(* What the store leaves on a line: on that of the LED what the button     *)
(* asks for, on the others of the bank what was loaded.                    *)
Stored(i) ==
  IF i = LED_LINE THEN 1 - btn_val
  ELSE IF i \in OnChip THEN (IF i \in val THEN 1 ELSE 0) ELSE level[i]

(* iowrite32(led_val, led_gpio).  The two locals are dead from here on and *)
(* reset.                                                                  *)
ThreadStore ==
  /\ thread = "store"
  /\ level' = [i \in Lines |-> Stored(i)]
  /\ garbled' = garbled \cup switched
  /\ thread' = "sleep" /\ val' = {} /\ btn_val' = 1
  /\ UNCHANGED <<outputs, btn, switched, turned, hw1_pc, mapped, undone>>

(* msleep(100) ends *)
ThreadSlept ==
  /\ thread = "sleep"
  /\ thread' = "test"
  /\ UNCHANGED <<bank, hw1_pc, mapped, btn_val, val, undone>>

ThreadNext == ThreadTest \/ ThreadLoad \/ ThreadStore \/ ThreadSlept

-----------------------------------------------------------------------------
(* hw1_exit *)

(* kthread_stop *)
Hw1Exit ==
  /\ hw1_pc = "in"
  /\ hw1_pc' = "stop"
  /\ UNCHANGED <<bank, mapped, thread, btn_val, val, undone>>

(* Variant that unmaps without waiting for the thread. *)
Hw1UnmapFirst ==
  /\ hw1_pc = "stop"
  /\ mapped' = FALSE /\ hw1_pc' = "out"
  /\ UNCHANGED <<bank, thread, btn_val, val, undone>>

(* kthread_stop returns; iounmap *)
Hw1Stopped ==
  /\ hw1_pc = "stop" /\ thread = "none"
  /\ mapped' = FALSE /\ hw1_pc' = "out"
  /\ UNCHANGED <<bank, thread, btn_val, val, undone>>

Hw1Next ==
  \/ Hw1Load \/ SetupLoad \/ SetupStore \/ Hw1Run
  \/ ThreadNext \/ Hw1Exit \/ Hw1Stopped

=============================================================================
