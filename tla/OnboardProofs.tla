--------------------------- MODULE OnboardProofs ---------------------------
(***************************************************************************)
(* Proofs about the button counter of HW7 beside the button poller of HW6, *)
(* for every number of presses, of writes to the debugfs file, of values   *)
(* written and of loads of the poller.                                     *)
(***************************************************************************)
EXTENDS OnboardIo, TLAPS

-----------------------------------------------------------------------------
(* The interrupt is requested from request_threaded_irq to free_irq, and   *)
(* the rest of what the module holds is given back by the end of exit.     *)
IrqHeld ==
  /\ "irq" \in held => mpc \in {"load1", "store1", "load20", "store20", "up", "free"}
  /\ mpc = "gone" => held = {}

(* The thread exists from request_threaded_irq on and ends within          *)
(* free_irq.                                                               *)
ThreadLife ==
  /\ mpc \in {"dir", "gpio", "irq"} => tpc = "none"
  /\ tpc = "none" => "irq" \notin held
  /\ tpc = "exited" => mpc \in {"wait", "rmdir", "gone"}
  /\ mpc \in {"rmdir", "gone"} => tpc = "exited"

(* A press is printed, or the thread is about to look at the count, or it  *)
(* has been woken and will look again.                                     *)
WakeupKept ==
  /\ ~ runthread /\ tpc # "run" => seen = presses
  /\ tpc \in {"none", "exited"} => ~ runthread

(* onboard_irq has the line from gpio_request to gpio_free.                *)
IrqLine ==
  /\ mpc \in {"irq", "load1", "store1", "load20", "store20", "up"} => button = "irq"
  /\ mpc \in {"dir", "gpio", "free", "wait", "rmdir", "gone"} => button # "irq"

(* onboard_io has it from its gpio_request to its gpio_free, and its timer *)
(* runs only in between and at most Times times.                           *)
IoLine ==
  /\ io_pc \in {"led", "timer", "in"} => button = "io"
  /\ io_pc \in {"led", "timer"} => times = Times
  /\ armed => io_pc = "in" /\ times > 0

IrqInv == IrqHeld /\ ThreadLife /\ WakeupKept
PairInv == IoTypeOK /\ IrqInv /\ IrqLine /\ IoLine

LEMMA PairInitInv == PairInit => PairInv
<1> SUFFICES ASSUME PairInit PROVE PairInv
  OBVIOUS
<1> USE OnboardIoAssumption DEF PairInit, Init, IoInit
<1>0. /\ simulate_busy \in BOOLEAN /\ runthread \in BOOLEAN /\ armed \in BOOLEAN
  OBVIOUS
<1>1. IoTypeOK BY <1>0 DEF IoTypeOK, TypeOK
<1>2. IrqInv BY DEF IrqInv, IrqHeld, ThreadLife, WakeupKept
<1>3. IrqLine /\ IoLine BY DEF IrqLine, IoLine
<1> QED BY <1>1, <1>2, <1>3 DEF PairInv

-----------------------------------------------------------------------------
(* Steps of onboard_irq.c. *)

(* They keep the types. *)
LEMMA IrqType ==
  ASSUME TypeOK, Next
  PROVE  TypeOK'
<1> USE OnboardAssumption DEF TypeOK, module, history
<1>1. CASE InitDir BY <1>1 DEF InitDir
<1>2. CASE InitButton BY <1>2 DEF InitButton
<1>3. CASE InitIrq BY <1>3 DEF InitIrq
<1>4. CASE InitLoad BY <1>4 DEF InitLoad
<1>5. CASE InitStore BY <1>5 DEF InitStore
<1>6. CASE gpio_irq_handler BY <1>6 DEF gpio_irq_handler
<1>7. CASE ThreadWake BY <1>7 DEF ThreadWake
<1>8. CASE ThreadFn BY <1>8 DEF ThreadFn
<1>9. CASE ThreadSlept BY <1>9 DEF ThreadSlept
<1>10. CASE ThreadExit BY <1>10 DEF ThreadExit
<1>11. CASE \E v \in Written : DebugfsWrite(v) BY <1>11 DEF DebugfsWrite
<1>12. CASE SetBusy BY <1>12 DEF SetBusy
<1>13. CASE ExitButton BY <1>13 DEF ExitButton
<1>14. CASE ExitIrq BY <1>14 DEF ExitIrq
<1>15. CASE ExitWait BY <1>15 DEF ExitWait
<1>16. CASE ExitDir BY <1>16 DEF ExitDir
<1> QED BY <1>1, <1>2, <1>3, <1>4, <1>5, <1>6, <1>7, <1>8, <1>9, <1>10, <1>11,
           <1>12, <1>13, <1>14, <1>15, <1>16
        DEF Next, InitNext, ThreadNext, ExitNext

(* They keep the protocol between handler, thread, init and exit. *)
LEMMA IrqKept ==
  ASSUME TypeOK, IrqInv, Next
  PROVE  IrqInv'
<1> USE OnboardAssumption
    DEF TypeOK, IrqInv, IrqHeld, ThreadLife, WakeupKept, module, history
<1>1. CASE InitDir BY <1>1 DEF InitDir
<1>2. CASE InitButton BY <1>2 DEF InitButton
<1>3. CASE InitIrq BY <1>3 DEF InitIrq
<1>4. CASE InitLoad BY <1>4 DEF InitLoad
<1>5. CASE InitStore BY <1>5 DEF InitStore
<1>6. CASE gpio_irq_handler BY <1>6 DEF gpio_irq_handler
<1>7. CASE ThreadWake BY <1>7 DEF ThreadWake
<1>8. CASE ThreadFn BY <1>8 DEF ThreadFn
<1>9. CASE ThreadSlept BY <1>9 DEF ThreadSlept
<1>10. CASE ThreadExit BY <1>10 DEF ThreadExit
<1>11. CASE \E v \in Written : DebugfsWrite(v) BY <1>11 DEF DebugfsWrite
<1>12. CASE SetBusy BY <1>12 DEF SetBusy
<1>13. CASE ExitButton BY <1>13 DEF ExitButton
<1>14. CASE ExitIrq BY <1>14 DEF ExitIrq
<1>15. CASE ExitWait BY <1>15 DEF ExitWait
<1>16. CASE ExitDir BY <1>16 DEF ExitDir
<1> QED BY <1>1, <1>2, <1>3, <1>4, <1>5, <1>6, <1>7, <1>8, <1>9, <1>10, <1>11,
           <1>12, <1>13, <1>14, <1>15, <1>16
        DEF Next, InitNext, ThreadNext, ExitNext

(* They take the line only when nobody has it, and free only their own. *)
LEMMA IrqLineKept ==
  ASSUME TypeOK, IrqLine, IoLine, Next, UNCHANGED io
  PROVE  IrqLine' /\ IoLine'
<1> USE DEF IrqLine, IoLine, io, module
<1>1. CASE InitButton BY <1>1 DEF InitButton
<1>2. CASE ExitButton BY <1>2 DEF ExitButton
<1>3. CASE InitDir \/ InitIrq \/ InitLoad \/ InitStore
  BY <1>3 DEF InitDir, InitIrq, InitLoad, InitStore
<1>4. CASE UNCHANGED module BY <1>4
<1>5. CASE ExitNext BY <1>5 DEF ExitNext, ExitIrq, ExitWait, ExitDir
<1> QED BY <1>1, <1>2, <1>3, <1>4, <1>5
        DEF Next, InitNext, ThreadNext, gpio_irq_handler, ThreadWake, ThreadFn,
            ThreadSlept, ThreadExit, DebugfsWrite, SetBusy

-----------------------------------------------------------------------------
(* Steps of onboard_io.c. *)

LEMMA IoStep ==
  ASSUME PairInv, IoNext, UNCHANGED irqvars
  PROVE  PairInv'
<1>1. IrqInv'
  BY DEF PairInv, IrqInv, IrqHeld, ThreadLife, WakeupKept, irqvars, history
<1> USE OnboardIoAssumption
    DEF PairInv, IoTypeOK, TypeOK, IrqLine, IoLine, irqvars, history
<1>2. CASE IoButton BY <1>1, <1>2 DEF IoButton
<1>3. CASE IoLed BY <1>1, <1>3 DEF IoLed
<1>4. CASE IoTimer BY <1>1, <1>4 DEF IoTimer
<1>5. CASE timer_callback
  <2>1. armed' \in BOOLEAN /\ (armed' => times # 1) BY <1>5 DEF timer_callback
  <2>2. times > 0 /\ times' = times - 1 /\ io_pc = "in" BY <1>5 DEF timer_callback
  <2> QED BY <1>1, <1>5, <2>1, <2>2 DEF timer_callback
<1>6. CASE IoExit BY <1>1, <1>6 DEF IoExit
<1> QED BY <1>2, <1>3, <1>4, <1>5, <1>6 DEF IoNext

LEMMA PairStep == PairInv /\ [PairNext]_<<vars, io>> => PairInv'
<1> SUFFICES ASSUME PairInv, [PairNext]_<<vars, io>> PROVE PairInv'
  OBVIOUS
<1>1. CASE UNCHANGED <<vars, io>>
  BY <1>1 DEF vars, io, module, history, PairInv, IoTypeOK, TypeOK, IrqInv, IrqHeld,
              ThreadLife, WakeupKept, IrqLine, IoLine
<1>2. CASE Next /\ UNCHANGED io
  <2>1. TypeOK /\ IrqInv /\ IrqLine /\ IoLine BY DEF PairInv, IoTypeOK
  <2>2. TypeOK' BY <1>2, <2>1, IrqType
  <2>3. IoTypeOK' BY <1>2, <2>2 DEF PairInv, IoTypeOK, io
  <2> QED BY <1>2, <2>1, <2>3, IrqKept, IrqLineKept DEF PairInv
<1> QED BY <1>1, <1>2, IoStep DEF PairNext

LEMMA PairImplies == PairInv => LatestPrinted /\ ExitClean /\ ButtonOwned
<1> SUFFICES ASSUME PairInv PROVE LatestPrinted /\ ExitClean /\ ButtonOwned
  OBVIOUS
<1> USE DEF PairInv, IrqInv
<1>1. LatestPrinted BY DEF WakeupKept, LatestPrinted
<1>2. ExitClean
  BY DEF ExitClean, ThreadLife, IrqHeld, WakeupKept, IrqLine
<1>3. ButtonOwned BY DEF ButtonOwned, IrqHeld, IrqLine, IoLine
<1> QED BY <1>1, <1>2, <1>3

-----------------------------------------------------------------------------
(* onboard_irq.c: an idle interrupt thread has printed after the last      *)
(* press, however many fell on one wake-up and whenever they came.         *)
THEOREM PrintCorrect == PairSpec => []LatestPrinted
BY PairImplies, PairInitInv, PairStep, PTL DEF PairSpec

(* onboard_irq.c: rmmod leaves no thread, no interrupt, no directory, no   *)
(* line and no press that was not printed.                                 *)
THEOREM ExitCorrect == PairSpec => []ExitClean
BY PairImplies, PairInitInv, PairStep, PTL DEF PairSpec

(* onboard_irq.c and onboard_io.c: neither module takes or frees the line  *)
(* of the other, whatever the order of their insmod and rmmod.             *)
THEOREM LineCorrect == PairSpec => []ButtonOwned
BY PairImplies, PairInitInv, PairStep, PTL DEF PairSpec

=============================================================================
