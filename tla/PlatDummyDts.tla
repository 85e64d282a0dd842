---------------------------- MODULE PlatDummyDts ----------------------------
(***************************************************************************)
(* The platform driver of HW11 (platform_test_dts.c) and its sender        *)
(* (send_data.c).  The driver polls the flag and prints the message of the *)
(* sender from the data area; a second work stores jiffies into the first  *)
(* word of the same area, for read_data.c to print.  Every run of the      *)
(* sender stores the same message and, unlike that of HW12, waits for      *)
(* nothing.                                                                *)
(*                                                                         *)
(* A byte of the data area is known by who stored it: 0 nobody, Sent the   *)
(* sender (the byte that belongs there), Jiffies the driver.               *)
(***************************************************************************)
EXTENDS DummyDevice

CONSTANTS
  MSG,      \* length of the message, 50 in the code
  WORD,     \* bytes of the word that the driver stores, 4
  MaxRuns,  \* bound: runs of the sender
  MaxBinds  \* bound: insmod calls

Sent == 1
Jiffies == 2

ASSUME DtsAssumption ==
  /\ {Sent, Jiffies} \subseteq Byte
  /\ MSG \in 1 .. MEM_SIZE /\ WORD \in 1 .. MEM_SIZE
  /\ MaxRuns \in Nat /\ MaxBinds \in Nat

VARIABLES
  spc, filled, runs,   \* sender: control point, bytes stored, runs begun
  ppc,         \* platform driver: control point of probe, remove and rmmod
  dts_loads,   \* insmod calls
  alive,       \* the driver's object for the device, devm memory, exists
  leaked,      \* history: probe failed with the read work already queued
  dts_pending, \* works that are queued or whose timer runs
  rpc, size, line,     \* read work: control point, bytes to print, bytes printed
  writing      \* the write work is being executed

sender == <<spc, filled, runs>>
driver == <<ppc, dts_loads, alive, leaked>>
reading == <<rpc, size, line>>
dtsvars == <<device, sender, driver, dts_pending, reading, writing>>

DtsTypeOK ==
  /\ DeviceTypeOK
  /\ spc \in {"idle", "fill", "count", "flag"}
  /\ filled \in 0 .. MSG /\ runs \in 0 .. MaxRuns
  /\ ppc \in {"out", "read_wq", "write_wq", "bound", "unbound",
              "cancel_read", "cancel_write"}
  /\ dts_loads \in 0 .. MaxBinds /\ alive \in BOOLEAN /\ leaked \in BOOLEAN
  /\ dts_pending \subseteq {"read", "write"} /\ writing \in BOOLEAN
  /\ rpc \in {"idle", "loop", "ack"} /\ size \in 0 .. MEM_SIZE
  /\ line \in Seq(Byte) /\ Len(line) <= size

DtsInit ==
  /\ DeviceInit
  /\ spc = "idle" /\ filled = 0 /\ runs = 0
  /\ ppc = "out" /\ dts_loads = 0 /\ alive = FALSE /\ leaked = FALSE
  /\ dts_pending = {} /\ writing = FALSE
  /\ rpc = "idle" /\ size = 0 /\ line = << >>

-----------------------------------------------------------------------------
(* send_data.c *)

SendStart ==
  /\ spc = "idle" /\ runs < MaxRuns
  /\ spc' = "fill" /\ filled' = 0 /\ runs' = runs + 1
  /\ UNCHANGED <<device, driver, dts_pending, reading, writing>>

(* *mem_addr++ = 0x41 + i *)
SendByte ==
  /\ spc = "fill"
  /\ mem' = [mem EXCEPT ![filled] = Sent]
  /\ filled' = filled + 1
  /\ spc' = IF filled + 1 = MSG THEN "count" ELSE "fill"
  /\ UNCHANGED <<flag_reg, size_reg, runs, driver, dts_pending, reading, writing>>

(* *count_addr = 50 *)
SendCount ==
  /\ spc = "count"
  /\ size_reg' = MSG /\ spc' = "flag"
  /\ UNCHANGED <<flag_reg, mem, filled, runs, driver, dts_pending, reading, writing>>

(* *flag_addr = PLAT_IO_DATA_READY, whatever the driver is doing *)
SendFlag ==
  /\ spc = "flag"
  /\ flag_reg' = 1 /\ spc' = "idle"
  /\ UNCHANGED <<size_reg, mem, filled, runs, driver, dts_pending, reading, writing>>

SendNext == SendByte \/ SendCount \/ SendFlag

-----------------------------------------------------------------------------
(* The works.  cancel_delayed_work_sync takes the pending bit of a work    *)
(* until the work has ended, so that a work that queues itself meanwhile   *)
(* has no effect.                                                          *)

Cancelling == [read |-> "cancel_read", write |-> "cancel_write"]

Requeued(w) == IF ppc = Cancelling[w] THEN dts_pending ELSE dts_pending \cup {w}

(* Variant that queues itself again only if there was a message. *)
ReadIdleOnce ==
  /\ alive /\ "read" \in dts_pending /\ rpc = "idle" /\ flag_reg = 0
  /\ dts_pending' = dts_pending \ {"read"}
  /\ UNCHANGED <<device, sender, driver, reading, writing>>

(* plat_dummy_work_read finds the flag clear. *)
ReadIdle ==
  /\ alive /\ "read" \in dts_pending /\ rpc = "idle" /\ flag_reg = 0
  /\ dts_pending' = Requeued("read")
  /\ UNCHANGED <<device, sender, driver, reading, writing>>

(* The flag is set: the size is read and limited. *)
ReadStart ==
  /\ alive /\ "read" \in dts_pending /\ rpc = "idle" /\ flag_reg = 1
  /\ dts_pending' = dts_pending \ {"read"}
  /\ size' = min(size_reg, MEM_SIZE) /\ line' = << >>
  /\ rpc' = IF size' = 0 THEN "ack" ELSE "loop"
  /\ UNCHANGED <<device, sender, driver, writing>>

(* one turn of the loop: ioread8 and pr_info *)
ReadByte ==
  /\ alive /\ rpc = "loop"
  /\ line' = Append(line, mem[Len(line)])
  /\ rpc' = IF Len(line') = size THEN "ack" ELSE "loop"
  /\ UNCHANGED <<device, sender, driver, dts_pending, size, writing>>

(* status &= ~PLAT_IO_DATA_READY is written back; queue_delayed_work *)
ReadAck ==
  /\ alive /\ rpc = "ack"
  /\ flag_reg' = 0 /\ rpc' = "idle"
  /\ dts_pending' = Requeued("read")
  /\ UNCHANGED <<size_reg, mem, sender, driver, size, line, writing>>

ReadWork == ReadIdle \/ ReadStart \/ ReadByte \/ ReadAck

(* Variant that stores 64 bits of jiffies. *)
WriteStoreLong ==
  /\ alive /\ "write" \in dts_pending /\ ~ writing
  /\ dts_pending' = dts_pending \ {"write"} /\ writing' = TRUE
  /\ mem' = [i \in DOMAIN mem |-> IF i < 2 * WORD THEN Jiffies ELSE mem[i]]
  /\ UNCHANGED <<flag_reg, size_reg, sender, driver, reading>>

(* plat_dummy_work_write: iowrite32(jiffies, my_device->mem) *)
WriteStore ==
  /\ alive /\ "write" \in dts_pending /\ ~ writing
  /\ dts_pending' = dts_pending \ {"write"} /\ writing' = TRUE
  /\ mem' = [i \in DOMAIN mem |-> IF i < WORD THEN Jiffies ELSE mem[i]]
  /\ UNCHANGED <<flag_reg, size_reg, sender, driver, reading>>

(* schedule_delayed_work(&my_device->dwork_write, 10 s) *)
WriteAgain ==
  /\ alive /\ writing
  /\ writing' = FALSE /\ dts_pending' = Requeued("write")
  /\ UNCHANGED <<device, sender, driver, reading>>

WriteWork == WriteStore \/ WriteAgain

-----------------------------------------------------------------------------
(* plat_dummy_probe, plat_dummy_remove, insmod and rmmod *)

(* devm_kzalloc and the two devm_ioremap_resource, which may fail *)
Probe ==
  /\ ppc = "out" /\ dts_loads < MaxBinds /\ ~ leaked
  /\ dts_loads' = dts_loads + 1
  /\ \/ ppc' = "read_wq" /\ alive' = TRUE
     \/ ppc' = "unbound" /\ UNCHANGED alive
  /\ UNCHANGED <<device, sender, leaked, dts_pending, reading, writing>>

(* alloc_workqueue for reading; the work is queued at once *)
ProbeRead ==
  /\ ppc = "read_wq"
  /\ ppc' = "write_wq" /\ dts_pending' = dts_pending \cup {"read"}
  /\ UNCHANGED <<device, sender, dts_loads, alive, leaked, reading, writing>>

ProbeReadFails ==
  /\ ppc = "read_wq"
  /\ ppc' = "unbound" /\ alive' = FALSE
  /\ UNCHANGED <<device, sender, dts_loads, leaked, dts_pending, reading, writing>>

(* alloc_workqueue for writing; the work goes to the system queue *)
ProbeWrite ==
  /\ ppc = "write_wq"
  /\ ppc' = "bound" /\ dts_pending' = dts_pending \cup {"write"}
  /\ UNCHANGED <<device, sender, dts_loads, alive, leaked, reading, writing>>

(* -ENOMEM with the read work left as it is; devm frees the object.  What  *)
(* the work does after that is undefined and not modelled.                 *)
ProbeWriteFails ==
  /\ ppc = "write_wq"
  /\ ppc' = "unbound" /\ alive' = FALSE /\ leaked' = TRUE
  /\ UNCHANGED <<device, sender, dts_loads, dts_pending, reading, writing>>

(* plat_dummy_remove: cancel_delayed_work_sync(&my_device->dwork) begins *)
Remove ==
  /\ ppc = "bound"
  /\ ppc' = "cancel_read" /\ dts_pending' = dts_pending \ {"read"}
  /\ UNCHANGED <<device, sender, dts_loads, alive, leaked, reading, writing>>

(* the read work has ended; the same for dwork_write *)
RemoveRead ==
  /\ ppc = "cancel_read" /\ rpc = "idle"
  /\ ppc' = "cancel_write" /\ dts_pending' = dts_pending \ {"write"}
  /\ UNCHANGED <<device, sender, dts_loads, alive, leaked, reading, writing>>

(* Variant: cancel_delayed_work, which does not wait. *)
RemoveNoSync ==
  /\ ppc = "cancel_write"
  /\ ppc' = "out" /\ alive' = FALSE
  /\ UNCHANGED <<device, sender, dts_loads, leaked, dts_pending, reading, writing>>

(* the write work has ended; devm frees the object after remove *)
RemoveWrite ==
  /\ ppc = "cancel_write" /\ ~ writing
  /\ ppc' = "out" /\ alive' = FALSE
  /\ UNCHANGED <<device, sender, dts_loads, leaked, dts_pending, reading, writing>>

(* rmmod when probe had failed: there is no device to remove *)
Unload ==
  /\ ppc = "unbound"
  /\ ppc' = "out"
  /\ UNCHANGED <<device, sender, dts_loads, alive, leaked, dts_pending, reading, writing>>

RemoveNext == RemoveRead \/ RemoveWrite

DtsNext ==
  \/ SendStart \/ SendNext
  \/ ReadWork \/ WriteWork
  \/ Probe \/ ProbeRead \/ ProbeReadFails \/ ProbeWrite \/ ProbeWriteFails
  \/ Remove \/ RemoveNext \/ Unload

DtsSpec == DtsInit /\ [][DtsNext]_dtsvars

-----------------------------------------------------------------------------
(* Although nobody waits for anybody, what the driver prints is the whole  *)
(* message, but for the word that the other work may have put over its     *)
(* first bytes.                                                            *)
MessageIntact ==
  /\ \A k \in 1 .. Len(line) :
       line[k] = Sent \/ (line[k] = Jiffies /\ k <= WORD)
  /\ rpc = "ack" => Len(line) = MSG

(* No work is queued for, or at work on, a device object that is freed,    *)
(* however remove falls into a work that queues itself again.  (If the     *)
(* second alloc_workqueue of probe fails, one is.)                         *)
NoWorkOnFreedDevice ==
  alive \/ leaked \/ (dts_pending = {} /\ rpc = "idle" /\ ~ writing)

(* Both works go on for as long as the device is bound: a flag that is set *)
(* is taken, and after each message a whole word of jiffies comes again.   *)
BothDirectionsGoOn ==
  /\ (ppc = "bound" /\ flag_reg = 1) ~> (ppc # "bound" \/ flag_reg = 0)
  /\ ppc = "bound"
       ~> (ppc # "bound" \/ \A i \in 0 .. WORD - 1 : mem[i] = Jiffies)

=============================================================================
