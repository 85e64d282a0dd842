------------------------------ MODULE SendData ------------------------------
(***************************************************************************)
(* send_data2.c of HW12: the user program that plays the hardware.  One    *)
(* run sends one file in chunks of at most MEM_SIZE bytes; Files is the    *)
(* sequence of files that successive runs send to the same device.         *)
(* Argument errors and failing open/stat/malloc end a run before it        *)
(* touches the device and are not steps of the model.                      *)
(***************************************************************************)
EXTENDS DummyDevice

CONSTANT Files
ASSUME FilesAssumption == Files \in Seq(Seq(Byte))

VARIABLES
  spc,    \* control point of the sender, "idle" between two runs
  run,    \* how many runs were started; the current one sends Files[run]
  off,    \* bytes of the file already copied out (buf - its start)
  chunk   \* count, the length of the chunk being sent

sender == <<spc, run, off, chunk>>

SenderTypeOK ==
  /\ spc \in {"idle", "clear", "poll", "fill", "count", "flag"}
  /\ run \in 0 .. Len(Files)
  /\ spc # "idle" => run > 0
  /\ off \in Nat
  /\ run > 0 => off <= Len(Files[run])
  /\ chunk \in 0 .. MEM_SIZE

SenderInit ==
  /\ spc = "idle"
  /\ run = 0
  /\ off = 0
  /\ chunk = 0

(* main() up to the mapping of the device: the file is read into buf. *)
SendStart ==
  /\ spc = "idle" /\ run < Len(Files)
  /\ spc' = "clear" /\ run' = run + 1 /\ off' = 0
  /\ UNCHANGED <<device, chunk>>

(* *flag_addr = 0, whatever the driver has not taken yet. *)
SendClear ==
  /\ spc = "clear"
  /\ flag_reg' = 0 /\ spc' = "poll"
  /\ UNCHANGED <<size_reg, mem, run, off, chunk>>

(* Variant that does not wait for the flag. *)
SendNoPoll ==
  /\ spc = "poll" /\ off < Len(Files[run])
  /\ spc' = "fill"
  /\ UNCHANGED <<device, run, off, chunk>>

(* while (len) { while (flag & PLAT_IO_DATA_READY); ... *)
SendPoll ==
  /\ spc = "poll" /\ off < Len(Files[run])
  /\ flag_reg = 0
  /\ spc' = "fill"
  /\ UNCHANGED <<device, run, off, chunk>>

(* count = len > mem_size ? mem_size : len *)
ChunkLen == min(MEM_SIZE, Len(Files[run]) - off)

(* memcpy(mem_addr, buf, count); len -= count; buf += count.  The whole    *)
(* memcpy is one step; the driver's copy loop interleaves with it only     *)
(* when a second run starts while a chunk of the first is being taken.     *)
SendFill ==
  /\ spc = "fill"
  /\ mem' = [i \in 0 .. MEM_SIZE - 1 |->
               IF i < ChunkLen THEN Files[run][off + i + 1] ELSE mem[i]]
  /\ chunk' = ChunkLen
  /\ off' = off + ChunkLen
  /\ spc' = "count"
  /\ UNCHANGED <<flag_reg, size_reg, run>>

(* *count_addr = count *)
SendCount ==
  /\ spc = "count"
  /\ size_reg' = chunk /\ spc' = "flag"
  /\ UNCHANGED <<flag_reg, mem, run, off, chunk>>

(* *flag_addr = PLAT_IO_DATA_READY *)
SendFlag ==
  /\ spc = "flag"
  /\ flag_reg' = 1 /\ spc' = "poll"
  /\ UNCHANGED <<size_reg, mem, run, off, chunk>>

(* len = 0: the program returns, without waiting for the last chunk to be  *)
(* taken.                                                                  *)
SendExit ==
  /\ spc = "poll" /\ off = Len(Files[run])
  /\ spc' = "idle"
  /\ UNCHANGED <<device, run, off, chunk>>

SenderNext ==
  \/ SendStart \/ SendClear \/ SendPoll
  \/ SendFill \/ SendCount \/ SendFlag \/ SendExit

=============================================================================
