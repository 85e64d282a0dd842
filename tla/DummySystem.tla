---------------------------- MODULE DummySystem ----------------------------
(***************************************************************************)
(* One dummy device of HW12 end to end: send_data2.c fills the device, the *)
(* delayed work moves each chunk into the ring, and readers and writers of *)
(* /dev/dummy/dummyX use the ring.                                         *)
(***************************************************************************)
EXTENDS PlatDummy, SendData

vars == <<device, sender, ring, rd_mutex, readers, writers, worker, history>>

Init == DeviceInit /\ SenderInit /\ DriverInit

SendStep ==
  SenderNext /\ UNCHANGED <<ring, rd_mutex, readers, writers, worker, history>>

WorkStep == Work /\ UNCHANGED sender

ReadStep(r) == Read(r) /\ UNCHANGED sender

WriteStep(w) == Write(w) /\ UNCHANGED sender

Next ==
  \/ SendStep
  \/ WorkStep
  \/ \E r \in Readers : ReadStep(r)
  \/ \E w \in Writers : WriteStep(w)

Spec == Init /\ [][Next]_vars

(***************************************************************************)
(* Fairness.  The sender and the workqueue keep running.  A reader program *)
(* calls read() again after each call, gets the mutex when it is free often *)
(* enough (kernel mutexes hand over in order), and its buffer is not bad   *)
(* for ever.  The worker cannot be starved of the mutex either.            *)
(***************************************************************************)
Fairness ==
  /\ WF_vars(SendStep)
  /\ WF_vars(WorkStep)
  /\ SF_vars(WorkLock /\ UNCHANGED sender)
  /\ \A r \in Readers :
       /\ WF_vars(ReadStep(r) /\ rpc'[r] # "idle")
       /\ SF_vars(ReadLock(r) /\ UNCHANGED sender)
       /\ SF_vars(ReadCopy(r) /\ UNCHANGED sender)
  /\ \A w \in Writers : WF_vars(WriteStep(w))

FairSpec == Spec /\ Fairness

-----------------------------------------------------------------------------
(* Safety. *)

(* Every variable stays in its type: rp and wp never leave the buffer      *)
(* (the wrap tests of platform_test.c), and a chunk never exceeds MEM_SIZE. *)
TypeOK == DeviceTypeOK /\ SenderTypeOK /\ DriverTypeOK

(* rd_mutex is held exactly by the thread that is between its lock and its *)
(* unlock: every path out of plat_dummy_read, plat_dummy_write and         *)
(* plat_dummy_work, the error paths included, releases it once.            *)
MutexInv ==
  /\ (rd_mutex = "worker") <=> (wpc = "copy")
  /\ \A r \in Readers : (rd_mutex = r) <=> (rpc[r] \in {"locked", "copy"})
  /\ \A w \in Writers : (rd_mutex = w) <=> (upc[w] = "copy")

(* Bytes between rp and wp, and the slot of the i-th of them (from 0). *)
Used == IF wp >= rp THEN wp - rp ELSE wp + BUFF_SIZE - rp
Slot(i) == IF rp + i < BUFF_SIZE THEN rp + i ELSE rp + i - BUFF_SIZE
Contents == [i \in 1 .. Used |-> buffer[Slot(i - 1)]]

(* Without write(), the bytes accepted from the device are the bytes       *)
(* delivered followed by the bytes in the ring: whatever the interleaving  *)
(* of worker and readers, no byte is lost, repeated, reordered or          *)
(* overwritten before it is read.                                          *)
RingHoldsUnread ==
  /\ Len(accepted) = Len(got) + Used
  /\ \A i \in 1 .. Len(got) : got[i] = accepted[i]
  /\ \A i \in 0 .. Used - 1 : buffer[Slot(i)] = accepted[Len(got) + i + 1]

(* The copy loop of the worker was granted only room that is free.         *)
Room == wpc = "copy" => Used + (wcount - wi) <= BUFF_SIZE - 1

(* The copy of a reader was granted only bytes that are there.             *)
ReaderCount ==
  \A r \in Readers : rpc[r] = "copy" => rp # wp /\ count[r] <= Readable

(* No lost wake-up: a reader sleeps on a ring that has data only while     *)
(* the worker is still on its way to wake_up_interruptible.                *)
NoLostWakeup ==
  \A r \in Readers :
    rpc[r] = "asleep" /\ rp # wp => wpc \in {"copy", "wake"}

(* One run of send_data2.c: the flag handshake moves each byte of the file *)
(* into the ring once and in order, so what was accepted is a prefix of    *)
(* the file.                                                               *)
FileInOrder ==
  run = 1 =>
    /\ Len(accepted) <= Len(Files[1])
    /\ \A i \in 1 .. Len(accepted) : accepted[i] = Files[1][i]

(* The flag handshake behind FileInOrder, up to the end of the first run.  *)
(* The flag says who owns the data area: the worker acts only while it is  *)
(* 1, the sender refills only while it is 0, and the bytes accepted stop   *)
(* short of off by exactly the chunk (or the rest of it) still to be taken. *)
Untaken ==
  IF spc \in {"count", "flag"} \/ (flag_reg = 1 /\ wpc \in {"queued", "lock"})
  THEN chunk
  ELSE IF wpc = "copy" THEN chunk - wi ELSE 0

Handshake ==
  run <= 1 =>
    /\ wpc # "queued" => flag_reg = 1
    /\ flag_reg = 1 => /\ spc \in {"poll", "idle"} /\ run = 1
                       /\ size_reg = chunk
    /\ spc = "flag" => size_reg = chunk
    /\ wpc = "copy" => wcount = chunk
    /\ run = 0 => off = 0
    /\ chunk <= off \/ Untaken = 0
    /\ Len(accepted) + Untaken = off
    /\ Untaken > 0 =>
         \A i \in 0 .. chunk - 1 : mem[i] = Files[1][off - chunk + i + 1]

(* What the readers have got of the first file is a prefix of it. *)
PrefixDelivered ==
  run = 1 =>
    /\ Len(got) <= Len(Files[1])
    /\ \A i \in 1 .. Len(got) : got[i] = Files[1][i]

(* With write(), bytes may be overwritten before they are read, but the    *)
(* readers never get one twice or out of order (bytes that are all         *)
(* different), until a write() from an unreadable page spoils bytes that   *)
(* were not read yet.                                                      *)
GotInOrder ==
  \A i, j \in 1 .. Len(got) :
    i < j /\ faults = 0 => \E k, l \in 1 .. Len(accepted) :
               k < l /\ accepted[k] = got[i] /\ accepted[l] = got[j]

(* The ring and its readers implement a bounded byte channel. *)
Channel ==
  INSTANCE ByteChannel WITH queue <- Contents, delivered <- got,
                            Capacity <- BUFF_SIZE - 1
ImplementsChannel == Channel!Spec

-----------------------------------------------------------------------------
(* Liveness. *)

(* Every run of send_data2.c has returned. *)
Sent == run = Len(Files) /\ spc = "idle"

(* One run: the program does not spin for ever on the flag and the whole   *)
(* file reaches the readers.                                               *)
AllDelivered == <>(Sent /\ got = Files[1])

(* Nobody keeps rd_mutex for ever. *)
MutexReleased == []<>(rd_mutex = "none")

=============================================================================
