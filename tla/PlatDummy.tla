----------------------------- MODULE PlatDummy -----------------------------
(***************************************************************************)
(* The platform driver of HW12 (platform_test.c): a ring buffer of         *)
(* BUFF_SIZE bytes that a delayed work fills from the device, that read()  *)
(* drains and that write() fills from user space.  rd_mutex guards the     *)
(* ring and rwq is where readers sleep.  The pointers rp and wp are        *)
(* offsets into buffer.                                                    *)
(***************************************************************************)
EXTENDS DummyDevice

CONSTANTS
  BUFF_SIZE,    \* DUMMY_IO_BUFF_SIZE
  Readers,      \* threads that call read()
  ReadSizes,    \* the counts they pass
  Writers,      \* threads that call write()
  UserData,     \* what the successive write() calls pass, in call order
  WriteFaults,  \* whether copy_from_user may meet an unreadable page
  WorkerSignals \* whether a signal may interrupt the worker's mutex_lock

ASSUME DriverAssumption ==
  /\ BUFF_SIZE \in Nat \ {0}
  /\ ReadSizes \subseteq Nat
  /\ UserData \in Seq(Seq(Byte))
  /\ WriteFaults \in BOOLEAN /\ WorkerSignals \in BOOLEAN
  /\ Readers \cap Writers = {}
  /\ {"none", "worker"} \cap (Readers \cup Writers) = {}

VARIABLES
  buffer, rp, wp,     \* the ring
  rd_mutex,           \* who holds the mutex, or "none"
  rpc, count,         \* per reader: control point and count
  upc, arg, calls,    \* per writer: control point and data; write() calls made
  wpc, wi, wcount,    \* plat_dummy_work: control point, i and count
  accepted,           \* history: every byte put into the ring
  got,                \* history: every byte copied out to a reader
  faults              \* history: failed copy_from_user calls

ring == <<buffer, rp, wp>>
readers == <<rpc, count>>
writers == <<upc, arg, calls>>
worker == <<wpc, wi, wcount>>
history == <<accepted, got, faults>>

Slots == 0 .. BUFF_SIZE - 1

DriverTypeOK ==
  /\ buffer \in [Slots -> Byte]
  /\ rp \in Slots /\ wp \in Slots
  /\ rd_mutex \in {"none", "worker"} \cup Readers \cup Writers
  /\ rpc \in [Readers -> {"idle", "lock", "locked", "wait", "asleep", "copy"}]
  /\ count \in [Readers -> Nat]
  /\ upc \in [Writers -> {"idle", "lock", "copy"}]
  /\ arg \in [Writers -> Seq(Byte)]
  /\ calls \in 0 .. Len(UserData)
  /\ wpc \in {"queued", "lock", "copy", "wake", "ack"}
  /\ wi \in Nat /\ wcount \in Nat
  /\ wpc = "copy" => wi <= wcount /\ wcount <= MEM_SIZE
  /\ accepted \in Seq(Byte) /\ got \in Seq(Byte) /\ faults \in Nat

(* plat_dummy_probe: dummy_init_data_buffer and the first queueing of the  *)
(* work.                                                                   *)
DriverInit ==
  /\ buffer = [i \in Slots |-> 0]
  /\ rp = 0 /\ wp = 0
  /\ rd_mutex = "none"
  /\ rpc = [r \in Readers |-> "idle"]
  /\ count = [r \in Readers |-> 0]
  /\ upc = [w \in Writers |-> "idle"]
  /\ arg = [w \in Writers |-> << >>]
  /\ calls = 0
  /\ wpc = "queued" /\ wi = 0 /\ wcount = 0
  /\ accepted = << >> /\ got = << >> /\ faults = 0

-----------------------------------------------------------------------------
(* The ring. *)

(* Variant that wraps one slot late. *)
WrapLate(p) == IF p > BUFF_SIZE THEN 0 ELSE p

(* if (p == end) p = buffer *)
Wrap(p) == IF p = BUFF_SIZE THEN 0 ELSE p

(* spacefree() *)
SpaceFree ==
  IF rp = wp THEN BUFF_SIZE - 1
  ELSE ((rp + BUFF_SIZE - wp) % BUFF_SIZE) - 1

(* What a reader may take in one call: up to wp, or to the end of the      *)
(* buffer when wp has wrapped.                                             *)
Readable == IF wp > rp THEN wp - rp ELSE BUFF_SIZE - rp

-----------------------------------------------------------------------------
(* plat_dummy_read.  One reader is one thread inside read().               *)

ReadCall(r) ==
  /\ rpc[r] = "idle"
  /\ \E n \in ReadSizes : count' = [count EXCEPT ![r] = n]
  /\ rpc' = [rpc EXCEPT ![r] = "lock"]
  /\ UNCHANGED <<ring, rd_mutex, writers, worker, history, device>>

(* Variant that does not take the mutex. *)
ReadLockNoMutex(r) ==
  /\ rpc[r] = "lock"
  /\ rpc' = [rpc EXCEPT ![r] = "locked"]
  /\ UNCHANGED <<ring, rd_mutex, count, writers, worker, history, device>>

(* mutex_lock_interruptible succeeds *)
ReadLock(r) ==
  /\ rpc[r] = "lock" /\ rd_mutex = "none"
  /\ rd_mutex' = r
  /\ rpc' = [rpc EXCEPT ![r] = "locked"]
  /\ UNCHANGED <<ring, count, writers, worker, history, device>>

(* A signal while waiting for the mutex or for data: -ERESTARTSYS. *)
ReadIntr(r) ==
  /\ \/ rpc[r] = "lock" /\ rd_mutex # "none"
     \/ rpc[r] = "asleep"
  /\ rpc' = [rpc EXCEPT ![r] = "idle"]
  /\ UNCHANGED <<ring, rd_mutex, count, writers, worker, history, device>>

(* Variant that goes to sleep with the mutex held. *)
ReadEmptyHolding(r) ==
  /\ rpc[r] = "locked" /\ rp = wp
  /\ rpc' = [rpc EXCEPT ![r] = "wait"]
  /\ UNCHANGED <<ring, rd_mutex, count, writers, worker, history, device>>

(* while (rp == wp): nothing to read, release the lock *)
ReadEmpty(r) ==
  /\ rpc[r] = "locked" /\ rp = wp
  /\ rd_mutex' = "none"
  /\ rpc' = [rpc EXCEPT ![r] = "wait"]
  /\ UNCHANGED <<ring, count, writers, worker, history, device>>

(* wait_event_interruptible: enqueue on rwq, test rp != wp without the     *)
(* mutex, then go on or sleep until a wake-up.                             *)
ReadWait(r) ==
  /\ rpc[r] = "wait"
  /\ rpc' = [rpc EXCEPT ![r] = IF rp # wp THEN "lock" ELSE "asleep"]
  /\ UNCHANGED <<ring, rd_mutex, count, writers, worker, history, device>>

(* count = min(count, ...) *)
ReadCount(r) ==
  /\ rpc[r] = "locked" /\ rp # wp
  /\ count' = [count EXCEPT ![r] = min(@, Readable)]
  /\ rpc' = [rpc EXCEPT ![r] = "copy"]
  /\ UNCHANGED <<ring, rd_mutex, writers, worker, history, device>>

(* The bytes copy_to_user hands out. *)
Taken(r) == [i \in 1 .. count[r] |-> buffer[rp + i - 1]]

(* copy_to_user, rp += count with wrap, unlock, return count *)
ReadCopy(r) ==
  /\ rpc[r] = "copy"
  /\ got' = got \o Taken(r)
  /\ rp' = Wrap(rp + count[r])
  /\ rd_mutex' = "none"
  /\ rpc' = [rpc EXCEPT ![r] = "idle"]
  /\ UNCHANGED <<buffer, wp, count, writers, worker, accepted, faults, device>>

(* Variant that advances rp although the copy failed. *)
ReadFaultAdvance(r) ==
  /\ rpc[r] = "copy"
  /\ rp' = Wrap(rp + count[r])
  /\ rd_mutex' = "none"
  /\ rpc' = [rpc EXCEPT ![r] = "idle"]
  /\ UNCHANGED <<buffer, wp, count, writers, worker, history, device>>

(* copy_to_user fails: unlock, -EFAULT *)
ReadFault(r) ==
  /\ rpc[r] = "copy"
  /\ rd_mutex' = "none"
  /\ rpc' = [rpc EXCEPT ![r] = "idle"]
  /\ UNCHANGED <<ring, count, writers, worker, history, device>>

Read(r) ==
  \/ ReadCall(r) \/ ReadLock(r) \/ ReadIntr(r) \/ ReadEmpty(r)
  \/ ReadWait(r) \/ ReadCount(r) \/ ReadCopy(r) \/ ReadFault(r)

-----------------------------------------------------------------------------
(* plat_dummy_write *)

WriteCall(w) ==
  /\ upc[w] = "idle" /\ calls < Len(UserData)
  /\ arg' = [arg EXCEPT ![w] = UserData[calls + 1]]
  /\ calls' = calls + 1
  /\ upc' = [upc EXCEPT ![w] = "lock"]
  /\ UNCHANGED <<ring, rd_mutex, readers, worker, history, device>>

WriteLock(w) ==
  /\ upc[w] = "lock" /\ rd_mutex = "none"
  /\ rd_mutex' = w
  /\ upc' = [upc EXCEPT ![w] = "copy"]
  /\ UNCHANGED <<ring, readers, arg, calls, worker, history, device>>

(* A signal while waiting for the mutex: -ERESTARTSYS. *)
WriteIntr(w) ==
  /\ upc[w] = "lock" /\ rd_mutex # "none"
  /\ upc' = [upc EXCEPT ![w] = "idle"]
  /\ UNCHANGED <<ring, rd_mutex, readers, arg, calls, worker, history, device>>

(* count = min(count, end - wp): the free space is not consulted *)
WriteLen(w) == min(Len(arg[w]), BUFF_SIZE - wp)

(* What the ring holds once the first n bytes of d are stored at wp, with  *)
(* zeros up to m: copy_from_user clears what it could not copy.            *)
Stored(d, n, m) ==
  [i \in Slots |-> IF i < wp \/ i >= wp + m THEN buffer[i]
                   ELSE IF i < wp + n THEN d[i - wp + 1] ELSE 0]

(* Variant that wraps to the second slot. *)
WriteCopyBadWrap(w) ==
  /\ upc[w] = "copy"
  /\ buffer' = Stored(arg[w], WriteLen(w), WriteLen(w))
  /\ wp' = IF wp + WriteLen(w) >= BUFF_SIZE THEN 1 ELSE wp + WriteLen(w)
  /\ accepted' = accepted \o SubSeq(arg[w], 1, WriteLen(w))
  /\ rd_mutex' = "none"
  /\ upc' = [upc EXCEPT ![w] = "idle"]
  /\ UNCHANGED <<rp, readers, arg, calls, worker, got, faults, device>>

(* copy_from_user, wp += count with wrap, unlock, return count; readers    *)
(* asleep on rwq are not woken.                                            *)
WriteCopy(w) ==
  /\ upc[w] = "copy"
  /\ buffer' = Stored(arg[w], WriteLen(w), WriteLen(w))
  /\ wp' = IF wp + WriteLen(w) >= BUFF_SIZE THEN 0 ELSE wp + WriteLen(w)
  /\ accepted' = accepted \o SubSeq(arg[w], 1, WriteLen(w))
  /\ rd_mutex' = "none"
  /\ upc' = [upc EXCEPT ![w] = "idle"]
  /\ UNCHANGED <<rp, readers, arg, calls, worker, got, faults, device>>

(* Variant that forgets the unlock on the error path. *)
WriteFaultHolding(w) ==
  /\ WriteFaults
  /\ upc[w] = "copy" /\ WriteLen(w) > 0
  /\ \E n \in 0 .. WriteLen(w) - 1 : buffer' = Stored(arg[w], n, WriteLen(w))
  /\ faults' = faults + 1
  /\ upc' = [upc EXCEPT ![w] = "idle"]
  /\ UNCHANGED <<rp, wp, rd_mutex, readers, arg, calls, worker, accepted, got,
                 device>>

(* copy_from_user fails after n bytes: unlock, -EFAULT, wp stays *)
WriteFault(w) ==
  /\ WriteFaults
  /\ upc[w] = "copy" /\ WriteLen(w) > 0
  /\ \E n \in 0 .. WriteLen(w) - 1 : buffer' = Stored(arg[w], n, WriteLen(w))
  /\ rd_mutex' = "none"
  /\ faults' = faults + 1
  /\ upc' = [upc EXCEPT ![w] = "idle"]
  /\ UNCHANGED <<rp, wp, readers, arg, calls, worker, accepted, got,
                 device>>

Write(w) ==
  WriteCall(w) \/ WriteLock(w) \/ WriteIntr(w) \/ WriteCopy(w) \/ WriteFault(w)

-----------------------------------------------------------------------------
(* plat_dummy_work.  Every way out ends in queue_delayed_work, which here  *)
(* is wpc = "queued".                                                      *)

(* The work runs: read the flag; not ready means requeue, a stutter. *)
WorkPoll ==
  /\ wpc = "queued" /\ flag_reg = 1
  /\ wpc' = "lock"
  /\ UNCHANGED <<ring, rd_mutex, readers, writers, wi, wcount, history, device>>

(* mutex_lock_interruptible fails: goto exit_wq.  A kworker ignores        *)
(* signals, so on a stock kernel this path is dead.                        *)
WorkIntr ==
  /\ WorkerSignals
  /\ wpc = "lock" /\ rd_mutex # "none"
  /\ wpc' = "queued"
  /\ UNCHANGED <<ring, rd_mutex, readers, writers, wi, wcount, history, device>>

(* The size register, clamped to the data area. *)
Size == IF size_reg > MEM_SIZE THEN MEM_SIZE ELSE size_reg

(* Variant that does not compare the chunk with the free space. *)
WorkLockNoRoomTest ==
  /\ wpc = "lock" /\ rd_mutex = "none"
  /\ rd_mutex' = "worker"
  /\ wpc' = "copy" /\ wi' = 0 /\ wcount' = Size
  /\ UNCHANGED <<ring, readers, writers, history, device>>

(* The chunk fits: keep the mutex and start copying. *)
WorkLock ==
  /\ wpc = "lock" /\ rd_mutex = "none"
  /\ Size <= SpaceFree
  /\ rd_mutex' = "worker"
  /\ wpc' = "copy" /\ wi' = 0 /\ wcount' = Size
  /\ UNCHANGED <<ring, readers, writers, history, device>>

(* count < size: unlock, goto exit_wq; the chunk stays in the device *)
WorkNoRoom ==
  /\ wpc = "lock" /\ rd_mutex = "none"
  /\ Size > SpaceFree
  /\ wpc' = "queued"
  /\ UNCHANGED <<ring, rd_mutex, readers, writers, wi, wcount, history, device>>

(* One turn of the for loop. *)
WorkCopy ==
  /\ wpc = "copy" /\ wi < wcount
  /\ buffer' = [buffer EXCEPT ![wp] = mem[wi]]
  /\ wp' = Wrap(wp + 1)
  /\ wi' = wi + 1
  /\ accepted' = Append(accepted, mem[wi])
  /\ UNCHANGED <<rp, rd_mutex, readers, writers, wpc, wcount, got, faults, device>>

WorkUnlock ==
  /\ wpc = "copy" /\ wi = wcount
  /\ rd_mutex' = "none"
  /\ wpc' = "wake"
  /\ UNCHANGED <<ring, readers, writers, wi, wcount, history, device>>

(* Variant without the wake-up. *)
WorkNoWake ==
  /\ wpc = "wake"
  /\ wpc' = "ack"
  /\ UNCHANGED <<ring, rd_mutex, readers, writers, wi, wcount, history, device>>

(* wake_up_interruptible(&rwq): every sleeper tests its condition again *)
WorkWake ==
  /\ wpc = "wake"
  /\ rpc' = [r \in Readers |-> IF rpc[r] = "asleep" THEN "wait" ELSE rpc[r]]
  /\ wpc' = "ack"
  /\ UNCHANGED <<ring, rd_mutex, count, writers, wi, wcount, history, device>>

(* Variant that leaves the chunk marked ready. *)
WorkNoAck ==
  /\ wpc = "ack"
  /\ wpc' = "queued"
  /\ UNCHANGED <<ring, rd_mutex, readers, writers, wi, wcount, history, device>>

(* status &= ~PLAT_IO_DATA_READY, written back *)
WorkAck ==
  /\ wpc = "ack"
  /\ flag_reg' = 0
  /\ wpc' = "queued"
  /\ UNCHANGED <<ring, rd_mutex, readers, writers, wi, wcount, history,
                 size_reg, mem>>

Work ==
  \/ WorkPoll \/ WorkIntr \/ WorkLock \/ WorkNoRoom \/ WorkCopy \/ WorkUnlock
  \/ WorkWake \/ WorkAck

=============================================================================
