------------------------- MODULE DummySystemProofs -------------------------
(***************************************************************************)
(* Proofs about DummySystem for every buffer size, data area size, file,   *)
(* set of readers and set of writers.                                      *)
(***************************************************************************)
EXTENDS DummySystem, SequenceTheorems, TLAPS

USE DEF Slots, min

-----------------------------------------------------------------------------
(* The inductive invariant: types, the mutex, and the two bounds that were *)
(* computed under the mutex and are used while it is still held.           *)
IndInv == TypeOK /\ MutexInv /\ ReaderCount /\ Room

(* Init establishes the types. *)
LEMMA InitType == Init => TypeOK
BY DeviceAssumption, FilesAssumption, DriverAssumption
   DEF Init, DeviceInit, SenderInit, DriverInit,
       TypeOK, DeviceTypeOK, SenderTypeOK, DriverTypeOK

(* The sender keeps its own types and the device's. *)
LEMMA SendType ==
  ASSUME DeviceTypeOK, SenderTypeOK, SenderNext
  PROVE  DeviceTypeOK' /\ SenderTypeOK'
<1> USE DeviceAssumption, FilesAssumption
    DEF DeviceTypeOK, SenderTypeOK, device, sender
<1>0. \A n \in 1 .. Len(Files) : Files[n] \in Seq(Byte) /\ Len(Files[n]) \in Nat
  OBVIOUS
<1>1. CASE SendStart BY <1>0, <1>1 DEF SendStart
<1>2. CASE SendClear BY <1>2 DEF SendClear
<1>3. CASE SendPoll BY <1>3 DEF SendPoll
<1>4. CASE SendFill
  <2>1. run \in 1 .. Len(Files) /\ off <= Len(Files[run]) BY <1>4 DEF SendFill
  <2>2. Files[run] \in Seq(Byte) /\ Len(Files[run]) \in Nat BY <1>0, <2>1
  <2>3. /\ ChunkLen \in 0 .. MEM_SIZE
        /\ off + ChunkLen <= Len(Files[run])
    BY <2>1, <2>2 DEF ChunkLen
  <2>4. ASSUME NEW i \in 0 .. MEM_SIZE - 1, i < ChunkLen
        PROVE  Files[run][off + i + 1] \in Byte
    BY <2>2, <2>3, <2>4
  <2>5. mem' \in [0 .. MEM_SIZE - 1 -> Byte] BY <1>4, <2>4 DEF SendFill
  <2> QED BY <1>4, <2>1, <2>2, <2>3, <2>5 DEF SendFill
<1>5. CASE SendCount BY <1>5 DEF SendCount
<1>6. CASE SendFlag BY <1>6 DEF SendFlag
<1>7. CASE SendExit BY <1>7 DEF SendExit
<1> QED BY <1>1, <1>2, <1>3, <1>4, <1>5, <1>6, <1>7 DEF SenderNext

(* A function on 1 .. n is a sequence of length n. *)
LEMMA FunctionIsSeq ==
  ASSUME NEW S, NEW n \in Nat, NEW f \in [1 .. n -> S]
  PROVE  f \in Seq(S) /\ Len(f) = n
<1>1. f \in Seq(S) BY SeqDef
<1>2. DOMAIN f = 1 .. n OBVIOUS
<1>3. Len(f) \in Nat /\ DOMAIN f = 1 .. Len(f) BY <1>1, LenProperties
<1> QED BY <1>1, <1>2, <1>3

(* What the invariant says of a reader that is about to copy. *)
LEMMA CopyBound ==
  ASSUME TypeOK, ReaderCount, NEW r \in Readers, rpc[r] = "copy"
  PROVE  /\ rp \in Nat /\ wp \in Nat /\ rp < BUFF_SIZE /\ wp < BUFF_SIZE
         /\ rp # wp /\ count[r] \in Nat /\ count[r] <= Readable
         /\ rp + count[r] <= BUFF_SIZE
<1>1. /\ rp \in 0 .. BUFF_SIZE - 1 /\ wp \in 0 .. BUFF_SIZE - 1
      /\ count[r] \in Nat
  BY DEF TypeOK, DriverTypeOK
<1>2. rp # wp /\ count[r] <= Readable BY DEF ReaderCount
<1>3. BUFF_SIZE \in Nat BY DriverAssumption
<1> QED BY <1>1, <1>2, <1>3 DEF Readable

(* What a reader is about to take is a sequence of bytes of the ring. *)
LEMMA TakenSeq ==
  ASSUME TypeOK, ReaderCount, NEW r \in Readers, rpc[r] = "copy"
  PROVE  Taken(r) \in Seq(Byte) /\ Len(Taken(r)) = count[r]
<1>1. /\ rp \in Nat /\ count[r] \in Nat /\ rp + count[r] <= BUFF_SIZE
      /\ buffer \in [0 .. BUFF_SIZE - 1 -> Byte] /\ BUFF_SIZE \in Nat
  BY CopyBound, DriverAssumption DEF TypeOK, DriverTypeOK
<1>2. Taken(r) \in [1 .. count[r] -> Byte]
  BY <1>1 DEF Taken
<1> QED BY <1>1, <1>2, FunctionIsSeq

(* A step of a reader keeps the driver's types. *)
LEMMA ReadType ==
  ASSUME TypeOK, ReaderCount, NEW r \in Readers, Read(r)
  PROVE  DriverTypeOK' /\ DeviceTypeOK'
<1> USE DriverAssumption
    DEF TypeOK, DriverTypeOK, DeviceTypeOK, ring, writers, worker, history, device
<1>1. CASE ReadCall(r) BY <1>1 DEF ReadCall
<1>2. CASE ReadLock(r) BY <1>2 DEF ReadLock
<1>3. CASE ReadIntr(r) BY <1>3 DEF ReadIntr
<1>4. CASE ReadEmpty(r) BY <1>4 DEF ReadEmpty
<1>5. CASE ReadWait(r) BY <1>5 DEF ReadWait
<1>6. CASE ReadCount(r)
  <2>1. Readable \in Nat BY DEF Readable
  <2> QED BY <1>6, <2>1 DEF ReadCount
<1>7. CASE ReadCopy(r)
  <2>1. /\ Taken(r) \in Seq(Byte)
        /\ rp + count[r] <= BUFF_SIZE /\ count[r] \in Nat
    BY <1>7, TakenSeq, CopyBound DEF ReadCopy
  <2>2. rp' \in Slots BY <1>7, <2>1 DEF ReadCopy, Wrap
  <2>3. got' \in Seq(Byte) BY <1>7, <2>1 DEF ReadCopy
  <2> QED BY <1>7, <2>2, <2>3 DEF ReadCopy
<1>8. CASE ReadFault(r) BY <1>8 DEF ReadFault
<1> QED BY <1>1, <1>2, <1>3, <1>4, <1>5, <1>6, <1>7, <1>8 DEF Read

(* A step of a writer keeps the driver's types. *)
LEMMA WriteType ==
  ASSUME TypeOK, NEW w \in Writers, Write(w)
  PROVE  DriverTypeOK' /\ DeviceTypeOK'
<1> USE DriverAssumption, DeviceAssumption
    DEF TypeOK, DriverTypeOK, DeviceTypeOK, ring, readers, worker, history, device
<1>0. /\ WriteLen(w) \in 0 .. Len(arg[w])
      /\ wp + WriteLen(w) <= BUFF_SIZE
      /\ arg[w] \in Seq(Byte)
  BY DEF WriteLen
<1>a. ASSUME NEW n \in 0 .. WriteLen(w)
      PROVE  Stored(arg[w], n, WriteLen(w)) \in [Slots -> Byte]
  <2>1. \A i \in Slots : i >= wp /\ i < wp + n => arg[w][i - wp + 1] \in Byte
    BY <1>0
  <2> QED BY <1>0, <2>1 DEF Stored
<1>1. CASE WriteCall(w)
  <2>1. UserData[calls + 1] \in Seq(Byte) BY <1>1 DEF WriteCall
  <2> QED BY <1>1, <2>1 DEF WriteCall
<1>2. CASE WriteLock(w) BY <1>2 DEF WriteLock
<1>3. CASE WriteIntr(w) BY <1>3 DEF WriteIntr
<1>4. CASE WriteCopy(w)
  <2>a. buffer' = Stored(arg[w], WriteLen(w), WriteLen(w)) BY <1>4 DEF WriteCopy
  <2>b. WriteLen(w) \in 0 .. WriteLen(w) BY <1>0
  <2>1. buffer' \in [Slots -> Byte] BY <1>a, <2>a, <2>b
  <2>2. SubSeq(arg[w], 1, WriteLen(w)) \in Seq(Byte) BY <1>0
  <2>3. accepted' \in Seq(Byte) BY <1>4, <2>2 DEF WriteCopy
  <2>4. wp' \in Slots BY <1>0, <1>4 DEF WriteCopy
  <2> QED BY <1>4, <2>1, <2>3, <2>4 DEF WriteCopy
<1>5. CASE WriteFault(w)
  <2>a. PICK n \in 0 .. WriteLen(w) : buffer' = Stored(arg[w], n, WriteLen(w))
    BY <1>0, <1>5 DEF WriteFault
  <2>1. buffer' \in [Slots -> Byte] BY <1>a, <2>a
  <2> QED BY <1>5, <2>1 DEF WriteFault
<1> QED BY <1>1, <1>2, <1>3, <1>4, <1>5 DEF Write

(* A step of the worker keeps the types. *)
LEMMA WorkType ==
  ASSUME TypeOK, Work
  PROVE  DriverTypeOK' /\ DeviceTypeOK'
<1> USE DriverAssumption, DeviceAssumption
    DEF TypeOK, DriverTypeOK, DeviceTypeOK,
        ring, readers, writers, history, device
<1>1. CASE WorkPoll BY <1>1 DEF WorkPoll
<1>2. CASE WorkIntr BY <1>2 DEF WorkIntr
<1>3. CASE WorkLock
  <2>1. Size \in 0 .. MEM_SIZE BY DEF Size
  <2> QED BY <1>3, <2>1 DEF WorkLock
<1>4. CASE WorkNoRoom BY <1>4 DEF WorkNoRoom
<1>5. CASE WorkCopy
  <2>1. mem[wi] \in Byte BY <1>5 DEF WorkCopy
  <2>2. accepted' \in Seq(Byte) BY <1>5, <2>1 DEF WorkCopy
  <2>3. wp' \in Slots /\ buffer' \in [Slots -> Byte]
    BY <1>5, <2>1 DEF WorkCopy, Wrap
  <2> QED BY <1>5, <2>2, <2>3 DEF WorkCopy
<1>6. CASE WorkUnlock BY <1>6 DEF WorkUnlock
<1>7. CASE WorkWake BY <1>7 DEF WorkWake
<1>8. CASE WorkAck BY <1>8 DEF WorkAck
<1> QED BY <1>1, <1>2, <1>3, <1>4, <1>5, <1>6, <1>7, <1>8 DEF Work

-----------------------------------------------------------------------------
(* spacefree() leaves one slot of the ring unused: it is what keeps a full *)
(* ring apart from an empty one.                                           *)
LEMMA SpaceFreeIsFree ==
  ASSUME TypeOK
  PROVE  SpaceFree = BUFF_SIZE - 1 - Used /\ Used \in 0 .. BUFF_SIZE - 1
<1>1. /\ BUFF_SIZE \in Nat \ {0}
      /\ rp \in 0 .. BUFF_SIZE - 1 /\ wp \in 0 .. BUFF_SIZE - 1
  BY DriverAssumption DEF TypeOK, DriverTypeOK
<1>2. CASE rp = wp BY <1>1, <1>2 DEF SpaceFree, Used
<1>3. CASE rp > wp
  <2>1. (rp + BUFF_SIZE - wp) % BUFF_SIZE = rp - wp BY <1>1, <1>3
  <2> QED BY <1>1, <1>3, <2>1 DEF SpaceFree, Used
<1>4. CASE rp < wp
  <2>1. (rp + BUFF_SIZE - wp) % BUFF_SIZE = rp + BUFF_SIZE - wp BY <1>1, <1>4
  <2> QED BY <1>1, <1>4, <2>1 DEF SpaceFree, Used
<1> QED BY <1>1, <1>2, <1>3, <1>4

(* Every step keeps the mutex with the thread that is inside. *)
LEMMA MutexStep ==
  ASSUME TypeOK, MutexInv, [Next]_vars
  PROVE  MutexInv'
<1> USE DriverAssumption
    DEF TypeOK, DriverTypeOK, MutexInv, ring, readers, writers, worker, history
<1>1. CASE SendStep BY <1>1 DEF SendStep
<1>2. CASE WorkStep
  <2> USE <1>2
  <2>1. CASE WorkPoll BY <2>1 DEF WorkPoll
  <2>2. CASE WorkIntr BY <2>2 DEF WorkIntr
  <2>3. CASE WorkLock BY <2>3 DEF WorkLock
  <2>4. CASE WorkNoRoom BY <2>4 DEF WorkNoRoom
  <2>5. CASE WorkCopy BY <2>5 DEF WorkCopy
  <2>6. CASE WorkUnlock BY <2>6 DEF WorkUnlock
  <2>7. CASE WorkWake BY <2>7 DEF WorkWake
  <2>8. CASE WorkAck BY <2>8 DEF WorkAck
  <2> QED BY <2>1, <2>2, <2>3, <2>4, <2>5, <2>6, <2>7, <2>8 DEF WorkStep, Work
<1>3. ASSUME NEW r \in Readers, ReadStep(r) PROVE MutexInv'
  <2>1. CASE ReadCall(r) BY <2>1 DEF ReadCall
  <2>2. CASE ReadLock(r) BY <2>2 DEF ReadLock
  <2>3. CASE ReadIntr(r) BY <2>3 DEF ReadIntr
  <2>4. CASE ReadEmpty(r) BY <2>4 DEF ReadEmpty
  <2>5. CASE ReadWait(r) BY <2>5 DEF ReadWait
  <2>6. CASE ReadCount(r) BY <2>6 DEF ReadCount
  <2>7. CASE ReadCopy(r) BY <2>7 DEF ReadCopy
  <2>8. CASE ReadFault(r) BY <2>8 DEF ReadFault
  <2> QED BY <1>3, <2>1, <2>2, <2>3, <2>4, <2>5, <2>6, <2>7, <2>8
          DEF ReadStep, Read
<1>4. ASSUME NEW w \in Writers, WriteStep(w) PROVE MutexInv'
  <2>1. CASE WriteCall(w) BY <2>1 DEF WriteCall
  <2>2. CASE WriteLock(w) BY <2>2 DEF WriteLock
  <2>3. CASE WriteIntr(w) BY <2>3 DEF WriteIntr
  <2>4. CASE WriteCopy(w) BY <2>4 DEF WriteCopy
  <2>5. CASE WriteFault(w) BY <2>5 DEF WriteFault
  <2> QED BY <1>4, <2>1, <2>2, <2>3, <2>4, <2>5 DEF WriteStep, Write
<1>5. CASE UNCHANGED vars BY <1>5 DEF vars
<1> QED BY <1>1, <1>2, <1>3, <1>4, <1>5 DEF Next

(* The bounds computed under the mutex stay true until they are used:      *)
(* nobody moves rp or wp while another thread holds rd_mutex.              *)
LEMMA BoundsStep ==
  ASSUME IndInv, [Next]_vars
  PROVE  ReaderCount' /\ Room'
<1> USE DriverAssumption
    DEF IndInv, TypeOK, DriverTypeOK, MutexInv, ReaderCount, Room, Used, Readable,
        ring, readers, writers, worker, history
<1>1. CASE SendStep BY <1>1 DEF SendStep
<1>2. CASE WorkStep
  <2>1. CASE WorkPoll BY <2>1 DEF WorkPoll
  <2>2. CASE WorkIntr BY <2>2 DEF WorkIntr
  <2>3. CASE WorkLock
    <3>1. SpaceFree = BUFF_SIZE - 1 - Used /\ Used \in 0 .. BUFF_SIZE - 1
      BY SpaceFreeIsFree
    <3>2. Used' = Used BY <2>3 DEF WorkLock
    <3>3. Used' + (wcount' - wi') <= BUFF_SIZE - 1
      <4> HIDE DEF Used
      <4>1. Size \in Nat BY DeviceAssumption DEF Size, DeviceTypeOK
      <4> QED BY <2>3, <3>1, <3>2, <4>1 DEF WorkLock
    <3> QED BY <2>3, <3>3 DEF WorkLock
  <2>4. CASE WorkNoRoom BY <2>4 DEF WorkNoRoom
  <2>5. CASE WorkCopy
    <3>1. ReaderCount' BY <2>5 DEF WorkCopy
    <3>2. /\ rp \in 0 .. BUFF_SIZE - 1 /\ wp \in 0 .. BUFF_SIZE - 1
          /\ wi \in Nat /\ wcount \in Nat /\ wi < wcount
          /\ Used + (wcount - wi) <= BUFF_SIZE - 1
          /\ rp' = rp /\ wp' = Wrap(wp + 1) /\ wi' = wi + 1 /\ wcount' = wcount
      BY <2>5 DEF WorkCopy
    <3>3. Used' + (wcount' - wi') <= BUFF_SIZE - 1
      <4>1. BUFF_SIZE \in Nat OBVIOUS
      <4> HIDE DEF IndInv
      <4> QED BY <3>2, <4>1 DEF Wrap
    <3> QED BY <3>1, <3>3
  <2>6. CASE WorkUnlock BY <2>6 DEF WorkUnlock
  <2>7. CASE WorkWake BY <2>7 DEF WorkWake
  <2>8. CASE WorkAck BY <2>8 DEF WorkAck
  <2> QED BY <1>2, <2>1, <2>2, <2>3, <2>4, <2>5, <2>6, <2>7, <2>8
          DEF WorkStep, Work
<1>3. ASSUME NEW r \in Readers, ReadStep(r) PROVE ReaderCount' /\ Room'
  <2>1. CASE ReadCall(r) BY <2>1 DEF ReadCall
  <2>2. CASE ReadLock(r) BY <2>2 DEF ReadLock
  <2>3. CASE ReadIntr(r) BY <2>3 DEF ReadIntr
  <2>4. CASE ReadEmpty(r) BY <2>4 DEF ReadEmpty
  <2>5. CASE ReadWait(r) BY <2>5 DEF ReadWait
  <2>6. CASE ReadCount(r) BY <2>6 DEF ReadCount
  <2>7. CASE ReadCopy(r) BY <2>7 DEF ReadCopy
  <2>8. CASE ReadFault(r) BY <2>8 DEF ReadFault
  <2> QED BY <1>3, <2>1, <2>2, <2>3, <2>4, <2>5, <2>6, <2>7, <2>8
          DEF ReadStep, Read
<1>4. ASSUME NEW w \in Writers, WriteStep(w) PROVE ReaderCount' /\ Room'
  <2>1. CASE WriteCall(w) BY <2>1 DEF WriteCall
  <2>2. CASE WriteLock(w) BY <2>2 DEF WriteLock
  <2>3. CASE WriteIntr(w) BY <2>3 DEF WriteIntr
  <2>4. CASE WriteCopy(w) BY <2>4 DEF WriteCopy
  <2>5. CASE WriteFault(w) BY <2>5 DEF WriteFault
  <2> QED BY <1>4, <2>1, <2>2, <2>3, <2>4, <2>5 DEF WriteStep, Write
<1>5. CASE UNCHANGED vars BY <1>5 DEF vars
<1> QED BY <1>1, <1>2, <1>3, <1>4, <1>5 DEF Next

(* Every step keeps the types. *)
LEMMA TypeStep ==
  ASSUME TypeOK, ReaderCount, [Next]_vars
  PROVE  TypeOK'
<1>1. CASE SendStep
  <2>1. DeviceTypeOK' /\ SenderTypeOK' BY <1>1, SendType DEF SendStep, TypeOK
  <2>2. DriverTypeOK'
    BY <1>1 DEF SendStep, TypeOK, DriverTypeOK, ring, readers, writers, worker,
                history
  <2> QED BY <2>1, <2>2 DEF TypeOK
<1>2. CASE WorkStep
  BY <1>2, WorkType DEF WorkStep, TypeOK, SenderTypeOK, sender
<1>3. ASSUME NEW r \in Readers, ReadStep(r) PROVE TypeOK'
  BY <1>3, ReadType DEF ReadStep, TypeOK, SenderTypeOK, sender
<1>4. ASSUME NEW w \in Writers, WriteStep(w) PROVE TypeOK'
  BY <1>4, WriteType DEF WriteStep, TypeOK, SenderTypeOK, sender
<1>5. CASE UNCHANGED vars
  BY <1>5 DEF vars, device, sender, ring, readers, writers, worker, history,
              TypeOK, DeviceTypeOK, SenderTypeOK, DriverTypeOK
<1> QED BY <1>1, <1>2, <1>3, <1>4, <1>5 DEF Next

(* IndInv holds in every state: with any number of readers and writers,    *)
(* signals and faults, every path through the three functions of           *)
(* platform_test.c pairs its lock with one unlock, and no pointer or count *)
(* leaves the ring.                                                        *)
THEOREM InductiveInvariant == Spec => []IndInv
<1>1. Init => IndInv
  BY InitType, DriverAssumption
     DEF Init, DriverInit, IndInv, MutexInv, ReaderCount, Room
<1>2. IndInv /\ [Next]_vars => IndInv'
  BY TypeStep, MutexStep, BoundsStep DEF IndInv
<1> QED BY <1>1, <1>2, PTL DEF Spec

(* Type correctness: rp and wp never leave the buffer. *)
THEOREM TypeCorrect == Spec => []TypeOK
<1>1. IndInv => TypeOK BY DEF IndInv
<1> QED BY <1>1, InductiveInvariant, PTL

(* rd_mutex is held exactly by the thread between its lock and its unlock. *)
THEOREM MutexCorrect == Spec => []MutexInv
<1>1. IndInv => MutexInv BY DEF IndInv
<1> QED BY <1>1, InductiveInvariant, PTL

-----------------------------------------------------------------------------
(* Without write(): the ring holds exactly what was accepted and not yet   *)
(* delivered.                                                              *)

(* Only the worker's copy loop and a reader's copy touch the ring. *)
LEMMA RingTouched ==
  ASSUME Writers = {}, [Next]_vars
  PROVE  \/ WorkCopy
         \/ \E r \in Readers : ReadCopy(r)
         \/ UNCHANGED <<ring, history>>
<1> USE DEF ring, history
<1>1. CASE SendStep BY <1>1 DEF SendStep
<1>2. CASE WorkStep
  BY <1>2 DEF WorkStep, Work, WorkPoll, WorkIntr, WorkLock, WorkNoRoom,
              WorkUnlock, WorkWake, WorkAck
<1>3. ASSUME NEW r \in Readers, ReadStep(r), ~ ReadCopy(r)
      PROVE  UNCHANGED <<ring, history>>
  BY <1>3 DEF ReadStep, Read, ReadCall, ReadLock, ReadIntr, ReadEmpty, ReadWait,
              ReadCount, ReadFault
<1>4. CASE UNCHANGED vars BY <1>4 DEF vars
<1> QED BY <1>1, <1>2, <1>3, <1>4 DEF Next

(* wp is the slot behind the unread bytes, and it is free.                 *)
LEMMA WorkCopySlots ==
  ASSUME IndInv, WorkCopy
  PROVE  /\ Used \in Nat /\ Used + 1 <= BUFF_SIZE - 1
         /\ Used' = Used + 1
         /\ Slot(Used) = wp
         /\ \A i \in 0 .. Used - 1 : Slot(i) # wp /\ Slot(i) \in 0 .. BUFF_SIZE - 1
<1>1. /\ rp \in 0 .. BUFF_SIZE - 1 /\ wp \in 0 .. BUFF_SIZE - 1 /\ BUFF_SIZE \in Nat
      /\ wi \in Nat /\ wcount \in Nat /\ wi < wcount
      /\ Used + (wcount - wi) <= BUFF_SIZE - 1
  BY DriverAssumption DEF IndInv, TypeOK, DriverTypeOK, Room, WorkCopy
<1> QED BY <1>1 DEF WorkCopy, Used, Slot, Wrap

(* A reader's copy starts at the first unread byte and does not wrap.      *)
LEMMA ReadCopySlots ==
  ASSUME IndInv, NEW r \in Readers, ReadCopy(r)
  PROVE  /\ count[r] \in Nat /\ Used \in Nat /\ count[r] <= Used
         /\ Used' = Used - count[r]
         /\ \A i \in 0 .. Used - count[r] - 1 : Slot(i)' = Slot(i + count[r])
         /\ \A i \in 0 .. count[r] - 1 : Slot(i) = rp + i
<1> DEFINE c == count[r]
<1>1. /\ rp \in Nat /\ wp \in Nat /\ rp < BUFF_SIZE /\ wp < BUFF_SIZE
      /\ rp # wp /\ c \in Nat /\ c <= Readable /\ rp + c <= BUFF_SIZE
      /\ BUFF_SIZE \in Nat
  BY CopyBound, DriverAssumption DEF IndInv, ReadCopy
<1>2. rp' = Wrap(rp + c) /\ wp' = wp BY DEF ReadCopy
<1> HIDE DEF c
<1>3. /\ c \in Nat /\ Used \in Nat /\ c <= Used
      /\ Used' = Used - c
      /\ \A i \in 0 .. Used - c - 1 : Slot(i)' = Slot(i + c)
      /\ \A i \in 0 .. c - 1 : Slot(i) = rp + i
  BY <1>1, <1>2 DEF Used, Slot, Wrap, Readable
<1> QED BY <1>3 DEF c

(* Storing one byte at wp appends it to the unread bytes. *)
LEMMA WorkCopyRing ==
  ASSUME IndInv, RingHoldsUnread, WorkCopy
  PROVE  RingHoldsUnread'
<1>1. /\ rp \in 0 .. BUFF_SIZE - 1 /\ wp \in 0 .. BUFF_SIZE - 1
      /\ BUFF_SIZE \in Nat /\ buffer \in [0 .. BUFF_SIZE - 1 -> Byte]
      /\ accepted \in Seq(Byte) /\ got \in Seq(Byte)
      /\ Len(accepted) \in Nat /\ Len(got) \in Nat
      /\ mem[wi] \in Byte
  BY DriverAssumption, DeviceAssumption
     DEF IndInv, TypeOK, DriverTypeOK, DeviceTypeOK, WorkCopy
<1>2. /\ Used \in Nat /\ Used + 1 <= BUFF_SIZE - 1
      /\ Used' = Used + 1
      /\ Slot(Used) = wp
      /\ \A i \in 0 .. Used - 1 : Slot(i) # wp /\ Slot(i) \in 0 .. BUFF_SIZE - 1
  BY WorkCopySlots
<1>3. /\ accepted' = Append(accepted, mem[wi]) /\ got' = got /\ rp' = rp
      /\ buffer' = [buffer EXCEPT ![wp] = mem[wi]]
  BY DEF WorkCopy
<1>4. /\ Len(accepted') = Len(accepted) + 1
      /\ \A i \in 1 .. Len(accepted) : accepted'[i] = accepted[i]
      /\ accepted'[Len(accepted) + 1] = mem[wi]
  BY <1>1, <1>3, AppendProperties
<1>5. \A i : Slot(i)' = Slot(i) BY <1>3 DEF Slot
<1>6. /\ Len(accepted) = Len(got) + Used
      /\ \A i \in 1 .. Len(got) : got[i] = accepted[i]
      /\ \A i \in 0 .. Used - 1 : buffer[Slot(i)] = accepted[Len(got) + i + 1]
  BY DEF RingHoldsUnread
<1>7. ASSUME NEW i \in 0 .. Used
      PROVE  buffer'[Slot(i)] = accepted'[Len(got) + i + 1]
  <2>1. CASE i = Used BY <1>1, <1>2, <1>3, <1>4, <1>6, <2>1
  <2>2. CASE i # Used
    <3>1. i \in 0 .. Used - 1 BY <1>2, <2>2
    <3>2. buffer'[Slot(i)] = buffer[Slot(i)] BY <1>1, <1>2, <1>3, <3>1
    <3>3. accepted'[Len(got) + i + 1] = accepted[Len(got) + i + 1]
      BY <1>1, <1>2, <1>4, <1>6, <3>1
    <3> QED BY <1>6, <3>1, <3>2, <3>3
  <2> QED BY <2>1, <2>2
<1>8. Len(accepted') = Len(got') + Used' BY <1>1, <1>2, <1>3, <1>4, <1>6
<1>9. \A i \in 1 .. Len(got') : got'[i] = accepted'[i]
  BY <1>1, <1>2, <1>3, <1>4, <1>6
<1>10. \A i \in 0 .. Used' - 1 :
         buffer'[Slot(i)'] = accepted'[Len(got') + i + 1]
  <2> SUFFICES ASSUME NEW i \in 0 .. Used' - 1
               PROVE  buffer'[Slot(i)'] = accepted'[Len(got') + i + 1]
    OBVIOUS
  <2>1. i \in 0 .. Used BY <1>2
  <2>2. buffer'[Slot(i)] = accepted'[Len(got) + i + 1] BY <1>7, <2>1
  <2>3. Slot(i)' = Slot(i) BY <1>5
  <2> QED BY <1>3, <2>2, <2>3
<1> QED BY <1>8, <1>9, <1>10 DEF RingHoldsUnread

(* A reader's copy moves the first unread bytes to the delivered ones. *)
LEMMA ReadCopyRing ==
  ASSUME IndInv, RingHoldsUnread, NEW r \in Readers, ReadCopy(r)
  PROVE  RingHoldsUnread'
<1> DEFINE c == count[r]
<1>1. /\ rp \in Nat
      /\ accepted \in Seq(Byte) /\ got \in Seq(Byte)
      /\ Len(accepted) \in Nat /\ Len(got) \in Nat
      /\ Taken(r) \in Seq(Byte) /\ Len(Taken(r)) = c
  BY CopyBound, TakenSeq, DriverAssumption
     DEF IndInv, TypeOK, DriverTypeOK, ReadCopy
<1>2. /\ c \in Nat /\ Used \in Nat /\ c <= Used
      /\ Used' = Used - c
      /\ \A i \in 0 .. Used - c - 1 : Slot(i)' = Slot(i + c)
      /\ \A i \in 0 .. c - 1 : Slot(i) = rp + i
  BY ReadCopySlots
<1>3. got' = got \o Taken(r) /\ accepted' = accepted /\ buffer' = buffer
  BY DEF ReadCopy
<1>4. /\ Len(got') = Len(got) + c
      /\ \A i \in 1 .. Len(got) + c :
           got'[i] = IF i <= Len(got) THEN got[i] ELSE Taken(r)[i - Len(got)]
  <2> DEFINE t == Taken(r)
  <2>1. t \in Seq(Byte) /\ got \in Seq(Byte) BY <1>1
  <2> HIDE DEF t
  <2>2. /\ Len(got \o t) = Len(got) + Len(t)
        /\ \A i \in 1 .. Len(got) + Len(t) :
             (got \o t)[i] = IF i <= Len(got) THEN got[i] ELSE t[i - Len(got)]
    BY <2>1, ConcatProperties
  <2> QED BY <1>1, <1>3, <2>2 DEF t
<1>5. /\ Len(accepted) = Len(got) + Used
      /\ \A i \in 1 .. Len(got) : got[i] = accepted[i]
      /\ \A i \in 0 .. Used - 1 : buffer[Slot(i)] = accepted[Len(got) + i + 1]
  BY DEF RingHoldsUnread
<1>6. \A j \in 1 .. c : Taken(r)[j] = buffer[rp + j - 1] BY DEF Taken
<1> HIDE DEF c
<1>7. ASSUME NEW i \in 1 .. Len(got) + c PROVE got'[i] = accepted[i]
  <2>1. CASE i <= Len(got) BY <1>1, <1>4, <1>5, <2>1
  <2>2. CASE i > Len(got)
    <3>1. PICK j \in 1 .. c : i = Len(got) + j
      <4>1. i - Len(got) \in 1 .. c BY <1>1, <2>2
      <4> QED BY <1>1, <4>1
    <3>2. got'[i] = Taken(r)[j] BY <1>1, <1>4, <2>2, <3>1
    <3>3. Taken(r)[j] = buffer[Slot(j - 1)]
      <4>1. Slot(j - 1) = rp + j - 1 BY <1>1, <1>2
      <4> QED BY <1>6, <4>1
    <3>4. buffer[Slot(j - 1)] = accepted[Len(got) + j]
      <4>1. j - 1 \in 0 .. Used - 1 BY <1>1, <1>2
      <4>2. buffer[Slot(j - 1)] = accepted[Len(got) + (j - 1) + 1]
        BY <1>5, <4>1
      <4>3. Len(got) + (j - 1) + 1 = Len(got) + j BY <1>1
      <4> QED BY <4>2, <4>3
    <3> QED BY <3>1, <3>2, <3>3, <3>4
  <2> QED BY <1>1, <2>1, <2>2
<1>8. ASSUME NEW i \in 0 .. Used - c - 1
      PROVE  buffer[Slot(i)'] = accepted[Len(got) + c + i + 1]
  <2>1. i + c \in 0 .. Used - 1 BY <1>1, <1>2
  <2>2. buffer[Slot(i + c)] = accepted[Len(got) + (i + c) + 1] BY <1>5, <2>1
  <2>3. Len(got) + (i + c) + 1 = Len(got) + c + i + 1 BY <1>1, <1>2
  <2> QED BY <1>2, <2>2, <2>3
<1>9. Len(accepted') = Len(got') + Used' BY <1>1, <1>2, <1>3, <1>4, <1>5
<1>10. \A i \in 1 .. Len(got') : got'[i] = accepted'[i] BY <1>3, <1>4, <1>7
<1>11. \A i \in 0 .. Used' - 1 :
         buffer'[Slot(i)'] = accepted'[Len(got') + i + 1]
  BY <1>2, <1>3, <1>4, <1>8
<1> QED BY <1>9, <1>10, <1>11 DEF RingHoldsUnread

(* Without writers no byte accepted from the device is lost, repeated,     *)
(* reordered or overwritten between plat_dummy_work and plat_dummy_read,   *)
(* for every ring size, chunk size and number of readers.                  *)
THEOREM RingCorrect ==
  ASSUME Writers = {}
  PROVE  Spec => []RingHoldsUnread
<1>1. Init => RingHoldsUnread
  BY DriverAssumption
     DEF Init, DriverInit, RingHoldsUnread, Used
<1>2. IndInv /\ RingHoldsUnread /\ [Next]_vars => RingHoldsUnread'
  <2> SUFFICES ASSUME IndInv, RingHoldsUnread, [Next]_vars
               PROVE  RingHoldsUnread'
    OBVIOUS
  <2>1. CASE UNCHANGED <<ring, history>>
    BY <2>1 DEF ring, history, RingHoldsUnread, Used, Slot
  <2> QED BY <2>1, RingTouched, WorkCopyRing, ReadCopyRing
<1> QED BY <1>1, <1>2, InductiveInvariant, PTL DEF Spec

-----------------------------------------------------------------------------
(* The ring implements the abstract channel of ByteChannel. *)

(* The unread bytes are a sequence, as long as Used. *)
LEMMA ContentsSeq ==
  ASSUME IndInv
  PROVE  /\ Contents \in Seq(Byte) /\ Len(Contents) = Used
         /\ Used \in Nat /\ Used <= BUFF_SIZE - 1
         /\ \A i \in 1 .. Used : Contents[i] = buffer[Slot(i - 1)]
<1>1. /\ rp \in 0 .. BUFF_SIZE - 1 /\ wp \in 0 .. BUFF_SIZE - 1 /\ BUFF_SIZE \in Nat
      /\ buffer \in [0 .. BUFF_SIZE - 1 -> Byte]
  BY DriverAssumption DEF IndInv, TypeOK, DriverTypeOK
<1>2. /\ Used \in Nat /\ Used <= BUFF_SIZE - 1
      /\ \A i \in 1 .. Used : Slot(i - 1) \in 0 .. BUFF_SIZE - 1
  BY <1>1 DEF Used, Slot
<1>3. Contents \in [1 .. Used -> Byte] BY <1>1, <1>2 DEF Contents
<1> QED BY <1>2, <1>3, FunctionIsSeq DEF Contents

(* A byte that the worker stores is put at the tail. *)
LEMMA WorkCopyPuts ==
  ASSUME IndInv, IndInv', WorkCopy
  PROVE  Channel!Put
<1> DEFINE b == mem[wi]
<1>1. b \in Byte
  BY DeviceAssumption
     DEF IndInv, TypeOK, DriverTypeOK, DeviceTypeOK, WorkCopy
<1>2. /\ Used \in Nat /\ Used + 1 <= BUFF_SIZE - 1
      /\ Used' = Used + 1
      /\ Slot(Used) = wp
      /\ \A i \in 0 .. Used - 1 : Slot(i) # wp /\ Slot(i) \in 0 .. BUFF_SIZE - 1
  BY WorkCopySlots
<1>3. /\ got' = got /\ buffer' = [buffer EXCEPT ![wp] = b]
      /\ buffer \in [0 .. BUFF_SIZE - 1 -> Byte] /\ wp \in 0 .. BUFF_SIZE - 1
      /\ \A i : Slot(i)' = Slot(i)
  BY DEF WorkCopy, Slot, IndInv, TypeOK, DriverTypeOK
<1>4. /\ Contents \in Seq(Byte) /\ Len(Contents) = Used
      /\ \A i \in 1 .. Used : Contents[i] = buffer[Slot(i - 1)]
  BY ContentsSeq
<1> HIDE DEF b
<1>5. \A i \in 1 .. Used + 1 :
        buffer'[Slot(i - 1)] = IF i <= Used THEN Contents[i] ELSE b
  <2> TAKE i \in 1 .. Used + 1
  <2>1. CASE i <= Used
    <3>1. i - 1 \in 0 .. Used - 1 BY <1>2, <2>1
    <3> QED BY <1>2, <1>3, <1>4, <2>1, <3>1
  <2>2. CASE i = Used + 1
    <3>1. i - 1 = Used BY <1>2, <2>2
    <3> QED BY <1>2, <1>3, <2>2, <3>1
  <2> QED BY <1>2, <2>1, <2>2
<1>6. Contents' = [i \in 1 .. Used + 1 |-> buffer'[Slot(i - 1)]]
  BY <1>2, <1>3 DEF Contents
<1>7. \A i \in 1 .. Used : Contents[i] \in Byte BY <1>4, ElementOfSeq
<1>8. /\ Contents' \in [1 .. Used + 1 -> Byte]
      /\ \A i \in 1 .. Used + 1 : Contents'[i] = IF i <= Used THEN Contents[i] ELSE b
  <2>1. \A i \in 1 .. Used + 1 : (IF i <= Used THEN Contents[i] ELSE b) \in Byte
    BY <1>1, <1>2, <1>7
  <2>2. \A i \in 1 .. Used + 1 : buffer'[Slot(i - 1)] \in Byte BY <1>5, <2>1
  <2>3. Contents' \in [1 .. Used + 1 -> Byte] BY <1>6, <2>2
  <2>4. \A i \in 1 .. Used + 1 : Contents'[i] = buffer'[Slot(i - 1)] BY <1>6
  <2> QED BY <1>5, <2>3, <2>4
<1>9. Contents' \in Seq(Byte) /\ Len(Contents') = Used + 1
  BY <1>2, <1>8, FunctionIsSeq
<1> DEFINE t == Append(Contents, b)
<1>10. /\ t \in Seq(Byte) /\ Len(t) = Used + 1
       /\ \A i \in 1 .. Used : t[i] = Contents[i]
       /\ t[Used + 1] = b
  BY <1>1, <1>4, AppendProperties
<1> HIDE DEF t
<1>11. \A i \in 1 .. Len(Contents') : Contents'[i] = t[i]
  BY <1>2, <1>8, <1>9, <1>10
<1>12. Contents' = t BY <1>9, <1>10, <1>11, SeqEqual
<1>13. Len(Contents) < BUFF_SIZE - 1 BY <1>2, <1>4, DriverAssumption
<1> QED BY <1>1, <1>3, <1>12, <1>13 DEF t, Channel!Put

(* The bytes that a reader copies out are taken from the head. *)
LEMMA ReadCopyGets ==
  ASSUME IndInv, IndInv', NEW r \in Readers, ReadCopy(r)
  PROVE  Channel!Get \/ UNCHANGED <<Contents, got>>
<1> DEFINE c == count[r]
<1>1. /\ c \in Nat /\ Used \in Nat /\ c <= Used
      /\ Used' = Used - c
      /\ \A i \in 0 .. Used - c - 1 : Slot(i)' = Slot(i + c)
      /\ \A i \in 0 .. c - 1 : Slot(i) = rp + i
  BY ReadCopySlots
<1>2. /\ got' = got \o Taken(r) /\ buffer' = buffer
      /\ got \in Seq(Byte)
      /\ Taken(r) \in Seq(Byte) /\ Len(Taken(r)) = c
      /\ \A i \in 1 .. c : Taken(r)[i] = buffer[rp + i - 1]
  BY TakenSeq DEF ReadCopy, Taken, IndInv, TypeOK, DriverTypeOK
<1>3. /\ Contents \in Seq(Byte) /\ Len(Contents) = Used
      /\ \A i \in 1 .. Used : Contents[i] = buffer[Slot(i - 1)]
      /\ \A i \in 1 .. Used : Contents[i] \in Byte
  BY ContentsSeq, ElementOfSeq
<1> HIDE DEF c
<1>4. Taken(r) = SubSeq(Contents, 1, c)
  <2> DEFINE t == SubSeq(Contents, 1, c)
  <2>1. \A i \in 1 .. c : Contents[i] \in Byte BY <1>1, <1>3
  <2>2. /\ t \in Seq(Byte) /\ Len(t) = IF 1 <= c THEN c - 1 + 1 ELSE 0
        /\ \A i \in 1 .. c - 1 + 1 : t[i] = Contents[1 + i - 1]
    BY <1>1, <2>1, SubSeqProperties
  <2> HIDE DEF t
  <2>3. Len(t) = c /\ \A i \in 1 .. c : t[i] = Contents[i] BY <1>1, <2>2
  <2>4. ASSUME NEW i \in 1 .. c PROVE Taken(r)[i] = t[i]
    <3>1. i - 1 \in 0 .. c - 1 /\ i \in 1 .. Used BY <1>1
    <3>2. Slot(i - 1) = rp + (i - 1) BY <1>1, <3>1
    <3>3. Contents[i] = buffer[rp + (i - 1)] BY <1>3, <3>1, <3>2
    <3>4. rp + (i - 1) = rp + i - 1
      BY <1>1 DEF IndInv, TypeOK, DriverTypeOK
    <3> QED BY <1>2, <2>3, <3>3, <3>4
  <2>5. Taken(r) = t BY <1>2, <2>2, <2>3, <2>4, SeqEqual
  <2> QED BY <2>5 DEF t
<1>5. Contents' = SubSeq(Contents, c + 1, Len(Contents))
  <2> DEFINE t == SubSeq(Contents, c + 1, Len(Contents))
  <2>1. \A i \in c + 1 .. Used : Contents[i] \in Byte BY <1>1, <1>3
  <2>2. /\ t \in Seq(Byte)
        /\ Len(t) = IF c + 1 <= Used THEN Used - (c + 1) + 1 ELSE 0
        /\ \A i \in 1 .. Used - (c + 1) + 1 : t[i] = Contents[c + 1 + i - 1]
    BY <1>1, <1>3, <2>1, SubSeqProperties
  <2> HIDE DEF t
  <2>3. /\ Len(t) = Used - c
        /\ \A i \in 1 .. Used - c : t[i] = Contents[i + c]
    BY <1>1, <2>2
  <2>4. ASSUME NEW i \in 1 .. Used - c
        PROVE  /\ Slot(i - 1)' = Slot(i + c - 1)
               /\ Contents[i + c] = buffer[Slot(i + c - 1)]
    <3>1. /\ i - 1 \in 0 .. Used - c - 1 /\ i - 1 + c = i + c - 1
          /\ i + c \in 1 .. Used
      BY <1>1
    <3> QED BY <1>1, <1>3, <3>1
  <2>5. Contents' = [i \in 1 .. Used - c |-> Contents[i + c]]
    BY <1>1, <1>2, <2>4 DEF Contents
  <2>6. \A i \in 1 .. Used - c : Contents[i + c] \in Byte BY <1>1, <1>3
  <2>7. Contents' \in [1 .. Used - c -> Byte] BY <2>5, <2>6
  <2>8. Contents' \in Seq(Byte) /\ Len(Contents') = Used - c
    BY <1>1, <2>7, FunctionIsSeq
  <2>9. \A i \in 1 .. Len(Contents') : Contents'[i] = t[i] BY <2>3, <2>5, <2>8
  <2>10. Contents' = t BY <2>2, <2>3, <2>8, <2>9, SeqEqual
  <2> QED BY <2>10 DEF t
<1>6. CASE c = 0
  <2>1. SubSeq(Contents, 1, c) = << >> BY <1>6, SubSeqEmpty
  <2>2. got' = got BY <1>2, <1>4, <2>1, ConcatEmptySeq
  <2>3. SubSeq(Contents, c + 1, Len(Contents)) = Contents BY <1>3, <1>6, SubSeqFull
  <2> QED BY <1>5, <2>2, <2>3
<1>7. CASE c # 0
  <2>1. c \in 1 .. Len(Contents) BY <1>1, <1>3, <1>7
  <2> QED BY <1>2, <1>4, <1>5, <2>1 DEF Channel!Get
<1> QED BY <1>6, <1>7

(* Without write(), platform_test.c implements the channel: each step of   *)
(* the driver puts one byte at the tail, takes a run of bytes from the     *)
(* head or leaves the channel as it is, for every ring size and any number *)
(* of readers.                                                             *)
THEOREM ChannelImplemented ==
  ASSUME Writers = {}
  PROVE  Spec => ImplementsChannel
<1>1. Init => Channel!Init
  <2> SUFFICES ASSUME Init PROVE Contents = << >> /\ got = << >>
    BY DEF Channel!Init
  <2>1. Used = 0 /\ got = << >> BY DEF Init, DriverInit, Used
  <2>2. Contents \in [1 .. 0 -> Byte] BY <2>1 DEF Contents
  <2>3. Contents \in Seq(Byte) /\ Len(Contents) = 0 BY <2>2, FunctionIsSeq
  <2> QED BY <2>1, <2>3, EmptySeq
<1>2. IndInv /\ IndInv' /\ [Next]_vars => [Channel!Next]_<<Contents, got>>
  <2> SUFFICES ASSUME IndInv, IndInv', [Next]_vars
               PROVE  Channel!Put \/ Channel!Get \/ UNCHANGED <<Contents, got>>
    BY DEF Channel!Next
  <2>1. CASE UNCHANGED <<ring, history>>
    BY <2>1 DEF ring, history, Contents, Used, Slot
  <2> QED BY <2>1, RingTouched, WorkCopyPuts, ReadCopyGets
<1> QED
  BY <1>1, <1>2, InductiveInvariant, PTL
     DEF Spec, ImplementsChannel, Channel!Spec

-----------------------------------------------------------------------------
(* Without write() no wake-up is lost: wait_event_interruptible tests the  *)
(* ring before it sleeps, and the worker wakes everyone after each chunk,  *)
(* so a sleeper with data waiting is always about to be woken.             *)
THEOREM WakeupCorrect ==
  ASSUME Writers = {}
  PROVE  Spec => []NoLostWakeup
<1>1. Init => NoLostWakeup
  BY DEF Init, DriverInit, NoLostWakeup
<1>2. IndInv /\ NoLostWakeup /\ [Next]_vars => NoLostWakeup'
  <2> SUFFICES ASSUME IndInv, NoLostWakeup, [Next]_vars
               PROVE  NoLostWakeup'
    OBVIOUS
  <2> USE DEF IndInv, TypeOK, DriverTypeOK, NoLostWakeup,
              ring, readers, worker
  <2>1. CASE SendStep BY <2>1 DEF SendStep
  <2>2. CASE WorkStep
    BY <2>2 DEF WorkStep, Work, WorkPoll, WorkIntr, WorkLock, WorkNoRoom,
                WorkCopy, WorkUnlock, WorkWake, WorkAck
  <2>3. ASSUME NEW r \in Readers, ReadStep(r) PROVE NoLostWakeup'
    <3>1. CASE ReadCopy(r) BY <3>1 DEF ReadCopy, ReaderCount
    <3>2. CASE ~ ReadCopy(r)
      BY <2>3, <3>2 DEF ReadStep, Read, ReadCall, ReadLock, ReadIntr, ReadEmpty,
                        ReadWait, ReadCount, ReadFault
    <3> QED BY <3>1, <3>2
  <2>4. CASE UNCHANGED vars BY <2>4 DEF vars
  <2> QED BY <2>1, <2>2, <2>3, <2>4 DEF Next
<1> QED BY <1>1, <1>2, InductiveInvariant, PTL DEF Spec

-----------------------------------------------------------------------------
(* The handshake of the first run. *)

(* What the steps of a reader leave alone. *)
LEMMA ReadLeaves ==
  ASSUME NEW r \in Readers, ReadStep(r)
  PROVE  UNCHANGED <<device, sender, worker, accepted>>
BY DEF ReadStep, Read, ReadCall, ReadLock, ReadIntr, ReadEmpty, ReadWait,
       ReadCount, ReadCopy, ReadFault, history

(* The sender keeps the handshake. *)
LEMMA SendHandshake ==
  ASSUME TypeOK, Handshake, SendStep
  PROVE  Handshake'
<1> USE DeviceAssumption, FilesAssumption
    DEF TypeOK, DeviceTypeOK, SenderTypeOK, DriverTypeOK, Handshake, Untaken,
        device, worker, history, SendStep
<1>1. CASE SendStart BY <1>1 DEF SendStart
<1>2. CASE SendClear BY <1>2 DEF SendClear
<1>3. CASE SendPoll BY <1>3 DEF SendPoll
<1>4. CASE SendFill
  <2>0. run' = run /\ run \in Nat /\ run > 0 BY <1>4 DEF SendFill
  <2> SUFFICES ASSUME run = 1 PROVE Handshake'
    <3>1. CASE run = 1 BY <3>1
    <3>2. CASE run # 1
      <4>1. ~ (run' <= 1) BY <2>0, <3>2
      <4> QED BY <4>1
    <3> QED BY <3>1, <3>2
  <2>1. /\ Len(Files[1]) \in Nat /\ off <= Len(Files[1])
        /\ flag_reg = 0 /\ wpc = "queued" /\ Len(accepted) = off
    BY <1>4 DEF SendFill
  <2>2. ChunkLen \in 0 .. MEM_SIZE BY <2>1 DEF ChunkLen
  <2>3. ASSUME NEW i \in 0 .. chunk' - 1
        PROVE  mem'[i] = Files[1][off' - chunk' + i + 1]
    <3> HIDE DEF Handshake
    <3>1. /\ i \in 0 .. MEM_SIZE - 1 /\ i < ChunkLen
          /\ off' - chunk' = off
      BY <1>4, <2>1, <2>2 DEF SendFill
    <3>2. mem'[i] = Files[1][off + i + 1] BY <1>4, <3>1 DEF SendFill
    <3> QED BY <3>1, <3>2
  <2>4. /\ spc' = "count" /\ flag_reg' = 0 /\ wpc' = "queued" /\ run' = 1
        /\ chunk' = ChunkLen /\ off' = off + ChunkLen /\ accepted' = accepted
    BY <1>4, <2>1 DEF SendFill
  <2> QED BY <2>1, <2>2, <2>3, <2>4
<1>5. CASE SendCount BY <1>5 DEF SendCount
<1>6. CASE SendFlag BY <1>6 DEF SendFlag
<1>7. CASE SendExit BY <1>7 DEF SendExit
<1> QED BY <1>1, <1>2, <1>3, <1>4, <1>5, <1>6, <1>7 DEF SenderNext

(* The worker keeps the handshake. *)
LEMMA WorkHandshake ==
  ASSUME TypeOK, Handshake, WorkStep
  PROVE  Handshake'
<1> USE DeviceAssumption
    DEF TypeOK, DeviceTypeOK, SenderTypeOK, DriverTypeOK, Handshake, Untaken,
        device, sender, history
<1>0. UNCHANGED sender BY DEF WorkStep
<1>1. CASE WorkPoll BY <1>0, <1>1 DEF WorkPoll
<1>2. CASE WorkIntr BY <1>0, <1>2 DEF WorkIntr
<1>3. CASE WorkLock BY <1>0, <1>3 DEF WorkLock, Size
<1>4. CASE WorkNoRoom BY <1>0, <1>4 DEF WorkNoRoom
<1>5. CASE WorkCopy
  <2>1. Len(accepted') = Len(accepted) + 1
    <3>1. mem[wi] \in Byte BY <1>5 DEF WorkCopy
    <3> QED BY <1>5, <3>1, AppendProperties DEF WorkCopy
  <2>2. /\ wpc = "copy" /\ wpc' = "copy" /\ wi' = wi + 1 /\ wi < wcount
        /\ UNCHANGED <<wcount, flag_reg, size_reg, mem, spc, run, off, chunk>>
    BY <1>0, <1>5 DEF WorkCopy
  <2> SUFFICES ASSUME run <= 1 PROVE Handshake' BY <2>2
  <2>3. /\ wi \in Nat /\ wcount \in Nat /\ chunk \in Nat /\ off \in Nat
        /\ Len(accepted) \in Nat
    OBVIOUS
  <2>4. /\ flag_reg = 1 /\ spc \in {"poll", "idle"} /\ wcount = chunk
        /\ Untaken = chunk - wi /\ Untaken' = chunk - (wi + 1)
    BY <2>2
  <2>5. /\ Len(accepted) + (chunk - wi) = off /\ chunk <= off
        /\ \A i \in 0 .. chunk - 1 : mem[i] = Files[1][off - chunk + i + 1]
    BY <2>2, <2>3, <2>4
  <2>6. Len(accepted') + (chunk - (wi + 1)) = off BY <2>1, <2>3, <2>5
  <2> HIDE DEF Untaken
  <2> QED BY <2>2, <2>3, <2>4, <2>5, <2>6
<1>6. CASE WorkUnlock BY <1>0, <1>6 DEF WorkUnlock
<1>7. CASE WorkWake BY <1>0, <1>7 DEF WorkWake
<1>8. CASE WorkAck BY <1>0, <1>8 DEF WorkAck
<1> QED BY <1>1, <1>2, <1>3, <1>4, <1>5, <1>6, <1>7, <1>8 DEF WorkStep, Work

(* The flag hands the data area over and back: without write(), during the *)
(* first run of send_data2.c, sender and worker never use it at once.      *)
THEOREM HandshakeCorrect ==
  ASSUME Writers = {}
  PROVE  Spec => []Handshake
<1>1. Init => Handshake
  BY DeviceAssumption
     DEF Init, DeviceInit, SenderInit, DriverInit, Handshake, Untaken
<1>2. IndInv /\ Handshake /\ [Next]_vars => Handshake'
  <2> SUFFICES ASSUME IndInv, Handshake, [Next]_vars
               PROVE  Handshake'
    OBVIOUS
  <2>1. TypeOK BY DEF IndInv
  <2>2. ASSUME UNCHANGED <<device, sender, worker, accepted>> PROVE Handshake'
    BY <2>2 DEF device, sender, worker, Handshake, Untaken
  <2>3. CASE SendStep BY <2>1, <2>3, SendHandshake
  <2>4. CASE WorkStep BY <2>1, <2>4, WorkHandshake
  <2>5. ASSUME NEW r \in Readers, ReadStep(r) PROVE Handshake'
    BY <2>2, <2>5, ReadLeaves
  <2>6. CASE UNCHANGED vars BY <2>2, <2>6 DEF vars, history
  <2> QED BY <2>3, <2>4, <2>5, <2>6 DEF Next
<1> QED BY <1>1, <1>2, InductiveInvariant, PTL DEF Spec

(* Each byte the worker takes is the next byte of the file. *)
LEMMA WorkCopyInOrder ==
  ASSUME TypeOK, Handshake, FileInOrder, WorkCopy, UNCHANGED sender
  PROVE  FileInOrder'
<1> SUFFICES ASSUME run = 1
             PROVE  /\ Len(accepted') <= Len(Files[1])
                    /\ \A i \in 1 .. Len(accepted') : accepted'[i] = Files[1][i]
  BY DEF FileInOrder, sender
<1>1. /\ wi \in Nat /\ chunk \in Nat /\ off \in Nat /\ wi < chunk
      /\ accepted \in Seq(Byte) /\ Len(accepted) \in Nat /\ mem[wi] \in Byte
      /\ off <= Len(Files[1]) /\ Len(Files[1]) \in Nat
      /\ Len(accepted) + (chunk - wi) = off
      /\ mem[wi] = Files[1][off - chunk + wi + 1]
  <2> USE DeviceAssumption, FilesAssumption
      DEF TypeOK, DeviceTypeOK, SenderTypeOK, DriverTypeOK, WorkCopy
  <2>1. /\ wi \in Nat /\ chunk \in Nat /\ off \in Nat
        /\ accepted \in Seq(Byte) /\ Len(accepted) \in Nat
        /\ off <= Len(Files[1]) /\ Len(Files[1]) \in Nat
    OBVIOUS
  <2>2. wcount = chunk /\ wi < chunk /\ flag_reg = 1 /\ spc \in {"poll", "idle"}
    BY DEF Handshake
  <2>3. Untaken = chunk - wi /\ Untaken > 0 BY <2>1, <2>2 DEF Untaken
  <2>4. /\ Len(accepted) + (chunk - wi) = off
        /\ mem[wi] = Files[1][off - chunk + wi + 1]
    BY <2>1, <2>2, <2>3 DEF Handshake
  <2>5. mem[wi] \in Byte BY <2>2
  <2> QED BY <2>1, <2>2, <2>4, <2>5
<1>2. /\ Len(accepted') = Len(accepted) + 1
      /\ \A i \in 1 .. Len(accepted) : accepted'[i] = accepted[i]
      /\ accepted'[Len(accepted) + 1] = mem[wi]
  BY <1>1, AppendProperties DEF WorkCopy
<1>3. \A i \in 1 .. Len(accepted) : accepted[i] = Files[1][i] BY DEF FileInOrder
<1>4. off - chunk + wi + 1 = Len(accepted) + 1 BY <1>1
<1>5. Len(accepted') <= Len(Files[1]) BY <1>1, <1>2
<1>6. ASSUME NEW i \in 1 .. Len(accepted') PROVE accepted'[i] = Files[1][i]
  <2>1. CASE i = Len(accepted) + 1 BY <1>1, <1>2, <1>4, <2>1
  <2>2. CASE i # Len(accepted) + 1
    <3>1. i \in 1 .. Len(accepted) BY <1>1, <1>2, <2>2
    <3> QED BY <1>2, <1>3, <3>1
  <2> QED BY <2>1, <2>2
<1> QED BY <1>5, <1>6

(* During the first run the bytes accepted are a prefix of the file, for   *)
(* every file, chunk size and ring size.                                   *)
THEOREM FileCorrect ==
  ASSUME Writers = {}
  PROVE  Spec => []FileInOrder
<1>1. Init => FileInOrder
  BY DEF Init, SenderInit, FileInOrder
<1>2. IndInv /\ Handshake /\ FileInOrder /\ [Next]_vars => FileInOrder'
  <2> SUFFICES ASSUME IndInv, Handshake, FileInOrder, [Next]_vars
               PROVE  FileInOrder'
    OBVIOUS
  <2>1. TypeOK BY DEF IndInv
  <2>2. ASSUME UNCHANGED <<sender, accepted>> PROVE FileInOrder'
    BY <2>2 DEF sender, FileInOrder
  <2>3. CASE SendStep
    <3>1. accepted' = accepted BY <2>3 DEF SendStep, history
    <3>2. CASE SendStart
      <4>1. /\ run \in Nat /\ run' = run + 1 /\ off \in Nat
            /\ Len(accepted) \in Nat /\ \A n \in 1 .. Len(Files) : Len(Files[n]) \in Nat
            /\ run < Len(Files) /\ Len(Files) \in Nat
        BY <2>1, <3>2, FilesAssumption
           DEF SendStart, TypeOK, SenderTypeOK, DriverTypeOK
      <4>2. CASE run = 0
        <5>1. Len(accepted) = 0
          BY <4>1, <4>2, <2>1, <3>2
             DEF Handshake, Untaken, SendStart, TypeOK, DeviceTypeOK, DriverTypeOK
        <5> QED BY <3>1, <4>1, <4>2, <5>1 DEF FileInOrder
      <4>3. CASE run # 0 BY <4>1, <4>3 DEF FileInOrder
      <4> QED BY <4>2, <4>3
    <3>3. CASE ~ SendStart
      BY <2>3, <3>1, <3>3
         DEF SendStep, SenderNext, SendClear, SendPoll, SendFill, SendCount,
             SendFlag, SendExit, FileInOrder
    <3> QED BY <3>2, <3>3
  <2>4. CASE WorkStep
    <3>1. UNCHANGED sender BY <2>4 DEF WorkStep
    <3>2. CASE WorkCopy BY <2>1, <3>1, <3>2, WorkCopyInOrder
    <3>3. CASE ~ WorkCopy
      BY <2>2, <2>4, <3>1, <3>3
         DEF WorkStep, Work, WorkPoll, WorkIntr, WorkLock, WorkNoRoom,
             WorkUnlock, WorkWake, WorkAck, history
    <3> QED BY <3>2, <3>3
  <2>5. ASSUME NEW r \in Readers, ReadStep(r) PROVE FileInOrder'
    BY <2>2, <2>5, ReadLeaves
  <2>6. CASE UNCHANGED vars BY <2>2, <2>6 DEF vars, history
  <2> QED BY <2>3, <2>4, <2>5, <2>6 DEF Next
<1> QED BY <1>1, <1>2, InductiveInvariant, HandshakeCorrect, PTL DEF Spec

(* End to end, during the first run: what the readers of /dev/dummy got is *)
(* a prefix of the file that send_data2.c sends.                           *)
THEOREM DeliveryCorrect ==
  ASSUME Writers = {}
  PROVE  Spec => []PrefixDelivered
<1>1. IndInv /\ RingHoldsUnread /\ FileInOrder => PrefixDelivered
  <2> SUFFICES ASSUME IndInv, RingHoldsUnread, FileInOrder, run = 1
               PROVE  /\ Len(got) <= Len(Files[1])
                      /\ \A i \in 1 .. Len(got) : got[i] = Files[1][i]
    BY DEF PrefixDelivered
  <2>1. /\ Used \in Nat /\ Len(got) \in Nat /\ Len(accepted) \in Nat
        /\ Len(Files[1]) \in Nat
    BY SpaceFreeIsFree, FilesAssumption
       DEF IndInv, TypeOK, DriverTypeOK, SenderTypeOK
  <2> QED BY <2>1 DEF RingHoldsUnread, FileInOrder
<1> QED BY <1>1, InductiveInvariant, RingCorrect, FileCorrect, PTL

-----------------------------------------------------------------------------
(* With write(): bytes may be overwritten before they are read, and then   *)
(* wp has passed rp and the reader misses a whole turn of the ring.        *)

(* How many of the accepted bytes are behind the reader, read or missed.   *)
Position == Len(accepted) - Used

(* Until a write() from an unreadable page spoils it, the ring holds from  *)
(* rp on the accepted bytes that follow this position.                     *)
UnreadInPlace ==
  /\ Position >= 0
  /\ faults = 0 => \A i \in 0 .. Used - 1 :
                     buffer[Slot(i)] = accepted[Position + i + 1]

(* The bytes read come from ever later places before this position.        *)
GotFromBehind ==
  faults = 0 =>
    \E from \in [1 .. Len(got) -> 1 .. Position] :
      /\ \A i, j \in 1 .. Len(got) : i < j => from[i] < from[j]
      /\ \A i \in 1 .. Len(got) : got[i] = accepted[from[i]]

OrderInv == UnreadInPlace /\ GotFromBehind

(* Moving wp on by n slots of which none is behind the end of the buffer:  *)
(* either wp stays in front of rp and the slots written are behind the     *)
(* unread ones, or it passes rp and every slot unread then was written.    *)
LEMMA StoreSlots ==
  ASSUME IndInv, NEW n \in Nat, wp + n <= BUFF_SIZE, rp' = rp,
         wp' = IF wp + n >= BUFF_SIZE THEN 0 ELSE wp + n
  PROVE  /\ Used \in Nat /\ Used' \in Nat
         /\ Used' = Used + n \/ (Used' = Used + n - BUFF_SIZE /\ Used' <= n)
         /\ \A i \in 0 .. Used' - 1 :
              /\ Slot(i)' = Slot(i) /\ Slot(i) \in Slots
              /\ i + n >= Used' => Slot(i) = wp + (i + n - Used')
              /\ i + n < Used' => Slot(i) \notin wp .. wp + n - 1
<1>1. /\ rp \in 0 .. BUFF_SIZE - 1 /\ wp \in 0 .. BUFF_SIZE - 1
      /\ BUFF_SIZE \in Nat
  BY DriverAssumption DEF IndInv, TypeOK, DriverTypeOK
<1> QED BY <1>1 DEF Used, Slot

(* The bytes s are accepted and stored at wp, none behind the buffer.       *)
Stores(s) ==
  /\ s \in Seq(Byte)
  /\ wp + Len(s) <= BUFF_SIZE
  /\ wp' = IF wp + Len(s) >= BUFF_SIZE THEN 0 ELSE wp + Len(s)
  /\ accepted' = accepted \o s
  /\ \A j \in Slots : buffer'[j] = IF j \in wp .. wp + Len(s) - 1
                                   THEN s[j - wp + 1] ELSE buffer[j]
  /\ UNCHANGED <<rp, got, faults>>

(* Accepting bytes and storing them at wp keeps the order.                 *)
LEMMA StoreOrder ==
  ASSUME IndInv, OrderInv, NEW s, Stores(s)
  PROVE  OrderInv'
<1>0. PICK n \in Nat : n = Len(s) BY DEF Stores
<1>1. /\ wp \in Nat /\ BUFF_SIZE \in Nat \ {0}
      /\ accepted \in Seq(Byte) /\ Len(accepted) \in Nat
      /\ Len(got) \in Nat
  BY DriverAssumption DEF IndInv, TypeOK, DriverTypeOK
<1>2. /\ Len(accepted') = Len(accepted) + n
      /\ \A i \in 1 .. Len(accepted) : accepted'[i] = accepted[i]
      /\ \A i \in 1 .. n : accepted'[Len(accepted) + i] = s[i]
  <2>1. /\ Len(accepted \o s) = Len(accepted) + Len(s)
        /\ \A i \in 1 .. Len(accepted) + Len(s) :
             (accepted \o s)[i] = IF i <= Len(accepted) THEN accepted[i]
                                  ELSE s[i - Len(accepted)]
    BY <1>1, ConcatProperties DEF Stores
  <2>2. ASSUME NEW i \in 1 .. n PROVE accepted'[Len(accepted) + i] = s[i]
    <3>1. /\ Len(accepted) + i \in 1 .. Len(accepted) + Len(s)
          /\ Len(accepted) + i > Len(accepted)
          /\ Len(accepted) + i - Len(accepted) = i
      BY <1>0, <1>1
    <3>2. accepted' = accepted \o s BY DEF Stores
    <3> QED BY <2>1, <3>1, <3>2
  <2>3. accepted' = accepted \o s BY DEF Stores
  <2> QED BY <1>0, <1>1, <2>1, <2>2, <2>3
<1>3. PICK u \in Nat : u = Used' BY <1>0, <1>1, StoreSlots DEF Stores
<1>4. /\ Used \in Nat
      /\ u = Used + n \/ (u = Used + n - BUFF_SIZE /\ u <= n)
      /\ \A i \in 0 .. u - 1 :
           /\ Slot(i)' = Slot(i) /\ Slot(i) \in Slots
           /\ i + n >= u => Slot(i) = wp + (i + n - u)
           /\ i + n < u => Slot(i) \notin wp .. wp + n - 1
  BY <1>0, <1>1, <1>3, StoreSlots DEF Stores
<1>5. PICK p, q \in Nat : p = Position /\ q = Position'
  <2>1. Position = Len(accepted) - Used /\ Position >= 0
    BY DEF OrderInv, UnreadInPlace, Position
  <2>2. Position' = Len(accepted) + n - u BY <1>2, <1>3 DEF Position
  <2>3. /\ Len(accepted) - Used \in Nat
        /\ Len(accepted) + n - u \in Nat
    BY <1>1, <1>4, <2>1
  <2> QED BY <2>1, <2>2, <2>3
<1>6. /\ p + Used = Len(accepted) /\ q + u = Len(accepted) + n /\ p <= q
      /\ u # Used + n => u <= n
  <2>1. p = Len(accepted) - Used BY <1>5 DEF Position
  <2>2. q = Len(accepted) + n - u BY <1>2, <1>3, <1>5 DEF Position
  <2> QED BY <1>1, <1>4, <2>1, <2>2
<1>7. faults' = faults /\ got' = got BY DEF Stores
<1>8. ASSUME faults = 0, NEW i \in 0 .. u - 1
      PROVE  buffer'[Slot(i)] = accepted'[q + i + 1]
  <2>1. /\ Slot(i) \in Slots
        /\ i + n >= u => Slot(i) = wp + (i + n - u)
        /\ i + n < u => Slot(i) \notin wp .. wp + n - 1
    BY <1>4
  <2>2. CASE i + n >= u
    <3>1. PICK k \in 0 .. n - 1 : k = i + n - u
      <4>1. i + n - u \in 0 .. n - 1 BY <2>2
      <4> QED BY <4>1
    <3>2. Slot(i) = wp + k BY <2>1, <2>2, <3>1
    <3>3. Slot(i) \in wp .. wp + n - 1 /\ Slot(i) - wp + 1 = k + 1
      BY <1>1, <3>2
    <3>4. buffer'[Slot(i)] = s[k + 1] BY <1>0, <2>1, <3>3 DEF Stores
    <3>5. accepted'[Len(accepted) + (k + 1)] = s[k + 1]
      <4>1. k + 1 \in 1 .. n OBVIOUS
      <4> QED BY <1>2, <4>1
    <3>6. Len(accepted) + (k + 1) = q + i + 1
      BY <1>1, <1>6, <3>1
    <3> QED BY <3>4, <3>5, <3>6
  <2>3. CASE i + n < u
    <3>1. u = Used + n /\ i \in 0 .. Used - 1 /\ q = p
      BY <1>1, <1>4, <1>6, <2>3
    <3>2. buffer'[Slot(i)] = buffer[Slot(i)] BY <1>0, <2>1, <2>3 DEF Stores
    <3>3. buffer[Slot(i)] = accepted[p + i + 1]
      BY <1>8, <1>5, <3>1 DEF OrderInv, UnreadInPlace
    <3>4. p + i + 1 \in 1 .. Len(accepted) BY <1>1, <1>4, <1>6, <3>1
    <3> QED BY <1>2, <3>1, <3>2, <3>3, <3>4
  <2> QED BY <2>2, <2>3
<1>9. UnreadInPlace'
  <2>1. Position' >= 0 BY <1>5
  <2>2. ASSUME faults' = 0, NEW i \in 0 .. Used' - 1
        PROVE  buffer'[Slot(i)'] = accepted'[Position' + i + 1]
    BY <1>3, <1>4, <1>5, <1>7, <1>8, <2>2
  <2> QED BY <2>1, <2>2 DEF UnreadInPlace
<1>10. GotFromBehind'
  <2> SUFFICES ASSUME faults = 0
      PROVE \E from \in [1 .. Len(got) -> 1 .. q] :
              /\ \A i, j \in 1 .. Len(got) : i < j => from[i] < from[j]
              /\ \A i \in 1 .. Len(got) : got[i] = accepted'[from[i]]
    BY <1>5, <1>7 DEF GotFromBehind
  <2>1. PICK from \in [1 .. Len(got) -> 1 .. p] :
          /\ \A i, j \in 1 .. Len(got) : i < j => from[i] < from[j]
          /\ \A i \in 1 .. Len(got) : got[i] = accepted[from[i]]
    BY <1>5 DEF OrderInv, GotFromBehind
  <2>2. \A i \in 1 .. Len(got) :
          from[i] \in 1 .. q /\ from[i] \in 1 .. Len(accepted)
    BY <1>1, <1>4, <1>6
  <2>3. from \in [1 .. Len(got) -> 1 .. q] BY <2>2
  <2>4. \A i \in 1 .. Len(got) : got[i] = accepted'[from[i]]
    BY <1>2, <2>1, <2>2
  <2> QED BY <2>1, <2>3, <2>4
<1> QED BY <1>9, <1>10 DEF OrderInv

(* A reader takes the bytes that follow the position and moves it past.    *)
LEMMA ReadCopyOrder ==
  ASSUME IndInv, OrderInv, NEW r \in Readers, ReadCopy(r)
  PROVE  OrderInv'
<1> DEFINE c == count[r]
<1>1. /\ rp \in Nat /\ Len(accepted) \in Nat
      /\ got \in Seq(Byte) /\ Len(got) \in Nat
      /\ Taken(r) \in Seq(Byte) /\ Len(Taken(r)) = c
  BY CopyBound, TakenSeq DEF IndInv, TypeOK, DriverTypeOK, ReadCopy
<1>2. /\ c \in Nat /\ Used \in Nat /\ c <= Used
      /\ Used' = Used - c
      /\ \A i \in 0 .. Used - c - 1 : Slot(i)' = Slot(i + c)
      /\ \A i \in 0 .. c - 1 : Slot(i) = rp + i
  BY ReadCopySlots
<1>3. got' = got \o Taken(r) /\ UNCHANGED <<accepted, buffer, faults>>
  BY DEF ReadCopy
<1>4. /\ Len(got') = Len(got) + c
      /\ \A i \in 1 .. Len(got) + c :
           got'[i] = IF i <= Len(got) THEN got[i] ELSE Taken(r)[i - Len(got)]
  <2> DEFINE t == Taken(r)
  <2>1. t \in Seq(Byte) /\ got \in Seq(Byte) BY <1>1
  <2> HIDE DEF t
  <2>2. /\ Len(got \o t) = Len(got) + Len(t)
        /\ \A i \in 1 .. Len(got) + Len(t) :
             (got \o t)[i] = IF i <= Len(got) THEN got[i] ELSE t[i - Len(got)]
    BY <2>1, ConcatProperties
  <2> QED BY <1>1, <1>3, <2>2 DEF t
<1>5. \A j \in 1 .. c : Taken(r)[j] = buffer[rp + j - 1] BY DEF Taken
<1> HIDE DEF c
<1>6. /\ Position \in Nat /\ Position' = Position + c
      /\ Position + Used = Len(accepted)
  BY <1>1, <1>2, <1>3 DEF OrderInv, UnreadInPlace, Position
<1>7. UnreadInPlace'
  <2>1. Position' >= 0 BY <1>2, <1>6
  <2>2. ASSUME faults' = 0, NEW i \in 0 .. Used' - 1
        PROVE  buffer'[Slot(i)'] = accepted'[Position' + i + 1]
    <3>1. i + c \in 0 .. Used - 1 /\ Slot(i)' = Slot(i + c) BY <1>2
    <3>2. buffer[Slot(i + c)] = accepted[Position + (i + c) + 1]
      BY <1>3, <2>2, <3>1 DEF OrderInv, UnreadInPlace
    <3>3. Position + (i + c) + 1 = Position' + i + 1 BY <1>2, <1>6
    <3> QED BY <1>3, <3>1, <3>2, <3>3
  <2> QED BY <2>1, <2>2 DEF UnreadInPlace
<1>8. ASSUME faults = 0, NEW i \in Len(got) + 1 .. Len(got) + c
      PROVE  got'[i] = accepted[Position + (i - Len(got))]
  <2>1. PICK j \in 1 .. c : i = Len(got) + j
    <3>1. i - Len(got) \in 1 .. c BY <1>1, <1>2
    <3> QED BY <1>1, <3>1
  <2>2. got'[i] = Taken(r)[j] BY <1>1, <1>2, <1>4, <2>1
  <2>3. Taken(r)[j] = buffer[Slot(j - 1)]
    <3>1. Slot(j - 1) = rp + j - 1 BY <1>1, <1>2
    <3> QED BY <1>5, <3>1
  <2>4. buffer[Slot(j - 1)] = accepted[Position + (j - 1) + 1]
    <3>1. j - 1 \in 0 .. Used - 1 BY <1>1, <1>2
    <3> QED BY <1>8, <3>1 DEF OrderInv, UnreadInPlace
  <2>5. Position + (j - 1) + 1 = Position + (i - Len(got)) BY <1>1, <1>6, <2>1
  <2> QED BY <2>2, <2>3, <2>4, <2>5
<1>9. GotFromBehind'
  <2> SUFFICES ASSUME faults = 0
      PROVE \E from \in [1 .. Len(got') -> 1 .. Position'] :
              /\ \A i, j \in 1 .. Len(got') : i < j => from[i] < from[j]
              /\ \A i \in 1 .. Len(got') : got'[i] = accepted[from[i]]
    BY <1>3 DEF GotFromBehind
  <2>1. PICK old \in [1 .. Len(got) -> 1 .. Position] :
          /\ \A i, j \in 1 .. Len(got) : i < j => old[i] < old[j]
          /\ \A i \in 1 .. Len(got) : got[i] = accepted[old[i]]
    BY DEF OrderInv, GotFromBehind
  <2> DEFINE from == [i \in 1 .. Len(got') |->
                        IF i <= Len(got) THEN old[i]
                        ELSE Position + (i - Len(got))]
  <2>2. \A i \in 1 .. Len(got') :
          /\ i <= Len(got) => from[i] = old[i] /\ old[i] \in 1 .. Position
          /\ i > Len(got) => from[i] = Position + (i - Len(got))
    BY <1>1
  <2> HIDE DEF from
  <2>3. \A i \in 1 .. Len(got') : from[i] \in 1 .. Position'
    BY <1>1, <1>2, <1>4, <1>6, <2>2
  <2>4. from \in [1 .. Len(got') -> 1 .. Position'] BY <2>3 DEF from
  <2>5. ASSUME NEW i \in 1 .. Len(got'), NEW j \in 1 .. Len(got'), i < j
        PROVE  from[i] < from[j]
    <3>1. CASE j <= Len(got)
      <4>1. i \in 1 .. Len(got) /\ j \in 1 .. Len(got) BY <1>1, <1>2, <1>4, <2>5, <3>1
      <4>2. old[i] < old[j] BY <2>1, <2>5, <4>1
      <4> QED BY <2>2, <4>1, <4>2
    <3>2. CASE i <= Len(got) /\ j > Len(got)
      <4>1. /\ from[i] \in 1 .. Position
            /\ from[j] = Position + (j - Len(got))
        BY <2>2, <3>2
      <4> QED BY <1>1, <1>2, <1>4, <1>6, <3>2, <4>1
    <3>3. CASE i > Len(got)
      <4>1. /\ from[i] = Position + (i - Len(got))
            /\ from[j] = Position + (j - Len(got))
        BY <1>1, <1>2, <1>4, <2>2, <2>5, <3>3
      <4> QED BY <1>1, <1>2, <1>4, <1>6, <2>5, <4>1
    <3> QED BY <1>1, <1>2, <1>4, <3>1, <3>2, <3>3
  <2>6. ASSUME NEW i \in 1 .. Len(got') PROVE got'[i] = accepted[from[i]]
    <3>1. CASE i <= Len(got)
      <4>1. i \in 1 .. Len(got) BY <1>1, <3>1
      <4>2. got'[i] = got[i] BY <1>1, <1>4, <3>1
      <4> QED BY <2>1, <2>2, <3>1, <4>1, <4>2
    <3>2. CASE i > Len(got)
      <4>1. i \in Len(got) + 1 .. Len(got) + c BY <1>1, <1>2, <1>4, <3>2
      <4> QED BY <1>8, <2>2, <3>2, <4>1
    <3> QED BY <1>1, <1>2, <1>4, <3>1, <3>2
  <2> QED BY <2>4, <2>5, <2>6
<1> QED BY <1>7, <1>9 DEF OrderInv

(* The worker's copy loop stores one byte. *)
LEMMA WorkCopyOrder ==
  ASSUME IndInv, OrderInv, WorkCopy
  PROVE  OrderInv'
<1> DEFINE s == << mem[wi] >>
<1>1. /\ rp \in 0 .. BUFF_SIZE - 1 /\ wp \in 0 .. BUFF_SIZE - 1
      /\ BUFF_SIZE \in Nat /\ buffer \in [0 .. BUFF_SIZE - 1 -> Byte]
      /\ accepted \in Seq(Byte) /\ mem[wi] \in Byte
  BY DriverAssumption, DeviceAssumption
     DEF IndInv, TypeOK, DriverTypeOK, DeviceTypeOK, WorkCopy
<1>2. s \in Seq(Byte) /\ Len(s) = 1 /\ s[1] = mem[wi] BY <1>1
<1>3. accepted' = accepted \o s BY <1>1 DEF WorkCopy
<1>4. /\ buffer' = [buffer EXCEPT ![wp] = mem[wi]]
      /\ wp' = Wrap(wp + 1)
      /\ UNCHANGED <<rp, got, faults>>
  BY DEF WorkCopy
<1> HIDE DEF s
<1>5. wp + Len(s) <= BUFF_SIZE BY <1>1, <1>2
<1>6. wp' = IF wp + Len(s) >= BUFF_SIZE THEN 0 ELSE wp + Len(s)
  BY <1>1, <1>2, <1>4 DEF Wrap
<1>7. \A j \in Slots : buffer'[j] = IF j \in wp .. wp + Len(s) - 1
                                    THEN s[j - wp + 1] ELSE buffer[j]
  BY <1>1, <1>2, <1>4
<1> QED BY <1>2, <1>3, <1>4, <1>5, <1>6, <1>7, StoreOrder DEF Stores

(* A write() stores its bytes up to the end of the buffer. *)
LEMMA WriteCopyOrder ==
  ASSUME IndInv, OrderInv, NEW w \in Writers, WriteCopy(w)
  PROVE  OrderInv'
<1> DEFINE s == SubSeq(arg[w], 1, WriteLen(w))
<1>1. /\ wp \in 0 .. BUFF_SIZE - 1 /\ BUFF_SIZE \in Nat
      /\ arg[w] \in Seq(Byte) /\ Len(arg[w]) \in Nat
      /\ WriteLen(w) \in 0 .. Len(arg[w]) /\ wp + WriteLen(w) <= BUFF_SIZE
  BY DriverAssumption DEF IndInv, TypeOK, DriverTypeOK, WriteLen
<1>2. /\ s \in Seq(Byte) /\ Len(s) = WriteLen(w)
      /\ \A i \in 1 .. WriteLen(w) : s[i] = arg[w][i]
  BY <1>1
<1>3. /\ accepted' = accepted \o s
      /\ buffer' = Stored(arg[w], WriteLen(w), WriteLen(w))
      /\ wp' = IF wp + WriteLen(w) >= BUFF_SIZE THEN 0 ELSE wp + WriteLen(w)
      /\ UNCHANGED <<rp, got, faults>>
  BY DEF WriteCopy
<1> HIDE DEF s
<1>4. ASSUME NEW j \in Slots
      PROVE  buffer'[j] = IF j \in wp .. wp + Len(s) - 1
                          THEN s[j - wp + 1] ELSE buffer[j]
  <2>1. CASE j \in wp .. wp + Len(s) - 1
    <3>1. j - wp + 1 \in 1 .. WriteLen(w) BY <1>1, <1>2, <2>1
    <3>2. ~ (j < wp \/ j >= wp + WriteLen(w)) /\ j < wp + WriteLen(w)
      BY <1>1, <1>2, <2>1
    <3>3. buffer'[j] = arg[w][j - wp + 1] BY <1>3, <3>2 DEF Stored
    <3> QED BY <1>2, <2>1, <3>1, <3>3
  <2>2. CASE j \notin wp .. wp + Len(s) - 1
    <3>1. j < wp \/ j >= wp + WriteLen(w) BY <1>1, <1>2, <2>2
    <3>2. buffer'[j] = buffer[j] BY <1>3, <3>1 DEF Stored
    <3> QED BY <2>2, <3>2
  <2> QED BY <2>1, <2>2
<1> QED BY <1>1, <1>2, <1>3, <1>4, StoreOrder DEF Stores

(* A step that touches neither ring nor history keeps the order. *)
LEMMA OrderLeft ==
  ASSUME OrderInv, UNCHANGED <<ring, history>>
  PROVE  OrderInv'
BY DEF OrderInv, UnreadInPlace, GotFromBehind, Position, Used, Slot, ring, history

(* A failed copy_from_user ends the premise and leaves the pointers. *)
LEMMA WriteFaultOrder ==
  ASSUME IndInv, OrderInv, NEW w \in Writers, WriteFault(w)
  PROVE  OrderInv'
<1>1. faults \in Nat /\ faults' = faults + 1 /\ faults' # 0
  BY DEF IndInv, TypeOK, DriverTypeOK, WriteFault
<1>2. Position' = Position BY DEF WriteFault, Position, Used
<1> QED BY <1>1, <1>2 DEF OrderInv, UnreadInPlace, GotFromBehind

(* For every ring, any writers, readers and worker: what readers get of    *)
(* the bytes put into the ring is in their order and nothing twice, also   *)
(* when plat_dummy_write overwrites unread bytes, until a copy from user   *)
(* space fails.                                                            *)
THEOREM OrderCorrect == Spec => []GotInOrder
<1>1. Init => OrderInv
  <2> SUFFICES ASSUME Init PROVE OrderInv OBVIOUS
  <2>1. accepted = << >> /\ got = << >> /\ Used = 0
    BY DEF Init, DriverInit, Used
  <2>2. Position = 0 BY <2>1 DEF Position
  <2>3. UnreadInPlace BY <2>1, <2>2 DEF UnreadInPlace
  <2>4. [i \in 1 .. Len(got) |-> 1] \in [1 .. Len(got) -> 1 .. Position]
    BY <2>1
  <2>5. Len(got) = 0 /\ 1 .. Len(got) = {} BY <2>1
  <2>6. GotFromBehind BY <2>4, <2>5 DEF GotFromBehind
  <2> QED BY <2>3, <2>6 DEF OrderInv
<1>2. IndInv /\ OrderInv /\ [Next]_vars => OrderInv'
  <2> SUFFICES ASSUME IndInv, OrderInv, [Next]_vars PROVE OrderInv'
    OBVIOUS
  <2>1. CASE SendStep BY <2>1, OrderLeft DEF SendStep
  <2>2. CASE WorkStep
    <3>1. CASE WorkCopy BY <3>1, WorkCopyOrder
    <3>2. CASE ~ WorkCopy
      <4>1. UNCHANGED <<ring, history>>
        BY <2>2, <3>2 DEF WorkStep, Work, WorkPoll, WorkIntr, WorkLock,
             WorkNoRoom, WorkUnlock, WorkWake, WorkAck
      <4> QED BY <4>1, OrderLeft
    <3> QED BY <3>1, <3>2
  <2>3. ASSUME NEW r \in Readers, ReadStep(r) PROVE OrderInv'
    <3>1. CASE ReadCopy(r) BY <3>1, ReadCopyOrder
    <3>2. CASE ~ ReadCopy(r)
      <4>1. UNCHANGED <<ring, history>>
        BY <2>3, <3>2 DEF ReadStep, Read, ReadCall, ReadLock, ReadIntr,
             ReadEmpty, ReadWait, ReadCount, ReadFault
      <4> QED BY <4>1, OrderLeft
    <3> QED BY <3>1, <3>2
  <2>4. ASSUME NEW w \in Writers, WriteStep(w) PROVE OrderInv'
    <3>1. CASE WriteCopy(w) BY <3>1, WriteCopyOrder
    <3>2. CASE WriteFault(w) BY <3>2, WriteFaultOrder
    <3>3. CASE ~ WriteCopy(w) /\ ~ WriteFault(w)
      <4>1. UNCHANGED <<ring, history>>
        BY <2>4, <3>3 DEF WriteStep, Write, WriteCall, WriteLock, WriteIntr
      <4> QED BY <4>1, OrderLeft
    <3> QED BY <3>1, <3>2, <3>3
  <2>5. CASE UNCHANGED vars BY <2>5, OrderLeft DEF vars
  <2> QED BY <2>1, <2>2, <2>3, <2>4, <2>5 DEF Next
<1>3. IndInv /\ OrderInv => GotInOrder
  <2> SUFFICES ASSUME IndInv, OrderInv, faults = 0,
                      NEW i \in 1 .. Len(got), NEW j \in 1 .. Len(got), i < j
      PROVE \E k, l \in 1 .. Len(accepted) :
              k < l /\ accepted[k] = got[i] /\ accepted[l] = got[j]
    BY DEF GotInOrder
  <2>1. PICK from \in [1 .. Len(got) -> 1 .. Position] :
          /\ \A m, n \in 1 .. Len(got) : m < n => from[m] < from[n]
          /\ \A m \in 1 .. Len(got) : got[m] = accepted[from[m]]
    BY DEF OrderInv, GotFromBehind
  <2>2. from[i] < from[j] BY <2>1
  <2>3. /\ Used \in Nat /\ Len(accepted) \in Nat
    BY SpaceFreeIsFree DEF IndInv, TypeOK, DriverTypeOK
  <2>4. Position <= Len(accepted) BY <2>3 DEF Position
  <2>5. from[i] \in 1 .. Position /\ from[j] \in 1 .. Position OBVIOUS
  <2>6. from[i] \in 1 .. Len(accepted) /\ from[j] \in 1 .. Len(accepted)
    BY <2>3, <2>4, <2>5 DEF Position
  <2> QED BY <2>1, <2>2, <2>6
<1> QED BY <1>1, <1>2, <1>3, InductiveInvariant, PTL DEF Spec

=============================================================================
