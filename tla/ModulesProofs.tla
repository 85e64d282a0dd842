---------------------------- MODULE ModulesProofs ----------------------------
(***************************************************************************)
(* Proofs about the modules that MCModules puts side by side and that have *)
(* no proof module of their own: the event list, the deferred work, the    *)
(* timer, the work queue and the platform driver of HW11; and about all of *)
(* them together.                                                          *)
(***************************************************************************)
EXTENDS MCModules, MmapProofs, FiniteSetTheorems, SequenceTheorems,
        WellFoundedInduction

-----------------------------------------------------------------------------
(* EventList *)

EventTypes ==
  /\ loaded \in BOOLEAN
  /\ list \in Seq(Nat) /\ printed \in Seq(Nat) /\ overflow \in Seq(Nat)
  /\ current_number \in Nat
  /\ tpc \in {"idle", "lock", "rearm"}

(* The number that timer_callback is about to store is greater than all    *)
(* numbers dealt with.                                                     *)
NumbersGrow ==
  /\ Dealt \in Nat
  /\ \A i \in 1 .. Len(printed) : printed[i] <= Dealt
  /\ \A i \in Filled : list[i] <= Dealt

EventInv == EventTypes /\ NumbersGrow /\ Fifo /\ NoneLost

(* The filled elements are finitely many; if there is one there is a first.*)
LEMMA FilledFinite ==
  ASSUME list \in Seq(Nat)
  PROVE  /\ IsFiniteSet(Filled) /\ Cardinality(Filled) \in Nat
         /\ Filled # {} => First \in Filled /\ \A j \in Filled : First <= j
<1>1. IsFiniteSet(Filled) /\ Cardinality(Filled) \in Nat
  <2>1. Len(list) \in Nat /\ IsFiniteSet(1 .. Len(list)) BY FS_Interval
  <2>2. Filled \in SUBSET (1 .. Len(list)) BY DEF Filled
  <2> QED BY <2>1, <2>2, FS_Subset, FS_CardinalityType
<1>2. ASSUME Filled # {} PROVE \E i \in Filled : \A j \in Filled : i <= j
  <2>1. Filled \subseteq Nat BY DEF Filled
  <2>2. PICK i \in Filled : \A j \in Filled : ~ (<<j, i>> \in OpToRel(<, Nat))
    BY <1>2, <2>1, NatLessThanWellFounded, WFMin
  <2>3. \A j \in Filled : ~ (j < i) BY <2>1, <2>2 DEF OpToRel
  <2>4. \A j \in Filled : i <= j BY <2>1, <2>3
  <2> QED BY <2>4
<1>3. Filled # {} => First \in Filled /\ \A j \in Filled : First <= j
  BY <1>2 DEF First
<1> QED BY <1>1, <1>3

LEMMA EventInitInv == EventInit => EventInv
<1> SUFFICES ASSUME EventInit PROVE EventInv
  OBVIOUS
<1>1. PICK n \in Allocated : list = [i \in 1 .. n |-> 0] BY DEF EventInit
<1>2. n \in Nat /\ list \in [1 .. n -> Nat] BY <1>1, EventAssumption
<1>3. list \in Seq(Nat) BY <1>2, SeqDef
<1>4. Filled = {} BY <1>1, <1>2, <1>3, LenProperties DEF Filled
<1>5. Cardinality(Filled) = 0 BY <1>4, FS_EmptySet
<1>6. /\ printed = << >> /\ overflow = << >> /\ current_number = 0
      /\ tpc = "idle" /\ loaded = TRUE
  BY DEF EventInit
<1> QED BY <1>3, <1>4, <1>5, <1>6
        DEF EventInv, EventTypes, NumbersGrow, Dealt, Fifo, NoneLost

(* The timer stores in the first element and rotates the list by one.      *)
LEMMA TimerStoreStep ==
  ASSUME EventInv, TimerStore
  PROVE  EventInv'
<1> DEFINE n == Len(list)
           Before == {i - 1 : i \in Filled}
<1>1. /\ list \in Seq(Nat) /\ n \in Nat \ {0} /\ list[1] = 0
      /\ current_number \in Nat /\ tpc = "lock" /\ loaded
      /\ Dealt = current_number - 1 /\ Dealt \in Nat
  BY DEF EventInv, EventTypes, NumbersGrow, Dealt, TimerStore
<1>2. /\ list' \in Seq(Nat) /\ Len(list') = n
      /\ \A i \in 1 .. n - 1 : list'[i] = list[i + 1]
      /\ list'[n] = current_number
  <2>1. /\ Tail(list) \in Seq(Nat) /\ Len(Tail(list)) = n - 1
        /\ \A i \in 1 .. n - 1 : Tail(list)[i] = list[i + 1]
    BY <1>1
  <2>2. list' = Append(Tail(list), current_number) BY DEF TimerStore
  <2> QED BY <1>1, <2>1, <2>2
<1>3. current_number # 0 BY <1>1
<1>4. Filled \subseteq 2 .. n BY <1>1 DEF Filled
<1>5. Filled' = Before \cup {n}
  <2>1. ASSUME NEW i \in Filled' PROVE i \in Before \cup {n}
    <3>1. i \in 1 .. n /\ list'[i] # 0 BY <1>2, <2>1 DEF Filled
    <3>2. CASE i = n BY <3>2
    <3>3. CASE i # n
      <4>1. i + 1 \in Filled BY <1>1, <1>2, <3>1, <3>3 DEF Filled
      <4>2. i = (i + 1) - 1 BY <3>1
      <4> QED BY <4>1, <4>2
    <3> QED BY <3>2, <3>3
  <2>2. ASSUME NEW i \in Filled PROVE i - 1 \in Filled'
    <3>1. /\ i \in 2 .. n /\ i - 1 \in 1 .. n - 1 /\ (i - 1) + 1 = i /\ list[i] # 0
      BY <1>1, <1>4 DEF Filled
    <3>2. list'[i - 1] = list[i] BY <1>2, <3>1
    <3> QED BY <1>1, <1>2, <3>1, <3>2 DEF Filled
  <2>3. n \in Filled' BY <1>1, <1>2, <1>3 DEF Filled
  <2> QED BY <2>1, <2>2, <2>3
<1>6. Cardinality(Filled') = Cardinality(Filled) + 1
  <2> DEFINE f == [i \in Filled |-> i - 1]
  <2>1. f \in Bijection(Filled, Before)
    <3>1. f \in [Filled -> Before] OBVIOUS
    <3>2. \A i, j \in Filled : f[i] = f[j] => i = j BY <1>1, <1>4
    <3>3. \A b \in Before : \E i \in Filled : f[i] = b OBVIOUS
    <3> QED BY <3>1, <3>2, <3>3 DEF Bijection, Injection, Surjection, IsInjective
  <2>2. IsFiniteSet(Before) /\ Cardinality(Before) = Cardinality(Filled)
    BY <1>1, <2>1, FilledFinite, FS_Bijection DEF ExistsBijection
  <2>3. \A i \in Filled : i - 1 # n BY <1>1, <1>4
  <2>4. n \notin Before BY <2>3
  <2> QED BY <1>5, <2>2, <2>4, FS_AddElement
<1>7. /\ printed' = printed /\ overflow' = overflow /\ loaded' = loaded
      /\ current_number' = current_number /\ tpc' = "rearm"
  BY DEF TimerStore
<1>8. Dealt' = Dealt + 1 BY <1>1, <1>7 DEF Dealt
<1>9. \A i \in Filled' :
        \/ i = n /\ list'[i] = current_number
        \/ i \in 1 .. n - 1 /\ i + 1 \in Filled /\ list'[i] = list[i + 1]
  <2> TAKE i \in Filled'
  <2>1. i \in 1 .. n /\ list'[i] # 0 BY <1>2 DEF Filled
  <2>2. CASE i = n
    <3>1. list'[i] = current_number BY <1>2, <2>2
    <3> QED BY <2>2, <3>1
  <2>3. CASE i # n
    <3>1. i \in 1 .. n - 1 /\ list'[i] = list[i + 1] BY <1>1, <1>2, <2>1, <2>3
    <3>2. i + 1 \in Filled BY <1>1, <2>1, <3>1 DEF Filled
    <3> QED BY <3>1, <3>2
  <2> QED BY <2>2, <2>3
<1>10. \A i \in Filled : list[i] \in Nat /\ list[i] <= Dealt
  BY <1>1 DEF EventInv, NumbersGrow, Filled
<1>11. printed \in Seq(Nat) /\ \A i \in 1 .. Len(printed) : printed[i] <= Dealt
  BY DEF EventInv, EventTypes, NumbersGrow
<1> HIDE DEF n, Before
<1>12. EventTypes' BY <1>2, <1>7 DEF EventInv, EventTypes
<1>13. NumbersGrow'
  <2>1. \A i \in Filled' : list'[i] <= Dealt' BY <1>1, <1>8, <1>9, <1>10
  <2>2. \A i \in 1 .. Len(printed') : printed'[i] <= Dealt'
    BY <1>1, <1>7, <1>8, <1>11
  <2> QED BY <1>1, <1>8, <2>1, <2>2 DEF NumbersGrow
<1>14. Fifo'
  <2>1. \A i \in 1 .. Len(printed'), j \in Filled' : printed'[i] < list'[j]
    <3>1. \A i \in 1 .. Len(printed), j \in Filled : printed[i] < list[j]
      BY DEF EventInv, Fifo
    <3> QED BY <1>1, <1>7, <1>9, <1>11, <3>1
  <2>2. \A i, j \in Filled' : i < j => list'[i] < list'[j]
    <3>1. \A i, j \in Filled : i < j => list[i] < list[j] BY DEF EventInv, Fifo
    <3>2. ASSUME NEW i \in Filled', NEW j \in Filled', i < j
          PROVE  list'[i] < list'[j]
      <4>1. i \in 1 .. n - 1 /\ i + 1 \in Filled /\ list'[i] = list[i + 1]
        <5>1. j \in 1 .. n BY <1>1, <1>9
        <5> QED BY <1>1, <1>9, <3>2, <5>1
      <4>2. CASE j = n /\ list'[j] = current_number BY <1>1, <1>10, <4>1, <4>2
      <4>3. CASE j \in 1 .. n - 1 /\ j + 1 \in Filled /\ list'[j] = list[j + 1]
        <5>1. i + 1 < j + 1 BY <1>1, <3>2, <4>1, <4>3
        <5> QED BY <3>1, <4>1, <4>3, <5>1
      <4> QED BY <1>9, <4>2, <4>3
    <3> QED BY <3>2
  <2> QED BY <2>1, <2>2 DEF Fifo
<1>15. NoneLost'
  BY <1>1, <1>6, <1>7, <1>8, FilledFinite DEF EventInv, EventTypes, NoneLost
<1> QED BY <1>12, <1>13, <1>14, <1>15 DEF EventInv

(* The other callback takes the first number and empties its element.      *)
LEMMA IrqTakeStep ==
  ASSUME EventInv, IrqTake
  PROVE  EventInv'
<1>1. /\ list \in Seq(Nat) /\ printed \in Seq(Nat) /\ Dealt \in Nat
      /\ overflow' = overflow /\ loaded' = loaded /\ Dealt' = Dealt
      /\ current_number' = current_number /\ tpc' = tpc
  BY DEF EventInv, EventTypes, NumbersGrow, Dealt, IrqTake
<1>2. CASE Filled = {}
  <2>1. list' = list /\ printed' = printed BY <1>2 DEF IrqTake
  <2>2. Filled' = Filled BY <2>1 DEF Filled
  <2> QED BY <1>1, <2>1, <2>2
          DEF EventInv, EventTypes, NumbersGrow, Fifo, NoneLost
<1>3. CASE Filled # {}
  <2> DEFINE f == First
             p == Len(printed)
  <2>1. /\ printed' = Append(printed, list[f]) /\ list' = [list EXCEPT ![f] = 0]
    BY <1>3 DEF IrqTake
  <2>2. f \in Filled /\ \A j \in Filled : f <= j BY <1>1, <1>3, FilledFinite
  <2> HIDE DEF f
  <2>3. /\ f \in 1 .. Len(list) /\ list[f] \in Nat /\ list[f] # 0
        /\ Filled \subseteq 1 .. Len(list)
    BY <1>1, <2>2 DEF Filled
  <2>4. /\ list' \in Seq(Nat) /\ Len(list') = Len(list)
        /\ \A i \in 1 .. Len(list) : list'[i] = IF i = f THEN 0 ELSE list[i]
    BY <1>1, <2>1, <2>3
  <2>5. /\ printed' \in Seq(Nat) /\ Len(printed') = p + 1 /\ p \in Nat
        /\ \A i \in 1 .. p : printed'[i] = printed[i]
        /\ printed'[p + 1] = list[f]
    BY <1>1, <2>1, <2>3
  <2>6. Filled' = Filled \ {f} BY <2>3, <2>4 DEF Filled
  <2>7. Cardinality(Filled') = Cardinality(Filled) - 1
    BY <1>1, <2>2, <2>6, FilledFinite, FS_RemoveElement
  <2>8. \A i \in Filled' : list'[i] = list[i] /\ i \in Filled /\ i > f
    <3>1. \A i \in Filled' : i \in Filled /\ i # f /\ i \in 1 .. Len(list) BY <2>3, <2>6
    <3> QED BY <1>1, <2>2, <2>3, <2>4, <3>1
  <2>9. /\ \A i \in 1 .. p : printed[i] <= Dealt /\ printed[i] < list[f]
        /\ list[f] <= Dealt
        /\ \A i \in Filled : list[i] <= Dealt
        /\ \A i \in Filled : f < i => list[f] < list[i]
        /\ \A i \in 1 .. p, j \in Filled : printed[i] < list[j]
        /\ \A i, j \in Filled : i < j => list[i] < list[j]
    BY <2>2 DEF EventInv, NumbersGrow, Fifo
  <2>10. EventTypes' BY <1>1, <2>4, <2>5 DEF EventInv, EventTypes
  <2> HIDE DEF p
  <2>11. \A i \in 1 .. p + 1 : i \in 1 .. p \/ i = p + 1 BY <2>5
  <2>12. NumbersGrow'
    <3>1. \A i \in 1 .. p + 1 : printed'[i] <= Dealt BY <2>5, <2>9, <2>11
    <3>2. \A i \in Filled' : list'[i] <= Dealt BY <2>8, <2>9
    <3> QED BY <1>1, <2>5, <3>1, <3>2 DEF NumbersGrow
  <2>13. Fifo'
    <3>1. \A i \in 1 .. p + 1, j \in Filled' : printed'[i] < list'[j]
      BY <2>3, <2>5, <2>8, <2>9, <2>11
    <3>2. \A i, j \in Filled' : i < j => list'[i] < list'[j] BY <2>8, <2>9
    <3> QED BY <2>5, <3>1, <3>2 DEF Fifo
  <2>14. NoneLost'
    BY <1>1, <2>5, <2>7, FilledFinite DEF EventInv, EventTypes, NoneLost, p
  <2> QED BY <2>10, <2>12, <2>13, <2>14 DEF EventInv
<1> QED BY <1>2, <1>3

LEMMA EventStep == EventInv /\ [EventNext]_eventvars => EventInv'
<1> SUFFICES ASSUME EventInv, [EventNext]_eventvars PROVE EventInv'
  OBVIOUS
<1> USE DEF EventInv, EventTypes, NumbersGrow, Dealt, Fifo, NoneLost, Filled
<1>1. CASE TimerFire BY <1>1 DEF TimerFire
<1>2. CASE TimerStore BY <1>2, TimerStoreStep
<1>3. CASE TimerOverflow
  <2>1. /\ Len(overflow') = Len(overflow) + 1 /\ overflow' \in Seq(Nat)
        /\ Len(overflow) \in Nat /\ Len(printed) \in Nat
    BY <1>3 DEF TimerOverflow
  <2>2. Filled' = Filled /\ Cardinality(Filled) \in Nat
    BY <1>3, FilledFinite DEF TimerOverflow
  <2>3. /\ UNCHANGED <<loaded, list, printed, current_number>>
        /\ tpc = "lock" /\ tpc' = "rearm" /\ Dealt' = Dealt + 1
    BY <1>3 DEF TimerOverflow
  <2>4. EventTypes' BY <2>1, <2>3
  <2> HIDE DEF Filled, EventTypes, Dealt
  <2>5. NumbersGrow'
    <3>1. /\ Dealt \in Nat /\ \A i \in Filled : list[i] <= Dealt
          /\ \A i \in 1 .. Len(printed) : printed[i] <= Dealt
          /\ \A i \in Filled : list[i] \in Nat
          /\ \A i \in 1 .. Len(printed) : printed[i] \in Nat
      BY DEF EventTypes, Filled
    <3> QED BY <2>2, <2>3, <3>1
  <2>6. Fifo' BY <2>2, <2>3
  <2>7. NoneLost'
    <3>1. Dealt \in Nat /\ (loaded => Len(printed) + Len(overflow) + Cardinality(Filled) = Dealt)
      OBVIOUS
    <3> HIDE DEF EventInv, Fifo, NumbersGrow
    <3> QED BY <2>1, <2>2, <2>3, <3>1
  <2> QED BY <2>4, <2>5, <2>6, <2>7
<1>4. CASE TimerRearm BY <1>4 DEF TimerRearm
<1>5. CASE IrqFire BY <1>5 DEF IrqFire
<1>6. CASE IrqTake BY <1>6, IrqTakeStep
<1>7. CASE IrqRearm BY <1>7 DEF IrqRearm
<1>8. CASE EventExit
  <2>1. Filled' = {} BY <1>8 DEF EventExit
  <2>2. loaded' = FALSE /\ list' = << >> BY <1>8 DEF EventExit
  <2>3. UNCHANGED <<printed, overflow, current_number, tpc>> BY <1>8 DEF EventExit
  <2>4. EventTypes'
    <3>1. loaded' \in BOOLEAN BY <2>2
    <3>2. list' \in Seq(Nat) BY <2>2
    <3> HIDE DEF NoneLost
    <3> QED BY <2>3, <3>1, <3>2
  <2> HIDE DEF Filled, EventTypes
  <2>5. NumbersGrow' /\ Fifo' BY <2>1, <2>3
  <2>6. NoneLost' BY <2>2
  <2> QED BY <2>4, <2>5, <2>6
<1>9. CASE UNCHANGED eventvars BY <1>9 DEF eventvars
<1> QED BY <1>1, <1>2, <1>3, <1>4, <1>5, <1>6, <1>7, <1>8, <1>9 DEF EventNext

(* spinlock.c: the event list is a FIFO queue, however the two callbacks   *)
(* and the expiry of their timers interleave and however many elements     *)
(* simple_wq_init got.                                                     *)
THEOREM FifoCorrect == EventSpec => []Fifo
<1>1. EventInv => Fifo BY DEF EventInv
<1> QED BY <1>1, EventInitInv, EventStep, PTL DEF EventSpec

(* spinlock.c: every number that timer_callback took is printed once, is   *)
(* in the list, or was reported as not stored, until exit frees the list.  *)
THEOREM EventsKept == EventSpec => []NoneLost
<1>1. EventInv => NoneLost BY DEF EventInv
<1> QED BY <1>1, EventInitInv, EventStep, PTL DEF EventSpec

-----------------------------------------------------------------------------
(* DeferredWork *)

(* Only the callback schedules the tasklets, each kind in its own vector;  *)
(* the timer is armed while restart is not used up and exit has not begun. *)
TaskletsInPlace ==
  /\ vec \in Seq({"regularTasklet"}) /\ hi_vec \in Seq({"hiPriorTasklet"})
  /\ timer => mpc = "up" /\ restart >= 0
  /\ mpc \in {"kill_hi", "gone"} => vec = << >>
  /\ mpc = "gone" => hi_vec = << >>

DeferredInv == DeferredTypeOK /\ TaskletsInPlace /\ WorkServesAll

LEMMA DeferredInitInv == DeferredInit => DeferredInv
<1> SUFFICES ASSUME DeferredInit PROVE DeferredInv
  OBVIOUS
<1>1. timer \in BOOLEAN /\ delay \in BOOLEAN BY DEF DeferredInit
<1>2. DeferredTypeOK
  BY <1>1, DeferredAssumption DEF DeferredInit, DeferredTypeOK, Works, Tasklets
<1>3. TaskletsInPlace
  BY DeferredAssumption DEF DeferredInit, TaskletsInPlace
<1>4. WorkServesAll BY DEF DeferredInit, WorkServesAll
<1> QED BY <1>2, <1>3, <1>4 DEF DeferredInv

(* The timer and the calls of exit *)
LEMMA DeferredModuleStep ==
  ASSUME DeferredInv, my_hrtimer_callback \/ DeferredExit \/ ExitNext
  PROVE  DeferredInv'
<1> USE DeferredAssumption
    DEF DeferredInv, DeferredTypeOK, TaskletsInPlace, WorkServesAll, Works, Tasklets,
        tasklets, works
<1>1. CASE my_hrtimer_callback
  <2>1. /\ timer /\ mpc = "up" /\ restart \in 0 .. Restarts
        /\ restart' = restart - 1 /\ timer' = (restart # 0) /\ mpc' = mpc
        /\ UNCHANGED <<order, works>>
    BY <1>1 DEF my_hrtimer_callback
  <2>2. CASE restart # 0
    <3>1. UNCHANGED <<vec, hi_vec>> BY <1>1, <2>2 DEF my_hrtimer_callback
    <3>2. timer' \in BOOLEAN BY <2>1
    <3>3. restart' \in 0 .. Restarts BY <2>1, <2>2
    <3> QED BY <2>1, <3>1, <3>2, <3>3
  <2>3. CASE restart = 0
    <3>1. /\ vec' = Append(vec, "regularTasklet")
          /\ hi_vec' = Append(hi_vec, "hiPriorTasklet")
      BY <1>1, <2>3 DEF my_hrtimer_callback
    <3>2. timer' = FALSE /\ restart' = -1
      <4>1. timer' = (restart # 0) BY <2>1
      <4>2. timer' = FALSE BY <4>1, <2>3, Zenon
      <4>3. restart' = -1 BY <2>1, <2>3
      <4> QED BY <4>2, <4>3
    <3>3. timer' \in BOOLEAN BY <3>2
    <3>4. /\ vec' \in Seq({"regularTasklet"}) /\ vec' \in Seq(Tasklets)
          /\ hi_vec' \in Seq({"hiPriorTasklet"}) /\ hi_vec' \in Seq(Tasklets)
      BY <3>1
    <3>5. TaskletsInPlace' BY <2>1, <3>2, <3>4
    <3>6. DeferredTypeOK' BY <2>1, <3>2, <3>3, <3>4
    <3>7. WorkServesAll' BY <2>1
    <3> QED BY <3>5, <3>6, <3>7
  <2> QED BY <2>1, <2>2, <2>3
<1>2. CASE DeferredExit BY <1>2 DEF DeferredExit
<1>3. CASE Flush BY <1>3 DEF Flush
<1>4. CASE FlushReturn BY <1>4 DEF FlushReturn
<1>5. CASE KillRegular BY <1>5 DEF KillRegular
<1>6. CASE KillHi BY <1>6 DEF KillHi
<1> QED BY <1>1, <1>2, <1>3, <1>4, <1>5, <1>6 DEF ExitNext

(* Tasklets and works *)
LEMMA DeferredWorkStep ==
  ASSUME DeferredInv, Softirq \/ DelayExpires \/ \E w \in Works : Worker(w)
  PROVE  DeferredInv'
<1> USE DeferredAssumption
    DEF DeferredInv, DeferredTypeOK, TaskletsInPlace, WorkServesAll, Works, Tasklets,
        tasklets, works
<1>1. CASE RunHiTasklet BY <1>1 DEF RunHiTasklet, TaskletBody
<1>2. CASE RunTasklet BY <1>2 DEF RunTasklet, TaskletBody
<1>3. CASE DelayExpires BY <1>3 DEF DelayExpires
<1>4. ASSUME NEW w \in Works, WorkStart(w) PROVE DeferredInv'
  BY <1>4 DEF WorkStart
<1>5. ASSUME NEW w \in Works, WorkEnd(w) PROVE DeferredInv'
  BY <1>5 DEF WorkEnd
<1> QED BY <1>1, <1>2, <1>3, <1>4, <1>5 DEF Softirq, Worker

LEMMA DeferredStep == DeferredInv /\ [DeferredNext]_deferredvars => DeferredInv'
<1> SUFFICES ASSUME DeferredInv, [DeferredNext]_deferredvars PROVE DeferredInv'
  OBVIOUS
<1>1. CASE UNCHANGED deferredvars
  BY <1>1 DEF deferredvars, tasklets, works, DeferredInv, DeferredTypeOK,
              TaskletsInPlace, WorkServesAll
<1> QED BY <1>1, DeferredModuleStep, DeferredWorkStep DEF DeferredNext

LEMMA DeferredImplies == DeferredInv => WorkServesAll /\ NoTaskletAfterExit
BY DEF DeferredInv, DeferredTypeOK, TaskletsInPlace, NoTaskletAfterExit

(* hrt.c: scheduling my_work while it is pending or at work loses no       *)
(* request of a tasklet: it is started again after the last one.           *)
THEOREM WorkCorrect == DeferredSpec => []WorkServesAll
BY DeferredInitInv, DeferredStep, DeferredImplies, PTL DEF DeferredSpec

(* hrt.c: when hrt_exit returns, the timer is not armed and no tasklet is  *)
(* scheduled, whatever restart was and however far the timer had come.     *)
THEOREM TaskletsKilled == DeferredSpec => []NoTaskletAfterExit
BY DeferredInitInv, DeferredStep, DeferredImplies, PTL DEF DeferredSpec

-----------------------------------------------------------------------------
(* KTimer *)

(* The timer is pending between init and the callback that finds restart   *)
(* used up, which is the last of restart + 1.                              *)
CallsCounted ==
  /\ calls + timer_restart = TimerRestarts
  /\ timer_pc = "init" => ~ pending
  /\ (timer_pc = "init" \/ pending) => timer_restart >= 0
  /\ timer_pc = "in" /\ ~ pending => timer_restart = -1

KTimerInv == KTimerTypeOK /\ CallsCounted /\ TimerGone

LEMMA KTimerInitInv == KTimerInit => KTimerInv
<1> SUFFICES ASSUME KTimerInit PROVE KTimerInv
  OBVIOUS
<1>1. pending = FALSE /\ pending \in BOOLEAN BY DEF KTimerInit
<1> QED BY <1>1, KTimerAssumption
        DEF KTimerInit, KTimerInv, KTimerTypeOK, CallsCounted, TimerGone

LEMMA KTimerStep == KTimerInv /\ [KTimerNext]_timervars => KTimerInv'
<1> SUFFICES ASSUME KTimerInv, [KTimerNext]_timervars PROVE KTimerInv'
  OBVIOUS
<1> USE KTimerAssumption DEF KTimerInv, KTimerTypeOK, CallsCounted, TimerGone
<1>1. CASE TimerInit
  <2>1. pending' = TRUE /\ pending' \in BOOLEAN BY <1>1 DEF TimerInit
  <2> QED BY <1>1, <2>1 DEF TimerInit
<1>2. CASE Callback
  <2>1. pending' = (timer_restart # 0) /\ pending' \in BOOLEAN BY <1>2 DEF Callback
  <2>2. /\ timer_restart \in 0 .. TimerRestarts /\ timer_pc = "in" /\ timer_pc' = timer_pc
        /\ calls \in Nat /\ calls + timer_restart = TimerRestarts
        /\ timer_restart' = timer_restart - 1 /\ calls' = calls + 1
    BY <1>2 DEF Callback
  <2>3. pending' => timer_restart # 0 BY <2>1, Zenon
  <2>4. ~ pending' => timer_restart = 0 BY <2>1, Zenon
  <2> HIDE DEF KTimerInv
  <2>5. KTimerTypeOK'
    <3>1. pending' \in BOOLEAN BY <2>1
    <3> QED BY <2>2, <3>1
  <2>6. CallsCounted' BY <2>2, <2>3, <2>4
  <2>7. TimerGone' BY <2>2, <2>4
  <2> QED BY <2>5, <2>6, <2>7 DEF KTimerInv
<1>3. CASE TimerExit
  <2>1. pending' = FALSE /\ pending' \in BOOLEAN BY <1>3 DEF TimerExit
  <2> QED BY <1>3, <2>1 DEF TimerExit
<1>4. CASE UNCHANGED timervars BY <1>4 DEF timervars
<1> QED BY <1>1, <1>2, <1>3, <1>4 DEF KTimerNext

(* timer.c: the callback runs restart + 1 times unless timer_exit comes    *)
(* first, and never after it, for every initial value of restart.          *)
THEOREM CallbacksExact == KTimerSpec => []TimerGone
<1>1. KTimerInv => TimerGone BY DEF KTimerInv
<1> QED BY <1>1, KTimerInitInv, KTimerStep, PTL DEF KTimerSpec

-----------------------------------------------------------------------------
(* SimpleWq *)

Busy == IF current = 0 THEN 0 ELSE 1

(* The works made are those done, the one being executed and those that    *)
(* are queued, in this order, each a work of its own; what is allocated is *)
(* those not yet done.                                                     *)
WorksInOrder ==
  /\ Len(made) = Len(done) + Busy + Len(wq)
  /\ \A i \in 1 .. Len(done) : done[i] = made[i]
  /\ current # 0 => made[Len(done) + 1] = current
  /\ \A i \in 1 .. Len(wq) : wq[i] = made[Len(done) + Busy + i]
  /\ \A i, j \in 1 .. Len(made) : made[i] = made[j] => i = j
  /\ allocated = {made[i] : i \in Len(done) + 1 .. Len(made)}

(* init makes 1 and 2 in turn; the worker is idle before the queue is      *)
(* there and after it is destroyed.                                        *)
WorksMade ==
  /\ wq_pc \in {"create", "work"} => made = << >>
  /\ wq_pc = "work2" => \A i \in 1 .. Len(made) : made[i] = 1
  /\ wq_pc = "gone" => wq = << >> /\ current = 0

SimpleWqInv == SimpleWqTypeOK /\ WorksInOrder /\ WorksMade

LEMMA SimpleWqInitInv == SimpleWqInit => SimpleWqInv
<1> SUFFICES ASSUME SimpleWqInit PROVE SimpleWqInv
  OBVIOUS
<1>1. my_wq \in BOOLEAN BY DEF SimpleWqInit
<1>2. SimpleWqTypeOK BY <1>1 DEF SimpleWqInit, SimpleWqTypeOK
<1>3. WorksInOrder BY DEF SimpleWqInit, WorksInOrder, Busy
<1>4. WorksMade BY DEF SimpleWqInit, WorksMade
<1> QED BY <1>2, <1>3, <1>4 DEF SimpleWqInv

LEMMA WqQueueStep ==
  ASSUME SimpleWqInv, WqQueue
  PROVE  SimpleWqInv'
<1> DEFINE w == WorkNumber
           n == Len(made)
<1>1. /\ made \in Seq({1, 2}) /\ wq \in Seq({1, 2}) /\ done \in Seq({1, 2})
      /\ w \in {1, 2} /\ n \in Nat /\ Len(wq) \in Nat /\ Len(done) \in Nat
      /\ Busy \in {0, 1} /\ Busy' = Busy /\ done' = done /\ current' = current
  BY DEF SimpleWqInv, SimpleWqTypeOK, WqQueue, WorkNumber, Busy
<1>2. /\ made' = Append(made, w) /\ wq' = Append(wq, w)
      /\ allocated' = allocated \cup {w}
  BY DEF WqQueue
<1>3. \A i \in 1 .. n : made[i] # w
  BY <1>1 DEF SimpleWqInv, WorksMade, WqQueue, WorkNumber
<1>4. wq_pc' = "work2" => n = 0 /\ w = 1
  BY DEF SimpleWqInv, WorksMade, WqQueue, WorkNumber, AfterWork
<1>5. wq_pc' \in {"work2", "in"} /\ my_wq' = my_wq BY DEF WqQueue, AfterWork
<1> HIDE DEF w
<1>6. /\ made' \in Seq({1, 2}) /\ Len(made') = n + 1 /\ made'[n + 1] = w
      /\ \A i \in 1 .. n : made'[i] = made[i]
  BY <1>1, <1>2
<1>7. /\ wq' \in Seq({1, 2}) /\ Len(wq') = Len(wq) + 1 /\ wq'[Len(wq) + 1] = w
      /\ \A i \in 1 .. Len(wq) : wq'[i] = wq[i]
  BY <1>1, <1>2
<1> HIDE DEF n
<1>8. /\ n = Len(done) + Busy + Len(wq)
      /\ \A i \in 1 .. Len(done) : done[i] = made[i]
      /\ current # 0 => made[Len(done) + 1] = current
      /\ \A i \in 1 .. Len(wq) : wq[i] = made[Len(done) + Busy + i]
      /\ \A i, j \in 1 .. n : made[i] = made[j] => i = j
      /\ allocated = {made[i] : i \in Len(done) + 1 .. n}
      /\ current # 0 => Busy = 1
  BY DEF SimpleWqInv, WorksInOrder, n, Busy
<1>9. WorksInOrder'
  <2> DEFINE d == Len(done)
             q == Len(wq)
             b == Busy
  <2>1. /\ d \in Nat /\ q \in Nat /\ b \in Nat /\ n \in Nat /\ n = d + b + q
        /\ current # 0 => b = 1
    BY <1>1, <1>8
  <2>2. /\ Len(done') = d /\ Busy' = b /\ Len(wq') = q + 1 /\ Len(made') = n + 1
    BY <1>1, <1>6, <1>7
  <2>3. /\ \A i \in 1 .. d : done[i] = made[i]
        /\ current # 0 => made[d + 1] = current
        /\ \A i \in 1 .. q : wq[i] = made[d + b + i]
        /\ allocated = {made[i] : i \in d + 1 .. n}
    BY <1>8
  <2>4. /\ wq'[q + 1] = w
        /\ \A i \in 1 .. q : wq'[i] = wq[i]
    BY <1>7
  <2> HIDE DEF d, q, b
  <2>5. \A i \in 1 .. n + 1 : i \in 1 .. n \/ i = n + 1 BY <2>1
  <2>6. \A i \in 1 .. d : done'[i] = made'[i]
    BY <1>1, <1>6, <2>1, <2>3
  <2>7. current' # 0 => made'[d + 1] = current'
    <3>1. current # 0 => d + 1 \in 1 .. n BY <2>1
    <3> QED BY <1>1, <1>6, <2>3, <3>1
  <2>8. ASSUME NEW i \in 1 .. q + 1 PROVE wq'[i] = made'[d + b + i]
    <3>1. CASE i \in 1 .. q
      <4>1. d + b + i \in 1 .. n BY <2>1, <3>1
      <4> QED BY <1>6, <2>3, <2>4, <3>1, <4>1
    <3>2. CASE i = q + 1
      <4>1. d + b + i = n + 1 BY <2>1, <3>2
      <4> QED BY <1>6, <2>4, <3>2, <4>1
    <3> QED BY <2>1, <3>1, <3>2
  <2>9. \A i, j \in 1 .. n + 1 : made'[i] = made'[j] => i = j
    BY <1>3, <1>6, <1>8, <2>5
  <2>10. allocated' = {made'[i] : i \in d + 1 .. n + 1}
    <3>1. \A i \in d + 1 .. n + 1 : i \in d + 1 .. n \/ i = n + 1 BY <2>1
    <3>2. d + 1 .. n \subseteq 1 .. n /\ n + 1 \in d + 1 .. n + 1
          /\ d + 1 .. n \subseteq d + 1 .. n + 1
      BY <2>1
    <3>3. {made'[i] : i \in d + 1 .. n + 1} = {made'[i] : i \in d + 1 .. n} \cup {w}
      BY <1>6, <3>1, <3>2
    <3>4. {made'[i] : i \in d + 1 .. n} = {made[i] : i \in d + 1 .. n}
      BY <1>6, <3>2
    <3> QED BY <1>2, <2>3, <3>3, <3>4
  <2> QED BY <2>1, <2>2, <2>6, <2>7, <2>8, <2>9, <2>10 DEF WorksInOrder
<1>10. WorksMade' BY <1>1, <1>4, <1>5, <1>6 DEF WorksMade
<1>11. SimpleWqTypeOK'
  BY <1>1, <1>2, <1>5, <1>6, <1>7 DEF SimpleWqInv, SimpleWqTypeOK
<1> QED BY <1>9, <1>10, <1>11 DEF SimpleWqInv

(* The worker takes the work at the head of the queue ... *)
LEMMA WqStartStep ==
  ASSUME SimpleWqInv, WqStart
  PROVE  SimpleWqInv'
<1> DEFINE d == Len(done)
           q == Len(wq)
           n == Len(made)
<1>1. /\ wq \in Seq({1, 2}) /\ wq # << >> /\ current = 0 /\ current' = Head(wq)
      /\ wq' = Tail(wq) /\ UNCHANGED <<wq_pc, my_wq, allocated, made, done>>
  BY DEF SimpleWqInv, SimpleWqTypeOK, WqStart
<1>2. d \in Nat /\ q \in Nat \ {0} /\ n \in Nat
  BY <1>1 DEF SimpleWqInv, SimpleWqTypeOK
<1>3. /\ wq' \in Seq({1, 2}) /\ Len(wq') = q - 1
      /\ \A i \in 1 .. q - 1 : wq'[i] = wq[i + 1]
      /\ current' = wq[1] /\ current' \in {1, 2}
  BY <1>1
<1>4. Busy = 0 /\ Busy' = 1 BY <1>1, <1>3 DEF Busy
<1>5. /\ n = d + q
      /\ \A i \in 1 .. q : wq[i] = made[d + 0 + i]
  BY <1>2, <1>4 DEF SimpleWqInv, WorksInOrder
<1>6. SimpleWqTypeOK' BY <1>1, <1>3 DEF SimpleWqInv, SimpleWqTypeOK
<1>7. WorksMade'
  BY <1>1 DEF SimpleWqInv, WorksMade
<1>8. WorksInOrder'
  <2>1. Len(made') = n /\ Len(done') = d BY <1>1
  <2> HIDE DEF d, q, n
  <2>2. current' = made'[d + 1]
    <3>1. 1 \in 1 .. q /\ d + 0 + 1 = d + 1 BY <1>2
    <3> QED BY <1>1, <1>3, <1>5, <3>1
  <2>3. \A i \in 1 .. q - 1 : wq'[i] = made'[d + 1 + i]
    <3> TAKE i \in 1 .. q - 1
    <3>1. i + 1 \in 1 .. q /\ d + 0 + (i + 1) = d + 1 + i BY <1>2
    <3> QED BY <1>1, <1>3, <1>5, <3>1
  <2>4. n = d + 1 + (q - 1) BY <1>2, <1>5
  <2>5. /\ \A i \in 1 .. d : done[i] = made[i]
        /\ \A i, j \in 1 .. n : made[i] = made[j] => i = j
        /\ allocated = {made[i] : i \in d + 1 .. n}
    BY DEF SimpleWqInv, WorksInOrder, d, n
  <2>6. Len(made') = Len(done') + Busy' + Len(wq') BY <1>3, <1>4, <2>1, <2>4
  <2>7. \A i \in 1 .. Len(wq') : wq'[i] = made'[Len(done') + Busy' + i]
    BY <1>3, <1>4, <2>1, <2>3
  <2>8. \A i \in 1 .. Len(done') : done'[i] = made'[i] BY <1>1, <2>1, <2>5
  <2>9. \A i, j \in 1 .. Len(made') : made'[i] = made'[j] => i = j
    BY <1>1, <2>1, <2>5
  <2>10. allocated' = {made'[i] : i \in Len(done') + 1 .. Len(made')}
    BY <1>1, <2>1, <2>5
  <2> QED BY <2>1, <2>2, <2>6, <2>7, <2>8, <2>9, <2>10 DEF WorksInOrder
<1> QED BY <1>6, <1>7, <1>8 DEF SimpleWqInv

(* ... and frees it when it has been executed. *)
LEMMA WqFunctionStep ==
  ASSUME SimpleWqInv, my_wq_function
  PROVE  SimpleWqInv'
<1> DEFINE d == Len(done)
           q == Len(wq)
           n == Len(made)
<1>1. /\ done \in Seq({1, 2}) /\ current \in {1, 2} /\ current' = 0
      /\ done' = Append(done, current) /\ allocated' = allocated \ {current}
      /\ UNCHANGED <<wq_pc, my_wq, wq, made>>
  BY DEF SimpleWqInv, SimpleWqTypeOK, my_wq_function
<1>2. d \in Nat /\ q \in Nat /\ n \in Nat
  BY <1>1 DEF SimpleWqInv, SimpleWqTypeOK
<1>3. /\ done' \in Seq({1, 2}) /\ Len(done') = d + 1 /\ done'[d + 1] = current
      /\ \A i \in 1 .. d : done'[i] = done[i]
  BY <1>1
<1>4. Busy = 1 /\ Busy' = 0 BY <1>1 DEF Busy
<1>5. /\ n = d + 1 + q /\ made[d + 1] = current
      /\ \A i \in 1 .. d : done[i] = made[i]
      /\ \A i \in 1 .. q : wq[i] = made[d + 1 + i]
      /\ \A i, j \in 1 .. n : made[i] = made[j] => i = j
      /\ allocated = {made[i] : i \in d + 1 .. n}
  BY <1>1, <1>4 DEF SimpleWqInv, WorksInOrder
<1>6. SimpleWqTypeOK'
  BY <1>1, <1>3 DEF SimpleWqInv, SimpleWqTypeOK
<1>7. WorksMade' BY <1>1 DEF SimpleWqInv, WorksMade
<1>8. WorksInOrder'
  <2>1. /\ Len(made') = n /\ Len(wq') = q BY <1>1
  <2> HIDE DEF d, q, n
  <2>2. \A i \in 1 .. d + 1 : done'[i] = made[i]
    <3>1. \A i \in 1 .. d + 1 : i \in 1 .. d \/ i = d + 1 BY <1>2
    <3> QED BY <1>3, <1>5, <3>1
  <2>3. allocated' = {made[i] : i \in d + 2 .. n}
    <3>1. \A i \in d + 1 .. n : i = d + 1 \/ i \in d + 2 .. n BY <1>2
    <3>2. \A i \in d + 2 .. n : i \in d + 1 .. n /\ i \in 1 .. n /\ i # d + 1
      BY <1>2
    <3>3. d + 1 \in 1 .. n BY <1>2, <1>5
    <3>4. \A i \in d + 2 .. n : made[i] # current BY <1>5, <3>2, <3>3
    <3> QED BY <1>1, <1>5, <3>1, <3>2, <3>4
  <2>4. n = (d + 1) + 0 + q /\ (d + 1) + 1 = d + 2 /\ (d + 1) + 0 = d + 1 BY <1>2, <1>5
  <2> QED BY <1>1, <1>3, <1>4, <1>5, <2>1, <2>2, <2>3, <2>4 DEF WorksInOrder
<1> QED BY <1>6, <1>7, <1>8 DEF SimpleWqInv

LEMMA SimpleWqStep == SimpleWqInv /\ [SimpleWqNext]_wqvars => SimpleWqInv'
<1> SUFFICES ASSUME SimpleWqInv, [SimpleWqNext]_wqvars PROVE SimpleWqInv'
  OBVIOUS
<1> DEFINE Same == UNCHANGED <<allocated, wq, current, made, done>>
<1>1. ASSUME Same PROVE WorksInOrder'
  BY <1>1 DEF SimpleWqInv, WorksInOrder, Busy
<1>2. ASSUME Same, wq_pc' \in {"create", "work", "work2", "in", "flush", "gone", "oops"},
             my_wq' \in BOOLEAN
      PROVE  SimpleWqTypeOK'
  BY <1>2 DEF SimpleWqInv, SimpleWqTypeOK
<1>3. CASE WqCreate
  <2>1. /\ Same /\ my_wq' \in BOOLEAN /\ wq_pc' \in {"work", "in"} /\ wq_pc = "create"
    BY <1>3 DEF WqCreate
  <2>2. WorksMade' BY <2>1 DEF SimpleWqInv, WorksMade
  <2> QED BY <1>1, <1>2, <2>1, <2>2 DEF SimpleWqInv
<1>4. CASE WqQueue BY <1>4, WqQueueStep
<1>5. CASE WqNoMemory
  <2>1. /\ Same /\ my_wq' = my_wq /\ wq_pc' \in {"work2", "in"}
        /\ wq_pc' = "work2" => wq_pc = "work"
    BY <1>5 DEF WqNoMemory, AfterWork
  <2>2. my_wq' \in BOOLEAN BY <2>1 DEF SimpleWqInv, SimpleWqTypeOK
  <2>3. WorksMade' BY <2>1 DEF SimpleWqInv, WorksMade
  <2> QED BY <1>1, <1>2, <2>1, <2>2, <2>3 DEF SimpleWqInv
<1>6. CASE WqWorker BY <1>6, WqStartStep, WqFunctionStep DEF WqWorker
<1>7. CASE WqExit
  <2>1. Same /\ my_wq' = my_wq /\ wq_pc' \in {"flush", "oops"} BY <1>7 DEF WqExit
  <2>2. my_wq' \in BOOLEAN BY <2>1 DEF SimpleWqInv, SimpleWqTypeOK
  <2>3. WorksMade' BY <2>1 DEF WorksMade
  <2> QED BY <1>1, <1>2, <2>1, <2>2, <2>3 DEF SimpleWqInv
<1>8. CASE WqDestroy
  <2>1. /\ Same /\ my_wq' = FALSE /\ wq_pc' = "gone" /\ wq = << >> /\ current = 0
    BY <1>8 DEF WqDestroy
  <2>2. my_wq' \in BOOLEAN BY <2>1
  <2>3. WorksMade' BY <2>1 DEF WorksMade
  <2> QED BY <1>1, <1>2, <2>1, <2>2, <2>3 DEF SimpleWqInv
<1>9. CASE UNCHANGED wqvars
  <2>1. Same /\ my_wq' = my_wq /\ wq_pc' = wq_pc BY <1>9 DEF wqvars
  <2> QED BY <1>1, <2>1 DEF SimpleWqInv, SimpleWqTypeOK, WorksMade
<1> QED BY <1>3, <1>4, <1>5, <1>6, <1>7, <1>8, <1>9 DEF SimpleWqNext

LEMMA SimpleWqImplies == SimpleWqInv => WorksFreed
<1> SUFFICES ASSUME SimpleWqInv PROVE WorksFreed
  OBVIOUS
<1>1. /\ done \in Seq({1, 2}) /\ made \in Seq({1, 2}) /\ wq \in Seq({1, 2})
      /\ Len(done) \in Nat /\ Len(wq) \in Nat
  BY DEF SimpleWqInv, SimpleWqTypeOK
<1>2. ASSUME current # 0 PROVE current \in allocated
  <2>1. Len(done) + 1 \in Len(done) + 1 .. Len(made) /\ made[Len(done) + 1] = current
    BY <1>1, <1>2 DEF SimpleWqInv, WorksInOrder, Busy
  <2> QED BY <2>1 DEF SimpleWqInv, WorksInOrder
<1>3. ASSUME wq_pc = "gone" PROVE done = made /\ allocated = {} /\ current = 0
  <2>1. current = 0 /\ Len(wq) = 0 /\ Busy = 0
    BY <1>3 DEF SimpleWqInv, WorksMade, Busy
  <2>2. Len(made) = Len(done) /\ \A i \in 1 .. Len(done) : done[i] = made[i]
    BY <1>1, <2>1 DEF SimpleWqInv, WorksInOrder
  <2>3. done = made BY <1>1, <2>2, SeqEqual
  <2>4. allocated = {} BY <1>1, <2>2 DEF SimpleWqInv, WorksInOrder
  <2> QED BY <2>1, <2>3, <2>4
<1> QED BY <1>2, <1>3 DEF WorksFreed

(* simple_wq.c: no work is executed after its kfree, and when              *)
(* simple_wq_exit returns both were executed and freed once, in order,     *)
(* whenever the worker ran and whichever kmalloc failed.                   *)
THEOREM WorksExecuted == SimpleWqSpec => []WorksFreed
BY SimpleWqInitInv, SimpleWqStep, SimpleWqImplies, PTL DEF SimpleWqSpec

-----------------------------------------------------------------------------
(* PlatDummyDts *)

(* A run of the sender has stored the whole message. *)
MessageStored == runs > 1 \/ (runs = 1 /\ spc # "fill")

(* The sender sets the flag only after that, and nobody takes a byte of    *)
(* the message away but for the first word.                                *)
SenderInPlace ==
  /\ runs = 0 => spc = "idle"
  /\ spc = "fill" => filled < MSG
  /\ runs > 0 /\ spc # "fill" => filled = MSG
  /\ spc = "flag" \/ flag_reg = 1 => size_reg = MSG
  /\ flag_reg = 1 => MessageStored
  /\ \A i \in 0 .. MSG - 1 :
       runs > 1 \/ (runs = 1 /\ i < filled) =>
         mem[i] = Sent \/ (mem[i] = Jiffies /\ i < WORD)

(* The read work has begun when the flag was set. *)
ReaderInPlace ==
  /\ rpc # "idle" => size = MSG /\ MessageStored
  /\ rpc = "loop" => Len(line) < size
  /\ rpc = "ack" => Len(line) = size

(* Which works may be pending or at work at each point of probe and remove.*)
WorksInPlace ==
  /\ alive <=> ppc \notin {"out", "unbound"}
  /\ leaked => ppc \in {"out", "unbound"}
  /\ ppc \in {"out", "unbound", "read_wq"} /\ ~ leaked =>
       dts_pending = {} /\ rpc = "idle" /\ ~ writing
  /\ ppc = "write_wq" => "write" \notin dts_pending /\ ~ writing
  /\ ppc = "cancel_read" => "read" \notin dts_pending
  /\ ppc = "cancel_write" => dts_pending = {} /\ rpc = "idle"

DtsInv == DtsTypeOK /\ SenderInPlace /\ ReaderInPlace /\ WorksInPlace /\ MessageIntact

LEMMA DtsInitInv == DtsInit => DtsInv
<1> SUFFICES ASSUME DtsInit PROVE DtsInv
  OBVIOUS
<1>1. alive \in BOOLEAN /\ leaked \in BOOLEAN /\ writing \in BOOLEAN BY DEF DtsInit
<1>2. DtsTypeOK
  BY <1>1, DtsAssumption, DeviceAssumption
     DEF DtsInit, DtsTypeOK, DeviceInit, DeviceTypeOK
<1>3. SenderInPlace BY DEF DtsInit, DeviceInit, SenderInPlace
<1>4. ReaderInPlace BY DEF DtsInit, ReaderInPlace
<1>5. WorksInPlace BY DEF DtsInit, WorksInPlace
<1>6. MessageIntact BY DEF DtsInit, MessageIntact
<1> QED BY <1>2, <1>3, <1>4, <1>5, <1>6 DEF DtsInv

(* The sender stores its message and leaves the driver alone. *)
LEMMA SenderStep ==
  ASSUME DtsInv, SendStart \/ SendNext
  PROVE  DtsInv'
<1> USE DtsAssumption, DeviceAssumption
    DEF DtsInv, DtsTypeOK, DeviceTypeOK, driver, reading
<1>1. UNCHANGED <<driver, dts_pending, reading, writing>>
  BY DEF SendStart, SendNext, SendByte, SendCount, SendFlag
<1>2. WorksInPlace' /\ MessageIntact' BY <1>1 DEF WorksInPlace, MessageIntact
<1>3. CASE SendStart
  <2>1. DtsTypeOK' BY <1>3 DEF SendStart, device
  <2>2. SenderInPlace' BY <1>3 DEF SendStart, device, SenderInPlace, MessageStored
  <2>3. ReaderInPlace'
    BY <1>3 DEF SendStart, ReaderInPlace, MessageStored
  <2> QED BY <1>2, <2>1, <2>2, <2>3
<1>4. CASE SendByte
  <2>1. filled \in 0 .. MSG - 1 /\ runs > 0 BY <1>4 DEF SendByte, SenderInPlace
  <2>2. DtsTypeOK' BY <1>4, <2>1 DEF SendByte
  <2>3. SenderInPlace' BY <1>4, <2>1 DEF SendByte, SenderInPlace, MessageStored
  <2>4. ReaderInPlace' BY <1>4 DEF SendByte, ReaderInPlace, MessageStored
  <2> QED BY <1>2, <2>2, <2>3, <2>4
<1>5. CASE SendCount
  <2>1. DtsTypeOK' BY <1>5 DEF SendCount
  <2>2. SenderInPlace' BY <1>5 DEF SendCount, SenderInPlace, MessageStored
  <2>3. ReaderInPlace' BY <1>5 DEF SendCount, ReaderInPlace, MessageStored
  <2> QED BY <1>2, <2>1, <2>2, <2>3
<1>6. CASE SendFlag
  <2>1. DtsTypeOK' BY <1>6 DEF SendFlag
  <2>2. SenderInPlace' BY <1>6 DEF SendFlag, SenderInPlace, MessageStored
  <2>3. ReaderInPlace' BY <1>6 DEF SendFlag, ReaderInPlace, MessageStored
  <2> QED BY <1>2, <2>1, <2>2, <2>3
<1> QED BY <1>3, <1>4, <1>5, <1>6 DEF SendNext

(* What a work that queues itself again leaves in the queue. *)
LEMMA RequeuedIs ==
  ASSUME NEW w \in {"read", "write"}
  PROVE  \/ Requeued(w) = dts_pending \cup {w}
         \/ /\ Requeued(w) = dts_pending
            /\ \/ w = "read" /\ ppc = "cancel_read"
               \/ w = "write" /\ ppc = "cancel_write"
BY DEF Requeued, Cancelling

LEMMA RequeuedNot ==
  /\ ppc = "cancel_read" => Requeued("read") = dts_pending
  /\ ppc = "cancel_write" => Requeued("write") = dts_pending
BY DEF Requeued, Cancelling

(* The two works *)
LEMMA DtsWorkStep ==
  ASSUME DtsInv, ReadWork \/ WriteWork
  PROVE  DtsInv'
<1> USE DtsAssumption, DeviceAssumption
    DEF DtsInv, DtsTypeOK, DeviceTypeOK, device, sender, driver, reading
<1>1. UNCHANGED <<sender, driver>>
  BY DEF ReadWork, ReadIdle, ReadStart, ReadByte, ReadAck, WriteWork, WriteStore, WriteAgain
<1>2. CASE ReadIdle
  <2>1. dts_pending' = Requeued("read") /\ UNCHANGED <<device, reading, writing>>
    BY <1>2 DEF ReadIdle
  <2>2. /\ dts_pending' \subseteq {"read", "write"} /\ alive /\ "read" \in dts_pending
        /\ "write" \in dts_pending' => "write" \in dts_pending
    BY <1>2, <2>1, RequeuedIs DEF ReadIdle
  <2>3. DtsTypeOK' BY <1>1, <2>1, <2>2
  <2>4. SenderInPlace' /\ ReaderInPlace' /\ MessageIntact'
    BY <1>1, <2>1 DEF SenderInPlace, ReaderInPlace, MessageIntact, MessageStored
  <2>5. WorksInPlace'
    BY <1>1, <1>2, <2>1, <2>2, RequeuedNot DEF ReadIdle, WorksInPlace
  <2> QED BY <2>3, <2>4, <2>5
<1>3. CASE ReadStart
  <2>1. /\ size' = MSG /\ rpc' = "loop" /\ line' = << >>
        /\ dts_pending' = dts_pending \ {"read"} /\ UNCHANGED <<device, writing>>
    BY <1>3 DEF ReadStart, SenderInPlace, min
  <2>2. DtsTypeOK' BY <1>1, <2>1
  <2>3. SenderInPlace' BY <1>1, <2>1 DEF SenderInPlace, MessageStored
  <2>4. ReaderInPlace'
    BY <1>1, <1>3, <2>1 DEF ReadStart, ReaderInPlace, SenderInPlace, MessageStored
  <2>5. WorksInPlace' BY <1>1, <1>3, <2>1 DEF ReadStart, WorksInPlace
  <2>6. MessageIntact' BY <2>1 DEF MessageIntact
  <2> QED BY <2>2, <2>3, <2>4, <2>5, <2>6
<1>4. CASE ReadByte
  <2> DEFINE n == Len(line)
  <2>1. /\ rpc = "loop" /\ line' = Append(line, mem[n]) /\ line \in Seq(Byte)
        /\ n \in 0 .. MSG - 1 /\ size = MSG /\ MessageStored
        /\ UNCHANGED <<device, dts_pending, size, writing>>
    BY <1>4 DEF ReadByte, ReaderInPlace
  <2>2. /\ line' \in Seq(Byte) /\ Len(line') = n + 1 /\ line'[n + 1] = mem[n]
        /\ \A k \in 1 .. n : line'[k] = line[k]
    <3>1. mem[n] \in Byte BY <2>1
    <3> QED BY <2>1, <3>1
  <2> HIDE DEF n
  <2>3. rpc' = IF n + 1 = MSG THEN "ack" ELSE "loop" BY <1>4, <2>1, <2>2 DEF ReadByte
  <2>4. mem[n] = Sent \/ (mem[n] = Jiffies /\ n < WORD)
    BY <2>1 DEF SenderInPlace, MessageStored
  <2>5. DtsTypeOK' BY <1>1, <2>1, <2>2, <2>3
  <2>6. SenderInPlace' BY <1>1, <2>1 DEF SenderInPlace, MessageStored
  <2>7. ReaderInPlace'
    BY <1>1, <2>1, <2>2, <2>3 DEF ReaderInPlace, MessageStored
  <2>8. WorksInPlace' BY <1>1, <1>4, <2>1 DEF ReadByte, WorksInPlace
  <2>9. MessageIntact'
    <3>1. \A k \in 1 .. n + 1 : k \in 1 .. n \/ k = n + 1 BY <2>1
    <3>2. \A k \in 1 .. n : line[k] = Sent \/ (line[k] = Jiffies /\ k <= WORD)
      BY DEF MessageIntact, n
    <3>3. \A k \in 1 .. n + 1 : line'[k] = Sent \/ (line'[k] = Jiffies /\ k <= WORD)
      BY <2>1, <2>2, <2>4, <3>1, <3>2
    <3> QED BY <2>2, <2>3, <3>3 DEF MessageIntact
  <2> QED BY <2>5, <2>6, <2>7, <2>8, <2>9
<1>5. CASE ReadAck
  <2>1. /\ rpc = "ack" /\ rpc' = "idle" /\ flag_reg' = 0 /\ dts_pending' = Requeued("read")
        /\ alive /\ UNCHANGED <<size_reg, mem, size, line, writing>>
    BY <1>5 DEF ReadAck
  <2>2. /\ dts_pending' \subseteq {"read", "write"}
        /\ "write" \in dts_pending' => "write" \in dts_pending
    BY <2>1, RequeuedIs
  <2>3. DtsTypeOK' BY <1>1, <2>1, <2>2
  <2>4. SenderInPlace' BY <1>1, <2>1 DEF SenderInPlace, MessageStored
  <2>5. ReaderInPlace' BY <2>1 DEF ReaderInPlace
  <2>6. MessageIntact' BY <2>1 DEF MessageIntact
  <2>7. WorksInPlace' BY <1>1, <2>1, <2>2, RequeuedNot DEF WorksInPlace
  <2> QED BY <2>3, <2>4, <2>5, <2>6, <2>7
<1>6. CASE WriteStore
  <2>1. /\ mem' = [i \in DOMAIN mem |-> IF i < WORD THEN Jiffies ELSE mem[i]]
        /\ writing' = TRUE /\ dts_pending' = dts_pending \ {"write"}
        /\ alive /\ "write" \in dts_pending
        /\ UNCHANGED <<flag_reg, size_reg, reading>>
    BY <1>6 DEF WriteStore
  <2>2. writing' \in BOOLEAN BY <2>1
  <2>3. DtsTypeOK' BY <1>1, <2>1, <2>2
  <2>4. SenderInPlace' BY <1>1, <2>1 DEF SenderInPlace, MessageStored
  <2>5. ReaderInPlace' /\ MessageIntact'
    BY <1>1, <2>1 DEF ReaderInPlace, MessageIntact, MessageStored
  <2>6. WorksInPlace' BY <1>1, <2>1 DEF WorksInPlace
  <2> QED BY <2>3, <2>4, <2>5, <2>6
<1>7. CASE WriteAgain
  <2>1. /\ writing /\ writing' = FALSE /\ dts_pending' = Requeued("write") /\ alive
        /\ UNCHANGED <<device, reading>>
    BY <1>7 DEF WriteAgain
  <2>2. writing' \in BOOLEAN BY <2>1
  <2>3. /\ dts_pending' \subseteq {"read", "write"}
        /\ "read" \in dts_pending' => "read" \in dts_pending
    BY <2>1, RequeuedIs
  <2>4. DtsTypeOK' BY <1>1, <2>1, <2>2, <2>3
  <2>5. SenderInPlace' /\ ReaderInPlace' /\ MessageIntact'
    BY <1>1, <2>1 DEF SenderInPlace, ReaderInPlace, MessageIntact, MessageStored
  <2>6. WorksInPlace' BY <1>1, <2>1, <2>3, RequeuedNot DEF WorksInPlace
  <2> QED BY <2>4, <2>5, <2>6
<1> QED BY <1>2, <1>3, <1>4, <1>5, <1>6, <1>7 DEF ReadWork, WriteWork

(* probe, remove, insmod and rmmod *)
LEMMA DtsModuleStep ==
  ASSUME DtsInv,
         \/ Probe \/ ProbeRead \/ ProbeReadFails \/ ProbeWrite \/ ProbeWriteFails
         \/ Remove \/ RemoveNext \/ Unload
  PROVE  DtsInv'
<1> USE DtsAssumption, DeviceAssumption
    DEF DtsInv, DtsTypeOK, DeviceTypeOK, device, sender, reading
<1>1. UNCHANGED <<device, sender, reading, writing>>
  BY DEF Probe, ProbeRead, ProbeReadFails, ProbeWrite, ProbeWriteFails, Remove,
         RemoveNext, RemoveRead, RemoveWrite, Unload
<1>2. SenderInPlace' /\ ReaderInPlace' /\ MessageIntact'
  BY <1>1 DEF SenderInPlace, ReaderInPlace, MessageIntact, MessageStored
<1>3. CASE Probe
  <2>1. alive' \in BOOLEAN BY <1>3 DEF Probe
  <2>2. DtsTypeOK' BY <1>1, <1>3, <2>1 DEF Probe
  <2>3. WorksInPlace' BY <1>1, <1>3 DEF Probe, WorksInPlace
  <2> QED BY <1>2, <2>2, <2>3
<1>4. CASE ProbeRead
  <2>1. DtsTypeOK' BY <1>1, <1>4 DEF ProbeRead
  <2>2. WorksInPlace' BY <1>1, <1>4 DEF ProbeRead, WorksInPlace
  <2> QED BY <1>2, <2>1, <2>2
<1>5. CASE ProbeReadFails
  <2>1. alive' \in BOOLEAN BY <1>5 DEF ProbeReadFails
  <2>2. DtsTypeOK' BY <1>1, <1>5, <2>1 DEF ProbeReadFails
  <2>3. WorksInPlace' BY <1>1, <1>5 DEF ProbeReadFails, WorksInPlace
  <2> QED BY <1>2, <2>2, <2>3
<1>6. CASE ProbeWrite
  <2>1. DtsTypeOK' BY <1>1, <1>6 DEF ProbeWrite
  <2>2. WorksInPlace' BY <1>1, <1>6 DEF ProbeWrite, WorksInPlace
  <2> QED BY <1>2, <2>1, <2>2
<1>7. CASE ProbeWriteFails
  <2>1. alive' \in BOOLEAN /\ leaked' \in BOOLEAN BY <1>7 DEF ProbeWriteFails
  <2>2. DtsTypeOK' BY <1>1, <1>7, <2>1 DEF ProbeWriteFails
  <2>3. WorksInPlace' BY <1>1, <1>7 DEF ProbeWriteFails, WorksInPlace
  <2> QED BY <1>2, <2>2, <2>3
<1>8. CASE Remove
  <2>1. DtsTypeOK' BY <1>1, <1>8 DEF Remove
  <2>2. WorksInPlace' BY <1>1, <1>8 DEF Remove, WorksInPlace
  <2> QED BY <1>2, <2>1, <2>2
<1>9. CASE RemoveRead
  <2>1. DtsTypeOK' BY <1>1, <1>9 DEF RemoveRead
  <2>2. dts_pending' = {} BY <1>9 DEF RemoveRead, WorksInPlace
  <2>3. WorksInPlace' BY <1>1, <1>9, <2>2 DEF RemoveRead, WorksInPlace
  <2> QED BY <1>2, <2>1, <2>3
<1>10. CASE RemoveWrite
  <2>1. alive' \in BOOLEAN BY <1>10 DEF RemoveWrite
  <2>2. DtsTypeOK' BY <1>1, <1>10, <2>1 DEF RemoveWrite
  <2>3. WorksInPlace' BY <1>1, <1>10 DEF RemoveWrite, WorksInPlace
  <2> QED BY <1>2, <2>2, <2>3
<1>11. CASE Unload
  <2>1. DtsTypeOK' BY <1>1, <1>11 DEF Unload
  <2>2. WorksInPlace' BY <1>1, <1>11 DEF Unload, WorksInPlace
  <2> QED BY <1>2, <2>1, <2>2
<1> QED BY <1>3, <1>4, <1>5, <1>6, <1>7, <1>8, <1>9, <1>10, <1>11 DEF RemoveNext

LEMMA DtsStep == DtsInv /\ [DtsNext]_dtsvars => DtsInv'
<1> SUFFICES ASSUME DtsInv, [DtsNext]_dtsvars PROVE DtsInv'
  OBVIOUS
<1>1. CASE UNCHANGED dtsvars
  BY <1>1 DEF dtsvars, device, sender, driver, reading, DtsInv, DtsTypeOK, DeviceTypeOK,
              SenderInPlace, ReaderInPlace, WorksInPlace, MessageIntact, MessageStored
<1> QED BY <1>1, SenderStep, DtsWorkStep, DtsModuleStep DEF DtsNext

(* platform_test_dts.c and send_data.c: although neither waits for the     *)
(* other, the line printed is the message of the sender with at most the   *)
(* first word overwritten, for every length of message and area.           *)
THEOREM MessageCorrect == DtsSpec => []MessageIntact
<1>1. DtsInv => MessageIntact BY DEF DtsInv
<1> QED BY <1>1, DtsInitInv, DtsStep, PTL DEF DtsSpec

(* platform_test_dts.c: after remove, and after a probe that failed before *)
(* its first work was queued, no work is pending or at work, whatever the  *)
(* works were doing when cancel_delayed_work_sync was called.              *)
THEOREM WorksCancelledFirst == DtsSpec => []NoWorkOnFreedDevice
<1>1. DtsInv => NoWorkOnFreedDevice
  BY DEF DtsInv, DtsTypeOK, WorksInPlace, NoWorkOnFreedDevice
<1> QED BY <1>1, DtsInitInv, DtsStep, PTL DEF DtsSpec

-----------------------------------------------------------------------------
(* The modules side by side *)

(* A step of MCModules is a step of one component and leaves the others    *)
(* as they are.                                                            *)
LEMMA SideBySide ==
  ASSUME [Next]_modulevars
  PROVE  /\ [DeferredNext]_deferredvars /\ [KTimerNext]_timervars
         /\ [SimpleWqNext]_wqvars /\ [MmapNext]_mmapvars
BY DEF Next, modulevars

(* HW6, HW8: once rmmod has returned, or insmod has failed, no timer or    *)
(* tasklet of the module can run and nothing is left allocated, for every  *)
(* size and every initial value of the counters.                           *)
THEOREM NothingLeft == Spec => []LeavesNothing
<1> DEFINE Inv == DeferredInv /\ KTimerInv /\ SimpleWqInv /\ MmapInv
<1>1. Init => Inv
  BY DeferredInitInv, KTimerInitInv, SimpleWqInitInv, MmapInitInv DEF Init
<1>2. Inv /\ [Next]_modulevars => Inv'
  <2> SUFFICES ASSUME Inv, [Next]_modulevars PROVE Inv'
    OBVIOUS
  <2>1. DeferredInv' BY SideBySide, DeferredStep
  <2>2. KTimerInv' BY SideBySide, KTimerStep
  <2>3. SimpleWqInv' BY SideBySide, SimpleWqStep
  <2>4. MmapInv' BY SideBySide, MmapStep
  <2> QED BY <2>1, <2>2, <2>3, <2>4
<1>3. Inv => LeavesNothing
  <2>1. KTimerInv => TimerGone BY DEF KTimerInv
  <2> QED BY <2>1, DeferredImplies, SimpleWqImplies, MmapImplies DEF LeavesNothing
<1> QED BY <1>1, <1>2, <1>3, PTL DEF Spec

=============================================================================
