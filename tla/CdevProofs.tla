----------------------------- MODULE CdevProofs -----------------------------
(***************************************************************************)
(* Proofs about DummyCdev for every number of minors, of probes, of files  *)
(* and every interval and mapping length.                                  *)
(***************************************************************************)
EXTENDS DummyCdev, TLAPS

USE DEF Minors, Objects

-----------------------------------------------------------------------------
(* The exported symbol keeps platform_test in while platform_cdev is.      *)
KeptIn == cmod => plat = "in"

(* mydevs[] is right while the module is in; while rmmod runs it names     *)
(* objects that are gone.                                                  *)
TableRight ==
  /\ plat = "in" => mydevs = bound
  /\ plat = "out" => \A i \in Minors : bound[i] = 0 /\ mydevs[i] = 0

(* The pointers that platform_cdev took from there at its init.            *)
CachedRight == cmod => \A i \in Minors : my_device[i] \in {0, bound[i]}

(* Files are open on a loaded module, and a call uses the pointer of the   *)
(* file it came through.                                                   *)
FilesHeld ==
  \A h \in Handles :
    /\ open[h] # -1 => cmod
    /\ inside[h] # 0 => open[h] # -1 /\ inside[h] = my_device[open[h]]

CdevRest == KeptIn /\ TableRight /\ CachedRight /\ FilesHeld /\ NodesServed
CdevInv == TypeOK /\ CdevRest

(* The conversion of an interval is a number of jiffies. *)
LEMMA JiffiesNat == \A ms \in Nat : msecs_to_jiffies(ms) \in Nat
<1> TAKE ms \in Nat
<1>1. HZ \in Nat BY CdevAssumption
<1>2. ms * HZ \in Nat BY <1>1
<1> DEFINE n == ms * HZ
<1> HIDE DEF n
<1>3. n \in Nat BY <1>2 DEF n
<1>4. (n + 999) \div 1000 \in Nat BY <1>3
<1> QED BY <1>4 DEF n, msecs_to_jiffies

LEMMA CdevInitInv == Init => CdevInv
<1> SUFFICES ASSUME Init PROVE CdevInv
  OBVIOUS
<1>0. cmod \in BOOLEAN /\ region \in BOOLEAN BY DEF Init
<1>1. TypeOK
  BY <1>0, CdevAssumption DEF Init, TypeOK, PlatformTypeOK, ChrdevTypeOK, FilesTypeOK
<1>2. CdevRest
  BY DEF Init, CdevRest, KeptIn, TableRight, CachedRight, FilesHeld, NodesServed
<1> QED BY <1>1, <1>2 DEF CdevInv

-----------------------------------------------------------------------------
(* Every step keeps the types of the platform devices. *)
LEMMA PlatformType ==
  ASSUME TypeOK, Next
  PROVE  PlatformTypeOK'
<1> USE CdevAssumption DEF PlatformTypeOK, platform
<1>0. PlatformTypeOK BY DEF TypeOK
<1>1. CASE UNCHANGED <<platform, poll_time>> BY <1>0, <1>1
<1>2. CASE PlatLoad \/ PlatUnload \/ PlatGone
  BY <1>0, <1>2 DEF PlatLoad, PlatUnload, PlatGone
<1>3. ASSUME NEW i \in Minors, Probe(i) PROVE PlatformTypeOK'
  <2>1. msecs_to_jiffies(500) \in Nat /\ probes + 1 \in 0 .. MaxProbe
    BY <1>0, <1>3, JiffiesNat DEF Probe
  <2> HIDE DEF Minors
  <2>2. bound' \in [Minors -> 0 .. MaxProbe] BY <1>0, <1>3, <2>1 DEF Probe
  <2>4. mydevs' \in [Minors -> 0 .. MaxProbe] BY <1>0, <1>3, <2>1 DEF Probe
  <2>3. poll_time' \in [Objects -> Nat] BY <1>0, <1>3, <2>1 DEF Probe
  <2> QED BY <1>0, <1>3, <2>1, <2>2, <2>3, <2>4 DEF Probe
<1>4. ASSUME NEW i \in Minors, Remove(i) PROVE PlatformTypeOK'
  <2>1. bound' \in [Minors -> 0 .. MaxProbe] BY <1>0, <1>4 DEF Remove
  <2> QED BY <1>0, <1>4, <2>1 DEF Remove
<1>5. ASSUME NEW h \in Handles, NEW ms \in Intervals, Ioctl(h, ms)
      PROVE  PlatformTypeOK'
  <2>1. msecs_to_jiffies(ms) \in Nat BY JiffiesNat
  <2> QED BY <1>0, <1>5, <2>1 DEF Ioctl
<1> QED
  BY <1>1, <1>2, <1>3, <1>4, <1>5
     DEF Next, vars, CdevInitOk, CdevInitNoClass, CdevExit, CdevInitNoDevice,
         CdevInitNoCdev, Open, Release, Enter, Leave, Munmap, Mmap

(* Every step keeps the types of the character device. *)
LEMMA ChrdevType ==
  ASSUME TypeOK, Next
  PROVE  ChrdevTypeOK'
<1> USE CdevAssumption DEF ChrdevTypeOK, chrdev
<1>0. ChrdevTypeOK BY DEF TypeOK
<1>1. CASE UNCHANGED chrdev BY <1>0, <1>1
<1>t. mydevs \in [Minors -> 0 .. MaxProbe] BY DEF TypeOK, PlatformTypeOK
<1>2. CASE CdevInitOk
  <2>1. cmod' \in BOOLEAN /\ region' \in BOOLEAN BY <1>2 DEF CdevInitOk
  <2> QED BY <1>0, <1>t, <1>2, <2>1 DEF CdevInitOk, Fetched
<1>3. CASE CdevExit
  <2>1. cmod' \in BOOLEAN /\ region' \in BOOLEAN BY <1>3 DEF CdevExit
  <2> QED BY <1>0, <1>3, <2>1 DEF CdevExit
<1>4. ASSUME NEW n \in Minors, CdevInitNoDevice(n) PROVE ChrdevTypeOK'
  <2>1. cmod' \in BOOLEAN /\ region' \in BOOLEAN BY <1>4 DEF CdevInitNoDevice
  <2> QED BY <1>0, <1>t, <1>4, <2>1 DEF CdevInitNoDevice, Fetched
<1>5. ASSUME NEW n \in Minors, CdevInitNoCdev(n) PROVE ChrdevTypeOK'
  BY <1>0, <1>5 DEF CdevInitNoCdev
<1> QED
  BY <1>1, <1>2, <1>3, <1>4, <1>5
     DEF Next, vars, PlatLoad, PlatUnload, PlatGone, Probe, Remove, CdevInitNoClass,
         Open, Release, Enter, Leave, Munmap, Ioctl, Mmap

(* Every step keeps the types of the files. *)
LEMMA FilesType ==
  ASSUME TypeOK, Next
  PROVE  FilesTypeOK'
<1> USE CdevAssumption DEF FilesTypeOK, fileops
<1>0. FilesTypeOK BY DEF TypeOK
<1>1. CASE UNCHANGED fileops BY <1>0, <1>1
<1>2. ASSUME NEW h \in Handles, NEW i \in Minors, Open(h, i) PROVE FilesTypeOK'
  <2>1. nonblock' \in [Handles -> BOOLEAN] BY <1>0, <1>2 DEF Open
  <2> QED BY <1>0, <1>2, <2>1 DEF Open
<1>3. ASSUME NEW h \in Handles, Release(h) PROVE FilesTypeOK'
  BY <1>0, <1>3 DEF Release
<1>4. ASSUME NEW h \in Handles, Enter(h) PROVE FilesTypeOK'
  <2>1. my_device[open[h]] \in 0 .. MaxProbe
    BY <1>0, <1>4 DEF Enter, TypeOK, ChrdevTypeOK
  <2> QED BY <1>0, <1>4, <2>1 DEF Enter
<1>5. ASSUME NEW h \in Handles, Leave(h) PROVE FilesTypeOK'
  BY <1>0, <1>5 DEF Leave
<1>6. ASSUME NEW h \in Handles, Munmap(h) PROVE FilesTypeOK'
  BY <1>0, <1>6 DEF Munmap
<1>7. ASSUME NEW h \in Handles, NEW size \in MapSizes, Mmap(h, size)
      PROVE  FilesTypeOK'
  BY <1>0, <1>7 DEF Mmap
<1> QED
  BY <1>1, <1>2, <1>3, <1>4, <1>5, <1>6, <1>7
     DEF Next, vars, PlatLoad, PlatUnload, PlatGone, Probe, Remove, CdevInitOk,
         CdevInitNoClass, CdevExit, CdevInitNoDevice, CdevInitNoCdev, Ioctl

(* A device goes only when nobody has its pointer: every step keeps the    *)
(* dependency of the modules, the table and the pointers taken from it.    *)
LEMMA PointersKept ==
  ASSUME CdevInv, Next
  PROVE  KeptIn' /\ TableRight' /\ CachedRight'
<1> USE CdevAssumption DEF KeptIn, TableRight, CachedRight
<1>0. KeptIn /\ TableRight /\ CachedRight BY DEF CdevInv, CdevRest
<1>t. /\ bound \in [Minors -> 0 .. MaxProbe] /\ mydevs \in [Minors -> 0 .. MaxProbe]
      /\ my_device \in [Minors -> 0 .. MaxProbe]
  BY DEF CdevInv, TypeOK, PlatformTypeOK, ChrdevTypeOK
<1>1. CASE UNCHANGED <<platform, cmod, my_device>> BY <1>0, <1>1 DEF platform
<1>2. CASE PlatLoad BY <1>0, <1>t, <1>2 DEF PlatLoad, chrdev
<1>3. CASE PlatUnload BY <1>0, <1>3 DEF PlatUnload, chrdev
<1>4. CASE PlatGone BY <1>0, <1>4 DEF PlatGone, chrdev
<1>5. ASSUME NEW i \in Minors, Probe(i) PROVE KeptIn' /\ TableRight' /\ CachedRight'
  BY <1>0, <1>t, <1>5 DEF Probe, chrdev
<1>6. ASSUME NEW i \in Minors, Remove(i) PROVE KeptIn' /\ TableRight' /\ CachedRight'
  BY <1>0, <1>6 DEF Remove, chrdev
<1>7. CASE CdevInitOk BY <1>0, <1>t, <1>7 DEF CdevInitOk, Fetched, platform
<1>8. CASE CdevExit BY <1>0, <1>8 DEF CdevExit, platform
<1>9. ASSUME NEW n \in Minors, CdevInitNoDevice(n)
      PROVE  KeptIn' /\ TableRight' /\ CachedRight'
  BY <1>0, <1>t, <1>9 DEF CdevInitNoDevice, Fetched, platform
<1> QED
  BY <1>1, <1>2, <1>3, <1>4, <1>5, <1>6, <1>7, <1>8, <1>9
     DEF Next, vars, CdevInitNoClass, CdevInitNoCdev, Open, Release, Enter, Leave,
         Munmap, Ioctl, Mmap, chrdev

(* Every step keeps the files on a loaded module: exit waits for them.     *)
LEMMA FilesKept ==
  ASSUME CdevInv, Next
  PROVE  FilesHeld' /\ NodesServed'
<1> USE DEF FilesHeld, NodesServed
<1>0. FilesHeld /\ NodesServed BY DEF CdevInv, CdevRest
<1>t. open \in [Handles -> Minors \cup {-1}] /\ inside \in [Handles -> 0 .. MaxProbe]
  BY DEF CdevInv, TypeOK, FilesTypeOK
<1>1. CASE UNCHANGED <<chrdev, open, inside>> BY <1>0, <1>1 DEF chrdev
<1>2. CASE CdevInitOk BY <1>0, <1>2 DEF CdevInitOk, fileops
<1>3. CASE CdevExit BY <1>0, <1>3 DEF CdevExit, fileops
<1>4. ASSUME NEW n \in Minors, CdevInitNoDevice(n) PROVE FilesHeld' /\ NodesServed'
  BY <1>0, <1>4 DEF CdevInitNoDevice, fileops
<1>5. ASSUME NEW n \in Minors, CdevInitNoCdev(n) PROVE FilesHeld' /\ NodesServed'
  BY <1>0, <1>5 DEF CdevInitNoCdev, fileops
<1>6. ASSUME NEW h \in Handles, NEW i \in Minors, Open(h, i)
      PROVE  FilesHeld' /\ NodesServed'
  BY <1>0, <1>t, <1>6 DEF Open, chrdev
<1>7. ASSUME NEW h \in Handles, Release(h) PROVE FilesHeld' /\ NodesServed'
  BY <1>0, <1>t, <1>7 DEF Release, chrdev
<1>8. ASSUME NEW h \in Handles, Enter(h) PROVE FilesHeld' /\ NodesServed'
  BY <1>0, <1>t, <1>8 DEF Enter, chrdev
<1>9. ASSUME NEW h \in Handles, Leave(h) PROVE FilesHeld' /\ NodesServed'
  BY <1>0, <1>t, <1>9 DEF Leave, chrdev
<1> QED
  BY <1>1, <1>2, <1>3, <1>4, <1>5, <1>6, <1>7, <1>8, <1>9
     DEF Next, vars, fileops, PlatLoad, PlatUnload, PlatGone, Probe, Remove,
         CdevInitNoClass, Munmap, Ioctl, Mmap

LEMMA CdevStep == CdevInv /\ [Next]_vars => CdevInv'
<1> SUFFICES ASSUME CdevInv, [Next]_vars PROVE CdevInv'
  OBVIOUS
<1>1. CASE Next
  BY <1>1, PlatformType, ChrdevType, FilesType, PointersKept, FilesKept
     DEF CdevInv, TypeOK, CdevRest
<1>2. CASE UNCHANGED vars
  <2>1. TypeOK'
    BY <1>2 DEF CdevInv, TypeOK, PlatformTypeOK, ChrdevTypeOK, FilesTypeOK, vars,
                platform, chrdev, fileops
  <2>2. CdevRest'
    BY <1>2 DEF CdevInv, CdevRest, KeptIn, TableRight, CachedRight, FilesHeld,
                NodesServed, vars, platform, chrdev, fileops
  <2> QED BY <2>1, <2>2 DEF CdevInv
<1> QED BY <1>1, <1>2

LEMMA CdevImplies == CdevInv => NoStaleDevice /\ RightDevice /\ NodesServed
<1> SUFFICES ASSUME CdevInv PROVE NoStaleDevice /\ RightDevice /\ NodesServed
  OBVIOUS
<1> USE DEF CdevInv, CdevRest
<1>1. ASSUME NEW h \in Handles, open[h] # -1
      PROVE  /\ open[h] \in Minors /\ my_device[open[h]] \in {0, bound[open[h]]}
             /\ inside[h] \in {0, bound[open[h]]}
  BY <1>1 DEF TypeOK, FilesTypeOK, FilesHeld, CachedRight
<1>2. NoStaleDevice BY <1>1 DEF NoStaleDevice, Live
<1>3. RightDevice BY <1>1 DEF RightDevice
<1> QED BY <1>2, <1>3

-----------------------------------------------------------------------------
(* platform_cdev.c: no call on a file, also one that sleeps in the driver, *)
(* reaches an object that plat_dummy_remove has freed, whatever the order  *)
(* of probes, loads and unloads of the two modules.                        *)
THEOREM DeviceAlive == Spec => []NoStaleDevice
BY CdevImplies, CdevInitInv, CdevStep, PTL DEF Spec

(* platform_cdev.c: minor i works on the device with alias i, also after   *)
(* devices were probed in another order or again.                          *)
THEOREM DeviceRight == Spec => []RightDevice
BY CdevImplies, CdevInitInv, CdevStep, PTL DEF Spec

(* platform_cdev.c: no node outlives the module that serves it, and none   *)
(* is left by an init that stopped half-way.                               *)
THEOREM NodesCorrect == Spec => []NodesServed
BY CdevImplies, CdevInitInv, CdevStep, PTL DEF Spec

=============================================================================
