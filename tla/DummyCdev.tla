----------------------------- MODULE DummyCdev -----------------------------
(***************************************************************************)
(* The lifecycle around the data path of HW12: probe and remove of the     *)
(* platform devices (platform_test.c), loading and unloading of the        *)
(* character device module (platform_cdev.c), and the calls on its open    *)
(* files.  A probe allocates a plat_dummy_device; objects are numbered in  *)
(* the order of their allocation and 0 stands for NULL.                    *)
(***************************************************************************)
EXTENDS Integers, FiniteSets

CONSTANTS
  DUMMY_DEVICES,   \* number of minors, 2 in the code
  Handles,         \* struct file objects of user programs
  MaxProbe,        \* bound on the number of probes
  HZ,              \* jiffies per second
  Intervals,       \* intervals in ms that programs ask for
  PhysMemSize,     \* phys_mem_size, in pages
  MapSizes         \* lengths, in pages, of the mappings programs ask for

ASSUME CdevAssumption ==
  /\ DUMMY_DEVICES \in Nat \ {0} /\ MaxProbe \in Nat
  /\ HZ \in 1 .. 1000
  /\ Intervals \subseteq Nat /\ MapSizes \subseteq Nat /\ PhysMemSize \in Nat

VARIABLES
  plat,        \* platform_test module: "out", "in", or "going" while rmmod runs
  bound,       \* per alias id: the object of the bound device
  probes,      \* objects allocated so far
  mydevs,      \* mydevs[] of platform_test.c
  poll_time,   \* js_pool_time of each object
  cmod,        \* platform_cdev module is loaded (its init returned 0)
  region,      \* the chrdev region is registered
  added,       \* minors whose cdev is in the kernel's map
  my_device,   \* dummy_cdevs[].my_device
  nodes,       \* minors with a device node
  dangling,    \* minors whose cdev survived the module that owned it
  open,        \* per handle: the minor it is open on, or -1
  nonblock,    \* per handle: O_NONBLOCK
  inside,      \* per handle: the object a blocking call is in, or 0
  mapped       \* per handle: length of its mapping, 0 if none

platform == <<plat, bound, probes, mydevs>>
chrdev == <<cmod, region, added, my_device, nodes, dangling>>
fileops == <<open, nonblock, inside, mapped>>
vars == <<platform, poll_time, chrdev, fileops>>

Minors == 0 .. DUMMY_DEVICES - 1
Objects == 1 .. MaxProbe

PlatformTypeOK ==
  /\ plat \in {"out", "in", "going"} /\ probes \in 0 .. MaxProbe
  /\ bound \in [Minors -> 0 .. MaxProbe] /\ mydevs \in [Minors -> 0 .. MaxProbe]
  /\ poll_time \in [Objects -> Nat]

ChrdevTypeOK ==
  /\ cmod \in BOOLEAN /\ region \in BOOLEAN
  /\ added \subseteq Minors /\ nodes \subseteq Minors /\ dangling \subseteq Minors
  /\ my_device \in [Minors -> 0 .. MaxProbe]

FilesTypeOK ==
  /\ open \in [Handles -> Minors \cup {-1}] /\ nonblock \in [Handles -> BOOLEAN]
  /\ inside \in [Handles -> 0 .. MaxProbe] /\ mapped \in [Handles -> Nat]

TypeOK == PlatformTypeOK /\ ChrdevTypeOK /\ FilesTypeOK

Init ==
  /\ plat = "out" /\ probes = 0
  /\ bound = [i \in Minors |-> 0] /\ mydevs = [i \in Minors |-> 0]
  /\ poll_time = [o \in Objects |-> 0]
  /\ cmod = FALSE /\ region = FALSE
  /\ added = {} /\ nodes = {} /\ dangling = {}
  /\ my_device = [i \in Minors |-> 0]
  /\ open = [h \in Handles |-> -1] /\ nonblock = [h \in Handles |-> FALSE]
  /\ inside = [h \in Handles |-> 0] /\ mapped = [h \in Handles |-> 0]

(* msecs_to_jiffies: rounds up *)
msecs_to_jiffies(ms) == (ms * HZ + 999) \div 1000

-----------------------------------------------------------------------------
(* platform_test.c *)

PlatLoad ==
  /\ plat = "out"
  /\ plat' = "in"
  /\ UNCHANGED <<bound, probes, mydevs, poll_time, chrdev, fileops>>

(* plat_dummy_probe succeeds for alias id i.  A failing probe gives        *)
(* everything back through devm and leaves mydevs alone, a stutter.        *)
Probe(i) ==
  /\ plat = "in" /\ bound[i] = 0 /\ probes < MaxProbe
  /\ probes' = probes + 1
  /\ bound' = [bound EXCEPT ![i] = probes + 1]
  /\ mydevs' = [mydevs EXCEPT ![i] = probes + 1]
  /\ poll_time' = [poll_time EXCEPT ![probes + 1] = msecs_to_jiffies(500)]
  /\ UNCHANGED <<plat, chrdev, fileops>>

(* plat_dummy_remove at rmmod: work cancelled, object freed; mydevs[i]     *)
(* still points to it.  Unbinding a device through sysfs is not modelled.  *)
Remove(i) ==
  /\ plat = "going"
  /\ bound[i] # 0
  /\ bound' = [bound EXCEPT ![i] = 0]
  /\ UNCHANGED <<plat, probes, mydevs, poll_time, chrdev, fileops>>

(* Variant without the module dependency that the exported symbol creates. *)
PlatUnloadFree ==
  /\ plat = "in"
  /\ plat' = "going"
  /\ UNCHANGED <<bound, probes, mydevs, poll_time, chrdev, fileops>>

(* rmmod platform_test.  platform_cdev uses get_dummy_platfrom_device, so  *)
(* the kernel refuses while it is loaded.                                  *)
PlatUnload ==
  /\ plat = "in" /\ ~ cmod
  /\ plat' = "going"
  /\ UNCHANGED <<bound, probes, mydevs, poll_time, chrdev, fileops>>

(* Every device is removed: mydevs goes with the module. *)
PlatGone ==
  /\ plat = "going" /\ \A i \in Minors : bound[i] = 0
  /\ plat' = "out"
  /\ mydevs' = [i \in Minors |-> 0]
  /\ UNCHANGED <<bound, probes, poll_time, chrdev, fileops>>

-----------------------------------------------------------------------------
(* dummy_cdev_init, one action per way out.  Failing to get the region     *)
(* changes nothing.                                                        *)

(* Variant that asks for device 0 every time. *)
FetchedFirst(n) == [i \in Minors |-> IF i <= n THEN mydevs[0] ELSE 0]

(* The device pointers fetched before the loop stopped at minor n; the     *)
(* module's own memory starts as zeros.                                    *)
Fetched(n) == [i \in Minors |-> IF i <= n THEN mydevs[i] ELSE 0]

CdevInitOk ==
  /\ plat = "in" /\ ~ cmod
  /\ \A i \in Minors : mydevs[i] # 0
  /\ cmod' = TRUE /\ region' = TRUE
  /\ added' = Minors /\ my_device' = Fetched(DUMMY_DEVICES - 1)
  /\ \E N \in SUBSET Minors : nodes' = N    \* device_create is not checked
  /\ UNCHANGED <<platform, poll_time, dangling, fileops>>

(* get_dummy_platfrom_device(n) returns NULL: goto error_region with ret   *)
(* still 0 from the call before, so the module stays loaded.               *)
CdevInitNoDevice(n) ==
  /\ plat = "in" /\ ~ cmod
  /\ mydevs[n] = 0 /\ \A i \in 0 .. n - 1 : mydevs[i] # 0
  /\ cmod' = TRUE /\ region' = FALSE
  /\ added' = 0 .. n - 1 /\ my_device' = Fetched(n)
  /\ nodes' = {}
  /\ UNCHANGED <<platform, poll_time, dangling, fileops>>

(* cdev_add fails for minor n: goto error_region with ret < 0, the module  *)
(* is freed and the cdevs added before stay in the map.                    *)
CdevInitNoCdev(n) ==
  /\ plat = "in" /\ ~ cmod
  /\ \A i \in 0 .. n : mydevs[i] # 0
  /\ dangling' = dangling \cup 0 .. n - 1
  /\ UNCHANGED <<platform, poll_time, cmod, region, added, my_device, nodes,
                 fileops>>

(* class_create fails: both cdevs are deleted, the region is given back;   *)
(* nothing remains, as before the call.                                    *)
CdevInitNoClass ==
  /\ plat = "in" /\ ~ cmod
  /\ \A i \in Minors : mydevs[i] # 0
  /\ UNCHANGED vars

(* Variant that leaves the nodes behind. *)
CdevExitNodes ==
  /\ cmod /\ \A h \in Handles : open[h] = -1
  /\ cmod' = FALSE /\ region' = FALSE /\ added' = {}
  /\ UNCHANGED <<platform, poll_time, my_device, nodes, dangling, fileops>>

(* dummy_cdev_exit; an open file holds the module (.owner = THIS_MODULE).  *)
(* After an init that stopped half-way it finds less to undo.              *)
CdevExit ==
  /\ cmod /\ \A h \in Handles : open[h] = -1
  /\ nodes' = {} /\ added' = {} /\ region' = FALSE
  /\ cmod' = FALSE /\ my_device' = [i \in Minors |-> 0]
  /\ UNCHANGED <<platform, poll_time, dangling, fileops>>

-----------------------------------------------------------------------------
(* Calls on files.  The calls into the driver are guarded by the pointer   *)
(* that init cached.                                                       *)

(* dummy_cdev_open through a node *)
Open(h, i) ==
  /\ open[h] = -1 /\ i \in nodes /\ i \in added
  /\ open' = [open EXCEPT ![h] = i]
  /\ \E b \in BOOLEAN : nonblock' = [nonblock EXCEPT ![h] = b]
  /\ UNCHANGED <<platform, poll_time, chrdev, inside, mapped>>

(* dummy_cdev_release, when the last call has returned and the mapping is  *)
(* gone.                                                                   *)
Release(h) ==
  /\ open[h] # -1 /\ inside[h] = 0 /\ mapped[h] = 0
  /\ open' = [open EXCEPT ![h] = -1]
  /\ UNCHANGED <<platform, poll_time, chrdev, nonblock, inside, mapped>>

(* dummy_cdev_read and dummy_cdev_write: O_NONBLOCK is refused with        *)
(* -EAGAIN, a NULL device with -1.                                         *)
Enter(h) ==
  /\ open[h] # -1 /\ inside[h] = 0
  /\ ~ nonblock[h]
  /\ my_device[open[h]] # 0
  /\ inside' = [inside EXCEPT ![h] = my_device[open[h]]]
  /\ UNCHANGED <<platform, poll_time, chrdev, open, nonblock, mapped>>

Leave(h) ==
  /\ inside[h] # 0
  /\ inside' = [inside EXCEPT ![h] = 0]
  /\ UNCHANGED <<platform, poll_time, chrdev, open, nonblock, mapped>>

(* MIN_PULL_INTERVAL and MAX_PULL_INTERVAL *)
InRange(ms) == ms >= 10 /\ ms <= 10000

(* dummy_cdev_ioctl, DUMMY_SET_POOLING, and set_poll_interval; anything    *)
(* else is an error return that changes nothing.                           *)
Ioctl(h, ms) ==
  /\ open[h] # -1 /\ my_device[open[h]] # 0 /\ InRange(ms)
  /\ poll_time' = [poll_time EXCEPT ![my_device[open[h]]] = msecs_to_jiffies(ms)]
  /\ UNCHANGED <<platform, chrdev, fileops>>

(* dummy_cdev_mmap and plat_dummy_mmap: the data area from its start, the  *)
(* offset asked for is ignored.                                            *)
Mmap(h, size) ==
  /\ open[h] # -1 /\ mapped[h] = 0 /\ my_device[open[h]] # 0
  /\ size > 0 /\ size <= PhysMemSize
  /\ mapped' = [mapped EXCEPT ![h] = size]
  /\ UNCHANGED <<platform, poll_time, chrdev, open, nonblock, inside>>

Munmap(h) ==
  /\ mapped[h] # 0
  /\ mapped' = [mapped EXCEPT ![h] = 0]
  /\ UNCHANGED <<platform, poll_time, chrdev, open, nonblock, inside>>

Next ==
  \/ PlatLoad \/ PlatUnload \/ PlatGone
  \/ \E i \in Minors : Probe(i) \/ Remove(i)
  \/ CdevInitOk \/ CdevInitNoClass \/ CdevExit
  \/ \E n \in Minors : CdevInitNoDevice(n) \/ CdevInitNoCdev(n)
  \/ \E h \in Handles :
       \/ \E i \in Minors : Open(h, i)
       \/ Release(h) \/ Enter(h) \/ Leave(h) \/ Munmap(h)
       \/ \E ms \in Intervals : Ioctl(h, ms)
       \/ \E size \in MapSizes : Mmap(h, size)

Spec == Init /\ [][Next]_vars

-----------------------------------------------------------------------------
(* Objects whose memory is valid. *)
Live == {bound[i] : i \in Minors} \ {0}

(* A file operation never reaches a device object that plat_dummy_remove   *)
(* has freed: neither the pointer cached at init nor the one a sleeping    *)
(* reader uses goes stale across module reloads.                           *)
NoStaleDevice ==
  \A h \in Handles : open[h] # -1 =>
    /\ my_device[open[h]] \in Live \cup {0}
    /\ inside[h] \in Live \cup {0}

(* A file of dummyX works on platform device X and on no other. *)
RightDevice ==
  \A h \in Handles :
    open[h] # -1 => my_device[open[h]] \in {0, bound[open[h]]}

(* A device node is there only while the module that serves it is, with    *)
(* its region registered and its cdev in place.                            *)
NodesServed == nodes # {} => cmod /\ region /\ nodes \subseteq added

=============================================================================
