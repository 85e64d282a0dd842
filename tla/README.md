# TLA+ models and proofs of the LunuxProCamp drivers

The repository is a kernel course: each `HW*` directory is one exercise, most of
them a kernel module with a user program. The larger ones are small concurrent
systems: interrupt handlers, timers, works, kernel threads and processes that
share a buffer, a list, a counter or a device. This directory holds TLA+ models of
them, instances that TLC checks, and proofs that TLAPS checks.

## 1. Inventory

| Component (source) | State it keeps | Operations | What makes it hard | What makes it correct |
|---|---|---|---|---|
| Dummy device and sender (`HW12/send_data2.c`) | flag register, size register, data area; the program's place in its file | one run of `main()`: clear the flag, then per chunk wait, copy, set size, set flag | shares the device with the driver with no lock, only the order of stores | each chunk reaches the driver once, unchanged and in order |
| Platform driver, data path (`HW12/platform_test.c`) | ring `buffer`/`rp`/`wp`, `rd_mutex`, wait queue `rwq`, period of the work | `plat_dummy_read`, `plat_dummy_write`, `plat_dummy_work` | many readers and writers against a delayed work; sleeping without the mutex; wrap-around; failing copies; signals | FIFO without loss, no lost wake-up, the mutex always given back, the file arrives |
| Platform driver and character device, lifecycle (`HW12/platform_test.c`, `HW12/platform_cdev.c`) | `mydevs[]`, `dummy_cdevs[]`, region, nodes, open files | insmod/rmmod of two modules, probe/remove, open, release, read/write entry, ioctl, mmap | pointers cached across modules; an init with four ways to fail | no call reaches a freed or foreign device, nodes have a server |
| Button and LED driver (`HW16/module3/hw3.c`) | `data_ready`, `btn_on`, `led_on`, `control`, LED, wait queue | probe, interrupt, read, write, poll, ioctl, remove | interrupt against sleepers; coalesced edges; probe that is usable before it ends; remove with the interrupt still requested | no lost wake-up, the last level is read last, LED = `led_on` |
| `hw3-app.c` (`HW16/module3`) | `buf`, its own `led_on`, turn | poll/read/toggle loop between two ioctls | a copy of the driver's state; data that another reader takes after `poll` | one toggle per release, its `led_on` is the driver's |
| Event list (`HW9/spinlock.c`) | circular list, cursor, two counters, two timers | `timer_callback`, `irq_simulation_callback`, exit | two callbacks, one list, both arm the same timer | FIFO, every number accounted for, the timer stops |
| Kernel threads (`HW10/threads.c`) | `global_var`, `my_mutex`, `task[]` | creation, five thread functions, `kthread_stop` in turn | read-modify-write; stop against a mutex and a sleep; a thread that cannot be created | no lost increment, no thread outlives the module, rmmod returns |
| Button counter (`HW7/onboard_io/onboard_irq.c`) | counter, debugfs file, threaded interrupt, module parameter | init, handler, thread, debugfs write, exit | presses during the 2 s sleep of the thread and during exit; init adds to the counter too | every press is printed (not every one is counted: run `PressesLost`), exit waits |
| Deferred work (`HW6/deffered/hrt.c`) | hrtimer, two tasklets, a work and a delayed work | timer callback, tasklets, works, exit | the same work scheduled twice; flush and kill in exit | no request for the work lost, no tasklet after exit |
| mmap driver (`HW8/mmap.c`) | vmalloc and kmalloc area, mappings | init, exit, open, release, mmap, page faults | fault after fork and partial munmap; pages held while the module goes; unwinding | the page behind an offset is the right one and is alive |
| HW11 driver (`HW11/platform_test_dts.c`, `send_data.c`, `read_data.c`) | flag and size register, data area, two delayed works, the `devm` object | probe, `plat_dummy_work_read`, `plat_dummy_work_write`, remove; the sender | the write work stores into the area the sender fills; the sender waits for nobody; works that queue themselves against cancellation | what is printed is the message but for that word; no work meets a freed object; both directions go on |
| Button module 1 (`HW15/module1/hw1.c`) | mapped GPIO registers, polling thread | init, thread, exit | loads, changes and stores a whole register of the bank that other drivers change too; unmapping against the thread | the LED follows the button; the thread ends before the registers are unmapped |
| Button module 2 (`HW15/module2/hw2.c`) | two lines, an interrupt | init, `hw2_btn_isr`, exit | an init that gives nothing back when it fails | no handler outlives the module |
| LED class driver (`HW13/leds-gpio.c`) | LEDs, `dndMode`, class | probe, set at once or by a work, blink, mode attribute, shutdown, unload | no lock: users, triggers, a work and shutdown may be inside `gpio_led_set` and `gpio_blink_set` of one LED at once; the mode is looked at twice; other code writes the same bank | an LED shows the last brightness asked for; what blinks can be stopped; shutdown leaves it dark until it is used again |
| Button poller (`HW6/button/onboard_io/onboard_io.c`) | button line, LED line, timer, `times` | init, `timer_callback`, exit | wants the line that `onboard_irq.c` wants; partial init | the timer reads the line only while its module has it |
| Timer and work queue (`HW6/deffered/timer.c`, `simple_wq.c`) | a timer that re-arms itself; a queue with works that free themselves | init, handlers, exit | exit against a pending handler; a work that runs before init has ended | nothing runs or stays allocated after exit |
| `HW6/button/onboard_io/onboard_io2.c` | | | not built by the Makefile, does not compile | not modelled |
| Everything else (HW1 to HW5, HW14, the sysfs samples of HW13, `sharedLibraries`, the helper programs of HW8 and HW12) | none or local | print, one system call | nothing concurrent | not modelled |

### How the parts interact

* HW12: `send_data2.c` and `platform_test.c` share the device's memory (the program
  through `/dev/mem`, the driver through `ioremap`). `platform_test.c` runs
  `plat_dummy_work` on a workqueue; the work fills the ring and wakes `rwq`.
  `platform_cdev.c` takes the device objects from `platform_test.c` when it is loaded
  (`get_dummy_platfrom_device`) and calls `plat_dummy_read` and `plat_dummy_write` for
  its open files. That call is also the module dependency that keeps
  `platform_test` loaded.
* HW16: the button interrupts `hw3.c`; `hw3-app.c` uses poll, read, write and ioctl
  of `/dev/hw3`, and other programs may do the same.
* HW11: `send_data.c` and the driver share the device's memory as in HW12, but the
  sender stores message, size and flag without looking at the flag. The driver's
  write work stores `jiffies` over the first word of the same area, where
  `read_data.c` loads it.
* HW15 and HW13: `hw1.c` writes `GPIO1_DATAOUT` and `GPIO1_OE` as a whole, while the
  kernel's GPIO driver changes single lines of the same registers for `leds-gpio.c`
  and `hw2.c`. `hw1.c` and `hw2.c` drive the same LED (line 15) from the same button.
* `onboard_irq.c` of HW7 and `onboard_io.c` of HW6 both request the line `BUTTON`; the
  first to have it wins, except that `onboard_io.c` takes its LED line from whoever
  has it.
* The remaining modules of HW6 to HW10 stand alone. Their partner is the kernel: timers,
  softirqs, kworkers, `irq_thread`, `kthread`, page faults.

## 2. Modules

| Module | Models | How state and actions correspond to the code |
|---|---|---|
| `DummyDevice` | the registers and the data area | `flag_reg`, `size_reg`, `mem` are the words that both sides map; both map them uncached, so stores are seen in program order |
| `SendData` | `send_data2.c` | `spc` is the place in `main()`, one action per access to the device; `Files` are the files of successive runs |
| `PlatDummy` | `plat_dummy_read`, `_write`, `_work` | `rp`, `wp` are offsets into `buffer`; `rpc`, `upc`, `wpc` say where readers, writers and the work are; one action per part between two points where another thread may come in. The copy loop of the work is one byte per step because readers test `rp != wp` without the mutex |
| `DummySystem` | the three composed | history: `accepted` (bytes put into the ring), `got` (bytes copied to readers), `faults` (failed `copy_from_user`) |
| `ByteChannel` | abstract specification: a bounded FIFO of bytes | `DummySystem` implements it with `queue <- ` the bytes from `rp` to `wp`, `delivered <- got`, `Capacity <- BUFF_SIZE - 1` |
| `MCDummySystem` | files and writes for TLC | |
| `DummySystemProofs` | theorems about `DummySystem`, and that it implements `ByteChannel` | |
| `DummyCdev` | lifecycle of both HW12 modules | objects are numbered in the order of their allocation; `bound` are the live ones, `mydevs` and `my_device` the two caches of pointers |
| `Hw3` | `hw3.c` from the wait queue's initialisation to removal | a critical section under `hw3->lock` is one step; the interrupt controller latches one edge; `ppc` is the place in probe, remove and the release of `devm` resources |
| `Hw3App` | `hw3-app.c`, extends `Hw3` | `buf` is `buf[0]`; `others` records what other programs did between poll and read or to the LED |
| `EventList` | `spinlock.c` | the list as a sequence from `head.next`, 0 for an empty element; time in steps of 100 ms |
| `KThreads` | `threads.c` | load and store of `global_var++` are two steps |
| `OnboardIrq` | `onboard_irq.c` | the handler is one step (one CPU), `runthread` is the kernel's `IRQTF_RUNTHREAD`; `button` says who has the line |
| `OnboardIo` | `onboard_io.c`, extends `OnboardIrq` | `io_pc` is the place in init, `armed` and `times` are the timer's, `led_sd` says who has the LED line |
| `DeferredWork` | `hrt.c` | `queued`, `running`, `delay` are the kernel's view of the works; `flushing` is what the flush waits for |
| `KTimer` | `timer.c` | one step per callback; when it comes is the kernel's choice |
| `SimpleWq` | `simple_wq.c` | `wq` is the queue, `current` the work being executed; the worker may run between any two calls of init |
| `MmapDrv` | `mmap.c` | a mapping is the range of file pages it still covers; `lo` is `vm_pgoff`, which the kernel moves when the beginning is unmapped |
| `MCModules` | `EventList`, `DeferredWork`, `KTimer`, `SimpleWq`, `MmapDrv`, `KThreads`, `PlatDummyDts`, one per behaviour (`loadedModule`) | the seven share nothing, so their interleavings show nothing more; one instance checks them together |
| `PlatDummyDts` | HW11, extends `DummyDevice` | a byte of the data area is known by who stored it; `dts_pending` are the works queued or on their timer, `ppc` the place in probe or remove |
| `GpioBank` | output and direction register of bank 1, the button | `level` and `outputs` per line; history: `switched` and `turned` are the LEDs that the GPIO driver set, or made outputs, since `hw1` last loaded the register, `garbled` those set between such a load and its store |
| `Hw1` | `hw1.c` | load and store of a register are two steps with `val` between them; `Stored` is what the store leaves on each line |
| `Hw2` | `hw2.c` | `held` is what init has requested, `"orphan"` an interrupt whose module is gone |
| `GpioLeds` | `leds-gpio.c` | `calls` are the activations of `gpio_led_set` and `gpio_blink_set`, each with its LED, caller, place and value, one action per access to `dndMode`, `blinking` or the line; `left` is what the loop of shutdown has before it; the LED class (brightness, its work, unregistering) is modelled by what the driver relies on |
| `Bank1` | `Hw1`, `Hw2` and `GpioLeds` on one bank | `Apart` names the combinations that are left out |
| `MCBank1` | two kinds of behaviours of `Bank1` for TLC | `Beside`: an LED of the bank beside `hw1`; `Alone`: an LED on an expander |
| `CdevProofs`, `Hw3Proofs`, `OnboardProofs`, `MmapProofs`, `KThreadsProofs`, `ModulesProofs`, `Bank1Proofs` | theorems about `DummyCdev`; `Hw3` and `Hw3App`; `OnboardIrq` and `OnboardIo`; `MmapDrv`; `KThreads`; `EventList`, `DeferredWork`, `KTimer`, `SimpleWq`, `PlatDummyDts` and their combination in `MCModules`; `Bank1` | |

Operators whose comment starts with "Variant" are plausible mistakes in the
definition that follows them (a dropped guard, a missing unlock, an off-by-one).
No specification uses them: put in place of that definition they make a property
fail, which shows that the property depends on it.

## 3. Runs

| Run | Instance | What it asks |
|---|---|---|
| `Stream` | 1 file of 5 bytes, data area 2, ring 4, 2 readers asking for 1 or 3 bytes | Is the ring a FIFO channel (`RingHoldsUnread`, `ImplementsChannel`)? Is the mutex protocol kept (`MutexInv`)? Can a wake-up be lost (`NoLostWakeup`)? Does the flag handshake keep the shared data area consistent (`Handshake`)? Do readers get a prefix of the file (`PrefixDelivered`) and in the end all of it (`AllDelivered`)? |
| `Write` | ring 3, file of 3 bytes, 2 writers, 1 reader, unreadable user pages, signals | Although `write()` may overwrite, is what is read never repeated or reordered (`GotInOrder`)? Does every path give the mutex back (`MutexReleased`)? |
| `WriteLosesData` | as `Write`, no sender | Finds that `write()` overwrites unread bytes |
| `SmallBuffer` | ring no larger than the data area | Finds that a full chunk is then never delivered |
| `Cdev` | 2 minors, 3 probes, 2 files, intervals at and around the limits | Is a call ever made with a freed device (`NoStaleDevice`) or that of another minor (`RightDevice`)? Is a node ever without its server (`NodesServed`)? |
| `Hw3App` | 4 edges, 3 turns, 1 blocking reader, other programs, removal | Is a wake-up lost (`NoLostWakeup`)? Is the last level read the button's (`LatestDelivered`)? Do LED, driver and program agree (`LedMatches`, `AppLedMatches`)? Does a release toggle once (`TogglePerRelease`)? |
| `Onboard` | 3 presses, 1 debugfs write, 1 load of `onboard_io` with 2 callbacks | Is the value after the last press printed (`LatestPrinted`, `PressPrinted`)? Is exit clean (`ExitClean`)? Does code read a line that another module has (`ButtonOwned`)? |
| `Modules`: `spinlock.c` | lists of 1, 2 and 5 elements, 15 and 6 callbacks as in the code | Is the event list a queue that accounts for every number (`Fifo`, `NoneLost`)? |
| `Modules`: `hrt.c`, `timer.c`, `simple_wq.c` | 5 restarts as in the code; 2 works | Is a request for a work lost (`WorkServesAll`)? Does a module that is gone leave a timer, a tasklet, a work or memory that it knows of (`LeavesNothing`, also of `mmap.c`)? Does rmmod return (`RmmodReturns`, also of `threads.c`)? |
| `Modules`: `mmap.c` | 2 pages per area, 2 programs, 2 insmods | Is the page behind an offset right and alive (`VmallocRight`, `NoPageAfterFree`)? |
| `Modules`: `threads.c` | 3 threads, counter modulo 3, creation may fail | Is an increment lost (`NoIncrementLost`)? Does a thread outlive the module (`AllStopped`)? |
| `Modules`: HW11 | data area 5, message 4, word 2, 2 runs of the sender, 2 loads | Is what is printed the message (`MessageIntact`)? Does a work meet a freed object (`NoWorkOnFreedDevice`)? Do both works go on (`BothDirectionsGoOn`)? |
| `Bank1` | `MCBank1`: an LED of the bank with a trigger beside `hw1`, and 2 loads of `hw2`; an LED on an expander with a user and a trigger, platform data, the texts for `dndMode` | Does the LED show what was asked, although `hw1` stores the register and several callers set it at once (`LedShowsBrightness`)? Is what blinks marked (`BlinkingIsMarked`)? Is the LED dark after shutdown (`DarkAfterShutdown`)? Does code run after exit (`NoCodeAfterExit`)? Does the LED of `hw1` follow the button (`LedFollowsButton`)? |
| `MmapKmalloc` | `MmapDrv` as in `Modules` | Finds that the page behind the kmalloc offset is the wrong one |
| `WorksLeft` | `DeferredWork` as in `Modules` | Finds that works are left after rmmod of `hrt.c` |
| `PressesLost` | `onboard_irq` alone, 1 press | Finds that a press is not counted that falls between a load and a store of init (`PressesCounted`) |

Runs that check deadlock do so because the system never stops (workers and readers
go on for ever). The others say `CHECK_DEADLOCK FALSE`: a module that has been
removed, or a bounded number of edges or presses, is an end.

### Bounds and why they are enough

* Ring of 4 (3 usable), chunks of 2, 2 and 1 bytes: the pointers wrap at every
  offset, the ring gets full, a chunk has to wait, and a reader has to read in two
  calls because of the wrap. Two readers are needed for "woken, but another took
  the data". Bytes are all different, so a lost, repeated or swapped byte shows.
* `Write`: ring of 3 with writes of 1 and 2 bytes, so that a write wraps, makes
  `wp` equal to `rp`, or overwrites; two writers and the work contend for the mutex.
* `Cdev`: three probes are one more than there are minors, so one device object is
  created after another was freed.
* `Hw3App`: four edges are two presses and two releases, more than one may fall
  on one interrupt; three turns are more than one toggle.
* `Modules`, threads: with three threads one can hold the mutex, one wait for it and
  one be stopped. The counter is kept modulo 3 where the code has 2^32: increments
  that are lost show unless a multiple of the modulus is lost, and one is enough to
  show.
* `Modules`, mmap: two pages are the least for which "page k of the area" and "page k
  of the file" differ and for which a mapping can be cut; two programs are what fork
  needs; the second insmod comes after a failed or a complete first one.
* `Modules`, HW11: a message of 4 with a word of 2 has bytes inside and outside the
  shared word, a data area of 5 has a byte behind the message, the second run of the
  sender falls into the printing of the first, and the second load follows a removal
  or a failed probe.
* `Onboard`: one press can wake the thread, one fall into its sleep, one into exit;
  one write to the file sets the counter back; two callbacks are one that re-arms the
  timer and one that does not.
* `Bank1`, beside `hw1`: the trigger sets the LED again and again, also between a load of
  `hw1` and its store, and shutdown sets it as a second caller. `hw2` is loaded twice,
  so once after a failed init. Nothing writes `dndMode` and nothing blinks: that is
  the other kind. `Apart` leaves out what has no line in common: `leds-gpio.c` meets
  `hw1.c` on the lines of the bank and `hw2.c` not at all.
* `Bank1`, alone: two callers, the work and shutdown are up to four calls for one LED at
  once; one of the callers makes it blink. The LED may sleep, and is then set by its
  work, or not, and is then set at once; it is to be retained or not. The texts for
  `dndMode` give -1, 0, 1 and no number.
* One LED at a time is enough for both: LEDs share nothing but `dndMode`, the order of
  unregistering and the loop of shutdown, and the theorems hold for any set of
  LEDs and callers.

### Fairness

* `DummySystem`: the sender and the workqueue run (weak fairness). The worker and a
  reader that ask for the mutex again and again get it (strong fairness: a kernel
  mutex hands over in order). A reader that has called `read()` goes on, and its
  user buffer is not bad for ever (strong fairness of the copy). Nobody is obliged to
  call `read()` in a given state except that readers do call again, as a program that
  loops on `read()` does.
* `KThreads`: threads are scheduled and the mutex is fair; exit goes on once it was
  called, but nobody has to call it.
* `OnboardIrq`, `DeferredWork`, `SimpleWq`: the interrupt thread, softirqs, kworkers and
  expired timers run; exit goes on once it was called. Nobody has to press or unload.
* `PlatDummyDts`: the timers of the two works expire and kworkers run; a sender that was
  started goes on. Nobody has to send, load or unload.
* `Bank1`: the thread of `hw1.c` is scheduled and its sleep ends. Nothing else is fair:
  the button may be pressed at any time or never.
* In `MCModules` each of these holds while `loadedModule` is that module.

`WorkerSignals` says whether `mutex_lock_interruptible` of the work may fail. A
kworker ignores signals, so it is `FALSE` for `Stream`, whose liveness would
otherwise need that signals stop; `Write` has it `TRUE` to cover the path. The
theorems hold for both values.

## 4. Proofs

Every safety invariant of a passing run is a theorem, for every value of the
constants, and so is `ImplementsChannel`. Assumed are only the named `ASSUME`s of the
modules (`DeviceAssumption`, `Hw3Assumption` and so on): sizes and bounds are
natural numbers, sets of things are of the right kind, names of threads differ.
TLC evaluates them in every run. Bounds that the runs need, such as `MaxEdges`,
`MaxPresses`, `MaxProbe` or the number of loads, are any number in the theorems.

Each theorem follows from an inductive invariant: the initial state satisfies it, every
step keeps it (one lemma per group of actions, in it one case per action), and
it implies the property. TLC finds each of these invariants true on the instance of
the run as well.

### HW12, data path: `DummySystemProofs`

| Theorem | For | Says |
|---|---|---|
| `InductiveInvariant` | all | `IndInv == TypeOK /\ MutexInv /\ ReaderCount /\ Room` is inductive |
| `TypeCorrect` | all | `rp` and `wp` stay in the buffer, no chunk exceeds the data area |
| `MutexCorrect` | all | `rd_mutex` is held exactly between lock and unlock on every path |
| `RingCorrect` | no writers | bytes accepted = bytes read, then the bytes in the ring |
| `ChannelImplemented` | no writers | the driver implements `ByteChannel` |
| `WakeupCorrect` | no writers | no reader sleeps on data unless the work is about to wake it |
| `HandshakeCorrect` | no writers | the flag keeps sender and work apart during the first run |
| `FileCorrect` | no writers | what the driver accepts in the first run is a prefix of the file |
| `DeliveryCorrect` | no writers | what readers get in the first run is a prefix of the file |
| `OrderCorrect` | all | what readers get is never repeated or out of order, also when `write()` overwrites |

Why `IndInv`: `TypeOK` alone is not inductive, since `rp + count` stays in the buffer
only because `count` was limited when the copy was granted (`ReaderCount`). That limit
holds until the copy only because nobody else moves `rp` meanwhile (`MutexInv`), and
the room granted to the work only shrinks as it copies (`Room`). `RingCorrect` then
needs one fact per pointer: the work fills a slot outside the used ones
(`WorkCopySlots`, `WorkCopyRing`), and a reader takes a run from the head
(`ReadCopySlots`, `ReadCopyRing`); no other step touches the ring (`RingTouched`).
With the same facts the work's copy is a `Put` of the channel (`WorkCopyPuts`), a
reader's copy a `Get` (`ReadCopyGets`) and every other step a stutter.
`FileCorrect` goes through the handshake: while the flag is 1 the data area holds
exactly the chunk that ends at `off`. `DeliveryCorrect` combines `RingCorrect` and
`FileCorrect`.

"No writers" is needed: with `write()` the ring statement is false (run
`WriteLosesData`). "First run" is needed too, see section 5. What remains with
writers is `OrderCorrect`. Its invariant `OrderInv` counts the accepted bytes behind the
reader (`Position`, read or overwritten): from there on the ring holds the accepted bytes
in order, and what was read comes from increasing places before it. The step that
matters is `StoreSlots`: a `write()` that moves `wp` past `rp` has just written every
slot that is then unread, so old and new bytes never mix; `Position` jumps by
`BUFF_SIZE`.

### The other modules

| Module, theorem | Property | Inductive invariant, and why it is needed |
|---|---|---|
| `CdevProofs`: `DeviceAlive`, `DeviceRight`, `NodesCorrect` | `NoStaleDevice`, `RightDevice`, `NodesServed` | `CdevInv`: the exported symbol keeps `platform_test` in while `platform_cdev` is (`KeptIn`), so `mydevs[]` (`TableRight`) and the pointers copied from it (`CachedRight`) stay right as long as a file can be open (`FilesHeld`) |
| `Hw3Proofs`: `ReaderWoken`, `LevelDelivered`, `LedCorrect` | `NoLostWakeup`, `LatestDelivered`, `LedMatches` | `DriverInv`: the level recorded by the handler is the button's unless an edge is latched (`Recorded`); the LED follows `led_on` from the start of probe (`LedFollows`) |
| `Hw3Proofs`: `AppCorrect`, `ToggleCorrect`, `AppKeepsReaders` | `AppLedMatches`, `TogglePerRelease` | the program's copies against the driver's at each place of its loop; a step of the program is one of the driver's actions, so `DriverInv` holds in the composition too |
| `OnboardProofs`: `PrintCorrect`, `ExitCorrect`, `LineCorrect` | `LatestPrinted`, `ExitClean`, `ButtonOwned` | `PairInv`: how long the interrupt (`IrqHeld`), the thread (`ThreadLife`) and the two claims to the line (`IrqLine`, `IoLine`) last; a press is printed unless the thread was woken or is about to look (`WakeupKept`) |
| `MmapProofs`: `VmallocCorrect`, `PagesAlive`, `UnwindCorrect` | `VmallocRight`, `NoPageAfterFree`, part of `LeavesNothing` | `MmapInv`: what is held at each label (`HeldSoFar`); mappings only while the device exists (`InUse`) and each in one of the two areas (`OneArea`), since a fault maps by the offset in the area |
| `KThreadsProofs`: `CounterCorrect`, `StopCorrect` | `NoIncrementLost`, `AllStopped` | `ThreadsIndInv`: the mutex names the thread inside (`MutexHeld`), so the value loaded is still current at the store (`LoadedIsCurrent`); threads below `next` have returned (`StoppedSoFar`) |
| `ModulesProofs`: `FifoCorrect`, `EventsKept` | `Fifo`, `NoneLost` | `EventInv`: no number dealt with is above the counter (`NumbersGrow`), so what is stored at the end is the largest; the cardinality of the filled elements changes by one |
| `ModulesProofs`: `WorkCorrect`, `TaskletsKilled` | `WorkServesAll`, part of `LeavesNothing` | `DeferredInv`: each tasklet in its own vector and the timer armed only while the module is up (`TaskletsInPlace`), so a tasklet killed stays killed |
| `ModulesProofs`: `CallbacksExact`, `WorksExecuted` | parts of `LeavesNothing` | `KTimerInv`: callbacks and restarts left add up (`CallsCounted`). `SimpleWqInv`: works made = done, current, queued, in this order (`WorksInOrder`, `WorksMade`) |
| `ModulesProofs`: `NothingLeft` | `LeavesNothing` | the four invariants together; a step of `MCModules` moves one module and leaves the others |
| `ModulesProofs`: `MessageCorrect`, `WorksCancelledFirst` | `MessageIntact`, `NoWorkOnFreedDevice` | `DtsInv`: the flag is set only after the whole message was stored, and of it only the first word is ever overwritten (`SenderInPlace`, `ReaderInPlace`); a work that is being cancelled cannot queue itself, so after each cancellation it is gone for good (`WorksInPlace`) |
| `Bank1Proofs`: `BrightnessCorrect`, `BlinkingCorrect`, `ShutdownCorrect`, `HandlersGone` | `LedShowsBrightness`, `BlinkingIsMarked`, `DarkAfterShutdown`, `NoCodeAfterExit` | `BankInv`: when thread, handler and mapping exist (`Hw1InPlace`, `Hw2InPlace`) and LEDs are used (`LedsInPlace`); what `hw1` loaded is still so but for LEDs set since (`LoadCurrent`), so its store changes no other; and for each LED, what a call that meets no other is about to do: set the last brightness unless a work will (`SetsBrightness`), switch off if it is shutdown's (`SwitchesOff`), find the mark as it left it (`MarkKept`) |

Only model-checked: liveness (`AllDelivered`, `MutexReleased`, `PressPrinted`,
`LedFollowsButton`, `RmmodReturns`, `BothDirectionsGoOn`), which needs fairness and
ENABLED, out of the prover's reach; and the five expected violations, which are
counterexamples.

## 5. Disagreements between the code and what is said of it

Shown by a run:

* `platform_test.c:127`: `write()` never asks for the free space (`WriteLosesData`).
* `platform_test.c:214`: a chunk is taken whole or not at all, and with the sizes in
  the code (4096 against 512) a file of more than 511 bytes never arrives
  (`SmallBuffer`).
* `HW8/mmap.c:70`: the kmalloc area is indexed with the page number of the file
  (`MmapKmalloc`); `mmap_test.c:80` expects the pattern there (and then prints
  success whatever it found: line 87 has lost its `else`).
* `hrt.c:107`: exit flushes the queue before it kills the tasklets that fill it, and the
  delayed work is never cancelled (`WorksLeft`); `HW6/L06-assignmemt.txt:25` asks to
  cancel the works.
* `onboard_irq.c:196`: init adds to the counter after the interrupt is requested, and a
  press between its load and its store is lost (`PressesLost`);
  `HW7/L07-assignments.txt:16` holds the counter safe because one side only reads it.

Met while modelling, in the models as behaviour and excluded from the properties by
the premise or restriction named:

* `platform_test.c:141`: `write()` does not wake sleeping readers (`WakeupCorrect`
  and `NoLostWakeup` speak of the case without writers).
* `send_data2.c:119`: a second run clears the flag of a chunk that the driver has not
  taken and so drops it (`run = 1` in `Handshake`, `FileInOrder`, `PrefixDelivered`).
* `send_data2.c:129`: a full chunk writes 4096 to the size register, which
  `platform_test.c:22` documents as 0..4095 (`TypeOK` does not limit `size_reg`).
* `platform_cdev.c:179`: a missing device takes the error path with `ret` still 0, so
  the module stays loaded without its region (`CdevInitNoDevice`).
* `platform_cdev.c:188`: if `cdev_add` fails for the second minor the first cdev stays
  registered in freed memory (`CdevInitNoCdev`, variable `dangling`).
* `hw3.c:249`: probe turns the LED off at its end, without the lock and without
  `led_on` (`~ clash` in `LedMatches`).
* `hw3-app.c:65`: after a `read()` that fails the old contents of `buf` are used again
  (`"data" \notin others` in `TogglePerRelease`).
* `spinlock.c:77`: "list is expected to be not empty", but it is if every allocation
  fails (`Allocated` leaves 0 out).
* `spinlock.c:185`: exit frees the list and leaves both timers alone (what they do
  then is undefined and not modelled).
* `spinlock.c:143`: the simulated interrupt re-arms the other timer and comes once, not
  six times (`IrqRearm`).
* `threads.c:116`: an `ERR_PTR` of `kthread_run` passes for a thread (`CreateErr`,
  `StopErr`).
* `mmap.c:68`: after the beginning of a mapping was unmapped, `vm_pgoff` is neither 0
  nor `NPAGES` and `vm_fault` returns without a page (third case of `FaultPage`).
* `onboard_irq.c:161`, `:179`: an init that fails leaves the debugfs file, and after a
  failing interrupt request also the line (`InitIrq`, `InitButton`; `ExitClean` speaks
  of exit).
* `onboard_io.c:61`: the braces of the first `if` are missing, so `led_gpio_init` returns
  after `gpio_request`, `led_gpio` stays -1 and no LED is switched, where step 2 of
  `HW6/L06-assignmemt.txt` wants the LED to follow the button; the line, taken from
  its owner by `gpio_free`, is never given back (`IoLed`, `IoExit`).
* `simple_wq.c:30`: init succeeds without a queue, and exit flushes it (`wq_pc = "oops"`).
* `platform_test_dts.c:105`: both directions use one data area, where
  `HW11/platform-device-driver-assignment.txt:7` speaks of "extra memory regions"; the
  first word printed may be jiffies and the jiffies read may be half a message (the
  second case of `MessageIntact`; how `read_data.c` may mix them is not stated).
* `HW11/send_data.c:53`: the sender does not look at the flag; the acknowledgement of one
  message may clear the flag of the next, which is then not printed (`ReadAck`;
  `MessageIntact` does not count messages, `BothDirectionsGoOn` allows it).
* `platform_test_dts.c:188`: a probe that fails at the second queue leaves the read work
  queued for an object that `devm` frees (`leaked` in `NoWorkOnFreedDevice`).
* `hw1.c:93`: the thread stores a register loaded earlier, and switches LEDs back that
  the LED driver has set since (`garbled` in `LedShowsBrightness` and
  `DarkAfterShutdown`); `hw1.c:80` does the same to the direction register (`undone`).
* `hw2.c:14`: the line that turns `led_on` over is a comment, so the handler only ever
  switches the LED off (`Isr`); `HW15/assigment:11` wants the LED to change.
* `hw2.c:40`: an init that fails at the LED leaves interrupt handler and button line
  behind, and no later insmod gets the interrupt (`"orphan"` in `NoCodeAfterExit`).
* `leds-gpio.c:81`: `gpio_led_set` has no lock, and nothing above it has one for LEDs that
  do not sleep; of two callers the one that recorded its brightness first may write
  its level last (`overlapped` in `LedShowsBrightness` and `DarkAfterShutdown`).
* `leds-gpio.c:89`: with `dndMode` not 0 the level of an LED to be lit is uninitialised;
  a negative mode, which lets the work through, reaches that too (`Levels`; `hushed`
  in `LedShowsBrightness`).
* `leds-gpio.c:107`: in the mode an LED that can sleep is not switched off either, also
  not when it is unregistered (`WorkTest`, `Unregister`; `hushed`).
* `leds-gpio.c:117`: an LED is marked as blinking before the board is asked to blink;
  a `gpio_led_set` in between clears the mark, and no later one ends the blinking
  (`mixed` in `BlinkingIsMarked` and `DarkAfterShutdown`). In a `dndMode` above 0 an
  LED is marked and does not blink.
* `leds-gpio.c:361`: shutdown switches the LEDs off but stops no trigger, timer or work, so
  an LED may be lit again before the machine is off (`later` in `DarkAfterShutdown`).
* `leds-gpio.c:312`: the class is never destroyed, so a second load runs into the error
  pointer of `class_create` (`LedsProbe` needs `class = "none"`).

## 6. Not modelled

* `onboard_io2.c`: the Makefile does not build it, and it calls `gpio_export` with one
  argument, so it cannot be compiled.
* Of modelled drivers: sysfs unbind of a platform device (HW12: with it the pointers of
  `platform_cdev.c` go stale; HW11 is unbound by rmmod only), the calls of `hw3_probe`
  before the wait queue and the use of that queue if an edge comes at `hw3.c:230`,
  suspend and resume of `hw3.c` (they only mark the interrupt as a wake-up source),
  `mremap` and holes in HW8 mappings, the times printed by HW9, LEDs from platform data
  in `leds-gpio.c` (set up like those of the device tree), pin muxing and clocks of
  `hw1.c`. The limits of the polling period are in the model (`InRange`), but no
  property is about them.
* An LED of platform data whose line cannot be had is skipped by probe but not by
  shutdown, which then hands an error pointer to the GPIO library; the model has no such
  LED. Blinking through `gpio_blink_set` is there with platform data only (`Platform`):
  line 238 of `leds-gpio.c` passes none for the device tree, and what blinks then is the
  LED class's own timer, one of the `Setters`.
* What follows from undefined behaviour (a call through a freed object, an error pointer)
  is not continued: the model records that it was reached, or stops that path.
* The sysfs samples of HW13: each attribute is one variable, written and read by one
  call that the kernel serialises per file.
* The helper programs of HW8 and HW12: sequential; their calls are actions of the
  drivers' models. (`HW12/mmap.c:91` prints one byte behind the mapping.)
* HW1 to HW5, HW14, `sharedLibraries`: sequential, no state beyond a call.

## 7. Plan

Done first, because the other parts depend on nothing else and this is the largest:
`DummyDevice`, `SendData`, `PlatDummy`, composed in `DummySystem`; the abstract
`ByteChannel`; the proofs. Then one module per stand-alone driver, then the drivers
that meet on a device (HW11), on a GPIO bank (HW15 with HW13) or on a line (HW6 with
HW7).

Left for the models: `DummySystem` with `DummyCdev`'s open files as its readers and
writers.

Proved so far: every safety invariant of the runs, and `ByteChannel` for the ring
(section 4).

Next, proving:

1. Abstract specifications for other components, with refinement proofs like
   `ChannelImplemented`: a latch of the last level for `Hw3`, a bounded queue for
   `EventList`, an atomic counter for `KThreads`.
2. The safety half of what liveness rests on: that the states in which a module's exit
   waits for a thread, a work or a tasklet are those in which that one can still
   step, so that `RmmodReturns` and `BothDirectionsGoOn` depend on fairness only.
