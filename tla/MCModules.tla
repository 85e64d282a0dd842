----------------------------- MODULE MCModules -----------------------------
(***************************************************************************)
(* Seven kernel modules that share nothing, checked in one run: the event  *)
(* list of HW9, the deferred work, the timer and the work queue of HW6,    *)
(* the mmap driver of HW8, the threads of HW10 and, with its sender, the   *)
(* platform driver of HW11.  A behaviour follows one of them.              *)
(***************************************************************************)
EXTENDS EventList, DeferredWork, KTimer, SimpleWq, MmapDrv, KThreads, PlatDummyDts

VARIABLE loadedModule   \* the module this behaviour is about

(* The lengths of the list matter only to the event list. *)
Init ==
  /\ loadedModule \in {"spinlock", "hrt", "timer", "simple_wq", "mmap", "threads", "dts"}
  /\ EventInit /\ (loadedModule = "spinlock" \/ Len(list) = 1)
  /\ DeferredInit /\ KTimerInit /\ SimpleWqInit /\ MmapInit
  /\ ThreadsInit /\ DtsInit

Next ==
  /\ UNCHANGED loadedModule
  /\ \/ /\ loadedModule = "spinlock" /\ EventNext
        /\ UNCHANGED <<deferredvars, timervars, wqvars, mmapvars, threadvars, dtsvars>>
     \/ /\ loadedModule = "hrt" /\ DeferredNext
        /\ UNCHANGED <<eventvars, timervars, wqvars, mmapvars, threadvars, dtsvars>>
     \/ /\ loadedModule = "timer" /\ KTimerNext
        /\ UNCHANGED <<eventvars, deferredvars, wqvars, mmapvars, threadvars, dtsvars>>
     \/ /\ loadedModule = "simple_wq" /\ SimpleWqNext
        /\ UNCHANGED <<eventvars, deferredvars, timervars, mmapvars, threadvars, dtsvars>>
     \/ /\ loadedModule = "mmap" /\ MmapNext
        /\ UNCHANGED <<eventvars, deferredvars, timervars, wqvars, threadvars, dtsvars>>
     \/ /\ loadedModule = "threads" /\ ThreadsNext
        /\ UNCHANGED <<eventvars, deferredvars, timervars, wqvars, mmapvars, dtsvars>>
     \/ /\ loadedModule = "dts" /\ DtsNext
        /\ UNCHANGED <<eventvars, deferredvars, timervars, wqvars, mmapvars, threadvars>>

modulevars ==
  <<loadedModule, eventvars, deferredvars, timervars, wqvars, mmapvars, threadvars, dtsvars>>

Spec == Init /\ [][Next]_modulevars

(* hrt: timers expire, softirqs and workers run, exit goes on once called. *)
FairDeferred ==
  /\ WF_deferredvars(loadedModule = "hrt" /\ my_hrtimer_callback)
  /\ WF_deferredvars(loadedModule = "hrt" /\ Softirq)
  /\ WF_deferredvars(loadedModule = "hrt" /\ DelayExpires)
  /\ \A w \in Works : WF_deferredvars(loadedModule = "hrt" /\ Worker(w))
  /\ WF_deferredvars(loadedModule = "hrt" /\ ExitNext)

(* simple_wq: the worker runs, exit goes on once called. *)
FairSimpleWq ==
  /\ WF_wqvars(loadedModule = "simple_wq" /\ WqWorker)
  /\ WF_wqvars(loadedModule = "simple_wq" /\ WqDestroy)

(* threads: threads are scheduled, the mutex is fair, exit goes on once    *)
(* called; nobody has to call it.                                          *)
FairThreads ==
  /\ WF_threadvars(loadedModule = "threads" /\ StopNext)
  /\ \A t \in Ids :
       /\ WF_threadvars(loadedModule = "threads" /\ Thread(t))
       /\ SF_threadvars(loadedModule = "threads" /\ Lock(t))

(* dts: the timers of the works expire and kworkers run; a program that    *)
(* was started goes on.                                                    *)
FairDts ==
  /\ WF_dtsvars(loadedModule = "dts" /\ ReadWork)
  /\ WF_dtsvars(loadedModule = "dts" /\ WriteWork)
  /\ WF_dtsvars(loadedModule = "dts" /\ SendNext)

FairSpec == Spec /\ FairDeferred /\ FairSimpleWq /\ FairThreads /\ FairDts

-----------------------------------------------------------------------------
(* A module that is gone, or whose insmod failed, leaves nothing behind    *)
(* that could still run and nothing that it allocated.                     *)
LeavesNothing ==
  InitUnwinds /\ NoTaskletAfterExit /\ TimerGone /\ WorksFreed

(* rmmod of hrt, of simple_wq and of threads returns. *)
RmmodReturns == ExitReturns /\ WqExitReturns /\ StopReturns

=============================================================================
