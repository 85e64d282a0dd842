------------------------------ MODULE MmapDrv ------------------------------
(***************************************************************************)
(* The mmap demo driver of HW8 (mmap.c): two areas of NPAGES pages, one    *)
(* from vmalloc and one from kmalloc, that a program maps at offset 0 and  *)
(* at offset NPAGES of the same device file.  mmap only checks the range;  *)
(* vm_fault supplies one page at a time when it is first touched.          *)
(*                                                                         *)
(* A mapping is the range lo .. hi - 1 of file pages that it still covers; *)
(* lo is vm_pgoff, which the kernel moves up when a program unmaps the     *)
(* beginning of the mapping.  A page is named by its area and its number   *)
(* from the start of the area.  Unmapping a hole and mremap are not        *)
(* modelled.                                                               *)
(***************************************************************************)
EXTENDS Integers, FiniteSets

CONSTANTS
  NPAGES,      \* 16 in the code
  Procs,       \* programs, each with at most one mapping
  MaxLoads     \* bound: insmod calls

ASSUME MmapAssumption == NPAGES \in Nat \ {0} /\ MaxLoads \in Nat

VARIABLES
  mmap_pc,  \* module: control point of mymmap_init, "in", or "out"
  held,     \* what the module owns
  loads,    \* history: insmod calls
  opened,   \* programs with the device file open
  lo, hi,   \* per program: file pages mapped, none if equal
  pte       \* per program: file page -> page, for the pages touched

mmapmodule == <<mmap_pc, held, loads>>
maps == <<opened, lo, hi, pte>>
mmapvars == <<mmapmodule, maps>>

FilePages == 0 .. 2 * NPAGES - 1
Pages == {"vmalloc", "kmalloc"} \X FilePages
Nothing == [i \in {} |-> <<"vmalloc", 0>>]
Mapped(p) == lo[p] < hi[p]

MmapTypeOK ==
  /\ mmap_pc \in {"kmalloc", "vmalloc", "region", "cdev", "pattern", "in",
              "out_unalloc_region", "out_vfree", "out_kfree", "out"}
  /\ held \subseteq {"kmalloc", "vmalloc", "region", "cdev"}
  /\ loads \in 0 .. MaxLoads /\ opened \subseteq Procs
  /\ lo \in [Procs -> FilePages] /\ hi \in [Procs -> 0 .. 2 * NPAGES]
  /\ \A p \in Procs : /\ DOMAIN pte[p] \subseteq lo[p] .. hi[p] - 1
                      /\ \A i \in DOMAIN pte[p] : pte[p][i] \in Pages

MmapInit ==
  /\ mmap_pc = "out" /\ held = {} /\ loads = 0
  /\ opened = {}
  /\ lo = [p \in Procs |-> 0] /\ hi = [p \in Procs |-> 0]
  /\ pte = [p \in Procs |-> Nothing]

-----------------------------------------------------------------------------
(* mymmap_init *)

Insmod ==
  /\ mmap_pc = "out" /\ loads < MaxLoads
  /\ loads' = loads + 1 /\ mmap_pc' = "kmalloc"
  /\ UNCHANGED <<held, maps>>

(* Where each allocation goes on, and the label it jumps to if it fails. *)
Steps ==
  [kmalloc |-> [ok |-> "vmalloc", err |-> "out"],
   vmalloc |-> [ok |-> "region", err |-> "out_kfree"],
   region  |-> [ok |-> "cdev", err |-> "out_vfree"],
   cdev    |-> [ok |-> "pattern", err |-> "out_unalloc_region"]]

Allocate(step) ==
  /\ mmap_pc = step
  /\ mmap_pc' = Steps[step].ok /\ held' = held \cup {step}
  /\ UNCHANGED <<loads, maps>>

(* Variant that jumps past vfree. *)
AllocateFailsLow(step) ==
  /\ mmap_pc = step
  /\ mmap_pc' = IF step = "region" THEN "out_kfree" ELSE Steps[step].err
  /\ UNCHANGED <<held, loads, maps>>

AllocateFails(step) ==
  /\ mmap_pc = step
  /\ mmap_pc' = Steps[step].err
  /\ UNCHANGED <<held, loads, maps>>

(* out_unalloc_region, out_vfree and out_kfree fall through to out. *)
Labels ==
  [out_unalloc_region |-> [frees |-> "region", next |-> "out_vfree"],
   out_vfree |-> [frees |-> "vmalloc", next |-> "out_kfree"],
   out_kfree |-> [frees |-> "kmalloc", next |-> "out"]]

Unwind(label) ==
  /\ mmap_pc = label
  /\ held' = held \ {Labels[label].frees} /\ mmap_pc' = Labels[label].next
  /\ UNCHANGED <<loads, maps>>

(* SetPageReserved and the pattern; the device can be opened already *)
Pattern ==
  /\ mmap_pc = "pattern"
  /\ mmap_pc' = "in"
  /\ UNCHANGED <<held, loads, maps>>

(* Variant without .owner = THIS_MODULE. *)
ExitAnytime ==
  /\ mmap_pc = "in"
  /\ held' = {} /\ mmap_pc' = "out"
  /\ UNCHANGED <<loads, maps>>

(* mmap_exit; open files and mappings hold the module       *)
mmap_exit ==
  /\ mmap_pc = "in" /\ opened = {} /\ \A p \in Procs : ~ Mapped(p)
  /\ held' = {} /\ mmap_pc' = "out"
  /\ UNCHANGED <<loads, maps>>

-----------------------------------------------------------------------------
(* Programs *)

mmap_open(p) ==
  /\ mmap_pc \in {"pattern", "in"} /\ p \notin opened
  /\ opened' = opened \cup {p}
  /\ UNCHANGED <<mmapmodule, lo, hi, pte>>

(* close; a mapping keeps the file *)
mmap_release(p) ==
  /\ p \in opened
  /\ opened' = opened \ {p}
  /\ UNCHANGED <<mmapmodule, lo, hi, pte>>

(* mmap_mmap, mmap_vmem and mmap_kmem *)
mmap_mmap(p, off, length) ==
  /\ p \in opened /\ ~ Mapped(p)
  /\ off \in {0, NPAGES} /\ length <= NPAGES
  /\ lo' = [lo EXCEPT ![p] = off] /\ hi' = [hi EXCEPT ![p] = off + length]
  /\ UNCHANGED <<mmapmodule, opened, pte>>

(* fork copies the mapping (vm_open does nothing) and no page of it. *)
Fork(p, q) ==
  /\ Mapped(p) /\ ~ Mapped(q) /\ q \notin opened
  /\ lo' = [lo EXCEPT ![q] = lo[p]] /\ hi' = [hi EXCEPT ![q] = hi[p]]
  /\ opened' = IF p \in opened THEN opened \cup {q} ELSE opened
  /\ UNCHANGED <<mmapmodule, pte>>

(* The page vm_fault finds for file page i of a mapping at vm_pgoff, none  *)
(* if vm_pgoff is neither 0 nor NPAGES.                                    *)
FaultPage(vm_pgoff, i) ==
  IF vm_pgoff = NPAGES THEN {<<"kmalloc", i>>}
  ELSE IF vm_pgoff = 0 THEN {<<"vmalloc", i>>}
  ELSE {}

(* Variant that always supplies the first page. *)
FaultFirst(p, i) ==
  /\ Mapped(p) /\ i \in lo[p] .. hi[p] - 1 /\ i \notin DOMAIN pte[p]
  /\ \E page \in FaultPage(lo[p], lo[p]) :
       pte' = [pte EXCEPT ![p] = [j \in DOMAIN @ \cup {i} |-> IF j = i THEN page ELSE @[j]]]
  /\ UNCHANGED <<mmapmodule, opened, lo, hi>>

(* vm_fault on the first touch of file page i *)
vm_fault(p, i) ==
  /\ Mapped(p) /\ i \in lo[p] .. hi[p] - 1 /\ i \notin DOMAIN pte[p]
  /\ \/ \E page \in FaultPage(lo[p], i) :
          pte' = [pte EXCEPT ![p] = [j \in DOMAIN @ \cup {i} |-> IF j = i THEN page ELSE @[j]]]
     \/ FaultPage(lo[p], i) = {} /\ UNCHANGED pte
  /\ UNCHANGED <<mmapmodule, opened, lo, hi>>

(* munmap of the beginning or the end, or of everything (a = b) *)
Munmap(p, a, b) ==
  /\ Mapped(p) /\ lo[p] <= a /\ a <= b /\ b <= hi[p] /\ <<a, b>> # <<lo[p], hi[p]>>
  /\ IF a = b THEN lo' = [lo EXCEPT ![p] = 0] /\ hi' = [hi EXCEPT ![p] = 0]
              ELSE lo' = [lo EXCEPT ![p] = a] /\ hi' = [hi EXCEPT ![p] = b]
  /\ a = b \/ a = lo[p] \/ b = hi[p]
  /\ pte' = [pte EXCEPT ![p] = IF a = b THEN Nothing
                               ELSE [j \in DOMAIN @ \cap (a .. b - 1) |-> @[j]]]
  /\ UNCHANGED <<mmapmodule, opened>>

MmapNext ==
  \/ Insmod \/ Pattern \/ mmap_exit
  \/ \E s \in DOMAIN Steps : Allocate(s) \/ AllocateFails(s)
  \/ \E l \in DOMAIN Labels : Unwind(l)
  \/ \E p \in Procs :
       \/ mmap_open(p) \/ mmap_release(p)
       \/ \E off \in FilePages, length \in 1 .. NPAGES + 1 : mmap_mmap(p, off, length)
       \/ \E q \in Procs : Fork(p, q)
       \/ \E i \in FilePages : vm_fault(p, i)
       \/ \E a, b \in 0 .. 2 * NPAGES : Munmap(p, a, b)

MmapSpec == MmapInit /\ [][MmapNext]_mmapvars

-----------------------------------------------------------------------------
(* Page k of the mapping at offset 0 is page k of the vmalloc area, in any *)
(* order of faults, in every program and after parts were unmapped, and no *)
(* page behind the end of that area is ever handed out.                    *)
VmallocRight ==
  \A p \in Procs : \A i \in DOMAIN pte[p] :
    i < NPAGES \/ pte[p][i][1] = "vmalloc" =>
      i < NPAGES /\ pte[p][i] = <<"vmalloc", i>>

(* No program has a page of the driver after the module has freed its          *)
(* areas, nor before it is fully initialised.                              *)
NoPageAfterFree ==
  (\E p \in Procs : Mapped(p) \/ p \in opened) =>
    held = {"kmalloc", "vmalloc", "region", "cdev"}

(* An insmod that fails owns nothing, at whichever call it failed. *)
InitUnwinds == mmap_pc = "out" => held = {}

(* The test program finds the pattern of the kmalloc area behind offset    *)
(* NPAGES.                                                                 *)
KmallocRight ==
  \A p \in Procs : \A i \in DOMAIN pte[p] :
    i >= NPAGES => pte[p][i] = <<"kmalloc", i - NPAGES>>

=============================================================================
