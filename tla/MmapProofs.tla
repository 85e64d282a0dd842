----------------------------- MODULE MmapProofs -----------------------------
(***************************************************************************)
(* Proofs about MmapDrv for every number of pages, every set of programs   *)
(* and every number of loads.                                              *)
(***************************************************************************)
EXTENDS MmapDrv, TLAPS

USE DEF FilePages

-----------------------------------------------------------------------------
(* What mymmap_init has allocated at each point, on the way up and on the  *)
(* way down the labels.                                                    *)
HeldSoFar ==
  /\ "kmalloc" \in held <=> mmap_pc \notin {"kmalloc", "out"}
  /\ "vmalloc" \in held <=> mmap_pc \in {"region", "cdev", "pattern", "in",
                                         "out_unalloc_region", "out_vfree"}
  /\ "region" \in held <=> mmap_pc \in {"cdev", "pattern", "in", "out_unalloc_region"}
  /\ "cdev" \in held <=> mmap_pc \in {"pattern", "in"}

(* Programs have the file open, or a mapping of it, only while the         *)
(* character device exists.                                                *)
InUse ==
  \A p \in Procs : Mapped(p) \/ p \in opened => mmap_pc \in {"pattern", "in"}

(* A mapping lies in one of the two areas: mmap bounds its length, munmap  *)
(* and fork make none longer.                                              *)
OneArea == \A p \in Procs : Mapped(p) => hi[p] <= NPAGES \/ lo[p] >= NPAGES

(* The area is the right one for the file page.                            *)
PteRight ==
  \A p \in Procs : \A i \in DOMAIN pte[p] :
    IF i < NPAGES THEN pte[p][i] = <<"vmalloc", i>> ELSE pte[p][i] = <<"kmalloc", i>>

ModuleInv == HeldSoFar /\ InUse
PagesInv == DOMAIN pte = Procs /\ OneArea /\ PteRight
MmapInv == MmapTypeOK /\ ModuleInv /\ PagesInv

LEMMA MmapInitInv == MmapInit => MmapInv
BY MmapAssumption
   DEF MmapInit, Nothing, MmapInv, MmapTypeOK, ModuleInv, HeldSoFar, InUse, Mapped,
       PagesInv, OneArea, PteRight

-----------------------------------------------------------------------------
(* Each allocation goes on to the next or to the label that frees what is  *)
(* there.                                                                  *)
LEMMA StepsTable ==
  ASSUME NEW s \in DOMAIN Steps
  PROVE  \/ s = "kmalloc" /\ Steps[s].ok = "vmalloc" /\ Steps[s].err = "out"
         \/ s = "vmalloc" /\ Steps[s].ok = "region" /\ Steps[s].err = "out_kfree"
         \/ s = "region" /\ Steps[s].ok = "cdev" /\ Steps[s].err = "out_vfree"
         \/ /\ s = "cdev" /\ Steps[s].ok = "pattern"
            /\ Steps[s].err = "out_unalloc_region"
BY DEF Steps

LEMMA LabelsTable ==
  ASSUME NEW l \in DOMAIN Labels
  PROVE  \/ /\ l = "out_unalloc_region"
            /\ Labels[l].frees = "region" /\ Labels[l].next = "out_vfree"
         \/ /\ l = "out_vfree"
            /\ Labels[l].frees = "vmalloc" /\ Labels[l].next = "out_kfree"
         \/ /\ l = "out_kfree"
            /\ Labels[l].frees = "kmalloc" /\ Labels[l].next = "out"
BY DEF Labels

(* A step of init or exit, with the programs where they are. *)
LEMMA MmapModuleStep ==
  ASSUME MmapInv,
         \/ Insmod \/ Pattern \/ mmap_exit
         \/ \E s \in DOMAIN Steps : Allocate(s) \/ AllocateFails(s)
         \/ \E l \in DOMAIN Labels : Unwind(l)
  PROVE  MmapInv'
<1> USE MmapAssumption
    DEF MmapInv, MmapTypeOK, ModuleInv, HeldSoFar, InUse, Mapped, PagesInv, OneArea,
        PteRight, maps
<1>1. CASE Insmod BY <1>1 DEF Insmod
<1>2. CASE Pattern BY <1>2 DEF Pattern
<1>3. CASE mmap_exit BY <1>3 DEF mmap_exit
<1>4. ASSUME NEW s \in DOMAIN Steps, Allocate(s) PROVE MmapInv'
  BY <1>4, StepsTable DEF Allocate
<1>5. ASSUME NEW s \in DOMAIN Steps, AllocateFails(s) PROVE MmapInv'
  BY <1>5, StepsTable DEF AllocateFails
<1>6. ASSUME NEW l \in DOMAIN Labels, Unwind(l) PROVE MmapInv'
  BY <1>6, LabelsTable DEF Unwind
<1> QED BY <1>1, <1>2, <1>3, <1>4, <1>5, <1>6

(* A program opens, closes, maps, forks, faults or unmaps. *)
LEMMA ProgramStep ==
  ASSUME MmapInv, NEW p \in Procs,
         \/ mmap_open(p) \/ mmap_release(p)
         \/ \E off \in FilePages, length \in 1 .. NPAGES + 1 : mmap_mmap(p, off, length)
         \/ \E q \in Procs : Fork(p, q)
         \/ \E i \in FilePages : vm_fault(p, i)
         \/ \E a, b \in 0 .. 2 * NPAGES : Munmap(p, a, b)
  PROVE  MmapInv'
<1> USE MmapAssumption
    DEF MmapInv, MmapTypeOK, ModuleInv, HeldSoFar, InUse, Mapped, PagesInv, OneArea,
        PteRight, mmapmodule
<1>1. CASE mmap_open(p) BY <1>1 DEF mmap_open
<1>2. CASE mmap_release(p) BY <1>2 DEF mmap_release
<1>3. ASSUME NEW off \in FilePages, NEW length \in 1 .. NPAGES + 1,
             mmap_mmap(p, off, length)
      PROVE  MmapInv'
  BY <1>3 DEF mmap_mmap
<1>4. ASSUME NEW q \in Procs, Fork(p, q) PROVE MmapInv'
  BY <1>4 DEF Fork
<1>5. ASSUME NEW i \in FilePages, vm_fault(p, i) PROVE MmapInv'
  BY <1>5 DEF vm_fault, FaultPage, Pages
<1>6. ASSUME NEW a \in 0 .. 2 * NPAGES, NEW b \in 0 .. 2 * NPAGES, Munmap(p, a, b)
      PROVE  MmapInv'
  <2>1. CASE a = b
    <3>1. /\ DOMAIN pte' = Procs
          /\ lo' = [lo EXCEPT ![p] = 0] /\ hi' = [hi EXCEPT ![p] = 0]
      BY <1>6, <2>1 DEF Munmap
    <3>2. DOMAIN pte'[p] = {} /\ \A q \in Procs : q # p => pte'[q] = pte[q]
      BY <1>6, <2>1, <3>1 DEF Munmap, Nothing
    <3>3. MmapTypeOK' BY <1>6, <3>1, <3>2 DEF Munmap
    <3>4. PagesInv' BY <3>1, <3>2
    <3>5. ModuleInv' BY <1>6, <3>1 DEF Munmap
    <3> QED BY <3>3, <3>4, <3>5
  <2>2. CASE a # b
    <3>1. /\ DOMAIN pte' = Procs /\ a < b
          /\ lo' = [lo EXCEPT ![p] = a] /\ hi' = [hi EXCEPT ![p] = b]
          /\ lo[p] <= a /\ b <= hi[p]
      BY <1>6, <2>2 DEF Munmap
    <3>2. /\ DOMAIN pte'[p] = DOMAIN pte[p] \cap (a .. b - 1)
          /\ \A j \in DOMAIN pte'[p] : pte'[p][j] = pte[p][j]
          /\ \A q \in Procs : q # p => pte'[q] = pte[q]
      BY <1>6, <2>2, <3>1 DEF Munmap
    <3>3. MmapTypeOK' BY <1>6, <3>1, <3>2 DEF Munmap
    <3>4. PagesInv' BY <3>1, <3>2
    <3>5. ModuleInv' BY <1>6, <3>1 DEF Munmap
    <3> QED BY <3>3, <3>4, <3>5
  <2> QED BY <2>1, <2>2
<1> QED BY <1>1, <1>2, <1>3, <1>4, <1>5, <1>6

LEMMA MmapStep == MmapInv /\ [MmapNext]_mmapvars => MmapInv'
<1> SUFFICES ASSUME MmapInv, [MmapNext]_mmapvars PROVE MmapInv'
  OBVIOUS
<1>1. CASE UNCHANGED mmapvars
  BY <1>1 DEF mmapvars, mmapmodule, maps, MmapInv, MmapTypeOK, ModuleInv, HeldSoFar,
              InUse, Mapped, PagesInv, OneArea, PteRight
<1> QED BY <1>1, MmapModuleStep, ProgramStep DEF MmapNext

LEMMA MmapImplies == MmapInv => VmallocRight /\ NoPageAfterFree /\ InitUnwinds
<1> SUFFICES ASSUME MmapInv PROVE VmallocRight /\ NoPageAfterFree /\ InitUnwinds
  OBVIOUS
<1> USE DEF MmapInv
<1>1. VmallocRight BY DEF VmallocRight, PagesInv, PteRight
<1>2. NoPageAfterFree
  BY DEF NoPageAfterFree, ModuleInv, InUse, HeldSoFar, MmapTypeOK
<1>3. InitUnwinds BY DEF InitUnwinds, ModuleInv, HeldSoFar, MmapTypeOK
<1> QED BY <1>1, <1>2, <1>3

-----------------------------------------------------------------------------
(* mmap.c: every page of the mapping at offset 0 is the page of the        *)
(* vmalloc area with its number, for every size of the areas, any number   *)
(* of programs, and any faults, forks and partial munmaps.                 *)
THEOREM VmallocCorrect == MmapSpec => []VmallocRight
BY MmapImplies, MmapInitInv, MmapStep, PTL DEF MmapSpec

(* mmap.c: the areas are there for as long as a program has the file open  *)
(* or has a mapping, also for programs that opened it before init ended.   *)
THEOREM PagesAlive == MmapSpec => []NoPageAfterFree
BY MmapImplies, MmapInitInv, MmapStep, PTL DEF MmapSpec

(* mmap.c: mymmap_init frees at its labels what it had allocated, at       *)
(* whichever of the four calls it fails, and mmap_exit frees the rest.     *)
THEOREM UnwindCorrect == MmapSpec => []InitUnwinds
BY MmapImplies, MmapInitInv, MmapStep, PTL DEF MmapSpec

=============================================================================
