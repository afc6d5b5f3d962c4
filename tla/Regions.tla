------------------------------ MODULE Regions --------------------------------
(***************************************************************************)
(* src/mm-vm.c: the regions of one process, that is the symbol table that  *)
(* ALLOC and FREE keep, the list of free regions, and the end of the       *)
(* virtual memory area.  What ALLOC does to page tables and frames is in   *)
(* Paging.  Only the CPU that runs the process is ever here.               *)
(*                                                                         *)
(* As in MemPhy, undefined is raised when the program uses storage that is *)
(* dead or was never set, and nothing is said of what follows.  __free     *)
(* enlists the address of a parameter: when the list is walked again, that *)
(* storage may still hold the region, or anything else.                    *)
(***************************************************************************)
EXTENDS Integers, SequencesExt

CONSTANTS PAGESZ,     \* PAGING_PAGESZ
          TblSz,      \* PAGING_MAX_SYMTBL_SZ
          Rgids,      \* the region ids and
          Sizes,      \* the sizes that instructions have as arguments
          MaxEnd      \* bound: how far the area grows

ASSUME RegionsAssumption == /\ PAGESZ \in Nat \ {0} /\ TblSz \in Nat /\ MaxEnd \in Nat
                            /\ Rgids \subseteq Nat /\ Sizes \subseteq Nat

VARIABLES
  vm_freerg_list, \* the list: each node with its region, and whether the node
                  \* is the parameter of a call that has returned
  rg_next,        \* the pointer in the last node: "NULL", or "wild"
  symrgtbl,       \* symrgtbl[r]: the region of symbol r
  vm_end,         \* the end of the area
  pc, rgid, size, \* "idle", or in get_free_vmrg_area for ALLOC size rgid
  rgit, newrg,    \* the position in the list, and the region found
  before, grown,  \* the list when the call began; how often the area has grown
  undefined

scanFixed == <<rg_next, symrgtbl, vm_end, pc, rgid, size, before, grown, undefined>>
callVars == <<pc, rgid, size, rgit, newrg, before>>
vars == <<vm_freerg_list, rg_next, symrgtbl, vm_end, callVars, grown, undefined>>

Region(s, e) == [rg_start |-> s, rg_end |-> e]
Node(rg, param) == [rg |-> rg, param |-> param]
Invalid == Region(-1, -1)   \* freed, or nothing found
Unset == Region(-2, -2)     \* as malloc left it
Places == -2 .. MaxEnd
AllRegions == [rg_start : Places, rg_end : Places]
sbrk == 0                   \* set by init_mm, and by nothing else
Symbols == 0 .. TblSz - 1
Room(rg) == rg.rg_end - rg.rg_start

TypeOK ==
  /\ vm_freerg_list \in Seq([rg : AllRegions, param : BOOLEAN]) /\ vm_freerg_list # <<>>
  /\ rg_next \in {"NULL", "wild"}
  /\ symrgtbl \in [Symbols -> AllRegions] /\ vm_end \in 0 .. MaxEnd
  /\ pc \in {"idle", "scan"} /\ rgid \in Nat /\ size \in Nat
  /\ rgit \in 1 .. Len(vm_freerg_list) + 1 /\ newrg \in AllRegions
  /\ before \in Seq(AllRegions) /\ grown \in Nat /\ undefined \in BOOLEAN

\* init_mm: one empty region on the list, in front of what vm_freerg_list held
\* before it was ever set.
Init ==
  /\ vm_freerg_list = <<Node(Region(sbrk, sbrk), FALSE)>> /\ rg_next \in {"NULL", "wild"}
  /\ symrgtbl = [r \in Symbols |-> Unset] /\ vm_end = 0
  /\ pc = "idle" /\ rgid = 0 /\ size = 0 /\ rgit = 1 /\ newrg = Invalid
  /\ before = <<>> /\ grown = 0 /\ undefined = FALSE

-----------------------------------------------------------------------------
At(l) == pc = l /\ ~undefined
Undefine == undefined' = TRUE
            /\ UNCHANGED <<vm_freerg_list, rg_next, symrgtbl, vm_end, callVars, grown>>

PAGING_PAGE_ALIGNSZ(sz) == ((sz + PAGESZ - 1) \div PAGESZ) * PAGESZ

\* pgalloc, __alloc: the call of get_free_vmrg_area.
alloc(r, sz) ==
  /\ At("idle") /\ vm_end + PAGING_PAGE_ALIGNSZ(sz) <= MaxEnd
  /\ \/ /\ pc' = "scan" /\ rgid' = r /\ size' = sz /\ rgit' = 1 /\ newrg' = Invalid
        /\ before' = [k \in DOMAIN vm_freerg_list |-> vm_freerg_list[k].rg]
        /\ UNCHANGED <<vm_freerg_list, rg_next, symrgtbl, vm_end, grown, undefined>>
     \/ (\E k \in DOMAIN vm_freerg_list : vm_freerg_list[k].param) /\ Undefine

Current == vm_freerg_list[rgit].rg

\* Bug variant: a region of just the right size is not used.
Fits_Strict == rgit <= Len(vm_freerg_list) /\ Current.rg_start + size < Current.rg_end

Fits == rgit <= Len(vm_freerg_list) /\ Current.rg_start + size <= Current.rg_end

\* The current region is larger than needed.  The loop stays where it is, and
\* will take the next piece from the same region.
split ==
  /\ At("scan") /\ Fits /\ Current.rg_start + size < Current.rg_end
  /\ newrg' = Region(Current.rg_start, Current.rg_start + size)
  /\ vm_freerg_list' = [vm_freerg_list EXCEPT ![rgit].rg.rg_start = @ + size]
  /\ UNCHANGED <<scanFixed, rgit>>

\* The current region is used up: its node takes over the contents of the next
\* one, which is freed, or becomes empty at the end of the list.
UsesUp == At("scan") /\ Fits /\ Current.rg_start + size = Current.rg_end
AtLast == rgit = Len(vm_freerg_list)
NextBad == IF AtLast THEN rg_next = "wild" ELSE vm_freerg_list[rgit + 1].param

use_up ==
  /\ UsesUp /\ ~NextBad
  /\ newrg' = Current
  /\ vm_freerg_list' =
       IF AtLast THEN [vm_freerg_list EXCEPT ![rgit].rg.rg_start = @ + size]
       ELSE [RemoveAt(vm_freerg_list, rgit) EXCEPT ![rgit].param = vm_freerg_list[rgit].param]
  /\ UNCHANGED <<scanFixed, rgit>>

\* The next node is read through a wild pointer, or freed but not malloc'ed.
use_up_undefined == UsesUp /\ NextBad /\ Undefine

\* Bug variant: every other region is left out.
skip_Two ==
  /\ At("scan") /\ rgit <= Len(vm_freerg_list) /\ ~Fits
  /\ rgit' = rgit + 2
  /\ UNCHANGED <<scanFixed, vm_freerg_list, newrg>>

\* Bug variant: the loop does not move on.
skip_Stay ==
  /\ At("scan") /\ rgit <= Len(vm_freerg_list) /\ ~Fits
  /\ UNCHANGED vars

\* The current region is too small.
skip ==
  /\ At("scan") /\ rgit <= Len(vm_freerg_list) /\ ~Fits
  /\ rgit' = rgit + 1
  /\ UNCHANGED <<scanFixed, vm_freerg_list, newrg>>

Scanned == At("scan") /\ rgit > Len(vm_freerg_list) /\ rg_next = "NULL" /\ rgid \in Symbols

\* __alloc: a free region was found.
alloc_found ==
  /\ Scanned /\ newrg.rg_start # -1
  /\ symrgtbl' = [symrgtbl EXCEPT ![rgid] = newrg] /\ pc' = "idle"
  /\ UNCHANGED <<vm_freerg_list, rg_next, vm_end, rgid, size, rgit, newrg, before, grown, undefined>>

\* Bug variant: the end moves only if the pages can be mapped.
inc_vma_limit_IfMapped(inc_sz) == vm_end' \in {vm_end, vm_end + inc_sz} /\ grown' = grown + 1

\* inc_vma_limit moves the end of the area, whether or not it can map the pages.
inc_vma_limit(inc_sz) == vm_end' = vm_end + inc_sz /\ grown' = grown + 1

\* __alloc: none was found.  What inc_vma_limit returns is not looked at.
alloc_grow ==
  /\ Scanned /\ newrg.rg_start = -1
  /\ LET inc_sz == PAGING_PAGE_ALIGNSZ(size)
     IN  /\ inc_vma_limit(inc_sz)
         /\ symrgtbl' = [symrgtbl EXCEPT ![rgid] = Region(sbrk, sbrk + inc_sz)]
  /\ pc' = "idle"
  /\ UNCHANGED <<vm_freerg_list, rg_next, rgid, size, rgit, newrg, before, undefined>>

\* The list ends in a pointer that was never set; or the id, which __alloc does
\* not check, is outside the table; or the area grows and alloc_pages_range puts
\* a frame on a list that is not one (the two outcomes are told apart in Paging).
alloc_undefined ==
  /\ At("scan") /\ rgit > Len(vm_freerg_list)
  /\ rg_next = "wild" \/ rgid \notin Symbols \/ newrg.rg_start = -1
  /\ Undefine

\* The list after enlist_vm_freerg_list: an empty region (or an invalid one: the
\* symbol is freed twice) is refused.
enlist_vm_freerg_list(rg) == IF rg.rg_start >= rg.rg_end THEN vm_freerg_list
                             ELSE <<Node(rg, TRUE)>> \o vm_freerg_list

\* Bug variant: the symbol keeps its region.
free_Keep(r) ==
  /\ At("idle") /\ r \in Symbols
  /\ vm_freerg_list' = enlist_vm_freerg_list(symrgtbl[r])
  /\ UNCHANGED <<rg_next, symrgtbl, vm_end, callVars, grown, undefined>>

\* FREE: pgfree_data, __free.
free(r) ==
  /\ At("idle") /\ r \in Symbols
  /\ vm_freerg_list' = enlist_vm_freerg_list(symrgtbl[r])
  /\ symrgtbl' = [symrgtbl EXCEPT ![r] = Invalid]
  /\ UNCHANGED <<rg_next, vm_end, callVars, grown, undefined>>

\* get_symrg_byid lets the id one past the table through; and a symbol that was
\* never allocated may hold anything.
free_undefined(r) ==
  /\ At("idle")
  /\ r = TblSz \/ (r \in Symbols /\ symrgtbl[r] = Unset)
  /\ Undefine

\* Larger ids are refused.
free_refused(r) == At("idle") /\ r > TblSz /\ UNCHANGED vars

Stopped == undefined /\ UNCHANGED vars

get_free_vmrg_area == split \/ use_up \/ use_up_undefined \/ skip

Return == alloc_found \/ alloc_grow \/ alloc_undefined

Next == \/ \E r \in Rgids : \/ \E sz \in Sizes : alloc(r, sz)
                            \/ free(r) \/ free_undefined(r) \/ free_refused(r)
        \/ get_free_vmrg_area \/ Return \/ Stopped

\* The CPU goes on with the call it is in.
Spec == Init /\ [][Next]_vars /\ WF_vars(get_free_vmrg_area \/ Return)

-----------------------------------------------------------------------------
(* Properties                                                               *)

Within(a, b) == b.rg_start <= a.rg_start /\ a.rg_end <= b.rg_end

\* When get_free_vmrg_area, asked for at least one byte, comes to the end of the
\* list, it has found a region exactly if one of the list had enough room: a
\* piece of the size asked for, of one that had.  Regions with too little room
\* are still there, as they were.  Nothing is said of the others that had
\* enough: the code's comments speak of a chosen region, but the loop does not
\* stop at a fit and takes from all of them.
FoundIfRoom ==
  At("scan") /\ rgit > Len(vm_freerg_list) /\ size > 0 =>
    LET large == {k \in DOMAIN before : Room(before[k]) >= size}
    IN  /\ newrg = Invalid <=> large = {}
        /\ newrg # Invalid => Room(newrg) = size /\ \E k \in large : Within(newrg, before[k])
        /\ \A k \in DOMAIN before \ large : Room(before[k]) > 0 =>
             \E j \in DOMAIN vm_freerg_list : vm_freerg_list[j].rg = before[k]

Live(r) == symrgtbl[r].rg_start >= 0 /\ Room(symrgtbl[r]) > 0
Overlap(a, b) == /\ Room(a) > 0 /\ Room(b) > 0
                 /\ a.rg_start < b.rg_end /\ b.rg_start < a.rg_end
FreeRg(k) == vm_freerg_list[k].rg

\* As long as the area has grown only once, no address belongs to two symbols,
\* to two free regions, or to a symbol and a free region, whatever is allocated
\* and freed in it.  The second growth starts at sbrk again, which nothing
\* advances: from then on regions overlap.
DisjointUntilRegrown ==
  grown <= 1 =>
    /\ \A q, r \in Symbols : q # r /\ Live(q) /\ Live(r) => ~Overlap(symrgtbl[q], symrgtbl[r])
    /\ \A j, k \in DOMAIN vm_freerg_list : j # k => ~Overlap(FreeRg(j), FreeRg(k))
    /\ \A r \in Symbols, k \in DOMAIN vm_freerg_list : Live(r) => ~Overlap(symrgtbl[r], FreeRg(k))

\* Every region that is allocated, free or about to be handed out lies within
\* the area, so that inc_vma_limit has been asked to map its pages.
WithinArea ==
  /\ \A r \in Symbols : Live(r) => symrgtbl[r].rg_end <= vm_end
  /\ \A k \in DOMAIN vm_freerg_list : FreeRg(k).rg_start >= 0 /\ FreeRg(k).rg_end <= vm_end
  /\ newrg # Invalid => newrg.rg_start >= 0 /\ newrg.rg_end <= vm_end

\* Every ALLOC of at least one byte comes back.  (ALLOC 0 does not: an empty
\* piece fits for ever.)
AllocReturns == (pc = "scan" /\ size > 0) ~> (pc = "idle" \/ undefined)
=============================================================================
