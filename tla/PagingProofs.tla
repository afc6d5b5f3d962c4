---------------------------- MODULE PagingProofs -----------------------------
(***************************************************************************)
(* Proofs about Paging.tla, for every number of processes, pages, frames   *)
(* and list nodes.                                                         *)
(***************************************************************************)
EXTENDS Paging, TLAPS, SequenceTheorems, FiniteSetTheorems, WellFoundedInduction

\* What is known of the words of PteWord.
Word == INSTANCE PteProofs WITH Fpns <- {}, SwpTypes <- {}, SwpOffs <- {}, Garbage <- {},
                                pte <- {}, kind <- "none", fpn <- {}, swptyp <- {}, swpoff <- {}

-----------------------------------------------------------------------------
(* Types                                                                    *)

PageTypes == /\ pgd \in [Procs -> [Pages -> SUBSET Bits]] /\ vm_end \in [Procs -> 0 .. NPages]
             /\ kind \in [Procs -> [Pages -> {"none", "fpn", "swp"}]]
ListTypes == /\ fifo_pgn \in [Procs -> Nodes \cup {NULL, Wild}] /\ pgn \in [Nodes -> Pages]
             /\ pg_next \in [Nodes -> Nodes \cup {NULL, Wild}] /\ alive \subseteq Nodes
             /\ order \in [Procs -> Seq(Pages)] /\ dangling \in BOOLEAN
FreeTypes == /\ DOMAIN free_fp = Devices
             /\ \A d \in Devices : free_fp[d] \in Seq(Frames(d))
IsStore(st) == /\ DOMAIN st = Devices
               /\ \A d \in Devices : st[d] \in [Frames(d) -> Values]
LastType == last = <<>> \/ last \in {"read", "write"} \X Procs \X Pages \X Values

\* TypeOK, and that the two functions on devices are defined for devices only.
TypeInv == /\ PageTypes /\ ListTypes /\ FreeTypes /\ IsStore(storage) /\ LastType
           /\ stop \in {"no", "undefined", "loop"} /\ swapFull \in BOOLEAN

\* The frames of a device are numbered from 0.
LEMMA Constants == /\ NPages \in Nat /\ RamSz \in Nat /\ SwpSz \in Nat /\ RamSz >= 2 /\ SwpSz >= 2
                   /\ Devices = {"ram", "swp"} /\ "ram" # "swp"
                   /\ Frames("ram") = 0 .. RamSz - 1 /\ Frames("swp") = 0 .. SwpSz - 1
BY PagingAssumption DEF Frames, Sz, Devices

\* The operators of PteProofs are those of Paging.
LEMMA SameWords ==
  /\ Word!Bits = Bits /\ Word!PRESENT = PRESENT
  /\ Word!FPN_MASK = FPN_MASK /\ Word!SWPOFF_MASK = SWPOFF_MASK
  /\ \A v, mask, k : Word!GETVAL(v, mask, k) = GETVAL(v, mask, k)
  /\ \A v, f : Word!FrameWord(v, f) = FrameWord(v, f)
  /\ \A v, t, o : Word!SwapWord(v, t, o) = SwapWord(v, t, o)
<1>1. /\ Word!Bits = Bits /\ Word!PRESENT = PRESENT /\ Word!SWAPPED = SWAPPED
      /\ Word!FPN_MASK = FPN_MASK /\ Word!SWPOFF_MASK = SWPOFF_MASK
      /\ Word!SWPTYP_MASK = SWPTYP_MASK
  BY DEF Word!Bits, Word!PRESENT, Word!SWAPPED, Word!FPN_MASK, Word!SWPOFF_MASK,
         Word!SWPTYP_MASK, Word!GENMASK, Bits, PRESENT, SWAPPED, FPN_MASK, SWPOFF_MASK,
         SWPTYP_MASK, GENMASK
<1>2. /\ \A v, k : Word!Shl(v, k) = Shl(v, k) /\ Word!Shr(v, k) = Shr(v, k)
      /\ \A v, mask : Word!SETBIT(v, mask) = SETBIT(v, mask) /\ Word!CLRBIT(v, mask) = CLRBIT(v, mask)
  BY DEF Word!Shl, Word!Shr, Word!SETBIT, Word!CLRBIT, Shl, Shr, SETBIT, CLRBIT
<1>3. /\ \A v, mask, k : Word!GETVAL(v, mask, k) = GETVAL(v, mask, k)
      /\ \A v, x, mask, k : Word!SETVAL(v, x, mask, k) = SETVAL(v, x, mask, k)
  BY <1>2 DEF Word!GETVAL, Word!SETVAL, GETVAL, SETVAL
<1>4. QED
  BY <1>1, <1>2, <1>3 DEF Word!FrameWord, Word!SwapWord, FrameWord, SwapWord

\* What a setter stores is read back from its field, cut to its width, and the
\* entry is present.
LEMMA SetterWords ==
  ASSUME NEW v \in SUBSET Bits, NEW n
  PROVE  /\ FrameWord(v, ToBits(n)) \in SUBSET Bits /\ 31 \in FrameWord(v, ToBits(n))
         /\ GETVAL(FrameWord(v, ToBits(n)), FPN_MASK, 0) = ToBits(n) \cap 0 .. 12
         /\ SwapWord(v, {}, ToBits(n)) \in SUBSET Bits /\ 31 \in SwapWord(v, {}, ToBits(n))
         /\ GETVAL(SwapWord(v, {}, ToBits(n)), SWPOFF_MASK, 5) = ToBits(n) \cap 0 .. 20
<1> DEFINE t == ToBits(n)
<1>1. t \in SUBSET Bits /\ {} \in SUBSET Bits
  BY DEF ToBits, Bits
<1> HIDE DEF t
<1>2. v \in SUBSET Word!Bits /\ t \in SUBSET Word!Bits /\ {} \in SUBSET Word!Bits
  BY <1>1, SameWords
<1>3. /\ FrameWord(v, t) \subseteq Bits /\ PRESENT \subseteq FrameWord(v, t)
      /\ GETVAL(FrameWord(v, t), FPN_MASK, 0) = t \cap 0 .. 12
  BY <1>2, SameWords, Word!FrameWordFields
<1>4. Word!IsSwapped(SwapWord(v, {}, t), {}, t)
  BY <1>2, SameWords, Word!SwapWordFields
<1>5. /\ SwapWord(v, {}, t) \subseteq Bits /\ PRESENT \subseteq SwapWord(v, {}, t)
      /\ GETVAL(SwapWord(v, {}, t), SWPOFF_MASK, 5) = t \cap 0 .. 20
  BY <1>4, SameWords DEF Word!IsSwapped
<1>6. QED
  BY <1>3, <1>5 DEF PRESENT, t

\* Copying a frame keeps the devices what they are.
LEMMA CopyTypes ==
  ASSUME NEW st, IsStore(st), NEW sd \in Devices, NEW sf \in Frames(sd), NEW d \in Devices, NEW f
  PROVE  IsStore(swap_cp_page(st, sd, sf, d, f))
BY DEF IsStore, swap_cp_page

\* The instructions that reach pg_getpage.
Instructions == {<<"read">>} \cup {<<"write", v>> : v \in Values}

\* ... and so does the access that follows.
LEMMA AccessTypes ==
  ASSUME NEW p \in Procs, NEW g \in Pages, NEW ins \in Instructions, NEW st, IsStore(st),
         NEW f \in Frames("ram"), Access(p, g, ins, st, f)
  PROVE  IsStore(storage') /\ LastType'
<1>1. CASE pg_getval(p, g, st, f)
  BY <1>1, Constants DEF pg_getval, IsStore, LastType
<1>2. ASSUME NEW v \in Values, pg_setval(p, g, v, st, f) PROVE IsStore(storage') /\ LastType'
  BY <1>2, Constants DEF pg_setval, IsStore, LastType
<1>3. QED
  BY <1>1, <1>2 DEF Access, Instructions

\* A page put on the list.
LEMMA EnlistTypes ==
  ASSUME ListTypes, NEW p \in Procs, NEW g \in Pages, NEW head \in Nodes \cup {NULL, Wild},
         NEW nodes \in SUBSET alive, enlist_pgn_node(p, g, head, nodes),
         NEW older \in Seq(Pages), Enlisted(p, g, older), dangling' \in BOOLEAN
  PROVE  ListTypes'
<1>1. <<g>> \o older \in Seq(Pages)
  OBVIOUS
<1>2. order' \in [Procs -> Seq(Pages)]
  BY <1>1 DEF ListTypes, Enlisted
<1>3. PICK n \in Nodes \ nodes :
        /\ fifo_pgn' = [fifo_pgn EXCEPT ![p] = n] /\ alive' = nodes \cup {n}
        /\ pgn' = [pgn EXCEPT ![n] = g] /\ pg_next' = [pg_next EXCEPT ![n] = head]
  BY DEF enlist_pgn_node
<1>4. /\ fifo_pgn' \in [Procs -> Nodes \cup {NULL, Wild}] /\ alive' \subseteq Nodes
      /\ pgn' \in [Nodes -> Pages] /\ pg_next' \in [Nodes -> Nodes \cup {NULL, Wild}]
  BY <1>3 DEF ListTypes
<1>5. QED
  BY <1>2, <1>4 DEF ListTypes

\* What is left of a list when elements are taken from one of its ends.
LEMMA SubSeqType ==
  ASSUME NEW S, NEW s \in Seq(S), NEW m \in 1 .. Len(s) + 1, NEW n \in Int, n <= Len(s)
  PROVE  SubSeq(s, m, n) \in Seq(S)
  OBVIOUS

\* Taking a frame from the free list of a device, by one MEMPHY_get_freefp or
\* by a number of them.
LEMMA TakeTypes ==
  ASSUME FreeTypes, NEW d \in Devices, NEW new \in Seq(Frames(d)),
         free_fp' = [free_fp EXCEPT ![d] = new]
  PROVE  FreeTypes'
BY DEF FreeTypes

\* One frame taken.
LEMMA GetType == ASSUME FreeTypes, NEW d \in Devices PROVE MEMPHY_get_freefp(d) \in Seq(Frames(d))
BY HeadTailProperties DEF FreeTypes, MEMPHY_get_freefp

\* The instructions one by one.
LEMMA StepCases ==
  ASSUME [Next]_vars
  PROVE  \/ UNCHANGED vars \/ \E how \in {"undefined", "loop"} : Stop(how)
         \/ \E p \in Procs, n \in 1 .. NPages : pgalloc(p, n) /\ ~Stop("undefined")
         \/ \E p \in Procs, g \in Pages, ins \in Instructions :
              \/ hit(p, g, ins) \/ fault_load(p, g, ins)
              \/ fault_evict(p, g, ins) \/ fault_empty(p, g, ins)
<1>1. ASSUME NEW p \in Procs, NEW g \in Pages, NEW ins, pg_getpage(p, g, ins)
      PROVE  \/ \E how \in {"undefined", "loop"} : Stop(how)
             \/ hit(p, g, ins) \/ fault_load(p, g, ins)
             \/ fault_evict(p, g, ins) \/ fault_empty(p, g, ins)
  BY <1>1 DEF pg_getpage, fault_undefined, fault_loop
<1>2. <<"read">> \in Instructions /\ \A v \in Values : <<"write", v>> \in Instructions
  BY DEF Instructions
<1>3. QED
  BY <1>1, <1>2, Zenon DEF Next, pgread, pgwrite, Stopped

\* A fault without a free frame keeps the types.
LEMMA SwapTypes ==
  ASSUME TypeInv, NEW p \in Procs, NEW g \in Pages, NEW ins \in Instructions, NEW vicpgn,
         NEW head \in Nodes \cup {NULL, Wild}, NEW nodes \in SUBSET alive,
         swap_out_in(p, g, vicpgn, head, nodes, ins),
         NEW older \in Seq(Pages), Enlisted(p, g, older), dangling' \in BOOLEAN
  PROVE  TypeInv'
<1> DEFINE tgt == FromBits(PAGING_SWP(pgd[p][g]))
<1>1. PICK swpfpn \in SwapTargets :
        /\ vicpgn \in Frames("ram") /\ tgt \in Frames("swp")
        /\ pgd' = [pgd EXCEPT ![p][vicpgn] = SwapWord(@, {}, ToBits(swpfpn))]
        /\ kind' = [kind EXCEPT ![p][vicpgn] = "swp"]
        /\ free_fp' = [free_fp EXCEPT !["swp"] = MEMPHY_get_freefp("swp")]
        /\ swapFull' = (swapFull \/ free_fp["swp"] = <<>>)
        /\ enlist_pgn_node(p, g, head, nodes)
        /\ \E f \in Frames("ram") :
             Access(p, g, ins,
                    swap_cp_page(swap_cp_page(storage, "ram", vicpgn, "swp", swpfpn),
                                 "swp", tgt, "ram", vicpgn), f)
        /\ UNCHANGED <<vm_end, stop>>
  BY Zenon DEF swap_out_in
<1> HIDE DEF tgt
<1> DEFINE out == swap_cp_page(storage, "ram", vicpgn, "swp", swpfpn)
<1>2. "ram" \in Devices /\ "swp" \in Devices
  BY Constants
<1>3. PageTypes'
  BY <1>1, SetterWords DEF TypeInv, PageTypes
<1>4. ListTypes'
  BY <1>1, EnlistTypes DEF TypeInv
<1>5. FreeTypes'
  BY <1>1, <1>2, TakeTypes, GetType DEF TypeInv
<1>6. IsStore(storage') /\ LastType'
  <2>1. IsStore(out)
    BY <1>1, <1>2, CopyTypes DEF TypeInv
  <2> HIDE DEF out
  <2>2. IsStore(swap_cp_page(out, "swp", tgt, "ram", vicpgn))
    BY <1>1, <1>2, <2>1, CopyTypes
  <2>3. PICK f \in Frames("ram") :
          Access(p, g, ins, swap_cp_page(out, "swp", tgt, "ram", vicpgn), f)
    BY <1>1 DEF out
  <2>4. QED
    BY <2>2, <2>3, AccessTypes
<1>7. QED
  BY <1>1, <1>3, <1>4, <1>5, <1>6 DEF TypeInv

\* Every variable has its type at the start ...
LEMMA InitTypes == Init => TypeInv
<1> SUFFICES ASSUME Init PROVE TypeInv
  OBVIOUS
<1>1. PageTypes
  BY PagingAssumption DEF Init, PageTypes, Pages
<1>2. ListTypes
  <2>1. 0 \in Pages /\ <<>> \in Seq(Pages)
    BY PagingAssumption DEF Pages
  <2>2. dangling \in BOOLEAN
    BY DEF Init
  <2>3. QED
    BY <2>1, <2>2 DEF Init, ListTypes
<1>3. FreeTypes
  BY Constants DEF Init, FreeTypes, Sz
<1>4. IsStore(storage)
  BY Constants DEF Init, IsStore
<1>5. QED
  BY <1>1, <1>2, <1>3, <1>4 DEF Init, TypeInv, LastType

\* ... and keeps it in every instruction.
LEMMA NextTypes == TypeInv /\ [Next]_vars => TypeInv'
<1> SUFFICES ASSUME TypeInv, [Next]_vars PROVE TypeInv'
  OBVIOUS
<1>0. PageTypes /\ ListTypes /\ FreeTypes /\ IsStore(storage) /\ LastType
  BY DEF TypeInv
<1>1. CASE UNCHANGED vars
  BY <1>1 DEF vars, fifoVars, TypeInv, PageTypes, ListTypes, FreeTypes, IsStore, LastType
<1>2. ASSUME NEW how \in {"undefined", "loop"}, Stop(how) PROVE TypeInv'
  BY <1>2 DEF Stop, fifoVars, TypeInv, PageTypes, ListTypes, FreeTypes, IsStore, LastType
<1>3. ASSUME NEW p \in Procs, NEW n \in 1 .. NPages, pgalloc(p, n), ~Stop("undefined") PROVE TypeInv'
  <2> DEFINE free == Len(free_fp["ram"])
  <2>1. /\ vm_end[p] + n <= NPages /\ vm_end' = [vm_end EXCEPT ![p] = @ + n]
        /\ free_fp' = [free_fp EXCEPT !["ram"] = alloc_pages_range(n)]
        /\ UNCHANGED dangling
        /\ IF n > free THEN UNCHANGED fifoVars
           ELSE /\ enlist_pgn_node(p, FirstPage(p), fifo_pgn[p], alive)
                /\ Enlisted(p, FirstPage(p), order[p])
        /\ last' = <<>> /\ UNCHANGED <<pgd, storage, stop, kind, swapFull>>
    BY <1>3, Zenon DEF pgalloc
  <2>2. PageTypes'
    BY <1>0, <2>1, Constants DEF PageTypes
  <2>3. ListTypes'
    <3>1. CASE UNCHANGED fifoVars
      BY <1>0, <2>1, <3>1 DEF fifoVars, ListTypes
    <3>2. CASE /\ enlist_pgn_node(p, FirstPage(p), fifo_pgn[p], alive)
               /\ Enlisted(p, FirstPage(p), order[p])
      <4>1. FirstPage(p) \in Pages
        BY <1>0, <2>1, Constants DEF PageTypes, FirstPage, Pages
      <4>2. fifo_pgn[p] \in Nodes \cup {NULL, Wild} /\ order[p] \in Seq(Pages)
            /\ alive \in SUBSET alive /\ dangling' \in BOOLEAN
        BY <1>0, <2>1 DEF ListTypes
      <4>3. QED
        BY <1>0, <3>2, <4>1, <4>2, EnlistTypes
    <3>3. QED
      BY <2>1, <3>1, <3>2
  <2>4. FreeTypes'
    <3>1. "ram" \in Devices /\ free_fp["ram"] \in Seq(Frames("ram"))
      BY <1>0, Constants DEF FreeTypes
    <3>2. alloc_pages_range(n) \in Seq(Frames("ram"))
      BY <3>1, SubSeqProperties DEF alloc_pages_range
    <3>3. QED
      BY <1>0, <2>1, <3>1, <3>2, TakeTypes
  <2>5. QED
    BY <1>0, <2>1, <2>2, <2>3, <2>4 DEF TypeInv, IsStore, LastType
<1>4. ASSUME NEW p \in Procs, NEW g \in Pages, NEW ins \in Instructions, hit(p, g, ins) PROVE TypeInv'
  <2> DEFINE fpn == FromBits(PAGING_FPN(pgd[p][g]))
  <2>1. CASE /\ fpn \in Frames("ram") /\ Access(p, g, ins, storage, fpn)
             /\ UNCHANGED <<pgd, vm_end, fifoVars, free_fp, stop, kind, dangling, swapFull>>
    <3>1. IsStore(storage') /\ LastType'
      BY <1>0, <2>1, AccessTypes
    <3> HIDE DEF fpn
    <3>2. QED
      BY <1>0, <2>1, <3>1 DEF TypeInv, PageTypes, ListTypes, FreeTypes, fifoVars
  <2>2. QED
    BY <1>2, <1>4, <2>1 DEF hit
<1>5. ASSUME NEW p \in Procs, NEW g \in Pages, NEW ins \in Instructions, fault_load(p, g, ins)
      PROVE TypeInv'
  <2> DEFINE ramfpn == Head(free_fp["ram"])
             tgt == FromBits(PAGING_SWP(pgd[p][g]))
  <2>1. /\ free_fp["ram"] # <<>> /\ tgt \in Frames("swp")
        /\ pgd' = [pgd EXCEPT ![p][g] = FrameWord(@, ToBits(ramfpn))]
        /\ \E f \in Frames("ram") :
              Access(p, g, ins, swap_cp_page(storage, "swp", tgt, "ram", ramfpn), f)
        /\ kind' = [kind EXCEPT ![p][g] = "fpn"]
        /\ free_fp' = [free_fp EXCEPT !["ram"] = MEMPHY_get_freefp("ram")]
        /\ UNCHANGED <<vm_end, stop, dangling, swapFull>>
        /\ enlist_pgn_node(p, g, fifo_pgn[p], alive) /\ Enlisted(p, g, order[p])
    BY <1>5, Zenon DEF fault_load
  <2> HIDE DEF ramfpn, tgt
  <2>2. "ram" \in Devices /\ "swp" \in Devices
    BY Constants
  <2>3. PageTypes'
    BY <1>0, <2>1, SetterWords DEF PageTypes
  <2>4. ListTypes'
    <3>1. fifo_pgn[p] \in Nodes \cup {NULL, Wild} /\ order[p] \in Seq(Pages)
          /\ alive \in SUBSET alive /\ dangling' \in BOOLEAN
      BY <1>0, <2>1 DEF ListTypes
    <3>2. QED
      BY <1>0, <2>1, <3>1, EnlistTypes
  <2>5. FreeTypes'
    BY <1>0, <2>1, <2>2, TakeTypes, GetType
  <2>6. IsStore(storage') /\ LastType'
    <3>1. IsStore(swap_cp_page(storage, "swp", tgt, "ram", ramfpn))
      BY <1>0, <2>1, <2>2, CopyTypes
    <3>2. QED
      BY <2>1, <3>1, AccessTypes
  <2>7. QED
    BY <1>0, <2>1, <2>3, <2>4, <2>5, <2>6 DEF TypeInv
<1>6. ASSUME NEW p \in Procs, NEW g \in Pages, NEW ins \in Instructions, fault_evict(p, g, ins)
      PROVE TypeInv'
  <2> DEFINE n == Oldest(p)
             older == SubSeq(order[p], 1, Len(order[p]) - 1)
  <2>1. /\ swap_out_in(p, g, pgn[n], HeadAfter(p, n), alive \ {n}, ins)
        /\ dangling' = (dangling \/ fifo_pgn[p] # n) /\ Enlisted(p, g, older)
    BY <1>6 DEF fault_evict
  <2>2. order[p] \in Seq(Pages) /\ fifo_pgn[p] \in Nodes \cup {NULL, Wild}
    BY <1>0 DEF ListTypes
  <2>3. older \in Seq(Pages)
    BY <2>2, SubSeqProperties
  <2>4. HeadAfter(p, n) \in Nodes \cup {NULL, Wild}
    BY <2>2 DEF HeadAfter
  <2> HIDE DEF n, older
  <2>5. alive \ {n} \in SUBSET alive /\ dangling' \in BOOLEAN
    BY <1>0, <2>1 DEF ListTypes
  <2>6. QED
    BY <2>1, <2>3, <2>4, <2>5, SwapTypes
<1>7. ASSUME NEW p \in Procs, NEW g \in Pages, NEW ins \in Instructions, fault_empty(p, g, ins)
      PROVE TypeInv'
  <2>1. PICK vicpgn \in Pages : swap_out_in(p, g, vicpgn, NULL, alive, ins)
    BY <1>7 DEF fault_empty
  <2>2. /\ Enlisted(p, g, order[p]) /\ dangling' \in BOOLEAN /\ order[p] \in Seq(Pages)
        /\ NULL \in Nodes \cup {NULL, Wild} /\ alive \in SUBSET alive
    BY <1>0, <1>7 DEF fault_empty, ListTypes
  <2>3. QED
    BY <2>1, <2>2, SwapTypes
<1>8. QED
  BY <1>1, <1>2, <1>3, <1>4, <1>5, <1>6, <1>7, StepCases

\* Every variable keeps its type, whatever undefined pointers and numbers the
\* program uses: what it stores in an entry is a word of 32 bits, on a list a
\* node, and in the number of a frame one of the device.
THEOREM TypeCorrect == Spec => []TypeOK
<1>1. TypeInv => TypeOK
  BY DEF TypeInv, TypeOK, PageTypes, ListTypes, FreeTypes, IsStore, LastType
<1>2. QED
  BY <1>1, InitTypes, NextTypes, PTL DEF Spec

-----------------------------------------------------------------------------
(* Numbers and their bits                                                   *)

\* The weights of the bits in s, and their sum, written out for the 21 bits of the
\* widest field.
Sum7(t, k) == t[k] + t[k + 1] + t[k + 2] + t[k + 3] + t[k + 4] + t[k + 5] + t[k + 6]
Sum21(t) == Sum7(t, 0) + Sum7(t, 7) + Sum7(t, 14)
Weights(s) == [b \in 0 .. 20 |-> IF b \in s THEN 2^b ELSE 0]

\* The powers of two.
LEMMA Powers ==
  /\ \A x \in 0 .. 21 : 2^x \in Nat \ {0}
  /\ \A x \in 0 .. 20 : 2^(x + 1) = 2 * 2^x
  /\ \A x \in 13 .. 20 : 2^13 <= 2^x
<1>1. \A x : /\ x = 0 => 2^x = 2^0
             /\ x = 1 => 2^x = 2^1
             /\ x = 2 => 2^x = 2^2
             /\ x = 3 => 2^x = 2^3
             /\ x = 4 => 2^x = 2^4
             /\ x = 5 => 2^x = 2^5
             /\ x = 6 => 2^x = 2^6
             /\ x = 7 => 2^x = 2^7
             /\ x = 8 => 2^x = 2^8
             /\ x = 9 => 2^x = 2^9
             /\ x = 10 => 2^x = 2^10
             /\ x = 11 => 2^x = 2^11
             /\ x = 12 => 2^x = 2^12
             /\ x = 13 => 2^x = 2^13
             /\ x = 14 => 2^x = 2^14
             /\ x = 15 => 2^x = 2^15
             /\ x = 16 => 2^x = 2^16
             /\ x = 17 => 2^x = 2^17
             /\ x = 18 => 2^x = 2^18
             /\ x = 19 => 2^x = 2^19
             /\ x = 20 => 2^x = 2^20
             /\ x = 21 => 2^x = 2^21
  BY Zenon
<1>2. QED
  BY <1>1, SMT

\* Taking a bit away.
LEMMA SumRemove ==
  ASSUME NEW t, NEW u, NEW x \in 0 .. 20,
         \A b \in 0 .. 20 : t[b] \in Int /\ u[b] = IF b = x THEN 0 ELSE t[b]
  PROVE  Sum21(t) = t[x] + Sum21(u)
<1>1. ASSUME NEW k \in {0, 7, 14}
      PROVE  /\ Sum7(t, k) \in Int /\ Sum7(u, k) \in Int 
             /\ x \notin k .. k + 6 => Sum7(t, k) = Sum7(u, k)
             /\ x \in k .. k + 6 => Sum7(t, k) = t[x] + Sum7(u, k)
  <2>1. k \in Nat /\ \A b \in k .. k + 6 : b \in 0 .. 20
    OBVIOUS
  <2>2. \A b \in k .. k + 6 : t[b] \in Int /\ u[b] = IF b = x THEN 0 ELSE t[b]
    BY <2>1
  <2>3. QED
    BY <2>1, <2>2, SMT DEF Sum7
<1>2. QED
  BY <1>1 DEF Sum21

\* Quotient and remainder.
LEMMA Division ==
  ASSUME NEW n \in Nat, NEW D \in Nat \ {0}
  PROVE  n \div D \in Int /\ n - D * (n \div D) \in 0 .. D - 1 
OBVIOUS

\* A number divided by a larger one.
LEMMA SmallQuotient ==
  ASSUME NEW n \in Nat, NEW P \in Nat \ {0}, n < P
  PROVE  n \div P = 0
<1>1. PICK c \in Int : c = n \div P /\ n - P * c \in 0 .. P - 1
  BY Division
<1>2. P * c <= n /\ n < P * c + P
  BY <1>1
<1>3. CASE c >= 1
  <2>1. P * c >= P
    BY <1>3
  <2>2. QED
    BY <1>2, <2>1
<1>4. CASE c <= -1
  <2>1. P * c <= P * (-1)
    BY <1>4
  <2>2. QED
    BY <1>2, <2>1
<1>5. QED
  BY <1>1, <1>3, <1>4

\* Dividing by twice as much.
LEMMA Halves ==
  ASSUME NEW n \in Nat, NEW P \in Nat \ {0}, NEW D, D = 2 * P
  PROVE  n \div P = 2 * (n \div D) + ((n \div P) % 2)
<1>0. D \in Nat \ {0}
  OBVIOUS
<1>1. PICK q \in Int : q = n \div P /\ n - P * q \in 0 .. P - 1
  BY Division
<1>2. PICK c \in Int : c = n \div D /\ n - D * c \in 0 .. D - 1
  BY <1>0, Division
<1>3. PICK r \in 0 .. P - 1 : n = P * q + r
  BY <1>1
<1>4. PICK s \in 0 .. D - 1 : n = D * c + s
  BY <1>0, <1>2
<1>5. P * (q - 2 * c) = s - r
  <2>1. ASSUME NEW i \in Int, NEW j \in Int, NEW k \in Int
        PROVE  (2 * i) * k = i * (2 * k) /\ i * (j - 2 * k) = i * j - i * (2 * k)
    OBVIOUS
  <2>2. D * c = P * (2 * c) /\ P * (q - 2 * c) = P * q - P * (2 * c)
    BY <2>1
  <2>3. QED
    BY <1>3, <1>4, <2>1, <2>2
<1>6. ~(q - 2 * c >= 2)
  <2> SUFFICES ASSUME q - 2 * c >= 2 PROVE FALSE
    OBVIOUS
  <2>1. P * (q - 2 * c) >= P * 2
    BY <1>1, <1>2
  <2>2. QED
    BY <2>1, <1>3, <1>4, <1>5
<1>7. ~(q - 2 * c <= -1)
  <2> SUFFICES ASSUME q - 2 * c <= -1 PROVE FALSE
    OBVIOUS
  <2>1. P * (q - 2 * c) <= P * (-1)
    BY <1>1, <1>2
  <2>2. QED
    BY <2>1, <1>3, <1>4, <1>5
<1>8. q = 2 * c + (q % 2)
  BY <1>6, <1>7
<1>9. QED
  BY <1>1, <1>2, <1>8

\* The bits of a number make up the number, up to the width of the widest field.
LEMMA SumOfBits ==
  ASSUME NEW n \in Nat, n < 2^21
  PROVE  Sum21(Weights(ToBits(n))) = n
<1> DEFINE w == Weights(ToBits(n))
           q == [b \in 0 .. 21 |-> n \div 2^b]
           low == [b \in 0 .. 21 |-> n - 2^b * q[b]]
<1>1. \A b \in 0 .. 21 : 2^b \in Nat \ {0}
  BY Powers
<1>2. \A b \in 0 .. 21 : q[b] \in Int /\ low[b] \in Int
  <2> SUFFICES ASSUME NEW b \in 0 .. 21 PROVE q[b] \in Int /\ low[b] \in Int
    OBVIOUS
  <2>1. PICK P \in Nat \ {0} : P = 2^b
    BY <1>1
  <2>2. n \div P \in Int /\ q[b] = n \div P /\ low[b] = n - P * (n \div P)
    BY <2>1, Division
  <2>3. QED
    BY <2>2
<1>3. ASSUME NEW b \in 0 .. 20 PROVE w[b] = low[b + 1] - low[b]
  <2>1. b \in 0 .. 21 /\ b + 1 \in 0 .. 21
    OBVIOUS
  <2>2. PICK P \in Nat \ {0} : P = 2^b
    BY <1>1, <2>1
  <2>3. PICK D \in Nat \ {0} : D = 2^(b + 1) /\ D = 2 * P
    BY <1>1, <2>1, <2>2, Powers
  <2>4. PICK c \in Int : c = q[b] /\ c = n \div P /\ low[b] = n - P * c
    BY <1>2, <2>1, <2>2
  <2>5. PICK d \in Int : d = q[b + 1] /\ d = n \div D /\ low[b + 1] = n - D * d
    BY <1>2, <2>1, <2>3
  <2>6. c = 2 * d + (c % 2)
    <3>1. n \div P = 2 * (n \div D) + ((n \div P) % 2)
      BY <2>3, Halves
    <3>2. QED
      BY <2>4, <2>5, <3>1
  <2>7. w[b] = IF c % 2 = 1 THEN P ELSE 0
    BY <2>2, <2>4 DEF Weights, ToBits
  <2> HIDE DEF w, q, low
  <2>8. P * c - D * d = w[b]
    <3>1. CASE c % 2 = 1
      <4>1. P * (2 * d + 1) = (2 * P) * d + P
        OBVIOUS
      <4>2. QED
        BY <2>3, <2>6, <2>7, <3>1, <4>1
    <3>2. CASE c % 2 = 0
      <4>1. P * (2 * d) = (2 * P) * d
        OBVIOUS
      <4>2. QED
        BY <2>3, <2>6, <2>7, <3>2, <4>1
    <3>3. QED
      BY <3>1, <3>2
  <2>9. QED
    BY <2>4, <2>5, <2>8
<1>4. low[0] = 0
  <2>1. 2^0 = 1 /\ n \div 1 = n
    BY SMT
  <2>2. QED
    BY <2>1
<1>5. low[21] = n
  <2>1. PICK P \in Nat \ {0} : P = 2^21
    BY <1>1
  <2>2. n \div P = 0 /\ low[21] = n - P * (n \div P)
    BY <2>1, SmallQuotient
  <2>3. QED
    BY <2>2
<1> HIDE DEF w, q, low
<1>6. QED
  BY <1>2, <1>3, <1>4, <1>5 DEF Sum21, Sum7, w

\* A set of numbers that is not empty has a least one.
LEMMA Least ==
  ASSUME NEW S, S \subseteq Nat, S # {}
  PROVE  \E x \in S : \A y \in S : x <= y
<1> DEFINE Less == {ss \in Nat \X Nat : ss[1] < ss[2]}
<1>1. IsWellFoundedOn(Less, Nat)
  BY NatLessThanWellFounded, Zenon DEF OpToRel
<1>2. PICK x \in S : \A y \in S : ~(<<y, x>> \in Less)
  BY <1>1, WFMin, Zenon
<1>3. ASSUME NEW y \in S PROVE x <= y
  <2>1. y \in Nat /\ x \in Nat /\ ~(<<y, x>> \in Less)
    BY <1>2
  <2>2. y < x => <<y, x>> \in Less
    BY <2>1
  <2>3. QED
    BY <2>1, <2>2
<1>4. QED
  BY <1>3


\* The equation of the sum over the bits, which takes the bits in some order.
SomeBit(s) == CHOOSE b \in s : TRUE
IsSum(f, w) == f = [s \in SUBSET w |-> IF s = {} THEN 0 ELSE 2^SomeBit(s) + f[s \ {SomeBit(s)}]]
Total(w) == [s \in SUBSET w |-> Sum21(Weights(s))]

\* The sum in the order of the bits satisfies it ...
LEMMA TotalIsSum == ASSUME NEW w \in SUBSET (0 .. 20) PROVE IsSum(Total(w), w)
<1> SUFFICES ASSUME NEW s \in SUBSET w
             PROVE  Sum21(Weights(s)) = IF s = {} THEN 0
                                        ELSE 2^SomeBit(s) + Total(w)[s \ {SomeBit(s)}]
  BY DEF IsSum, Total
<1>1. CASE s = {}
  BY <1>1 DEF Sum21, Sum7, Weights
<1>2. CASE s # {}
  <2>1. PICK x \in s : x = SomeBit(s)
    BY <1>2 DEF SomeBit
  <2>2. x \in 0 .. 20 /\ s \ {x} \in SUBSET w /\ Total(w)[s \ {x}] = Sum21(Weights(s \ {x}))
    BY DEF Total
  <2>3. \A b \in 0 .. 20 : /\ Weights(s)[b] \in Int
                           /\ Weights(s \ {x})[b] = IF b = x THEN 0 ELSE Weights(s)[b]
    BY Powers DEF Weights
  <2>4. Weights(s)[x] = 2^x
    BY <2>2 DEF Weights
  <2>5. Sum21(Weights(s)) = 2^x + Sum21(Weights(s \ {x}))
    BY <2>2, <2>3, <2>4, SumRemove
  <2>6. QED
    BY <1>2, <2>1, <2>2, <2>5
<1>3. QED
  BY <1>1, <1>2

\* ... and nothing else does.
LEMMA SumUnique ==
  ASSUME NEW w, IsFiniteSet(w), NEW f, NEW g, IsSum(f, w), IsSum(g, w)
  PROVE  f = g
<1> DEFINE Differ == {s \in SUBSET w : f[s] # g[s]}
           Sizes == {Cardinality(s) : s \in Differ}
<1>1. ASSUME NEW s \in SUBSET w
      PROVE  /\ f[s] = IF s = {} THEN 0 ELSE 2^SomeBit(s) + f[s \ {SomeBit(s)}]
             /\ g[s] = IF s = {} THEN 0 ELSE 2^SomeBit(s) + g[s \ {SomeBit(s)}]
  BY DEF IsSum
<1>2. f = [s \in SUBSET w |-> f[s]] /\ g = [s \in SUBSET w |-> g[s]]
  BY DEF IsSum
<1>3. Differ = {}
  <2> SUFFICES ASSUME Differ # {} PROVE FALSE
    OBVIOUS
  <2>1. Sizes \subseteq Nat /\ Sizes # {}
    BY FS_Subset, FS_CardinalityType
  <2>2. PICK s \in Differ : \A r \in Differ : Cardinality(s) <= Cardinality(r)
    <3>1. PICK k \in Sizes : \A j \in Sizes : k <= j
      <4> HIDE DEF Sizes
      <4>1. QED
        BY <2>1, Least
    <3>2. QED
      BY <3>1
  <2>3. s \in SUBSET w /\ f[s] # g[s] /\ IsFiniteSet(s)
    BY <2>2, FS_Subset
  <2>4. s # {}
    BY <1>1, <2>3
  <2>5. SomeBit(s) \in s
    BY <2>4 DEF SomeBit
  <2>6. Cardinality(s \ {SomeBit(s)}) = Cardinality(s) - 1 /\ Cardinality(s) \in Nat
    BY <2>3, <2>5, FS_RemoveElement, FS_CardinalityType
  <2>7. s \ {SomeBit(s)} \in SUBSET w /\ s \ {SomeBit(s)} \notin Differ
    BY <2>2, <2>3, <2>6
  <2>8. f[s \ {SomeBit(s)}] = g[s \ {SomeBit(s)}]
    BY <2>7
  <2>9. QED
    BY <1>1, <2>3, <2>4, <2>8
<1>4. QED
  BY <1>2, <1>3

\* What FromBits computes.
LEMMA FromBitsIsSum == ASSUME NEW w \in SUBSET (0 .. 20) PROVE FromBits(w) = Sum21(Weights(w))
<1> DEFINE iter[s \in SUBSET w] ==
             IF s = {} THEN 0 ELSE LET x == CHOOSE b \in s : TRUE IN 2^x + iter[s \ {x}]
<1>1. FromBits(w) = iter[w]
  BY DEF FromBits, MapThenSumSet, MapThenFoldSet
<1>2. iter = CHOOSE f : IsSum(f, w)
  BY Zenon DEF IsSum, SomeBit
<1> HIDE DEF iter
<1>3. IsFiniteSet(w)
  <2>1. 0 \in Int /\ 20 \in Int
    OBVIOUS
  <2>2. IsFiniteSet(0 .. 20)
    BY <2>1, FS_Interval, Zenon
  <2>3. QED
    BY <2>2, FS_Subset
<1>4. iter = Total(w)
  BY <1>2, <1>3, TotalIsSum, SumUnique, Zenon
<1>5. QED
  BY <1>1, <1>4 DEF Total

\* A frame number that fits in its field is what is read back from it.
LEMMA RoundTrip ==
  ASSUME NEW n \in Nat
  PROVE  /\ n < 2^21 => FromBits(ToBits(n) \cap 0 .. 20) = n
         /\ n < 2^13 => FromBits(ToBits(n) \cap 0 .. 12) = n
<1>1. ASSUME n < 2^21 PROVE FromBits(ToBits(n) \cap 0 .. 20) = n
  <2>1. Weights(ToBits(n) \cap 0 .. 20) = Weights(ToBits(n))
    BY DEF Weights
  <2>2. QED
    BY <1>1, <2>1, FromBitsIsSum, SumOfBits
<1>2. ASSUME n < 2^13 PROVE n < 2^21 /\ ToBits(n) \cap 0 .. 12 = ToBits(n) \cap 0 .. 20
  <2>1. ASSUME NEW b \in 13 .. 20 PROVE b \notin ToBits(n)
    <3>0. b \in 0 .. 21
      OBVIOUS
    <3>1. PICK P \in Nat \ {0} : P = 2^b
      BY <3>0, Powers
    <3>2. n < P
      <4>1. 2^13 <= P
        BY <3>1, Powers, Zenon
      <4>2. QED
        BY <1>2, <4>1, SMT
    <3>3. n \div P = 0
      BY <3>2, SmallQuotient
    <3>4. QED
      BY <3>1, <3>3 DEF ToBits
  <2>2. n < 2^21
    BY <1>2, SMT
  <2>3. QED
    BY <2>1, <2>2
<1>3. QED
  BY <1>1, <1>2

-----------------------------------------------------------------------------
(* Entries and frames                                                       *)

\* The frames that the entries name.
RamOwned == [e \in {x \in Entries : Kind(x) = "fpn"} |-> Field(e, FPN_MASK, 0)]
SwpOwned == [e \in {x \in Entries : Kind(x) = "swp"} |-> Field(e, SWPOFF_MASK, 5)]

\* No frame has two owners, is owned and free, or is on the list of free frames twice.
Once(own, free) == /\ \A e, x \in DOMAIN own : own[e] = own[x] => e = x
                   /\ \A e \in DOMAIN own : \A k \in 1 .. Len(free) : own[e] # free[k]
                   /\ \A j, k \in 1 .. Len(free) : free[j] = free[k] => j = k

OnceInv == /\ Once(RamOwned, free_fp["ram"])
           /\ ~swapFull => Once(SwpOwned, free_fp["swp"])

\* Frames may be lost.
LEMMA FewerFrames ==
  ASSUME NEW S, NEW own, NEW free \in Seq(S), Once(own, free), NEW n \in Nat
  PROVE  Once(own, SubSeq(free, n + 1, Len(free)))
<1> DEFINE rest == SubSeq(free, n + 1, Len(free))
<1>1. /\ Len(rest) = IF n + 1 <= Len(free) THEN Len(free) - n ELSE 0
      /\ \A i \in 1 .. Len(rest) : rest[i] = free[n + i] /\ n + i \in 1 .. Len(free)
  BY SubSeqProperties
<1> HIDE DEF rest
<1>2. QED
  BY <1>1 DEF Once, rest

\* Entries may lose their frames.
LEMMA FewerOwners ==
  ASSUME NEW own, NEW free, Once(own, free), NEW new, DOMAIN new \subseteq DOMAIN own,
         \A e \in DOMAIN new : new[e] = own[e]
  PROVE  Once(new, free)
  BY DEF Once

\* Entry e0 is the only one that may have become an owner, of frame f.
Gains(new, own, e0, f) ==
  \A e \in DOMAIN new : \/ e # e0 /\ e \in DOMAIN own /\ new[e] = own[e]
                        \/ e = e0 /\ new[e] = f

\* The first free frame gets an owner.
LEMMA FirstFree ==
  ASSUME NEW S, NEW own, NEW free \in Seq(S), Once(own, free), free # <<>>, NEW new, NEW e0,
         Gains(new, own, e0, Head(free))
  PROVE  Once(new, Tail(free))
<1>1. /\ Head(free) = free[1] /\ Len(free) \in Nat /\ 1 \in 1 .. Len(free)
      /\ Len(Tail(free)) = Len(free) - 1
      /\ \A i \in 1 .. Len(Tail(free)) :
           Tail(free)[i] = free[i + 1] /\ i + 1 \in 1 .. Len(free) /\ i + 1 # 1
  BY HeadTailProperties
<1> DEFINE rest == Tail(free)
<1>2. /\ \A i \in 1 .. Len(rest) : rest[i] = free[i + 1] /\ i + 1 \in 1 .. Len(free) /\ i + 1 # 1
      /\ \A i, j \in 1 .. Len(rest) : i + 1 = j + 1 => i = j
  BY <1>1
<1> HIDE DEF rest
<1>3. \A e, x \in DOMAIN new : new[e] = new[x] => e = x
  BY <1>1 DEF Once, Gains
<1>4. \A e \in DOMAIN new : \A k \in 1 .. Len(rest) : new[e] # rest[k]
  BY <1>1, <1>2 DEF Once, Gains
<1>5. \A j, k \in 1 .. Len(rest) : rest[j] = rest[k] => j = k
  BY <1>2 DEF Once
<1>6. QED
  BY <1>3, <1>4, <1>5 DEF Once, rest

\* The entry of page g of process p is set to word v and becomes one of kind k.
Sets(p, g, v, k) == /\ pgd' = [pgd EXCEPT ![p][g] = v] /\ kind' = [kind EXCEPT ![p][g] = k]

\* What a field of the entry, and of another one, reads as afterwards.
LEMMA SetEntry ==
  ASSUME PageTypes, NEW p \in Procs, NEW g, NEW v, NEW k, Sets(p, g, v, k), NEW e \in Entries
  PROVE  /\ e # <<p, g>> => /\ Kind(e)' = Kind(e)
                            /\ Field(e, FPN_MASK, 0)' = Field(e, FPN_MASK, 0)
                            /\ Field(e, SWPOFF_MASK, 5)' = Field(e, SWPOFF_MASK, 5)
         /\ e = <<p, g>> => /\ g \in Pages /\ Kind(e)' = k
                            /\ Field(e, FPN_MASK, 0)' = FromBits(GETVAL(v, FPN_MASK, 0))
                            /\ Field(e, SWPOFF_MASK, 5)' = FromBits(GETVAL(v, SWPOFF_MASK, 5))
<1>1. PICK q \in Procs, h \in Pages : e = <<q, h>>
  BY DEF Entries
<1>2. FPN_MASK' = FPN_MASK /\ SWPOFF_MASK' = SWPOFF_MASK
  BY DEF FPN_MASK, SWPOFF_MASK, GENMASK
<1>3. CASE e # <<p, g>>
  <2>1. pgd'[q][h] = pgd[q][h] /\ kind'[q][h] = kind[q][h]
    BY <1>1, <1>3 DEF Sets, PageTypes
  <2>2. QED
    BY <1>1, <1>2, <1>3, <2>1 DEF Kind, Field
<1>4. CASE e = <<p, g>>
  <2>1. g \in Pages /\ pgd'[p][g] = v /\ kind'[p][g] = k
    BY <1>1, <1>4 DEF Sets, PageTypes
  <2>2. QED
    BY <1>2, <1>4, <2>1 DEF Kind, Field
<1>5. QED
  BY <1>3, <1>4

\* What a setter does to the frames owned: those of the other kind ...
LEMMA OthersOwned ==
  ASSUME PageTypes, NEW p \in Procs, NEW g, NEW v, NEW k, Sets(p, g, v, k)
  PROVE  /\ k = "swp" => /\ DOMAIN RamOwned' \subseteq DOMAIN RamOwned
                         /\ \A e \in DOMAIN RamOwned' : RamOwned'[e] = RamOwned[e]
         /\ k = "fpn" => /\ DOMAIN SwpOwned' \subseteq DOMAIN SwpOwned
                         /\ \A e \in DOMAIN SwpOwned' : SwpOwned'[e] = SwpOwned[e]
<1>1. ASSUME k = "swp", NEW e \in DOMAIN RamOwned'
      PROVE  e \in DOMAIN RamOwned /\ RamOwned'[e] = RamOwned[e]
  BY <1>1, SetEntry DEF RamOwned
<1>2. ASSUME k = "fpn", NEW e \in DOMAIN SwpOwned'
      PROVE  e \in DOMAIN SwpOwned /\ SwpOwned'[e] = SwpOwned[e]
  BY <1>2, SetEntry DEF SwpOwned
<1>3. QED
  BY <1>1, <1>2

\* ... and those of its own.
LEMMA NewRamOwned ==
  ASSUME PageTypes, NEW p \in Procs, NEW g, NEW v, Sets(p, g, v, "fpn"), NEW f,
         g \in Pages => FromBits(GETVAL(v, FPN_MASK, 0)) = f
  PROVE  Gains(RamOwned', RamOwned, <<p, g>>, f)
<1>1. \A e \in DOMAIN RamOwned' :
        \/ e # <<p, g>> /\ e \in DOMAIN RamOwned /\ RamOwned'[e] = RamOwned[e]
        \/ e = <<p, g>> /\ RamOwned'[e] = f
  BY SetEntry DEF RamOwned
<1>2. QED
  BY <1>1 DEF Gains

\* Likewise for the swap frame of an entry that a swap offset is stored in.
LEMMA NewSwpOwned ==
  ASSUME PageTypes, NEW p \in Procs, NEW g, NEW v, Sets(p, g, v, "swp"), NEW f,
         g \in Pages => FromBits(GETVAL(v, SWPOFF_MASK, 5)) = f
  PROVE  Gains(SwpOwned', SwpOwned, <<p, g>>, f)
<1>1. \A e \in DOMAIN SwpOwned' :
        \/ e # <<p, g>> /\ e \in DOMAIN SwpOwned /\ SwpOwned'[e] = SwpOwned[e]
        \/ e = <<p, g>> /\ SwpOwned'[e] = f
  BY SetEntry DEF SwpOwned
<1>2. QED
  BY <1>1 DEF Gains

\* The devices have no more frames than a field can number.
FieldsFit == RamSz <= 2^13 /\ SwpSz <= 2^21

\* A frame number is read back from the entry it is stored in.
LEMMA StoredFrames ==
  ASSUME FieldsFit, NEW v \in SUBSET Bits
  PROVE  /\ \A f \in Frames("ram") : FromBits(GETVAL(FrameWord(v, ToBits(f)), FPN_MASK, 0)) = f
         /\ \A f \in Frames("swp") :
              FromBits(GETVAL(SwapWord(v, {}, ToBits(f)), SWPOFF_MASK, 5)) = f
<1>1. ASSUME NEW f \in Frames("ram")
      PROVE  FromBits(GETVAL(FrameWord(v, ToBits(f)), FPN_MASK, 0)) = f
  <2>1. f \in Nat /\ f < 2^13
    BY Constants, SMT DEF FieldsFit
  <2>2. QED
    BY <2>1, SetterWords, RoundTrip
<1>2. ASSUME NEW f \in Frames("swp")
      PROVE  FromBits(GETVAL(SwapWord(v, {}, ToBits(f)), SWPOFF_MASK, 5)) = f
  <2>1. f \in Nat /\ f < 2^21
    BY Constants, SMT DEF FieldsFit
  <2>2. QED
    BY <2>1, SetterWords, RoundTrip
<1>3. QED
  BY <1>1, <1>2

\* At the start nothing is owned and every frame is free once.
LEMMA InitOnce == Init => OnceInv
<1> SUFFICES ASSUME Init PROVE OnceInv
  OBVIOUS
<1>1. DOMAIN RamOwned = {} /\ DOMAIN SwpOwned = {}
  BY DEF Init, RamOwned, SwpOwned, Kind, Entries
<1>2. ASSUME NEW d \in Devices
      PROVE  \A j, k \in 1 .. Len(free_fp[d]) : free_fp[d][j] = free_fp[d][k] => j = k
  <2>1. free_fp[d] = [k \in 1 .. Sz[d] |-> k - 1] /\ Sz[d] \in Nat
    BY Constants DEF Init, Sz
  <2>2. Len(free_fp[d]) = Sz[d]
    BY <2>1
  <2>3. QED
    BY <2>1, <2>2
<1>3. QED
  BY <1>1, <1>2, Constants DEF OnceInv, Once

\* A fault without a free frame: the victim gets the first free swap frame.
LEMMA SwapOnce ==
  ASSUME FieldsFit, TypeInv, OnceInv, NEW p \in Procs, NEW g, NEW vicpgn, NEW head, NEW nodes, NEW ins,
         swap_out_in(p, g, vicpgn, head, nodes, ins)
  PROVE  OnceInv'
<1> DEFINE w(f) == SwapWord(pgd[p][vicpgn], {}, ToBits(f))
<1>0. PageTypes /\ FreeTypes
  BY DEF TypeInv
<1>1. PICK swpfpn \in SwapTargets :
        /\ Sets(p, vicpgn, w(swpfpn), "swp")
        /\ free_fp' = [free_fp EXCEPT !["swp"] = MEMPHY_get_freefp("swp")]
        /\ swapFull' = (swapFull \/ free_fp["swp"] = <<>>)
  BY Zenon DEF swap_out_in, Sets
<1>2. free_fp'["ram"] = free_fp["ram"] /\ free_fp'["swp"] = MEMPHY_get_freefp("swp")
  BY <1>0, <1>1, Constants DEF FreeTypes
<1>3. Once(RamOwned, free_fp["ram"])'
  <2>1. /\ DOMAIN RamOwned' \subseteq DOMAIN RamOwned
        /\ \A e \in DOMAIN RamOwned' :
             RamOwned'[e] = RamOwned[e]
    BY <1>0, <1>1, OthersOwned
  <2>2. Once(RamOwned', free_fp["ram"])
    BY <2>1, FewerOwners DEF OnceInv
  <2>3. QED
    BY <1>2, <2>2
<1>4. ASSUME ~swapFull' PROVE Once(SwpOwned, free_fp["swp"])'
  <2> DEFINE free == free_fp["swp"]
  <2>1. ~swapFull /\ free # <<>> /\ free \in Seq(Frames("swp")) /\ Once(SwpOwned, free)
    BY <1>0, <1>1, <1>4, Constants DEF OnceInv, FreeTypes
  <2>2. swpfpn = Head(free) /\ free_fp'["swp"] = Tail(free) /\ Head(free) \in Frames("swp")
    BY <1>2, <2>1, HeadTailProperties DEF SwapTargets, MEMPHY_get_freefp
  <2>3. vicpgn \in Pages => FromBits(GETVAL(w(swpfpn), SWPOFF_MASK, 5)) = Head(free)
    BY <1>0, <2>2, StoredFrames DEF PageTypes
  <2>4. Gains(SwpOwned', SwpOwned, <<p, vicpgn>>, Head(free))
    BY <1>0, <1>1, <2>3, NewSwpOwned, Zenon
  <2>5. Once(SwpOwned', Tail(free))
    BY <2>1, <2>4, FirstFree, Zenon
  <2>6. QED
    BY <2>2, <2>5
<1>5. QED
  BY <1>3, <1>4 DEF OnceInv

\* Every step keeps the frames apart.
LEMMA NextOnce == ASSUME FieldsFit PROVE TypeInv /\ OnceInv /\ [Next]_vars => OnceInv'
<1> SUFFICES ASSUME TypeInv, OnceInv, [Next]_vars PROVE OnceInv'
  OBVIOUS
<1>0. PageTypes /\ FreeTypes
  BY DEF TypeInv
<1>1. ASSUME UNCHANGED <<pgd, kind, free_fp, swapFull>> PROVE OnceInv'
  <2>1. RamOwned' = RamOwned /\ SwpOwned' = SwpOwned
    BY <1>1 DEF RamOwned, SwpOwned, Field, Kind
  <2>2. QED
    BY <1>1, <2>1 DEF OnceInv
<1>2. CASE UNCHANGED vars
  BY <1>1, <1>2 DEF vars
<1>3. ASSUME NEW how \in {"undefined", "loop"}, Stop(how) PROVE OnceInv'
  BY <1>1, <1>3 DEF Stop
<1>4. ASSUME NEW p \in Procs, NEW n \in 1 .. NPages, pgalloc(p, n), ~Stop("undefined") PROVE OnceInv'
  <2>1. /\ free_fp' = [free_fp EXCEPT !["ram"] = alloc_pages_range(n)]
        /\ UNCHANGED <<pgd, kind, swapFull>>
    BY <1>4, Zenon DEF pgalloc
  <2>2. RamOwned' = RamOwned /\ SwpOwned' = SwpOwned
    BY <2>1 DEF RamOwned, SwpOwned, Field, Kind
  <2>3. /\ free_fp["ram"] \in Seq(Frames("ram")) /\ free_fp'["swp"] = free_fp["swp"]
        /\ free_fp'["ram"] = SubSeq(free_fp["ram"], n + 1, Len(free_fp["ram"])) /\ n \in Nat
    BY <1>0, <2>1, Constants DEF FreeTypes, alloc_pages_range
  <2>4. Once(RamOwned, free_fp'["ram"])
    BY <2>3, FewerFrames DEF OnceInv
  <2>5. QED
    BY <2>1, <2>2, <2>3, <2>4 DEF OnceInv
<1>5. ASSUME NEW p \in Procs, NEW g \in Pages, NEW ins \in Instructions, hit(p, g, ins) PROVE OnceInv'
  BY <1>1, <1>5, Zenon DEF hit, Stop
<1>6. ASSUME NEW p \in Procs, NEW g \in Pages, NEW ins \in Instructions, fault_load(p, g, ins)
      PROVE OnceInv'
  <2> DEFINE free == free_fp["ram"]
             w == FrameWord(pgd[p][g], ToBits(Head(free)))
  <2>1. /\ free # <<>> /\ Sets(p, g, w, "fpn") /\ UNCHANGED swapFull
        /\ free_fp' = [free_fp EXCEPT !["ram"] = MEMPHY_get_freefp("ram")]
    BY <1>6, Zenon DEF fault_load, Sets
  <2>2. /\ free \in Seq(Frames("ram")) /\ free_fp'["swp"] = free_fp["swp"]
        /\ free_fp'["ram"] = Tail(free) /\ Head(free) \in Frames("ram")
    BY <1>0, <2>1, Constants, HeadTailProperties DEF FreeTypes, MEMPHY_get_freefp
  <2>3. FromBits(GETVAL(w, FPN_MASK, 0)) = Head(free)
    <3>1. pgd[p][g] \in SUBSET Bits
      BY <1>0 DEF PageTypes
    <3>2. QED
      BY <2>2, <3>1, StoredFrames, Zenon
  <2>4. Gains(RamOwned', RamOwned, <<p, g>>, Head(free))
    BY <1>0, <2>1, <2>3, NewRamOwned, Zenon
  <2>5. Once(RamOwned', Tail(free))
    BY <2>1, <2>2, <2>4, FirstFree, Zenon DEF OnceInv
  <2>6. ~swapFull => Once(SwpOwned', free_fp["swp"])
    <3>1. /\ DOMAIN SwpOwned' \subseteq DOMAIN SwpOwned
          /\ \A e \in DOMAIN SwpOwned' : SwpOwned'[e] = SwpOwned[e]
      BY <1>0, <2>1, OthersOwned
    <3>2. QED
      BY <3>1, FewerOwners DEF OnceInv
  <2>7. QED
    BY <2>1, <2>2, <2>5, <2>6 DEF OnceInv
<1>7. ASSUME NEW p \in Procs, NEW g \in Pages, NEW ins \in Instructions, fault_evict(p, g, ins)
      PROVE OnceInv'
  BY <1>7, SwapOnce DEF fault_evict
<1>8. ASSUME NEW p \in Procs, NEW g \in Pages, NEW ins \in Instructions, fault_empty(p, g, ins)
      PROVE OnceInv'
  BY <1>8, SwapOnce DEF fault_empty
<1>9. QED
  BY <1>2, <1>3, <1>4, <1>5, <1>6, <1>7, <1>8, StepCases

\* While the devices have no more frames than the fields of an entry can
\* number, no frame is named by two entries or is named and free.
THEOREM FramesNamedOnce == ASSUME FieldsFit PROVE Spec => []FramesOnce
<1>1. TypeInv /\ OnceInv => FramesOnce
  <2> SUFFICES ASSUME TypeInv, OnceInv PROVE FramesOnce
    OBVIOUS
  <2>1. DOMAIN free_fp["ram"] = 1 .. Len(free_fp["ram"]) /\ DOMAIN free_fp["swp"] = 1 .. Len(free_fp["swp"])
    BY Constants DEF TypeInv, FreeTypes
  <2>2. QED
    BY <2>1 DEF OnceInv, Once, FramesOnce, RamOwned, SwpOwned
<1>2. QED
  BY <1>1, InitTypes, NextTypes, InitOnce, NextOnce, PTL DEF Spec

-----------------------------------------------------------------------------
(* The swap device                                                          *)

\* READ and WRITE access the RAM only ...
LEMMA AccessRam ==
  ASSUME NEW p, NEW g, NEW ins, NEW st, IsStore(st), NEW f, Access(p, g, ins, st, f)
  PROVE  storage'["swp"] = st["swp"]
BY Constants DEF Access, pg_getval, pg_setval, IsStore

\* ... and so does the copy that brings a page in.
LEMMA CopyIn ==
  ASSUME NEW st, IsStore(st), NEW sf \in Frames("swp"), NEW f
  PROVE  /\ IsStore(swap_cp_page(st, "swp", sf, "ram", f))
         /\ swap_cp_page(st, "swp", sf, "ram", f)["swp"] = st["swp"]
<1>1. IsStore(swap_cp_page(st, "swp", sf, "ram", f))
  BY Constants, CopyTypes
<1>2. QED
  BY <1>1, Constants DEF swap_cp_page, IsStore

\* The copy that takes a page out changes the first free frame.
LEMMA SwapWrites ==
  ASSUME TypeInv, NEW p \in Procs, NEW g, NEW vicpgn, NEW head, NEW nodes, NEW ins,
         swap_out_in(p, g, vicpgn, head, nodes, ins), ~swapFull',
         NEW f, f # Head(free_fp["swp"])
  PROVE  ~swapFull /\ free_fp["swp"] # <<>> /\ storage'["swp"][f] = storage["swp"][f]
<1> DEFINE tgt == FromBits(PAGING_SWP(pgd[p][g]))
           out(to) == swap_cp_page(storage, "ram", vicpgn, "swp", to)
<1>1. PICK swpfpn \in SwapTargets :
        /\ vicpgn \in Frames("ram") /\ tgt \in Frames("swp")
        /\ swapFull' = (swapFull \/ free_fp["swp"] = <<>>)
        /\ \E x \in Frames("ram") :
             Access(p, g, ins, swap_cp_page(out(swpfpn), "swp", tgt, "ram", vicpgn), x)
  BY Zenon DEF swap_out_in
<1>2. ~swapFull /\ free_fp["swp"] # <<>> /\ swpfpn = Head(free_fp["swp"])
  BY <1>1 DEF SwapTargets
<1>3. IsStore(storage) /\ IsStore(out(swpfpn))
  BY <1>1, Constants, CopyTypes DEF TypeInv
<1>4. out(swpfpn)["swp"][f] = storage["swp"][f]
  BY <1>2, <1>3, Constants DEF swap_cp_page, IsStore
<1> HIDE DEF tgt, out
<1>5. storage'["swp"] = out(swpfpn)["swp"]
  BY <1>1, <1>3, CopyIn, AccessRam
<1>6. QED
  BY <1>2, <1>4, <1>5

\* No step changes a swap frame that an entry names.
LEMMA NextKeeps ==
  ASSUME TypeInv, OnceInv, [Next]_vars, NEW e \in Entries, ~swapFull', Kind(e) = "swp"
  PROVE  storage'["swp"][Field(e, SWPOFF_MASK, 5)] = storage["swp"][Field(e, SWPOFF_MASK, 5)]
<1> DEFINE f == Field(e, SWPOFF_MASK, 5)
<1>0. FreeTypes /\ IsStore(storage)
  BY DEF TypeInv
<1>1. ASSUME ~swapFull, free_fp["swp"] # <<>> PROVE f # Head(free_fp["swp"])
  <2>1. Head(free_fp["swp"]) = free_fp["swp"][1] /\ 1 \in 1 .. Len(free_fp["swp"])
    BY <1>0, <1>1, Constants, HeadTailProperties DEF FreeTypes
  <2>2. e \in DOMAIN SwpOwned /\ SwpOwned[e] = f
    BY DEF SwpOwned
  <2>3. QED
    BY <1>1, <2>1, <2>2 DEF OnceInv, Once
<1> HIDE DEF f
<1>2. ASSUME NEW p \in Procs, NEW g, NEW vicpgn, NEW head, NEW nodes, NEW ins,
             swap_out_in(p, g, vicpgn, head, nodes, ins)
      PROVE  storage'["swp"][f] = storage["swp"][f]
  <2>1. ~swapFull /\ free_fp["swp"] # <<>>
    BY <1>2 DEF swap_out_in, TypeInv
  <2>2. QED
    BY <1>1, <1>2, <2>1, SwapWrites
<1>3. ASSUME NEW p \in Procs, NEW g \in Pages, NEW ins \in Instructions, hit(p, g, ins)
      PROVE  storage'["swp"] = storage["swp"]
  BY <1>0, <1>3, AccessRam DEF hit, Stop
<1>4. ASSUME NEW p \in Procs, NEW g \in Pages, NEW ins \in Instructions, fault_load(p, g, ins)
      PROVE  storage'["swp"] = storage["swp"]
  BY <1>0, <1>4, CopyIn, AccessRam DEF fault_load
<1>5. UNCHANGED storage => storage'["swp"] = storage["swp"]
  OBVIOUS
<1>6. UNCHANGED vars \/ (\E how : Stop(how)) => UNCHANGED storage
  BY DEF vars, Stop
<1>7. \A p, n : pgalloc(p, n) => UNCHANGED storage
  BY DEF pgalloc, Stop
<1>8. ASSUME NEW p \in Procs, NEW g \in Pages, NEW ins \in Instructions,
             fault_evict(p, g, ins) \/ fault_empty(p, g, ins)
      PROVE  storage'["swp"][f] = storage["swp"][f]
  BY <1>2, <1>8 DEF fault_evict, fault_empty
<1>9. storage'["swp"][f] = storage["swp"][f]
  BY <1>3, <1>4, <1>5, <1>6, <1>7, <1>8, StepCases, Zenon
<1>10. QED
  BY <1>9 DEF f

\* While the devices have no more frames than the fields of an entry can number,
\* what was swapped out stays as it was on the swap device.
THEOREM SwapKept == ASSUME FieldsFit PROVE Spec => SwappedOutKept
<1>1. TypeInv /\ OnceInv /\ [Next]_vars =>
        [\A e \in Entries : ~swapFull' /\ Kind(e) = "swp" =>
           LET f == Field(e, SWPOFF_MASK, 5) IN storage'["swp"][f] = storage["swp"][f]]_vars
  BY NextKeeps
<1>2. QED
  BY <1>1, InitTypes, NextTypes, InitOnce, NextOnce, PTL DEF Spec, SwappedOutKept

-----------------------------------------------------------------------------
(* The list of pages                                                        *)

\* The list that starts at head as the pages in ord, newest first: s[1] is its
\* last node, s[Len(ord)] its first, and base is what malloc left in fifo_pgn.
Chain(head, next, page, nodes, ord, s, base) ==
  /\ base \in {NULL, Wild}
  /\ head = IF Len(ord) = 0 THEN base ELSE s[Len(ord)]
  /\ \A k \in 1 .. Len(ord) : /\ s[k] \in nodes /\ page[s[k]] = ord[Len(ord) + 1 - k]
                              /\ next[s[k]] = IF k = 1 THEN base ELSE s[k - 1]

\* No two places of the lists have the same node.
Apart(ords, s) ==
  \A p, q \in Procs : \A j \in 1 .. Len(ords[p]), k \in 1 .. Len(ords[q]) :
    s[p][j] = s[q][k] => p = q /\ j = k

\* Until a node with a pointer to it is freed, the lists are those of the pages
\* enlisted, on malloc'ed nodes of their own.
ChainInv ==
  ~dangling =>
    \E s, base :
      /\ \A p \in Procs : Chain(fifo_pgn[p], pg_next, pgn, alive, order[p], s[p], base[p])
      /\ Apart(order, s)

\* Only the fields of the nodes of a list matter to it.
LEMMA ChainKept ==
  ASSUME NEW head, NEW next, NEW page, NEW nodes, NEW ord, NEW s, NEW base,
         Chain(head, next, page, nodes, ord, s, base), NEW next2, NEW page2, NEW nodes2,
         \A n \in nodes : n \in nodes2 /\ next2[n] = next[n] /\ page2[n] = page[n]
  PROVE  Chain(head, next2, page2, nodes2, ord, s, base)
  BY DEF Chain

\* A page is put in front of the list, on node n.
LEMMA ChainPush ==
  ASSUME NEW head, NEW next, NEW page, NEW nodes, NEW ord \in Seq(Pages), NEW s, NEW base,
         Chain(head, next, page, nodes, ord, s, base), NEW n, NEW g \in Pages, NEW t,
         \A k \in 1 .. Len(ord) : t[k] = s[k], t[Len(ord) + 1] = n, n \in nodes,
         next[n] = head, page[n] = g
  PROVE  Chain(n, next, page, nodes, <<g>> \o ord, t, base)
<1> DEFINE m == Len(ord)
           o == <<g>> \o ord
<1>1. m \in Nat /\ Len(o) = m + 1 /\ o[1] = g /\ \A k \in 1 .. m : o[k + 1] = ord[k]
  OBVIOUS
<1> HIDE DEF o
<1>2. ASSUME NEW k \in 1 .. m + 1
      PROVE  /\ t[k] \in nodes /\ page[t[k]] = o[m + 1 + 1 - k]
             /\ next[t[k]] = IF k = 1 THEN base ELSE t[k - 1]
  <2>1. CASE k = m + 1
    <3>1. t[k] = n /\ m + 1 + 1 - k = 1
      BY <1>1, <2>1
    <3>2. head = IF k = 1 THEN base ELSE t[k - 1]
      <4>1. CASE m = 0
        BY <2>1, <4>1 DEF Chain
      <4>2. CASE m # 0
        <5>1. m \in 1 .. m /\ k - 1 = m /\ k # 1
          BY <1>1, <2>1, <4>2
        <5>2. QED
          BY <4>2, <5>1 DEF Chain
      <4>3. QED
        BY <4>1, <4>2
    <3>3. QED
      BY <1>1, <3>1, <3>2
  <2>2. CASE k \in 1 .. m
    <3>1. t[k] = s[k] /\ s[k] \in nodes /\ page[s[k]] = ord[m + 1 - k]
          /\ next[s[k]] = IF k = 1 THEN base ELSE s[k - 1]
      BY <2>2 DEF Chain
    <3>2. m + 1 - k \in 1 .. m /\ (m + 1 - k) + 1 = m + 1 + 1 - k /\ (k # 1 => k - 1 \in 1 .. m)
      BY <1>1, <2>2
    <3>3. o[m + 1 + 1 - k] = ord[m + 1 - k] /\ (k # 1 => t[k - 1] = s[k - 1])
      BY <1>1, <3>2
    <3>4. QED
      BY <3>1, <3>3
  <2>3. QED
    BY <1>1, <2>1, <2>2
<1>3. n = IF Len(o) = 0 THEN base ELSE t[Len(o)]
  BY <1>1
<1>4. base \in {NULL, Wild}
  BY DEF Chain
<1>5. \A k \in 1 .. Len(o) : /\ t[k] \in nodes /\ page[t[k]] = o[Len(o) + 1 - k]
                             /\ next[t[k]] = IF k = 1 THEN base ELSE t[k - 1]
  BY <1>1, <1>2
<1> HIDE DEF m
<1>6. QED
  BY <1>3, <1>4, <1>5 DEF Chain, o

\* Enlisting a page when the list of p, from head on, has the pages in older.
LEMMA EnlistChains ==
  ASSUME ListTypes, NEW p \in Procs, NEW g \in Pages, NEW head, NEW nodes \in SUBSET alive,
         NEW older \in Seq(Pages), NEW s, NEW base,
         \A q \in Procs \ {p} : Chain(fifo_pgn[q], pg_next, pgn, nodes, order[q], s[q], base[q]),
         Chain(head, pg_next, pgn, nodes, older, s[p], base[p]),
         Apart([order EXCEPT ![p] = older], s),
         enlist_pgn_node(p, g, head, nodes), ~dangling', Enlisted(p, g, older)
  PROVE  ChainInv'
<1>1. PICK n \in Nodes \ nodes :
        /\ fifo_pgn' = [fifo_pgn EXCEPT ![p] = n] /\ alive' = nodes \cup {n}
        /\ pgn' = [pgn EXCEPT ![n] = g] /\ pg_next' = [pg_next EXCEPT ![n] = head]
  BY DEF enlist_pgn_node
<1>2. order' = [order EXCEPT ![p] = <<g>> \o older]
  BY DEF Enlisted
<1> DEFINE m == Len(older)
           t == [q \in Procs |->
                   IF q = p THEN [k \in 1 .. m + 1 |-> IF k = m + 1 THEN n ELSE s[p][k]]
                   ELSE s[q]]
<1>3. /\ \A o \in nodes : /\ o \in alive' /\ o # n
                          /\ pg_next'[o] = pg_next[o] /\ pgn'[o] = pgn[o]
      /\ pg_next'[n] = head /\ pgn'[n] = g /\ n \in alive'
  BY <1>1 DEF ListTypes
<1>4. m \in Nat /\ Len(<<g>> \o older) = m + 1
  OBVIOUS
<1>5. /\ t[p][m + 1] = n /\ \A k \in 1 .. m : t[p][k] = s[p][k]
      /\ \A q \in Procs \ {p} : t[q] = s[q]
  BY <1>4
<1>6. /\ fifo_pgn'[p] = n /\ order'[p] = <<g>> \o older
      /\ \A q \in Procs \ {p} : fifo_pgn'[q] = fifo_pgn[q] /\ order'[q] = order[q]
  BY <1>1, <1>2 DEF ListTypes
<1> HIDE DEF t, m
<1>7. ASSUME NEW q \in Procs
      PROVE  Chain(fifo_pgn'[q], pg_next', pgn', alive', order'[q], t[q], base[q])
  <2>1. CASE q = p
    <3>1. Chain(head, pg_next', pgn', alive', older, s[p], base[p])
      BY <1>3, ChainKept
    <3>2. Chain(n, pg_next', pgn', alive', <<g>> \o older, t[p], base[p])
      BY <1>3, <1>5, <3>1, ChainPush DEF m
    <3>3. QED
      BY <1>6, <2>1, <3>2
  <2>2. CASE q # p
    <3>1. Chain(fifo_pgn[q], pg_next', pgn', alive', order[q], s[q], base[q])
      BY <1>3, <2>2, ChainKept
    <3>2. QED
      BY <1>5, <1>6, <2>2, <3>1
  <2>3. QED
    BY <2>1, <2>2
<1>8. Apart(order', t)
  <2> DEFINE old == [order EXCEPT ![p] = older]
  <2>1. ASSUME NEW q \in Procs, NEW k \in 1 .. Len(order'[q])
        PROVE  \/ q = p /\ k = m + 1 /\ t[q][k] = n
               \/ k \in 1 .. Len(old[q]) /\ t[q][k] = s[q][k] /\ t[q][k] \in nodes
    <3>1. CASE q = p
      <4>1. old[q] = older /\ Len(order'[q]) = m + 1
        BY <1>4, <1>6, <3>1 DEF ListTypes
      <4>2. CASE k = m + 1
        BY <1>5, <3>1, <4>2
      <4>3. CASE k \in 1 .. m
        BY <1>5, <3>1, <4>1, <4>3 DEF Chain, m
      <4>4. QED
        BY <1>4, <4>1, <4>2, <4>3
    <3>2. CASE q # p
      <4>1. old[q] = order[q] /\ order'[q] = order[q] /\ t[q] = s[q]
        BY <1>5, <1>6, <3>2 DEF ListTypes
      <4>2. QED
        BY <3>2, <4>1 DEF Chain
    <3>3. QED
      BY <3>1, <3>2
  <2> HIDE DEF old
  <2>2. ASSUME NEW q \in Procs, NEW r \in Procs, NEW j \in 1 .. Len(order'[q]),
               NEW k \in 1 .. Len(order'[r]), t[q][j] = t[r][k]
        PROVE  q = r /\ j = k
    <3>1. /\ \/ q = p /\ j = m + 1 /\ t[q][j] = n
             \/ j \in 1 .. Len(old[q]) /\ t[q][j] = s[q][j] /\ t[q][j] \in nodes
          /\ \/ r = p /\ k = m + 1 /\ t[r][k] = n
             \/ k \in 1 .. Len(old[r]) /\ t[r][k] = s[r][k] /\ t[r][k] \in nodes
      BY <2>1
    <3>2. n \notin nodes /\ Apart(old, s)
      BY <1>3 DEF old
    <3>3. CASE t[q][j] = n
      BY <2>2, <3>1, <3>2, <3>3
    <3>4. CASE t[q][j] # n
      <4>1. j \in 1 .. Len(old[q]) /\ k \in 1 .. Len(old[r]) /\ s[q][j] = s[r][k]
        BY <2>2, <3>1, <3>4
      <4>2. QED
        BY <3>2, <4>1 DEF Apart
    <3>5. QED
      BY <3>3, <3>4
  <2>3. QED
    BY <2>2 DEF Apart
<1>9. QED
  BY <1>7, <1>8 DEF ChainInv

-----------------------------------------------------------------------------
(* Walking the list                                                         *)

\* The equation of find_victim_page's walk.
IsWalk(w, p) ==
  w = [k \in Steps |->
         IF k = 0 THEN fifo_pgn[p] ELSE IF w[k - 1] \in alive THEN pg_next[w[k - 1]] ELSE w[k - 1]]
Descent(m, s, base) == [k \in Steps |-> IF k < m THEN s[m - k] ELSE base]

\* Going down a chain satisfies it ...
LEMMA DescentIsWalk ==
  ASSUME ListTypes, NEW p \in Procs, NEW s, NEW base,
         Chain(fifo_pgn[p], pg_next, pgn, alive, order[p], s, base)
  PROVE  IsWalk(Descent(Len(order[p]), s, base), p)
<1> DEFINE m == Len(order[p])
           d == Descent(m, s, base)
           e == [k \in Steps |-> IF k = 0 THEN fifo_pgn[p]
                                 ELSE IF d[k - 1] \in alive THEN pg_next[d[k - 1]] ELSE d[k - 1]]
           N == Cardinality(Nodes)
<1>0. /\ m \in Nat /\ N \in Nat /\ Steps = 0 .. N /\ base \notin alive
      /\ \A k \in 1 .. m : s[k] \in alive /\ pg_next[s[k]] = IF k = 1 THEN base ELSE s[k - 1]
  <2>1. m \in Nat
    BY DEF ListTypes
  <2>2. N \in Nat /\ Steps = 0 .. N
    BY PagingAssumption, FS_CardinalityType DEF Steps
  <2>3. base \notin alive
    BY PagingAssumption DEF Chain, ListTypes
  <2>4. QED
    BY <2>1, <2>2, <2>3 DEF Chain
<1>1. \A k \in Steps : d[k] = IF k < m THEN s[m - k] ELSE base
  BY DEF Descent
<1>2. d = [k \in Steps |-> d[k]]
  BY DEF Descent
<1>3. fifo_pgn[p] = IF m = 0 THEN base ELSE s[m]
  BY DEF Chain
<1> HIDE DEF d, m, N
<1>4. ASSUME NEW k \in Steps PROVE d[k] = e[k]
  <2>1. CASE k = 0
    <3>1. e[k] = fifo_pgn[p]
      BY <2>1
    <3>2. QED
      BY <1>0, <1>1, <1>3, <2>1, <3>1
  <2>2. CASE k # 0
    <3>1. e[k] = IF d[k - 1] \in alive THEN pg_next[d[k - 1]] ELSE d[k - 1]
      BY <2>2
    <3>2. k - 1 \in Steps
      BY <1>0, <2>2
    <3>3. CASE k - 1 < m
      <4>1. m - (k - 1) \in 1 .. m
        BY <1>0, <2>2, <3>3
      <4>2. d[k - 1] = s[m - (k - 1)] /\ d[k - 1] \in alive
        BY <1>0, <1>1, <3>2, <3>3, <4>1
      <4>3. pg_next[s[m - (k - 1)]] = IF m - (k - 1) = 1 THEN base ELSE s[m - (k - 1) - 1]
        BY <1>0, <4>1
      <4>4. (m - (k - 1)) - 1 = m - k /\ (m - (k - 1) = 1 <=> ~(k < m))
        BY <1>0, <3>3
      <4>5. d[k] = IF k < m THEN s[m - k] ELSE base
        BY <1>1
      <4>6. QED
        BY <3>1, <4>2, <4>3, <4>4, <4>5
    <3>4. CASE ~(k - 1 < m)
      <4>1. d[k - 1] = base /\ d[k] = base
        BY <1>0, <1>1, <3>2, <3>4
      <4>2. QED
        BY <1>0, <3>1, <4>1
    <3>5. QED
      BY <3>3, <3>4
  <2>3. QED
    BY <2>1, <2>2
<1>5. d = e
  <2>1. e = [k \in Steps |-> e[k]]
    OBVIOUS
  <2> HIDE DEF e
  <2>2. QED
    BY <1>2, <1>4, <2>1
<1>6. QED
  BY <1>5 DEF IsWalk, d, m

\* ... and nothing else does.
LEMMA WalkUnique == ASSUME NEW p, NEW v, NEW w, IsWalk(v, p), IsWalk(w, p) PROVE v = w
<1>0. Cardinality(Nodes) \in Nat /\ Steps = 0 .. Cardinality(Nodes)
  BY PagingAssumption, FS_CardinalityType DEF Steps
<1>1. /\ \A k \in Steps : v[k] =
           IF k = 0 THEN fifo_pgn[p] ELSE IF v[k - 1] \in alive THEN pg_next[v[k - 1]] ELSE v[k - 1]
      /\ \A k \in Steps : w[k] =
           IF k = 0 THEN fifo_pgn[p] ELSE IF w[k - 1] \in alive THEN pg_next[w[k - 1]] ELSE w[k - 1]
      /\ v = [k \in Steps |-> v[k]] /\ w = [k \in Steps |-> w[k]]
  BY DEF IsWalk
<1> DEFINE Differ == {k \in Steps : v[k] # w[k]}
<1>2. Differ = {}
  <2> SUFFICES ASSUME Differ # {} PROVE FALSE
    OBVIOUS
  <2>1. PICK x \in Differ : \A y \in Differ : x <= y
    <3>1. Differ \subseteq Nat
      BY <1>0
    <3> HIDE DEF Differ
    <3>2. QED
      BY <3>1, Least
  <2>2. x \in Steps /\ v[x] # w[x]
    BY <2>1
  <2>3. x # 0
    BY <1>1, <2>2
  <2>4. x - 1 \in Steps /\ ~(x <= x - 1)
    BY <1>0, <2>2, <2>3
  <2>5. v[x - 1] = w[x - 1]
    BY <2>1, <2>4
  <2>6. QED
    BY <1>1, <2>2, <2>3, <2>5
<1>3. QED
  BY <1>1, <1>2

\* The first m places of s have nodes of their own.
Distinct(s, m) == \A j, k \in 1 .. m : s[j] = s[k] => j = k

\* A chain has no more nodes than there are, so the walk comes to its end.
LEMMA WalkChain ==
  ASSUME ListTypes, NEW p \in Procs, NEW s, NEW base,
         Chain(fifo_pgn[p], pg_next, pgn, alive, order[p], s, base),
         Distinct(s, Len(order[p]))
  PROVE  /\ Len(order[p]) \in Steps
         /\ \A k \in Steps : Walk(p)[k] = IF k < Len(order[p]) THEN s[Len(order[p]) - k] ELSE base
<1> DEFINE m == Len(order[p])
           w[k \in Steps] ==
             IF k = 0 THEN fifo_pgn[p] ELSE IF w[k - 1] \in alive THEN pg_next[w[k - 1]] ELSE w[k - 1]
<1>1. Walk(p) = w
  BY DEF Walk
<1>2. IsWalk(Descent(m, s, base), p)
  BY DescentIsWalk
<1>3. w = CHOOSE f : IsWalk(f, p)
  BY Zenon DEF IsWalk
<1> HIDE DEF w
<1>4. w = Descent(m, s, base)
  BY <1>2, <1>3, WalkUnique, Zenon
<1>5. m \in Nat /\ m <= Cardinality(Nodes)
  <2> DEFINE u == [k \in 1 .. m |-> s[k]]
  <2>1. m \in Nat /\ u \in Injection(1 .. m, Nodes)
    <3>1. m \in Nat
      BY DEF ListTypes
    <3>2. \A k \in 1 .. m : u[k] = s[k] /\ s[k] \in Nodes
      BY DEF Chain, ListTypes
    <3>3. u \in [1 .. m -> Nodes]
      BY <3>2
    <3>4. \A j, k \in 1 .. m : u[j] = u[k] => j = k
      BY <3>2 DEF Distinct
    <3> HIDE DEF u
    <3>5. QED
      BY <3>1, <3>3, <3>4 DEF Injection, IsInjective
  <2>2. Cardinality(1 .. m) <= Cardinality(Nodes)
    BY <2>1, PagingAssumption, FS_Injection
  <2>3. Cardinality(1 .. m) = m
    <3>1. 1 \in Int /\ m \in Int
      BY <2>1
    <3>2. Cardinality(1 .. m) = IF 1 > m THEN 0 ELSE m - 1 + 1
      BY <3>1, FS_Interval, Zenon
    <3>3. QED
      BY <2>1, <3>2
  <2>4. QED
    BY <2>1, <2>2, <2>3
<1>6. Cardinality(Nodes) \in Nat /\ Steps = 0 .. Cardinality(Nodes)
  BY PagingAssumption, FS_CardinalityType DEF Steps
<1>7. QED
  BY <1>1, <1>4, <1>5, <1>6 DEF Descent

\* find_victim_page finds the last node, if the list ends with NULL.
LEMMA OldestIsLast ==
  ASSUME ListTypes, NEW p \in Procs, NEW s, NEW base,
         Chain(fifo_pgn[p], pg_next, pgn, alive, order[p], s, base),
         Distinct(s, Len(order[p])),
         ~Nowhere(p), fifo_pgn[p] # NULL
  PROVE  base = NULL /\ Len(order[p]) >= 1 /\ Oldest(p) = s[1]
<1> DEFINE m == Len(order[p])
<1>1. /\ m \in Nat /\ m \in Steps /\ NULL \notin alive /\ Wild \notin alive
      /\ \A k \in Steps : Walk(p)[k] = IF k < m THEN s[m - k] ELSE base
      /\ \A k \in 1 .. m : s[k] \in alive /\ pg_next[s[k]] = IF k = 1 THEN base ELSE s[k - 1]
      /\ base \in {NULL, Wild} /\ fifo_pgn[p] = IF m = 0 THEN base ELSE s[m]
  <2>1. m \in Nat /\ NULL \notin alive /\ Wild \notin alive
    BY PagingAssumption DEF ListTypes
  <2>2. m \in Steps /\ \A k \in Steps : Walk(p)[k] = IF k < m THEN s[m - k] ELSE base
    BY WalkChain
  <2>3. QED
    BY <2>1, <2>2 DEF Chain
<1> HIDE DEF m
<1>2. base = NULL
  <2>1. Walk(p)[m] = base
    BY <1>1
  <2>2. QED
    BY <1>1, <2>1 DEF Nowhere
<1>3. m >= 1
  BY <1>1, <1>2
<1> DEFINE Met == {Walk(p)[k] : k \in Steps} \cap alive
<1>4. s[1] \in Met /\ pg_next[s[1]] = NULL
  <2>1. 1 \in 1 .. m /\ m - 1 \in Steps /\ m - (m - 1) = 1 /\ m - 1 < m
    <3>1. Cardinality(Nodes) \in Nat
      BY PagingAssumption, FS_CardinalityType
    <3>2. QED
      BY <1>1, <1>3, <3>1 DEF Steps
  <2>2. Walk(p)[m - 1] = s[1]
    BY <1>1, <2>1
  <2>3. QED
    BY <1>1, <1>2, <2>1, <2>2
<1>5. ASSUME NEW n \in Met, pg_next[n] = NULL PROVE n = s[1]
  <2>1. PICK k \in Steps : n = Walk(p)[k]
    OBVIOUS
  <2>2. k < m /\ n = s[m - k]
    BY <1>1, <2>1
  <2>3. m - k \in 1 .. m
    <3>1. k \in Nat
      BY PagingAssumption, FS_CardinalityType DEF Steps
    <3>2. QED
      BY <1>1, <2>2, <3>1
  <2>4. m - k = 1
    <3> SUFFICES ASSUME m - k # 1 PROVE FALSE
      OBVIOUS
    <3>1. m - k - 1 \in 1 .. m
      BY <1>1, <2>3
    <3>2. s[m - k - 1] = NULL
      BY <1>1, <1>5, <2>2, <2>3
    <3>3. QED
      BY <1>1, <3>1, <3>2
  <2>5. QED
    BY <2>2, <2>4
<1>6. Oldest(p) = CHOOSE n \in Met : pg_next[n] = NULL
  BY DEF Oldest
<1> HIDE DEF Met
<1>7. Oldest(p) \in Met /\ pg_next[Oldest(p)] = NULL
  BY <1>4, <1>6
<1>8. QED
  BY <1>2, <1>3, <1>5, <1>7 DEF m

\* At the start every list is empty.
LEMMA InitChains == Init => ChainInv
<1> SUFFICES ASSUME Init PROVE ChainInv
  OBVIOUS
<1>1. \A p \in Procs : fifo_pgn[p] \in {NULL, Wild} /\ order[p] = <<>> /\ Len(order[p]) = 0
  BY DEF Init
<1>2. \A p \in Procs : Chain(fifo_pgn[p], pg_next, pgn, alive, order[p], fifo_pgn[p], fifo_pgn[p])
  BY <1>1 DEF Chain
<1>3. Apart(order, fifo_pgn)
  BY <1>1 DEF Apart
<1>4. QED
  BY <1>2, <1>3 DEF ChainInv

\* A page put in front of the list as it is.
LEMMA FrontChains ==
  ASSUME ListTypes, ChainInv, ~dangling, NEW p \in Procs, NEW g \in Pages,
         enlist_pgn_node(p, g, fifo_pgn[p], alive), ~dangling', Enlisted(p, g, order[p])
  PROVE  ChainInv'
<1>1. PICK s, base :
        /\ \A q \in Procs : Chain(fifo_pgn[q], pg_next, pgn, alive, order[q], s[q], base[q])
        /\ Apart(order, s)
  BY DEF ChainInv
<1>2. [order EXCEPT ![p] = order[p]] = order /\ order[p] \in Seq(Pages) /\ alive \in SUBSET alive
  BY DEF ListTypes
<1>3. QED
  BY <1>1, <1>2, EnlistChains

\* Every step keeps the lists.
LEMMA NextChains == TypeInv /\ ChainInv /\ [Next]_vars => ChainInv'
<1> SUFFICES ASSUME TypeInv, ChainInv, [Next]_vars, ~dangling' PROVE ChainInv'
  BY DEF ChainInv
<1>0. ListTypes /\ PageTypes
  BY DEF TypeInv
<1>1. ASSUME UNCHANGED <<fifoVars, dangling>> PROVE ChainInv'
  BY <1>1 DEF ChainInv, fifoVars, Apart
<1>2. CASE UNCHANGED vars
  BY <1>1, <1>2 DEF vars
<1>3. ASSUME NEW how \in {"undefined", "loop"}, Stop(how) PROVE ChainInv'
  BY <1>1, <1>3 DEF Stop
<1>4. ASSUME NEW p \in Procs, NEW n \in 1 .. NPages, pgalloc(p, n), ~Stop("undefined") PROVE ChainInv'
  <2>1. /\ vm_end[p] + n <= NPages /\ UNCHANGED dangling
        /\ \/ UNCHANGED fifoVars
           \/ /\ enlist_pgn_node(p, FirstPage(p), fifo_pgn[p], alive)
              /\ Enlisted(p, FirstPage(p), order[p])
    BY <1>4, Zenon DEF pgalloc
  <2>2. FirstPage(p) \in Pages
    BY <1>0, <2>1, Constants DEF PageTypes, FirstPage, Pages
  <2>3. QED
    BY <1>0, <1>1, <2>1, <2>2, FrontChains
<1>5. ASSUME NEW p \in Procs, NEW g \in Pages, NEW ins \in Instructions, hit(p, g, ins) PROVE ChainInv'
  BY <1>1, <1>5, Zenon DEF hit, Stop
<1>6. ASSUME NEW p \in Procs, NEW g \in Pages, NEW ins \in Instructions, fault_load(p, g, ins)
      PROVE ChainInv'
  BY <1>0, <1>6, FrontChains DEF fault_load
<1>7. ASSUME NEW p \in Procs, NEW g \in Pages, NEW ins \in Instructions, fault_empty(p, g, ins)
      PROVE ChainInv'
  BY <1>0, <1>7, FrontChains DEF fault_empty, swap_out_in
<1>8. ASSUME NEW p \in Procs, NEW g \in Pages, NEW ins \in Instructions, fault_evict(p, g, ins)
      PROVE ChainInv'
  <2> DEFINE n == Oldest(p)
             older == SubSeq(order[p], 1, Len(order[p]) - 1)
  <2>1. /\ fifo_pgn[p] # NULL /\ ~Nowhere(p) /\ ~dangling /\ fifo_pgn[p] = n
        /\ enlist_pgn_node(p, g, HeadAfter(p, n), alive \ {n}) /\ Enlisted(p, g, older)
    BY <1>8 DEF fault_evict, swap_out_in
  <2>2. PICK s, base :
          /\ \A q \in Procs : Chain(fifo_pgn[q], pg_next, pgn, alive, order[q], s[q], base[q])
          /\ Apart(order, s)
    BY <2>1 DEF ChainInv
  <2>3. Distinct(s[p], Len(order[p]))
    BY <2>2 DEF Apart, Distinct
  <2>4. base[p] = NULL /\ Len(order[p]) >= 1 /\ n = s[p][1] /\ order[p] \in Seq(Pages)
    <3>1. base[p] = NULL /\ Len(order[p]) >= 1 /\ n = s[p][1]
      BY <1>0, <2>1, <2>2, <2>3, OldestIsLast
    <3>2. QED
      BY <1>0, <3>1 DEF ListTypes
  <2>5. HeadAfter(p, n) = NULL
    BY <2>1 DEF HeadAfter
  <2> HIDE DEF n
  <2>6. Len(order[p]) = 1
    <3>1. Len(order[p]) \in 1 .. Len(order[p]) /\ 1 \in 1 .. Len(order[p])
      BY <2>4
    <3>2. fifo_pgn[p] = s[p][Len(order[p])]
      BY <2>2, <2>4 DEF Chain
    <3>3. QED
      BY <2>1, <2>3, <2>4, <3>1, <3>2 DEF Distinct
  <2>7. older = <<>> /\ Len(<<>>) = 0 /\ <<>> \in Seq(Pages)
    <3>1. older = SubSeq(order[p], 1, 0)
      BY <2>6
    <3>2. QED
      BY <3>1, SubSeqEmpty
  <2>8. Chain(NULL, pg_next, pgn, alive \ {n}, <<>>, s[p], base[p])
    BY <2>4, <2>7 DEF Chain
  <2>9. ASSUME NEW q \in Procs \ {p}
        PROVE  Chain(fifo_pgn[q], pg_next, pgn, alive \ {n}, order[q], s[q], base[q])
    <3>1. \A k \in 1 .. Len(order[q]) : s[q][k] # n
      <4>1. 1 \in 1 .. Len(order[p])
        BY <2>6
      <4>2. QED
        BY <2>2, <2>4, <4>1 DEF Apart
    <3>2. QED
      BY <2>2, <3>1 DEF Chain
  <2>10. Apart([order EXCEPT ![p] = <<>>], s)
    <3> DEFINE o == [order EXCEPT ![p] = <<>>]
    <3>1. \A q \in Procs : Len(o[q]) = 0 \/ o[q] = order[q]
      BY <1>0, <2>7 DEF ListTypes
    <3>2. \A q \in Procs : 1 .. Len(o[q]) \subseteq 1 .. Len(order[q])
      BY <3>1
    <3> HIDE DEF o
    <3>3. QED
      BY <2>2, <3>2 DEF Apart, o
  <2> HIDE DEF older
  <2>11. alive \ {n} \in SUBSET alive
    OBVIOUS
  <2>12. QED
    BY <1>0, <2>1, <2>5, <2>7, <2>8, <2>9, <2>10, <2>11, EnlistChains
<1>9. QED
  BY <1>2, <1>3, <1>4, <1>5, <1>6, <1>7, <1>8, StepCases

\* What a list is made of shows in the walk that find_victim_page does.
LEMMA ChainsAreFifo == TypeInv /\ ChainInv => FifoUntilEvicted
<1> SUFFICES ASSUME TypeInv, ChainInv, ~dangling PROVE FifoUntilEvicted
  BY DEF FifoUntilEvicted
<1>0. ListTypes
  BY DEF TypeInv
<1>1. PICK s, base :
        /\ \A p \in Procs : Chain(fifo_pgn[p], pg_next, pgn, alive, order[p], s[p], base[p])
        /\ Apart(order, s)
  BY DEF ChainInv
<1>2. ASSUME NEW p \in Procs
      PROVE  /\ Len(order[p]) \in Steps /\ Len(order[p]) \in Nat /\ base[p] \in {NULL, Wild}
             /\ \A k \in Steps :
                  Walk(p)[k] = IF k < Len(order[p]) THEN s[p][Len(order[p]) - k] ELSE base[p]
  <2>1. Distinct(s[p], Len(order[p]))
    BY <1>1 DEF Apart, Distinct
  <2>2. Chain(fifo_pgn[p], pg_next, pgn, alive, order[p], s[p], base[p])
    BY <1>1
  <2>3. Len(order[p]) \in Nat /\ base[p] \in {NULL, Wild}
    BY <1>0, <2>2 DEF ListTypes, Chain
  <2>4. QED
    BY <1>0, <2>1, <2>2, <2>3, WalkChain
<1>3. \A k \in Steps : k \in Nat
  BY PagingAssumption, FS_CardinalityType DEF Steps
<1>4. ASSUME NEW p \in Procs, ~Nowhere(p), NEW k \in 1 .. Len(order[p])
      PROVE  /\ Walk(p)[k - 1] \in alive /\ pgn[Walk(p)[k - 1]] = order[p][k]
             /\ Walk(p)[Len(order[p])] = NULL
  <2> DEFINE m == Len(order[p])
             j == m - (k - 1)
  <2>1. m \in Nat /\ m \in Steps /\ k - 1 \in Steps /\ k - 1 < m /\ j \in 1 .. m /\ m + 1 - j = k
    <3>1. m \in Nat /\ m \in Steps
      BY <1>2
    <3>2. Cardinality(Nodes) \in Nat
      BY PagingAssumption, FS_CardinalityType
    <3>3. QED
      BY <1>4, <3>1, <3>2 DEF Steps
  <2>2. Walk(p)[k - 1] = s[p][j]
    BY <1>2, <2>1
  <2>3. Walk(p)[m] = base[p]
    BY <1>2, <2>1
  <2>4. s[p][j] \in alive /\ pgn[s[p][j]] = order[p][m + 1 - j]
    BY <1>1, <2>1 DEF Chain
  <2>5. Walk(p)[m] \in alive \cup {NULL}
    BY <1>4, <2>1 DEF Nowhere
  <2>6. base[p] = NULL
    <3>1. Wild \notin alive
      BY <1>0, PagingAssumption DEF ListTypes
    <3>2. QED
      BY <1>2, <2>3, <2>5, <3>1
  <2>7. QED
    BY <2>1, <2>2, <2>3, <2>4, <2>6
<1>5. ASSUME NEW p \in Procs, NEW k \in Steps, Walk(p)[k] \in Nodes
      PROVE  \E j \in 1 .. Len(order[p]) : Walk(p)[k] = s[p][j]
  <2>1. k < Len(order[p]) /\ Walk(p)[k] = s[p][Len(order[p]) - k]
    BY <1>2, <1>5, PagingAssumption
  <2>2. Len(order[p]) - k \in 1 .. Len(order[p])
    BY <1>2, <1>3, <2>1
  <2>3. QED
    BY <2>1, <2>2
<1>6. ASSUME NEW p \in Procs, NEW q \in Procs, p # q
      PROVE  {Walk(p)[k] : k \in Steps} \cap {Walk(q)[k] : k \in Steps} \cap Nodes = {}
  <2> SUFFICES ASSUME NEW j \in Steps, NEW k \in Steps, Walk(p)[j] = Walk(q)[k], Walk(p)[j] \in Nodes
               PROVE  FALSE
    OBVIOUS
  <2>1. PICK a \in 1 .. Len(order[p]) : Walk(p)[j] = s[p][a]
    BY <1>5
  <2>2. PICK b \in 1 .. Len(order[q]) : Walk(q)[k] = s[q][b]
    BY <1>5
  <2>3. QED
    BY <1>1, <1>6, <2>1, <2>2 DEF Apart
<1>7. QED
  BY <1>4, <1>6 DEF FifoUntilEvicted

\* Until find_victim_page frees a node that another one points to, the list of
\* every process is its pages from the newest to the oldest, on nodes of its
\* own, whatever the other processes do and whichever free node malloc returns.
THEOREM FifoKept == Spec => []FifoUntilEvicted
  BY InitTypes, NextTypes, InitChains, NextChains, ChainsAreFifo, PTL DEF Spec
=============================================================================
