--------------------------------- MODULE Pte ---------------------------------
(***************************************************************************)
(* The setters of src/mm.c: one page table entry, its contents the words   *)
(* of PteWord, under any sequence of calls.                                *)
(***************************************************************************)
EXTENDS PteWord

CONSTANTS Fpns, SwpTypes, SwpOffs,  \* the arguments the setters are called with
          Garbage                   \* what malloc may leave in an entry

ASSUME PteAssumption == /\ Fpns \subseteq SUBSET Bits /\ SwpTypes \subseteq SUBSET Bits
                        /\ SwpOffs \subseteq SUBSET Bits /\ Garbage \subseteq SUBSET Bits

VARIABLES pte,
          kind,                \* what was stored last: "none", "fpn" or "swp",
          fpn, swptyp, swpoff  \* and the arguments of the call that stored it

vars == <<pte, kind, fpn, swptyp, swpoff>>

TypeOK == /\ pte \subseteq Bits /\ kind \in {"none", "fpn", "swp"}
          /\ fpn \subseteq Bits /\ swptyp \subseteq Bits /\ swpoff \subseteq Bits

-----------------------------------------------------------------------------
Init == /\ pte \in Garbage /\ kind = "none"
        /\ fpn = {} /\ swptyp = {} /\ swpoff = {}

StoresFpn(f) == kind' = "fpn" /\ fpn' = f /\ swptyp' = {} /\ swpoff' = {}
StoresSwp(t, o) == kind' = "swp" /\ fpn' = {} /\ swptyp' = t /\ swpoff' = o

pte_set_fpn(f) == pte' = FrameWord(pte, f) /\ StoresFpn(f)

pte_set_swap(t, o) == pte' = SwapWord(pte, t, o) /\ StoresSwp(t, o)

\* init_pte: nothing is stored if the page is not to be present, or is to be
\* on line in frame 0.
init_pte(pre, swp, f, t, o) ==
  \/ /\ ~pre \/ (~swp /\ f = {})
     /\ UNCHANGED vars
  \/ /\ pre /\ ~swp /\ f # {}
     /\ pte' = SETVAL(CLRBIT(CLRBIT(SETBIT(pte, PRESENT), SWAPPED), DIRTY), f, FPN_MASK, 0)
     /\ StoresFpn(f)
  \/ /\ pre /\ swp
     /\ pte' = SwapWord(CLRBIT(pte, DIRTY), t, o)
     /\ StoresSwp(t, o)

Next == \/ \E f \in Fpns : pte_set_fpn(f)
        \/ \E t \in SwpTypes, o \in SwpOffs : pte_set_swap(t, o)
        \/ \E pre, swp \in BOOLEAN, f \in Fpns, t \in SwpTypes, o \in SwpOffs :
             init_pte(pre, swp, f, t, o)

Spec == Init /\ [][Next]_vars

-----------------------------------------------------------------------------
(* Properties                                                               *)

\* After a frame number was stored, whatever the entry held before, the entry
\* says "present, not swapped" and its FPN field is the 13 low bits stored.
FrameStored ==
  kind = "fpn" => /\ PRESENT \subseteq pte /\ SWAPPED \cap pte = {}
                  /\ GETVAL(pte, FPN_MASK, 0) = fpn \cap 0 .. 12

\* After a swap location was stored, the entry says "swapped", and type and
\* offset, which share the bits of the FPN field, both read back.
SwapStored ==
  kind = "swp" => /\ PRESENT \cup SWAPPED \subseteq pte
                  /\ GETVAL(pte, SWPTYP_MASK, 0) = swptyp \cap 0 .. 4
                  /\ GETVAL(pte, SWPOFF_MASK, 5) = swpoff \cap 0 .. 20

\* Storing a frame number, however large, does not disturb the user number or
\* any other bit outside its field and the state bits.
UserBitsKept ==
  [][kind' = "fpn" =>
       /\ pte' \cap USRNUM_MASK = pte \cap USRNUM_MASK
       /\ \A b \in {13, 14, 29} : b \in pte' <=> b \in pte]_vars
=============================================================================
