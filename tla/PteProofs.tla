------------------------------ MODULE PteProofs ------------------------------
(***************************************************************************)
(* What the setters of a page table entry store, for every word.           *)
(***************************************************************************)
EXTENDS Pte, TLAPS

\* What SETVAL stores in a field is what GETVAL reads from it, cut to the
\* width of the field.
LEMMA FieldReadBack ==
  ASSUME NEW v \in SUBSET Bits, NEW x \in SUBSET Bits, NEW h \in Nat, NEW l \in Nat
  PROVE  GETVAL(SETVAL(v, x, GENMASK(h, l), l), GENMASK(h, l), l) = x \cap 0 .. h - l
<1> DEFINE w == SETVAL(v, x, GENMASK(h, l), l)
<1>1. w \cap GENMASK(h, l) = Shl(x, l) \cap l .. h
  BY DEF SETVAL, GENMASK
<1>2. ASSUME NEW b PROVE b \in Shr(Shl(x, l) \cap l .. h, l) <=> b \in x \cap 0 .. h - l
  <2>1. \A c \in x : c \in Int
    BY DEF Bits
  <2>2. ASSUME b \in x \cap 0 .. h - l PROVE b \in Shr(Shl(x, l) \cap l .. h, l)
    <3>1. b + l \in Shl(x, l) \cap l .. h /\ b + l >= l /\ (b + l) - l = b
      BY <2>1, <2>2 DEF Shl
    <3> QED BY <3>1 DEF Shr
  <2>3. ASSUME b \in Shr(Shl(x, l) \cap l .. h, l) PROVE b \in x \cap 0 .. h - l
    <3>1. PICK y \in Shl(x, l) \cap l .. h : b = y - l
      BY <2>3 DEF Shr
    <3>2. PICK c \in x : y = c + l
      BY <3>1 DEF Shl
    <3> QED BY <2>1, <3>1, <3>2
  <2> QED BY <2>2, <2>3
<1> QED BY <1>1, <1>2 DEF GETVAL

\* SETVAL leaves the bits outside its mask alone.
LEMMA OtherBits ==
  ASSUME NEW v, NEW x, NEW mask, NEW k
  PROVE  \A b : b \notin mask => (b \in SETVAL(v, x, mask, k) <=> b \in v)
BY DEF SETVAL

\* SETVAL stays within the word if its mask does.
LEMMA WithinWord ==
  ASSUME NEW v \in SUBSET Bits, NEW x, NEW mask \in SUBSET Bits, NEW k
  PROVE  SETVAL(v, x, mask, k) \in SUBSET Bits
BY DEF SETVAL

\* The fields lie within the word and apart from the state bits.
LEMMA MasksFit ==
  /\ FPN_MASK \in SUBSET Bits /\ SWPTYP_MASK \in SUBSET Bits /\ SWPOFF_MASK \in SUBSET Bits
  /\ \A b \in {30, 31} : b \notin FPN_MASK /\ b \notin SWPTYP_MASK /\ b \notin SWPOFF_MASK
BY DEF FPN_MASK, SWPTYP_MASK, SWPOFF_MASK, GENMASK, Bits

\* What FrameWord stores, whatever v was, and what it leaves alone.
LEMMA FrameWordFields ==
  ASSUME NEW v \in SUBSET Bits, NEW f \in SUBSET Bits
  PROVE  /\ FrameWord(v, f) \subseteq Bits
         /\ PRESENT \subseteq FrameWord(v, f) /\ SWAPPED \cap FrameWord(v, f) = {}
         /\ GETVAL(FrameWord(v, f), FPN_MASK, 0) = f \cap 0 .. 12
         /\ \A b : b \notin 0 .. 12 \cup {30, 31} => (b \in FrameWord(v, f) <=> b \in v)
<1> DEFINE u == CLRBIT(SETBIT(v, PRESENT), SWAPPED)
<1>1. u \in SUBSET Bits /\ 31 \in u /\ 30 \notin u
  BY DEF CLRBIT, SETBIT, PRESENT, SWAPPED, Bits
<1>2. \A b : b \notin {30, 31} => (b \in u <=> b \in v)
  BY DEF CLRBIT, SETBIT, PRESENT, SWAPPED
<1> HIDE DEF u
<1> DEFINE w == SETVAL(u, f, FPN_MASK, 0)
<1>3. w = FrameWord(v, f)
  BY DEF u, FrameWord
<1>4. w \subseteq Bits
  BY <1>1, WithinWord, MasksFit
<1>5. \A b : b \notin 0 .. 12 => (b \in w <=> b \in u)
  BY OtherBits DEF FPN_MASK, GENMASK
<1>6. GETVAL(w, FPN_MASK, 0) = f \cap 0 .. 12
  <2>1. GETVAL(w, GENMASK(12, 0), 0) = f \cap 0 .. 12 - 0
    BY FieldReadBack, <1>1 DEF FPN_MASK
  <2> QED BY <2>1 DEF FPN_MASK
<1> HIDE DEF w
<1>7. 31 \in w /\ 30 \notin w
  BY <1>1, <1>5
<1>8. \A b : b \notin 0 .. 12 \cup {30, 31} => (b \in w <=> b \in v)
  BY <1>2, <1>5
<1> QED BY <1>3, <1>4, <1>6, <1>7, <1>8 DEF PRESENT, SWAPPED

\* Word w is an entry of a page swapped to offset o of device t.
IsSwapped(w, t, o) == /\ w \subseteq Bits /\ PRESENT \cup SWAPPED \subseteq w
                      /\ GETVAL(w, SWPTYP_MASK, 0) = t \cap 0 .. 4
                      /\ GETVAL(w, SWPOFF_MASK, 5) = o \cap 0 .. 20

\* The two fields of a swapped entry: storing the offset leaves the type alone.
LEMMA SwapWordFields ==
  ASSUME NEW v \in SUBSET Bits, NEW t \in SUBSET Bits, NEW o \in SUBSET Bits
  PROVE  IsSwapped(SwapWord(v, t, o), t, o)
<1> DEFINE u == SETBIT(SETBIT(v, PRESENT), SWAPPED)
           w == SETVAL(u, t, SWPTYP_MASK, 0)
           z == SETVAL(w, o, SWPOFF_MASK, 5)
<1>1. u \in SUBSET Bits /\ 31 \in u /\ 30 \in u
  BY DEF SETBIT, PRESENT, SWAPPED, Bits
<1> HIDE DEF u
<1>2. w \in SUBSET Bits /\ 31 \in w /\ 30 \in w
  BY <1>1, WithinWord, OtherBits, MasksFit
<1>3. GETVAL(w, SWPTYP_MASK, 0) = t \cap 0 .. 4
  <2>1. GETVAL(w, GENMASK(4, 0), 0) = t \cap 0 .. 4 - 0
    BY FieldReadBack, <1>1 DEF SWPTYP_MASK
  <2> QED BY <2>1 DEF SWPTYP_MASK
<1> HIDE DEF w
<1>4. z \in SUBSET Bits /\ 31 \in z /\ 30 \in z
  BY <1>2, WithinWord, OtherBits, MasksFit
<1>5. z \cap SWPTYP_MASK = w \cap SWPTYP_MASK
  BY DEF SETVAL, SWPOFF_MASK, SWPTYP_MASK, GENMASK
<1>6. GETVAL(z, SWPOFF_MASK, 5) = o \cap 0 .. 20
  <2>1. GETVAL(z, GENMASK(25, 5), 5) = o \cap 0 .. 25 - 5
    BY FieldReadBack, <1>2 DEF SWPOFF_MASK
  <2>2. 25 - 5 = 20
    OBVIOUS
  <2> QED BY <2>1, <2>2 DEF SWPOFF_MASK
<1>7. z = SwapWord(v, t, o)
  BY DEF SwapWord, u, w
<1> HIDE DEF z
<1>8. GETVAL(z, SWPTYP_MASK, 0) = t \cap 0 .. 4
  BY <1>3, <1>5 DEF GETVAL
<1> QED BY <1>4, <1>6, <1>7, <1>8 DEF IsSwapped, PRESENT, SWAPPED

-----------------------------------------------------------------------------
Inv == TypeOK /\ FrameStored /\ SwapStored

\* A frame number is stored by FrameWord, in the entry as it is or with the dirty
\* bit cleared; a swap location by SwapWord.
LEMMA StepForms ==
  ASSUME TypeOK, [Next]_vars
  PROVE  \/ UNCHANGED vars
         \/ \E v \in SUBSET Bits, f \in SUBSET Bits :
              /\ v \in {pte, pte \ DIRTY}
              /\ pte' = FrameWord(v, f) /\ StoresFpn(f)
         \/ \E v \in SUBSET Bits, t \in SUBSET Bits, o \in SUBSET Bits :
              pte' = SwapWord(v, t, o) /\ StoresSwp(t, o)
<1>1. pte \in SUBSET Bits /\ pte \ DIRTY \in SUBSET Bits
  BY DEF TypeOK
<1>2. CASE UNCHANGED vars
  BY <1>2
<1>3. ASSUME NEW f \in Fpns, pte_set_fpn(f)
      PROVE  f \in SUBSET Bits /\ pte' = FrameWord(pte, f) /\ StoresFpn(f)
  BY <1>3, PteAssumption DEF pte_set_fpn, FrameWord
<1>4. ASSUME NEW t \in SwpTypes, NEW o \in SwpOffs, pte_set_swap(t, o)
      PROVE  /\ t \in SUBSET Bits /\ o \in SUBSET Bits
             /\ pte' = SwapWord(pte, t, o) /\ StoresSwp(t, o)
  BY <1>4, PteAssumption DEF pte_set_swap
<1>5. ASSUME NEW pre \in BOOLEAN, NEW swp \in BOOLEAN, NEW f \in Fpns,
             NEW t \in SwpTypes, NEW o \in SwpOffs, init_pte(pre, swp, f, t, o)
      PROVE  \/ UNCHANGED vars
             \/ f \in SUBSET Bits /\ pte' = FrameWord(pte \ DIRTY, f) /\ StoresFpn(f)
             \/ /\ t \in SUBSET Bits /\ o \in SUBSET Bits
                /\ pte' = SwapWord(pte \ DIRTY, t, o) /\ StoresSwp(t, o)
  <2>1. f \in SUBSET Bits /\ t \in SUBSET Bits /\ o \in SUBSET Bits
    BY PteAssumption
  <2>2. CLRBIT(CLRBIT(SETBIT(pte, PRESENT), SWAPPED), DIRTY)
          = CLRBIT(SETBIT(pte \ DIRTY, PRESENT), SWAPPED)
    BY DEF CLRBIT, SETBIT, PRESENT, SWAPPED, DIRTY
  <2>3. CLRBIT(pte, DIRTY) = pte \ DIRTY
    BY DEF CLRBIT
  <2> QED BY <1>5, <2>1, <2>2, <2>3 DEF init_pte, FrameWord
<1> QED BY <1>1, <1>2, <1>3, <1>4, <1>5 DEF Next

\* The invariant is kept by a step.
LEMMA Inductive ==
  ASSUME Inv, [Next]_vars
  PROVE  Inv'
<1>1. CASE UNCHANGED vars
  BY <1>1 DEF Inv, vars, TypeOK, FrameStored, SwapStored
<1>2. ASSUME NEW v \in SUBSET Bits, NEW f \in SUBSET Bits,
             pte' = FrameWord(v, f), StoresFpn(f)
      PROVE  Inv'
  BY <1>2, FrameWordFields DEF Inv, TypeOK, FrameStored, SwapStored, StoresFpn
<1>3. ASSUME NEW v \in SUBSET Bits, NEW t \in SUBSET Bits, NEW o \in SUBSET Bits,
             pte' = SwapWord(v, t, o), StoresSwp(t, o)
      PROVE  Inv'
  <2>1. kind' = "swp" /\ fpn' = {} /\ swptyp' = t /\ swpoff' = o
    BY <1>3 DEF StoresSwp
  <2>2. IsSwapped(pte', t, o)
    BY <1>3, SwapWordFields
  <2>3. TypeOK'
    BY <2>1, <2>2 DEF TypeOK, IsSwapped
  <2>4. FrameStored'
    BY <2>1 DEF FrameStored
  <2>5. SwapStored'
    BY <2>1, <2>2 DEF SwapStored, IsSwapped
  <2> QED BY <2>3, <2>4, <2>5 DEF Inv
<1> QED BY <1>1, <1>2, <1>3, StepForms DEF Inv

\* The invariant holds in every reachable state.
LEMMA Invariance == Spec => []Inv
<1>1. Init => Inv
  BY PteAssumption DEF Init, Inv, TypeOK, FrameStored, SwapStored
<1> QED BY <1>1, Inductive, PTL DEF Spec

\* Whatever an entry held and whatever the frame number, it reads back from
\* the FPN field and the state bits say "present, not swapped".
THEOREM FramesReadBack == Spec => []FrameStored
BY Invariance, PTL DEF Inv

\* Type and offset of a swap location do not clobber each other.
THEOREM SwapsReadBack == Spec => []SwapStored
BY Invariance, PTL DEF Inv

\* Every word stays within its 32 bits.
THEOREM TypeCorrect == Spec => []TypeOK
BY Invariance, PTL DEF Inv

\* Storing a frame number never disturbs the user number and reserved bits.
THEOREM UserBits == Spec => UserBitsKept
<1> DEFINE A == kind' = "fpn" =>
                  /\ pte' \cap USRNUM_MASK = pte \cap USRNUM_MASK
                  /\ \A b \in {13, 14, 29} : b \in pte' <=> b \in pte
<1>1. ASSUME Inv, [Next]_vars PROVE [A]_vars
  <2>1. ASSUME NEW v \in SUBSET Bits, NEW f \in SUBSET Bits, v \in {pte, pte \ DIRTY},
               pte' = FrameWord(v, f)
        PROVE  A
    <3>1. \A b : b \notin 0 .. 12 \cup {28, 30, 31} => (b \in pte' <=> b \in pte)
      BY <2>1, FrameWordFields DEF DIRTY
    <3>2. 28 \notin USRNUM_MASK /\ \A b \in USRNUM_MASK : b \notin 0 .. 12 \cup {28, 30, 31}
      BY DEF USRNUM_MASK, GENMASK
    <3> QED BY <3>1, <3>2
  <2>2. ASSUME NEW t, NEW o, StoresSwp(t, o) PROVE A
    BY <2>2 DEF StoresSwp
  <2> QED BY <1>1, <2>1, <2>2, StepForms DEF Inv
<1> QED BY <1>1, Invariance, PTL DEF Spec, UserBitsKept
=============================================================================
