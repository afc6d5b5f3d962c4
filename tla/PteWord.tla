------------------------------- MODULE PteWord -------------------------------
(***************************************************************************)
(* include/mm.h, include/bitops.h and the setters of src/mm.c: operators   *)
(* on a page table entry.  A 32-bit word is the set of the positions of    *)
(* its 1 bits: a mask is a set, | is union, & is intersection, & ~mask is  *)
(* difference and a shift moves every position.                            *)
(***************************************************************************)
EXTENDS Integers

Bits == 0 .. 31

\* << and >> of C.  What << pushes past bit 31 never survives a mask.
Shl(v, k) == {b + k : b \in v}
Shr(v, k) == {b - k : b \in {x \in v : x >= k}}

GENMASK(h, l) == l .. h

PRESENT == {31}
SWAPPED == {30}
DIRTY   == {28}
FPN_MASK    == GENMASK(12, 0)
SWPTYP_MASK == GENMASK(4, 0)
SWPOFF_MASK == GENMASK(25, 5)
USRNUM_MASK == GENMASK(27, 15)

SETBIT(v, mask) == v \cup mask

\* Bug variant: the bit is not cleared.
CLRBIT_Keep(v, mask) == v

CLRBIT(v, mask) == v \ mask

\* Bug variant: the value is not cut to the mask.
SETVAL_NoMask(v, value, mask, offst) == (v \ mask) \cup Shl(value, offst)

\* Bug variant: the old value is not cleared.
SETVAL_NoClear(v, value, mask, offst) == v \cup (Shl(value, offst) \cap mask)

SETVAL(v, value, mask, offst) == (v \ mask) \cup (Shl(value, offst) \cap mask)

GETVAL(v, mask, offst) == Shr(v \cap mask, offst)

\* PAGING_FPN: the bits NBITS(PAGING_PAGESZ) = 8 to NBITS(PAGING_MEMRAMSZ) - 1 = 9,
\* where a physical address has its frame number; an entry has it in FPN_MASK.
PAGING_FPN(v) == GETVAL(v, GENMASK(9, 8), 8)

\* PAGING_SWP: the bits 8 to NBITS(PAGING_MEMSWPSZ) - 1 = 13, shifted by 5; an
\* entry has its swap offset in SWPOFF_MASK, shifted by 5.
PAGING_SWP(v) == Shr(v \cap GENMASK(13, 8), 5)

PAGING_PAGE_PRESENT(v) == PRESENT \cap v # {}

\* What pte_set_fpn makes of an entry v.
FrameWord(v, f) == SETVAL(CLRBIT(SETBIT(v, PRESENT), SWAPPED), f, FPN_MASK, 0)

\* What pte_set_swap makes of an entry v.
SwapWord(v, t, o) ==
  SETVAL(SETVAL(SETBIT(SETBIT(v, PRESENT), SWAPPED), t, SWPTYP_MASK, 0), o, SWPOFF_MASK, 5)
=============================================================================
