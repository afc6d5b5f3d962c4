---------------------------- MODULE StorageProofs ----------------------------
(***************************************************************************)
(* The copy of a page is exact unless another CPU writes to one of its two *)
(* frames, for any number of CPUs, any page size and any choice of frames, *)
(* on devices that allow random access.                                    *)
(***************************************************************************)
EXTENDS Storage, TLAPS

\* Frames do not overlap.
LEMMA AddrInjective ==
  ASSUME NEW f \in Frames, NEW g \in Frames, NEW j \in Cells, NEW k \in Cells,
         Addr(f, j) = Addr(g, k)
  PROVE  f = g /\ j = k
<1>1. /\ PAGESZ \in Nat /\ PAGESZ > 0 /\ f \in Int /\ g \in Int
      /\ j \in 0 .. PAGESZ - 1 /\ k \in 0 .. PAGESZ - 1
  BY StorageAssumption DEF Frames, Cells
<1>2. f * PAGESZ + j = g * PAGESZ + k
  BY DEF Addr
<1>3. ASSUME NEW a \in Int, NEW b \in Int, a < b PROVE a * PAGESZ + PAGESZ <= b * PAGESZ
  <2>1. PICK d \in Nat : b = a + 1 + d
    <3>1. b - a - 1 \in Nat /\ b = a + 1 + (b - a - 1)
      BY <1>3
    <3> QED BY <3>1
  <2>2. b * PAGESZ = a * PAGESZ + PAGESZ + d * PAGESZ
    BY <1>1, <2>1
  <2>3. d * PAGESZ \in Nat
    BY <1>1
  <2>4. a * PAGESZ \in Int
    BY <1>1
  <2> QED BY <1>1, <2>2, <2>3, <2>4
<1>4. f * PAGESZ \in Int /\ g * PAGESZ \in Int
  BY <1>1
<1>5. ~(f < g)
  BY <1>1, <1>2, <1>3, <1>4
<1>6. ~(g < f)
  BY <1>1, <1>2, <1>3, <1>4
<1>7. f = g
  BY <1>1, <1>5, <1>6
<1> QED BY <1>1, <1>2, <1>4, <1>7

\* A cell of a frame is an address of the device.
LEMMA AddrInDevice ==
  ASSUME NEW f \in Frames, NEW k \in Cells
  PROVE  Addr(f, k) \in Addrs
<1> DEFINE q == MaxSz \div PAGESZ
<1>1. PAGESZ \in Nat /\ PAGESZ > 0 /\ MaxSz \in Nat /\ k \in 0 .. PAGESZ - 1
  BY StorageAssumption DEF Cells
<1>2. q \in Int /\ q * PAGESZ <= MaxSz
  BY <1>1
<1>3. f \in Nat /\ f <= q - 1
  BY <1>2 DEF Frames
<1> HIDE DEF q
<1>4. PICK d \in Nat : q = f + 1 + d
  <2>1. q - f - 1 \in Nat /\ q = f + 1 + (q - f - 1)
    BY <1>2, <1>3
  <2> QED BY <2>1
<1>5. q * PAGESZ = f * PAGESZ + PAGESZ + d * PAGESZ
  BY <1>1, <1>3, <1>4
<1>6. d * PAGESZ \in Nat /\ f * PAGESZ \in Nat
  BY <1>1, <1>3
<1>7. f * PAGESZ + k \in 0 .. MaxSz - 1
  BY <1>1, <1>2, <1>5, <1>6
<1> QED BY <1>7 DEF Addr, Addrs

\* The frames of a copy, and its two devices.
LEMMA FrameTyped ==
  ASSUME TypeOK, NEW c \in CPUs, NEW d \in Devices
  PROVE  fpn[c][d] \in Frames /\ Other(d) \in Devices /\ Other(d) # d
BY DEF TypeOK, Other, Devices

\* What the local variables are outside the call.
LEMMA BlankTyped == /\ Blank \in Bytes /\ NoPage \in [Cells -> Bytes]
                    /\ NoFrames \in [Devices -> Frames]
<1>1. Blank \in Bytes
  BY StorageAssumption DEF Blank
<1>2. 0 \in Frames
  <2>1. PAGESZ \in Nat \ {0} /\ MaxSz \in Nat /\ MaxSz >= PAGESZ
    BY StorageAssumption
  <2>2. MaxSz \div PAGESZ \in Nat /\ MaxSz \div PAGESZ >= 1
    BY <2>1
  <2> QED BY <2>2 DEF Frames
<1> QED BY <1>1, <1>2 DEF NoPage, NoFrames

-----------------------------------------------------------------------------
\* Every device allows random access, as main initializes them.
RandomAccess == \A d \in Devices : rdmflg[d]

\* A write to a frame changes one cell of it, and no other frame.
LEMMA WriteOneCell ==
  ASSUME RandomAccess, TypeOK,
         NEW d \in Devices, NEW f \in Frames, NEW k \in Cells, NEW b \in Bytes,
         MEMPHY_write(d, Addr(f, k), b)
  PROVE  /\ storage' \in [Devices -> [Addrs -> Bytes]]
         /\ \A x \in Devices, g \in Frames, j \in Cells :
              Contents(storage', x, g)[j] =
                IF x = d /\ g = f /\ j = k THEN b ELSE Contents(storage, x, g)[j]
<1> DEFINE a == Addr(f, k)
<1>1. a \in Addrs
  BY AddrInDevice
<1>2. storage' = [storage EXCEPT ![d][a] = b]
  BY DEF MEMPHY_write, RandomAccess
<1>3. storage \in [Devices -> [Addrs -> Bytes]]
  BY DEF TypeOK
<1> HIDE DEF a
<1>4. storage' \in [Devices -> [Addrs -> Bytes]]
  BY <1>1, <1>2, <1>3
<1>5. \A x \in Devices, y \in Addrs :
        storage'[x][y] = IF x = d /\ y = a THEN b ELSE storage[x][y]
  BY <1>1, <1>2, <1>3
<1>6. ASSUME NEW x \in Devices, NEW g \in Frames, NEW j \in Cells
      PROVE  Contents(storage', x, g)[j] =
               IF x = d /\ g = f /\ j = k THEN b ELSE Contents(storage, x, g)[j]
  <2> DEFINE y == Addr(g, j)
  <2>1. y \in Addrs
    BY AddrInDevice
  <2>2. Contents(storage', x, g)[j] = storage'[x][y] /\ Contents(storage, x, g)[j] = storage[x][y]
    BY DEF Contents, Addr
  <2>3. y = a <=> g = f /\ j = k
    BY AddrInjective DEF a
  <2> HIDE DEF y
  <2> QED BY <1>5, <2>1, <2>2, <2>3
<1> QED BY <1>4, <1>6

-----------------------------------------------------------------------------
\* The loop counter while the copy is between a read and a write.
InLoop == \A c \in CPUs : pc[c] = "write" => cellidx[c] < PAGESZ

\* What the frame of CPU c's copy on device d has in cell k.
Cell(c, d, k) == Contents(storage, d, fpn[c][d])[k]

\* The three parts of CopyPrefix, cell by cell.
CopyCells(c) ==
  pc[c] # "idle" /\ ~touched[c] =>
    /\ \A k \in Cells : Cell(c, mpsrc[c], k) = page[c][k]
    /\ \A k \in Cells : k < cellidx[c] => Cell(c, Other(mpsrc[c]), k) = page[c][k]
    /\ pc[c] = "write" => data[c] = page[c][cellidx[c]]

IInv == TypeOK /\ InLoop /\ \A c \in CPUs : CopyCells(c)

\* The contents of a frame are PAGESZ bytes.
LEMMA ContentsTyped ==
  ASSUME TypeOK, NEW d \in Devices, NEW f \in Frames
  PROVE  Contents(storage, d, f) \in [Cells -> Bytes]
<1>1. \A k \in Cells : Addr(f, k) \in Addrs
  BY AddrInDevice
<1> QED BY <1>1 DEF Contents, Addr, TypeOK

\* CPU e takes no part in a step.
Stays(e) == /\ pc'[e] = pc[e] /\ mpsrc'[e] = mpsrc[e] /\ cellidx'[e] = cellidx[e]
            /\ data'[e] = data[e] /\ page'[e] = page[e] /\ fpn'[e] = fpn[e]

\* A write of another CPU leaves the cells of a copy alone or touches it.
LEMMA OthersKept ==
  ASSUME RandomAccess, TypeOK, NEW c \in CPUs,
         NEW d \in Devices, NEW f \in Frames, NEW k \in Cells, NEW b \in Bytes,
         MEMPHY_write(d, Addr(f, k), b), Touches(c, d, f),
         NEW e \in CPUs, e # c \/ pc[e] = "idle", CopyCells(e), Stays(e)
  PROVE  CopyCells(e)'
<1> SUFFICES ASSUME pc[e] # "idle", e # c, ~touched'[e] PROVE CopyCells(e)'
  BY DEF CopyCells, Stays
<1>1. ~touched[e] /\ fpn[e][d] # f
  BY DEF Touches
<1>2. mpsrc[e] \in Devices /\ Other(mpsrc[e]) \in Devices
  BY FrameTyped DEF TypeOK
<1>3. ASSUME NEW x \in Devices, NEW j \in Cells PROVE Cell(e, x, j)' = Cell(e, x, j)
  <2>1. fpn[e][x] \in Frames /\ fpn'[e] = fpn[e]
    BY FrameTyped DEF Stays
  <2>2. ~(x = d /\ fpn[e][x] = f)
    BY <1>1
  <2>3. Contents(storage', x, fpn[e][x])[j] = Contents(storage, x, fpn[e][x])[j]
    BY <2>1, <2>2, WriteOneCell
  <2> QED BY <2>1, <2>3 DEF Cell
<1> QED BY <1>1, <1>2, <1>3 DEF CopyCells, Stays

\* A step that does not write leaves the cells of the CPUs that do not take it
\* alone.
LEMMA QuietKept ==
  ASSUME NEW e \in CPUs, CopyCells(e), storage' = storage, touched'[e] = touched[e], Stays(e)
  PROVE  CopyCells(e)'
BY DEF CopyCells, Cell, Stays, Contents

\* Writing sets no flag but touched.
LEMMA TouchesTyped ==
  ASSUME TypeOK, NEW c \in CPUs, NEW d, NEW f, Touches(c, d, f)
  PROVE  touched' \in [CPUs -> BOOLEAN] /\ touched'[c] = touched[c]
<1>1. \A e \in CPUs : touched[e] \in BOOLEAN
  BY DEF TypeOK
<1>2. \A e \in CPUs : (touched[e] \/ (e # c /\ pc[e] # "idle" /\ fpn[e][d] = f)) \in BOOLEAN
  BY <1>1, Zenon
<1>3. touched' \in [CPUs -> BOOLEAN]
  BY <1>2, Zenon DEF Touches
<1>4. touched'[c] = (touched[c] \/ (c # c /\ pc[c] # "idle" /\ fpn[c][d] = f))
  BY Zenon DEF Touches
<1>5. touched'[c] = touched[c]
  BY <1>1, <1>4, Zenon
<1> QED BY <1>3, <1>5

\* pg_setval writes one cell of one frame, and touches who uses it.
LEMMA SetvalKeeps ==
  ASSUME RandomAccess, IInv, NEW c \in CPUs, NEW f \in Frames, NEW off \in Cells,
         NEW b \in Bytes, pg_setval(c, f, off, b)
  PROVE  IInv'
<1>1. /\ MEMPHY_write("ram", Addr(f, off), b) /\ "ram" \in Devices /\ Touches(c, "ram", f)
  BY DEF pg_setval, Devices
<1>2. UNCHANGED copyVars /\ pc[c] = "idle"
  BY DEF pg_setval
<1>3. TypeOK'
  <2>1. storage' \in [Devices -> [Addrs -> Bytes]]
    BY <1>1, WriteOneCell DEF IInv
  <2>2. touched' \in [CPUs -> BOOLEAN]
    BY <1>1, TouchesTyped DEF IInv
  <2> QED BY <1>2, <2>1, <2>2 DEF IInv, TypeOK, copyVars
<1>4. InLoop'
  BY <1>2 DEF IInv, InLoop, copyVars
<1>5. ASSUME NEW e \in CPUs PROVE CopyCells(e)'
  <2>1. (e # c \/ pc[e] = "idle") /\ Stays(e) /\ TypeOK /\ CopyCells(e)
    BY <1>2 DEF IInv, Stays, copyVars
  <2> QED BY <1>1, <2>1, OthersKept
<1> QED BY <1>3, <1>4, <1>5 DEF IInv

\* A copy that begins has its page still in place and nothing to show yet.
LEMMA BeginKeeps ==
  ASSUME IInv, NEW c \in CPUs, NEW d \in Devices, NEW g \in [Devices -> Frames],
         swap_begin(c, d, g)
  PROVE  IInv'
<1> USE DEF swap_begin
<1>0. g[d] \in Frames
  OBVIOUS
<1>1. TypeOK'
  <2>1. Contents(storage, d, g[d]) \in [Cells -> Bytes]
    BY <1>0, ContentsTyped DEF IInv
  <2>2. 0 \in 0 .. PAGESZ
    BY StorageAssumption
  <2>3. touched' \in [CPUs -> BOOLEAN]
    BY DEF IInv, TypeOK
  <2> QED BY <2>1, <2>2, <2>3 DEF IInv, TypeOK
<1>2. InLoop'
  BY DEF IInv, InLoop, TypeOK
<1>3. ASSUME NEW e \in CPUs, e # c PROVE CopyCells(e)'
  <2>1. Stays(e) /\ touched'[e] = touched[e]
    BY <1>3 DEF IInv, TypeOK, Stays
  <2> QED BY <2>1, QuietKept DEF IInv
<1>4. CopyCells(c)'
  <2>1. /\ pc'[c] = "read" /\ mpsrc'[c] = d /\ cellidx'[c] = 0 /\ storage' = storage
        /\ page'[c] = Contents(storage, d, g[d]) /\ fpn'[c] = g
    BY DEF IInv, TypeOK
  <2>2. \A k \in Cells : ~(k < 0)
    BY DEF Cells
  <2> QED BY <2>1, <2>2 DEF CopyCells, Cell
<1> QED BY <1>1, <1>2, <1>3, <1>4 DEF IInv

\* The byte read is the byte of the page at cellidx.
LEMMA ReadKeeps ==
  ASSUME RandomAccess, IInv, NEW c \in CPUs, swap_read(c)
  PROVE  IInv'
<1> USE DEF swap_read
<1> DEFINE d == mpsrc[c]
           k == cellidx[c]
<1>1. d \in Devices /\ k \in Cells
  BY StorageAssumption DEF IInv, TypeOK, Cells
<1>0. fpn[c][d] \in Frames
  BY <1>1, FrameTyped DEF IInv
<1>2. data' = [data EXCEPT ![c] = storage[d][Addr(fpn[c][d], k)]]
  BY <1>0, <1>1, AddrInDevice DEF MEMPHY_read, RandomAccess
<1>3. storage[d][Addr(fpn[c][d], k)] = Contents(storage, d, fpn[c][d])[k]
  BY <1>1 DEF Contents, Addr
<1>4. Contents(storage, d, fpn[c][d])[k] \in Bytes
  BY <1>0, <1>1, ContentsTyped DEF IInv
<1>5. TypeOK'
  BY <1>2, <1>3, <1>4 DEF IInv, TypeOK
<1>6. InLoop'
  BY DEF IInv, InLoop, TypeOK
<1>7. ASSUME NEW e \in CPUs, e # c PROVE CopyCells(e)'
  <2>1. Stays(e) /\ touched'[e] = touched[e]
    BY <1>2, <1>7 DEF IInv, TypeOK, Stays
  <2> QED BY <2>1, QuietKept DEF IInv
<1>8. CopyCells(c)'
  <2>1. /\ pc'[c] = "write" /\ mpsrc'[c] = d /\ cellidx'[c] = k /\ storage' = storage
        /\ page'[c] = page[c] /\ data'[c] = Cell(c, d, k) /\ fpn' = fpn
        /\ touched'[c] = touched[c]
    BY <1>2, <1>3 DEF IInv, TypeOK, Cell
  <2>2. CopyCells(c) /\ pc[c] # "idle"
    BY DEF IInv
  <2>3. \A x, j : Cell(c, x, j)' = Cell(c, x, j)
    BY <2>1 DEF Cell, Contents
  <2> QED BY <1>1, <2>1, <2>2, <2>3 DEF CopyCells
<1> QED BY <1>5, <1>6, <1>7, <1>8 DEF IInv

\* The byte written extends the copied prefix by one cell.
LEMMA WriteKeeps ==
  ASSUME RandomAccess, IInv, NEW c \in CPUs, swap_write(c)
  PROVE  IInv'
<1> USE DEF swap_write
<1> DEFINE d == Other(mpsrc[c])
           k == cellidx[c]
           f == fpn[c][d]
<1>1. mpsrc[c] \in Devices /\ d \in Devices /\ d # mpsrc[c] /\ data[c] \in Bytes
  BY FrameTyped DEF IInv, TypeOK
<1>2. k \in Cells /\ k + 1 \in 0 .. PAGESZ
  BY StorageAssumption DEF IInv, InLoop, TypeOK, Cells
<1>3. MEMPHY_write(d, Addr(f, k), data[c]) /\ Touches(c, d, f)
  OBVIOUS
<1>9. f \in Frames /\ fpn[c][mpsrc[c]] \in Frames
  BY <1>1, FrameTyped DEF IInv
<1>4. /\ storage' \in [Devices -> [Addrs -> Bytes]]
      /\ \A x \in Devices, g \in Frames, j \in Cells :
           Contents(storage', x, g)[j] =
             IF x = d /\ g = f /\ j = k THEN data[c] ELSE Contents(storage, x, g)[j]
  <2> HIDE DEF d, k, f
  <2> QED BY <1>1, <1>2, <1>3, <1>9, WriteOneCell DEF IInv
<1>5. TypeOK'
  <2>1. touched' \in [CPUs -> BOOLEAN]
    BY <1>3, TouchesTyped DEF IInv
  <2> QED BY <1>2, <1>4, <2>1 DEF IInv, TypeOK
<1>6. InLoop'
  BY DEF IInv, InLoop, TypeOK
<1>7. ASSUME NEW e \in CPUs, e # c PROVE CopyCells(e)'
  <2>1. Stays(e)
    BY <1>7 DEF IInv, TypeOK, Stays
  <2>2. TypeOK /\ CopyCells(e)
    BY DEF IInv
  <2> HIDE DEF d, k, f
  <2> QED BY <1>1, <1>2, <1>3, <1>7, <1>9, <2>1, <2>2, OthersKept
<1>8. CopyCells(c)'
  <2>1. /\ pc'[c] = "read" /\ mpsrc'[c] = mpsrc[c] /\ cellidx'[c] = k + 1
        /\ page'[c] = page[c] /\ fpn' = fpn /\ touched'[c] = touched[c]
    BY <1>3, TouchesTyped DEF IInv, TypeOK
  <2> SUFFICES ASSUME ~touched[c] PROVE CopyCells(c)'
    BY <2>1 DEF CopyCells
  <2>2. CopyCells(c) /\ pc[c] = "write"
    BY DEF IInv
  <2>3. \A j \in Cells : Cell(c, mpsrc[c], j)' = page[c][j]
    BY <1>1, <1>4, <1>9, <2>1, <2>2 DEF CopyCells, Cell
  <2>4. ASSUME NEW j \in Cells, j < k + 1 PROVE Cell(c, d, j)' = page[c][j]
    <3>1. j = k \/ j < k
      BY <1>2, <2>4 DEF Cells
    <3>2. CASE j = k
      BY <1>1, <1>4, <1>9, <2>1, <2>2, <3>2 DEF CopyCells, Cell
    <3>3. CASE j # k /\ j < k
      BY <1>1, <1>4, <1>9, <2>1, <2>2, <3>3 DEF CopyCells, Cell
    <3> QED BY <3>1, <3>2, <3>3
  <2> QED BY <2>1, <2>3, <2>4 DEF CopyCells
<1> QED BY <1>5, <1>6, <1>7, <1>8 DEF IInv

\* The end of a copy touches no storage.
LEMMA EndKeeps ==
  ASSUME IInv, NEW c \in CPUs, swap_end(c)
  PROVE  IInv'
<1> USE DEF swap_end, Leave
<1>1. TypeOK'
  <2>1. 0 \in 0 .. PAGESZ /\ "ram" \in Devices
    BY StorageAssumption DEF Devices
  <2>2. touched' \in [CPUs -> BOOLEAN]
    BY DEF IInv, TypeOK
  <2> QED BY <2>1, <2>2, BlankTyped DEF IInv, TypeOK
<1>2. InLoop'
  BY DEF IInv, TypeOK, InLoop
<1>3. ASSUME NEW e \in CPUs, e # c PROVE CopyCells(e)'
  <2>1. Stays(e) /\ touched'[e] = touched[e]
    BY <1>3 DEF IInv, TypeOK, Stays
  <2> QED BY <2>1, QuietKept DEF IInv
<1>4. CopyCells(c)'
  BY DEF IInv, TypeOK, CopyCells
<1> QED BY <1>1, <1>2, <1>3, <1>4 DEF IInv

\* IInv is kept by every step.
LEMMA Inductive ==
  ASSUME RandomAccess, IInv, [Next]_vars
  PROVE  IInv'
<1>1. CASE UNCHANGED vars
  BY <1>1 DEF IInv, TypeOK, InLoop, CopyCells, Cell, vars, copyVars
<1>2. ASSUME NEW c \in CPUs, cpu(c) PROVE IInv'
  BY <1>2, SetvalKeeps, BeginKeeps, ReadKeeps, WriteKeeps, EndKeeps DEF cpu
<1> QED BY <1>1, <1>2 DEF Next

\* IInv holds in every reachable state.
LEMMA Invariance == ASSUME RandomAccess PROVE Spec => []IInv
<1>1. Init => IInv
  <2>1. 0 \in 0 .. PAGESZ /\ "ram" \in Devices
    BY StorageAssumption DEF Devices
  <2> QED BY <2>1, BlankTyped DEF Init, IInv, TypeOK, InLoop, CopyCells
<1>2. IInv /\ [Next]_vars => IInv'
  BY Inductive
<1> QED BY <1>1, <1>2, PTL DEF Spec

\* On devices with random access every variable keeps its type: no copy runs
\* past the end of its page.
THEOREM TypeCorrect == ASSUME RandomAccess PROVE Spec => []TypeOK
<1>1. IInv => TypeOK
  BY DEF IInv
<1> QED BY <1>1, Invariance, PTL

\* No CPU reaches into the copy of another, except by a write to one of the two
\* frames themselves: the source stays as it was and what has been copied stays
\* copied.
THEOREM CopyUndisturbed == ASSUME RandomAccess PROVE Spec => []CopyPrefix
<1>1. ASSUME IInv PROVE CopyPrefix
  <2>1. ASSUME NEW c \in CPUs, pc[c] # "idle", ~touched[c]
        PROVE  Contents(storage, mpsrc[c], fpn[c][mpsrc[c]]) = page[c]
    <3>0. mpsrc[c] \in Devices /\ fpn[c][mpsrc[c]] \in Frames
      BY <1>1 DEF IInv, TypeOK
    <3>1. /\ Contents(storage, mpsrc[c], fpn[c][mpsrc[c]]) \in [Cells -> Bytes]
          /\ page[c] \in [Cells -> Bytes]
      BY <1>1, <3>0, ContentsTyped DEF IInv, TypeOK
    <3>2. \A k \in Cells : Contents(storage, mpsrc[c], fpn[c][mpsrc[c]])[k] = page[c][k]
      BY <1>1, <2>1 DEF IInv, CopyCells, Cell
    <3> QED BY <3>1, <3>2
  <2> QED BY <1>1, <2>1 DEF IInv, CopyCells, Cell, CopyPrefix
<1> QED BY <1>1, Invariance, PTL

\* When __swap_cp_page returns and no other CPU has written to its two frames,
\* both hold the page as it was at the call, for any number of CPUs copying and
\* writing at the same time.
THEOREM CopiesExact == ASSUME RandomAccess PROVE Spec => CopyExact
<1> DEFINE A == \A c \in CPUs : pc[c] = "read" /\ pc'[c] = "idle" /\ ~touched[c] =>
                  \A d \in Devices : Contents(storage', d, fpn[c][d]) = page[c]
<1>1. ASSUME IInv, [Next]_vars PROVE [A]_vars
  <2>1. SUFFICES ASSUME NEW c \in CPUs, Next, pc[c] = "read", pc'[c] = "idle", ~touched[c],
                        NEW d \in Devices
                 PROVE  Contents(storage', d, fpn[c][d]) = page[c]
    BY <1>1 DEF vars
  <2>2. cellidx[c] = PAGESZ /\ storage' = storage
    <3>1. PICK e \in CPUs : cpu(e)
      BY <2>1 DEF Next
    <3>2. \A x \in Devices, g \in [Devices -> Frames] : ~swap_begin(e, x, g)
      BY <1>1, <2>1 DEF swap_begin, IInv, TypeOK
    <3>3. ~swap_read(e) /\ ~swap_write(e)
      BY <1>1, <2>1 DEF swap_read, swap_write, IInv, TypeOK
    <3>4. \A f \in Frames, off \in Cells, b \in Bytes : ~pg_setval(e, f, off, b)
      BY <1>1, <2>1 DEF pg_setval, copyVars, IInv, TypeOK
    <3>5. swap_end(e)
      BY <3>1, <3>2, <3>3, <3>4 DEF cpu
    <3>6. e = c
      BY <1>1, <2>1, <3>5 DEF swap_end, Leave, IInv, TypeOK
    <3> QED BY <3>5, <3>6 DEF swap_end, Leave
  <2>3. d = mpsrc[c] \/ d = Other(mpsrc[c])
    BY <1>1 DEF IInv, TypeOK, Devices, Other
  <2>4. \A k \in Cells : k < cellidx[c]
    BY <2>2, StorageAssumption DEF Cells
  <2>5. \A k \in Cells : Contents(storage, d, fpn[c][d])[k] = page[c][k]
    BY <1>1, <2>1, <2>3, <2>4 DEF IInv, CopyCells, Cell
  <2>6. Contents(storage, d, fpn[c][d]) \in [Cells -> Bytes] /\ page[c] \in [Cells -> Bytes]
    BY <1>1, ContentsTyped, FrameTyped DEF IInv, TypeOK
  <2> QED BY <2>2, <2>5, <2>6
<1> QED BY <1>1, Invariance, PTL DEF Spec, CopyExact
=============================================================================
