------------------------------- MODULE Storage -------------------------------
(***************************************************************************)
(* The storage of the memory devices (src/mm-memphy.c) and the copy of a   *)
(* page between RAM and swap (__swap_cp_page of src/mm.c).  The CPUs write *)
(* bytes and copy pages, byte by byte and without a lock.  The frames they *)
(* do it on are any frames, those of another CPU too: pg_getpage takes a   *)
(* page number for a RAM frame, pg_setval writes through a frame number    *)
(* that was never set or has the wrong bits, and the free-frame list may   *)
(* give one frame to two CPUs (Paging, MemPhy).  A frame number that is    *)
(* not one of the device's is undefined behaviour and not modelled here.   *)
(***************************************************************************)
EXTENDS Integers

CONSTANTS CPUs,
          PAGESZ,      \* PAGING_PAGESZ
          MaxSz,       \* the size of each device
          Bytes,       \* the values of a cell
          rdmflg       \* rdmflg[d]: device d allows random access

Devices == {"ram", "swp"}
Addrs == 0 .. MaxSz - 1
Frames == 0 .. MaxSz \div PAGESZ - 1
Cells == 0 .. PAGESZ - 1

ASSUME StorageAssumption ==
  /\ PAGESZ \in Nat \ {0} /\ MaxSz \in Nat /\ MaxSz >= PAGESZ /\ Bytes # {}
  /\ rdmflg \in [Devices -> BOOLEAN]

VARIABLES
  storage,   \* storage[d][a]: the byte at address a of device d
  pc,        \* pc[c]: "idle", or in the loop of __swap_cp_page
  mpsrc,     \* mpsrc[c]: the device its copy reads
  fpn,       \* fpn[c][d]: the frame its copy uses on device d
  cellidx,   \* cellidx[c]: the counter of its loop
  data,      \* data[c]: the byte on its way
  page,      \* history: the source frame as it was when the copy began
  touched    \* history: another CPU wrote to a frame of the copy since then

copyVars == <<pc, mpsrc, fpn, cellidx, data, page>>
vars == <<storage, copyVars, touched>>

TypeOK ==
  /\ storage \in [Devices -> [Addrs -> Bytes]]
  /\ pc \in [CPUs -> {"idle", "read", "write"}] /\ mpsrc \in [CPUs -> Devices]
  /\ fpn \in [CPUs -> [Devices -> Frames]]
  /\ cellidx \in [CPUs -> 0 .. PAGESZ] /\ data \in [CPUs -> Bytes]
  /\ page \in [CPUs -> [Cells -> Bytes]] /\ touched \in [CPUs -> BOOLEAN]

Other(d) == IF d = "ram" THEN "swp" ELSE "ram"

\* Bug variant: the cell is not added to the frame's base.
Addr_Base(f, k) == f * PAGESZ

\* The address of cell k of frame f.
Addr(f, k) == f * PAGESZ + k

\* The contents of frame f of device d.
Contents(s, d, f) == [k \in Cells |-> s[d][f * PAGESZ + k]]

\* Outside the call __swap_cp_page has no local variables: theirs are these.
Blank == CHOOSE b \in Bytes : TRUE
NoFrames == [d \in Devices |-> 0]
NoPage == [k \in Cells |-> Blank]

\* malloc leaves the storage as it comes.
Init == /\ storage \in [Devices -> [Addrs -> Bytes]]
        /\ pc = [c \in CPUs |-> "idle"] /\ mpsrc = [c \in CPUs |-> "ram"]
        /\ fpn = [c \in CPUs |-> NoFrames] /\ cellidx = [c \in CPUs |-> 0]
        /\ data = [c \in CPUs |-> Blank] /\ page = [c \in CPUs |-> NoPage]
        /\ touched = [c \in CPUs |-> FALSE]

-----------------------------------------------------------------------------
\* MEMPHY_read: the byte, on a device with random access.  Without it
\* MEMPHY_seq_read is called, which returns -1 at once since it tests rdmflg
\* the same way, and *value stays what it was: for the local variable of
\* __swap_cp_page, anything.  An address past the end is not checked.
MEMPHY_read(d, a) == IF rdmflg[d] /\ a \in Addrs THEN {storage[d][a]} ELSE Bytes

\* MEMPHY_write, and likewise MEMPHY_seq_write.  No address is checked.
MEMPHY_write(d, a, b) ==
  storage' = IF rdmflg[d] THEN [storage EXCEPT ![d][a] = b] ELSE storage

\* CPU c writes to frame f of device d: the copies of the others that use it are
\* touched.
Touches(c, d, f) ==
  touched' = [e \in CPUs |-> touched[e] \/ (e # c /\ pc[e] # "idle" /\ fpn[e][d] = f)]

\* pg_setval: write a byte of a frame in RAM.
pg_setval(c, f, off, b) ==
  /\ pc[c] = "idle"
  /\ MEMPHY_write("ram", Addr(f, off), b) /\ Touches(c, "ram", f)
  /\ UNCHANGED copyVars

\* __swap_cp_page from device d to the other one, on the frames g.
swap_begin(c, d, g) ==
  /\ pc[c] = "idle"
  /\ pc' = [pc EXCEPT ![c] = "read"] /\ mpsrc' = [mpsrc EXCEPT ![c] = d]
  /\ fpn' = [fpn EXCEPT ![c] = g]
  /\ cellidx' = [cellidx EXCEPT ![c] = 0]
  /\ page' = [page EXCEPT ![c] = Contents(storage, d, g[d])]
  /\ touched' = [touched EXCEPT ![c] = FALSE]
  /\ UNCHANGED <<storage, data>>

\* Bug variant: the loop runs to cellidx <= PAGING_PAGESZ.
swap_read_OneMore(c) ==
  /\ pc[c] = "read" /\ cellidx[c] <= PAGESZ
  /\ \E b \in MEMPHY_read(mpsrc[c], Addr(fpn[c][mpsrc[c]], cellidx[c])) :
       data' = [data EXCEPT ![c] = b]
  /\ pc' = [pc EXCEPT ![c] = "write"]
  /\ UNCHANGED <<storage, mpsrc, fpn, cellidx, page, touched>>

swap_read(c) ==
  /\ pc[c] = "read" /\ cellidx[c] < PAGESZ
  /\ \E b \in MEMPHY_read(mpsrc[c], Addr(fpn[c][mpsrc[c]], cellidx[c])) :
       data' = [data EXCEPT ![c] = b]
  /\ pc' = [pc EXCEPT ![c] = "write"]
  /\ UNCHANGED <<storage, mpsrc, fpn, cellidx, page, touched>>

swap_write(c) ==
  /\ pc[c] = "write"
  /\ LET d == Other(mpsrc[c])
     IN  MEMPHY_write(d, Addr(fpn[c][d], cellidx[c]), data[c]) /\ Touches(c, d, fpn[c][d])
  /\ cellidx' = [cellidx EXCEPT ![c] = @ + 1]
  /\ pc' = [pc EXCEPT ![c] = "read"]
  /\ UNCHANGED <<mpsrc, fpn, data, page>>

Leave(c) ==
  /\ pc' = [pc EXCEPT ![c] = "idle"] /\ mpsrc' = [mpsrc EXCEPT ![c] = "ram"]
  /\ fpn' = [fpn EXCEPT ![c] = NoFrames] /\ cellidx' = [cellidx EXCEPT ![c] = 0]
  /\ data' = [data EXCEPT ![c] = Blank] /\ page' = [page EXCEPT ![c] = NoPage]
  /\ touched' = [touched EXCEPT ![c] = FALSE]
  /\ UNCHANGED storage

\* Bug variant: the loop ends one cell early.
swap_end_Early(c) == pc[c] = "read" /\ cellidx[c] >= PAGESZ - 1 /\ Leave(c)

swap_end(c) == pc[c] = "read" /\ cellidx[c] = PAGESZ /\ Leave(c)

cpu(c) == \/ \E f \in Frames, off \in Cells, b \in Bytes : pg_setval(c, f, off, b)
          \/ \E d \in Devices, g \in [Devices -> Frames] : swap_begin(c, d, g)
          \/ swap_read(c) \/ swap_write(c) \/ swap_end(c)

Next == \E c \in CPUs : cpu(c)

Spec == Init /\ [][Next]_vars

-----------------------------------------------------------------------------
(* Properties                                                               *)

\* When __swap_cp_page returns, both frames hold what the source frame held
\* when it was called, whatever the other CPUs wrote to and copied between
\* other frames meanwhile: only a write to the very same frames can spoil it.
CopyExact ==
  [][\A c \in CPUs : pc[c] = "read" /\ pc'[c] = "idle" /\ ~touched[c] =>
       \A d \in Devices : Contents(storage', d, fpn[c][d]) = page[c]]_vars

\* During the copy the source frame stays as it was, and the cells before
\* cellidx have arrived, as long as no other CPU writes to one of its two frames:
\* no write or copy reaches beyond the frame it is meant for.
CopyPrefix ==
  \A c \in CPUs : pc[c] # "idle" /\ ~touched[c] =>
    /\ Contents(storage, mpsrc[c], fpn[c][mpsrc[c]]) = page[c]
    /\ \A k \in Cells : k < cellidx[c] =>
         Contents(storage, Other(mpsrc[c]), fpn[c][Other(mpsrc[c])])[k] = page[c][k]
    /\ pc[c] = "write" => data[c] = page[c][cellidx[c]]
=============================================================================
