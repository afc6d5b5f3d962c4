------------------------------- MODULE Paging --------------------------------
(***************************************************************************)
(* src/mm-vm.c and src/mm.c: pages, frames and page replacement of the     *)
(* processes, which share the RAM and the swap device.  One CPU runs, so   *)
(* an instruction is one action (what CPUs do to each other in the         *)
(* free-frame list and in a page copy is in MemPhy and Storage).  A page   *)
(* has one cell; that a region starts within the area is in Regions.       *)
(*                                                                         *)
(* A local variable or an entry that is used before it is set holds        *)
(* anything.  stop tells when nothing more is said: the program has used   *)
(* dead storage or an address outside a device, or loops for ever.         *)
(***************************************************************************)
EXTENDS PteWord, Sequences, FiniteSetsExt

CONSTANTS Procs,
          NPages,         \* the entries that fit in what malloc returns for pgd: 6, for
                          \* the one entry that PAGING_MAX_PGN says
          RamSz, SwpSz,   \* the sizes of the devices in frames; MemPhy has what is
                          \* different with less than two
          Values,         \* the values of a cell
          Garbage,        \* what malloc may leave in an entry: words
          Nodes,          \* bound: the list nodes malloc can have out at once
          NULL, Wild      \* the null pointer, and one that was never set

Devices == {"ram", "swp"}
Sz == [d \in Devices |-> IF d = "ram" THEN RamSz ELSE SwpSz]
Pages == 0 .. NPages - 1
Frames(d) == 0 .. Sz[d] - 1
Steps == 0 .. Cardinality(Nodes)   \* a walk longer than this is in a cycle

ASSUME PagingAssumption ==
  /\ NPages \in Nat \ {0} /\ RamSz \in Nat \ {0, 1} /\ SwpSz \in Nat \ {0, 1} /\ IsFiniteSet(Nodes)
  /\ Garbage \subseteq SUBSET Bits /\ NULL \notin Nodes /\ Wild \notin Nodes

VARIABLES
  pgd,            \* pgd[p][g]: the entry of page g of process p
  vm_end,         \* vm_end[p]: the end of its area, in pages
  fifo_pgn,       \* fifo_pgn[p]: the head of its list of pages
  pgn, pg_next,   \* the fields of each list node
  alive,          \* the nodes that are malloc'ed and not freed
  free_fp,        \* free_fp[d]: the free frames of device d
  storage,        \* storage[d][f]: the cell of frame f
  stop,           \* "no", "undefined" or "loop"
  kind,           \* kind[p][g]: what the entry holds: "none", "fpn" or "swp"
  order,          \* order[p]: the pages enlisted and not evicted, newest first
  dangling,       \* a node has been freed that another one still points to
  swapFull,       \* a page was swapped out when no swap frame was free
  last            \* the last instruction, if it has accessed a page:
                  \* "read" or "write", process, page and value

fifoVars == <<fifo_pgn, pgn, pg_next, alive, order>>
vars == <<pgd, vm_end, fifoVars, free_fp, storage, stop, kind, dangling, swapFull, last>>

TypeOK ==
  /\ pgd \in [Procs -> [Pages -> SUBSET Bits]] /\ vm_end \in [Procs -> 0 .. NPages]
  /\ fifo_pgn \in [Procs -> Nodes \cup {NULL, Wild}]
  /\ pgn \in [Nodes -> Pages] /\ pg_next \in [Nodes -> Nodes \cup {NULL, Wild}]
  /\ alive \subseteq Nodes
  /\ \A d \in Devices : free_fp[d] \in Seq(Frames(d)) /\ storage[d] \in [Frames(d) -> Values]
  /\ stop \in {"no", "undefined", "loop"} /\ kind \in [Procs -> [Pages -> {"none", "fpn", "swp"}]]
  /\ order \in [Procs -> Seq(Pages)] /\ dangling \in BOOLEAN /\ swapFull \in BOOLEAN
  /\ last = <<>> \/ last \in {"read", "write"} \X Procs \X Pages \X Values

\* init_memphy of both devices, which does not set their cells; init_mm of
\* every process, which sets neither the entries nor fifo_pgn.
Init ==
  /\ pgd \in [Procs -> [Pages -> Garbage]] /\ vm_end = [p \in Procs |-> 0]
  /\ fifo_pgn \in [Procs -> {NULL, Wild}]
  /\ pgn = [n \in Nodes |-> 0] /\ pg_next = [n \in Nodes |-> NULL] /\ alive = {}
  /\ free_fp = [d \in Devices |-> [k \in 1 .. Sz[d] |-> k - 1]]
  /\ \E r \in [Frames("ram") -> Values], w \in [Frames("swp") -> Values] :
       storage = [ram |-> r, swp |-> w]
  /\ stop = "no" /\ kind = [p \in Procs |-> [g \in Pages |-> "none"]]
  /\ order = [p \in Procs |-> <<>>] /\ dangling = FALSE /\ swapFull = FALSE
  /\ last = <<>>

-----------------------------------------------------------------------------
Stop(how) == stop' = how /\ UNCHANGED <<pgd, vm_end, fifoVars, free_fp, storage, kind,
                                        dangling, swapFull, last>>

\* An int that is not negative, and its bits.
ToBits(n) == {b \in 0 .. 30 : (n \div 2^b) % 2 = 1}
FromBits(w) == MapThenSumSet(LAMBDA b : 2^b, w)

\* Bug variant: the frame stays on the list.
MEMPHY_get_freefp_Keep(d) == free_fp[d]

\* The list of free frames after MEMPHY_get_freefp.
MEMPHY_get_freefp(d) == IF free_fp[d] = <<>> THEN <<>> ELSE Tail(free_fp[d])

\* enlist_pgn_node, with the list and the nodes as find_victim_page leaves
\* them; malloc may return a node that was freed before.
enlist_pgn_node(p, g, head, nodes) ==
  \E n \in Nodes \ nodes :
    /\ fifo_pgn' = [fifo_pgn EXCEPT ![p] = n] /\ alive' = nodes \cup {n}
    /\ pgn' = [pgn EXCEPT ![n] = g] /\ pg_next' = [pg_next EXCEPT ![n] = head]

\* Page g is the newest of process p, before the pages in older; nothing is
\* recorded once a list has a dangling pointer.
Enlisted(p, g, older) ==
  order' = IF dangling' THEN [q \in Procs |-> <<>>] ELSE [order EXCEPT ![p] = <<g>> \o older]

\* The free frames that alloc_pages_range leaves.
alloc_pages_range(n) == SubSeq(free_fp["ram"], n + 1, Len(free_fp["ram"]))

\* Bug variant: the page after it.
FirstPage_Next(p) == vm_end[p] + 1

\* The page that vmap_page_range enlists: the first of the range.
FirstPage(p) == vm_end[p]

\* ALLOC, when the area has to grow by n pages: inc_vma_limit, vm_map_ram.
\* Every frame obtained is put on two lists through pointers that do not point
\* to a device: that ends the program, or writes somewhere and leaves frm_lst
\* NULL.  So the frames are lost, no entry is set, and the first page of the
\* range is enlisted.  If RAM runs out the frames are lost too, and nothing is
\* enlisted.
pgalloc(p, n) ==
  /\ stop = "no" /\ vm_end[p] + n <= NPages
  /\ LET free == Len(free_fp["ram"])
     IN  \/ free > 0 /\ Stop("undefined")
         \/ /\ vm_end' = [vm_end EXCEPT ![p] = @ + n]
            /\ free_fp' = [free_fp EXCEPT !["ram"] = alloc_pages_range(n)]
            /\ UNCHANGED dangling
            /\ IF n > free THEN UNCHANGED fifoVars
               ELSE /\ enlist_pgn_node(p, FirstPage(p), fifo_pgn[p], alive)
                    /\ Enlisted(p, FirstPage(p), order[p])
            /\ last' = <<>>
            /\ UNCHANGED <<pgd, storage, stop, kind, swapFull>>

\* The nodes that find_victim_page comes to.
Walk(p) ==
  LET w[k \in Steps] ==
        IF k = 0 THEN fifo_pgn[p] ELSE IF w[k - 1] \in alive THEN pg_next[w[k - 1]] ELSE w[k - 1]
  IN  w
Nowhere(p) == \E k \in Steps : Walk(p)[k] \notin alive \cup {NULL}
Forever(p) == \A k \in Steps : Walk(p)[k] \in alive
Oldest(p) == CHOOSE n \in {Walk(p)[k] : k \in Steps} \cap alive : pg_next[n] = NULL

\* Bug variant: source and target are exchanged.
swap_cp_page_Back(st, sd, sf, d, f) == [st EXCEPT ![sd][sf] = st[d][f]]

\* __swap_cp_page: frame f of device d gets the contents of frame sf of sd.
swap_cp_page(st, sd, sf, d, f) == [st EXCEPT ![d][f] = st[sd][sf]]

\* MEMPHY_get_freefp of the swap device: its result is not looked at, and
\* without a free frame swpfpn stays unset.
SwapTargets == IF free_fp["swp"] # <<>> THEN {Head(free_fp["swp"])} ELSE Frames("swp")

\* What follows pg_getpage in pg_getval and pg_setval, with the devices as
\* pg_getpage leaves them; ins is <<"read">> or <<"write", value>>.
pg_getval(p, g, st, fpn) == storage' = st /\ last' = <<"read", p, g, st["ram"][fpn]>>
pg_setval(p, g, v, st, fpn) == /\ storage' = [st EXCEPT !["ram"][fpn] = v]
                               /\ last' = <<"write", p, g, v>>
Access(p, g, ins, st, fpn) == \/ ins[1] = "read" /\ pg_getval(p, g, st, fpn)
                              \/ ins[1] = "write" /\ pg_setval(p, g, ins[2], st, fpn)

\* The second half of pg_getpage when RAM is full, for the victim vicpgn.  Its
\* page number serves as the number of its frame; the entry of g is not set.
swap_out_in(p, g, vicpgn, head, nodes, ins) ==
  \E swpfpn \in SwapTargets :
    LET out == swap_cp_page(storage, "ram", vicpgn, "swp", swpfpn)
        tgt == FromBits(PAGING_SWP(pgd[p][g]))
    IN  /\ vicpgn \in Frames("ram") /\ tgt \in Frames("swp")
        /\ pgd' = [pgd EXCEPT ![p][vicpgn] = SwapWord(@, {}, ToBits(swpfpn))]
        /\ kind' = [kind EXCEPT ![p][vicpgn] = "swp"]
        /\ free_fp' = [free_fp EXCEPT !["swp"] = MEMPHY_get_freefp("swp")]
        /\ swapFull' = (swapFull \/ free_fp["swp"] = <<>>)
        /\ enlist_pgn_node(p, g, head, nodes)
        /\ \E f \in Frames("ram") :
             Access(p, g, ins, swap_cp_page(out, "swp", tgt, "ram", vicpgn), f)
        /\ UNCHANGED <<vm_end, stop>>

\* pg_getpage, page present: the frame is what PAGING_FPN makes of the entry.
hit(p, g, ins) ==
  /\ PAGING_PAGE_PRESENT(pgd[p][g])
  /\ LET fpn == FromBits(PAGING_FPN(pgd[p][g]))
     IN  \/ /\ fpn \in Frames("ram") /\ Access(p, g, ins, storage, fpn)
            /\ UNCHANGED <<pgd, vm_end, fifoVars, free_fp, stop, kind, dangling, swapFull>>
         \/ fpn \notin Frames("ram") /\ Stop("undefined")

\* Page fault with a free frame.  *fpn is not set: the access that follows
\* goes to any frame.
fault_load(p, g, ins) ==
  /\ ~PAGING_PAGE_PRESENT(pgd[p][g]) /\ free_fp["ram"] # <<>>
  /\ LET ramfpn == Head(free_fp["ram"])
         tgt == FromBits(PAGING_SWP(pgd[p][g]))
     IN  /\ tgt \in Frames("swp")
         /\ pgd' = [pgd EXCEPT ![p][g] = FrameWord(@, ToBits(ramfpn))]
         /\ \E f \in Frames("ram") :
              Access(p, g, ins, swap_cp_page(storage, "swp", tgt, "ram", ramfpn), f)
  /\ kind' = [kind EXCEPT ![p][g] = "fpn"]
  /\ free_fp' = [free_fp EXCEPT !["ram"] = MEMPHY_get_freefp("ram")]
  /\ UNCHANGED <<vm_end, stop, dangling, swapFull>>
  /\ enlist_pgn_node(p, g, fifo_pgn[p], alive) /\ Enlisted(p, g, order[p])

RamFull(p, g) == ~PAGING_PAGE_PRESENT(pgd[p][g]) /\ free_fp["ram"] = <<>>

\* Bug variant: the list of one node keeps its head.
HeadAfter_Keep(p, n) == fifo_pgn[p]

\* find_victim_page: the last node n of the list is freed; only if it is the
\* first one too is the pointer to it removed.
HeadAfter(p, n) == IF fifo_pgn[p] = n THEN NULL ELSE fifo_pgn[p]

\* Page fault without a free frame: the oldest page is swapped out.
fault_evict(p, g, ins) ==
  /\ RamFull(p, g) /\ fifo_pgn[p] # NULL /\ ~Nowhere(p) /\ ~Forever(p)
  /\ swap_out_in(p, g, pgn[Oldest(p)], HeadAfter(p, Oldest(p)), alive \ {Oldest(p)}, ins)
  /\ dangling' = (dangling \/ fifo_pgn[p] # Oldest(p))
  /\ Enlisted(p, g, SubSeq(order[p], 1, Len(order[p]) - 1))

\* The list is empty: find_victim_page fails, which is not looked at, and
\* vicpgn stays unset.
fault_empty(p, g, ins) ==
  /\ RamFull(p, g) /\ fifo_pgn[p] = NULL
  /\ \E vicpgn \in Pages : swap_out_in(p, g, vicpgn, NULL, alive, ins)
  /\ UNCHANGED dangling /\ Enlisted(p, g, order[p])

\* Every fault ends with an access through a variable that was never set; some
\* have walked into a dead node before that, or never come back from the walk.
fault_undefined(p, g) == ~PAGING_PAGE_PRESENT(pgd[p][g]) /\ Stop("undefined")
fault_loop(p, g) == RamFull(p, g) /\ Forever(p) /\ Stop("loop")

pg_getpage(p, g, ins) ==
  /\ stop = "no"
  /\ \/ hit(p, g, ins) \/ fault_load(p, g, ins) \/ fault_evict(p, g, ins)
     \/ fault_empty(p, g, ins) \/ fault_undefined(p, g) \/ fault_loop(p, g)

\* READ: pgread, __read; WRITE: pgwrite, __write.
pgread(p, g) == pg_getpage(p, g, <<"read">>)
pgwrite(p, g, v) == pg_getpage(p, g, <<"write", v>>)

Stopped == stop # "no" /\ UNCHANGED vars

Next == \/ \E p \in Procs : \/ \E n \in 1 .. NPages : pgalloc(p, n)
                            \/ \E g \in Pages : \/ pgread(p, g)
                                                \/ \E v \in Values : pgwrite(p, g, v)
        \/ Stopped

Spec == Init /\ [][Next]_vars

-----------------------------------------------------------------------------
(* Properties                                                               *)

Entries == Procs \X Pages
Kind(e) == kind[e[1]][e[2]]
Field(e, mask, offst) == FromBits(GETVAL(pgd[e[1]][e[2]], mask, offst))

\* No RAM frame is named by two entries, of the same or of two processes, or
\* by an entry while it is free; and likewise no swap frame, as long as a free
\* one has been found for every page that was swapped out.
FramesOnce ==
  /\ \A e \in Entries : Kind(e) = "fpn" =>
       /\ Field(e, FPN_MASK, 0) \notin {free_fp["ram"][k] : k \in DOMAIN free_fp["ram"]}
       /\ \A x \in Entries : x # e /\ Kind(x) = "fpn" =>
            Field(x, FPN_MASK, 0) # Field(e, FPN_MASK, 0)
  /\ ~swapFull => \A e \in Entries : Kind(e) = "swp" =>
       /\ Field(e, SWPOFF_MASK, 5) \notin {free_fp["swp"][k] : k \in DOMAIN free_fp["swp"]}
       /\ \A x \in Entries : x # e /\ Kind(x) = "swp" =>
            Field(x, SWPOFF_MASK, 5) # Field(e, SWPOFF_MASK, 5)

\* Until a page is evicted from a list of several, the list of a process (if
\* malloc had left NULL in fifo_pgn) is its pages from the newest to the
\* oldest, on nodes of its own: the victim is the oldest page.  The eviction
\* leaves a pointer to a freed node behind, which the next node enlisted, by
\* this or another process, may take.
FifoUntilEvicted ==
  ~dangling =>
    /\ \A p \in Procs : ~Nowhere(p) =>
         \A k \in 1 .. Len(order[p]) :
           /\ Walk(p)[k - 1] \in alive /\ pgn[Walk(p)[k - 1]] = order[p][k]
           /\ Walk(p)[Len(order[p])] = NULL
    /\ \A p, q \in Procs : p # q =>
         {Walk(p)[k] : k \in Steps} \cap {Walk(q)[k] : k \in Steps} \cap Nodes = {}

\* What was swapped out stays on the swap device: as long as a free frame has
\* been found for every page swapped out, no instruction of any process changes
\* the frame that the entry of a swapped page names.
SwappedOutKept ==
  [][\A e \in Entries : ~swapFull' /\ Kind(e) = "swp" =>
       LET f == Field(e, SWPOFF_MASK, 5) IN storage'["swp"][f] = storage["swp"][f]]_vars

\* READ and WRITE of a page that was swapped out get it back into RAM ("Get the
\* page to MEMRAM, swap from MEMSWAP if needed"): the entry names a frame
\* afterwards.
SwappedBack ==
  [][stop' = "no" /\ last' # <<>> /\ kind[last'[2]][last'[3]] = "swp" =>
       kind'[last'[2]][last'[3]] = "fpn"]_vars

\* A READ that follows a WRITE of the same page of the area returns the value
\* that was written (the recorded runs write 100 and read 100 back).
ReadsBack ==
  [][last # <<>> /\ last[1] = "write" /\ last' # <<>> /\ last'[1] = "read"
     /\ last'[2] = last[2] /\ last'[3] = last[3] /\ last[3] < vm_end[last[2]] =>
       last'[4] = last[4]]_vars
=============================================================================
