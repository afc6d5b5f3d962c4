------------------------------- MODULE MemPhy --------------------------------
(***************************************************************************)
(* src/mm-memphy.c: the free-frame list of one physical memory device, a   *)
(* linked list of malloc'ed nodes that MEMPHY_format builds,               *)
(* MEMPHY_get_freefp pops and MEMPHY_put_freefp pushes.  The device is     *)
(* shared by every CPU and no mutex protects it, so each access to a       *)
(* shared word is an action of its own.                                    *)
(*                                                                         *)
(* A use of a pointer that is dangling or was never set has no defined     *)
(* outcome: undefined is raised and nothing is said of what follows.       *)
(***************************************************************************)
EXTENDS Integers, FiniteSets

CONSTANTS CPUs,           \* the threads that call the device
          MaxSz, PAGESZ,  \* size of the device and of a page
          Releases,       \* whether frames are put back: free_pcb_memph would,
                          \* but nothing in the program calls it
          MaxNodes        \* bound: list nodes malloc can have out at once

NumFp == MaxSz \div PAGESZ
Frames == 0 .. NumFp - 1
Nodes == 0 .. MaxNodes - 1
NULL == -1
Wild == -2                \* an uninitialized pointer
Pointers == Nodes \cup {NULL, Wild}

ASSUME MemPhyAssumption == /\ MaxSz \in Nat \ {0} /\ PAGESZ \in Nat \ {0}
                           /\ MaxNodes \in Nat /\ NumFp <= MaxNodes
                           /\ NumFp >= 1 /\ Releases \in BOOLEAN

VARIABLES
  free_fp_list,   \* the head of the list
  fpn, fp_next,   \* the fields of each node
  alive,          \* the nodes that are malloc'ed and not freed
  pc,             \* pc[c]: where CPU c is in a call
  fp,             \* fp[c]: its local pointer fp, or newnode
  nxt,            \* nxt[c]: the fp->fp_next it has read
  retfpn,         \* retfpn[c]: the frame number read by its call
  held,           \* held[c]: the frames its calls have returned, not put back
  undefined       \* a call has had undefined behaviour

listVars == <<free_fp_list, fpn, fp_next, alive>>
cpuVars == <<pc, fp, nxt, retfpn, held>>
vars == <<listVars, cpuVars, undefined>>

PC == {"idle", "g_fpn", "g_next", "g_store", "g_free", "p_link"}

TypeOK == /\ free_fp_list \in Pointers
          /\ fpn \in [Nodes -> Frames] /\ fp_next \in [Nodes -> Pointers]
          /\ alive \subseteq Nodes
          /\ pc \in [CPUs -> PC] /\ fp \in [CPUs -> Pointers] /\ nxt \in [CPUs -> Pointers]
          /\ retfpn \in [CPUs -> Frames] /\ held \in [CPUs -> SUBSET Frames]
          /\ undefined \in BOOLEAN

\* Bug variant: the loop runs to iter <= numfp.
MEMPHY_format_OneMore ==
  /\ alive = 0 .. NumFp /\ free_fp_list = 0
  /\ fpn = [n \in Nodes |-> IF n \in alive THEN n ELSE 0]
  /\ fp_next = [n \in Nodes |-> IF n + 1 \in alive THEN n + 1 ELSE NULL]

\* MEMPHY_format: one node per frame.  fp_next is set to NULL in every node but
\* the first, and then to the following node in every node but the last: the
\* only node of a list of one is left as malloc returned it.
MEMPHY_format ==
  /\ alive = Frames /\ free_fp_list = 0
  /\ fpn = [n \in Nodes |-> IF n \in alive THEN n ELSE 0]
  /\ \E garbage \in {NULL, Wild} :
       fp_next = [n \in Nodes |-> IF n + 1 \in alive THEN n + 1
                                  ELSE IF n = 0 THEN garbage ELSE NULL]

Init == /\ MEMPHY_format
        /\ pc = [c \in CPUs |-> "idle"] /\ fp = [c \in CPUs |-> NULL]
        /\ nxt = [c \in CPUs |-> NULL]
        /\ retfpn = [c \in CPUs |-> 0] /\ held = [c \in CPUs |-> {}]
        /\ undefined = FALSE

-----------------------------------------------------------------------------
At(c, l) == pc[c] = l /\ ~undefined
Goto(c, l) == pc' = [pc EXCEPT ![c] = l]

\* The step of CPU c that follows its pointer: A if the node is there.
Deref(c, A) == \/ fp[c] \in alive /\ A /\ UNCHANGED undefined
               \/ fp[c] \notin alive /\ undefined' = TRUE
                  /\ UNCHANGED <<listVars, cpuVars>>

\* Bug variant: the test for an empty list is missing.
get_head_NoTest(c) ==
  /\ At(c, "idle")
  /\ fp' = [fp EXCEPT ![c] = free_fp_list] /\ Goto(c, "g_fpn")
  /\ UNCHANGED <<listVars, nxt, retfpn, held, undefined>>

\* MEMPHY_get_freefp: fp = mp->free_fp_list; return -1 if it is NULL.
get_head(c) ==
  /\ At(c, "idle")
  /\ fp' = [fp EXCEPT ![c] = free_fp_list]
  /\ IF free_fp_list = NULL THEN UNCHANGED pc ELSE Goto(c, "g_fpn")
  /\ UNCHANGED <<listVars, nxt, retfpn, held, undefined>>

\* Bug variant: *retfpn is not set.
get_fpn_NoStore(c) ==
  /\ At(c, "g_fpn")
  /\ Deref(c, Goto(c, "g_next") /\ UNCHANGED <<listVars, fp, nxt, retfpn, held>>)

\* *retfpn = fp->fpn
get_fpn(c) ==
  /\ At(c, "g_fpn")
  /\ Deref(c, /\ retfpn' = [retfpn EXCEPT ![c] = fpn[fp[c]]]
              /\ Goto(c, "g_next") /\ UNCHANGED <<listVars, fp, nxt, held>>)

\* mp->free_fp_list = fp->fp_next: the field is read,
get_next(c) ==
  /\ At(c, "g_next")
  /\ Deref(c, /\ nxt' = [nxt EXCEPT ![c] = fp_next[fp[c]]]
              /\ Goto(c, "g_store") /\ UNCHANGED <<listVars, fp, retfpn, held>>)

\* and stored.
get_store(c) ==
  /\ At(c, "g_store")
  /\ free_fp_list' = nxt[c] /\ Goto(c, "g_free")
  /\ UNCHANGED <<fpn, fp_next, alive, fp, nxt, retfpn, held, undefined>>

\* The call returns the frame it has read.
Return(c) == /\ held' = [held EXCEPT ![c] = @ \cup {retfpn[c]}]
             /\ Goto(c, "idle")
             /\ UNCHANGED <<free_fp_list, fpn, fp_next, fp, nxt, retfpn>>

\* Bug variant: the node is not freed.
get_free_Leak(c) == At(c, "g_free") /\ Return(c) /\ UNCHANGED <<alive, undefined>>

\* free(fp); return 0.  The node may have been freed by another CPU already.
get_free(c) ==
  /\ At(c, "g_free")
  /\ alive' = alive \ {fp[c]} /\ undefined' = (fp[c] \notin alive)
  /\ Return(c)

\* MEMPHY_put_freefp: a new node n for frame f, in front of the head as it is
\* now; malloc may return a node that was freed before.
put_new(c, f, n) ==
  /\ Releases /\ At(c, "idle") /\ f \in held[c] /\ n \notin alive
  /\ alive' = alive \cup {n}
  /\ fpn' = [fpn EXCEPT ![n] = f]
  /\ fp_next' = [fp_next EXCEPT ![n] = free_fp_list]
  /\ held' = [held EXCEPT ![c] = @ \ {f}]
  /\ fp' = [fp EXCEPT ![c] = n] /\ Goto(c, "p_link")
  /\ UNCHANGED <<free_fp_list, nxt, retfpn, undefined>>

\* mp->free_fp_list = newnode
put_link(c) ==
  /\ At(c, "p_link")
  /\ free_fp_list' = fp[c] /\ Goto(c, "idle")
  /\ UNCHANGED <<fpn, fp_next, alive, fp, nxt, retfpn, held, undefined>>

\* After undefined behaviour there is no next step: the program is gone, or
\* does anything.
Next == \E c \in CPUs : \/ get_head(c) \/ get_fpn(c) \/ get_next(c)
                        \/ get_store(c) \/ get_free(c) \/ put_link(c)
                        \/ \E f \in Frames, n \in Nodes : put_new(c, f, n)

Spec == Init /\ [][Next]_vars

-----------------------------------------------------------------------------
(* Properties                                                               *)

\* A frame is given to one caller at a time: no two CPUs hold one frame, and
\* get_freefp is not about to return a frame that an earlier call has returned
\* and nobody has put back.
FramesExclusive ==
  /\ \A c, b \in CPUs : c # b => held[c] \cap held[b] = {}
  /\ \A c, b \in CPUs : pc[c] = "g_free" => retfpn[c] \notin held[b]

\* No call follows a dangling or uninitialized pointer or frees a node twice.
NoUndefined == ~undefined

\* The nodes of the list, by walking it from its head.
Walk == LET w[k \in 0 .. MaxNodes] ==
              IF k = 0 THEN free_fp_list
              ELSE IF w[k - 1] \in Nodes THEN fp_next[w[k - 1]] ELSE w[k - 1]
        IN  {w[k] : k \in 0 .. MaxNodes} \cap Nodes

\* Between calls no frame is lost: every frame is held or on the list, and the
\* list has exactly the nodes that are malloc'ed.
NoneLost ==
  (\A c \in CPUs : pc[c] = "idle") =>
    /\ Walk = alive
    /\ {fpn[n] : n \in Walk} = Frames \ UNION {held[c] : c \in CPUs}
=============================================================================
