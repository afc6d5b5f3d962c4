---------------------------- MODULE MemPhyProofs -----------------------------
(***************************************************************************)
(* Proofs about MemPhy.tla, for every size of the device and of its pages. *)
(* The types hold for any number of CPUs.  What the device is for (frames  *)
(* given to one caller at a time, none lost, no dangling pointer followed) *)
(* holds when one CPU calls it and it has at least two frames: MemPhy's    *)
(* run with two CPUs shows what goes wrong without a mutex.                *)
(***************************************************************************)
EXTENDS MemPhy, TLAPS, FiniteSetTheorems, WellFoundedInduction

\* The list as a stack: s[m] is its head, s[1] its last node, and each node
\* points to the one below.
Stack(next, head, nodes, m, s) ==
  /\ m \in Nat /\ s \in [1 .. m -> nodes]
  /\ \A j, k \in 1 .. m : s[j] = s[k] => j = k
  /\ \A n \in nodes : \E k \in 1 .. m : s[k] = n
  /\ head = IF m = 0 THEN NULL ELSE s[m]
  /\ \A k \in 1 .. m : next[s[k]] = IF k = 1 THEN NULL ELSE s[k - 1]

\* The node that the call of CPU c has unlinked, or not linked yet.
Detached(c) == IF pc[c] \in {"g_free", "p_link"} THEN {fp[c]} ELSE {}

\* The nodes of the list are all the nodes there are but the detached one.
ListInv(c) ==
  /\ \E m, s : Stack(fp_next, free_fp_list, alive \ Detached(c), m, s)
  /\ pc[c] \in {"g_fpn", "g_next", "g_store"} => fp[c] = free_fp_list
  /\ pc[c] # "idle" => fp[c] \in alive
  /\ pc[c] = "g_store" => nxt[c] = fp_next[fp[c]]
  /\ pc[c] = "p_link" => fp_next[fp[c]] = free_fp_list

\* Every frame has one node, or is held.
FrameInv(c) ==
  /\ \A n, o \in alive : fpn[n] = fpn[o] => n = o
  /\ \A n \in alive : fpn[n] \notin held[c]
  /\ \A f \in Frames : f \in held[c] \/ \E n \in alive : fpn[n] = f
  /\ pc[c] \in {"g_next", "g_store", "g_free"} => retfpn[c] = fpn[fp[c]]

IInv(c) == TypeOK /\ ~undefined /\ ListInv(c) /\ FrameInv(c)

-----------------------------------------------------------------------------
\* The device has a whole number of frames, and NULL and Wild are no nodes.
LEMMA Constants == /\ NumFp \in Nat /\ NumFp >= 1 /\ MaxNodes \in Nat /\ NumFp <= MaxNodes
                   /\ NULL \notin Nodes /\ Frames \subseteq Nodes /\ 0 \in Frames
                   /\ NULL # Wild /\ Wild \notin Nodes
<1>1. MaxSz \in Nat /\ PAGESZ \in Nat \ {0}
  BY MemPhyAssumption
<1>2. MaxSz \div PAGESZ \in Int
  BY <1>1
<1>3. NumFp \in Int
  BY <1>2 DEF NumFp
<1>4. QED
  BY <1>3, MemPhyAssumption DEF NULL, Wild, Nodes, Frames

\* Every variable has its type at the start ...
LEMMA InitTypes == Init => TypeOK
<1> SUFFICES ASSUME Init PROVE TypeOK
  OBVIOUS
<1>1. free_fp_list \in Pointers /\ alive \subseteq Nodes /\ alive = Frames
  BY Constants DEF Init, MEMPHY_format, Pointers
<1>2. fpn \in [Nodes -> Frames]
  BY <1>1, Constants DEF Init, MEMPHY_format
<1>3. fp_next \in [Nodes -> Pointers]
  BY <1>1 DEF Init, MEMPHY_format, Pointers
<1>4. undefined \in BOOLEAN
  BY DEF Init
<1>5. QED
  BY <1>1, <1>2, <1>3, <1>4, Constants DEF Init, TypeOK, PC, Pointers

\* ... and keeps it, whatever the CPUs do to each other.
LEMMA NextTypes == TypeOK /\ [Next]_vars => TypeOK'
<1> SUFFICES ASSUME TypeOK, [Next]_vars PROVE TypeOK'
  OBVIOUS
<1> DEFINE Lists == /\ free_fp_list \in Pointers /\ fpn \in [Nodes -> Frames]
                    /\ fp_next \in [Nodes -> Pointers] /\ alive \subseteq Nodes
           Locals == /\ pc \in [CPUs -> PC] /\ fp \in [CPUs -> Pointers] /\ nxt \in [CPUs -> Pointers]
                     /\ retfpn \in [CPUs -> Frames] /\ held \in [CPUs -> SUBSET Frames]
<1>0. Lists /\ Locals /\ undefined \in BOOLEAN /\ Nodes \subseteq Pointers
  BY DEF TypeOK, Pointers
<1>1. ASSUME NEW c \in CPUs, \/ get_head(c) \/ get_fpn(c) \/ get_next(c)
                             \/ get_store(c) \/ get_free(c) \/ put_link(c)
      PROVE  Lists' /\ Locals'
  BY <1>0, <1>1
     DEF get_head, get_fpn, get_next, get_store, get_free, put_link, Deref, Return, Goto, listVars,
         cpuVars, PC
<1>2. ASSUME NEW c \in CPUs, NEW f \in Frames, NEW n \in Nodes, put_new(c, f, n)
      PROVE  Lists' /\ Locals'
  BY <1>0, <1>2 DEF put_new, Goto, PC
<1>3. ASSUME UNCHANGED vars PROVE Lists' /\ Locals'
  BY <1>0, <1>3 DEF vars, listVars, cpuVars
<1>4. undefined' \in BOOLEAN
  BY <1>0 DEF Next, get_head, get_fpn, get_next, get_store, get_free, put_link, put_new, Deref, vars
<1>5. Lists' /\ Locals'
  BY <1>1, <1>2, <1>3 DEF Next
<1>6. QED
  BY <1>4, <1>5 DEF TypeOK

\* Every variable keeps its type, for any number of CPUs: even when they race,
\* what is stored in a pointer or a frame number is one.
THEOREM TypeCorrect == Spec => []TypeOK
  BY InitTypes, NextTypes, PTL DEF Spec

-----------------------------------------------------------------------------
(* Operations on the stack                                                  *)

\* What MEMPHY_format builds, from two frames on, is a stack of all nodes.
LEMMA FormatStack ==
  ASSUME Init, NumFp >= 2
  PROVE  Stack(fp_next, free_fp_list, alive, NumFp, [k \in 1 .. NumFp |-> NumFp - k])
<1>1. /\ alive = 0 .. NumFp - 1 /\ free_fp_list = 0
      /\ \A n \in Nodes : n # 0 => fp_next[n] = IF n + 1 \in alive THEN n + 1 ELSE NULL
      /\ 1 \in alive => fp_next[0] = 1
      /\ NumFp \in Nat /\ MaxNodes \in Nat /\ NumFp <= MaxNodes
  BY Constants DEF Init, MEMPHY_format, Nodes, Frames
<1>2. QED
  BY <1>1, Constants DEF Stack, Nodes

\* A node that points to the head is pushed.
LEMMA Push ==
  ASSUME NEW next, NEW head, NEW nodes, NEW m, NEW s, Stack(next, head, nodes, m, s),
         NEW n, n \notin nodes, next[n] = head
  PROVE  \E t : Stack(next, n, nodes \cup {n}, m + 1, t)
<1> DEFINE t == [k \in 1 .. m + 1 |-> IF k = m + 1 THEN n ELSE s[k]]
<1>0. m \in Nat /\ s \in [1 .. m -> nodes]
  BY DEF Stack
<1>1. t[m + 1] = n /\ \A k \in 1 .. m : t[k] = s[k] /\ s[k] \in nodes
  BY <1>0
<1>2. t \in [1 .. m + 1 -> nodes \cup {n}]
  BY <1>0
<1> HIDE DEF t
<1>3. ASSUME NEW j \in 1 .. m + 1, NEW k \in 1 .. m + 1, t[j] = t[k] PROVE j = k
  <2>1. CASE j \in 1 .. m /\ k \in 1 .. m
    BY <1>1, <1>3, <2>1 DEF Stack
  <2>2. CASE j = m + 1 \/ k = m + 1
    BY <1>0, <1>1, <1>3, <2>2
  <2>3. QED
    BY <1>0, <2>1, <2>2
<1>4. \A x \in nodes \cup {n} : \E k \in 1 .. m + 1 : t[k] = x
  BY <1>0, <1>1 DEF Stack
<1>5. ASSUME NEW k \in 1 .. m + 1
      PROVE  next[t[k]] = IF k = 1 THEN NULL ELSE t[k - 1]
  <2>1. CASE k = m + 1
    <3>1. next[t[k]] = head
      BY <1>1, <2>1
    <3>2. CASE m = 0
      BY <2>1, <3>1, <3>2 DEF Stack
    <3>3. CASE m # 0
      <4>1. head = s[m] /\ m \in 1 .. m /\ k # 1 /\ k - 1 = m
        BY <1>0, <2>1, <3>3 DEF Stack
      <4>2. QED
        BY <1>1, <3>1, <4>1
    <3>4. QED
      BY <3>2, <3>3
  <2>2. CASE k \in 1 .. m
    <3>1. next[s[k]] = IF k = 1 THEN NULL ELSE s[k - 1]
      BY <2>2 DEF Stack
    <3>2. t[k] = s[k] /\ (k # 1 => k - 1 \in 1 .. m /\ t[k - 1] = s[k - 1])
      BY <1>0, <1>1, <2>2
    <3>3. QED
      BY <3>1, <3>2
  <2>3. QED
    BY <1>0, <2>1, <2>2
<1>6. Stack(next, n, nodes \cup {n}, m + 1, t)
  <2>1. m + 1 \in Nat /\ m + 1 # 0
    BY <1>0
  <2>2. QED
    BY <1>1, <1>2, <1>3, <1>4, <1>5, <2>1 DEF Stack
<1>7. QED
  BY <1>6

\* The head is popped.
LEMMA Pop ==
  ASSUME NEW next, NEW head, NEW nodes, NEW m, NEW s, Stack(next, head, nodes, m, s),
         head # NULL
  PROVE  head \in nodes /\ \E t : Stack(next, next[head], nodes \ {head}, m - 1, t)
<1> DEFINE t == [k \in 1 .. m - 1 |-> s[k]]
<1>0. m \in Nat /\ m >= 1 /\ s \in [1 .. m -> nodes] /\ head = s[m] /\ m \in 1 .. m
  BY DEF Stack
<1>1. \A k \in 1 .. m - 1 : t[k] = s[k] /\ s[k] \in nodes \ {head} /\ k \in 1 .. m
  BY <1>0 DEF Stack
<1>2. t \in [1 .. m - 1 -> nodes \ {head}]
  BY <1>1
<1> HIDE DEF t
<1>3. \A j, k \in 1 .. m - 1 : t[j] = t[k] => j = k
  BY <1>0, <1>1 DEF Stack
<1>4. \A x \in nodes \ {head} : \E k \in 1 .. m - 1 : t[k] = x
  <2> SUFFICES ASSUME NEW x \in nodes \ {head} PROVE \E k \in 1 .. m - 1 : t[k] = x
    OBVIOUS
  <2>1. PICK k \in 1 .. m : s[k] = x
    BY DEF Stack
  <2>2. k \in 1 .. m - 1
    BY <1>0, <2>1
  <2>3. QED
    BY <1>1, <2>1, <2>2
<1>5. \A k \in 1 .. m - 1 : next[t[k]] = IF k = 1 THEN NULL ELSE t[k - 1]
  <2> SUFFICES ASSUME NEW k \in 1 .. m - 1
               PROVE  next[t[k]] = IF k = 1 THEN NULL ELSE t[k - 1]
    OBVIOUS
  <2>1. next[s[k]] = IF k = 1 THEN NULL ELSE s[k - 1]
    BY <1>1 DEF Stack
  <2>2. k # 1 => k - 1 \in 1 .. m - 1
    BY <1>0
  <2>3. QED
    BY <1>1, <2>1, <2>2
<1>6. next[head] = IF m - 1 = 0 THEN NULL ELSE t[m - 1]
  <2>1. next[head] = IF m = 1 THEN NULL ELSE s[m - 1]
    BY <1>0 DEF Stack
  <2>2. m # 1 => m - 1 \in 1 .. m - 1
    BY <1>0
  <2>3. QED
    BY <1>0, <1>1, <2>1, <2>2
<1>7. Stack(next, next[head], nodes \ {head}, m - 1, t)
  <2>1. m - 1 \in Nat
    BY <1>0
  <2>2. QED
    BY <1>2, <1>3, <1>4, <1>5, <1>6, <2>1 DEF Stack
<1>8. QED
  BY <1>0, <1>7

\* Only the pointers of the nodes on the stack matter.
LEMMA OtherPointers ==
  ASSUME NEW next, NEW head, NEW nodes, NEW m, NEW s, Stack(next, head, nodes, m, s),
         NEW other, \A n \in nodes : other[n] = next[n]
  PROVE  Stack(other, head, nodes, m, s)
  BY DEF Stack

-----------------------------------------------------------------------------
(* One caller                                                               *)

\* MEMPHY_format establishes the invariant.
LEMMA InitIInv == ASSUME NEW c \in CPUs, NumFp >= 2 PROVE Init => IInv(c)
<1> SUFFICES ASSUME Init PROVE IInv(c)
  OBVIOUS
<1>1. pc[c] = "idle" /\ held[c] = {} /\ undefined = FALSE
  BY DEF Init
<1>2. alive = Frames /\ \A n \in alive : fpn[n] = n
  BY Constants DEF Init, MEMPHY_format
<1>3. Detached(c) = {} /\ alive \ {} = alive
  BY <1>1 DEF Detached
<1>4. ListInv(c)
  BY <1>1, <1>3, FormatStack DEF ListInv
<1>5. FrameInv(c)
  BY <1>1, <1>2 DEF FrameInv
<1>6. QED
  BY <1>1, <1>4, <1>5, InitTypes DEF IInv

\* Every step of the only caller preserves the invariant.
LEMMA NextIInv ==
  ASSUME NEW c, CPUs = {c}
  PROVE  IInv(c) /\ [Next]_vars => IInv(c)'
<1> SUFFICES ASSUME IInv(c), [Next]_vars PROVE IInv(c)'
  OBVIOUS
<1>0. /\ TypeOK /\ ~undefined /\ ListInv(c) /\ FrameInv(c) /\ c \in CPUs
      /\ pc \in [CPUs -> PC] /\ fp \in [CPUs -> Pointers] /\ nxt \in [CPUs -> Pointers] /\ retfpn \in [CPUs -> Frames]
      /\ held \in [CPUs -> SUBSET Frames] /\ alive \subseteq Nodes
      /\ fpn \in [Nodes -> Frames] /\ fp_next \in [Nodes -> Pointers]
  BY DEF IInv, TypeOK
<1>1. TypeOK'
  BY <1>0, NextTypes
<1>2. PICK m, s : Stack(fp_next, free_fp_list, alive \ Detached(c), m, s)
  BY <1>0 DEF ListInv
<1>3. CASE get_head(c)
  <2>1. /\ pc[c] = "idle" /\ fp' = [fp EXCEPT ![c] = free_fp_list]
        /\ pc' = IF free_fp_list = NULL THEN pc ELSE [pc EXCEPT ![c] = "g_fpn"]
        /\ UNCHANGED <<free_fp_list, fpn, fp_next, alive, retfpn, held, undefined>>
    BY <1>3 DEF get_head, At, Goto, listVars
  <2>2. Detached(c) = {} /\ Detached(c)' = {} /\ fp'[c] = free_fp_list
        /\ pc'[c] = IF free_fp_list = NULL THEN "idle" ELSE "g_fpn"
    BY <1>0, <2>1 DEF Detached
  <2>3. pc'[c] # "idle" => fp'[c] \in alive
    <3>1. free_fp_list # NULL => free_fp_list \in alive \ Detached(c)
      BY <1>2, Pop
    <3>2. QED
      BY <2>2, <3>1
  <2>4. ListInv(c)'
    BY <1>2, <2>1, <2>2, <2>3 DEF ListInv
  <2>5. FrameInv(c)'
    BY <1>0, <2>1, <2>2 DEF FrameInv
  <2>6. QED
    BY <1>0, <1>1, <2>1, <2>4, <2>5 DEF IInv
<1>4. CASE get_fpn(c)
  <2>1. /\ pc[c] = "g_fpn" /\ fp[c] \in alive /\ retfpn' = [retfpn EXCEPT ![c] = fpn[fp[c]]]
        /\ pc' = [pc EXCEPT ![c] = "g_next"]
        /\ UNCHANGED <<free_fp_list, fpn, fp_next, alive, fp, held, undefined>>
    BY <1>0, <1>4 DEF get_fpn, At, Goto, listVars, Deref, ListInv
  <2>2. Detached(c) = {} /\ Detached(c)' = {} /\ pc'[c] = "g_next"
    BY <1>0, <2>1 DEF Detached
  <2>3. ListInv(c)'
    BY <1>0, <1>2, <2>1, <2>2 DEF ListInv
  <2>4. FrameInv(c)'
    BY <1>0, <2>1, <2>2 DEF FrameInv
  <2>5. QED
    BY <1>0, <1>1, <2>1, <2>3, <2>4 DEF IInv
<1>5. CASE get_next(c)
  <2>1. /\ pc[c] = "g_next" /\ fp[c] \in alive /\ nxt' = [nxt EXCEPT ![c] = fp_next[fp[c]]]
        /\ pc' = [pc EXCEPT ![c] = "g_store"]
        /\ UNCHANGED <<free_fp_list, fpn, fp_next, alive, fp, retfpn, held, undefined>>
    BY <1>0, <1>5 DEF get_next, At, Goto, listVars, Deref, ListInv
  <2>2. Detached(c) = {} /\ Detached(c)' = {} /\ pc'[c] = "g_store" /\ nxt'[c] = fp_next[fp[c]]
    BY <1>0, <2>1 DEF Detached
  <2>3. ListInv(c)'
    BY <1>0, <1>2, <2>1, <2>2 DEF ListInv
  <2>4. FrameInv(c)'
    BY <1>0, <2>1, <2>2 DEF FrameInv
  <2>5. QED
    BY <1>0, <1>1, <2>1, <2>3, <2>4 DEF IInv
<1>6. CASE get_store(c)
  <2>1. /\ pc[c] = "g_store" /\ fp[c] \in alive /\ free_fp_list' = fp_next[fp[c]]
        /\ pc' = [pc EXCEPT ![c] = "g_free"] /\ fp[c] = free_fp_list
        /\ UNCHANGED <<fpn, fp_next, alive, fp, retfpn, held, undefined>>
    BY <1>0, <1>6 DEF get_store, At, Goto, ListInv
  <2>2. Detached(c) = {} /\ Detached(c)' = {fp[c]} /\ pc'[c] = "g_free"
    BY <1>0, <2>1 DEF Detached
  <2>3. \E t : Stack(fp_next, fp_next[fp[c]], alive \ {fp[c]}, m - 1, t)
    <3>1. fp[c] # NULL
      BY <1>0, <2>1, Constants
    <3>2. alive \ Detached(c) = alive
      BY <2>2
    <3>3. QED
      BY <1>2, <2>1, <3>1, <3>2, Pop
  <2>4. ListInv(c)'
    BY <2>1, <2>2, <2>3 DEF ListInv
  <2>5. FrameInv(c)'
    BY <1>0, <2>1, <2>2 DEF FrameInv
  <2>6. QED
    BY <1>0, <1>1, <2>1, <2>4, <2>5 DEF IInv
<1>7. CASE get_free(c)
  <2>1. /\ pc[c] = "g_free" /\ fp[c] \in alive /\ alive' = alive \ {fp[c]}
        /\ undefined' = (fp[c] \notin alive)
        /\ held' = [held EXCEPT ![c] = @ \cup {retfpn[c]}] /\ pc' = [pc EXCEPT ![c] = "idle"]
        /\ UNCHANGED <<free_fp_list, fpn, fp_next, fp, retfpn>>
        /\ retfpn[c] = fpn[fp[c]]
    BY <1>0, <1>7 DEF get_free, Return, At, Goto, ListInv, FrameInv
  <2>2. Detached(c) = {fp[c]} /\ Detached(c)' = {} /\ pc'[c] = "idle"
    BY <1>0, <2>1 DEF Detached
  <2>3. alive' \ Detached(c)' = alive \ Detached(c)
    BY <2>1, <2>2
  <2>4. ListInv(c)'
    BY <1>2, <2>1, <2>2, <2>3 DEF ListInv
  <2>5. held'[c] = held[c] \cup {fpn[fp[c]]}
    BY <1>0, <2>1
  <2>6. FrameInv(c)'
    <3>1. \A n, o \in alive' : fpn'[n] = fpn'[o] => n = o
      BY <1>0, <2>1 DEF FrameInv
    <3>2. \A n \in alive' : fpn'[n] \notin held'[c]
      BY <1>0, <2>1, <2>5 DEF FrameInv
    <3>3. \A f \in Frames : f \in held'[c] \/ \E n \in alive' : fpn'[n] = f
      BY <1>0, <2>1, <2>5 DEF FrameInv
    <3>4. QED
      BY <2>2, <3>1, <3>2, <3>3 DEF FrameInv
  <2>7. ~undefined'
    BY <2>1
  <2>8. QED
    BY <1>1, <2>4, <2>6, <2>7 DEF IInv
<1>8. ASSUME NEW f \in Frames, NEW n \in Nodes, put_new(c, f, n) PROVE IInv(c)'
  <2>1. /\ pc[c] = "idle" /\ f \in held[c] /\ n \notin alive /\ alive' = alive \cup {n}
        /\ fpn' = [fpn EXCEPT ![n] = f] /\ fp_next' = [fp_next EXCEPT ![n] = free_fp_list]
        /\ held' = [held EXCEPT ![c] = @ \ {f}]
        /\ fp' = [fp EXCEPT ![c] = n] /\ pc' = [pc EXCEPT ![c] = "p_link"]
        /\ UNCHANGED <<free_fp_list, retfpn, undefined>>
    BY <1>8 DEF put_new, At, Goto
  <2>2. /\ Detached(c) = {} /\ Detached(c)' = {n} /\ pc'[c] = "p_link" /\ fp'[c] = n
        /\ held'[c] = held[c] \ {f} /\ fpn'[n] = f /\ fp_next'[n] = free_fp_list
        /\ \A o \in alive : fpn'[o] = fpn[o] /\ fp_next'[o] = fp_next[o]
    BY <1>0, <2>1 DEF Detached
  <2>3. alive' \ Detached(c)' = alive /\ alive \ Detached(c) = alive
    BY <2>1, <2>2
  <2>4. Stack(fp_next', free_fp_list, alive, m, s)
    BY <1>2, <2>2, <2>3, OtherPointers
  <2>5. ListInv(c)'
    <3>1. \E k, t : Stack(fp_next, free_fp_list, alive \ Detached(c), k, t)'
      BY <2>1, <2>3, <2>4
    <3>2. fp'[c] \in alive' /\ fp_next'[fp'[c]] = free_fp_list'
      BY <2>1, <2>2
    <3>3. QED
      BY <2>2, <3>1, <3>2 DEF ListInv
  <2>6. FrameInv(c)'
    <3>1. \A x, y \in alive' : fpn'[x] = fpn'[y] => x = y
      BY <1>0, <2>1, <2>2 DEF FrameInv
    <3>2. \A x \in alive' : fpn'[x] \notin held'[c]
      BY <1>0, <2>1, <2>2 DEF FrameInv
    <3>3. \A g \in Frames : g \in held'[c] \/ \E x \in alive' : fpn'[x] = g
      BY <1>0, <2>1, <2>2 DEF FrameInv
    <3>4. QED
      BY <2>2, <3>1, <3>2, <3>3 DEF FrameInv
  <2>7. QED
    BY <1>0, <1>1, <2>1, <2>5, <2>6 DEF IInv
<1>9. CASE put_link(c)
  <2>1. /\ pc[c] = "p_link" /\ fp[c] \in alive /\ fp_next[fp[c]] = free_fp_list
        /\ free_fp_list' = fp[c] /\ pc' = [pc EXCEPT ![c] = "idle"]
        /\ UNCHANGED <<fpn, fp_next, alive, fp, retfpn, held, undefined>>
    BY <1>0, <1>9 DEF put_link, At, Goto, ListInv
  <2>2. Detached(c) = {fp[c]} /\ Detached(c)' = {} /\ pc'[c] = "idle"
    BY <1>0, <2>1 DEF Detached
  <2>3. \E t : Stack(fp_next, fp[c], (alive \ {fp[c]}) \cup {fp[c]}, m + 1, t)
    BY <1>2, <2>1, <2>2, Push
  <2>4. (alive \ {fp[c]}) \cup {fp[c]} = alive' \ Detached(c)'
    BY <2>1, <2>2
  <2>5. ListInv(c)'
    BY <2>1, <2>2, <2>3, <2>4 DEF ListInv
  <2>6. FrameInv(c)'
    BY <1>0, <2>1, <2>2 DEF FrameInv
  <2>7. QED
    BY <1>0, <1>1, <2>1, <2>5, <2>6 DEF IInv
<1>10. CASE UNCHANGED vars
  BY <1>0, <1>1, <1>10 DEF vars, listVars, cpuVars, IInv, ListInv, FrameInv, Detached
<1>11. QED
  BY <1>3, <1>4, <1>5, <1>6, <1>7, <1>8, <1>9, <1>10 DEF Next

\* The inductive invariant holds for one caller.
THEOREM Invariance ==
  ASSUME NEW c, CPUs = {c}, NumFp >= 2
  PROVE  Spec => []IInv(c)
<1>1. Init => IInv(c)
  BY InitIInv
<1>2. QED
  BY <1>1, NextIInv, PTL DEF Spec

\* One caller never gets a frame it already holds.
THEOREM FramesExclusiveAlone ==
  ASSUME NEW c, CPUs = {c}, NumFp >= 2
  PROVE  Spec => []FramesExclusive
<1>1. IInv(c) => FramesExclusive
  BY DEF IInv, FrameInv, ListInv, FramesExclusive
<1>2. QED
  BY <1>1, Invariance, PTL

\* One caller never follows or frees a pointer that is dangling or unset.
THEOREM NoUndefinedAlone ==
  ASSUME NEW c, CPUs = {c}, NumFp >= 2
  PROVE  Spec => []NoUndefined
<1>1. IInv(c) => NoUndefined
  BY DEF IInv, NoUndefined
<1>2. QED
  BY <1>1, Invariance, PTL

-----------------------------------------------------------------------------
(* Walking the list                                                         *)

\* A set of steps of the walk that is not empty has a first one.
LEMMA FirstStep ==
  ASSUME NEW S, S \subseteq Nat, S # {}
  PROVE  \E x \in S : \A y \in S : x <= y
<1> DEFINE Less == {ss \in Nat \X Nat : ss[1] < ss[2]}
<1>1. IsWellFoundedOn(Less, Nat)
  BY NatLessThanWellFounded, Zenon DEF OpToRel
<1>2. PICK x \in S : \A y \in S : ~(<<y, x>> \in Less)
  BY <1>1, WFMin, Zenon
<1>3. ASSUME NEW y \in S PROVE x <= y
  <2>1. y \in Nat /\ x \in Nat /\ ~(<<y, x>> \in Less)
    BY <1>2
  <2>2. y < x => <<y, x>> \in Less
    BY <2>1
  <2>3. QED
    BY <2>1, <2>2
<1>4. QED
  BY <1>3

\* The equation of a walk from head determines it: on a stack it comes to the
\* nodes from the top down, and then stays at NULL.
IsWalk(w, next, head) ==
  w = [k \in 0 .. MaxNodes |->
         IF k = 0 THEN head ELSE IF w[k - 1] \in Nodes THEN next[w[k - 1]] ELSE w[k - 1]]
Descent(m, s) == [k \in 0 .. MaxNodes |-> IF k < m THEN s[m - k] ELSE NULL]

\* The descent of a stack satisfies the equation ...
LEMMA DescentIsWalk ==
  ASSUME NEW nodes \in SUBSET Nodes, NEW next, NEW head, NEW m, NEW s,
         Stack(next, head, nodes, m, s)
  PROVE  IsWalk(Descent(m, s), next, head)
<1> DEFINE d == Descent(m, s)
           e == [k \in 0 .. MaxNodes |->
                  IF k = 0 THEN head ELSE IF d[k - 1] \in Nodes THEN next[d[k - 1]] ELSE d[k - 1]]
<1>0. m \in Nat /\ MaxNodes \in Nat /\ NULL \notin Nodes /\ s \in [1 .. m -> nodes]
  BY Constants DEF Stack
<1>1. \A k \in 0 .. MaxNodes : d[k] = IF k < m THEN s[m - k] ELSE NULL
  BY DEF Descent
<1>2. d = [k \in 0 .. MaxNodes |-> d[k]]
  BY DEF Descent
<1> HIDE DEF d
<1>3. ASSUME NEW k \in 0 .. MaxNodes PROVE d[k] = e[k]
  <2>1. CASE k = 0
    <3>1. e[k] = head
      BY <2>1
    <3>2. QED
      BY <1>0, <1>1, <2>1, <3>1 DEF Stack
  <2>2. CASE k # 0
    <3>1. e[k] = IF d[k - 1] \in Nodes THEN next[d[k - 1]] ELSE d[k - 1]
      BY <2>2
    <3>2. k - 1 \in 0 .. MaxNodes
      BY <1>0, <2>2
    <3>3. CASE k - 1 < m
      <4>1. m - (k - 1) \in 1 .. m
        BY <1>0, <2>2, <3>3
      <4>2. d[k - 1] = s[m - (k - 1)] /\ d[k - 1] \in Nodes
        BY <1>0, <1>1, <3>2, <3>3, <4>1
      <4>3. next[s[m - (k - 1)]] =
              IF m - (k - 1) = 1 THEN NULL ELSE s[m - (k - 1) - 1]
        BY <4>1 DEF Stack
      <4>4. (m - (k - 1)) - 1 = m - k /\ (m - (k - 1) = 1 <=> ~(k < m))
        BY <1>0, <3>3
      <4>5. d[k] = IF k < m THEN s[m - k] ELSE NULL
        BY <1>1
      <4>6. QED
        BY <3>1, <4>2, <4>3, <4>4, <4>5
    <3>4. CASE ~(k - 1 < m)
      <4>1. d[k - 1] = NULL /\ d[k] = NULL
        BY <1>0, <1>1, <3>2, <3>4
      <4>2. QED
        BY <1>0, <3>1, <4>1
    <3>5. QED
      BY <3>3, <3>4
  <2>3. QED
    BY <2>1, <2>2
<1>4. d = e
  <2>1. e = [k \in 0 .. MaxNodes |-> e[k]]
    OBVIOUS
  <2> HIDE DEF e
  <2>2. QED
    BY <1>2, <1>3, <2>1
<1>5. QED
  BY <1>4 DEF IsWalk, d

\* ... and nothing else does.
LEMMA WalkUnique ==
  ASSUME NEW next, NEW head, NEW v, NEW w, IsWalk(v, next, head), IsWalk(w, next, head)
  PROVE  v = w
<1>0. MaxNodes \in Nat
  BY Constants
<1>1. /\ \A k \in 0 .. MaxNodes : v[k] =
           IF k = 0 THEN head ELSE IF v[k - 1] \in Nodes THEN next[v[k - 1]] ELSE v[k - 1]
      /\ \A k \in 0 .. MaxNodes : w[k] =
           IF k = 0 THEN head ELSE IF w[k - 1] \in Nodes THEN next[w[k - 1]] ELSE w[k - 1]
      /\ v = [k \in 0 .. MaxNodes |-> v[k]] /\ w = [k \in 0 .. MaxNodes |-> w[k]]
  BY DEF IsWalk
<1> DEFINE Differ == {k \in 0 .. MaxNodes : v[k] # w[k]}
<1>2. Differ = {}
  <2> SUFFICES ASSUME Differ # {} PROVE FALSE
    OBVIOUS
  <2>1. PICK x \in Differ : \A y \in Differ : x <= y
    <3>1. Differ \subseteq Nat
      OBVIOUS
    <3> HIDE DEF Differ
    <3>2. QED
      BY <3>1, FirstStep
  <2>2. x \in 0 .. MaxNodes /\ v[x] # w[x]
    BY <2>1
  <2>3. x # 0
    BY <1>1, <2>2
  <2>4. x - 1 \in 0 .. MaxNodes /\ ~(x <= x - 1)
    BY <1>0, <2>2, <2>3
  <2>5. v[x - 1] = w[x - 1]
    BY <2>1, <2>4
  <2>6. QED
    BY <1>1, <2>2, <2>3, <2>5
<1>3. QED
  BY <1>1, <1>2

\* The nodes are as many as malloc can have out.
LEMMA NodeCount == IsFiniteSet(Nodes) /\ Cardinality(Nodes) = MaxNodes
<1>1. MaxNodes \in Nat /\ 0 \in Int /\ MaxNodes - 1 \in Int
  BY Constants
<1>2. /\ IsFiniteSet(0 .. MaxNodes - 1)
      /\ Cardinality(0 .. MaxNodes - 1) =
           IF 0 > MaxNodes - 1 THEN 0 ELSE (MaxNodes - 1) - 0 + 1
  BY <1>1, FS_Interval, Zenon
<1>3. QED
  BY <1>1, <1>2 DEF Nodes

\* Walking a stack from its head meets exactly its nodes: it has no more than
\* MaxNodes of them.
LEMMA WalkStack ==
  ASSUME alive \subseteq Nodes, NEW m, NEW s, Stack(fp_next, free_fp_list, alive, m, s)
  PROVE  Walk = alive
<1> DEFINE w[k \in 0 .. MaxNodes] ==
             IF k = 0 THEN free_fp_list
             ELSE IF w[k - 1] \in Nodes THEN fp_next[w[k - 1]] ELSE w[k - 1]
<1>1. Walk = {w[k] : k \in 0 .. MaxNodes} \cap Nodes
  BY DEF Walk
<1>2. IsWalk(Descent(m, s), fp_next, free_fp_list)
  BY DescentIsWalk
<1>3. w = CHOOSE f : IsWalk(f, fp_next, free_fp_list)
  BY Zenon DEF IsWalk
<1> HIDE DEF w
<1>4. w = Descent(m, s)
  BY <1>2, <1>3, WalkUnique, Zenon
<1>5. m \in Nat /\ m <= MaxNodes
  <2>1. m \in Nat /\ s \in Injection(1 .. m, Nodes)
    BY DEF Stack, Injection, IsInjective
  <2>2. IsFiniteSet(Nodes) /\ Cardinality(Nodes) = MaxNodes
    BY NodeCount
  <2>3. Cardinality(1 .. m) <= Cardinality(Nodes)
    BY <2>1, <2>2, FS_Injection
  <2>4. Cardinality(1 .. m) = m
    <3>1. 1 \in Int /\ m \in Int
      BY <2>1
    <3>2. Cardinality(1 .. m) = IF 1 > m THEN 0 ELSE m - 1 + 1
      BY <3>1, FS_Interval, Zenon
    <3>3. QED
      BY <2>1, <3>2
  <2>5. QED
    BY <2>1, <2>2, <2>3, <2>4
<1>6. \A k \in 0 .. MaxNodes : w[k] = IF k < m THEN s[m - k] ELSE NULL
  BY <1>4 DEF Descent
<1>7. /\ MaxNodes \in Nat /\ NULL \notin Nodes /\ s \in [1 .. m -> alive]
      /\ \A n \in alive : \E k \in 1 .. m : s[k] = n
  BY Constants DEF Stack
<1>8. ASSUME NEW n \in alive PROVE n \in Walk
  <2>1. PICK k \in 1 .. m : s[k] = n
    BY <1>7
  <2>2. m - k \in 0 .. MaxNodes /\ m - k < m /\ m - (m - k) = k
    BY <1>5, <1>7
  <2>3. w[m - k] = n
    BY <1>6, <2>1, <2>2
  <2>4. QED
    BY <1>1, <2>2, <2>3
<1>9. ASSUME NEW n \in Walk PROVE n \in alive
  <2>1. PICK k \in 0 .. MaxNodes : n = w[k] /\ n \in Nodes
    BY <1>1
  <2>2. k < m
    BY <1>6, <1>7, <2>1
  <2>3. m - k \in 1 .. m
    BY <1>5, <1>7, <2>2
  <2>4. QED
    BY <1>6, <1>7, <2>1, <2>2, <2>3
<1>10. QED
  BY <1>8, <1>9

\* Between the calls of one caller every frame is held or on the list, and the
\* list has exactly the nodes that are malloc'ed: no memory leaks.
THEOREM NoneLostAlone ==
  ASSUME NEW c, CPUs = {c}, NumFp >= 2
  PROVE  Spec => []NoneLost
<1>1. IInv(c) => NoneLost
  <2> SUFFICES ASSUME IInv(c), pc[c] = "idle"
               PROVE  /\ Walk = alive
                      /\ {fpn[n] : n \in Walk} = Frames \ UNION {held[b] : b \in CPUs}
    BY DEF NoneLost
  <2>1. TypeOK /\ ListInv(c) /\ FrameInv(c)
    BY DEF IInv
  <2>2. alive \ Detached(c) = alive
    BY DEF Detached
  <2>3. Walk = alive
    BY <2>1, <2>2, WalkStack DEF ListInv, TypeOK
  <2>4. UNION {held[b] : b \in CPUs} = held[c]
    OBVIOUS
  <2>5. {fpn[n] : n \in alive} = Frames \ held[c]
    BY <2>1 DEF FrameInv, TypeOK
  <2>6. QED
    BY <2>3, <2>4, <2>5
<1>2. QED
  BY <1>1, Invariance, PTL
=============================================================================
