---------------------------- MODULE RegionsProofs ----------------------------
(***************************************************************************)
(* Proofs about Regions.tla, for every page size, size of the symbol table *)
(* and set of arguments.  A region is an interval; every step of           *)
(* get_free_vmrg_area only shrinks the free regions, and what it finds is  *)
(* cut from one of them.                                                   *)
(***************************************************************************)
EXTENDS Regions, TLAPS, SequenceTheorems

-----------------------------------------------------------------------------
(* The inductive invariant                                                  *)

\* A region of the area, perhaps an empty one.
InArea(rg) == /\ 0 <= rg.rg_start /\ rg.rg_start <= rg.rg_end
              /\ rg.rg_end <= vm_end

\* Every region the program keeps is one of the area, or a mark; and the area
\* has room to grow by what ALLOC asks for.
AreaInv ==
  /\ \A r \in Symbols : symrgtbl[r] \in {Invalid, Unset} \/ InArea(symrgtbl[r])
  /\ \A k \in DOMAIN vm_freerg_list : InArea(FreeRg(k))
  /\ newrg = Invalid \/ InArea(newrg)
  /\ pc = "scan" => vm_end + PAGING_PAGE_ALIGNSZ(size) <= MaxEnd

\* Before the area grows there is nothing to hand out.
EmptyInv == grown = 0 =>
  /\ \A r \in Symbols : Room(symrgtbl[r]) = 0
  /\ \A k \in DOMAIN vm_freerg_list : Room(FreeRg(k)) = 0
  /\ Room(newrg) = 0

\* No address is handed out twice, what the scan has found so far included.
DisjointInv == grown <= 1 =>
  /\ \A q, r \in Symbols : q # r => ~Overlap(symrgtbl[q], symrgtbl[r])
  /\ \A j, k \in DOMAIN vm_freerg_list : j # k => ~Overlap(FreeRg(j), FreeRg(k))
  /\ \A r \in Symbols, k \in DOMAIN vm_freerg_list : ~Overlap(symrgtbl[r], FreeRg(k))
  /\ pc = "scan" => /\ \A r \in Symbols : ~Overlap(symrgtbl[r], newrg)
                    /\ \A k \in DOMAIN vm_freerg_list : ~Overlap(FreeRg(k), newrg)

IInv == TypeOK /\ AreaInv /\ EmptyInv /\ DisjointInv

-----------------------------------------------------------------------------
(* Sequences, regions and page alignment                                    *)

\* What RemoveAt leaves: the elements behind the removed one move up.
LEMMA RemoveAtProperties ==
  ASSUME NEW S, NEW s \in Seq(S), NEW n \in 1 .. Len(s)
  PROVE  /\ RemoveAt(s, n) \in Seq(S)
         /\ Len(RemoveAt(s, n)) = Len(s) - 1
         /\ \A k \in 1 .. Len(s) - 1 : RemoveAt(s, n)[k] = IF k < n THEN s[k] ELSE s[k + 1]
<1> DEFINE a == SubSeq(s, 1, n - 1)
           b == SubSeq(s, n + 1, Len(s))
<1>0. Len(s) \in Nat /\ n \in Int /\ n >= 1 /\ n <= Len(s)
  BY LenProperties
<1>1. /\ a \in Seq(S) /\ Len(a) = n - 1
      /\ \A k \in 1 .. n - 1 : a[k] = s[k]
  <2>1. \A k \in 1 .. n - 1 : s[k] \in S
    BY <1>0, ElementOfSeq
  <2>2. /\ a \in Seq(S) /\ Len(a) = IF 1 <= n - 1 THEN (n - 1) - 1 + 1 ELSE 0
        /\ \A k \in 1 .. (n - 1) - 1 + 1 : a[k] = s[1 + k - 1]
    <3> HIDE DEF a
    <3>1. QED
      BY <1>0, <2>1, SubSeqProperties DEF a
  <2>3. QED
    <3> HIDE DEF a
    <3>1. QED
      BY <1>0, <2>2
<1>2. /\ b \in Seq(S) /\ Len(b) = Len(s) - n
      /\ \A k \in 1 .. Len(s) - n : b[k] = s[n + k]
  <2>1. \A k \in n + 1 .. Len(s) : s[k] \in S
    BY <1>0, ElementOfSeq
  <2>2. /\ b \in Seq(S) /\ Len(b) = IF n + 1 <= Len(s) THEN Len(s) - (n + 1) + 1 ELSE 0
        /\ \A k \in 1 .. Len(s) - (n + 1) + 1 : b[k] = s[(n + 1) + k - 1]
    <3> HIDE DEF b
    <3>1. QED
      BY <1>0, <2>1, SubSeqProperties DEF b
  <2>3. QED
    <3> HIDE DEF b
    <3>1. QED
      BY <1>0, <2>2
<1>3. /\ a \o b \in Seq(S) /\ Len(a \o b) = Len(a) + Len(b)
      /\ \A k \in 1 .. Len(a) + Len(b) :
           (a \o b)[k] = IF k <= Len(a) THEN a[k] ELSE b[k - Len(a)]
  BY <1>1, <1>2, ConcatProperties
<1>4. RemoveAt(s, n) = a \o b
  BY DEF RemoveAt
<1> HIDE DEF a, b
<1>5. ASSUME NEW k \in 1 .. Len(s) - 1
      PROVE  (a \o b)[k] = IF k < n THEN s[k] ELSE s[k + 1]
  <2>1. CASE k < n
    BY <1>0, <1>1, <1>2, <1>3, <2>1
  <2>2. CASE k >= n
    <3>1. k - (n - 1) \in 1 .. Len(s) - n /\ n + (k - (n - 1)) = k + 1
      BY <1>0, <2>2
    <3>2. (a \o b)[k] = b[k - (n - 1)]
      BY <1>0, <1>1, <1>2, <1>3, <2>2
    <3>3. b[k - (n - 1)] = s[n + (k - (n - 1))]
      BY <1>2, <3>1
    <3>4. ~(k < n)
      BY <1>0, <2>2
    <3>5. QED
      BY <3>1, <3>2, <3>3, <3>4, Zenon
  <2>3. k < n \/ k >= n
    BY <1>0
  <2>4. QED
    BY <2>1, <2>2, <2>3, Zenon
<1>6. QED
  BY <1>0, <1>1, <1>2, <1>3, <1>4, <1>5

\* A list of one node.
LEMMA Singleton ==
  ASSUME NEW S, NEW e \in S
  PROVE  /\ <<e>> \in Seq(S) /\ Len(<<e>>) = 1 /\ DOMAIN <<e>> = {1} /\ <<e>>[1] = e
         /\ <<e>> # <<>>
  OBVIOUS

\* A request is rounded up to a number of bytes.
LEMMA AlignType == ASSUME NEW sz \in Nat PROVE PAGING_PAGE_ALIGNSZ(sz) \in Nat
<1>1. PAGESZ \in Nat \ {0} /\ sz + PAGESZ - 1 \in Nat
  BY RegionsAssumption
<1>2. (sz + PAGESZ - 1) \div PAGESZ \in Nat
  BY <1>1
<1>3. \A m, n \in Nat : m * n \in Nat
  OBVIOUS
<1>4. QED
  BY <1>1, <1>2, <1>3, Zenon DEF PAGING_PAGE_ALIGNSZ

\* Parts of regions that do not overlap do not overlap.
LEMMA PartsDisjoint ==
  ASSUME NEW a \in AllRegions, NEW b \in AllRegions, NEW c \in AllRegions,
         NEW d \in AllRegions, Within(a, b), Within(c, d), ~Overlap(b, d)
  PROVE  ~Overlap(a, c)
  BY RegionsAssumption DEF AllRegions, Places, Within, Overlap, Room

\* Overlap is symmetric.
LEMMA OverlapSymmetric == \A a, b : Overlap(a, b) <=> Overlap(b, a)
  BY DEF Overlap

\* A region of the area is a region.
LEMMA RegionType ==
  ASSUME vm_end \in 0 .. MaxEnd, NEW s \in Int, NEW e \in Int, InArea(Region(s, e))
  PROVE  Region(s, e) \in AllRegions
  BY RegionsAssumption DEF InArea, Region, AllRegions, Places

\* So are the marks, which are empty.
LEMMA Marks == /\ Invalid \in AllRegions /\ Unset \in AllRegions
               /\ Room(Invalid) = 0 /\ Room(Unset) = 0
  BY RegionsAssumption DEF Invalid, Unset, Region, AllRegions, Places, Room

\* Assigning a field of a node, or of its region, leaves the others alone.
LEMMA NodeUpdates ==
  /\ \A s, e, x, b : [Node(Region(s, e), b) EXCEPT !.rg.rg_start = x] = Node(Region(x, e), b)
  /\ \A rg, b, x : [Node(rg, b) EXCEPT !.param = x] = Node(rg, x)
  BY DEF Node, Region

ListNodes == [rg : AllRegions, param : BOOLEAN]

\* What the variables hold, in the form the proofs use.
LEMMA Shape ==
  ASSUME TypeOK
  PROVE  /\ vm_freerg_list \in Seq(ListNodes) /\ Len(vm_freerg_list) \in Nat
         /\ DOMAIN vm_freerg_list = 1 .. Len(vm_freerg_list)
         /\ vm_freerg_list # <<>> /\ Len(vm_freerg_list) >= 1
         /\ \A k \in DOMAIN vm_freerg_list :
              /\ vm_freerg_list[k] \in ListNodes /\ FreeRg(k) \in AllRegions
              /\ FreeRg(k).rg_start \in Int /\ FreeRg(k).rg_end \in Int
              /\ vm_freerg_list[k].param \in BOOLEAN
              /\ FreeRg(k) = Region(FreeRg(k).rg_start, FreeRg(k).rg_end)
              /\ vm_freerg_list[k] = Node(FreeRg(k), vm_freerg_list[k].param)
         /\ symrgtbl \in [Symbols -> AllRegions] /\ newrg \in AllRegions
         /\ rgit \in Nat /\ rgit >= 1 /\ size \in Nat /\ MaxEnd \in Nat
<1>1. vm_freerg_list \in Seq(ListNodes) /\ vm_freerg_list # <<>>
  BY DEF TypeOK, ListNodes
<1>2. /\ Len(vm_freerg_list) \in Nat /\ Len(vm_freerg_list) >= 1
      /\ DOMAIN vm_freerg_list = 1 .. Len(vm_freerg_list)
  BY <1>1, LenProperties, EmptySeq
<1>3. \A k \in DOMAIN vm_freerg_list : vm_freerg_list[k] \in ListNodes
  BY <1>1, <1>2, ElementOfSeq
<1>4. ASSUME NEW k \in DOMAIN vm_freerg_list
      PROVE  /\ FreeRg(k) \in AllRegions
             /\ FreeRg(k).rg_start \in Int /\ FreeRg(k).rg_end \in Int
             /\ vm_freerg_list[k].param \in BOOLEAN
             /\ FreeRg(k) = Region(FreeRg(k).rg_start, FreeRg(k).rg_end)
             /\ vm_freerg_list[k] = Node(FreeRg(k), vm_freerg_list[k].param)
  BY <1>3, RegionsAssumption DEF ListNodes, AllRegions, Places, FreeRg, Region, Node
<1>5. QED
  BY <1>1, <1>2, <1>3, <1>4, RegionsAssumption DEF TypeOK

-----------------------------------------------------------------------------
(* A cut of get_free_vmrg_area                                              *)

\* What a cut makes of the list: each new node is what is left of an old one,
\* and what is left of the current one does not overlap the piece cut off.
Shrunk(old, new, at, piece) ==
  \E origin \in [DOMAIN new -> DOMAIN old] :
    /\ \A j, k \in DOMAIN new : j # k => origin[j] # origin[k]
    /\ \A k \in DOMAIN new :
         /\ new[k].rg.rg_start <= new[k].rg.rg_end
         /\ Within(new[k].rg, old[origin[k]].rg)
         /\ origin[k] = at => ~Overlap(new[k].rg, piece)

\* The current region loses a piece in front and keeps its node.
LEMMA CutInPlace ==
  ASSUME TypeOK, AreaInv, NEW at \in DOMAIN vm_freerg_list,
         FreeRg(at).rg_start + size <= FreeRg(at).rg_end
  PROVE  LET new == [vm_freerg_list EXCEPT ![at].rg.rg_start = @ + size]
         IN  /\ new \in Seq(ListNodes) /\ Len(new) = Len(vm_freerg_list)
             /\ Shrunk(vm_freerg_list, new, at,
                       Region(FreeRg(at).rg_start, FreeRg(at).rg_start + size))
             /\ \A k \in 1 .. Len(vm_freerg_list) :
                  new[k].rg = IF k = at THEN Region(FreeRg(k).rg_start + size, FreeRg(k).rg_end)
                              ELSE FreeRg(k)
<1> DEFINE l == vm_freerg_list
           rest == Region(FreeRg(at).rg_start + size, FreeRg(at).rg_end)
           node == Node(rest, l[at].param)
           piece == Region(FreeRg(at).rg_start, FreeRg(at).rg_start + size)
           new == [l EXCEPT ![at] = node]
<1>1. [l EXCEPT ![at].rg.rg_start = @ + size] = new
  <2>1. l[at] = Node(Region(FreeRg(at).rg_start, FreeRg(at).rg_end), l[at].param)
    BY Shape
  <2>2. [l[at] EXCEPT !.rg.rg_start = l[at].rg.rg_start + size] = node
    BY <2>1, NodeUpdates DEF FreeRg
  <2>3. QED
    BY <2>2
<1>2. InArea(FreeRg(at)) /\ vm_end \in 0 .. MaxEnd /\ MaxEnd \in Nat
  BY RegionsAssumption DEF AreaInv, TypeOK
<1>3. rest \in AllRegions /\ node \in ListNodes
  <2>1. rest \in AllRegions
    BY <1>2, Shape DEF InArea, Region, AllRegions, Places
  <2>2. l[at].param \in BOOLEAN
    BY Shape
  <2> HIDE DEF rest
  <2>3. QED
    BY <2>1, <2>2 DEF Node, ListNodes
<1>4. /\ new \in Seq(ListNodes) /\ Len(new) = Len(l)
      /\ \A k \in 1 .. Len(l) : new[k] = IF k = at THEN node ELSE l[k]
  <2> HIDE DEF node
  <2>1. QED
    BY <1>3, Shape, ExceptSeq
<1>5. DOMAIN new = DOMAIN l /\ DOMAIN l = 1 .. Len(l)
  BY Shape
<1> HIDE DEF new
<1>6. Shrunk(l, new, at, piece)
  <2> DEFINE origin == [k \in DOMAIN new |-> k]
  <2>1. /\ origin \in [DOMAIN new -> DOMAIN l]
        /\ \A j, k \in DOMAIN new : j # k => origin[j] # origin[k]
    BY <1>5
  <2>2. ASSUME NEW k \in DOMAIN new
        PROVE  /\ new[k].rg.rg_start <= new[k].rg.rg_end
               /\ Within(new[k].rg, l[origin[k]].rg)
               /\ origin[k] = at => ~Overlap(new[k].rg, piece)
    <3>1. CASE k = at
      <4>1. new[k].rg = rest
        BY <1>4, <1>5, <3>1 DEF Node
      <4>2. /\ rest.rg_start = FreeRg(at).rg_start + size /\ rest.rg_end = FreeRg(at).rg_end
            /\ piece.rg_start = FreeRg(at).rg_start
            /\ piece.rg_end = FreeRg(at).rg_start + size
        BY DEF Region
      <4>3. l[origin[k]].rg = FreeRg(at)
        BY <1>5, <3>1 DEF FreeRg
      <4> HIDE DEF rest, piece
      <4>4. QED
        BY <4>1, <4>2, <4>3, Shape DEF Within, Overlap, Room
    <3>2. CASE k # at
      <4>1. new[k] = l[k] /\ origin[k] = k /\ k \in DOMAIN l
        BY <1>4, <1>5, <3>2
      <4>2. InArea(FreeRg(k)) /\ FreeRg(k) = l[k].rg
        BY <4>1 DEF AreaInv, FreeRg
      <4>3. QED
        BY <3>2, <4>1, <4>2, Shape DEF InArea, Within
    <3>3. QED
      BY <3>1, <3>2
  <2> HIDE DEF origin, piece
  <2>3. QED
    BY <2>1, <2>2 DEF Shrunk
<1>7. \A k \in 1 .. Len(l) : new[k].rg = IF k = at THEN rest ELSE FreeRg(k)
  <2>1. node.rg = rest
    BY DEF Node
  <2> HIDE DEF node, rest
  <2>2. QED
    BY <1>4, <2>1 DEF FreeRg
<1>8. \A k \in 1 .. Len(l) :
        new[k].rg = IF k = at THEN Region(FreeRg(k).rg_start + size, FreeRg(k).rg_end) ELSE FreeRg(k)
  BY <1>7, Zenon
<1>9. QED
  BY <1>1, <1>4, <1>6, <1>8, Zenon

\* The current region is used up and its node takes over the next one.
LEMMA CutAway ==
  ASSUME TypeOK, AreaInv, NEW at \in DOMAIN vm_freerg_list, at # Len(vm_freerg_list),
         NEW piece
  PROVE  LET new == [RemoveAt(vm_freerg_list, at) EXCEPT ![at].param = vm_freerg_list[at].param]
         IN  /\ new \in Seq(ListNodes) /\ Len(new) = Len(vm_freerg_list) - 1
             /\ Shrunk(vm_freerg_list, new, at, piece)
             /\ \A k \in 1 .. Len(vm_freerg_list) - 1 :
                  new[k].rg = IF k < at THEN FreeRg(k) ELSE FreeRg(k + 1)
<1> DEFINE l == vm_freerg_list
           removed == RemoveAt(l, at)
           node == Node(l[at + 1].rg, l[at].param)
           new == [removed EXCEPT ![at] = node]
<1>1. /\ l \in Seq(ListNodes) /\ Len(l) \in Nat /\ at \in 1 .. Len(l) - 1
      /\ at + 1 \in 1 .. Len(l) /\ DOMAIN l = 1 .. Len(l) /\ at \in 1 .. Len(l)
  BY Shape
<1>2. /\ removed \in Seq(ListNodes) /\ Len(removed) = Len(l) - 1
      /\ \A k \in 1 .. Len(l) - 1 : removed[k] = IF k < at THEN l[k] ELSE l[k + 1]
  BY <1>1, RemoveAtProperties
<1> HIDE DEF removed
<1>3. removed[at] = l[at + 1]
  BY <1>1, <1>2
<1>4. l[at + 1].rg \in AllRegions /\ l[at].param \in BOOLEAN
      /\ l[at + 1] = Node(l[at + 1].rg, l[at + 1].param)
  BY <1>1, Shape DEF FreeRg
<1>5. node \in ListNodes
  BY <1>4 DEF Node, ListNodes
<1>6. [removed EXCEPT ![at].param = l[at].param] = new
  <2>1. [removed[at] EXCEPT !.param = l[at].param] = node
    BY <1>3, <1>4, NodeUpdates
  <2>2. QED
    BY <2>1
<1>7. /\ new \in Seq(ListNodes) /\ Len(new) = Len(l) - 1
      /\ \A k \in 1 .. Len(l) - 1 : new[k] = IF k = at THEN node ELSE removed[k]
  <2>1. at \in 1 .. Len(removed)
    BY <1>1, <1>2
  <2> HIDE DEF node
  <2>2. /\ new \in Seq(ListNodes) /\ Len(new) = Len(removed)
        /\ \A k \in 1 .. Len(removed) : new[k] = IF k = at THEN node ELSE removed[k]
    BY <1>2, <1>5, <2>1, ExceptSeq
  <2>3. QED
    BY <1>2, <2>2, Zenon
<1>8. DOMAIN new = 1 .. Len(l) - 1
  BY <1>7, LenProperties
<1> HIDE DEF new
<1>9. Shrunk(l, new, at, piece)
  <2> DEFINE origin == [k \in DOMAIN new |-> IF k < at THEN k ELSE k + 1]
  <2>1. /\ origin \in [DOMAIN new -> DOMAIN l]
        /\ \A j, k \in DOMAIN new : j # k => origin[j] # origin[k]
        /\ \A k \in DOMAIN new : origin[k] # at
    BY <1>1, <1>8
  <2>2. ASSUME NEW k \in DOMAIN new
        PROVE  new[k].rg = l[origin[k]].rg
    <3>1. CASE k = at
      BY <1>1, <1>7, <1>8, <3>1 DEF Node
    <3>2. CASE k # at
      BY <1>1, <1>2, <1>7, <1>8, <3>2
    <3>3. QED
      BY <3>1, <3>2
  <2> HIDE DEF origin
  <2>3. ASSUME NEW k \in DOMAIN new
        PROVE  /\ new[k].rg.rg_start <= new[k].rg.rg_end
               /\ Within(new[k].rg, l[origin[k]].rg)
    <3>1. origin[k] \in DOMAIN l
      BY <2>1
    <3>2. InArea(FreeRg(origin[k])) /\ FreeRg(origin[k]) = l[origin[k]].rg
      BY <3>1 DEF AreaInv, FreeRg
    <3>3. QED
      BY <2>2, <3>1, <3>2, Shape DEF InArea, Within
  <2>4. QED
    BY <2>1, <2>3 DEF Shrunk
<1>10. \A k \in 1 .. Len(l) - 1 : new[k].rg = IF k < at THEN FreeRg(k) ELSE FreeRg(k + 1)
  <2>1. node.rg = l[at + 1].rg
    BY DEF Node
  <2>2. ~(at < at)
    BY <1>1
  <2> HIDE DEF node
  <2>3. QED
    BY <1>2, <1>7, <2>1, <2>2 DEF FreeRg
<1>11. QED
  BY <1>6, <1>7, <1>9, <1>10, Zenon DEF removed

\* The two cases together: what split and use_up do.
LEMMA Cut ==
  ASSUME TypeOK, AreaInv, split \/ use_up
  PROVE  /\ pc = "scan" /\ UNCHANGED <<scanFixed, rgit>>
         /\ rgit \in DOMAIN vm_freerg_list
         /\ FreeRg(rgit).rg_start + size <= FreeRg(rgit).rg_end
         /\ newrg' = Region(FreeRg(rgit).rg_start, FreeRg(rgit).rg_start + size)
         /\ vm_freerg_list' \in Seq(ListNodes) /\ rgit <= Len(vm_freerg_list')
         /\ Shrunk(vm_freerg_list, vm_freerg_list', rgit, newrg')
<1>1. /\ pc = "scan" /\ UNCHANGED <<scanFixed, rgit>> /\ rgit \in DOMAIN vm_freerg_list
      /\ FreeRg(rgit).rg_start + size <= FreeRg(rgit).rg_end /\ Current = FreeRg(rgit)
  BY Shape DEF split, use_up, UsesUp, At, Fits, Current, FreeRg
<1>2. newrg' = Region(FreeRg(rgit).rg_start, FreeRg(rgit).rg_start + size)
  <2>1. CASE split
    BY <1>1, <2>1 DEF split
  <2>2. CASE use_up
    <3>1. FreeRg(rgit) = Region(FreeRg(rgit).rg_start, FreeRg(rgit).rg_end)
      BY <1>1, Shape
    <3>2. newrg' = FreeRg(rgit) /\ FreeRg(rgit).rg_end = FreeRg(rgit).rg_start + size
      BY <1>1, <2>2 DEF use_up, UsesUp
    <3>3. QED
      BY <3>1, <3>2
  <2>3. QED
    BY <2>1, <2>2
<1>3. CASE vm_freerg_list' = [vm_freerg_list EXCEPT ![rgit].rg.rg_start = @ + size]
  <2>1. /\ vm_freerg_list' \in Seq(ListNodes) /\ Len(vm_freerg_list') = Len(vm_freerg_list)
        /\ Shrunk(vm_freerg_list, vm_freerg_list', rgit, newrg')
    BY <1>1, <1>2, <1>3, CutInPlace
  <2>2. QED
    BY <1>1, <1>2, <2>1, Shape
<1>4. CASE /\ rgit # Len(vm_freerg_list)
           /\ vm_freerg_list' = [RemoveAt(vm_freerg_list, rgit)
                                   EXCEPT ![rgit].param = vm_freerg_list[rgit].param]
  <2>1. /\ vm_freerg_list' \in Seq(ListNodes) /\ Len(vm_freerg_list') = Len(vm_freerg_list) - 1
        /\ Shrunk(vm_freerg_list, vm_freerg_list', rgit, newrg')
    BY <1>1, <1>4, CutAway
  <2>2. QED
    BY <1>1, <1>2, <1>4, <2>1, Shape
<1>5. QED
  BY <1>3, <1>4 DEF split, use_up, AtLast

\* A cut preserves the invariant.
LEMMA CutIInv == ASSUME IInv, split \/ use_up PROVE IInv'
<1> DEFINE l == vm_freerg_list
           cur == FreeRg(rgit)
<1>0. TypeOK /\ AreaInv /\ EmptyInv /\ DisjointInv
  BY DEF IInv
<1>1. /\ pc = "scan" /\ rgit \in DOMAIN l /\ cur.rg_start + size <= cur.rg_end
      /\ newrg' = Region(cur.rg_start, cur.rg_start + size)
      /\ l' \in Seq(ListNodes) /\ rgit <= Len(l')
      /\ UNCHANGED <<rg_next, symrgtbl, vm_end, pc, rgid, size, before, grown, undefined, rgit>>
  BY <1>0, Cut DEF scanFixed
<1>2. PICK origin \in [DOMAIN l' -> DOMAIN l] :
        /\ \A j, k \in DOMAIN l' : j # k => origin[j] # origin[k]
        /\ \A k \in DOMAIN l' :
             /\ l'[k].rg.rg_start <= l'[k].rg.rg_end
             /\ Within(l'[k].rg, l[origin[k]].rg)
             /\ origin[k] = rgit => ~Overlap(l'[k].rg, newrg')
  BY <1>0, Cut DEF Shrunk
<1>3. /\ Len(l') \in Nat /\ DOMAIN l' = 1 .. Len(l')
      /\ \A k \in DOMAIN l' : l'[k] \in ListNodes /\ l'[k].rg \in AllRegions
  <2>1. Len(l') \in Nat /\ DOMAIN l' = 1 .. Len(l')
    BY <1>1, LenProperties
  <2>2. \A k \in DOMAIN l' : l'[k] \in ListNodes
    BY <1>1, <2>1, ElementOfSeq
  <2>3. QED
    BY <2>1, <2>2 DEF ListNodes
<1>4. /\ cur.rg_start \in Int /\ cur.rg_end \in Int /\ cur \in AllRegions /\ size \in Nat
      /\ rgit \in Nat /\ rgit >= 1 /\ InArea(cur) /\ vm_end \in 0 .. MaxEnd /\ MaxEnd \in Nat
  BY <1>0, <1>1, Shape DEF AreaInv, TypeOK
<1>5. /\ newrg'.rg_start = cur.rg_start /\ newrg'.rg_end = cur.rg_start + size
      /\ newrg' # Invalid /\ Room(newrg') = size
  BY <1>1, <1>4 DEF Region, Invalid, Room, InArea
<1>6. newrg' \in AllRegions /\ InArea(newrg') /\ Within(newrg', cur)
  <2>1. InArea(newrg') /\ Within(newrg', cur)
    BY <1>1, <1>4, <1>5 DEF InArea, Within
  <2>2. QED
    BY <1>1, <1>4, <2>1, RegionType
<1>7. TypeOK'
  <2>1. l' # <<>>
    BY <1>1, <1>3, <1>4, EmptySeq
  <2>2. rgit \in 1 .. Len(l') + 1
    BY <1>1, <1>3, <1>4
  <2>3. QED
    BY <1>0, <1>1, <1>6, <2>1, <2>2 DEF TypeOK, ListNodes
<1>8. AreaInv'
  <2>1. ASSUME NEW k \in DOMAIN l' PROVE InArea(l'[k].rg)
    <3>1. origin[k] \in DOMAIN l /\ InArea(l[origin[k]].rg)
      BY <1>0, <1>2 DEF AreaInv, FreeRg
    <3>2. /\ l'[k].rg.rg_start \in Int /\ l'[k].rg.rg_end \in Int
          /\ l[origin[k]].rg.rg_start \in Int /\ l[origin[k]].rg.rg_end \in Int
      BY <1>0, <1>3, <1>4, <3>1, Shape DEF AllRegions, Places, FreeRg
    <3>3. QED
      BY <1>2, <1>4, <3>1, <3>2 DEF InArea, Within
  <2>2. \A k \in DOMAIN l' : InArea(FreeRg(k))'
    BY <1>1, <2>1 DEF InArea, FreeRg
  <2>3. InArea(newrg)'
    BY <1>1, <1>6 DEF InArea
  <2>4. QED
    BY <1>0, <1>1, <2>2, <2>3 DEF AreaInv, InArea
<1>9. EmptyInv'
  <2> SUFFICES ASSUME grown = 0
               PROVE  /\ \A k \in DOMAIN l' : Room(l'[k].rg) = 0
                      /\ Room(newrg') = 0
    BY <1>0, <1>1 DEF EmptyInv, FreeRg
  <2>1. \A k \in DOMAIN l : Room(l[k].rg) = 0
    BY <1>0 DEF EmptyInv, FreeRg
  <2>2. size = 0
    BY <1>1, <1>4, <2>1 DEF Room, FreeRg
  <2>3. ASSUME NEW k \in DOMAIN l' PROVE Room(l'[k].rg) = 0
    <3>1. origin[k] \in DOMAIN l
      BY <1>2
    <3>2. /\ l'[k].rg.rg_start \in Int /\ l'[k].rg.rg_end \in Int
          /\ l[origin[k]].rg.rg_start \in Int /\ l[origin[k]].rg.rg_end \in Int
      BY <1>0, <1>3, <1>4, <3>1, Shape DEF AllRegions, Places, FreeRg
    <3>3. QED
      BY <1>2, <2>1, <3>1, <3>2 DEF Room, Within
  <2>4. QED
    BY <1>5, <2>2, <2>3
<1>10. DisjointInv'
  <2> SUFFICES ASSUME grown <= 1
               PROVE  /\ \A j, k \in DOMAIN l' : j # k => ~Overlap(l'[j].rg, l'[k].rg)
                      /\ \A r \in Symbols, k \in DOMAIN l' : ~Overlap(symrgtbl[r], l'[k].rg)
                      /\ \A r \in Symbols : ~Overlap(symrgtbl[r], newrg')
                      /\ \A k \in DOMAIN l' : ~Overlap(l'[k].rg, newrg')
    BY <1>0, <1>1 DEF DisjointInv, FreeRg
  <2>1. /\ \A k \in DOMAIN l' : /\ origin[k] \in DOMAIN l /\ l[origin[k]].rg \in AllRegions
                                /\ l'[k].rg \in AllRegions
                                /\ Within(l'[k].rg, l[origin[k]].rg)
        /\ \A r \in Symbols : symrgtbl[r] \in AllRegions
    BY <1>0, <1>2, <1>3, Shape DEF FreeRg
  <2>2. /\ \A j, k \in DOMAIN l : j # k => ~Overlap(l[j].rg, l[k].rg)
        /\ \A r \in Symbols, k \in DOMAIN l : ~Overlap(symrgtbl[r], l[k].rg)
    BY <1>0 DEF DisjointInv, FreeRg
  <2>3. \A rg \in AllRegions : Within(rg, rg)
    BY <1>4 DEF Within, AllRegions, Places
  <2>4. ASSUME NEW j \in DOMAIN l', NEW k \in DOMAIN l', j # k
        PROVE  ~Overlap(l'[j].rg, l'[k].rg)
    BY <1>2, <2>1, <2>2, <2>4, PartsDisjoint
  <2>5. ASSUME NEW r \in Symbols, NEW k \in DOMAIN l'
        PROVE  ~Overlap(symrgtbl[r], l'[k].rg)
    BY <2>1, <2>2, <2>3, PartsDisjoint
  <2>6. ASSUME NEW r \in Symbols PROVE ~Overlap(symrgtbl[r], newrg')
    BY <1>1, <1>4, <1>6, <2>1, <2>2, <2>3, PartsDisjoint DEF FreeRg
  <2>7. ASSUME NEW k \in DOMAIN l' PROVE ~Overlap(l'[k].rg, newrg')
    <3>1. CASE origin[k] = rgit
      BY <1>2, <3>1
    <3>2. CASE origin[k] # rgit
      <4>1. ~Overlap(l[origin[k]].rg, cur)
        BY <1>1, <2>1, <2>2, <3>2 DEF FreeRg
      <4>2. QED
        BY <1>4, <1>6, <2>1, <4>1, PartsDisjoint
    <3>3. QED
      BY <3>1, <3>2
  <2>8. QED
    BY <2>4, <2>5, <2>6, <2>7
<1>11. QED
  BY <1>7, <1>8, <1>9, <1>10 DEF IInv

-----------------------------------------------------------------------------
(* The other steps                                                          *)

\* The end of the call, with a region found: it becomes that of the symbol.
LEMMA FoundIInv == ASSUME IInv, alloc_found PROVE IInv'
<1>0. TypeOK /\ AreaInv /\ EmptyInv /\ DisjointInv
  BY DEF IInv
<1>1. /\ pc = "scan" /\ pc' = "idle" /\ rgid \in Symbols /\ newrg.rg_start # -1
      /\ symrgtbl' = [symrgtbl EXCEPT ![rgid] = newrg]
      /\ UNCHANGED <<vm_freerg_list, rg_next, vm_end, rgid, size, rgit, newrg, before, grown,
                     undefined>>
  BY DEF alloc_found, Scanned, At
<1>2. /\ symrgtbl'[rgid] = newrg /\ newrg \in AllRegions /\ InArea(newrg)
      /\ symrgtbl \in [Symbols -> AllRegions]
      /\ \A r \in Symbols : r # rgid => symrgtbl'[r] = symrgtbl[r]
  BY <1>0, <1>1 DEF TypeOK, AreaInv, Invalid, Region
<1>3. TypeOK'
  BY <1>0, <1>1, <1>2 DEF TypeOK
<1>4. AreaInv'
  BY <1>0, <1>1, <1>2 DEF AreaInv, InArea, FreeRg
<1>5. EmptyInv'
  BY <1>0, <1>1, <1>2 DEF EmptyInv, FreeRg
<1>6. DisjointInv'
  BY <1>0, <1>1, <1>2, OverlapSymmetric DEF DisjointInv, FreeRg
<1>7. QED
  BY <1>1, <1>3, <1>4, <1>5, <1>6 DEF IInv

\* The end of the call, with none found: the symbol gets the area from sbrk.
LEMMA GrowIInv == ASSUME IInv, alloc_grow PROVE IInv'
<1> DEFINE inc_sz == PAGING_PAGE_ALIGNSZ(size)
           rg == Region(sbrk, sbrk + inc_sz)
<1>0. TypeOK /\ AreaInv /\ EmptyInv
  BY DEF IInv
<1>1. /\ pc = "scan" /\ pc' = "idle" /\ rgid \in Symbols
      /\ vm_end' = vm_end + inc_sz /\ grown' = grown + 1
      /\ symrgtbl' = [symrgtbl EXCEPT ![rgid] = rg]
      /\ UNCHANGED <<vm_freerg_list, rg_next, rgid, size, rgit, newrg, before, undefined>>
  BY DEF alloc_grow, inc_vma_limit, Scanned, At
<1>2. inc_sz \in Nat
  BY <1>0, AlignType DEF TypeOK
<1>3. vm_end + inc_sz <= MaxEnd
  BY <1>0, <1>1 DEF AreaInv
<1> HIDE DEF inc_sz
<1>4. /\ vm_end \in Nat /\ MaxEnd \in Nat /\ vm_end' \in 0 .. MaxEnd /\ vm_end <= vm_end'
      /\ grown \in Nat
  BY <1>0, <1>1, <1>2, <1>3, RegionsAssumption DEF TypeOK
<1>5. /\ rg.rg_start = 0 /\ rg.rg_end = inc_sz /\ rg \in AllRegions
  BY <1>2, <1>3, <1>4 DEF Region, sbrk, AllRegions, Places
<1> HIDE DEF rg
<1>6. /\ symrgtbl'[rgid] = rg /\ symrgtbl \in [Symbols -> AllRegions]
      /\ \A r \in Symbols : r # rgid => symrgtbl'[r] = symrgtbl[r]
  BY <1>0, <1>1 DEF TypeOK
<1>7. TypeOK'
  BY <1>0, <1>1, <1>4, <1>5, <1>6 DEF TypeOK
<1>8. AreaInv'
  <2> DEFINE InNewArea(a) == /\ 0 <= a.rg_start /\ a.rg_start <= a.rg_end
                             /\ a.rg_end <= vm_end'
  <2>1. ASSUME NEW a \in AllRegions, InArea(a) PROVE InNewArea(a)
    BY <1>4, <2>1 DEF InArea, AllRegions, Places
  <2>2. InNewArea(rg)
    BY <1>1, <1>2, <1>4, <1>5
  <2>3. ASSUME NEW r \in Symbols
        PROVE  symrgtbl'[r] \in {Invalid, Unset} \/ InNewArea(symrgtbl'[r])
    <3>1. CASE r = rgid
      BY <1>6, <2>2, <3>1
    <3>2. CASE r # rgid
      <4>1. symrgtbl'[r] = symrgtbl[r] /\ symrgtbl[r] \in AllRegions
        BY <1>6, <3>2
      <4>2. QED
        BY <1>0, <2>1, <4>1 DEF AreaInv
    <3>3. QED
      BY <3>1, <3>2
  <2>4. ASSUME NEW k \in DOMAIN vm_freerg_list PROVE InNewArea(FreeRg(k))
    BY <1>0, <2>1, Shape DEF AreaInv
  <2>5. newrg = Invalid \/ InNewArea(newrg)
    BY <1>0, <2>1 DEF AreaInv, TypeOK
  <2>6. QED
    BY <1>1, <2>3, <2>4, <2>5 DEF AreaInv, InArea, FreeRg
<1>9. EmptyInv' /\ grown' # 0
  BY <1>1, <1>4 DEF EmptyInv
<1>10. DisjointInv'
  <2> SUFFICES ASSUME grown = 0
               PROVE  /\ \A q, r \in Symbols : q # r => ~Overlap(symrgtbl'[q], symrgtbl'[r])
                      /\ \A j, k \in DOMAIN vm_freerg_list :
                           j # k => ~Overlap(FreeRg(j), FreeRg(k))
                      /\ \A r \in Symbols, k \in DOMAIN vm_freerg_list :
                           ~Overlap(symrgtbl'[r], FreeRg(k))
    BY <1>1, <1>4 DEF DisjointInv, FreeRg
  <2>1. /\ \A r \in Symbols : r # rgid => Room(symrgtbl'[r]) = 0
        /\ \A k \in DOMAIN vm_freerg_list : Room(FreeRg(k)) = 0
    BY <1>0, <1>6 DEF EmptyInv
  <2>2. \A a, b : Room(a) = 0 \/ Room(b) = 0 => ~Overlap(a, b)
    BY DEF Overlap
  <2>3. QED
    BY <2>1, <2>2
<1>11. QED
  BY <1>1, <1>7, <1>8, <1>9, <1>10 DEF IInv

\* FREE: the region of the symbol moves to the front of the list, unless it is
\* empty or a mark.
LEMMA FreeIInv == ASSUME IInv, NEW r \in Rgids, free(r) PROVE IInv'
<1> DEFINE l == vm_freerg_list
           rg == symrgtbl[r]
<1>0. TypeOK /\ AreaInv /\ EmptyInv /\ DisjointInv
  BY DEF IInv
<1>1. /\ pc = "idle" /\ r \in Symbols /\ l' = enlist_vm_freerg_list(rg)
      /\ symrgtbl' = [symrgtbl EXCEPT ![r] = Invalid]
      /\ UNCHANGED <<rg_next, vm_end, pc, rgid, size, rgit, newrg, before, grown, undefined>>
  BY DEF free, At, callVars
<1>2. /\ symrgtbl'[r] = Invalid /\ symrgtbl \in [Symbols -> AllRegions] /\ rg \in AllRegions
      /\ \A q \in Symbols : q # r => symrgtbl'[q] = symrgtbl[q]
      /\ Room(Invalid) = 0 /\ Invalid \in AllRegions
  BY <1>0, <1>1, Marks DEF TypeOK
<1>3. \A a : ~Overlap(Invalid, a) /\ ~Overlap(a, Invalid)
  BY <1>2 DEF Overlap
<1>4. symrgtbl' \in [Symbols -> AllRegions]
  BY <1>1, <1>2
<1>5. CASE rg.rg_start >= rg.rg_end
  <2>1. l' = l
    BY <1>1, <1>5 DEF enlist_vm_freerg_list
  <2>2. TypeOK'
    BY <1>0, <1>1, <1>4, <2>1 DEF TypeOK
  <2>3. AreaInv'
    BY <1>0, <1>1, <1>2, <2>1 DEF AreaInv, InArea, FreeRg
  <2>4. EmptyInv'
    BY <1>0, <1>1, <1>2, <2>1 DEF EmptyInv, FreeRg
  <2>5. DisjointInv'
    BY <1>0, <1>1, <1>2, <1>3, <2>1 DEF DisjointInv, FreeRg
  <2>6. QED
    BY <1>1, <2>2, <2>3, <2>4, <2>5 DEF IInv
<1>6. CASE ~(rg.rg_start >= rg.rg_end)
  <2>1. l' = <<Node(rg, TRUE)>> \o l
    BY <1>1, <1>6 DEF enlist_vm_freerg_list
  <2>2. Node(rg, TRUE) \in ListNodes
    BY <1>2 DEF Node, ListNodes
  <2>3. /\ l \in Seq(ListNodes) /\ Len(l) \in Nat /\ DOMAIN l = 1 .. Len(l)
    BY <1>0, Shape
  <2>4. /\ <<Node(rg, TRUE)>> \in Seq(ListNodes) /\ Len(<<Node(rg, TRUE)>>) = 1
        /\ <<Node(rg, TRUE)>>[1] = Node(rg, TRUE)
    BY <2>2, Singleton
  <2>5. /\ l' \in Seq(ListNodes) /\ Len(l') = 1 + Len(l)
        /\ \A k \in 1 .. 1 + Len(l) : l'[k] = IF k = 1 THEN Node(rg, TRUE) ELSE l[k - 1]
    <3>1. /\ l' \in Seq(ListNodes) /\ Len(l') = 1 + Len(l)
          /\ \A k \in 1 .. 1 + Len(l) :
               l'[k] = IF k <= 1 THEN <<Node(rg, TRUE)>>[k] ELSE l[k - 1]
      BY <2>1, <2>3, <2>4, ConcatProperties
    <3>2. ASSUME NEW k \in 1 .. 1 + Len(l)
          PROVE  l'[k] = IF k = 1 THEN Node(rg, TRUE) ELSE l[k - 1]
      <4> DEFINE one == <<Node(rg, TRUE)>>
      <4>1. l'[k] = IF k <= 1 THEN one[k] ELSE l[k - 1]
        BY <3>1
      <4>2. one[1] = Node(rg, TRUE)
        BY <2>4
      <4>3. k \in Int /\ k >= 1 /\ (k <= 1 <=> k = 1)
        BY <2>3
      <4> HIDE DEF one
      <4>4. QED
        BY <4>1, <4>2, <4>3
    <3>3. QED
      BY <3>1, <3>2
  <2>6. DOMAIN l' = 1 .. 1 + Len(l)
    BY <2>5, LenProperties
  <2>7. /\ l'[1].rg = rg /\ 1 \in DOMAIN l'
        /\ \A k \in DOMAIN l' : k # 1 => k - 1 \in DOMAIN l /\ l'[k].rg = l[k - 1].rg
    BY <2>3, <2>5, <2>6 DEF Node
  <2>8. TypeOK'
    <3>1. l' # <<>>
      BY <2>3, <2>5, EmptySeq
    <3>2. rgit \in 1 .. Len(l') + 1
      BY <1>0, <2>3, <2>5 DEF TypeOK
    <3>3. QED
      BY <1>0, <1>1, <1>4, <2>5, <3>1, <3>2 DEF TypeOK, ListNodes
  <2>9. AreaInv'
    <3>1. InArea(rg)
      BY <1>0, <1>1, <1>6 DEF AreaInv, Invalid, Unset, Region
    <3>2. \A k \in DOMAIN l' : InArea(l'[k].rg)
      BY <1>0, <2>7, <3>1 DEF AreaInv, FreeRg
    <3>3. QED
      BY <1>0, <1>1, <1>2, <3>2 DEF AreaInv, InArea, FreeRg
  <2>10. EmptyInv'
    <3>1. grown = 0 => \A k \in DOMAIN l' : Room(l'[k].rg) = 0
      BY <1>0, <1>1, <2>7 DEF EmptyInv, FreeRg
    <3>2. QED
      BY <1>0, <1>1, <1>2, <3>1 DEF EmptyInv, FreeRg
  <2>11. DisjointInv'
    <3> SUFFICES ASSUME grown <= 1
                 PROVE  /\ \A p, q \in Symbols : p # q => ~Overlap(symrgtbl'[p], symrgtbl'[q])
                        /\ \A j, k \in DOMAIN l' : j # k => ~Overlap(l'[j].rg, l'[k].rg)
                        /\ \A q \in Symbols, k \in DOMAIN l' : ~Overlap(symrgtbl'[q], l'[k].rg)
      BY <1>1 DEF DisjointInv, FreeRg
    <3>1. /\ \A p, q \in Symbols : p # q => ~Overlap(symrgtbl[p], symrgtbl[q])
          /\ \A j, k \in DOMAIN l : j # k => ~Overlap(l[j].rg, l[k].rg)
          /\ \A q \in Symbols, k \in DOMAIN l : ~Overlap(symrgtbl[q], l[k].rg)
      BY <1>0 DEF DisjointInv, FreeRg
    <3>2. \A p, q \in Symbols : p # q => ~Overlap(symrgtbl'[p], symrgtbl'[q])
      BY <1>2, <1>3, <3>1
    <3>3. ASSUME NEW j \in DOMAIN l', NEW k \in DOMAIN l', j # k
          PROVE  ~Overlap(l'[j].rg, l'[k].rg)
      <4>1. CASE j # 1 /\ k # 1
        <5>1. j - 1 # k - 1
          BY <2>3, <2>6, <3>3
        <5>2. QED
          BY <2>7, <3>1, <4>1, <5>1
      <4>2. CASE j = 1 \/ k = 1
        BY <1>1, <2>7, <3>1, <3>3, <4>2, OverlapSymmetric
      <4>3. QED
        BY <4>1, <4>2
    <3>4. ASSUME NEW q \in Symbols, NEW k \in DOMAIN l'
          PROVE  ~Overlap(symrgtbl'[q], l'[k].rg)
      <4>1. CASE q = r
        BY <1>2, <1>3, <4>1
      <4>2. CASE q # r
        BY <1>1, <1>2, <2>7, <3>1, <4>2
      <4>3. QED
        BY <4>1, <4>2
    <3>5. QED
      BY <3>2, <3>3, <3>4
  <2>12. QED
    BY <1>1, <2>8, <2>9, <2>10, <2>11 DEF IInv
<1>7. QED
  BY <1>5, <1>6

\* ALLOC: the scan starts.
LEMMA AllocIInv ==
  ASSUME IInv, NEW r \in Rgids, NEW sz \in Sizes, alloc(r, sz), undefined' # TRUE
  PROVE  IInv'
<1> DEFINE l == vm_freerg_list
<1>0. TypeOK /\ AreaInv /\ EmptyInv /\ DisjointInv
  BY DEF IInv
<1>1. /\ pc' = "scan" /\ rgid' = r /\ size' = sz /\ rgit' = 1 /\ newrg' = Invalid
      /\ before' = [k \in DOMAIN l |-> l[k].rg]
      /\ UNCHANGED <<l, rg_next, symrgtbl, vm_end, grown, undefined>>
      /\ vm_end + PAGING_PAGE_ALIGNSZ(sz) <= MaxEnd
  BY DEF alloc, Undefine
<1>2. r \in Nat /\ sz \in Nat
  BY RegionsAssumption
<1>3. /\ Len(l) \in Nat /\ DOMAIN l = 1 .. Len(l)
      /\ \A k \in 1 .. Len(l) : l[k].rg \in AllRegions
  BY <1>0, Shape DEF FreeRg
<1>4. before' \in Seq(AllRegions)
  <2>1. before' \in [1 .. Len(l) -> AllRegions]
    BY <1>1, <1>3
  <2>2. QED
    BY <1>3, <2>1, SeqDef
<1>5. TypeOK'
  BY <1>0, <1>1, <1>2, <1>3, <1>4, Marks DEF TypeOK
<1>6. AreaInv'
  BY <1>0, <1>1 DEF AreaInv, InArea, FreeRg, PAGING_PAGE_ALIGNSZ
<1>7. EmptyInv'
  BY <1>0, <1>1, Marks DEF EmptyInv, FreeRg
<1>8. DisjointInv'
  <2>1. \A a : ~Overlap(a, Invalid)
    BY Marks DEF Overlap
  <2>2. QED
    BY <1>0, <1>1, <2>1 DEF DisjointInv, FreeRg
<1>9. QED
  BY <1>5, <1>6, <1>7, <1>8 DEF IInv

\* The scan passes a region that is too small.
LEMMA SkipIInv == ASSUME IInv, skip PROVE IInv'
<1>0. TypeOK /\ AreaInv /\ EmptyInv /\ DisjointInv
  BY DEF IInv
<1>1. /\ pc = "scan" /\ rgit <= Len(vm_freerg_list) /\ ~Fits /\ rgit' = rgit + 1
      /\ UNCHANGED <<rg_next, symrgtbl, vm_end, pc, rgid, size, before, grown, undefined,
                     vm_freerg_list, newrg>>
  BY DEF skip, At, scanFixed
<1>2. /\ rgit \in DOMAIN vm_freerg_list /\ rgit \in Nat /\ rgit >= 1 /\ size \in Nat
      /\ Len(vm_freerg_list) \in Nat
  BY <1>0, <1>1, Shape
<1>3. TypeOK'
  BY <1>0, <1>1, <1>2 DEF TypeOK
<1>4. AreaInv' /\ EmptyInv' /\ DisjointInv'
  BY <1>0, <1>1 DEF AreaInv, InArea, EmptyInv, DisjointInv, FreeRg, PAGING_PAGE_ALIGNSZ
<1>5. QED
  BY <1>3, <1>4 DEF IInv

\* Raising undefined changes nothing else.
LEMMA UndefineIInv ==
  ASSUME IInv, Undefine \/ UNCHANGED vars
  PROVE  IInv'
<1>1. /\ UNCHANGED <<vm_freerg_list, rg_next, symrgtbl, vm_end, pc, rgid, size, rgit, newrg,
                     before, grown>>
      /\ undefined' \in BOOLEAN
  BY DEF IInv, TypeOK, Undefine, vars, callVars
<1>2. QED
  BY <1>1 DEF IInv, TypeOK, AreaInv, InArea, EmptyInv, DisjointInv, FreeRg,
              PAGING_PAGE_ALIGNSZ

\* init_mm establishes the invariant.
LEMMA InitIInv == Init => IInv
<1> SUFFICES ASSUME Init PROVE IInv
  OBVIOUS
<1> DEFINE zero == Region(0, 0)
<1>1. /\ vm_freerg_list = <<Node(zero, FALSE)>> /\ symrgtbl = [r \in Symbols |-> Unset]
      /\ vm_end = 0 /\ pc = "idle" /\ rgid = 0 /\ size = 0 /\ rgit = 1 /\ newrg = Invalid
      /\ before = <<>> /\ grown = 0 /\ undefined = FALSE /\ rg_next \in {"NULL", "wild"}
  BY DEF Init, sbrk
<1>2. /\ zero \in AllRegions /\ zero.rg_start = 0 /\ zero.rg_end = 0 /\ Room(zero) = 0
  BY RegionsAssumption DEF Region, AllRegions, Places, Room
<1> HIDE DEF zero
<1>3. Node(zero, FALSE) \in ListNodes /\ Node(zero, FALSE).rg = zero
  BY <1>2 DEF Node, ListNodes
<1>4. /\ vm_freerg_list \in Seq(ListNodes) /\ vm_freerg_list # <<>>
      /\ Len(vm_freerg_list) = 1 /\ DOMAIN vm_freerg_list = {1} /\ FreeRg(1) = zero
  <2>1. vm_freerg_list[1] = Node(zero, FALSE)
    BY <1>1, <1>3, Singleton
  <2>2. QED
    BY <1>1, <1>3, <2>1, Singleton DEF FreeRg
<1>5. TypeOK
  <2>1. undefined \in BOOLEAN
    BY <1>1
  <2>2. before \in Seq(AllRegions)
    BY <1>1, EmptySeq
  <2>3. rgit \in 1 .. Len(vm_freerg_list) + 1 /\ vm_end \in 0 .. MaxEnd
    BY <1>1, <1>4, RegionsAssumption
  <2>4. symrgtbl \in [Symbols -> AllRegions] /\ newrg \in AllRegions
    BY <1>1, Marks
  <2>5. pc \in {"idle", "scan"} /\ rgid \in Nat /\ size \in Nat /\ grown \in Nat
    BY <1>1
  <2>6. QED
    BY <1>1, <1>4, <2>1, <2>2, <2>3, <2>4, <2>5 DEF TypeOK, ListNodes
<1>6. AreaInv
  BY <1>1, <1>2, <1>4 DEF AreaInv, InArea
<1>7. EmptyInv
  BY <1>1, <1>2, <1>4, Marks DEF EmptyInv
<1>8. DisjointInv
  <2>1. \A a, b : Room(a) = 0 \/ Room(b) = 0 => ~Overlap(a, b)
    BY DEF Overlap
  <2>2. QED
    BY <1>1, <1>2, <1>4, <2>1, Marks DEF DisjointInv
<1>9. QED
  BY <1>1, <1>5, <1>6, <1>7, <1>8 DEF IInv

\* Every step preserves the invariant.
LEMMA NextIInv == IInv /\ [Next]_vars => IInv'
<1> SUFFICES ASSUME IInv, [Next]_vars PROVE IInv'
  OBVIOUS
<1>1. ASSUME NEW r \in Rgids, NEW sz \in Sizes, alloc(r, sz) PROVE IInv'
  <2>1. CASE Undefine
    BY <2>1, UndefineIInv
  <2>2. CASE ~Undefine
    <3>1. undefined' # TRUE
      BY <1>1, <2>2 DEF alloc, At, IInv, TypeOK
    <3>2. QED
      BY <1>1, <3>1, AllocIInv
  <2>3. QED
    BY <2>1, <2>2
<1>2. ASSUME NEW r \in Rgids, free(r) PROVE IInv'
  BY <1>2, FreeIInv
<1>3. ASSUME NEW r \in Rgids, free_undefined(r) \/ free_refused(r) PROVE IInv'
  BY <1>3, UndefineIInv DEF free_undefined, free_refused
<1>4. CASE get_free_vmrg_area
  BY <1>4, CutIInv, SkipIInv, UndefineIInv DEF get_free_vmrg_area, use_up_undefined
<1>5. CASE Return
  BY <1>5, FoundIInv, GrowIInv, UndefineIInv DEF Return, alloc_undefined
<1>6. CASE Stopped \/ UNCHANGED vars
  BY <1>6, UndefineIInv DEF Stopped
<1>7. QED
  BY <1>1, <1>2, <1>3, <1>4, <1>5, <1>6 DEF Next

\* The inductive invariant holds in every reachable state.
THEOREM Invariance == Spec => []IInv
  BY InitIInv, NextIInv, PTL DEF Spec

-----------------------------------------------------------------------------
\* Every variable keeps its type: the cursor stays on the list, and every
\* address within the bound of the area.
THEOREM TypeCorrect == Spec => []TypeOK
<1>1. IInv => TypeOK
  BY DEF IInv
<1>2. QED
  BY <1>1, Invariance, PTL

\* ALLOC and FREE never keep a region outside the area that inc_vma_limit has
\* been asked to map.
THEOREM RegionsWithinArea == Spec => []WithinArea
<1>1. IInv => WithinArea
  <2> SUFFICES ASSUME IInv PROVE WithinArea
    OBVIOUS
  <2>1. \A r \in Symbols : Live(r) => symrgtbl[r].rg_end <= vm_end
    BY DEF IInv, AreaInv, Live, InArea, Invalid, Unset, Region
  <2>2. QED
    BY <2>1 DEF IInv, AreaInv, InArea, WithinArea
<1>2. QED
  BY <1>1, Invariance, PTL

\* Until the area grows a second time no address is handed out twice, for any
\* sequence of ALLOC and FREE.
THEOREM DisjointRegions == Spec => []DisjointUntilRegrown
<1>1. IInv => DisjointUntilRegrown
  BY DEF IInv, DisjointInv, DisjointUntilRegrown
<1>2. QED
  BY <1>1, Invariance, PTL

-----------------------------------------------------------------------------
(* What the search computes                                                 *)

\* Lists l and m have the same regions, in the same order, but for empty ones.
SameSpaces(l, m) ==
  LET Spaces(list) == {k \in DOMAIN list : Room(list[k]) > 0}
  IN  \E g \in [Spaces(l) -> Spaces(m)] :
        /\ \A k \in Spaces(l) : l[k] = m[g[k]]
        /\ \A j, k \in Spaces(l) : j < k => g[j] < g[k]
        /\ \A k \in Spaces(m) : \E j \in Spaces(l) : g[j] = k

\* What is left of a region when as many pieces as fit are cut off in front.
Rest(rg, sz) == [rg EXCEPT !.rg_start = @ + (Room(rg) \div sz) * sz]

\* What get_free_vmrg_area computes, in closed form: since its loop does not
\* stop at a fit, every region with enough room is cut down to a rest smaller
\* than the request, and the result is the last piece of the last such region.
\* The pieces before it are lost: no list and no symbol has them.
ScanResult ==
  At("scan") /\ rgit > Len(vm_freerg_list) /\ size > 0 =>
    LET rests == [k \in DOMAIN before |-> Rest(before[k], size)]
        large == {k \in DOMAIN before : Room(before[k]) >= size}
    IN  /\ SameSpaces([k \in DOMAIN vm_freerg_list |-> vm_freerg_list[k].rg], rests)
        /\ newrg = IF large = {} THEN Invalid
                   ELSE LET e == rests[Max(large)].rg_start IN Region(e - size, e)

\* The last piece cut from a region, and from a region of list b at one of the
\* places in P.
Piece(r, sz) == Region(Rest(r, sz).rg_start - sz, Rest(r, sz).rg_start)
LastPiece(b, sz, rg, P) ==
  \/ rg = Invalid /\ \A j \in P : Room(b[j]) < sz
  \/ \E j \in P : /\ Room(b[j]) >= sz /\ rg = Piece(b[j], sz)
                  /\ \A i \in P : i > j => Room(b[i]) < sz

\* The places of a list of m regions that the search is done with.
UpTo(m, j) == {i \in 1 .. m : i <= j}
Passed(n, it, m, g) == {j \in 1 .. m : it <= n => j < g[it]}

\* How far the search has come, from the m regions b to the n regions l, with
\* the cursor at it: region k of l is what is left of region g[k] of b, c pieces
\* are cut from the current one, those that are gone were used up, and rg is
\* the last piece.
Progress(l, n, it, b, m, sz, rg, g, c) ==
  /\ c \in Nat /\ g \in [1 .. n -> 1 .. m]
  /\ \A j, k \in 1 .. n : j < k => g[j] < g[k]
  /\ \A k \in 1 .. n :
       /\ k < it => l[k] = Rest(b[g[k]], sz)
       /\ k = it => /\ l[k] = Region(b[g[k]].rg_start + c * sz, b[g[k]].rg_end)
                    /\ l[k].rg_start <= l[k].rg_end
       /\ k > it => l[k] = b[g[k]]
  /\ \A j \in 1 .. m : (\A k \in 1 .. n : g[k] # j) =>
       Room(Rest(b[j], sz)) = 0 /\ j \in Passed(n, it, m, g)
  /\ IF c > 0 /\ it <= n THEN rg = Region(l[it].rg_start - sz, l[it].rg_start)
     ELSE LastPiece(b, sz, rg, Passed(n, it, m, g))

\* The regions of a list of nodes.
Rgs(list) == [k \in DOMAIN list |-> list[k].rg]

\* A region that does not end before it starts; a list of m of them.
IsRegion(r) == /\ r = Region(r.rg_start, r.rg_end) /\ r.rg_start \in Int /\ r.rg_end \in Int
               /\ r.rg_start <= r.rg_end

AreRegions(b, m) == \A j \in 1 .. m : IsRegion(b[j])

\* During ALLOC the search has come some way from the list at the call to the
\* present one.
CutInv == pc = "scan" /\ size > 0 =>
  /\ AreRegions(before, Len(before))
  /\ \E g, c : Progress(Rgs(vm_freerg_list), Len(vm_freerg_list), rgit,
                        before, Len(before), size, newrg, g, c)

\* The number of pieces that fit.
LEMMA Quotient ==
  ASSUME NEW a \in Nat, NEW sz \in Nat \ {0}, NEW c \in Nat, c * sz <= a, a < c * sz + sz
  PROVE  a \div sz = c
<1>1. PICK q \in Int : q = a \div sz /\ a - sz * q \in 0 .. sz - 1
  OBVIOUS
<1>2. sz * (q - c) < sz /\ sz * (q - c) > -sz
  BY <1>1
<1>3. CASE q - c >= 1
  <2>1. sz * (q - c) >= sz
    BY <1>3
  <2>2. QED
    BY <1>2, <2>1
<1>4. CASE q - c <= -1
  <2>1. sz * (q - c) <= sz * (-1)
    BY <1>4
  <2>2. QED
    BY <1>2, <2>1
<1>5. QED
  BY <1>1, <1>3, <1>4

\* A region from which c pieces were cut, with no room for another one.
LEMMA RestAfter ==
  ASSUME NEW r, IsRegion(r), NEW sz \in Nat \ {0}, NEW c \in Nat,
         r.rg_start + c * sz <= r.rg_end, r.rg_end < r.rg_start + c * sz + sz
  PROVE  Rest(r, sz) = Region(r.rg_start + c * sz, r.rg_end)
<1> DEFINE a == Room(r)
<1>1. c * sz \in Nat
  OBVIOUS
<1>2. a \in Nat /\ c * sz <= a /\ a < c * sz + sz
  BY <1>1 DEF Room, IsRegion
<1>3. a \div sz = c
  BY <1>2, Quotient
<1>4. Rest(r, sz) = [r EXCEPT !.rg_start = r.rg_start + c * sz]
  BY <1>3 DEF Rest
<1>5. \A s, e, x : [Region(s, e) EXCEPT !.rg_start = x] = Region(x, e)
  BY DEF Region
<1>6. QED
  BY <1>4, <1>5 DEF IsRegion

\* A piece is cut off the current region.
LEMMA CutOne ==
  ASSUME NEW l, NEW n \in Nat, NEW it \in 1 .. n, NEW b, NEW m \in Nat, NEW sz \in Nat \ {0},
         NEW rg, NEW g, NEW c, Progress(l, n, it, b, m, sz, rg, g, c),
         AreRegions(b, m), l[it].rg_start + sz <= l[it].rg_end, NEW l2,
         \A k \in 1 .. n : l2[k] = IF k = it THEN Region(l[k].rg_start + sz, l[k].rg_end) ELSE l[k]
  PROVE  Progress(l2, n, it, b, m, sz, Region(l[it].rg_start, l[it].rg_start + sz), g, c + 1)
<1>0. c \in Nat /\ g \in [1 .. n -> 1 .. m]
  BY DEF Progress
<1> DEFINE r == b[g[it]]
<1>1. r.rg_start \in Int /\ r.rg_end \in Int
  BY <1>0 DEF IsRegion, AreRegions
<1>2. l[it] = Region(r.rg_start + c * sz, r.rg_end)
  BY DEF Progress
<1>3. c * sz \in Int /\ c * sz + sz = (c + 1) * sz
  BY <1>0
<1>4. l[it].rg_start = r.rg_start + c * sz /\ l[it].rg_end = r.rg_end
  BY <1>2 DEF Region
<1>5. l[it].rg_start + sz = r.rg_start + (c + 1) * sz
  BY <1>1, <1>3, <1>4
<1>6. l2[it] = Region(r.rg_start + (c + 1) * sz, r.rg_end)
  BY <1>4, <1>5
<1>7. l2[it].rg_start = l[it].rg_start + sz /\ l2[it].rg_end = l[it].rg_end
  BY <1>4, <1>5, <1>6 DEF Region
<1>8. \A k \in 1 .. n : k # it => l2[k] = l[k]
  OBVIOUS
<1>9. l[it].rg_start \in Int
  BY <1>1, <1>3, <1>4
<1>10. Region(l2[it].rg_start - sz, l2[it].rg_start) = Region(l[it].rg_start, l[it].rg_start + sz)
  BY <1>7, <1>9
<1> HIDE DEF r
<1>11. QED
  <2>1. c + 1 \in Nat /\ c + 1 > 0 /\ it <= n
    BY <1>0
  <2>2. \A k \in 1 .. n :
       /\ k < it => l2[k] = Rest(b[g[k]], sz)
       /\ k = it => /\ l2[k] = Region(b[g[k]].rg_start + (c + 1) * sz, b[g[k]].rg_end)
                    /\ l2[k].rg_start <= l2[k].rg_end
       /\ k > it => l2[k] = b[g[k]]
    BY <1>6, <1>7, <1>8 DEF Progress, r
  <2>3. /\ \A j, k \in 1 .. n : j < k => g[j] < g[k]
        /\ \A j \in 1 .. m : (\A k \in 1 .. n : g[k] # j) =>
             Room(Rest(b[j], sz)) = 0 /\ j \in Passed(n, it, m, g)
    BY DEF Progress
  <2>4. QED
    BY <1>0, <1>10, <2>1, <2>2, <2>3 DEF Progress

\* When the current region has no room left, it is what remains, and the last
\* piece is one of it or of a region before it.
LEMMA Exhausted ==
  ASSUME NEW l, NEW n \in Nat, NEW it \in 1 .. n, NEW b, NEW m \in Nat, NEW sz \in Nat \ {0},
         NEW rg, NEW g, NEW c, Progress(l, n, it, b, m, sz, rg, g, c),
         AreRegions(b, m), l[it].rg_start + sz > l[it].rg_end
  PROVE  /\ l[it] = Rest(b[g[it]], sz)
         /\ LastPiece(b, sz, rg, UpTo(m, g[it]))
<1> DEFINE r == b[g[it]]
           P == UpTo(m, g[it])
<1>0. c \in Nat /\ g[it] \in 1 .. m /\ it <= n
  BY DEF Progress
<1>1. IsRegion(r) /\ r.rg_start \in Int /\ r.rg_end \in Int /\ c * sz \in Nat
  BY <1>0 DEF IsRegion, AreRegions
<1>2. l[it] = Region(r.rg_start + c * sz, r.rg_end) /\ l[it].rg_start <= l[it].rg_end
  BY DEF Progress
<1>3. l[it].rg_start = r.rg_start + c * sz /\ l[it].rg_end = r.rg_end
  BY <1>2 DEF Region
<1>4. Rest(r, sz) = l[it]
  <2>1. r.rg_start + c * sz <= r.rg_end /\ r.rg_end < r.rg_start + c * sz + sz
    BY <1>1, <1>2, <1>3
  <2> HIDE DEF r
  <2>2. QED
    BY <1>0, <1>1, <1>2, <2>1, RestAfter
<1>5. CASE c > 0
  <2>1. rg = Piece(r, sz)
    BY <1>0, <1>4, <1>5 DEF Progress, Piece
  <2>2. Room(r) >= sz
    <3>1. c * sz >= sz
      BY <1>0, <1>5
    <3>2. QED
      BY <1>1, <1>2, <1>3, <3>1 DEF Room
  <2>3. g[it] \in P /\ \A i \in P : ~(i > g[it])
    BY <1>0 DEF UpTo
  <2>4. QED
    BY <1>4, <2>1, <2>2, <2>3 DEF LastPiece
<1>6. CASE c = 0
  <2>1. LastPiece(b, sz, rg, Passed(n, it, m, g))
    BY <1>6 DEF Progress
  <2>2. Room(r) < sz
    BY <1>1, <1>2, <1>3, <1>6 DEF Room
  <2>3. \A j \in P : j \in Passed(n, it, m, g) \/ j = g[it]
    BY <1>0 DEF Passed, UpTo
  <2>4. \A j \in Passed(n, it, m, g) : j \in P /\ ~(g[it] < j)
    BY <1>0 DEF Passed, UpTo
  <2>5. LastPiece(b, sz, rg, P)
    <3> HIDE DEF P
    <3>1. QED
      BY <2>1, <2>2, <2>3, <2>4 DEF LastPiece
  <2>6. QED
    BY <1>4, <2>5
<1>7. QED
  BY <1>0, <1>5, <1>6

\* Behind the current region is what the next one has passed.
LEMMA NextPassed ==
  ASSUME NEW l, NEW n \in Nat, NEW it \in 1 .. n, NEW b, NEW m \in Nat, NEW sz,
         NEW rg, NEW g, NEW c, Progress(l, n, it, b, m, sz, rg, g, c)
  PROVE  Passed(n, it + 1, m, g) = UpTo(m, g[it])
<1>0. /\ g \in [1 .. n -> 1 .. m] /\ it <= n /\ it \in Nat
      /\ \A j, k \in 1 .. n : j < k => g[j] < g[k]
      /\ \A j \in 1 .. m : (\A k \in 1 .. n : g[k] # j) => j < g[it]
  BY DEF Progress, Passed
<1>1. ASSUME NEW j \in 1 .. m, it + 1 <= n => j < g[it + 1] PROVE j <= g[it]
  <2>1. CASE \A k \in 1 .. n : g[k] # j
    BY <1>0, <2>1
  <2>2. CASE \E k \in 1 .. n : g[k] = j
    <3>1. PICK k \in 1 .. n : g[k] = j
      BY <2>2
    <3>2. k <= it
      <4> SUFFICES ASSUME k > it PROVE FALSE
        BY <1>0
      <4>1. it + 1 \in 1 .. n /\ j < g[it + 1]
        BY <1>0, <1>1
      <4>2. k = it + 1 \/ it + 1 < k
        BY <1>0
      <4>3. g[it + 1] <= j
        BY <1>0, <3>1, <4>1, <4>2
      <4>4. QED
        BY <1>0, <4>1, <4>3
    <3>3. k = it \/ k < it
      BY <1>0, <3>2
    <3>4. QED
      BY <1>0, <3>1, <3>3
  <2>3. QED
    BY <2>1, <2>2
<1>2. ASSUME NEW j \in 1 .. m, j <= g[it], it + 1 <= n PROVE j < g[it + 1]
  <2>1. g[it] < g[it + 1] /\ g[it] \in Int /\ g[it + 1] \in Int
    BY <1>0, <1>2
  <2>2. QED
    BY <1>2, <2>1
<1>3. QED
  BY <1>1, <1>2 DEF Passed, UpTo

\* The search goes on to the next region.
LEMMA PassOn ==
  ASSUME NEW l, NEW n \in Nat, NEW it \in 1 .. n, NEW b, NEW m \in Nat, NEW sz \in Nat \ {0},
         NEW rg, NEW g, NEW c, Progress(l, n, it, b, m, sz, rg, g, c),
         AreRegions(b, m), l[it].rg_start + sz > l[it].rg_end
  PROVE  Progress(l, n, it + 1, b, m, sz, rg, g, 0)
<1> DEFINE P == UpTo(m, g[it])
<1>1. l[it] = Rest(b[g[it]], sz) /\ LastPiece(b, sz, rg, P)
  BY Exhausted
<1>2. Passed(n, it + 1, m, g) = P
  BY NextPassed
<1>3. g \in [1 .. n -> 1 .. m]
  BY DEF Progress
<1>4. ASSUME NEW k \in 1 .. n
      PROVE  /\ k < it + 1 => l[k] = Rest(b[g[k]], sz)
             /\ k = it + 1 => /\ l[k] = Region(b[g[k]].rg_start + 0 * sz, b[g[k]].rg_end)
                              /\ l[k].rg_start <= l[k].rg_end
             /\ k > it + 1 => l[k] = b[g[k]]
  <2>1. k < it + 1 => k < it \/ k = it
    OBVIOUS
  <2>2. k < it + 1 => l[k] = Rest(b[g[k]], sz)
    BY <1>1, <2>1 DEF Progress
  <2>3. k >= it + 1 => l[k] = b[g[k]]
    BY DEF Progress
  <2>4. IsRegion(b[g[k]])
    BY <1>3 DEF AreRegions
  <2>5. b[g[k]].rg_start + 0 * sz = b[g[k]].rg_start
    BY <2>4 DEF IsRegion
  <2>6. QED
    BY <2>2, <2>3, <2>4, <2>5 DEF IsRegion
<1>5. ASSUME NEW j \in 1 .. m, \A k \in 1 .. n : g[k] # j
      PROVE  Room(Rest(b[j], sz)) = 0 /\ j \in P
  <2>1. Room(Rest(b[j], sz)) = 0 /\ j < g[it]
    BY <1>5 DEF Progress, Passed
  <2>2. g[it] \in 1 .. m
    BY <1>3
  <2>3. QED
    BY <2>1, <2>2 DEF UpTo
<1> HIDE DEF P
<1>6. \A j, k \in 1 .. n : j < k => g[j] < g[k]
  BY DEF Progress
<1>7. 0 \in Nat /\ ~(0 > 0)
  OBVIOUS
<1>8. QED
  BY <1>1, <1>2, <1>3, <1>4, <1>5, <1>6, <1>7 DEF Progress

\* The current region is used up, and removed.
LEMMA DropOne ==
  ASSUME NEW l, NEW n \in Nat, NEW it \in 1 .. n - 1, NEW b, NEW m \in Nat, NEW sz \in Nat \ {0},
         NEW rg, NEW g, NEW c, Progress(l, n, it, b, m, sz, rg, g, c),
         AreRegions(b, m), l[it].rg_start = l[it].rg_end, NEW l2,
         \A k \in 1 .. n - 1 : l2[k] = IF k < it THEN l[k] ELSE l[k + 1]
  PROVE  Progress(l2, n - 1, it, b, m, sz, rg,
                  [k \in 1 .. n - 1 |-> IF k < it THEN g[k] ELSE g[k + 1]], 0)
<1> DEFINE h == [k \in 1 .. n - 1 |-> IF k < it THEN g[k] ELSE g[k + 1]]
           P == UpTo(m, g[it])
<1>0. /\ g \in [1 .. n -> 1 .. m] /\ it \in 1 .. n /\ it <= n - 1 /\ n - 1 \in Nat
      /\ \A j, k \in 1 .. n : j < k => g[j] < g[k]
      /\ c \in Nat
  BY DEF Progress
<1>1. l[it].rg_start \in Int
  <2>1. IsRegion(b[g[it]]) /\ l[it] = Region(b[g[it]].rg_start + c * sz, b[g[it]].rg_end)
    BY <1>0 DEF Progress, AreRegions
  <2>2. l[it].rg_end = b[g[it]].rg_end
    BY <2>1 DEF Region
  <2>3. QED
    BY <2>1, <2>2 DEF IsRegion
<1>2. l[it].rg_start + sz > l[it].rg_end
  BY <1>1
<1>3. l[it] = Rest(b[g[it]], sz) /\ Room(l[it]) = 0 /\ LastPiece(b, sz, rg, P)
  <2>1. l[it] = Rest(b[g[it]], sz) /\ LastPiece(b, sz, rg, UpTo(m, g[it]))
    BY <1>0, <1>2, Exhausted, Zenon
  <2>2. QED
    BY <1>1, <2>1 DEF Room
<1>4. Passed(n, it + 1, m, g) = P
  <2>1. it \in 1 .. n
    BY <1>0
  <2>2. QED
    BY <2>1, NextPassed
<1>5. Progress(l, n, it + 1, b, m, sz, rg, g, 0)
  BY <1>0, <1>2, PassOn
<1>6. \A k \in 1 .. n - 1 : /\ h[k] = IF k < it THEN g[k] ELSE g[k + 1]
                            /\ k \in 1 .. n /\ k + 1 \in 1 .. n
  BY <1>0
<1>7. h \in [1 .. n - 1 -> 1 .. m]
  BY <1>0, <1>6
<1> HIDE DEF h, P
<1>8. Passed(n - 1, it, m, h) = P
  <2>1. h[it] = g[it + 1] /\ it + 1 <= n /\ it <= n - 1
    BY <1>0, <1>6
  <2>2. QED
    BY <1>4, <2>1 DEF Passed
<1>9. ASSUME NEW j \in 1 .. n - 1, NEW k \in 1 .. n - 1, j < k PROVE h[j] < h[k]
  <2>1. CASE k < it
    BY <1>0, <1>6, <1>9, <2>1
  <2>2. CASE j >= it
    <3>1. j + 1 < k + 1 /\ ~(j < it) /\ ~(k < it)
      BY <1>0, <1>9, <2>2
    <3>2. QED
      BY <1>0, <1>6, <3>1
  <2>3. CASE j < it /\ k >= it
    <3>1. j < k + 1 /\ ~(k < it)
      BY <1>0, <1>9, <2>3
    <3>2. QED
      BY <1>0, <1>6, <2>3, <3>1
  <2>4. QED
    BY <1>0, <2>1, <2>2, <2>3
<1>10. ASSUME NEW k \in 1 .. n - 1
       PROVE  /\ k < it => l2[k] = Rest(b[h[k]], sz)
              /\ k = it => /\ l2[k] = Region(b[h[k]].rg_start + 0 * sz, b[h[k]].rg_end)
                           /\ l2[k].rg_start <= l2[k].rg_end
              /\ k > it => l2[k] = b[h[k]]
  <2>1. CASE k < it
    <3>1. l2[k] = l[k] /\ h[k] = g[k] /\ k < it + 1 /\ k \in 1 .. n
      BY <1>0, <1>6, <2>1
    <3>2. QED
      BY <1>0, <1>5, <2>1, <3>1 DEF Progress
  <2>2. CASE k >= it
    <3>0. ~(k < it)
      BY <1>0, <2>2
    <3>1. l2[k] = l[k + 1] /\ h[k] = g[k + 1] /\ k + 1 \in 1 .. n
      BY <1>6, <3>0
    <3>2. k = it => k + 1 = it + 1
      OBVIOUS
    <3>3. k > it => k + 1 > it + 1
      BY <1>0
    <3>4. QED
      BY <1>5, <3>0, <3>1, <3>2, <3>3 DEF Progress
  <2>3. QED
    BY <1>0, <2>1, <2>2
<1>11. ASSUME NEW j \in 1 .. m, \A k \in 1 .. n - 1 : h[k] # j
       PROVE  Room(Rest(b[j], sz)) = 0 /\ j \in P
  <2>1. CASE j = g[it]
    BY <1>0, <1>3, <2>1 DEF P, UpTo
  <2>2. CASE j # g[it]
    <3>1. ASSUME NEW k \in 1 .. n PROVE g[k] # j
      <4>1. CASE k < it
        <5>1. k \in 1 .. n - 1
          BY <1>0, <4>1
        <5>2. h[k] = g[k]
          BY <1>6, <4>1, <5>1
        <5>3. QED
          BY <1>11, <5>1, <5>2
      <4>2. CASE k > it
        <5>1. k - 1 \in 1 .. n - 1 /\ ~(k - 1 < it) /\ k - 1 + 1 = k
          BY <1>0, <4>2
        <5>2. h[k - 1] = g[k]
          BY <1>6, <5>1
        <5>3. QED
          BY <1>11, <5>1, <5>2
      <4>3. QED
        BY <1>0, <2>2, <4>1, <4>2
    <3>2. QED
      BY <1>4, <1>5, <3>1 DEF Progress
  <2>3. QED
    BY <2>1, <2>2
<1>12. 0 \in Nat /\ ~(0 > 0)
  OBVIOUS
<1>13. Progress(l2, n - 1, it, b, m, sz, rg, h, 0)
  BY <1>3, <1>7, <1>8, <1>9, <1>10, <1>11, <1>12 DEF Progress
<1>14. QED
  BY <1>13 DEF h

\* The lists that split and use_up leave.
LEMMA CutLists ==
  ASSUME TypeOK, AreaInv, split \/ use_up
  PROVE  \/ /\ Len(vm_freerg_list') = Len(vm_freerg_list)
            /\ \A k \in 1 .. Len(vm_freerg_list) :
                 vm_freerg_list'[k].rg =
                   IF k = rgit THEN Region(FreeRg(k).rg_start + size, FreeRg(k).rg_end) ELSE FreeRg(k)
         \/ /\ rgit \in 1 .. Len(vm_freerg_list) - 1 /\ FreeRg(rgit).rg_start + size = FreeRg(rgit).rg_end
            /\ Len(vm_freerg_list') = Len(vm_freerg_list) - 1
            /\ \A k \in 1 .. Len(vm_freerg_list) - 1 :
                 vm_freerg_list'[k].rg = IF k < rgit THEN FreeRg(k) ELSE FreeRg(k + 1)
<1>1. rgit \in DOMAIN vm_freerg_list /\ FreeRg(rgit).rg_start + size <= FreeRg(rgit).rg_end
  BY Cut
<1>2. CASE vm_freerg_list' = [vm_freerg_list EXCEPT ![rgit].rg.rg_start = @ + size]
  BY <1>1, <1>2, CutInPlace
<1>3. CASE /\ use_up /\ rgit # Len(vm_freerg_list)
           /\ vm_freerg_list' = [RemoveAt(vm_freerg_list, rgit)
                                   EXCEPT ![rgit].param = vm_freerg_list[rgit].param]
  <2>1. rgit \in 1 .. Len(vm_freerg_list) - 1
    BY <1>1, <1>3, Shape
  <2>2. FreeRg(rgit).rg_start + size = FreeRg(rgit).rg_end
    BY <1>3 DEF use_up, UsesUp, Current, FreeRg
  <2>3. QED
    BY <1>1, <1>3, <2>1, <2>2, CutAway
<1>4. QED
  BY <1>2, <1>3 DEF split, use_up, AtLast

\* A cut keeps CutInv.
LEMMA CutKept == ASSUME IInv, CutInv, split \/ use_up PROVE CutInv'
<1> DEFINE n == Len(vm_freerg_list)
           l == Rgs(vm_freerg_list)
           m == Len(before)
<1> SUFFICES ASSUME size > 0 PROVE CutInv'
  BY DEF CutInv, split, use_up, scanFixed
<1>0. TypeOK /\ AreaInv
  BY DEF IInv
<1>1. /\ pc = "scan" /\ UNCHANGED <<pc, size, before, rgit>> /\ rgit \in DOMAIN vm_freerg_list
      /\ FreeRg(rgit).rg_start + size <= FreeRg(rgit).rg_end
      /\ newrg' = Region(FreeRg(rgit).rg_start, FreeRg(rgit).rg_start + size)
      /\ vm_freerg_list' \in Seq(ListNodes)
  BY <1>0, Cut DEF scanFixed
<1>2. /\ n \in Nat /\ rgit \in 1 .. n /\ size \in Nat \ {0} /\ m \in Nat
      /\ \A k \in 1 .. n : l[k] = FreeRg(k)
      /\ \A k \in 1 .. n : FreeRg(k).rg_start \in Int
      /\ before \in Seq(AllRegions)
  BY <1>0, <1>1, Shape, LenProperties DEF Rgs, FreeRg, TypeOK
<1>3. AreRegions(before, m)
  BY <1>1 DEF CutInv
<1>4. PICK g, c : Progress(l, n, rgit, before, m, size, newrg, g, c)
  BY <1>1 DEF CutInv
<1>5. \A k \in 1 .. Len(vm_freerg_list') : Rgs(vm_freerg_list')[k] = vm_freerg_list'[k].rg
  BY <1>1, LenProperties DEF Rgs
<1> DEFINE l1 == [k \in 1 .. n |-> IF k = rgit THEN Region(l[k].rg_start + size, l[k].rg_end) ELSE l[k]]
           piece == Region(l[rgit].rg_start, l[rgit].rg_start + size)
<1>6. newrg' = piece /\ l[rgit].rg_start + size <= l[rgit].rg_end
  BY <1>1, <1>2
<1> HIDE DEF l, n, m
<1>7. CASE /\ Len(vm_freerg_list') = n
           /\ \A k \in 1 .. n : vm_freerg_list'[k].rg =
                IF k = rgit THEN Region(FreeRg(k).rg_start + size, FreeRg(k).rg_end) ELSE FreeRg(k)
  <2>1. \A k \in 1 .. n : Rgs(vm_freerg_list')[k] =
          IF k = rgit THEN Region(l[k].rg_start + size, l[k].rg_end) ELSE l[k]
    BY <1>2, <1>5, <1>7
  <2>2. Progress(Rgs(vm_freerg_list'), n, rgit, before, m, size, piece, g, c + 1)
    BY <1>2, <1>3, <1>4, <1>6, <2>1, CutOne
  <2>3. QED
    BY <1>1, <1>3, <1>6, <1>7, <2>2 DEF CutInv, m
<1>8. CASE /\ rgit \in 1 .. n - 1 /\ FreeRg(rgit).rg_start + size = FreeRg(rgit).rg_end
           /\ Len(vm_freerg_list') = n - 1
           /\ \A k \in 1 .. n - 1 :
                vm_freerg_list'[k].rg = IF k < rgit THEN FreeRg(k) ELSE FreeRg(k + 1)
  <2>1. \A k \in 1 .. n : l1[k] = IF k = rgit THEN Region(l[k].rg_start + size, l[k].rg_end) ELSE l[k]
    OBVIOUS
  <2> HIDE DEF l1
  <2>2. Progress(l1, n, rgit, before, m, size, piece, g, c + 1)
    BY <1>2, <1>3, <1>4, <1>6, <2>1, CutOne
  <2>3. l1[rgit].rg_start = l1[rgit].rg_end
    <3>1. l1[rgit] = Region(l[rgit].rg_start + size, l[rgit].rg_end)
      BY <1>2, <2>1
    <3>2. l[rgit].rg_start + size = l[rgit].rg_end
      BY <1>2, <1>8
    <3>3. QED
      BY <3>1, <3>2 DEF Region
  <2>4. ASSUME NEW k \in 1 .. n - 1
        PROVE  Rgs(vm_freerg_list')[k] = IF k < rgit THEN l1[k] ELSE l1[k + 1]
    <3>1. Rgs(vm_freerg_list')[k] = IF k < rgit THEN FreeRg(k) ELSE FreeRg(k + 1)
      BY <1>5, <1>8
    <3>2. CASE k < rgit
      <4>1. k \in 1 .. n /\ k # rgit
        BY <1>2, <3>2
      <4>2. l1[k] = FreeRg(k)
        BY <1>2, <2>1, <4>1
      <4>3. QED
        BY <3>1, <3>2, <4>2
    <3>3. CASE ~(k < rgit)
      <4>1. k + 1 \in 1 .. n /\ k + 1 # rgit
        BY <1>2, <3>3
      <4>2. l1[k + 1] = FreeRg(k + 1)
        BY <1>2, <2>1, <4>1
      <4>3. QED
        BY <3>1, <3>3, <4>2
    <3>4. QED
      BY <3>2, <3>3
  <2>5. \E h : Progress(Rgs(vm_freerg_list'), n - 1, rgit, before, m, size, piece, h, 0)
    BY <1>2, <1>3, <1>8, <2>2, <2>3, <2>4, DropOne
  <2>6. QED
    BY <1>1, <1>3, <1>6, <1>8, <2>5 DEF CutInv, m
<1>9. QED
  BY <1>0, <1>7, <1>8, CutLists DEF n

\* Passing a region that is too small keeps CutInv.
LEMMA SkipKept == ASSUME IInv, CutInv, skip PROVE CutInv'
<1> DEFINE n == Len(vm_freerg_list)
           l == Rgs(vm_freerg_list)
<1> SUFFICES ASSUME size > 0 PROVE CutInv'
  BY DEF CutInv, skip, scanFixed
<1>0. TypeOK
  BY DEF IInv
<1>1. /\ pc = "scan" /\ UNCHANGED <<pc, size, before, vm_freerg_list, newrg>> /\ rgit' = rgit + 1
      /\ rgit <= n /\ ~(Current.rg_start + size <= Current.rg_end)
  BY DEF skip, At, Fits, scanFixed
<1>2. /\ n \in Nat /\ rgit \in 1 .. n /\ size \in Nat \ {0} /\ Len(before) \in Nat
      /\ l[rgit].rg_start + size > l[rgit].rg_end
  <2>1. n \in Nat /\ rgit \in 1 .. n /\ size \in Nat \ {0} /\ before \in Seq(AllRegions)
    BY <1>0, <1>1, Shape DEF TypeOK
  <2>2. l[rgit] = FreeRg(rgit) /\ Current = FreeRg(rgit)
    BY <1>0, <2>1, Shape DEF Rgs, FreeRg, Current
  <2>3. FreeRg(rgit).rg_start \in Int /\ FreeRg(rgit).rg_end \in Int
    BY <1>0, <2>1, Shape
  <2> HIDE DEF l, n
  <2>4. QED
    BY <1>1, <2>1, <2>2, <2>3, LenProperties
<1>3. AreRegions(before, Len(before))
  BY <1>1 DEF CutInv
<1>4. PICK g, c : Progress(l, n, rgit, before, Len(before), size, newrg, g, c)
  BY <1>1 DEF CutInv
<1> HIDE DEF l, n
<1>5. Progress(l, n, rgit + 1, before, Len(before), size, newrg, g, 0)
  BY <1>2, <1>3, <1>4, PassOn
<1>6. QED
  BY <1>1, <1>3, <1>5 DEF CutInv, l, n

\* At the start of the search nothing has happened to the list.
LEMMA AllocKept ==
  ASSUME IInv, NEW r \in Rgids, NEW sz \in Sizes, alloc(r, sz), ~Undefine
  PROVE  CutInv'
<1> DEFINE l == Rgs(vm_freerg_list)
           n == Len(vm_freerg_list)
           id == [k \in 1 .. n |-> k]
<1>0. TypeOK /\ AreaInv
  BY DEF IInv
<1>1. /\ size' = sz /\ rgit' = 1 /\ newrg' = Invalid /\ before' = l /\ UNCHANGED vm_freerg_list
  BY DEF alloc, Rgs
<1>2. n \in Nat /\ n >= 1 /\ DOMAIN vm_freerg_list = 1 .. n /\ sz \in Int
  BY <1>0, Shape, RegionsAssumption
<1>3. \A k \in 1 .. n : l[k] = FreeRg(k) /\ IsRegion(l[k])
  BY <1>0, <1>2, Shape DEF Rgs, FreeRg, IsRegion, AreaInv, InArea
<1>4. Len(l) = n
  <2>1. l = [k \in 1 .. n |-> vm_freerg_list[k].rg]
    BY <1>2 DEF Rgs
  <2> HIDE DEF n
  <2>2. QED
    BY <1>2, <2>1
<1> HIDE DEF l, n
<1>5. Progress(l, n, 1, l, n, sz, Invalid, id, 0)
  <2>1. id \in [1 .. n -> 1 .. n] /\ \A k \in 1 .. n : id[k] = k
    OBVIOUS
  <2> HIDE DEF id
  <2>2. Passed(n, 1, n, id) = {}
    BY <1>2, <2>1 DEF Passed
  <2>3. \A k \in 1 .. n : /\ ~(k < 1) /\ l[k].rg_start <= l[k].rg_end
                          /\ l[k] = Region(l[k].rg_start + 0 * sz, l[k].rg_end)
                          /\ l[k] = l[id[k]]
    BY <1>2, <1>3, <2>1 DEF IsRegion
  <2>4. LastPiece(l, sz, Invalid, {})
    BY DEF LastPiece
  <2>5. \A j \in 1 .. n : ~(\A k \in 1 .. n : id[k] # j)
    BY <2>1
  <2>6. \A j, k \in 1 .. n : j < k => id[j] < id[k]
    BY <2>1
  <2>7. \A k \in 1 .. n :
          /\ k < 1 => l[k] = Rest(l[id[k]], sz)
          /\ k = 1 => /\ l[k] = Region(l[id[k]].rg_start + 0 * sz, l[id[k]].rg_end)
                      /\ l[k].rg_start <= l[k].rg_end
          /\ k > 1 => l[k] = l[id[k]]
    BY <2>1, <2>3, Zenon
  <2>8. 0 \in Nat /\ ~(0 > 0)
    OBVIOUS
  <2>9. QED
    BY <2>1, <2>2, <2>4, <2>5, <2>6, <2>7, <2>8, Zenon DEF Progress
<1>6. AreRegions(l, n)
  BY <1>3 DEF AreRegions
<1>7. QED
  BY <1>1, <1>4, <1>5, <1>6 DEF CutInv, l, n

\* Every step keeps CutInv.
LEMMA NextCuts == IInv /\ CutInv /\ [Next]_vars => CutInv'
<1> SUFFICES ASSUME IInv, CutInv, [Next]_vars PROVE CutInv'
  OBVIOUS
<1>1. ASSUME Undefine \/ UNCHANGED vars PROVE CutInv'
  BY <1>1 DEF CutInv, Undefine, vars, callVars
<1>2. ASSUME pc' = "idle" PROVE CutInv'
  BY <1>2 DEF CutInv
<1>3. ASSUME NEW r \in Rgids, NEW sz \in Sizes, alloc(r, sz) PROVE CutInv'
  BY <1>1, <1>3, AllocKept
<1>4. ASSUME NEW r \in Rgids, free(r) \/ free_undefined(r) \/ free_refused(r) PROVE CutInv'
  BY <1>1, <1>2, <1>4 DEF free, free_undefined, free_refused, At, callVars
<1>5. CASE get_free_vmrg_area
  BY <1>1, <1>5, CutKept, SkipKept DEF get_free_vmrg_area, use_up_undefined
<1>6. CASE Return
  BY <1>1, <1>2, <1>6 DEF Return, alloc_found, alloc_grow, alloc_undefined
<1>7. CASE Stopped
  BY <1>1, <1>7 DEF Stopped
<1>8. QED
  BY <1>1, <1>3, <1>4, <1>5, <1>6, <1>7 DEF Next

\* At the end of the list every region is cut down to its rest, and what was
\* found is the last piece.
LEMMA AtEnd ==
  ASSUME IInv, CutInv, pc = "scan", rgit > Len(vm_freerg_list), size > 0
  PROVE  LET n == Len(vm_freerg_list)
             m == Len(before)
             l == Rgs(vm_freerg_list)
         IN  /\ n \in Nat /\ m \in Nat /\ DOMAIN before = 1 .. m /\ DOMAIN l = 1 .. n
             /\ size \in Nat \ {0} /\ AreRegions(before, m)
             /\ \E g \in [1 .. n -> 1 .. m] :
                  /\ \A j, k \in 1 .. n : j < k => g[j] < g[k]
                  /\ \A k \in 1 .. n : l[k] = Rest(before[g[k]], size)
                  /\ \A j \in 1 .. m : (\A k \in 1 .. n : g[k] # j) => Room(Rest(before[j], size)) = 0
             /\ LastPiece(before, size, newrg, 1 .. m)
<1> DEFINE n == Len(vm_freerg_list)
           m == Len(before)
           l == Rgs(vm_freerg_list)
<1>1. /\ n \in Nat /\ m \in Nat /\ DOMAIN before = 1 .. m /\ DOMAIN l = 1 .. n /\ rgit \in Nat
      /\ size \in Nat \ {0}
  <2>1. TypeOK /\ before \in Seq(AllRegions)
    BY DEF IInv, TypeOK
  <2>2. QED
    BY <2>1, Shape, LenProperties DEF Rgs
<1>2. AreRegions(before, m)
  BY DEF CutInv
<1>3. PICK g, c : Progress(l, n, rgit, before, m, size, newrg, g, c)
  BY DEF CutInv
<1>4. \A k \in 1 .. n : k < rgit
  BY <1>1
<1>5. ~(rgit <= n)
  BY <1>1
<1>6. Passed(n, rgit, m, g) = 1 .. m
  BY <1>5 DEF Passed
<1> HIDE DEF l, n, m
<1>7. /\ g \in [1 .. n -> 1 .. m] /\ \A j, k \in 1 .. n : j < k => g[j] < g[k]
      /\ \A k \in 1 .. n : l[k] = Rest(before[g[k]], size)
      /\ \A j \in 1 .. m : (\A k \in 1 .. n : g[k] # j) => Room(Rest(before[j], size)) = 0
      /\ LastPiece(before, size, newrg, 1 .. m)
  BY <1>3, <1>4, <1>5, <1>6 DEF Progress
<1>8. QED
  BY <1>1, <1>2, <1>7 DEF l, n, m

\* At the end of the list, the progress is the result.
LEMMA CutsAreResult == IInv /\ CutInv => ScanResult
<1> DEFINE n == Len(vm_freerg_list)
           m == Len(before)
           l == Rgs(vm_freerg_list)
           rests == [k \in DOMAIN before |-> Rest(before[k], size)]
           large == {k \in DOMAIN before : Room(before[k]) >= size}
<1> SUFFICES ASSUME IInv, CutInv, pc = "scan", rgit > n, size > 0
             PROVE  /\ SameSpaces(l, rests)
                    /\ newrg = IF large = {} THEN Invalid
                               ELSE Region(rests[Max(large)].rg_start - size, rests[Max(large)].rg_start)
  BY Zenon DEF ScanResult, At, Rgs
<1>1. /\ n \in Nat /\ m \in Nat /\ DOMAIN before = 1 .. m /\ DOMAIN l = 1 .. n
      /\ size \in Nat \ {0} /\ AreRegions(before, m)
  BY AtEnd
<1>2. AreRegions(before, m)
  BY <1>1
<1>3. PICK g \in [1 .. n -> 1 .. m] :
        /\ \A j, k \in 1 .. n : j < k => g[j] < g[k]
        /\ \A k \in 1 .. n : l[k] = Rest(before[g[k]], size)
        /\ \A j \in 1 .. m : (\A k \in 1 .. n : g[k] # j) => Room(Rest(before[j], size)) = 0
  BY AtEnd
<1>4. \A k \in 1 .. m : rests[k] = Rest(before[k], size)
  BY <1>1
<1>7. LastPiece(before, size, newrg, 1 .. m)
  BY AtEnd
<1> HIDE DEF l, n, m, rests
<1>5. /\ g \in [1 .. n -> 1 .. m] /\ \A j, k \in 1 .. n : j < k => g[j] < g[k]
      /\ \A k \in 1 .. n : l[k] = rests[g[k]]
      /\ \A j \in 1 .. m : (\A k \in 1 .. n : g[k] # j) => Room(rests[j]) = 0
  BY <1>3, <1>4
<1>6. SameSpaces(l, rests)
  <2> DEFINE S == {k \in DOMAIN l : Room(l[k]) > 0}
             R == {k \in DOMAIN rests : Room(rests[k]) > 0}
             f == [k \in S |-> g[k]]
  <2>1. DOMAIN rests = 1 .. m
    BY <1>1 DEF rests
  <2>2. f \in [S -> R] /\ \A k \in S : f[k] = g[k] /\ k \in 1 .. n
    BY <1>1, <1>5, <2>1
  <2>3. \A k \in S : l[k] = rests[f[k]]
    BY <1>5, <2>2
  <2>4. \A j, k \in S : j < k => f[j] < f[k]
    BY <1>5, <2>2
  <2>5. ASSUME NEW k \in R PROVE \E j \in S : f[j] = k
    <3>1. k \in 1 .. m /\ ~(Room(rests[k]) = 0)
      BY <2>1
    <3>2. PICK j \in 1 .. n : g[j] = k
      BY <1>5, <3>1
    <3>3. j \in S
      BY <1>1, <1>5, <3>2
    <3>4. QED
      BY <2>2, <3>2, <3>3
  <2> HIDE DEF f
  <2>6. QED
    BY <2>2, <2>3, <2>4, <2>5 DEF SameSpaces
<1>8. \A k \in 1 .. m : Room(before[k]) \in Int
  BY <1>2 DEF AreRegions, IsRegion, Room
<1>9. CASE newrg = Invalid /\ \A j \in 1 .. m : Room(before[j]) < size
  <2>1. large = {}
    BY <1>1, <1>8, <1>9
  <2>2. QED
    BY <1>6, <1>9, <2>1
<1>10. ASSUME NEW j \in 1 .. m, Room(before[j]) >= size, newrg = Piece(before[j], size),
              \A i \in 1 .. m : i > j => Room(before[i]) < size
       PROVE  newrg = IF large = {} THEN Invalid
                      ELSE Region(rests[Max(large)].rg_start - size, rests[Max(large)].rg_start)
  <2>1. j \in large
    BY <1>1, <1>10
  <2>2. \A i \in large : j >= i /\ i \in Int
    BY <1>1, <1>8, <1>10
  <2> HIDE DEF large
  <2>3. Max(large) = j
    <3>1. \E x \in large : \A y \in large : x >= y
      BY <2>1, <2>2
    <3>2. Max(large) \in large /\ \A y \in large : Max(large) >= y
      BY <3>1, Zenon DEF Max
    <3>3. \A x \in large : (\A y \in large : x >= y) => x = j
      BY <2>1, <2>2
    <3>4. QED
      BY <3>2, <3>3, Zenon
  <2>4. QED
    BY <1>4, <1>10, <2>1, <2>3 DEF Piece
<1>11. QED
  BY <1>6, <1>7, <1>9, <1>10 DEF LastPiece

\* How much is cut off a region: nothing if it is too small, else at least one
\* piece and no more than there is.
LEMMA RestBounds ==
  ASSUME NEW r, IsRegion(r), NEW sz \in Nat \ {0}
  PROVE  /\ Room(r) < sz => Rest(r, sz) = r
         /\ Room(r) >= sz => /\ Rest(r, sz).rg_start \in Int
                             /\ Rest(r, sz).rg_start - sz >= r.rg_start
                             /\ Rest(r, sz).rg_start <= r.rg_end
<1>1. Room(r) \in Nat /\ r.rg_start \in Int /\ r.rg_end \in Int /\ Room(r) = r.rg_end - r.rg_start
  BY DEF Room, IsRegion
<1>2. PICK q \in Int : q = Room(r) \div sz /\ Room(r) - sz * q \in 0 .. sz - 1
  <2>1. \A a \in Nat : \E q \in Int : q = a \div sz /\ a - sz * q \in 0 .. sz - 1
    OBVIOUS
  <2>2. QED
    BY <1>1, <2>1, Zenon
<1>3. q * sz = sz * q /\ q * sz \in Int
  BY <1>2
<1>4. Rest(r, sz) = Region(r.rg_start + q * sz, r.rg_end)
  <2>1. \A s, e, x : [Region(s, e) EXCEPT !.rg_start = x] = Region(x, e)
    BY DEF Region
  <2>2. Rest(r, sz) = [r EXCEPT !.rg_start = r.rg_start + q * sz]
    BY <1>2 DEF Rest
  <2>3. QED
    BY <2>1, <2>2 DEF IsRegion
<1>5. CASE Room(r) < sz
  <2>1. 0 * sz = 0 /\ 0 \in Nat
    OBVIOUS
  <2>2. Room(r) \div sz = 0
    BY <1>1, <1>5, <2>1, Quotient
  <2>3. q = 0
    BY <1>2, <2>2, Zenon
  <2>4. r.rg_start + q * sz = r.rg_start
    BY <1>1, <2>1, <2>3
  <2>5. QED
    BY <1>1, <1>4, <1>5, <2>4 DEF IsRegion
<1>6. CASE Room(r) >= sz
  <2>1. q * sz <= Room(r) /\ q * sz > Room(r) - sz
    BY <1>1, <1>2, <1>3
  <2>2. q * sz >= sz
    <3>1. CASE q >= 1
      BY <3>1
    <3>2. CASE q <= 0
      <4>1. q * sz <= 0
        BY <3>2
      <4>2. QED
        BY <1>1, <1>3, <1>6, <2>1, <4>1
    <3>3. QED
      BY <1>2, <3>1, <3>2
  <2>3. Rest(r, sz).rg_start = r.rg_start + q * sz
    BY <1>4 DEF Region
  <2> HIDE DEF Rest
  <2>4. QED
    BY <1>1, <1>3, <1>6, <2>1, <2>2, <2>3
<1>7. QED
  BY <1>1, <1>5, <1>6

\* The last piece is one of the size asked for, from a region that was large
\* enough; and a region that was too small is its own rest.
LEMMA CutsFind == IInv /\ CutInv => FoundIfRoom
<1> DEFINE n == Len(vm_freerg_list)
           m == Len(before)
           large == {k \in DOMAIN before : Room(before[k]) >= size}
<1> SUFFICES ASSUME IInv, CutInv, pc = "scan", rgit > n, size > 0
             PROVE  /\ newrg = Invalid <=> large = {}
                    /\ newrg # Invalid => /\ Room(newrg) = size
                                          /\ \E k \in large : Within(newrg, before[k])
                    /\ \A k \in DOMAIN before \ large : Room(before[k]) > 0 =>
                         \E j \in DOMAIN vm_freerg_list : vm_freerg_list[j].rg = before[k]
  BY DEF FoundIfRoom, At
<1>1. /\ n \in Nat /\ m \in Nat /\ DOMAIN before = 1 .. m /\ DOMAIN vm_freerg_list = 1 .. n
      /\ size \in Nat \ {0} /\ AreRegions(before, m) /\ LastPiece(before, size, newrg, 1 .. m)
  BY AtEnd DEF Rgs
<1>2. PICK g \in [1 .. n -> 1 .. m] :
        /\ \A k \in 1 .. n : vm_freerg_list[k].rg = Rest(before[g[k]], size)
        /\ \A j \in 1 .. m : (\A k \in 1 .. n : g[k] # j) => Room(Rest(before[j], size)) = 0
  BY AtEnd DEF Rgs
<1>3. \A k \in 1 .. m : IsRegion(before[k]) /\ Room(before[k]) \in Int
  BY <1>1 DEF AreRegions, IsRegion, Room
<1> HIDE DEF n, m
<1>4. ASSUME \A j \in 1 .. m : Room(before[j]) < size PROVE large = {}
  BY <1>1, <1>3, <1>4
<1>5. ASSUME NEW j \in 1 .. m, Room(before[j]) >= size, newrg = Piece(before[j], size)
      PROVE  /\ newrg # Invalid /\ j \in large /\ Room(newrg) = size
             /\ Within(newrg, before[j])
  <2> DEFINE e == Rest(before[j], size).rg_start
  <2>1. e \in Int /\ e - size >= before[j].rg_start /\ e <= before[j].rg_end
    BY <1>1, <1>3, <1>5, RestBounds
  <2>2. newrg = Region(e - size, e)
    BY <1>5 DEF Piece
  <2> HIDE DEF e
  <2>3. newrg.rg_start = e - size /\ newrg.rg_end = e
    BY <2>2 DEF Region
  <2>4. Room(newrg) = size /\ Within(newrg, before[j])
    BY <1>1, <2>1, <2>3 DEF Room, Within
  <2>5. newrg # Invalid
    BY <1>1, <2>4, Marks
  <2>6. QED
    BY <1>1, <1>5, <2>4, <2>5
<1>6. /\ newrg = Invalid <=> large = {}
      /\ newrg # Invalid => Room(newrg) = size /\ \E k \in large : Within(newrg, before[k])
  <2>1. CASE \E j \in 1 .. m : Room(before[j]) >= size /\ newrg = Piece(before[j], size)
    BY <1>5, <2>1
  <2>2. QED
    BY <1>1, <1>4, <2>1 DEF LastPiece
<1>7. ASSUME NEW k \in DOMAIN before \ large, Room(before[k]) > 0
      PROVE  \E j \in DOMAIN vm_freerg_list : vm_freerg_list[j].rg = before[k]
  <2>1. k \in 1 .. m /\ Room(before[k]) < size
    BY <1>1, <1>3
  <2>2. Rest(before[k], size) = before[k]
    BY <1>1, <1>3, <2>1, RestBounds
  <2>3. PICK j \in 1 .. n : g[j] = k
    BY <1>2, <1>3, <1>7, <2>1, <2>2
  <2>4. QED
    BY <1>1, <1>2, <2>2, <2>3
<1>8. QED
  BY <1>6, <1>7

\* get_free_vmrg_area, asked for at least one byte, cuts every region of the
\* list down to a rest smaller than the request and returns the last piece of
\* the last region that was large enough, for a list of any length.
THEOREM ScanComputes == Spec => []ScanResult
<1>1. Init => CutInv
  BY DEF Init, CutInv
<1>2. QED
  BY <1>1, Invariance, NextCuts, CutsAreResult, PTL DEF Spec

\* get_free_vmrg_area finds a region of the size asked for exactly if one of the
\* list was large enough, and leaves the ones that were too small as they were.
THEOREM SearchFinds == Spec => []FoundIfRoom
<1>1. Init => CutInv
  BY DEF Init, CutInv
<1>2. QED
  BY <1>1, Invariance, NextCuts, CutsFind, PTL DEF Spec
=============================================================================
