--------------------------- MODULE MlqSchedProofs ---------------------------
(***************************************************************************)
(* Proofs about MlqSched.tla, for every number of levels, processes and    *)
(* cells, every assignment of priorities and whatever levels get_mlq_proc  *)
(* scans: the code as it stands (CodeScan) is one instance.                *)
(***************************************************************************)
EXTENDS MlqSched, TLAPS, SequenceTheorems, FiniteSetTheorems

\* The inductive invariant: nothing here depends on overrun, because no
\* operation is described after an overrun.
IInv == TypeOK /\ BudgetKept /\ QueuedReady /\ QueuedOnce /\ ReadyQueued

-----------------------------------------------------------------------------
\* The constants in the terms of MlqSched.
LEMMA MlqTypes == /\ MAX_PRIO \in Nat \ {0} /\ MAX_QUEUE_SIZE \in Nat \ {0} /\ NumProcs \in Nat
                  /\ Prio \in [Procs -> Levels] /\ ScanLevels \subseteq Levels
  BY MlqAssumption DEF Procs, Levels

\* The least element of a set of levels is one of them.
LEMMA MinLevel ==
  ASSUME NEW S, S \subseteq Levels, S # {}
  PROVE  Min(S) \in S
<1>1. S \subseteq Nat
  BY MlqTypes DEF Levels
<1> DEFINE Less == {ss \in Nat \X Nat : ss[1] < ss[2]}
<1>2. IsWellFoundedOn(Less, Nat)
  BY NatLessThanWellFounded, Zenon DEF OpToRel
<1>3. PICK x \in S : \A y \in S : ~(<<y, x>> \in Less)
  BY <1>1, <1>2, WFMin, Zenon
<1>4. ASSUME NEW y \in S PROVE x <= y
  <2>1. y \in Nat /\ x \in Nat /\ ~(<<y, x>> \in Less)
    BY <1>1, <1>3
  <2>2. y < x => <<y, x>> \in Less
    BY <2>1
  <2>3. QED
    BY <2>1, <2>2
<1>5. QED
  BY <1>4 DEF Min

\* A refill gives every level at least one dispatch.
LEMMA FullSlotsType == FullSlots \in [Levels -> Nat \ {0}]
  BY MlqTypes DEF FullSlots, Levels

\* init_scheduler establishes the invariant.
LEMMA InitIInv == Init => IInv
<1> SUFFICES ASSUME Init PROVE IInv
  OBVIOUS
<1>1. TypeOK
  BY FullSlotsType, EmptySeq DEF Init, TypeOK, Place
<1>2. BudgetKept
  BY MlqTypes DEF Init, BudgetKept, FullSlots, Levels
<1>3. QueuedReady /\ QueuedOnce /\ ReadyQueued
  BY DEF Init, QueuedReady, QueuedOnce, ReadyQueued
<1>4. QED
  BY <1>1, <1>2, <1>3 DEF IInv

\* add_proc and put_proc: a process that was not queued joins its queue.
LEMMA EnqueueIInv ==
  ASSUME IInv, NEW p \in Procs, NEW from \in {"new", "cpu"},
         Move(p, from, "ready"), enqueue(Prio[p], p), UNCHANGED time_slot
  PROVE  IInv'
<1> DEFINE q == mlq_ready_queue[Prio[p]]
<1>0. /\ Prio[p] \in Levels /\ q \in Seq(Procs)
      /\ where[p] # "ready" /\ where' = [where EXCEPT ![p] = "ready"]
  BY MlqTypes DEF IInv, TypeOK, Move
<1>1. /\ Append(q, p) \in Seq(Procs) /\ Len(q) \in Nat
      /\ Len(Append(q, p)) = Len(q) + 1
      /\ \A k \in 1 .. Len(q) : Append(q, p)[k] = q[k]
      /\ Append(q, p)[Len(q) + 1] = p
  BY <1>0, AppendProperties, LenProperties
<1>2. mlq_ready_queue' = [mlq_ready_queue EXCEPT ![Prio[p]] = Append(q, p)]
  BY DEF enqueue
<1>3. \A k \in 1 .. Len(q) : q[k] # p
  BY <1>0 DEF IInv, QueuedReady
<1>4. \A l \in Levels : l # Prio[p] => mlq_ready_queue'[l] = mlq_ready_queue[l]
  BY <1>2 DEF IInv, TypeOK
<1>5. mlq_ready_queue'[Prio[p]] = Append(q, p)
  BY <1>0, <1>2 DEF IInv, TypeOK
<1>6. \A l \in Levels : \A k \in 1 .. Len(mlq_ready_queue[l]) :
        mlq_ready_queue[l][k] \in Procs
  BY ElementOfSeq DEF IInv, TypeOK
<1>7. TypeOK'
  <2>1. mlq_ready_queue' \in [Levels -> Seq(Procs)]
    BY <1>1, <1>2 DEF IInv, TypeOK
  <2>2. overrun' \in BOOLEAN
    BY DEF enqueue
  <2>3. QED
    BY <1>0, <2>1, <2>2 DEF IInv, TypeOK, Place
<1>8. BudgetKept'
  BY DEF IInv, BudgetKept
<1>9. QueuedReady'
  <2> SUFFICES ASSUME NEW l \in Levels, NEW k \in 1 .. Len(mlq_ready_queue'[l])
               PROVE  /\ where'[mlq_ready_queue'[l][k]] = "ready"
                      /\ Prio[mlq_ready_queue'[l][k]] = l
    BY DEF QueuedReady
  <2>1. CASE l # Prio[p]
    BY <1>0, <1>4, <1>6, <2>1 DEF IInv, TypeOK, QueuedReady
  <2>2. CASE l = Prio[p] /\ k = Len(q) + 1
    BY <1>0, <1>1, <1>5, <2>2 DEF IInv, TypeOK
  <2>3. CASE l = Prio[p] /\ k \in 1 .. Len(q)
    <3>1. mlq_ready_queue'[l][k] = q[k]
      BY <1>1, <1>5, <2>3
    <3>2. where[q[k]] = "ready" /\ Prio[q[k]] = l /\ q[k] \in Procs
      BY <1>0, <1>6, <2>3 DEF IInv, QueuedReady
    <3>3. QED
      BY <1>0, <3>1, <3>2 DEF IInv, TypeOK
  <2>4. QED
    BY <1>1, <1>5, <2>1, <2>2, <2>3
<1>10. QueuedOnce'
  <2> SUFFICES ASSUME NEW l \in Levels,
                      NEW j \in 1 .. Len(mlq_ready_queue'[l]),
                      NEW k \in 1 .. Len(mlq_ready_queue'[l]),
                      mlq_ready_queue'[l][j] = mlq_ready_queue'[l][k]
               PROVE  j = k
    BY DEF QueuedOnce
  <2>1. CASE l # Prio[p]
    BY <1>4, <2>1 DEF IInv, QueuedOnce
  <2>2. CASE l = Prio[p]
    <3>1. j \in 1 .. Len(q) + 1 /\ k \in 1 .. Len(q) + 1
      BY <1>1, <1>5, <2>2
    <3>2. Append(q, p)[j] = Append(q, p)[k]
      BY <1>5, <2>2
    <3>3. CASE j = Len(q) + 1 \/ k = Len(q) + 1
      BY <1>1, <1>3, <3>1, <3>2, <3>3
    <3>4. CASE j \in 1 .. Len(q) /\ k \in 1 .. Len(q)
      <4>1. q[j] = q[k]
        BY <1>1, <3>2, <3>4
      <4>2. QED
        BY <1>0, <3>4, <4>1 DEF IInv, QueuedOnce
    <3>5. Len(q) \in Nat
      BY <1>1
    <3>6. QED
      BY <3>1, <3>3, <3>4, <3>5
  <2>3. QED
    BY <2>1, <2>2
<1>11. ReadyQueued'
  <2> SUFFICES ASSUME NEW r \in Procs, where'[r] = "ready"
               PROVE  \E k \in 1 .. Len(mlq_ready_queue'[Prio[r]]) :
                        mlq_ready_queue'[Prio[r]][k] = r
    BY DEF ReadyQueued
  <2>1. CASE r = p
    BY <1>1, <1>5, <2>1
  <2>2. CASE r # p
    <3>1. PICK k \in 1 .. Len(mlq_ready_queue[Prio[r]]) :
                 mlq_ready_queue[Prio[r]][k] = r
      BY <1>0, <2>2 DEF IInv, TypeOK, ReadyQueued
    <3>2. Prio[r] \in Levels
      BY MlqTypes
    <3>3. CASE Prio[r] # Prio[p]
      BY <1>4, <3>1, <3>2, <3>3
    <3>4. CASE Prio[r] = Prio[p]
      BY <1>1, <1>5, <3>1, <3>4
    <3>5. QED
      BY <3>3, <3>4
  <2>3. QED
    BY <2>1, <2>2
<1>12. QED
  BY <1>7, <1>8, <1>9, <1>10, <1>11 DEF IInv

\* get_proc: the head of a queue leaves it, paid from a budget that covers it.
LEMMA ServeIInv ==
  ASSUME IInv, NEW p \in Procs, NEW l \in Levels, mlq_ready_queue[l] # <<>>,
         NEW slots \in [Levels -> Nat], slots[l] > 0,
         \A m \in Levels : slots[m] \in 0 .. MAX_PRIO - m,
         Serve(l, slots, p)
  PROVE  IInv'
<1> DEFINE q == mlq_ready_queue[l]
<1>0. /\ q \in Seq(Procs) /\ p = Head(q) /\ where[p] = "ready"
      /\ where' = [where EXCEPT ![p] = "cpu"]
      /\ time_slot' = [slots EXCEPT ![l] = @ - 1] /\ overrun' = overrun
  BY DEF IInv, TypeOK, Serve, dequeue, Move
<1>1. /\ Tail(q) \in Seq(Procs) /\ Len(q) \in Nat /\ Len(q) >= 1 /\ p = q[1]
      /\ Len(Tail(q)) = Len(q) - 1
      /\ \A k \in 1 .. Len(Tail(q)) : Tail(q)[k] = q[k + 1]
  BY <1>0, HeadTailProperties, LenProperties, EmptySeq
<1>2. mlq_ready_queue' = [mlq_ready_queue EXCEPT ![l] = Tail(q)]
  BY DEF Serve, dequeue
<1>3. /\ mlq_ready_queue'[l] = Tail(q)
      /\ \A m \in Levels : m # l => mlq_ready_queue'[m] = mlq_ready_queue[m]
  BY <1>2 DEF IInv, TypeOK
<1>4. \A m \in Levels : \A k \in 1 .. Len(mlq_ready_queue[m]) :
        mlq_ready_queue[m][k] \in Procs
  BY ElementOfSeq DEF IInv, TypeOK
<1>5. Prio[p] = l
  BY <1>1 DEF IInv, QueuedReady
<1>6. \A k \in 1 .. Len(Tail(q)) : k + 1 \in 1 .. Len(q) /\ q[k + 1] # p
  BY <1>1 DEF IInv, QueuedOnce
<1>7. TypeOK'
  <2>1. mlq_ready_queue' \in [Levels -> Seq(Procs)]
    BY <1>1, <1>2 DEF IInv, TypeOK
  <2>2. time_slot' \in [Levels -> Nat]
    BY <1>0
  <2>3. QED
    BY <1>0, <2>1, <2>2 DEF IInv, TypeOK, Place
<1>8. BudgetKept'
  <2> SUFFICES ASSUME NEW m \in Levels PROVE time_slot'[m] \in 0 .. MAX_PRIO - m
    BY DEF BudgetKept
  <2>1. CASE m = l
    BY <1>0, <2>1, MlqTypes DEF Levels
  <2>2. CASE m # l
    BY <1>0, <2>2
  <2>3. QED
    BY <2>1, <2>2
<1>9. QueuedReady'
  <2> SUFFICES ASSUME NEW m \in Levels, NEW k \in 1 .. Len(mlq_ready_queue'[m])
               PROVE  /\ where'[mlq_ready_queue'[m][k]] = "ready"
                      /\ Prio[mlq_ready_queue'[m][k]] = m
    BY DEF QueuedReady
  <2>1. CASE m # l
    <3>1. /\ mlq_ready_queue[m][k] \in Procs /\ where[mlq_ready_queue[m][k]] = "ready"
          /\ Prio[mlq_ready_queue[m][k]] = m
      BY <1>3, <1>4, <2>1 DEF IInv, QueuedReady
    <3>2. mlq_ready_queue[m][k] # p
      BY <1>5, <2>1, <3>1
    <3>3. QED
      BY <1>0, <1>3, <2>1, <3>1, <3>2 DEF IInv, TypeOK
  <2>2. CASE m = l
    <3>1. mlq_ready_queue'[m][k] = q[k + 1] /\ k + 1 \in 1 .. Len(q) /\ q[k + 1] # p
      BY <1>1, <1>3, <1>6, <2>2
    <3>2. where[q[k + 1]] = "ready" /\ Prio[q[k + 1]] = l /\ q[k + 1] \in Procs
      BY <1>4, <3>1 DEF IInv, QueuedReady
    <3>3. QED
      BY <1>0, <2>2, <3>1, <3>2 DEF IInv, TypeOK
  <2>3. QED
    BY <2>1, <2>2
<1>10. QueuedOnce'
  <2> SUFFICES ASSUME NEW m \in Levels,
                      NEW j \in 1 .. Len(mlq_ready_queue'[m]),
                      NEW k \in 1 .. Len(mlq_ready_queue'[m]),
                      mlq_ready_queue'[m][j] = mlq_ready_queue'[m][k]
               PROVE  j = k
    BY DEF QueuedOnce
  <2>1. CASE m # l
    BY <1>3, <2>1 DEF IInv, QueuedOnce
  <2>2. CASE m = l
    <3>1. j \in 1 .. Len(Tail(q)) /\ k \in 1 .. Len(Tail(q))
      BY <1>3, <2>2
    <3>2. q[j + 1] = q[k + 1]
      BY <1>1, <1>3, <2>2, <3>1
    <3>3. j + 1 = k + 1
      BY <1>6, <3>1, <3>2 DEF IInv, QueuedOnce
    <3>4. QED
      BY <3>1, <3>3
  <2>3. QED
    BY <2>1, <2>2
<1>11. ReadyQueued'
  <2> SUFFICES ASSUME NEW r \in Procs, where'[r] = "ready"
               PROVE  \E k \in 1 .. Len(mlq_ready_queue'[Prio[r]]) :
                        mlq_ready_queue'[Prio[r]][k] = r
    BY DEF ReadyQueued
  <2>1. r # p /\ where[r] = "ready" /\ Prio[r] \in Levels
    BY <1>0, MlqTypes DEF IInv, TypeOK
  <2>2. PICK k \in 1 .. Len(mlq_ready_queue[Prio[r]]) :
               mlq_ready_queue[Prio[r]][k] = r
    BY <2>1 DEF IInv, ReadyQueued
  <2>3. CASE Prio[r] # l
    BY <1>3, <2>1, <2>2, <2>3
  <2>4. CASE Prio[r] = l
    <3>1. k # 1 /\ k \in 1 .. Len(q)
      BY <1>1, <2>1, <2>2, <2>4
    <3>2. k - 1 \in 1 .. Len(Tail(q)) /\ (k - 1) + 1 = k
      BY <1>1, <3>1
    <3>3. Tail(q)[k - 1] = r
      BY <1>1, <2>2, <2>4, <3>2
    <3>4. QED
      BY <1>3, <2>4, <3>2, <3>3
  <2>5. QED
    BY <2>3, <2>4
<1>12. QED
  BY <1>7, <1>8, <1>9, <1>10, <1>11 DEF IInv

\* Every operation of the scheduler preserves the invariant.
LEMMA NextIInv == IInv /\ [Next]_vars => IInv'
<1> SUFFICES ASSUME IInv, [Next]_vars PROVE IInv'
  OBVIOUS
<1>1. ASSUME NEW p \in Procs, add_proc(p) PROVE IInv'
  BY <1>1, EnqueueIInv DEF add_proc
<1>2. ASSUME NEW p \in Procs, put_proc(p) PROVE IInv'
  BY <1>2, EnqueueIInv DEF put_proc
<1>3. ASSUME NEW p \in Procs, get_some(p) PROVE IInv'
  <2>1. Waiting \subseteq Levels /\ Funded \subseteq Waiting /\ Waiting # {}
    BY <1>3, MlqTypes DEF get_some, Waiting, Funded
  <2>2. CASE Funded # {}
    <3>1. Min(Funded) \in Funded
      BY <2>1, <2>2, MinLevel
    <3>2. /\ Min(Funded) \in Levels /\ mlq_ready_queue[Min(Funded)] # <<>>
          /\ time_slot[Min(Funded)] > 0
      BY <2>1, <3>1 DEF Funded, Waiting
    <3>3. Serve(Min(Funded), time_slot, p)
      BY <1>3, <2>2 DEF get_some
    <3>4. QED
      BY <3>2, <3>3, ServeIInv DEF IInv, TypeOK, BudgetKept
  <2>3. CASE Funded = {}
    <3>1. Min(Waiting) \in Waiting
      BY <2>1, MinLevel
    <3>2. Min(Waiting) \in Levels /\ mlq_ready_queue[Min(Waiting)] # <<>>
      BY <2>1, <3>1 DEF Waiting
    <3>3. Serve(Min(Waiting), FullSlots, p)
      BY <1>3, <2>3 DEF get_some
    <3>4. /\ FullSlots \in [Levels -> Nat] /\ FullSlots[Min(Waiting)] > 0
          /\ \A m \in Levels : FullSlots[m] \in 0 .. MAX_PRIO - m
      BY <3>2, FullSlotsType, MlqTypes DEF FullSlots, Levels
    <3>5. QED
      BY <3>2, <3>3, <3>4, ServeIInv
  <2>4. QED
    BY <2>2, <2>3
<1>4. ASSUME NEW p \in Procs, free_proc(p) PROVE IInv'
  <2>1. /\ UNCHANGED <<mlq_ready_queue, time_slot, overrun>>
        /\ where[p] = "cpu" /\ where' = [where EXCEPT ![p] = "gone"]
    BY <1>4 DEF free_proc, Move
  <2>2. TypeOK' /\ BudgetKept' /\ QueuedOnce'
    BY <2>1 DEF IInv, TypeOK, Place, BudgetKept, QueuedOnce
  <2>3. QueuedReady'
    <3>1. \A l \in Levels : \A k \in 1 .. Len(mlq_ready_queue[l]) :
            mlq_ready_queue[l][k] \in Procs
      BY ElementOfSeq DEF IInv, TypeOK
    <3>2. QED
      BY <2>1, <3>1 DEF IInv, TypeOK, QueuedReady
  <2>4. ReadyQueued'
    BY <2>1 DEF IInv, TypeOK, ReadyQueued
  <2>5. QED
    BY <2>2, <2>3, <2>4 DEF IInv
<1>5. CASE get_none \/ UNCHANGED vars
  BY <1>5 DEF get_none, vars, IInv, TypeOK, BudgetKept, QueuedReady, QueuedOnce,
              ReadyQueued
<1>6. QED
  BY <1>1, <1>2, <1>3, <1>4, <1>5 DEF Next

\* The inductive invariant holds in every reachable state of the scheduler.
THEOREM Invariance == Spec => []IInv
  BY InitIInv, NextIInv, PTL DEF Spec

-----------------------------------------------------------------------------
\* Every variable keeps its type; in particular no level's time_slot is ever
\* negative.
THEOREM TypeCorrect == Spec => []TypeOK
<1>1. IInv => TypeOK
  BY DEF IInv
<1>2. QED
  BY <1>1, Invariance, PTL

\* No level of the multilevel queue is served more often between two refills
\* than its MAX_PRIO - prio slots.
THEOREM Budgets == Spec => []BudgetKept
<1>1. IInv => BudgetKept
  BY DEF IInv
<1>2. QED
  BY <1>1, Invariance, PTL

\* add_proc, put_proc and get_proc neither lose nor duplicate a process.
THEOREM OnePlace == Spec => []InOnePlace
<1>1. IInv => InOnePlace
  BY DEF IInv, InOnePlace
<1>2. QED
  BY <1>1, Invariance, PTL

-----------------------------------------------------------------------------
\* A queue is no longer than the number of processes of its priority.
ShortQueues == \A l \in Levels :
  Len(mlq_ready_queue[l]) <= Cardinality({p \in Procs : Prio[p] = l})

\* The interval 1 .. n has n elements.
LEMMA IntervalSize == ASSUME NEW n \in Nat PROVE Cardinality(1 .. n) = n
<1>1. 1 \in Int /\ n \in Int
  OBVIOUS
<1>2. Cardinality(1 .. n) = IF 1 > n THEN 0 ELSE n - 1 + 1
  BY <1>1, FS_Interval, Zenon
<1>3. QED
  BY <1>2

\* The processes in a queue are different ones of its priority, so counting
\* them bounds its length.
LEMMA QueueLength == IInv => ShortQueues
<1> SUFFICES ASSUME IInv, NEW l \in Levels
             PROVE  Len(mlq_ready_queue[l]) <= Cardinality({p \in Procs : Prio[p] = l})
  BY DEF ShortQueues
<1> DEFINE q == mlq_ready_queue[l]
           T == {p \in Procs : Prio[p] = l}
<1>1. q \in Seq(Procs) /\ Len(q) \in Nat /\ q \in [1 .. Len(q) -> Procs]
  BY LenProperties DEF IInv, TypeOK
<1>2. q \in Injection(1 .. Len(q), T)
  <2>1. q \in [1 .. Len(q) -> T]
    BY <1>1 DEF IInv, QueuedReady
  <2>2. QED
    BY <2>1 DEF Injection, IsInjective, IInv, QueuedOnce
<1>3. IsFiniteSet(T)
  BY FS_Interval, FS_Subset, MlqTypes DEF Procs
<1>4. Cardinality(1 .. Len(q)) <= Cardinality(T)
  BY <1>2, <1>3, FS_Injection
<1>5. Cardinality(1 .. Len(q)) = Len(q)
  BY <1>1, IntervalSize
<1>6. QED
  BY <1>4, <1>5

\* queue.c has no bound check, so this is what keeps its arrays from being
\* overrun: at most MAX_QUEUE_SIZE processes of one priority in the
\* configuration, whatever the CPUs and the loader do.
THEOREM QueuesFit == ASSUME LevelsFit PROVE Spec => []NoOverrun
<1>1. Init => NoOverrun
  BY DEF Init, NoOverrun
<1>2. TypeOK /\ ShortQueues' /\ NoOverrun /\ [Next]_vars => NoOverrun'
  <2> SUFFICES ASSUME TypeOK, ShortQueues', NoOverrun, [Next]_vars PROVE NoOverrun'
    OBVIOUS
  <2>1. ASSUME NEW p \in Procs, enqueue(Prio[p], p) PROVE NoOverrun'
    <3> DEFINE l == Prio[p]
               q == mlq_ready_queue[l]
               n == Cardinality({r \in Procs : Prio[r] = l})
    <3>1. l \in Levels /\ q \in Seq(Procs) /\ Len(q) \in Nat
      BY MlqTypes, LenProperties DEF TypeOK
    <3>2. mlq_ready_queue'[l] = Append(q, p)
      BY <2>1, <3>1 DEF enqueue, TypeOK
    <3>3. Len(Append(q, p)) = Len(q) + 1
      BY <3>1, AppendProperties
    <3>4. Len(q) + 1 <= n
      BY <3>1, <3>2, <3>3 DEF ShortQueues
    <3>5. n <= MAX_QUEUE_SIZE
      BY <3>1 DEF LevelsFit
    <3>6. n \in Nat
      <4>1. IsFiniteSet({r \in Procs : Prio[r] = l})
        BY FS_Interval, FS_Subset, MlqTypes DEF Procs
      <4>2. QED
        BY <4>1, FS_CardinalityType
    <3>7. ~(Len(q) >= MAX_QUEUE_SIZE)
      <4> HIDE DEF n
      <4>1. QED
        BY <3>1, <3>4, <3>5, <3>6, MlqTypes
    <3>8. QED
      BY <2>1, <3>7, Zenon DEF enqueue, NoOverrun
  <2>2. QED
    BY <2>1 DEF Next, add_proc, put_proc, get_some, Serve, get_none, free_proc,
                vars, NoOverrun
<1>3. IInv => TypeOK
  BY DEF IInv
<1>4. QED
  BY <1>1, <1>2, <1>3, QueueLength, Invariance, PTL DEF Spec
=============================================================================
