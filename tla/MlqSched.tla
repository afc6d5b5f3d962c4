------------------------------ MODULE MlqSched -------------------------------
(***************************************************************************)
(* src/sched.c (the MLQ_SCHED build) and src/queue.c: one ready queue per  *)
(* priority level, each with a budget of dispatches that is refilled when  *)
(* every waiting level has used its own up.  Every operation runs under    *)
(* queue_lock from end to end, so each is one action.                      *)
(*                                                                         *)
(* The levels the loops of get_mlq_proc visit are the parameter ScanLevels.*)
(* The loop headers of sched.c (prio = MAX_PRIO; prio < 0; prio++) visit   *)
(* CodeScan, which is empty: the program as it stands is the instance      *)
(* ScanLevels = CodeScan.  FullScan is what the recorded runs under        *)
(* output/ need.  The theorems hold for both.                              *)
(***************************************************************************)
EXTENDS Config, Sequences, FiniteSetsExt

Levels == 0 .. MAX_PRIO - 1
Procs == 1 .. NumProcs     \* processes are named by their pid
NULL == 0

CodeScan == MAX_PRIO .. 0 - 1
FullScan == Levels

VARIABLES
  mlq_ready_queue,  \* the processes of each level, the head first
  time_slot,        \* the dispatches each level has left
  overrun,          \* an enqueue has written past the end of its array
  where             \* where[p]: who has process p ("new": not loaded yet,
                    \* "ready": the scheduler, "cpu": a CPU, "gone": freed)

vars == <<mlq_ready_queue, time_slot, overrun, where>>

Place == {"new", "ready", "cpu", "gone"}

TypeOK ==
  /\ mlq_ready_queue \in [Levels -> Seq(Procs)]
  /\ time_slot \in [Levels -> Nat]
  /\ overrun \in BOOLEAN
  /\ where \in [Procs -> Place]

\* The budget init_scheduler gives, and a refill gives back.
FullSlots == [l \in Levels |-> MAX_PRIO - l]

\* init_scheduler
Init == /\ mlq_ready_queue = [l \in Levels |-> <<>>]
        /\ time_slot = FullSlots
        /\ overrun = FALSE
        /\ where = [p \in Procs |-> "new"]

-----------------------------------------------------------------------------
\* Bug variant: size is incremented before the store, one cell further on.
enqueue_PreInc(l, p) ==
  /\ mlq_ready_queue' = [mlq_ready_queue EXCEPT ![l] = Append(@, p)]
  /\ overrun' = (Len(mlq_ready_queue[l]) + 1 >= MAX_QUEUE_SIZE)

\* queue.c: enqueue has no test against MAX_QUEUE_SIZE.  The store into
\* proc[size] of a full queue hits the size and time_slot fields behind the
\* array; nothing is said of the state after that.
enqueue(l, p) ==
  /\ mlq_ready_queue' = [mlq_ready_queue EXCEPT ![l] = Append(@, p)]
  /\ overrun' = (Len(mlq_ready_queue[l]) >= MAX_QUEUE_SIZE)

\* Bug variant: the cells move up but size keeps its value.
dequeue_NoShrink(l, p) ==
  /\ p = Head(mlq_ready_queue[l])
  /\ mlq_ready_queue' = [mlq_ready_queue EXCEPT ![l] = Append(Tail(@), @[Len(@)])]

\* queue.c: take the first cell and move the others up.
dequeue(l, p) ==
  /\ p = Head(mlq_ready_queue[l])
  /\ mlq_ready_queue' = [mlq_ready_queue EXCEPT ![l] = Tail(@)]

Move(p, from, to) == where[p] = from /\ where' = [where EXCEPT ![p] = to]

\* add_mlq_proc: the loader hands over a new process.
add_proc(p) == /\ ~overrun /\ Move(p, "new", "ready")
               /\ enqueue(Prio[p], p)
               /\ UNCHANGED time_slot

\* put_mlq_proc: a CPU gives a process back.
put_proc(p) == /\ ~overrun /\ Move(p, "cpu", "ready")
               /\ enqueue(Prio[p], p)
               /\ UNCHANGED time_slot

Waiting == {l \in ScanLevels : mlq_ready_queue[l] # <<>>}

Funded == {l \in Waiting : time_slot[l] > 0}

\* Take process p from level l, charging the given budget.
Serve(l, slots, p) == /\ dequeue(l, p)
                      /\ time_slot' = [slots EXCEPT ![l] = @ - 1]
                      /\ Move(p, "ready", "cpu")
                      /\ UNCHANGED overrun

\* Bug variant: a refill adds to what is left instead of replacing it.
get_some_AddUp(p) ==
  /\ ~overrun /\ Waiting # {}
  /\ IF Funded # {}
       THEN Serve(Min(Funded), time_slot, p)
       ELSE Serve(Min(Waiting), [l \in Levels |-> time_slot[l] + MAX_PRIO - l], p)

\* get_mlq_proc returns process p ...
get_some(p) ==
  /\ ~overrun /\ Waiting # {}
  /\ IF Funded # {} THEN Serve(Min(Funded), time_slot, p)
                    ELSE Serve(Min(Waiting), FullSlots, p)

\* ... or NULL.
get_none == ~overrun /\ Waiting = {} /\ UNCHANGED vars

get_proc(r) == IF r = NULL THEN get_none ELSE get_some(r)

\* cpu_routine frees the PCB of a finished process.
free_proc(p) == /\ ~overrun /\ Move(p, "cpu", "gone")
                /\ UNCHANGED <<mlq_ready_queue, time_slot, overrun>>

Next == \/ \E p \in Procs : add_proc(p) \/ put_proc(p) \/ get_some(p) \/ free_proc(p)
        \/ get_none

Spec == Init /\ [][Next]_vars

-----------------------------------------------------------------------------
(* Properties                                                               *)

\* A queued process waits, in the queue of its priority ...
QueuedReady == \A l \in Levels : \A k \in 1 .. Len(mlq_ready_queue[l]) :
  where[mlq_ready_queue[l][k]] = "ready" /\ Prio[mlq_ready_queue[l][k]] = l

\* ... in one cell of it only ...
QueuedOnce == \A l \in Levels : \A j, k \in 1 .. Len(mlq_ready_queue[l]) :
  mlq_ready_queue[l][j] = mlq_ready_queue[l][k] => j = k

\* ... and a process that waits is queued.
ReadyQueued == \A p \in Procs : where[p] = "ready" =>
  \E k \in 1 .. Len(mlq_ready_queue[Prio[p]]) : mlq_ready_queue[Prio[p]][k] = p

\* A process handed to the scheduler is in exactly one cell of exactly the
\* queue of its priority until a CPU gets it, and in none afterwards: the
\* scheduler neither loses nor duplicates a PCB.
InOnePlace == ~overrun => QueuedReady /\ QueuedOnce /\ ReadyQueued

\* A level never spends more than its budget of MAX_PRIO - prio dispatches
\* between two refills, and the dispatch right after a refill is covered.
BudgetKept == \A l \in Levels : time_slot[l] \in 0 .. MAX_PRIO - l

\* The configuration has at most MAX_QUEUE_SIZE processes of each priority.
LevelsFit ==
  \A l \in Levels : Cardinality({p \in Procs : Prio[p] = l}) <= MAX_QUEUE_SIZE

\* enqueue never writes past the MAX_QUEUE_SIZE cells of queue.h.  Nothing in
\* queue.c sees to it: it takes LevelsFit.
NoOverrun == ~overrun
=============================================================================
