------------------------------ MODULE OsProofs -------------------------------
(***************************************************************************)
(* Proofs about Os.tla, for every number of CPUs and processes, every      *)
(* length of the time slice and whatever levels get_mlq_proc scans.  The   *)
(* facts about the ready queues are those of MlqSchedProofs, instantiated  *)
(* with the variables of Os.                                               *)
(***************************************************************************)
EXTENDS Os, TLAPS

SchedP == INSTANCE MlqSchedProofs

-----------------------------------------------------------------------------
(* The inductive invariant                                                  *)

\* The loader has handed over exactly the processes below i; done is set only
\* behind the last of them, in a slot after the one it was added in.
LoaderInv ==
  /\ \A p \in Procs : where[p] = "new" <=> p >= i
  /\ lpc = "time" => i <= NumProcs
  /\ done <=> lpc \in {"detach", "exit"}
  /\ done => i > NumProcs /\ phase[Loader] # "wait"

\* A CPU is between two slots only at the top of its loop, and has left the
\* barrier only if it has seen done and stopped.
PhaseInv == \A c \in CPUs :
  /\ phase[c] \in {"wait", "free"} => cpc[c] = "top"
  /\ cpc[c] = "stopped" => done /\ phase[c] = "out"
  /\ phase[c] = "out" => cpc[c] = "stopped"
  /\ cpc[c] = "hung" => proc[c] # NULL

\* What a CPU has left of a slice is what its process has left of one.
SliceInv ==
  /\ \A p \in Procs : where[p] = "new" => pc[p] = 0
  /\ \A c \in CPUs :
       /\ proc[c] = NULL \/ cpc[c] \notin {"top", "hung"} => time_left[c] = 0
       /\ proc[c] # NULL /\ cpc[c] = "check" => pc[proc[c]] % TimeSlice = 0
       /\ proc[c] # NULL /\ cpc[c] = "top" =>
            \/ pc[proc[c]] = Size[proc[c]]
            \/ (pc[proc[c]] + time_left[c]) % TimeSlice = 0

\* The loader has handed over every process, and the slot it did so in is over.
Settled == i > NumProcs /\ phase[Loader] # "wait"

\* CPU c is not on its way out with nothing to do.
Active(c) == \/ cpc[c] \in {"top", "get_next", "hung"}
             \/ cpc[c] = "check" /\ proc[c] # NULL

\* From then on some CPU stays active as long as a process is unfinished that a
\* scan can find.
ActiveInv == Settled /\ CPUs # {} /\ (\E p \in Reachable : where[p] # "gone") =>
               \E c \in CPUs : Active(c)

\* With a scan that visits no level, as the loops of sched.c are written, no CPU
\* ever has a process.
IdleInv == ScanLevels = {} => \A c \in CPUs : proc[c] = NULL /\ cpc[c] = "top"

IInv == /\ TypeOK /\ SchedP!IInv /\ LoaderInv /\ PhaseInv
        /\ ExclusivePcb /\ SliceInv /\ WholeSlices /\ ActiveInv /\ IdleInv

-----------------------------------------------------------------------------
(* The constants and the operators of the scheduler                         *)

\* Names of the constants, and which threads are CPUs.
LEMMA Constants == /\ Procs = 1 .. NumProcs /\ NULL = 0 /\ NULL \notin Procs
                   /\ Loader \notin CPUs /\ Loader \in Threads /\ CPUs \subseteq Threads
                   /\ Prio \in [Procs -> Sched!Levels]
                   /\ NumProcs \in Nat /\ Reachable \subseteq Procs
  BY OsAssumption, MlqAssumption
     DEF Procs, NULL, Sched!Procs, Sched!NULL, Sched!Levels, Loader, CPUs, Threads, Reachable

\* The configuration meets what the scheduler assumes of it.
LEMMA SchedAssumption == SchedP!MlqAssumption
  BY MlqAssumption DEF SchedP!MlqAssumption

\* The two instances of MlqSched, with and without its proofs, agree.
LEMMA SameSched == /\ SchedP!Init <=> Sched!Init
                   /\ [Sched!Next]_(Sched!vars) => [SchedP!Next]_(SchedP!vars)
                   /\ SchedP!TypeOK <=> Sched!TypeOK
<1>1. SchedP!Levels = Sched!Levels /\ SchedP!Procs = Sched!Procs
  BY DEF SchedP!Levels, Sched!Levels, SchedP!Procs, Sched!Procs
<1>2. SchedP!FullSlots = Sched!FullSlots
  BY <1>1 DEF SchedP!FullSlots, Sched!FullSlots
<1>3. SchedP!Waiting = Sched!Waiting
  BY DEF SchedP!Waiting, Sched!Waiting
<1>4. SchedP!Funded = Sched!Funded
  BY <1>3 DEF SchedP!Funded, Sched!Funded
<1>5. /\ SchedP!Min(Sched!Funded) = Sched!Min(Sched!Funded)
      /\ SchedP!Min(Sched!Waiting) = Sched!Min(Sched!Waiting)
  BY DEF SchedP!Min, Sched!Min
<1>6. ASSUME NEW p PROVE Sched!get_some(p) => SchedP!get_some(p)
  BY <1>2, <1>3, <1>4, <1>5
     DEF Sched!get_some, SchedP!get_some, Sched!Serve, SchedP!Serve,
         Sched!dequeue, SchedP!dequeue, Sched!Move, SchedP!Move
<1>7. ASSUME NEW p PROVE /\ Sched!add_proc(p) => SchedP!add_proc(p)
                         /\ Sched!put_proc(p) => SchedP!put_proc(p)
                         /\ Sched!free_proc(p) => SchedP!free_proc(p)
  BY DEF Sched!add_proc, SchedP!add_proc, Sched!put_proc, SchedP!put_proc,
         Sched!free_proc, SchedP!free_proc, Sched!enqueue, SchedP!enqueue,
         Sched!Move, SchedP!Move
<1>8. [Sched!Next]_(Sched!vars) => [SchedP!Next]_(SchedP!vars)
  BY <1>1, <1>6, <1>7 DEF Sched!Next, SchedP!Next, Sched!vars, SchedP!vars,
                          Sched!get_none, SchedP!get_none
<1>9. QED
  BY <1>1, <1>2, <1>8 DEF SchedP!Init, Sched!Init, SchedP!TypeOK, Sched!TypeOK,
                          SchedP!Place, Sched!Place

\* get_proc returns a process that waited for a CPU.
LEMMA GetSome ==
  ASSUME NEW r \in Procs, Sched!get_proc(r)
  PROVE  /\ Sched!get_some(r)
         /\ where[r] = "ready" /\ where' = [where EXCEPT ![r] = "cpu"]
<1>1. r # Sched!NULL
  BY Constants DEF NULL
<1>2. QED
  BY <1>1 DEF Sched!get_proc, Sched!get_some, Sched!Serve, Sched!Move

\* NULL comes from a scan that found every queue it visited empty.
LEMMA GetNone ==
  ASSUME Sched!get_proc(NULL)
  PROVE  /\ Sched!get_none /\ Sched!Waiting = {} /\ UNCHANGED schedVars
  BY DEF NULL, Sched!get_proc, Sched!get_none, Sched!vars, schedVars

\* A scan that finds nothing leaves no process behind on the levels it visits.
LEMMA EmptyQueues ==
  ASSUME SchedP!IInv, Sched!Waiting = {}
  PROVE  \A p \in Reachable : where[p] # "ready"
<1> SUFFICES ASSUME NEW p \in Procs, Prio[p] \in ScanLevels, where[p] = "ready" PROVE FALSE
  BY DEF Reachable
<1>1. PICK k \in 1 .. Len(mlq_ready_queue[Prio[p]]) : mlq_ready_queue[Prio[p]][k] = p
  BY DEF SchedP!IInv, SchedP!ReadyQueued, SchedP!Procs, Procs, Sched!Procs
<1>2. mlq_ready_queue[Prio[p]] = <<>>
  BY DEF Sched!Waiting
<1>3. QED
  BY <1>1, <1>2

\* A whole slice more leaves a whole number of slices.
LEMMA WholeSliceMore ==
  ASSUME NEW x \in Nat, x % TimeSlice = 0
  PROVE  (x + TimeSlice) % TimeSlice = 0
<1>0. TimeSlice \in Nat \ {0}
  BY OsAssumption
<1>1. PICK k \in Nat : x = k * TimeSlice
  <2>1. x = TimeSlice * (x \div TimeSlice) + (x % TimeSlice)
    BY <1>0
  <2>2. x \div TimeSlice \in Nat
    BY <1>0
  <2>3. x = (x \div TimeSlice) * TimeSlice
    BY <1>0, <2>1, <2>2
  <2>4. QED
    BY <2>2, <2>3
<1>2. x + TimeSlice = (k + 1) * TimeSlice
  BY <1>0, <1>1
<1>3. ASSUME NEW m \in Nat PROVE (m * TimeSlice) % TimeSlice = 0
  BY <1>0
<1>4. ((k + 1) * TimeSlice) % TimeSlice = 0
  <2>1. k + 1 \in Nat
    OBVIOUS
  <2>2. QED
    BY <1>3, <2>1, Zenon
<1>5. QED
  BY <1>2, <1>4, Zenon

-----------------------------------------------------------------------------
(* Os runs the scheduler: every step is one of MlqSched's or leaves the      *)
(* ready queues alone                                                        *)

\* Every step of the composed system is a step of the scheduler.
LEMMA SchedStep ==
  ASSUME TypeOK, LoaderInv, [Next]_vars
  PROVE  [Sched!Next]_(Sched!vars)
<1> USE DEF Sched!Next, Sched!vars, schedVars
<1>1. ASSUME NEW c \in CPUs, cpu_routine(c) PROVE [Sched!Next]_(Sched!vars)
  <2>0. proc[c] # NULL => proc[c] \in Procs
    BY DEF TypeOK
  <2>1. CASE cpu_finish(c)
    BY <2>0, <2>1 DEF cpu_finish, Procs
  <2>2. CASE cpu_preempt(c)
    BY <2>0, <2>2 DEF cpu_preempt, Procs
  <2>3. CASE cpu_stop(c) \/ cpu_skip(c) \/ cpu_run(c) \/ cpu_hang(c)
    BY <2>3 DEF cpu_stop, cpu_skip, cpu_run, cpu_hang
  <2>4. ASSUME NEW r \in Procs \cup {NULL}, cpu_get_first(c, r) \/ cpu_get_next(c, r)
        PROVE  [Sched!Next]_(Sched!vars)
    <3>1. Sched!get_proc(r)
      BY <2>4 DEF cpu_get_first, cpu_get_next
    <3>2. CASE r = NULL
      BY <3>1, <3>2, GetNone
    <3>3. CASE r \in Procs
      BY <3>1, <3>3, GetSome DEF Procs
    <3>4. QED
      BY <3>2, <3>3
  <2>5. QED
    BY <1>1, <2>1, <2>2, <2>3, <2>4 DEF cpu_routine
<1>2. CASE ld_add
  <2>1. i \in Procs
    BY <1>2, Constants, OsAssumption DEF ld_add, LdAt, TypeOK, LoaderInv
  <2>2. QED
    BY <1>2, <2>1 DEF ld_add, Procs
<1>3. CASE ld_load \/ ld_wait \/ ld_done \/ ld_detach \/ tick \/ Halted \/ UNCHANGED vars
  BY <1>3 DEF ld_load, ld_wait, ld_done, ld_detach, tick, Halted, vars
<1>4. ASSUME NEW t \in Threads, release(t) PROVE [Sched!Next]_(Sched!vars)
  BY <1>4 DEF release
<1>5. QED
  BY <1>1, <1>2, <1>3, <1>4 DEF Next, ld_routine

\* The invariant of the scheduler holds in the composed system.
LEMMA SchedInvStep ==
  ASSUME TypeOK, LoaderInv, SchedP!IInv, [Next]_vars
  PROVE  SchedP!IInv' /\ Sched!TypeOK'
<1>1. SchedP!IInv'
  BY SchedStep, SameSched, SchedP!NextIInv, SchedAssumption
<1>2. QED
  BY <1>1 DEF SchedP!IInv, SchedP!TypeOK, Sched!TypeOK, SchedP!Levels,
     Sched!Levels, SchedP!Procs, Sched!Procs, SchedP!Place, Sched!Place

\* Every step is a step of the slot barrier.
LEMMA SlotStep == ASSUME [Next]_vars PROVE [Slot!Next]_(Slot!vars)
<1> USE DEF Slot!Next, Slot!vars, slotVars
<1>1. ASSUME NEW c \in CPUs, cpu_routine(c) PROVE [Slot!Next]_(Slot!vars)
  BY <1>1, Constants DEF cpu_routine, cpu_finish, cpu_preempt, cpu_stop, cpu_skip,
                         cpu_run, cpu_hang, cpu_get_first, cpu_get_next
<1>2. CASE ld_routine
  BY <1>2, Constants DEF ld_routine, ld_load, ld_wait, ld_add, ld_done, ld_detach
<1>3. CASE tick \/ Halted \/ UNCHANGED vars
  BY <1>3 DEF tick, Halted, vars
<1>4. ASSUME NEW t \in Threads, release(t) PROVE [Slot!Next]_(Slot!vars)
  BY <1>4 DEF release
<1>5. QED
  BY <1>1, <1>2, <1>3, <1>4 DEF Next

\* A step of the barrier keeps its types.
LEMMA SlotTypes == ASSUME Slot!TypeOK, [Slot!Next]_(Slot!vars) PROVE Slot!TypeOK'
<1> USE OsAssumption DEF Slot!TypeOK, Slot!Phase
<1>1. CASE Slot!Tick
  BY <1>1 DEF Slot!Tick
<1>2. ASSUME NEW d \in Threads, Slot!Arrive(d) \/ Slot!Release(d) \/ Slot!Leave(d)
      PROVE  Slot!TypeOK'
  BY <1>2 DEF Slot!Arrive, Slot!Release, Slot!Leave
<1>3. CASE UNCHANGED Slot!vars
  BY <1>3 DEF Slot!vars
<1>4. QED
  BY <1>1, <1>2, <1>3 DEF Slot!Next

-----------------------------------------------------------------------------
(* Each part of the invariant is preserved                                  *)

\* Every variable keeps its type.
LEMMA TypeStep == ASSUME IInv, [Next]_vars PROVE TypeOK'
<1> DEFINE CpuTypes == /\ cpc \in [CPUs -> CpuPC] /\ proc \in [CPUs -> Procs \cup {NULL}]
                       /\ time_left \in [CPUs -> 0 .. TimeSlice]
                       /\ pc \in [Procs -> Nat] /\ \A p \in Procs : pc[p] <= Size[p]
           LdTypes == /\ lpc \in LdPC /\ i \in 1 .. NumProcs + 1
                      /\ done \in BOOLEAN /\ exited \in BOOLEAN
<1>1. Sched!TypeOK' /\ Slot!TypeOK'
  BY SchedInvStep, SlotStep, SlotTypes DEF IInv, TypeOK
<1>2. CpuTypes /\ LdTypes
  BY DEF IInv, TypeOK
<1>3. CpuTypes'
  <2>1. ASSUME NEW c \in CPUs, cpu_run(c) PROVE CpuTypes'
    <3>1. proc[c] \in Procs
      BY <1>2, <2>1 DEF cpu_run, GoesOn, Fetched
    <3>2. Size[proc[c]] \in Nat /\ pc[proc[c]] \in Nat /\ TimeSlice \in Nat \ {0}
      BY <1>2, <3>1, OsAssumption
    <3>3. pc' \in [Procs -> Nat] /\ \A p \in Procs : pc'[p] <= Size[p]
      BY <1>2, <2>1, <3>1, <3>2, OsAssumption DEF cpu_run, run
    <3>4. time_left[c] \in 0 .. TimeSlice
      BY <1>2
    <3>5. time_left' \in [CPUs -> 0 .. TimeSlice]
      <4>1. (IF time_left[c] = 0 THEN TimeSlice - 1 ELSE time_left[c] - 1) \in 0 .. TimeSlice
        BY <3>2, <3>4
      <4>2. QED
        BY <1>2, <2>1, <4>1 DEF cpu_run
    <3>6. QED
      BY <1>2, <2>1, <3>3, <3>5 DEF cpu_run, CpuGoto, CpuPC
  <2>5. ASSUME NEW c \in CPUs, cpu_hang(c) PROVE CpuTypes'
    <3>1. proc[c] \in Procs
      BY <1>2, <2>5 DEF cpu_hang, GoesOn, Fetched
    <3>2. pc' \in [Procs -> Nat] /\ \A p \in Procs : pc'[p] <= Size[p]
      BY <1>2, <2>5, <3>1, OsAssumption DEF cpu_hang, run
    <3>3. time_left' \in [CPUs -> 0 .. TimeSlice]
      <4>1. (IF time_left[c] = 0 THEN TimeSlice ELSE time_left[c]) \in 0 .. TimeSlice
        BY <1>2, OsAssumption
      <4>2. QED
        BY <1>2, <2>5, <4>1 DEF cpu_hang
    <3>4. QED
      BY <1>2, <2>5, <3>2, <3>3 DEF cpu_hang, CpuGoto, CpuPC
  <2>2. ASSUME NEW c \in CPUs,
               cpu_finish(c) \/ cpu_preempt(c) \/ cpu_stop(c) \/ cpu_skip(c)
        PROVE  CpuTypes'
    BY <1>2, <2>2, OsAssumption
       DEF cpu_finish, cpu_preempt, cpu_stop, cpu_skip, CpuGoto, CpuPC
  <2>3. ASSUME NEW c \in CPUs, NEW r \in Procs \cup {NULL},
               cpu_get_first(c, r) \/ cpu_get_next(c, r)
        PROVE  CpuTypes'
    BY <1>2, <2>3 DEF cpu_get_first, cpu_get_next, CpuGoto, CpuPC
  <2>4. CASE UNCHANGED cpuVars
    BY <1>2, <2>4 DEF cpuVars
  <2>6. QED
    BY <2>1, <2>2, <2>3, <2>4, <2>5
       DEF Next, cpu_routine, ld_routine, ld_load, ld_wait, ld_add, ld_done,
           ld_detach, tick, release, Halted, vars
<1>4. LdTypes'
  <2>1. CASE ld_routine
    <3>1. lpc' \in LdPC /\ i' \in 1 .. NumProcs + 1
      BY <1>2, <2>1, OsAssumption, Constants
         DEF ld_routine, ld_load, ld_wait, ld_add, ld_done, ld_detach, LdAt, LdPC,
             ldVars, IInv, LoaderInv
    <3>2. done' \in BOOLEAN /\ exited' \in BOOLEAN
      BY <1>2, <2>1, Zenon
         DEF ld_routine, ld_load, ld_wait, ld_add, ld_done, ld_detach, ldVars
    <3>3. QED
      BY <3>1, <3>2
  <2>2. CASE UNCHANGED ldVars
    BY <1>2, <2>2 DEF ldVars
  <2>3. ASSUME NEW c \in CPUs, cpu_hang(c) PROVE LdTypes'
    <3>1. exited' \in BOOLEAN /\ done' \in BOOLEAN
      BY <1>2, <2>3, Zenon DEF cpu_hang
    <3>2. QED
      BY <1>2, <2>3, <3>1 DEF cpu_hang
  <2>4. QED
    BY <2>1, <2>2, <2>3
       DEF Next, cpu_routine, cpu_finish, cpu_preempt, cpu_stop, cpu_skip, cpu_run,
           cpu_get_first, cpu_get_next, tick, release, Halted, vars
<1>5. QED
  BY <1>1, <1>3, <1>4 DEF TypeOK

\* The loader hands the processes over in order, and done comes last.
LEMMA LoaderStep == ASSUME IInv, [Next]_vars PROVE LoaderInv'
<1> DEFINE New(p) == where[p] = "new"
<1>0. /\ i \in Int /\ NumProcs \in Nat /\ Procs \subseteq Int /\ where \in [Procs -> Sched!Place]
      /\ phase \in [Threads -> Slot!Phase]
  BY Constants, OsAssumption DEF IInv, TypeOK, Sched!TypeOK, Slot!TypeOK, Procs
<1>1. ASSUME NEW c \in CPUs, cpu_routine(c) PROVE LoaderInv'
  <2>1. UNCHANGED <<lpc, i, done>> /\ phase'[Loader] = phase[Loader]
    BY <1>0, <1>1, Constants
       DEF cpu_routine, cpu_finish, cpu_preempt, cpu_stop, cpu_skip, cpu_run, cpu_hang,
           cpu_get_first, cpu_get_next, Slot!Arrive, Slot!Leave, slotVars, ldVars
  <2>2. \A p \in Procs : New(p)' <=> New(p)
    <3>1. CASE cpu_finish(c) \/ cpu_preempt(c)
      BY <1>0, <3>1 DEF cpu_finish, cpu_preempt, Sched!free_proc, Sched!put_proc, Sched!Move
    <3>2. CASE UNCHANGED where
      BY <3>2
    <3>3. ASSUME NEW r \in Procs, where[r] = "ready", where' = [where EXCEPT ![r] = "cpu"]
          PROVE  \A p \in Procs : New(p)' <=> New(p)
      BY <1>0, <3>3
    <3>4. ASSUME NEW r \in Procs \cup {NULL}, Sched!get_proc(r)
          PROVE  \A p \in Procs : New(p)' <=> New(p)
      BY <3>2, <3>3, <3>4, GetSome, GetNone DEF schedVars
    <3>5. QED
      BY <1>1, <3>1, <3>2, <3>4
         DEF cpu_routine, cpu_stop, cpu_skip, cpu_run, cpu_hang, cpu_get_first,
             cpu_get_next, schedVars
  <2>3. QED
    BY <2>1, <2>2 DEF IInv, LoaderInv
<1>2. CASE ld_add
  <2>1. i \in Procs /\ i' = i + 1 /\ where' = [where EXCEPT ![i] = "ready"] /\ lpc' = "load"
        /\ lpc = "time" /\ done' = done
    BY <1>0, <1>2, Constants DEF ld_add, LdAt, IInv, LoaderInv, TypeOK, Sched!add_proc, Sched!Move
  <2>2. \A p \in Procs : New(p)' <=> p >= i'
    BY <1>0, <2>1 DEF IInv, LoaderInv
  <2>3. QED
    BY <2>1, <2>2 DEF IInv, LoaderInv
<1>3. CASE ld_load \/ ld_wait
  BY <1>0, <1>3, Constants
     DEF ld_load, ld_wait, LdAt, IInv, LoaderInv, schedVars, slotVars, Slot!Arrive, ldVars
<1>4. CASE ld_done \/ ld_detach
  BY <1>0, <1>4, Constants
     DEF ld_done, ld_detach, LdAt, Running, IInv, LoaderInv, schedVars, slotVars, Slot!Leave
<1>5. CASE tick
  BY <1>0, <1>5, Constants DEF tick, Slot!Tick, IInv, LoaderInv, schedVars, ldVars
<1>6. ASSUME NEW t \in Threads, release(t) PROVE LoaderInv'
  BY <1>0, <1>6, Constants DEF release, Slot!Release, IInv, LoaderInv, schedVars, ldVars
<1>7. CASE UNCHANGED vars
  BY <1>7 DEF vars, schedVars, slotVars, ldVars, IInv, LoaderInv
<1>8. QED
  BY <1>1, <1>2, <1>3, <1>4, <1>5, <1>6, <1>7 DEF Next, ld_routine, Halted

\* The position of a CPU in its loop fits its phase in the slot.
LEMMA PhaseStep == ASSUME IInv, [Next]_vars PROVE PhaseInv'
<1>0. /\ phase \in [Threads -> Slot!Phase] /\ cpc \in [CPUs -> CpuPC]
      /\ proc \in [CPUs -> Procs \cup {NULL}]
      /\ CPUs \subseteq Threads /\ Loader \in Threads \ CPUs
  BY Constants DEF IInv, TypeOK, Slot!TypeOK
<1>1. ASSUME NEW c \in CPUs, cpu_routine(c) PROVE PhaseInv'
  BY <1>0, <1>1
     DEF cpu_routine, cpu_finish, cpu_preempt, cpu_stop, cpu_skip, cpu_run, cpu_hang, CpuAt,
         Running, GoesOn, Fetched, cpu_get_first, cpu_get_next, Slot!Arrive,
         Slot!Leave, slotVars, ldVars, CpuGoto, IInv, PhaseInv
<1>2. CASE ld_routine
  BY <1>0, <1>2
     DEF ld_routine, ld_load, ld_wait, ld_add, ld_done, ld_detach, Slot!Arrive,
         Slot!Leave, cpuVars, slotVars, ldVars, IInv, PhaseInv
<1>3. CASE tick
  BY <1>0, <1>3 DEF tick, Slot!Tick, IInv, PhaseInv, cpuVars, ldVars
<1>4. ASSUME NEW t \in Threads, release(t) PROVE PhaseInv'
  BY <1>0, <1>4 DEF release, Slot!Release, IInv, PhaseInv, cpuVars, ldVars
<1>5. CASE UNCHANGED vars
  BY <1>5 DEF vars, cpuVars, slotVars, ldVars, IInv, PhaseInv
<1>6. QED
  BY <1>1, <1>2, <1>3, <1>4, <1>5 DEF Next, Halted

\* No step lets two threads at one PCB.
LEMMA ExclusiveStep == ASSUME IInv, [Next]_vars PROVE ExclusivePcb'
<1>0. /\ where \in [Procs -> Sched!Place] /\ cpc \in [CPUs -> CpuPC]
      /\ proc \in [CPUs -> Procs \cup {NULL}] /\ NULL \notin Procs
  BY Constants DEF IInv, TypeOK, Sched!TypeOK, Procs
<1> DEFINE KeepsOwners == \A c \in CPUs, p \in Procs : Owns(c, p)' <=> Owns(c, p)
           KeepsPlaces == \A p \in Procs : where[p]' = "cpu" <=> where[p] = "cpu"
<1>1. KeepsOwners /\ KeepsPlaces => ExclusivePcb'
  BY DEF IInv, ExclusivePcb
<1>2. ASSUME NEW c \in CPUs, cpu_finish(c) \/ cpu_preempt(c) PROVE ExclusivePcb'
  <2>1. /\ proc[c] \in Procs /\ Owns(c, proc[c]) /\ where'[proc[c]] # "cpu"
        /\ \A p \in Procs : p # proc[c] => where'[p] = where[p]
    BY <1>0, <1>2 DEF cpu_finish, cpu_preempt, CpuAt, Owns, Sched!free_proc,
                      Sched!put_proc, Sched!Move
  <2>2. /\ \A p \in Procs : ~Owns(c, p)'
        /\ \A b \in CPUs \ {c}, p \in Procs : Owns(b, p)' <=> Owns(b, p)
    BY <1>0, <1>2 DEF cpu_finish, cpu_preempt, CpuGoto, Owns
  <2>3. \A p \in Procs : Owns(c, p) => p = proc[c]
    BY DEF Owns
  <2>4. QED
    BY <2>1, <2>2, <2>3 DEF IInv, ExclusivePcb
<1>3. ASSUME NEW c \in CPUs, cpu_stop(c) \/ cpu_skip(c) \/ cpu_run(c) \/ cpu_hang(c)
      PROVE  ExclusivePcb'
  <2>1. KeepsOwners
    BY <1>0, <1>3 DEF cpu_stop, cpu_skip, cpu_run, cpu_hang, CpuAt, GoesOn, Fetched, CpuGoto, Owns
  <2>2. KeepsPlaces
    BY <1>3 DEF cpu_stop, cpu_skip, cpu_run, cpu_hang, schedVars
  <2>3. QED
    BY <1>1, <2>1, <2>2
<1>4. ASSUME NEW c \in CPUs, NEW r \in Procs \cup {NULL},
             cpu_get_first(c, r) \/ cpu_get_next(c, r)
      PROVE  ExclusivePcb'
  <2>1. /\ Sched!get_proc(r) /\ proc' = [proc EXCEPT ![c] = r]
        /\ \A p \in Procs : ~Owns(c, p)
        /\ \A b \in CPUs \ {c}, p \in Procs : Owns(b, p)' <=> Owns(b, p)
    BY <1>0, <1>4 DEF cpu_get_first, cpu_get_next, CpuAt, CpuGoto, Owns
  <2>2. CASE r = NULL
    <3>1. KeepsOwners
      BY <1>0, <2>1, <2>2 DEF Owns
    <3>2. KeepsPlaces
      BY <2>1, <2>2, GetNone DEF schedVars
    <3>3. QED
      BY <1>1, <3>1, <3>2
  <2>3. CASE r \in Procs
    <3>1. where[r] = "ready" /\ where' = [where EXCEPT ![r] = "cpu"]
      BY <2>1, <2>3, GetSome
    <3>2. \A p \in Procs : Owns(c, p)' <=> p = r
      BY <1>0, <1>4, <2>1, <2>3 DEF cpu_get_first, cpu_get_next, CpuGoto, Owns
    <3>3. \A b \in CPUs : ~Owns(b, r)
      BY <2>3, <3>1 DEF IInv, ExclusivePcb
    <3>4. QED
      BY <1>0, <2>1, <2>3, <3>1, <3>2, <3>3 DEF IInv, ExclusivePcb
  <2>4. QED
    BY <2>2, <2>3
<1>5. CASE ld_add
  <2>1. KeepsOwners
    BY <1>5 DEF ld_add, cpuVars, Owns
  <2>2. KeepsPlaces
    BY <1>0, <1>5 DEF ld_add, Sched!add_proc, Sched!Move
  <2>3. QED
    BY <1>1, <2>1, <2>2
<1>6. CASE UNCHANGED schedVars /\ UNCHANGED cpuVars
  BY <1>1, <1>6 DEF schedVars, cpuVars, Owns
<1>7. QED
  BY <1>2, <1>3, <1>4, <1>5, <1>6
     DEF Next, cpu_routine, ld_routine, ld_load, ld_wait, ld_done, ld_detach, tick,
         release, Halted, vars

\* What is left of a slice follows its process on and off the CPU.
LEMMA SliceStep == ASSUME IInv, [Next]_vars PROVE SliceInv' /\ WholeSlices'
<1>0. /\ where \in [Procs -> Sched!Place] /\ cpc \in [CPUs -> CpuPC]
      /\ proc \in [CPUs -> Procs \cup {NULL}] /\ NULL \notin Procs
      /\ time_left \in [CPUs -> 0 .. TimeSlice] /\ pc \in [Procs -> Nat]
      /\ TimeSlice \in Nat \ {0} /\ Size \in [Procs -> Nat]
      /\ \A p \in Procs : pc[p] <= Size[p]
  BY Constants, OsAssumption DEF IInv, TypeOK, Sched!TypeOK, Procs
<1> DEFINE Slice(c) ==
             /\ proc[c] = NULL \/ cpc[c] \notin {"top", "hung"} => time_left[c] = 0
             /\ proc[c] # NULL /\ cpc[c] = "check" => pc[proc[c]] % TimeSlice = 0
             /\ proc[c] # NULL /\ cpc[c] = "top" =>
                  \/ pc[proc[c]] = Size[proc[c]]
                  \/ (pc[proc[c]] + time_left[c]) % TimeSlice = 0
           Start(p) == where[p] = "new" => pc[p] = 0
           Whole(p) == where[p] = "ready" => pc[p] % TimeSlice = 0
<1>1. SliceInv /\ WholeSlices <=> /\ \A c \in CPUs : Slice(c)
                                  /\ \A p \in Procs : Start(p) /\ Whole(p)
  BY DEF SliceInv, WholeSlices
<1>2. /\ \A c \in CPUs : Slice(c)
      /\ \A p \in Procs : Start(p) /\ Whole(p)
  BY <1>1 DEF IInv
<1>3. ASSUME \A c \in CPUs : Slice(c)', \A p \in Procs : Start(p)' /\ Whole(p)'
      PROVE  SliceInv' /\ WholeSlices'
  BY <1>3 DEF SliceInv, WholeSlices
<1>4. ASSUME NEW c \in CPUs, cpu_finish(c) \/ cpu_preempt(c)
      PROVE  SliceInv' /\ WholeSlices'
  <2>1. /\ proc[c] \in Procs /\ cpc[c] = "top" /\ pc' = pc /\ proc' = proc
        /\ cpc' = [cpc EXCEPT ![c] = "get_next"]
        /\ time_left'[c] = 0 /\ \A b \in CPUs \ {c} : time_left'[b] = time_left[b]
        /\ where'[proc[c]] # "new" /\ \A p \in Procs : p # proc[c] => where'[p] = where[p]
    BY <1>0, <1>4 DEF cpu_finish, cpu_preempt, CpuAt, CpuGoto, Sched!free_proc,
                      Sched!put_proc, Sched!Move
  <2>2. where'[proc[c]] = "ready" => pc[proc[c]] % TimeSlice = 0
    <3>1. CASE cpu_finish(c)
      BY <1>0, <2>1, <3>1 DEF cpu_finish, Sched!free_proc, Sched!Move
    <3>2. CASE cpu_preempt(c)
      <4>1. pc[proc[c]] # Size[proc[c]] /\ time_left[c] = 0 /\ pc[proc[c]] \in Nat
        BY <1>0, <2>1, <3>2 DEF cpu_preempt
      <4>2. (pc[proc[c]] + 0) % TimeSlice = 0
        BY <1>0, <1>2, <2>1, <4>1
      <4>3. pc[proc[c]] + 0 = pc[proc[c]]
        BY <4>1
      <4>4. QED
        BY <4>2, <4>3
    <3>3. QED
      BY <1>4, <3>1, <3>2
  <2>3. ASSUME NEW p \in Procs PROVE Start(p)' /\ Whole(p)'
    BY <1>2, <2>1, <2>2
  <2>4. ASSUME NEW b \in CPUs PROVE Slice(b)'
    BY <1>0, <1>2, <2>1
  <2>5. QED
    BY <1>3, <2>3, <2>4
<1>5. ASSUME NEW c \in CPUs, cpu_stop(c) \/ cpu_skip(c) PROVE SliceInv' /\ WholeSlices'
  <2>1. /\ proc[c] = NULL /\ UNCHANGED <<where, proc, time_left, pc>>
        /\ \A b \in CPUs \ {c} : cpc'[b] = cpc[b]
    BY <1>0, <1>5 DEF cpu_stop, cpu_skip, CpuGoto, schedVars
  <2>2. ASSUME NEW b \in CPUs PROVE Slice(b)'
    BY <1>2, <2>1
  <2>3. QED
    BY <1>2, <1>3, <2>1, <2>2
<1>6. ASSUME NEW c \in CPUs, cpu_run(c) PROVE SliceInv' /\ WholeSlices'
  <2> DEFINE p == proc[c]
  <2>1. /\ p \in Procs /\ cpc[c] \in {"top", "check"} /\ Owns(c, p)
        /\ UNCHANGED <<where, proc>> /\ cpc' = [cpc EXCEPT ![c] = "top"]
        /\ time_left' = [time_left EXCEPT ![c] = IF @ = 0 THEN TimeSlice - 1 ELSE @ - 1]
        /\ run(p)
    BY <1>0, <1>6 DEF cpu_run, GoesOn, Fetched, CpuAt, CpuGoto, schedVars, Owns
  <2>2. /\ where[p] = "cpu" /\ \A b \in CPUs \ {c} : ~Owns(b, p)
    BY <2>1 DEF IInv, ExclusivePcb
  <2>3. \A q \in Procs : q # p => pc'[q] = pc[q]
    BY <1>0, <2>1 DEF run
  <2>4. pc'[p] = Size[p] \/ (pc'[p] + time_left'[c]) % TimeSlice = 0
    <3>1. CASE pc[p] >= Size[p]
      BY <1>0, <2>1, <3>1 DEF run
    <3>2. CASE pc[p] < Size[p]
      <4>1. pc'[p] = pc[p] + 1 /\ pc[p] # Size[p] /\ pc[p] \in Nat /\ time_left[c] \in Nat
        BY <1>0, <2>1, <3>2 DEF run
      <4>2. CASE time_left[c] = 0
        <5>1. pc[p] % TimeSlice = 0
          <6>1. cpc[c] = "check"
            BY <1>6, <4>2, <2>1 DEF cpu_run, GoesOn, Fetched, CpuAt
          <6>2. QED
            BY <1>0, <1>2, <2>1, <6>1
        <5>2. time_left'[c] = TimeSlice - 1
          BY <1>0, <2>1, <4>2
        <5>3. pc'[p] + time_left'[c] = pc[p] + TimeSlice
          BY <1>0, <4>1, <5>2
        <5>4. QED
          BY <4>1, <5>1, <5>3, WholeSliceMore
      <4>3. CASE time_left[c] # 0
        <5>1. cpc[c] = "top"
          BY <1>2, <2>1, <4>3
        <5>2. (pc[p] + time_left[c]) % TimeSlice = 0
          BY <1>0, <1>2, <2>1, <4>1, <5>1
        <5>3. time_left'[c] = time_left[c] - 1
          BY <1>0, <2>1, <4>3
        <5>4. pc'[p] + time_left'[c] = pc[p] + time_left[c]
          BY <4>1, <5>3
        <5>5. QED
          BY <5>2, <5>4
      <4>4. QED
        BY <4>2, <4>3
    <3>3. QED
      BY <1>0, <2>1, <3>1, <3>2
  <2>5. ASSUME NEW q \in Procs PROVE Start(q)' /\ Whole(q)'
    BY <1>2, <2>1, <2>2, <2>3
  <2>6. Slice(c)'
    BY <1>0, <2>1, <2>4
  <2>7. ASSUME NEW b \in CPUs \ {c} PROVE Slice(b)'
    <3>1. proc'[b] = proc[b] /\ cpc'[b] = cpc[b] /\ time_left'[b] = time_left[b]
      BY <1>0, <2>1
    <3>2. proc[b] = NULL \/ cpc[b] \notin {"top", "check"} \/ proc[b] # p
      BY <2>2 DEF Owns
    <3>3. QED
      BY <1>0, <1>2, <2>3, <3>1, <3>2
  <2>8. QED
    BY <1>3, <2>5, <2>6, <2>7
<1>7. ASSUME NEW c \in CPUs, NEW r \in Procs \cup {NULL},
             cpu_get_first(c, r) \/ cpu_get_next(c, r)
      PROVE  SliceInv' /\ WholeSlices'
  <2>1. /\ Sched!get_proc(r) /\ proc' = [proc EXCEPT ![c] = r]
        /\ UNCHANGED <<time_left, pc>> /\ time_left[c] = 0
        /\ \A b \in CPUs \ {c} : cpc'[b] = cpc[b]
        /\ r # NULL => cpc'[c] = "check"
    BY <1>0, <1>2, <1>7 DEF cpu_get_first, cpu_get_next, CpuAt, CpuGoto
  <2>2. CASE r = NULL
    <3>1. UNCHANGED where
      BY <2>1, <2>2, GetNone DEF schedVars
    <3>2. ASSUME NEW b \in CPUs PROVE Slice(b)'
      BY <1>0, <1>2, <2>1, <2>2
    <3>3. QED
      BY <1>2, <1>3, <2>1, <3>1, <3>2
  <2>3. CASE r \in Procs
    <3>1. where[r] = "ready" /\ where' = [where EXCEPT ![r] = "cpu"]
      BY <2>1, <2>3, GetSome
    <3>2. ASSUME NEW q \in Procs PROVE Start(q)' /\ Whole(q)'
      BY <1>0, <1>2, <2>1, <2>3, <3>1
    <3>3. pc[r] % TimeSlice = 0
      BY <1>2, <2>3, <3>1
    <3>4. ASSUME NEW b \in CPUs PROVE Slice(b)'
      BY <1>0, <1>2, <2>1, <2>3, <3>3
    <3>5. QED
      BY <1>3, <3>2, <3>4
  <2>4. QED
    BY <2>2, <2>3
<1>8. CASE ld_add
  <2>1. /\ i \in Procs /\ where[i] = "new" /\ where' = [where EXCEPT ![i] = "ready"]
        /\ UNCHANGED cpuVars
    BY <1>8, Constants, OsAssumption
       DEF ld_add, LdAt, IInv, LoaderInv, TypeOK, Sched!add_proc, Sched!Move
  <2>2. 0 % TimeSlice = 0
    BY <1>0
  <2>3. pc[i] % TimeSlice = 0
    BY <1>2, <2>1, <2>2
  <2>4. ASSUME NEW q \in Procs PROVE Start(q)' /\ Whole(q)'
    BY <1>0, <1>2, <2>1, <2>3 DEF cpuVars
  <2>5. QED
    BY <1>2, <1>3, <2>1, <2>4 DEF cpuVars
<1>9. CASE UNCHANGED schedVars /\ UNCHANGED cpuVars
  BY <1>2, <1>3, <1>9 DEF schedVars, cpuVars
<1>10. ASSUME NEW c \in CPUs, cpu_hang(c) PROVE SliceInv' /\ WholeSlices'
  <2> DEFINE p == proc[c]
  <2>1. /\ p \in Procs /\ Owns(c, p) /\ UNCHANGED <<where, proc>> /\ run(p)
        /\ cpc' = [cpc EXCEPT ![c] = "hung"]
        /\ \A b \in CPUs \ {c} : time_left'[b] = time_left[b]
    BY <1>0, <1>10 DEF cpu_hang, GoesOn, Fetched, CpuAt, CpuGoto, schedVars, Owns
  <2>2. /\ where[p] = "cpu" /\ \A b \in CPUs \ {c} : ~Owns(b, p)
    BY <2>1 DEF IInv, ExclusivePcb
  <2>3. \A q \in Procs : q # p => pc'[q] = pc[q]
    BY <1>0, <2>1 DEF run
  <2>4. ASSUME NEW q \in Procs PROVE Start(q)' /\ Whole(q)'
    BY <1>2, <2>1, <2>2, <2>3
  <2>5. Slice(c)'
    BY <1>0, <2>1
  <2>6. ASSUME NEW b \in CPUs \ {c} PROVE Slice(b)'
    <3>1. proc'[b] = proc[b] /\ cpc'[b] = cpc[b] /\ time_left'[b] = time_left[b]
      BY <1>0, <2>1
    <3>2. proc[b] = NULL \/ cpc[b] \notin {"top", "check"} \/ proc[b] # p
      BY <2>2 DEF Owns
    <3>3. QED
      BY <1>0, <1>2, <2>3, <3>1, <3>2
  <2>7. QED
    BY <1>3, <2>4, <2>5, <2>6
<1>11. QED
  BY <1>4, <1>5, <1>6, <1>7, <1>8, <1>9, <1>10
     DEF Next, cpu_routine, ld_routine, ld_load, ld_wait, ld_done, ld_detach, tick,
         release, Halted, vars

\* A CPU that finds no process after the last slot with an add leaves behind
\* at least one CPU that still has one.
LEMMA ActiveStep == ASSUME IInv, [Next]_vars PROVE ActiveInv'
<1>0. /\ phase \in [Threads -> Slot!Phase] /\ cpc \in [CPUs -> CpuPC]
      /\ proc \in [CPUs -> Procs \cup {NULL}] /\ NULL \notin Procs
      /\ CPUs \subseteq Threads /\ Loader \in Threads \ CPUs /\ NumProcs \in Nat
      /\ where \in [Procs -> Sched!Place] /\ i \in Nat
  BY Constants, OsAssumption DEF IInv, TypeOK, Slot!TypeOK, Sched!TypeOK, Procs
<1> DEFINE Unfinished == \E p \in Reachable : where[p] # "gone"
<1> SUFFICES ASSUME Settled', CPUs # {}, Unfinished' PROVE \E c \in CPUs : Active(c)'
  BY DEF ActiveInv
<1>1. ASSUME Settled, Unfinished, \A c \in CPUs : Active(c) => Active(c)'
      PROVE  \E c \in CPUs : Active(c)'
  BY <1>1 DEF IInv, ActiveInv
<1>2. ASSUME NEW c \in CPUs, cpu_routine(c) PROVE \E b \in CPUs : Active(b)'
  <2>1. Settled
    BY <1>0, <1>2 DEF Settled, cpu_routine, cpu_finish, cpu_preempt, cpu_stop, cpu_skip,
       cpu_run, cpu_hang, cpu_get_first, cpu_get_next, Slot!Arrive, Slot!Leave, slotVars, ldVars
  <2>2. CASE cpu_finish(c) \/ cpu_preempt(c) \/ cpu_skip(c) \/ cpu_run(c) \/ cpu_hang(c)
    BY <1>0, <2>2 DEF cpu_finish, cpu_preempt, cpu_skip, cpu_run, cpu_hang, CpuGoto, Active
  <2>3. CASE cpu_stop(c)
    <3>1. \A b \in CPUs : Active(b) => Active(b)'
      BY <1>0, <2>3 DEF cpu_stop, CpuAt, CpuGoto, Active
    <3>2. Unfinished
      BY <2>3 DEF cpu_stop, schedVars
    <3>3. QED
      BY <1>1, <2>1, <3>1, <3>2
  <2>4. ASSUME NEW r \in Procs \cup {NULL}, cpu_get_first(c, r)
        PROVE  \E b \in CPUs : Active(b)'
    BY <1>0, <2>4 DEF cpu_get_first, CpuAt, CpuGoto, Active
  <2>5. ASSUME NEW r \in Procs, cpu_get_next(c, r) PROVE \E b \in CPUs : Active(b)'
    BY <1>0, <2>5 DEF cpu_get_next, CpuGoto, Active
  <2>6. CASE cpu_get_next(c, NULL)
    <3>1. Sched!Waiting = {} /\ UNCHANGED where
      BY <2>6, GetNone DEF cpu_get_next, schedVars
    <3>2. PICK p \in Reachable : where[p] # "gone"
      BY <3>1
    <3>9. p \in Procs
      BY Constants
    <3>3. where[p] # "ready"
      BY <3>1, EmptyQueues DEF IInv
    <3>4. where[p] # "new"
      BY <1>0, <2>1, <3>9, Constants DEF IInv, LoaderInv, Settled
    <3>5. PICK b \in CPUs : Owns(b, p)
      BY <1>0, <3>2, <3>3, <3>4, <3>9 DEF IInv, ExclusivePcb, Sched!Place
    <3>6. b # c
      BY <2>6, <3>5 DEF cpu_get_next, CpuAt, Owns
    <3>7. Active(b)'
      BY <1>0, <2>6, <3>5, <3>6 DEF cpu_get_next, CpuGoto, Owns, Active
    <3>8. QED
      BY <3>7
  <2>7. QED
    BY <1>2, <2>2, <2>3, <2>4, <2>5, <2>6 DEF cpu_routine
<1>3. CASE ld_add \/ ld_wait
  BY <1>0, <1>3 DEF ld_add, ld_wait, Slot!Arrive, Settled
<1>4. CASE ld_load \/ ld_done \/ ld_detach
  <2>1. UNCHANGED <<schedVars, cpuVars, i>> /\ Settled
    BY <1>4 DEF ld_load, ld_done, ld_detach, Slot!Leave, Settled, slotVars
  <2>2. QED
    BY <1>1, <2>1 DEF schedVars, cpuVars, Active
<1>5. CASE tick
  <2>1. UNCHANGED <<schedVars, cpuVars, i, done>>
    BY <1>5 DEF tick, ldVars
  <2>2. CASE Settled
    BY <1>1, <2>1, <2>2 DEF schedVars, cpuVars, Active
  <2>3. CASE ~Settled
    <3>1. ~done
      BY <2>3 DEF IInv, LoaderInv, Settled
    <3>2. PICK c \in CPUs : TRUE
      OBVIOUS
    <3>3. phase[c] = "wait"
      BY <1>0, <1>5, <3>1 DEF tick, Slot!Tick, IInv, PhaseInv
    <3>4. cpc[c] = "top"
      BY <3>3 DEF IInv, PhaseInv
    <3>5. QED
      BY <2>1, <3>4 DEF cpuVars, Active
  <2>4. QED
    BY <2>2, <2>3
<1>6. ASSUME NEW t \in Threads, release(t) PROVE \E c \in CPUs : Active(c)'
  <2>1. UNCHANGED <<schedVars, cpuVars, i>>
    BY <1>6 DEF release, ldVars
  <2>2. Settled
    BY <1>0, <1>6 DEF release, Slot!Release, ldVars, Settled
  <2>3. QED
    BY <1>1, <2>1, <2>2 DEF schedVars, cpuVars, Active
<1>7. CASE UNCHANGED vars
  BY <1>1, <1>7 DEF vars, schedVars, cpuVars, slotVars, ldVars, Active, Settled
<1>8. QED
  BY <1>2, <1>3, <1>4, <1>5, <1>6, <1>7 DEF Next, ld_routine, Halted

\* If no level is scanned, get_proc returns NULL and the CPU stays where it is.
LEMMA IdleStep == ASSUME IInv, [Next]_vars PROVE IdleInv'
<1> SUFFICES ASSUME ScanLevels = {} PROVE \A c \in CPUs : proc'[c] = NULL /\ cpc'[c] = "top"
  BY DEF IdleInv
<1>1. \A c \in CPUs : proc[c] = NULL /\ cpc[c] = "top"
  BY DEF IInv, IdleInv
<1>2. /\ proc \in [CPUs -> Procs \cup {NULL}] /\ NULL \notin Procs
  BY Constants DEF IInv, TypeOK
<1>3. ASSUME NEW c \in CPUs, cpu_routine(c) PROVE \A b \in CPUs : proc'[b] = NULL /\ cpc'[b] = "top"
  <2>1. PICK r \in Procs \cup {NULL} : cpu_get_first(c, r)
    BY <1>1, <1>3 DEF cpu_routine, cpu_finish, cpu_preempt, cpu_stop, cpu_skip, cpu_run,
       cpu_hang, cpu_get_next, GoesOn, Fetched, CpuAt
  <2>2. r = NULL
    <3>1. Sched!Waiting = {}
      BY DEF Sched!Waiting
    <3>2. r \notin Procs
      BY <2>1, <3>1, GetSome DEF cpu_get_first, Sched!get_some
    <3>3. QED
      BY <3>2
  <2>3. QED
    BY <1>1, <1>2, <2>1, <2>2 DEF cpu_get_first
<1>4. CASE UNCHANGED cpuVars
  BY <1>1, <1>4 DEF cpuVars
<1>5. QED
  BY <1>3, <1>4 DEF Next, ld_routine, ld_load, ld_wait, ld_add, ld_done, ld_detach, tick,
     release, Halted, vars

\* What main sets up satisfies the invariant.
LEMMA InitIInv == Init => IInv
<1> SUFFICES ASSUME Init PROVE IInv
  OBVIOUS
<1>1. SchedP!IInv /\ Sched!TypeOK
  <2>1. SchedP!IInv
    BY SameSched, SchedP!InitIInv, SchedAssumption DEF Init
  <2>2. QED
    BY <2>1, SameSched DEF SchedP!IInv
<1>2. Slot!TypeOK
  BY OsAssumption DEF Init, Slot!Init, Slot!TypeOK, Slot!Phase
<1>3. where = [p \in Procs |-> "new"] /\ phase = [t \in Threads |-> "work"]
  BY DEF Init, Sched!Init, Procs, Slot!Init
<1>4. TypeOK
  <2>1. done \in BOOLEAN /\ exited \in BOOLEAN
    BY DEF Init
  <2>2. \A p \in Procs : Size[p] \in Nat
    BY OsAssumption
  <2>3. /\ cpc \in [CPUs -> CpuPC] /\ proc \in [CPUs -> Procs \cup {NULL}]
        /\ time_left \in [CPUs -> 0 .. TimeSlice]
        /\ pc \in [Procs -> Nat] /\ \A p \in Procs : pc[p] <= Size[p]
        /\ lpc \in LdPC /\ i \in 1 .. NumProcs + 1
    BY <2>2, OsAssumption, Constants DEF Init, CpuPC, LdPC
  <2>4. QED
    BY <1>1, <1>2, <2>1, <2>3 DEF TypeOK
<1>5. LoaderInv /\ PhaseInv
  BY <1>3, Constants, OsAssumption DEF Init, LoaderInv, PhaseInv
<1>6. ExclusivePcb /\ WholeSlices
  BY <1>3 DEF Init, ExclusivePcb, WholeSlices, Owns
<1>7. SliceInv
  BY <1>3 DEF Init, SliceInv
<1>8. ActiveInv /\ IdleInv
  BY DEF Init, ActiveInv, Active, IdleInv
<1>9. QED
  BY <1>1, <1>4, <1>5, <1>6, <1>7, <1>8 DEF IInv

\* Every step of a CPU, the loader or the timer preserves the invariant.
LEMMA NextIInv == IInv /\ [Next]_vars => IInv'
<1> SUFFICES ASSUME IInv, [Next]_vars PROVE IInv'
  OBVIOUS
<1>1. SchedP!IInv'
  BY SchedInvStep DEF IInv
<1>2. QED
  BY <1>1, TypeStep, LoaderStep, PhaseStep, ExclusiveStep, SliceStep, ActiveStep,
     IdleStep DEF IInv

\* The inductive invariant holds in every reachable state of the simulator.
THEOREM Invariance == Spec => []IInv
  BY InitIInv, NextIInv, PTL DEF Spec

-----------------------------------------------------------------------------
\* Every variable of the CPUs, the loader, the scheduler and the barrier keeps
\* its type; in particular no program counter passes the end of its code.
THEOREM TypeCorrect == Spec => []TypeOK
<1>1. IInv => TypeOK
  BY DEF IInv
<1>2. QED
  BY <1>1, Invariance, PTL

\* However the CPU threads and the loader interleave, no two of them ever hold
\* the same PCB, and none holds one that is queued or freed.
THEOREM OneCpuPerPcb == Spec => []ExclusivePcb
<1>1. IInv => ExclusivePcb
  BY DEF IInv
<1>2. QED
  BY <1>1, Invariance, PTL

\* cpu_routine takes a process off its CPU only at the end of a whole slice.
THEOREM SlicesAreWhole == Spec => []WholeSlices
<1>1. IInv => WholeSlices
  BY DEF IInv
<1>2. QED
  BY <1>1, Invariance, PTL

\* Whatever levels get_mlq_proc scans, the last CPU to stop leaves no process
\* behind that it could have been given: the unlocked read of done cannot strand
\* the last one added.  With the empty scan of sched.c the CPUs never all stop.
THEOREM NoProcessStranded == Spec => []NoneStranded
<1>1. IInv => NoneStranded
  <2> SUFFICES ASSUME IInv, \A c \in CPUs : cpc[c] = "stopped", CPUs # {}
               PROVE  ScanLevels # {} /\ \A p \in Reachable : where[p] = "gone"
    BY DEF NoneStranded
  <2>1. done
    BY DEF IInv, PhaseInv
  <2>2. Settled
    BY <2>1 DEF IInv, LoaderInv, Settled
  <2>3. \A c \in CPUs : ~Active(c)
    BY DEF Active
  <2>4. ScanLevels # {}
    BY DEF IInv, IdleInv
  <2>5. QED
    BY <2>2, <2>3, <2>4 DEF IInv, ActiveInv
<1>2. QED
  BY <1>1, Invariance, PTL

\* The CPUs and the loader use the scheduler as MlqSched describes its use.
THEOREM UsesScheduler == Spec => Sched!Spec
<1>1. Init => Sched!Init
  BY DEF Init
<1>2. IInv /\ [Next]_vars => [Sched!Next]_(Sched!vars)
  BY SchedStep DEF IInv
<1>3. QED
  BY <1>1, <1>2, Invariance, PTL DEF Spec, Sched!Spec

\* They use the timer as SlotBarrier describes its use: a thread runs only
\* inside its slot.
THEOREM UsesBarrier == Spec => Slot!Spec
<1>1. Init => Slot!Init
  BY DEF Init
<1>2. QED
  BY <1>1, SlotStep, PTL DEF Spec, Slot!Spec

\* So the composed simulator keeps what the scheduler promises: no PCB is lost
\* or duplicated, however the threads interleave.
THEOREM SchedulerKept == Spec => []InOnePlace
<1>1. IInv => InOnePlace
  BY DEF InOnePlace, IInv, SchedP!IInv, Sched!InOnePlace, Sched!QueuedReady, SchedP!QueuedReady,
         Sched!QueuedOnce, SchedP!QueuedOnce, Sched!ReadyQueued, SchedP!ReadyQueued,
         Sched!Levels, SchedP!Levels, Sched!Procs, SchedP!Procs
<1>2. QED
  BY <1>1, Invariance, PTL

\* It charges no level more than its budget, whoever asks and whenever.
THEOREM BudgetsKept == Spec => []BudgetKept
<1>1. IInv => BudgetKept
  BY DEF BudgetKept, IInv, SchedP!IInv, SchedP!BudgetKept, Sched!BudgetKept,
         SchedP!Levels, Sched!Levels
<1>2. QED
  BY <1>1, Invariance, PTL

\* And its queues are not overrun, if the configuration has at most
\* MAX_QUEUE_SIZE processes of each priority.
THEOREM QueuesNotOverrun == ASSUME Sched!LevelsFit PROVE Spec => []NoOverrun
<1>1. SchedP!LevelsFit
  BY DEF Sched!LevelsFit, SchedP!LevelsFit, Sched!Levels, SchedP!Levels,
         Sched!Procs, SchedP!Procs, Sched!Cardinality, SchedP!Cardinality
<1>2. SchedP!Spec => []SchedP!NoOverrun
  BY <1>1, SchedP!QueuesFit, SchedAssumption
<1>3. SchedP!NoOverrun <=> NoOverrun
  BY DEF SchedP!NoOverrun, Sched!NoOverrun, NoOverrun
<1>4. QED
  BY <1>2, <1>3, SameSched, UsesScheduler, PTL DEF Sched!Spec, SchedP!Spec
=============================================================================
