--------------------------------- MODULE Os ----------------------------------
(***************************************************************************)
(* src/os.c: the CPU threads and the loader thread, composed with the      *)
(* scheduler (MlqSched) and with the slot barrier the timer implements     *)
(* (SlotBarrier).  Threads interleave at every access to what they share:  *)
(* the ready queues, the clock, the flag done.  What a thread does between *)
(* two such accesses, on its own variables and on a PCB it owns, belongs   *)
(* to the action that precedes it.                                         *)
(***************************************************************************)
EXTENDS Config, Sequences

CONSTANTS NumCpus, TimeSlice,  \* num_cpus and time_slot of the configuration
          StartTime,           \* StartTime[p]: the slot process p is due in
          Size,                \* Size[p]: instructions of process p
          MaxTime              \* bound: the clock saturates here

CPUs == 1 .. NumCpus
Loader == NumCpus + 1
Threads == 1 .. NumCpus + 1

VARIABLES mlq_ready_queue, time_slot, overrun, where,  \* see MlqSched
          time, phase,    \* see SlotBarrier
          cpc,            \* cpc[c]: position of CPU c in cpu_routine
          proc,           \* proc[c]: its process, or NULL
          time_left,      \* time_left[c]: what is left of its time slice
          pc,             \* pc[p]: program counter of process p
          lpc,            \* position of the loader in ld_routine
          i,              \* the process the loader is at
          done,           \* the loader has loaded every process
          exited          \* a thread has called exit(1), or an instruction has
                          \* left nothing defined to go on with

Sched == INSTANCE MlqSched
Slot == INSTANCE SlotBarrier WITH Devices <- Threads

Procs == Sched!Procs
NULL == Sched!NULL

\* A configuration with a positive time slice, which read_config does not check.
ASSUME OsAssumption ==
  /\ NumCpus \in Nat /\ TimeSlice \in Nat \ {0} /\ MaxTime \in Nat
  /\ StartTime \in [Procs -> 0 .. MaxTime]
  /\ Size \in [Procs -> Nat]

cpuVars == <<cpc, proc, time_left, pc>>
ldVars == <<lpc, i, done, exited>>
schedVars == <<mlq_ready_queue, time_slot, overrun, where>>
slotVars == <<time, phase>>
vars == <<schedVars, slotVars, cpuVars, ldVars>>

CpuPC == {"top", "get_next", "check", "hung", "stopped"}
LdPC == {"load", "time", "detach", "exit"}

TypeOK ==
  /\ Sched!TypeOK /\ Slot!TypeOK
  /\ cpc \in [CPUs -> CpuPC] /\ proc \in [CPUs -> Procs \cup {NULL}]
  /\ time_left \in [CPUs -> 0 .. TimeSlice]
  /\ pc \in [Procs -> Nat] /\ \A p \in Procs : pc[p] <= Size[p]
  /\ lpc \in LdPC /\ i \in 1 .. NumProcs + 1
  /\ done \in BOOLEAN /\ exited \in BOOLEAN

Init ==
  /\ Sched!Init /\ Slot!Init
  /\ cpc = [c \in CPUs |-> "top"] /\ proc = [c \in CPUs |-> NULL]
  /\ time_left = [c \in CPUs |-> 0] /\ pc = [p \in Procs |-> 0]
  /\ lpc = "load" /\ i = 1 /\ done = FALSE /\ exited = FALSE

-----------------------------------------------------------------------------
(* cpu_routine                                                              *)

\* A thread runs while it is inside its slot; nothing runs after exit(1), and
\* nothing is said of what runs after an overrun.
Running(t) == phase[t] = "work" /\ ~exited /\ ~overrun
CpuAt(c, l) == Running(c) /\ cpc[c] = l
CpuGoto(c, l) == cpc' = [cpc EXCEPT ![c] = l]

\* No process: ask for one, and if there is none go straight to the next slot,
\* past the test of done.
cpu_get_first(c, r) ==
  /\ CpuAt(c, "top") /\ proc[c] = NULL
  /\ Sched!get_proc(r)
  /\ proc' = [proc EXCEPT ![c] = r]
  /\ IF r = NULL THEN Slot!Arrive(c) /\ UNCHANGED cpc
                 ELSE CpuGoto(c, "check") /\ UNCHANGED slotVars
  /\ UNCHANGED <<time_left, pc, ldVars>>

\* Bug variant: time_left keeps what the finished process left of its slice.
cpu_finish_NoReset(c) ==
  /\ CpuAt(c, "top") /\ proc[c] # NULL /\ pc[proc[c]] = Size[proc[c]]
  /\ Sched!free_proc(proc[c])
  /\ CpuGoto(c, "get_next")
  /\ UNCHANGED <<slotVars, proc, time_left, pc, ldVars>>

\* The process has run its last instruction: free its PCB.
cpu_finish(c) ==
  /\ CpuAt(c, "top") /\ proc[c] # NULL /\ pc[proc[c]] = Size[proc[c]]
  /\ Sched!free_proc(proc[c])
  /\ time_left' = [time_left EXCEPT ![c] = 0]
  /\ CpuGoto(c, "get_next")
  /\ UNCHANGED <<slotVars, proc, pc, ldVars>>

\* Bug variant: the CPU goes on with the process it has given back.
cpu_preempt_Keep(c) ==
  /\ CpuAt(c, "top") /\ proc[c] # NULL /\ pc[proc[c]] # Size[proc[c]]
  /\ time_left[c] = 0
  /\ Sched!put_proc(proc[c])
  /\ CpuGoto(c, "check")
  /\ UNCHANGED <<slotVars, proc, time_left, pc, ldVars>>

\* The time slice is used up: give the process back.  The variable proc keeps
\* the pointer until get_proc returns.
cpu_preempt(c) ==
  /\ CpuAt(c, "top") /\ proc[c] # NULL /\ pc[proc[c]] # Size[proc[c]]
  /\ time_left[c] = 0
  /\ Sched!put_proc(proc[c])
  /\ CpuGoto(c, "get_next")
  /\ UNCHANGED <<slotVars, proc, time_left, pc, ldVars>>

cpu_get_next(c, r) ==
  /\ CpuAt(c, "get_next")
  /\ Sched!get_proc(r)
  /\ proc' = [proc EXCEPT ![c] = r]
  /\ CpuGoto(c, "check")
  /\ UNCHANGED <<slotVars, time_left, pc, ldVars>>

\* Bug variant: the test of done is missing.
cpu_stop_NoTest(c) ==
  /\ CpuAt(c, "check") /\ proc[c] = NULL
  /\ Slot!Leave(c) /\ CpuGoto(c, "stopped")
  /\ UNCHANGED <<schedVars, proc, time_left, pc, ldVars>>

\* No process after get_proc: stop if the loader is done (read without a
\* lock), otherwise skip the slot.
cpu_stop(c) ==
  /\ CpuAt(c, "check") /\ proc[c] = NULL /\ done
  /\ Slot!Leave(c) /\ CpuGoto(c, "stopped")
  /\ UNCHANGED <<schedVars, proc, time_left, pc, ldVars>>

cpu_skip(c) ==
  /\ CpuAt(c, "check") /\ proc[c] = NULL /\ ~done
  /\ Slot!Arrive(c) /\ CpuGoto(c, "top")
  /\ UNCHANGED <<schedVars, proc, time_left, pc, ldVars>>

\* Bug variant: the program counter does not move.
run_NoStep(p) == UNCHANGED pc

\* cpu.c: fetch an instruction and step over it, before it is executed and
\* whatever its execution returns; past the end of the code nothing happens.
run(p) == pc' = IF pc[p] >= Size[p] THEN pc ELSE [pc EXCEPT ![p] = @ + 1]

\* The process goes on within its time slice, or get_proc has returned one.
GoesOn(c) == /\ CpuAt(c, "top") /\ proc[c] # NULL
             /\ pc[proc[c]] # Size[proc[c]] /\ time_left[c] # 0
Fetched(c) == CpuAt(c, "check") /\ proc[c] # NULL

\* Bug variant: a dispatched process gets no slice of its own.
cpu_run_NoSlice(c) ==
  /\ GoesOn(c) \/ Fetched(c)
  /\ run(proc[c])
  /\ time_left' = [time_left EXCEPT ![c] = @ - 1]
  /\ Slot!Arrive(c) /\ CpuGoto(c, "top")
  /\ UNCHANGED <<schedVars, proc, ldVars>>

\* Dispatch with a full slice if nothing is left of one, run one instruction,
\* and end the slot.
cpu_run(c) ==
  /\ GoesOn(c) \/ Fetched(c)
  /\ run(proc[c])
  /\ time_left' = [time_left EXCEPT ![c] = IF @ = 0 THEN TimeSlice - 1 ELSE @ - 1]
  /\ Slot!Arrive(c) /\ CpuGoto(c, "top")
  /\ UNCHANGED <<schedVars, proc, ldVars>>

\* What ALLOC, FREE, READ and WRITE do is in Regions and Paging, and not all of
\* it comes back to cpu_routine.  An ALLOC of 0 bytes and a search for a victim
\* in a cyclic page list never return, and the CPU never ends its slot; a region
\* id past the table or a dangling list node is undefined behaviour, and nothing
\* is said of the program after that (exited).
cpu_hang(c) ==
  /\ GoesOn(c) \/ Fetched(c)
  /\ pc[proc[c]] < Size[proc[c]] /\ run(proc[c])
  /\ time_left' = [time_left EXCEPT ![c] = IF @ = 0 THEN TimeSlice ELSE @]
  /\ CpuGoto(c, "hung") /\ exited' \in BOOLEAN
  /\ UNCHANGED <<schedVars, slotVars, proc, lpc, i, done>>

cpu_routine(c) ==
  \/ cpu_finish(c) \/ cpu_preempt(c)
  \/ cpu_stop(c) \/ cpu_skip(c) \/ cpu_run(c) \/ cpu_hang(c)
  \/ \E r \in Procs \cup {NULL} : cpu_get_first(c, r) \/ cpu_get_next(c, r)

-----------------------------------------------------------------------------
(* ld_routine                                                               *)

LdAt(l) == Running(Loader) /\ lpc = l

\* load(): read the description of process i.  A file that cannot be opened,
\* or an unknown opcode in it, ends the whole program with exit(1).
ld_load ==
  /\ LdAt("load") /\ i <= NumProcs
  /\ \/ lpc' = "time" /\ UNCHANGED exited
     \/ exited' = TRUE /\ UNCHANGED lpc
  /\ UNCHANGED <<schedVars, slotVars, cpuVars, i, done>>

\* while (current_time() < start_time[i]) next_slot
ld_wait ==
  /\ LdAt("time") /\ time < StartTime[i]
  /\ Slot!Arrive(Loader)
  /\ UNCHANGED <<schedVars, cpuVars, ldVars>>

\* add_proc, i++, next_slot
ld_add ==
  /\ LdAt("time") /\ time >= StartTime[i]
  /\ Sched!add_proc(i)
  /\ i' = i + 1 /\ lpc' = "load"
  /\ Slot!Arrive(Loader)
  /\ UNCHANGED <<cpuVars, done, exited>>

ld_done ==
  /\ LdAt("load") /\ i > NumProcs
  /\ done' = TRUE /\ lpc' = "detach"
  /\ UNCHANGED <<schedVars, slotVars, cpuVars, i, exited>>

ld_detach ==
  /\ LdAt("detach")
  /\ Slot!Leave(Loader) /\ lpc' = "exit"
  /\ UNCHANGED <<schedVars, cpuVars, i, done, exited>>

ld_routine == ld_load \/ ld_wait \/ ld_add \/ ld_done \/ ld_detach

-----------------------------------------------------------------------------
\* The timer, as the barrier it implements.
tick == ~exited /\ ~overrun /\ Slot!Tick /\ UNCHANGED <<schedVars, cpuVars, ldVars>>
release(t) == /\ ~exited /\ ~overrun /\ Slot!Release(t)
              /\ UNCHANGED <<schedVars, cpuVars, ldVars>>

\* Nothing more can be expected: exit(1) has ended the program, its state is
\* undefined, or a CPU is in an instruction that does not return.
Broken == exited \/ overrun \/ \E c \in CPUs : cpc[c] = "hung"

\* The program has ended, or the hung CPU goes round its loop once more.
Halted == Broken /\ UNCHANGED vars

Next == \/ ld_routine \/ tick \/ Halted
        \/ \E c \in CPUs : cpu_routine(c)
        \/ \E t \in Threads : release(t)

\* Every thread that can run is eventually run.
Fairness == /\ WF_vars(ld_routine) /\ WF_vars(tick)
            /\ \A c \in CPUs : WF_vars(cpu_routine(c))
            /\ \A t \in Threads : WF_vars(release(t))

Spec == Init /\ [][Next]_vars
FairSpec == Spec /\ Fairness

-----------------------------------------------------------------------------
(* Properties                                                               *)

\* CPU c may use its pointer: it is not about to be overwritten.
Owns(c, p) == proc[c] = p /\ p # NULL /\ cpc[c] \in {"top", "check", "hung"}

\* A PCB that a CPU may touch is that CPU's alone: not in a ready queue, not
\* another CPU's, not freed; and a process that is with the CPUs is with one.
ExclusivePcb ==
  /\ \A c \in CPUs, p \in Procs : Owns(c, p) =>
       /\ where[p] = "cpu"
       /\ \A b \in CPUs : Owns(b, p) => b = c
  /\ \A p \in Procs : where[p] = "cpu" => \E c \in CPUs : Owns(c, p)

\* A process loses the CPU only at the end of a whole time slice: whatever the
\* process before it left of its own, a process that waits in a ready queue has
\* run a multiple of TimeSlice instructions.
WholeSlices == \A p \in Procs : where[p] = "ready" => pc[p] % TimeSlice = 0

\* However the threads interleave, the scheduler neither loses nor duplicates a
\* PCB, charges no level more than its budget, and writes past no array.
InOnePlace == Sched!InOnePlace
BudgetKept == Sched!BudgetKept
NoOverrun == Sched!NoOverrun

\* The processes whose level get_mlq_proc looks at.
Reachable == {p \in Procs : Prio[p] \in ScanLevels}

\* The CPUs do not all stop while a process that can be dispatched is
\* unfinished: the last one finds the queues it scans empty and the loader
\* done.  With a scan that visits no level they never all stop.
NoneStranded == (\A c \in CPUs : cpc[c] = "stopped") =>
                  \/ CPUs = {}
                  \/ ScanLevels # {} /\ \A p \in Reachable : where[p] = "gone"

\* Unless an instruction or load() puts an end to everything, the loader gets
\* through the barrier to its end and every process that can be dispatched is
\* run to its end and freed.
WorkEnds ==
  <>(Broken \/ (lpc = "exit" /\ \A p \in Reachable : where[p] = "gone"))

\* A process in a ready queue is eventually given to a CPU.
EventuallyDispatched ==
  \A p \in Procs : where[p] = "ready" ~> where[p] = "cpu" \/ Broken

\* Every CPU stops, so that main's joins return and the program ends.
CpusStop == <>(Broken \/ \A c \in CPUs : cpc[c] = "stopped")
=============================================================================
