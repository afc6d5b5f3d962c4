------------------------------- MODULE Config --------------------------------
(***************************************************************************)
(* What the scheduler is built and run with: the sizes of include/sched.h  *)
(* and queue.h, the processes that read_config of src/os.c reads, and the  *)
(* levels that the loops of get_mlq_proc visit.                            *)
(***************************************************************************)
EXTENDS Integers

CONSTANTS MAX_PRIO,        \* number of priority levels
          MAX_QUEUE_SIZE,  \* cells in the array of a queue_t
          NumProcs,        \* number of processes
          Prio,            \* Prio[p]: the priority of process p
          ScanLevels       \* the levels a scan of get_mlq_proc visits

\* A priority is a level.  This is an assumption on the configuration file:
\* read_config takes any number, and a larger one than MAX_PRIO - 1 would index
\* past the array of ready queues.
ASSUME MlqAssumption ==
  /\ MAX_PRIO \in Nat \ {0} /\ MAX_QUEUE_SIZE \in Nat \ {0} /\ NumProcs \in Nat
  /\ Prio \in [1 .. NumProcs -> 0 .. MAX_PRIO - 1]
  /\ ScanLevels \subseteq 0 .. MAX_PRIO - 1
=============================================================================
