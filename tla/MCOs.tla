-------------------------------- MODULE MCOs ---------------------------------
(* Model checking of Os.tla: the configurations the .cfg files choose from.  *)
EXTENDS Os

\* Five processes on two levels: sizes below, at and above one time slice of
\* two instructions, so many at once that they wait for a CPU, and the last so
\* late that every CPU can be idle before it.
MCPrio == <<1, 0, 1, 1, 0>>
MCStart == <<0, 0, 0, 2, 9>>
MCSize == <<5, 1, 2, 3, 2>>

\* Processes of one priority and one instruction, all present from the start.
OnePrio == [p \in 1 .. NumProcs |-> 0]
AllAtOnce == [p \in 1 .. NumProcs |-> 0]
Short == [p \in 1 .. NumProcs |-> 1]

\* As CodeScan and FullScan in MlqSched.
CodeScan == MAX_PRIO .. 0 - 1
FullScan == 0 .. MAX_PRIO - 1
=============================================================================
