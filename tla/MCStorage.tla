------------------------------ MODULE MCStorage ------------------------------
(* Model checking of Storage.tla: the CPUs do the same things.  *)
EXTENDS Storage, TLC

MCSymmetry == Permutations(CPUs)

\* As main initializes every device.
MCRdm == [d \in Devices |-> TRUE]
=============================================================================
