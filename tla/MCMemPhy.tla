------------------------------ MODULE MCMemPhy -------------------------------
(* Model checking of MemPhy.tla: the constants are given in the .cfg files.  *)
EXTENDS MemPhy
=============================================================================
