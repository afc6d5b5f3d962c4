------------------------------- MODULE MCTimer -------------------------------
(* Model checking of Timer.tla: the constants are given in the .cfg files.  *)
EXTENDS Timer
=============================================================================
