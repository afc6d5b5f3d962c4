------------------------------ MODULE MCRegions ------------------------------
(* Model checking of Regions.tla: the constants are given in the .cfg file.  *)
EXTENDS Regions
=============================================================================
