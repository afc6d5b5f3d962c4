------------------------------ MODULE MCPaging -------------------------------
(* Model checking of Paging.tla.  An entry starts as zeroes, or as a word that *)
(* says "present" and has a bit where PAGING_FPN looks.  No action depends on  *)
(* last, so the run without a property of it may leave it out of the state.    *)
EXTENDS Paging, TLC

MCGarbage == {{}, {9, 31}}
MCSymmetry == Permutations(Procs) \cup Permutations(Nodes) \cup Permutations(Values)
MCView == <<pgd, vm_end, fifoVars, free_fp, storage, stop, kind, dangling, swapFull>>
=============================================================================
