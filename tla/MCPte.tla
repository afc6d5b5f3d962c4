-------------------------------- MODULE MCPte --------------------------------
(* Model checking of Pte.tla.  The arguments have bits at and next to the    *)
(* ends of the fields, and past them.                                        *)
EXTENDS Pte

MCFpns == {{}, {0}, {8}, {0, 12}, {1, 13, 27}}
MCTypes == {{}, {4}, {0, 5}}
MCOffs == {{}, {0, 3}, {20}, {7, 21, 30}}
MCGarbage == {{}, Bits, {5, 13, 27, 28, 30}}
=============================================================================
