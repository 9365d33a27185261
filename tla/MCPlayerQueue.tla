--------------------------- MODULE MCPlayerQueue ---------------------------
(***************************************************************************)
(* A small instance of PlayerQueue; its sets and bounds are in the .cfg.   *)
(***************************************************************************)
EXTENDS PlayerQueue

CONSTANTS t1, t2, t3

Symmetry == Permutations({t1, t2, t3})
=============================================================================
