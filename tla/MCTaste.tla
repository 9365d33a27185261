------------------------------- MODULE MCTaste --------------------------------
(* An instance of Taste: one listener who likes and dislikes one track.        *)
EXTENDS Taste

CONSTANTS t1, u1, e1, e2

MCUserOf == (e1 :> u1) @@ (e2 :> u1)
MCTrackOf == (e1 :> t1) @@ (e2 :> t1)
MCKindOf == (e1 :> "like") @@ (e2 :> "dislike")
===============================================================================
