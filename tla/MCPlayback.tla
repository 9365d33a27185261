------------------------------ MODULE MCPlayback ------------------------------
(* Instances of Playback: a queue of two tracks, of one track twice, or once.  *)
EXTENDS Playback

CONSTANTS t1, t2, t3

MCLineups == {<<t, u>> : t \in Track, u \in Track} \cup {<<t>> : t \in Track}

Symmetry == Permutations(Track)
===============================================================================
