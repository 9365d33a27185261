---------------------------- MODULE MCTrackCache ----------------------------
(***************************************************************************)
(* Small instances of TrackCache: which URLs a request carries and whose   *)
(* hosts they are; the tasks, tracks and budgets are in the .cfg files.    *)
(***************************************************************************)
EXTENDS TrackCache, TLC

CONSTANTS h1

\* One storage URL, or two on the one host (the hq and the sq file).
OneHost == [i \in 1..Storages |-> h1]

TaskSymmetry == Permutations(Task)
=============================================================================
