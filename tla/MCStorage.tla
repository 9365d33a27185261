----------------------------- MODULE MCStorage -----------------------------
(***************************************************************************)
(* A small instance of Storage; its sets are in the .cfg files.            *)
(***************************************************************************)
EXTENDS Storage, TLC

CONSTANTS u1, u2, u3, f1, f2

StorageSymmetry == Permutations(Upload) \cup Permutations(File)
=============================================================================
