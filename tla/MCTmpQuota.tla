----------------------------- MODULE MCTmpQuota -----------------------------
(***************************************************************************)
(* A small instance of TmpQuota; its sets are in the .cfg files.           *)
(***************************************************************************)
EXTENDS TmpQuota, TLC

CONSTANTS u1, u2, u3

QuotaSymmetry == Permutations(Upload)
=============================================================================
