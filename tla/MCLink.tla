------------------------------- MODULE MCLink -------------------------------
(***************************************************************************)
(* Small instances of Link; their sets are in the .cfg files.              *)
(***************************************************************************)
EXTENDS Link, TLC

CONSTANTS c1, c2, s1, s2, s3, ann, bob, n1, n2, l1

OneToken == s1 :> n1
OneUser == s1 :> ann
=============================================================================
