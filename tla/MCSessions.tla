----------------------------- MODULE MCSessions -----------------------------
(***************************************************************************)
(* A small instance of Sessions; its sets are in the .cfg files.           *)
(***************************************************************************)
EXTENDS Sessions, TLC

CONSTANTS c1, c2, c3, s1, s2, ann, bob, n1, n2, n3

OneToken == [s \in SignedIn |-> n1]
OneUser  == [s \in SignedIn |-> ann]

SessionsSymmetry == Permutations(Call) \cup Permutations(Token \ {n1})
=============================================================================
