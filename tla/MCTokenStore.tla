---------------------------- MODULE MCTokenStore ----------------------------
(***************************************************************************)
(* An instance of TokenStore for TLC: one family, three requests, which are *)
(* interchangeable.                                                         *)
(***************************************************************************)
EXTENDS TokenStore, TLC

CONSTANTS r1, r2, r3, f1

Requests == {r1, r2, r3}
Families == {f1}
Symmetric == Permutations(Requests)
=============================================================================
