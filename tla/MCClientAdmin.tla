---------------------------- MODULE MCClientAdmin -----------------------------
(***************************************************************************)
(* Instances of ClientAdmin for TLC.                                        *)
(***************************************************************************)
EXTENDS ClientAdmin, TLC

CONSTANTS k1, k2, i1, i2, s1, s2, r1, r2

Customers == {k1, k2}
Rows == {i1, i2}
Secrets == {s1, s2}
Requests == {r1, r2}
Symmetric == Permutations(Customers) \cup Permutations(Rows)
                \cup Permutations(Secrets) \cup Permutations(Requests)
===============================================================================
