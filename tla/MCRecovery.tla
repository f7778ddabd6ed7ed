------------------------------ MODULE MCRecovery ------------------------------
(***************************************************************************)
(* Instances of Recovery for TLC: two persons, one with the hash of an      *)
(* address; the address that the other reads is nobody's destination; one   *)
(* interaction, to which both may post.                                     *)
(***************************************************************************)
EXTENDS Recovery, TLC

CONSTANTS u1, u2, a1, a2, r1, r2, l1, l2, g1

Users == {u1, u2}
Addresses == {a1, a2}
Holders == (a1 :> u1) @@ (a2 :> u2)
Contacts == (u1 :> a1) @@ (u2 :> None)
NoProfiles == [u \in Users |-> None]
Requests == {r1, r2}
Links == {l1, l2}
OneLink == {l1}
Pages == {g1}
Symmetric == Permutations(Requests) \cup Permutations(Links)
===============================================================================
