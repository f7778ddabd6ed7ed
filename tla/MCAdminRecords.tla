---------------------------- MODULE MCAdminRecords ----------------------------
(***************************************************************************)
(* Small instances of AdminRecords.                                         *)
(***************************************************************************)
EXTENDS AdminRecords, TLC

CONSTANTS s1, s2, r1, r2

MCProviders == {s1, s2}
MCRequests == {r1, r2}
Symmetric == Permutations(MCProviders) \cup Permutations(MCRequests)
=============================================================================
