---------------------------- MODULE MCSigningKeys ----------------------------
(***************************************************************************)
(* A small instance of SigningKeys: two processes of one deployment and one *)
(* started with another secret; two keys to generate or import and one of   *)
(* another kind than RSA.                                                   *)
(***************************************************************************)
EXTENDS SigningKeys, TLC

CONSTANTS k1, k2, k3, p1, p2, p3, s1, s2, g1, t1

MCKeys == {k1, k2, k3}
MCProcesses == {p1, p2, p3}
MCSecretOf == p1 :> s1 @@ p2 :> s1 @@ p3 :> s2
MCShape == k1 :> "pkcs1" @@ k2 :> "pkcs1" @@ k3 :> "other"
Symmetric == Permutations({k1, k2}) \cup Permutations({p1, p2})
=============================================================================
