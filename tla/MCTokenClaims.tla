---------------------------- MODULE MCTokenClaims ----------------------------
(***************************************************************************)
(* Two users, each with a login, and four tokens.  A user may go from two   *)
(* roles to one, to another customer and out of service, and back.          *)
(***************************************************************************)
EXTENDS TokenClaims, TLC

CONSTANTS u1, u2, g1, g2, admin, reader, c1, c2

MCOwner == (g1 :> u1) @@ (g2 :> u2)

MCRecords ==
    {[active |-> TRUE, cid |-> c1, roles |-> {admin, reader}, role |-> Nil],
     [active |-> FALSE, cid |-> c2, roles |-> {admin}, role |-> reader]}

Symmetry == Permutations(Token)
=============================================================================
