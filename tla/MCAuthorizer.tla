----------------------------- MODULE MCAuthorizer -----------------------------
(***************************************************************************)
(* Small instances of Authorizer.                                           *)
(***************************************************************************)
EXTENDS Authorizer

CONSTANTS r1, r2

MCRequests == {r1, r2}
=============================================================================
