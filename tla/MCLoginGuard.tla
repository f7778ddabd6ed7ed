---------------------------- MODULE MCLoginGuard ----------------------------
(***************************************************************************)
(* An instance of LoginGuard for TLC: two attempts from one address, and    *)
(* one fault.                                                               *)
(***************************************************************************)
EXTENDS LoginGuard

CONSTANTS a1, a2, s1

Attempts == {a1, a2}
Sources == {s1}
=============================================================================
