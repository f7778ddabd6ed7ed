------------------------------- MODULE MCConsent -------------------------------
(***************************************************************************)
(* Instances of Consent for TLC.                                            *)
(***************************************************************************)
EXTENDS Consent, TLC

CONSTANTS u1, u2, b1, c1, x1, x2, r1, r2, s1, s2, i1, h1, h2, d1

Users == {u1, u2}
Browsers == {b1}
Clients == {c1}
Hosts == {h1, h2}
Domains == {d1}
\* h2 lies below the trusted domain; the client redirects to h1 only.
Below == {<<h2, d1>>}
Redirects == [c \in Clients |-> {h1}]
Scopes == {x1, x2}
\* One scope after the consent page, or both without asking again.
Asks == {[scope |-> {x1}, prompt |-> TRUE], [scope |-> {x1, x2}, prompt |-> FALSE]}
Requests == {r1, r2}
Sessions == {s1, s2}
Interactions == {i1}
Symmetric == Permutations(Requests) \cup Permutations(Sessions) \cup Permutations(Users)
===============================================================================
