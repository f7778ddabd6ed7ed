---------------------------- MODULE MCAccessTokens ----------------------------
(***************************************************************************)
(* Small instances of AccessTokens: a policy that narrows the scopes and,   *)
(* above it, one that allows any but requires an actor token.               *)
(***************************************************************************)
EXTENDS AccessTokens, TLC

CONSTANTS t1, t2, t3, r1, r2, narrow, wide, read, write

MCTokens == {t1, t2, t3}
MCRequests == {r1, r2}
MCPolicies == {narrow, wide}
MCRank == [p \in MCPolicies |-> IF p = wide THEN 2 ELSE 1]
MCAllowed == [p \in MCPolicies |-> IF p = wide THEN {} ELSE {read}]
MCActorRequired == {wide}

MCGrants == {{read, write}}
\* Less than the first token has; with an actor token, all of it, which is more than
\* the second token of a chain has.
MCAsk == {[scope |-> {read}, actor |-> FALSE], [scope |-> {read, write}, actor |-> TRUE]}

Symmetric == Permutations(MCTokens) \cup Permutations(MCRequests)
=============================================================================
