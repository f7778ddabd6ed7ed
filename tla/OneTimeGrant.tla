----------------------------- MODULE OneTimeGrant -----------------------------
(***************************************************************************)
(* What authorization codes, refresh tokens (TokenStore) and reset links    *)
(* (Recovery) promise: each is a grant that pays out once.                  *)
(*                                                                         *)
(* Users that overlap may both be served; the promise is about users that   *)
(* come after the grant has been closed.                                    *)
(***************************************************************************)
CONSTANTS
    User,    \* the requests that present a grant
    Grant

VARIABLES
    issued,  \* grants handed out
    served,  \* grants that have paid at least once
    closed,  \* grants that no later user may be served for
    use      \* who presents which grant, who came late and who has been paid

vars == <<issued, served, closed, use>>

Init ==
    /\ issued = {}
    /\ served = {}
    /\ closed = {}
    /\ use = {}

Issue(g) ==
    /\ issued' = issued \cup {g}
    /\ UNCHANGED <<served, closed, use>>

Present(u, g) ==
    /\ u \notin {x.by : x \in use}
    /\ use' = use \cup {[by |-> u, on |-> g, late |-> g \in closed, paid |-> FALSE]}
    /\ UNCHANGED <<issued, served, closed>>

Paid(x) == [by |-> x.by, on |-> x.on, late |-> FALSE, paid |-> TRUE]

\* What is paid may be a grant itself: a code pays a refresh token, and a refresh
\* token another.
Pay(x) ==
    /\ ~x.late /\ ~x.paid
    /\ use' \in {use \ {x}, (use \ {x}) \cup {Paid(x)}}
    /\ served' = served \cup {x.on}
    /\ closed' \in {closed, closed \cup {x.on}}
    /\ issued' = issued \/ \E g \in Grant \ issued : issued' = issued \cup {g}

Close(g) ==
    /\ closed' = closed \cup {g}
    /\ UNCHANGED <<issued, served, use>>

Leave(x) ==
    /\ use' = use \ {x}
    /\ UNCHANGED <<issued, served, closed>>

Next ==
    \/ \E x \in use : Pay(x) \/ Leave(x)
    \/ \E g \in Grant \ issued : Issue(g)
    \/ \E g \in served \ closed : Close(g)
    \/ \E u \in User, g \in issued : Present(u, g)

Spec == Init /\ [][Next]_vars
=============================================================================
