----------------------------- MODULE AccessTokens -----------------------------
(***************************************************************************)
(* The life of signed access tokens after their issue (internal/idp):       *)
(* VerifyAccessToken, tokenExchange, Introspect and Revoke.                 *)
(*                                                                         *)
(* An access token is a JWT that stays readable whatever happens.  Three    *)
(* records decide whether it still counts: its expiry, the session fosite   *)
(* keeps of the tokens it issued ("root"), and the mark of its jti that     *)
(* Revoke puts in valkey.  Exchanged tokens ("child") have no session.      *)
(* Each read or write of a record is one step.  Tokens of other clients and *)
(* malformed requests are refused at once and left out; the actor token is  *)
(* verified like the subject token, so only its presence is kept.  Of       *)
(* token_exchange_events the rows of success are kept.                      *)
(***************************************************************************)
EXTENDS Integers, FiniteSets

CONSTANTS
    Token,         \* signed tokens; ids (jti) are random and used once
    Scope,
    Grants,        \* the sets of scopes fosite issues tokens for
    Policy,        \* rows of token_exchange_policies that name the client
    Rank,          \* Rank[p]: its place in the order of priority and age
    Allowed,       \* Allowed[p]: its scopes; empty means any
    ActorRequired, \* policies with actorTokenRequired
    Ask,           \* what exchanges ask for: scopes, with or without an actor token
    Request,       \* concurrent HTTP requests
    Ops,           \* the kinds of request of this instance
    None,
    AccessTTL, RefreshTTL, MaxTime,
    MaxRoots,      \* bound on the tokens fosite issues
    MaxFaults      \* bound on failed calls and on index entries that were lost

\* Revocation marks are kept for RefreshTTL (30 days by default, AccessTTL is 10
\* minutes), and an access token is still accepted at the second of its expiry.
ASSUME TokenAssumption ==
    /\ AccessTTL \in Nat /\ RefreshTTL \in Nat /\ RefreshTTL > AccessTTL
    /\ MaxTime \in Nat /\ MaxFaults \in Nat /\ MaxRoots \in Nat
    /\ Rank \in [Policy -> Nat]
    /\ \A p, q \in Policy : Rank[p] = Rank[q] => p = q
    /\ Allowed \in [Policy -> SUBSET Scope]
    /\ ActorRequired \subseteq Policy
    /\ Grants \subseteq SUBSET Scope
    /\ Ask \subseteq [scope : SUBSET Scope, actor : BOOLEAN]
    /\ None \notin Token
    /\ Ops \subseteq {"verify", "introspect", "exchange", "revoke"}

VARIABLES
    now,
    tok,       \* tok[t]: the claims of token t, or NoToken
    session,   \* tokens fosite has a session of
    mark,      \* mark[t]: when the revocation mark of t expires; 0 without one
    logged,    \* tokens with a row of success in token_exchange_events
    req,       \* the requests
    faults,
    revoked    \* history: revoked[t]: what the finished revocations of t have done

vars == <<now, tok, session, mark, logged, req, faults, revoked>>
records == <<tok, session, mark, logged>>

\* base: the scopes that every token before it in its chain of exchanges carried, its
\* own for a token fosite issued (history).
NoToken == [kind |-> "none", scope |-> {}, exp |-> 0, base |-> {}]

\* What a revocation does to a token.
Deed == {"session", "mark"}

\* made: the token signed; late: what finished revocations
\* had done to the token on arrival; blind: a read of the mark failed, or fosite did
\* not find the session to drop.
Free == [pc |-> "idle", op |-> "verify", on |-> None,
         made |-> None, late |-> {}, blind |-> FALSE]

Init ==
    /\ now = 0
    /\ tok = [t \in Token |-> NoToken]
    /\ session = {}
    /\ mark = [t \in Token |-> 0]
    /\ logged = {}
    /\ req = [r \in Request |-> Free]
    /\ faults = 0
    /\ revoked = [t \in Token |-> {}]

At(r, pc) == req[r].pc = pc
Goto(r, pc) == req' = [req EXCEPT ![r].pc = pc]
End(r) == req' = [req EXCEPT ![r] = Free]
Fault == faults < MaxFaults /\ faults' = faults + 1

Issued(t) == tok[t].kind # "none"
Unexpired(t) == ~(tok[t].exp < now)
Marked(t) == mark[t] > now

\* fosite issues a token for a set of scopes and keeps its session.
Issue(t, S) ==
    /\ ~Issued(t)
    /\ Cardinality({u \in Token : tok[u].kind = "root"}) < MaxRoots
    /\ tok' = [tok EXCEPT ![t] = [kind |-> "root", scope |-> S, exp |-> now + AccessTTL,
                                  base |-> S]]
    /\ session' = session \cup {t}
    /\ UNCHANGED <<now, mark, logged, req, faults, revoked>>

First(op) == CASE op = "revoke" -> "session"
               [] op = "introspect" -> "ask"
               [] OTHER -> "mark"
Late(op, t) == IF op = "revoke" THEN {} ELSE revoked[t]

Arrive(r, op, t) ==
    /\ At(r, "idle")
    /\ Issued(t)
    /\ req' = [req EXCEPT ![r] = [Free EXCEPT !.pc = First(op), !.op = op, !.on = t,
                                             !.late = Late(op, t)]]
    /\ UNCHANGED <<now, records, faults, revoked>>

(***************************************************************************)
(* VerifyAccessToken, for UserInfo and the admin routes ("verify") and for  *)
(* the subject token of an exchange: expiry and mark, then the session.     *)
(* Introspect takes a live session for an answer and reads the mark only    *)
(* when fosite does not vouch for the token.                                *)
(***************************************************************************)
\* The audit event of an exchange, refused or not, is written last.
Audit(r, t) == req' = [req EXCEPT ![r] = [Free EXCEPT !.pc = "audit", !.made = t]]
Refuse(r) == IF req[r].op = "exchange" THEN Audit(r, None) ELSE End(r)
Passed(r) == IF req[r].op = "exchange" THEN "policy" ELSE "accept"

\* Exchanged tokens are not known to fosite; introspection ends here as well.
AfterMark(r) ==
    IF tok[req[r].on].kind = "root" /\ req[r].op # "introspect" THEN "known" ELSE Passed(r)

\* NewIntrospectionRequest: any error, of the storage too, ends in legacyIntrospect.
AskFosite(r) ==
    /\ At(r, "ask")
    /\ Goto(r, IF req[r].on \in session /\ Unexpired(req[r].on) THEN "accept" ELSE "mark")
    /\ UNCHANGED <<now, records, faults, revoked>>

AskFositeFails(r) ==
    /\ At(r, "ask")
    /\ Goto(r, "mark")
    /\ Fault
    /\ UNCHANGED <<now, records, revoked>>

CheckMark(r) ==
    /\ At(r, "mark")
    /\ IF Unexpired(req[r].on) /\ ~Marked(req[r].on) THEN Goto(r, AfterMark(r)) ELSE Refuse(r)
    /\ UNCHANGED <<now, records, faults, revoked>>

\* A failed read of the mark counts as no mark.
CheckMarkFails(r) ==
    /\ At(r, "mark") /\ Unexpired(req[r].on)
    /\ req' = [req EXCEPT ![r].pc = AfterMark(r), ![r].blind = TRUE]
    /\ Fault
    /\ UNCHANGED <<now, records, revoked>>

IntrospectToken(r) ==
    /\ At(r, "known")
    /\ IF req[r].on \in session /\ Unexpired(req[r].on) THEN Goto(r, Passed(r)) ELSE Refuse(r)
    /\ UNCHANGED <<now, records, faults, revoked>>

\* The response is written; the requests are free for the next.
Respond(r) ==
    /\ At(r, "accept")
    /\ End(r)
    /\ UNCHANGED <<now, records, faults, revoked>>

(***************************************************************************)
(* tokenExchange, after the subject token has been verified.  What a        *)
(* request asks for is of no account before, so it is chosen here.          *)
(***************************************************************************)
\* Policies are switched on and off by hand, in SQL, so any of them may be enabled
\* at the time of the query.
Matches(p, a) == p \in ActorRequired => a.actor

\* The first match among the enabled policies E, in the order of priority.
FindTokenExchangePolicy(E, p, a) ==
    /\ p \in E /\ Matches(p, a)
    /\ \A q \in E : Matches(q, a) => Rank[q] <= Rank[p]

requestedScopes(r, a) == IF a.scope = {} THEN tok[req[r].on].scope ELSE a.scope
policyAllowsScopes(p, S) == Allowed[p] = {} \/ S \subseteq Allowed[p]

\* Mutant: only the policy is asked about the scopes.
PolicyOnly(p, r, a) == policyAllowsScopes(p, requestedScopes(r, a))

Granted(p, r, a) == /\ requestedScopes(r, a) \subseteq tok[req[r].on].scope
                    /\ policyAllowsScopes(p, requestedScopes(r, a))

\* The policy is read, and nothing but it and the verified claims goes into the
\* new token, which starts a full lifetime of its own.  The token is in the
\* response before the audit event is written.
Exchange(r, t, a) ==
    /\ At(r, "policy")
    /\ \E E \in SUBSET Policy, p \in Policy :
          FindTokenExchangePolicy(E, p, a) /\ Granted(p, r, a)
    /\ ~Issued(t)
    /\ tok' = [tok EXCEPT ![t] = [kind |-> "child", scope |-> requestedScopes(r, a),
                                  exp |-> now + AccessTTL,
                                  base |-> tok[req[r].on].base \cap tok[req[r].on].scope]]
    /\ Audit(r, t)
    /\ UNCHANGED <<now, session, mark, logged, faults, revoked>>

\* No policy matches or it refuses the scopes.
ExchangeRefused(r) ==
    /\ At(r, "policy")
    /\ \E a \in Ask, E \in SUBSET Policy :
          \A p \in Policy : FindTokenExchangePolicy(E, p, a) => ~Granted(p, r, a)
    /\ Audit(r, None)
    /\ UNCHANGED <<now, records, faults, revoked>>

\* The policies cannot be read, or the claims cannot be signed.
ExchangeFails(r) ==
    /\ At(r, "policy")
    /\ Audit(r, None)
    /\ Fault
    /\ UNCHANGED <<now, records, revoked>>

\* Mutant: an event of success is written for a refusal too.
LogAlways(r) ==
    /\ At(r, "audit")
    /\ logged' = logged \cup {req[r].made}
    /\ End(r)
    /\ UNCHANGED <<now, tok, session, mark, faults, revoked>>

\* Deferred to the return of the handler; the row of a refusal is not kept here.
LogTokenExchangeEvent(r) ==
    /\ At(r, "audit")
    /\ logged' = logged \cup ({req[r].made} \ {None})
    /\ End(r)
    /\ UNCHANGED <<now, tok, session, mark, faults, revoked>>

\* The insert uses the context of the request, which ends when the client hangs
\* up; its error is dropped.
LogTokenExchangeEventFails(r) ==
    /\ At(r, "audit")
    /\ End(r)
    /\ Fault
    /\ UNCHANGED <<now, records, revoked>>

(***************************************************************************)
(* Revoke: fosite drops the session of the token and then the jti is marked.*)
(***************************************************************************)
DropSession(r) ==
    /\ At(r, "session") /\ req[r].op = "revoke"
    /\ session' = session \ {req[r].on}
    /\ Goto(r, "put")
    /\ UNCHANGED <<now, tok, mark, logged, faults, revoked>>

\* The index of fosite's store has lost the token: no error, and its session stays.
DropSessionMisses(r) ==
    /\ At(r, "session") /\ req[r].op = "revoke"
    /\ req[r].on \in session
    /\ req' = [req EXCEPT ![r].pc = "put", ![r].blind = TRUE]
    /\ Fault
    /\ UNCHANGED <<now, records, revoked>>

\* A storage error, before or after the delete, ends the request with an error and
\* no mark.
DropSessionFails(r) ==
    /\ At(r, "session") /\ req[r].op = "revoke"
    /\ session' \in {session, session \ {req[r].on}}
    /\ End(r)
    /\ Fault
    /\ UNCHANGED <<now, tok, mark, logged, revoked>>

\* Mutant: the mark is kept as long as an access token lives.
ShortMark == now + AccessTTL
MarkExpiry == now + RefreshTTL

Revoked(r, done) ==
    revoked' = [revoked EXCEPT ![req[r].on] =
                   @ \cup done \cup (IF req[r].blind THEN {} ELSE {"session"})]

PutMark(r) ==
    /\ At(r, "put")
    /\ mark' = [mark EXCEPT ![req[r].on] = MarkExpiry]
    /\ Revoked(r, {"mark"})
    /\ End(r)
    /\ UNCHANGED <<now, tok, session, logged, faults>>

\* The error is dropped and the client told of success: a child lives on.
PutMarkFails(r) ==
    /\ At(r, "put")
    /\ Revoked(r, {})
    /\ End(r)
    /\ Fault
    /\ UNCHANGED <<now, records>>

\* Revocation of the refresh token that came with t: fosite drops the sessions of
\* both.  A refresh token is no JWT, so nothing is marked.
RevokeRefresh(t) ==
    /\ t \in session
    /\ session' = session \ {t}
    /\ UNCHANGED <<now, tok, mark, logged, req, faults, revoked>>

Tick ==
    /\ now < MaxTime
    /\ now' = now + 1
    /\ UNCHANGED <<records, req, faults, revoked>>

Verify(r) == \/ AskFosite(r) \/ AskFositeFails(r)
             \/ CheckMark(r) \/ CheckMarkFails(r) \/ IntrospectToken(r)
             \/ Respond(r)
tokenExchange(r) == \/ ExchangeRefused(r) \/ ExchangeFails(r)
                    \/ LogTokenExchangeEvent(r) \/ LogTokenExchangeEventFails(r)
                    \/ \E t \in Token, a \in Ask : Exchange(r, t, a)
Revoke(r) == \/ DropSession(r) \/ DropSessionMisses(r) \/ DropSessionFails(r)
             \/ PutMark(r) \/ PutMarkFails(r)

Next ==
    \/ \E t \in Token : RevokeRefresh(t) \/ \E S \in Grants : Issue(t, S)
    \/ \E r \in Request, op \in Ops, t \in Token : Arrive(r, op, t)
    \/ \E r \in Request : Verify(r) \/ tokenExchange(r) \/ Revoke(r)
    \/ Tick

Spec == Init /\ [][Next]_vars

-----------------------------------------------------------------------------
\* The variables stay in their types; a session is one of a token fosite issued,
\* and only exchanges are logged.
TypeOK ==
    /\ now \in 0..MaxTime /\ faults \in 0..MaxFaults
    /\ tok \in [Token -> [kind : {"none", "root", "child"}, scope : SUBSET Scope, exp : Nat,
                          base : SUBSET Scope]]
    /\ session \subseteq {t \in Token : tok[t].kind = "root"}
    /\ mark \in [Token -> Nat]
    /\ logged \subseteq {t \in Token : tok[t].kind = "child"}
    /\ req \in [Request -> [pc : {"idle", "ask", "mark", "known", "accept", "policy", "audit",
                                  "session", "put"},
                            op : {"verify", "introspect", "exchange", "revoke"},
                            on : Token \cup {None}, made : Token \cup {None},
                            late : SUBSET Deed, blind : BOOLEAN]]
    /\ revoked \in [Token -> SUBSET Deed]

\* However tokens are exchanged for tokens (tokenExchange), no token carries a scope
\* that one before it in its chain did not: what a policy has narrowed away does not
\* come back through another policy.
ScopesShrink == \A t \in Token : tok[t].scope \subseteq tok[t].base

\* VerifyAccessToken, and with it tokenExchange, refuses a token that a finished
\* Revoke has marked, and one of fosite's whose session it has dropped: either
\* is enough.  Introspect refuses a token once both are done, because a live
\* session answers for a marked token and a missing session leaves it to the mark.  A
\* failed read of the mark (a valkey error is taken for "no mark") is as good as none.
Against(r) == IF req[r].blind THEN req[r].late \ {"mark"} ELSE req[r].late
RevokedRefused ==
    \A r \in Request : req[r].pc \in {"accept", "policy"} =>
        IF req[r].op = "introspect"
        THEN Against(r) # Deed
        ELSE /\ "mark" \notin Against(r)
             /\ tok[req[r].on].kind = "root" => "session" \notin Against(r)
=============================================================================
