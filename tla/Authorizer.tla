------------------------------ MODULE Authorizer ------------------------------
(***************************************************************************)
(* The solutrix backend of the authorizer (internal/authz/solutrix.go):     *)
(* handlers ask a remote decision point (PDP), through a cache of its       *)
(* answers and with a service token they share.                             *)
(*                                                                         *)
(* A question is one of Authorize or of Scope (their cache keys differ in   *)
(* the first part); both go through the same steps.  Time passes only while *)
(* a handler waits for the mutex or for an HTTP answer; an HTTP call is     *)
(* given up after Timeout.  Names carry the prefix Authorizer where another *)
(* component has the same.                                                  *)
(***************************************************************************)
EXTENDS Integers

CONSTANTS
    Request,     \* concurrent handlers
    Question,    \* subject, action, resource and owner
    Nil,
    CacheTTL,    \* 0 disables the cache
    Timeout,     \* of the HTTP client (5 s)
    Margin,      \* a service token is renewed so long before it expires (30 s)
    TokenTTL,    \* lifetime of a service token
    MaxTime

\* The margin pays for two calls: the believed expiry is late by the time the
\* token took to arrive, and the token is then on its way to the PDP.
ASSUME AuthorizerAssumption ==
    /\ CacheTTL \in Nat /\ Timeout \in Nat /\ Margin \in Nat /\ TokenTTL \in Nat
    /\ MaxTime \in Nat
    /\ Margin >= 2 * Timeout
    /\ TokenTTL >= 2 * Timeout
    /\ Nil \notin Request \cup Question

VARIABLES
    now,
    truth,   \* truth[k]: what the PDP would answer now (its own database)
    since,   \* history: since when it would
    cache,   \* cache[k]: the answer kept and until when
    token,   \* the service token: its expiry, and the one the client believes
    holder,  \* the handler in tokenSource.get, which keeps the mutex
    req

authorizerVars == <<now, truth, since, cache, token, holder, req>>

Answer == {"allow", "deny"}
LongAgo == 0 - CacheTTL - Timeout - 1
NoEntry == [val |-> "none", exp |-> LongAgo]

\* val: the answer so far; exp: the expiry of the token sent; due: when the HTTP
\* call is given up.
Free == [pc |-> "idle", key |-> Nil, val |-> "none", exp |-> 0, due |-> 0]

AuthorizerInit ==
    /\ now = 0
    /\ truth \in [Question -> Answer]
    /\ since = [k \in Question |-> LongAgo]
    /\ cache = [k \in Question |-> NoEntry]
    /\ token = [exp |-> LongAgo, believed |-> LongAgo]
    /\ holder = Nil
    /\ req = [r \in Request |-> Free]

At(r, pc) == req[r].pc = pc
Done(r, val) == req' = [req EXCEPT ![r].pc = "done", ![r].val = val]

Ask(r, k) ==
    /\ At(r, "idle")
    /\ req' = [req EXCEPT ![r] = [Free EXCEPT !.pc = "cache", !.key = k]]
    /\ UNCHANGED <<now, truth, since, cache, token, holder>>

(***************************************************************************)
(* The cache.                                                               *)
(***************************************************************************)
Hit(k) == CacheTTL > 0 /\ cache[k].val # "none" /\ now <= cache[k].exp

getCached(r) ==
    /\ At(r, "cache")
    /\ IF Hit(req[r].key) THEN Done(r, cache[req[r].key].val)
                          ELSE req' = [req EXCEPT ![r].pc = "lock"]
    /\ UNCHANGED <<now, truth, since, cache, token, holder>>

\* The last answer to come back wins, whichever was given last.
putCached(k, val) ==
    IF CacheTTL = 0 THEN cache ELSE [cache EXCEPT ![k] = [val |-> val, exp |-> now + CacheTTL]]

(***************************************************************************)
(* tokenSource.get: the mutex is held while the token is fetched.           *)
(***************************************************************************)
\* Mutant: the token is used until it expires.
NoMargin == now < token.believed
Fresh == now < token.believed - Margin

Call(r, exp) ==
    req' = [req EXCEPT ![r].pc = "call", ![r].exp = exp, ![r].due = now + Timeout]

UseToken(r) ==
    /\ At(r, "lock") /\ holder = Nil /\ Fresh
    /\ Call(r, token.exp)
    /\ UNCHANGED <<now, truth, since, cache, token, holder>>

FetchToken(r) ==
    /\ At(r, "lock") /\ holder = Nil /\ ~Fresh
    /\ holder' = r
    /\ req' = [req EXCEPT ![r].pc = "fetch", ![r].due = now + Timeout]
    /\ UNCHANGED <<now, truth, since, cache, token>>

\* muninID's own token endpoint signs a token.  Its answer always says how long the
\* token lives, so the five minutes that get assumes otherwise do not come up.
Mint(r) ==
    /\ At(r, "fetch")
    /\ req' = [req EXCEPT ![r].pc = "minted", ![r].exp = now + TokenTTL]
    /\ UNCHANGED <<now, truth, since, cache, token, holder>>

ReceiveToken(r) ==
    /\ At(r, "minted")
    /\ token' = [exp |-> req[r].exp, believed |-> now + TokenTTL]
    /\ holder' = Nil
    /\ Call(r, req[r].exp)
    /\ UNCHANGED <<now, truth, since, cache>>

\* Mutant: the mutex is not released on an error.
KeepLock(r) ==
    /\ At(r, "fetch") \/ At(r, "minted")
    /\ Done(r, "error")
    /\ UNCHANGED <<now, truth, since, cache, token, holder>>

\* Any status but 200, a broken body, no answer in time.
FetchFails(r) ==
    /\ At(r, "fetch") \/ At(r, "minted")
    /\ holder' = Nil
    /\ Done(r, "error")
    /\ UNCHANGED <<now, truth, since, cache, token>>

(***************************************************************************)
(* check: POST /authz/check.                                                *)
(***************************************************************************)
\* The PDP refuses an expired service token; otherwise it decides.
Decide(r) ==
    /\ At(r, "call")
    /\ req' = [req EXCEPT ![r].pc = "reply",
                          ![r].val = IF now <= req[r].exp THEN truth[req[r].key] ELSE "refused"]
    /\ UNCHANGED <<now, truth, since, cache, token, holder>>

\* Only an answer of status 200 is kept.
Deliver(r) ==
    /\ At(r, "reply")
    /\ IF req[r].val \in Answer
       THEN cache' = putCached(req[r].key, req[r].val) /\ Done(r, req[r].val)
       ELSE cache' = cache /\ Done(r, "error")
    /\ UNCHANGED <<now, truth, since, token, holder>>

\* Mutant: an earlier answer stands in when the PDP fails.
FailOpen(r) ==
    /\ At(r, "call") \/ At(r, "reply")
    /\ Done(r, IF cache[req[r].key].val = "none" THEN "error" ELSE cache[req[r].key].val)
    /\ UNCHANGED <<now, truth, since, cache, token, holder>>

CallFails(r) ==
    /\ At(r, "call") \/ At(r, "reply")
    /\ Done(r, "error")
    /\ UNCHANGED <<now, truth, since, cache, token, holder>>

\* The handler goes on, or answers with 403 or, after an error, with 500.
Respond(r) ==
    /\ At(r, "done")
    /\ req' = [req EXCEPT ![r] = Free]
    /\ UNCHANGED <<now, truth, since, cache, token, holder>>

\* Roles and policies change at the PDP.
Change(k) ==
    /\ \E val \in Answer \ {truth[k]} : truth' = [truth EXCEPT ![k] = val]
    /\ since' = [since EXCEPT ![k] = now]
    /\ UNCHANGED <<now, cache, token, holder, req>>

Waiting == {"fetch", "minted", "call", "reply"}

Tick ==
    /\ now < MaxTime
    /\ \A r \in Request : /\ req[r].pc \in Waiting \cup {"idle", "lock"}
                          /\ req[r].pc \in Waiting => now < req[r].due
    /\ now' = now + 1
    /\ UNCHANGED <<truth, since, cache, token, holder, req>>

Step(r) == \/ getCached(r) \/ FetchFails(r) \/ Mint(r) \/ ReceiveToken(r)
           \/ Decide(r) \/ Deliver(r) \/ CallFails(r) \/ Respond(r)
get(r) == UseToken(r) \/ FetchToken(r)

AuthorizerNext ==
    \/ \E r \in Request : Step(r) \/ get(r)
    \/ \E k \in Question : Change(k) \/ \E r \in Request : Ask(r, k)
    \/ Tick

\* The HTTP client gives up after Timeout, so no step waits forever, and a Go
\* mutex is handed to the waiter that has waited longest.
Fairness == \A r \in Request : WF_authorizerVars(Step(r)) /\ SF_authorizerVars(get(r))
AuthorizerSpec == AuthorizerInit /\ [][AuthorizerNext]_authorizerVars /\ Fairness

-----------------------------------------------------------------------------
\* The variables stay in their types, and the mutex is held by the one handler
\* that fetches a token.
AuthorizerTypeOK ==
    /\ now \in 0..MaxTime
    /\ truth \in [Question -> Answer] /\ since \in [Question -> Int]
    /\ cache \in [Question -> [val : Answer \cup {"none"}, exp : Int]]
    /\ token \in [exp : Int, believed : Int]
    /\ holder \in Request \cup {Nil}
    /\ req \in [Request -> [pc : Waiting \cup {"idle", "cache", "lock", "done"},
                            key : Question \cup {Nil},
                            val : Answer \cup {"none", "refused", "error"}, exp : Int, due : Int]]
    /\ \A r \in Request : (req[r].pc \in {"fetch", "minted"}) <=> holder = r

\* An answer that the PDP no longer gives is given for CacheTTL and one timeout
\* at most, whatever the order in which concurrent checks fill the cache and
\* whichever calls fail (Authorize, Scope, putCachedDecision).
AnswerRecent ==
    \A r \in Request : LET k == req[r].key IN
        (req[r].pc = "done" /\ req[r].val \in Answer /\ req[r].val # truth[k])
            => now - since[k] <= CacheTTL + Timeout

\* The service token is alive when it reaches the PDP: the early renewal in
\* tokenSource.get covers the delays of both calls.
TokenAlive == \A r \in Request : req[r].val # "refused"

\* Every question is answered, although get keeps the mutex during its HTTP call.
Answered == \A r \in Request : req[r].pc # "idle" ~> req[r].pc = "idle"
=============================================================================
