------------------------------- MODULE Consent --------------------------------
(***************************************************************************)
(* Interactive authorization: Authorize, the login and consent pages kept   *)
(* as interactions, ConfirmConsent, RedirectAfterLogin and Logout           *)
(* (internal/idp), up to the issue of an authorization code.                *)
(*                                                                         *)
(* Requests of a browser carry the session cookie it had when they were     *)
(* sent; each read or write of the store is one step, so tabs interleave.   *)
(* Scopes are sets; the other parameters of a request are left out.         *)
(***************************************************************************)
EXTENDS Integers, FiniteSets

CONSTANTS
    User, Browser, Client, Scope,
    Host,
    HostsOf,       \* HostsOf[c]: the hosts of the redirect and post-logout URIs of c
    TrustedConsentDomains,
    Within,        \* pairs of a host and a domain that it is, or lies below
    Ask,           \* what clients ask for: scopes, and prompt=consent or not
    Request,       \* concurrent HTTP requests
    Session,       \* random ids, used once
    Interaction,   \* random ids; one may stand for another after it expired
    None,
    MaxFaults      \* bound on calls that fail unnoticed and responses that are lost

ASSUME ConsentAssumption ==
    /\ HostsOf \in [Client -> SUBSET Host]
    /\ Within \subseteq Host \X TrustedConsentDomains
    /\ Ask \subseteq [scope : SUBSET Scope, prompt : BOOLEAN]
    /\ None \notin User \cup Client \cup Session \cup Interaction
    /\ MaxFaults \in Nat

VARIABLES
    scopes,    \* scopes[c]: what client c is registered for
    cookie,    \* cookie[b]: the session id in browser b
    session,   \* session[s]: its subject; None when absent
    opened,    \* session ids used so far
    page,      \* page[i]: the stored interaction, or NoPage
    shown,     \* shown[b]: interactions browser b was sent to
    consent,   \* consent[u][c]: the stored set of scopes, or None
    req,       \* the requests
    faults,
    approved,  \* history: approved[u][c], the sets u has confirmed for c
    ended      \* history: sessions a logout has deleted

stores == <<session, opened, page, consent>>
browsers == <<cookie, shown>>
history == <<approved, ended>>
vars == <<scopes, stores, browsers, req, faults, history>>

NoPage == [c |-> None, scope |-> {}, prompt |-> FALSE, asked |-> FALSE]
\* Fields are set to None once nothing reads them any more.
\* prompt: the parameter; asked: what the client sent first (history);
\* most: the scopes of the client when the request began (history).
Free == [pc |-> "idle", b |-> None, sid |-> None, sub |-> None, c |-> None, i |-> None,
         scope |-> {}, prompt |-> FALSE, asked |-> FALSE, confirmed |-> FALSE,
         late |-> FALSE, most |-> {}]

Init ==
    /\ scopes = [c \in Client |-> Scope]
    /\ cookie = [b \in Browser |-> None]
    /\ session = [s \in Session |-> None]
    /\ opened = {}
    /\ page = [i \in Interaction |-> NoPage]
    /\ shown = [b \in Browser |-> {}]
    /\ consent = [u \in User |-> [c \in Client |-> None]]
    /\ req = [r \in Request |-> Free]
    /\ faults = 0
    /\ approved = [u \in User |-> [c \in Client |-> {}]]
    /\ ended = {}

Goto(r, pc) == req' = [req EXCEPT ![r].pc = pc]
End(r) == req' = [req EXCEPT ![r] = Free]
Fault == faults < MaxFaults /\ faults' = faults + 1
SignedIn(s) == s # None /\ session[s] # None
Live(i) == page[i].c # None

\* A request of browser b arrives with its cookie.
Arrive(b, pc) == [Free EXCEPT !.pc = pc, !.b = b, !.sid = cookie[b], !.late = cookie[b] \in ended]

trustedFirstPartyHost(h) == \E d \in TrustedConsentDomains : <<h, d>> \in Within

\* One trusted host among those of its URIs makes a client trusted.
trustedFirstPartyClient(c) == \E h \in HostsOf[c] : trustedFirstPartyHost(h)

scopeSubset(requested, available) == requested \subseteq available

\* A request that names no scope is allowed and gets none.
allowedScopes(c, requested) == scopeSubset(requested, scopes[c])

(***************************************************************************)
(* Authorize.                                                               *)
(***************************************************************************)
Authorize(r, b, c, S, prompt) ==
    /\ req[r].pc = "idle"
    /\ allowedScopes(c, S)
    /\ req' = [req EXCEPT ![r] = [Arrive(b, "session") EXCEPT
                 !.c = c, !.scope = S, !.prompt = prompt, !.asked = prompt, !.most = scopes[c]]]
    /\ UNCHANGED <<scopes, stores, browsers, faults, history>>

\* Mutant: the prompt parameter is not kept in the interaction.
KeptUnprompted(r) ==
    [c |-> req[r].c, scope |-> req[r].scope, prompt |-> FALSE, asked |-> req[r].asked]

Kept(r) ==
    [c |-> req[r].c, scope |-> req[r].scope, prompt |-> req[r].prompt, asked |-> req[r].asked]

\* The request is kept under a new random id and the browser is sent there; nothing
\* that others see lies between the decision to do so and the write.
StoreInteraction(r) ==
    /\ \E i \in Interaction :
          /\ ~Live(i) /\ \A q \in Request : req[q].i # i
          /\ page' = [page EXCEPT ![i] = Kept(r)]
          /\ shown' = [shown EXCEPT ![req[r].b] = @ \cup {i}]
    /\ End(r)
    /\ UNCHANGED <<scopes, session, opened, consent, cookie, history>>

\* The session decides between the grant check and the login page; a failed
\* read sends the user to the login page too.
ReadSession(r) ==
    /\ req[r].pc = "session"
    /\ SignedIn(req[r].sid)
    /\ req' = [req EXCEPT ![r].pc = "grant", ![r].sub = session[req[r].sid], ![r].sid = None]
    /\ UNCHANGED <<scopes, stores, browsers, faults, history>>

LoginPage(r) ==
    /\ req[r].pc = "session"
    /\ IF SignedIn(req[r].sid) THEN Fault ELSE UNCHANGED faults
    /\ StoreInteraction(r)

\* Mutant: any earlier consent is enough.
AutoGrantsAny(r) ==
    \/ trustedFirstPartyClient(req[r].c)
    \/ ~req[r].prompt /\ consent[req[r].sub][req[r].c] # None

AutoGrants(r) ==
    \/ trustedFirstPartyClient(req[r].c)
    \/ /\ ~req[r].prompt
       /\ consent[req[r].sub][req[r].c] # None
       /\ scopeSubset(req[r].scope, consent[req[r].sub][req[r].c])

canAutoGrantAuthorization(r) ==
    /\ req[r].pc = "grant"
    /\ AutoGrants(r)
    /\ req' = [req EXCEPT ![r].pc = "validate", ![r].b = None]
    /\ UNCHANGED <<scopes, stores, browsers, faults, history>>

\* A failed read of the grant asks for consent again.
redirectToConsent(r) ==
    /\ req[r].pc = "grant"
    /\ IF AutoGrants(r) THEN ~trustedFirstPartyClient(req[r].c) /\ Fault ELSE UNCHANGED faults
    /\ StoreInteraction(r)

(***************************************************************************)
(* Signing in at an interaction: FinishLogin, then RedirectAfterLogin sends *)
(* the browser back to Authorize with the parameters of the interaction.    *)
(***************************************************************************)
FinishLogin(r, b, i, u) ==
    /\ req[r].pc = "idle"
    /\ i \in shown[b] /\ Live(i)
    /\ \E s \in Session \ opened :
          /\ opened' = opened \cup {s}
          /\ session' = [session EXCEPT ![s] = u]
          /\ req' = [req EXCEPT ![r] = [Free EXCEPT !.pc = "back", !.b = b, !.sid = s, !.i = i]]
    /\ UNCHANGED <<scopes, page, consent, browsers, faults, history>>

RedirectAfterLogin(r) ==
    LET p == page[req[r].i]
        b == req[r].b
    IN  /\ req[r].pc = "back"
        /\ cookie' = [cookie EXCEPT ![b] = req[r].sid]
        /\ IF p.c = None \/ ~allowedScopes(p.c, p.scope) THEN End(r)
           ELSE req' = [req EXCEPT ![r] = [Free EXCEPT
                          !.pc = "session", !.b = b, !.sid = req[r].sid, !.c = p.c,
                          !.scope = p.scope, !.prompt = p.prompt, !.asked = p.asked,
                          !.late = req[r].sid \in ended, !.most = scopes[p.c]]]
        /\ UNCHANGED <<scopes, stores, shown, faults, history>>

(***************************************************************************)
(* ConfirmConsent.  Any interaction can be confirmed once the browser has a *)
(* session, and nothing deletes it: it can be confirmed again.              *)
(***************************************************************************)
Confirm(r, b, i) ==
    /\ req[r].pc = "idle"
    /\ i \in shown[b]
    /\ cookie[b] # None
    /\ req' = [req EXCEPT ![r] = [Arrive(b, "confirm") EXCEPT !.i = i]]
    /\ UNCHANGED <<scopes, stores, browsers, faults, history>>

\* The session, then the interaction are read; both can only have gone.
ConfirmReads(r) ==
    LET p == page[req[r].i]
    IN  /\ req[r].pc = "confirm"
        /\ IF ~SignedIn(req[r].sid) \/ p.c = None THEN End(r)
           ELSE req' = [req EXCEPT ![r] = [@ EXCEPT
                          !.pc = "put", !.sub = session[req[r].sid], !.b = None, !.sid = None,
                          !.i = None, !.c = p.c, !.scope = p.scope, !.prompt = p.prompt,
                          !.asked = p.asked, !.most = scopes[p.c]]]
        /\ UNCHANGED <<scopes, stores, browsers, faults, history>>

\* The new grant replaces the earlier one of this user and client.
PutConsentGrant(r) ==
    LET u == req[r].sub
        c == req[r].c
    IN  /\ req[r].pc = "put"
        /\ consent' = [consent EXCEPT ![u][c] = req[r].scope]
        /\ approved' = [approved EXCEPT ![u][c] = @ \cup {req[r].scope}]
        /\ req' = [req EXCEPT ![r].pc = "validate", ![r].confirmed = TRUE]
        /\ UNCHANGED <<scopes, session, opened, page, browsers, faults, ended>>

(***************************************************************************)
(* finishAuthorization: fosite reads the client again and checks the scopes *)
(* against it, then the code is stored.                                     *)
(***************************************************************************)
\* Mutant: the scopes of the interaction are granted as they are.
Unvalidated(r) ==
    /\ req[r].pc = "validate"
    /\ Goto(r, "code")
    /\ UNCHANGED <<scopes, stores, browsers, faults, history>>

NewAuthorizeRequest(r) ==
    /\ req[r].pc = "validate"
    /\ IF scopeSubset(req[r].scope, scopes[req[r].c]) THEN Goto(r, "code") ELSE End(r)
    /\ UNCHANGED <<scopes, stores, browsers, faults, history>>

IssueCode(r) ==
    /\ req[r].pc = "code"
    /\ End(r)
    /\ UNCHANGED <<scopes, stores, browsers, faults, history>>

(***************************************************************************)
(* Logout: the error of the delete is dropped, the cookie is cleared when   *)
(* the response reaches the browser.                                        *)
(***************************************************************************)
\* Mutant: the result of readSession is not looked at.
LogoutUnread(r, b) ==
    /\ req[r].pc = "idle"
    /\ req' = [req EXCEPT ![r] = Arrive(b, "logout")]
    /\ UNCHANGED <<scopes, stores, browsers, faults, history>>

Logout(r, b) ==
    /\ req[r].pc = "idle"
    /\ cookie[b] # None
    /\ req' = [req EXCEPT ![r] = Arrive(b, "logout")]
    /\ UNCHANGED <<scopes, stores, browsers, faults, history>>

\* Mutant: only the cookie is cleared.
LogoutKeepsSession(r) ==
    /\ req[r].pc = "logout"
    /\ ended' = ended \cup {req[r].sid}
    /\ Goto(r, "clear")
    /\ UNCHANGED <<scopes, stores, browsers, faults, approved>>

LogoutSession(r) ==
    /\ req[r].pc = "logout"
    /\ Goto(r, "clear")
    /\ \/ /\ session' = [session EXCEPT ![req[r].sid] = None]
          /\ ended' = ended \cup {req[r].sid}
          /\ UNCHANGED faults
       \/ Fault /\ UNCHANGED <<session, ended>>
    /\ UNCHANGED <<scopes, opened, page, consent, browsers, approved>>

ClearCookie(r) ==
    /\ req[r].pc = "clear"
    /\ End(r)
    /\ \/ cookie' = [cookie EXCEPT ![req[r].b] = None] /\ UNCHANGED faults
       \/ Fault /\ UNCHANGED cookie
    /\ UNCHANGED <<scopes, stores, shown, history>>

\* An error of the store ends a request, as does a user who denies consent.
GiveUp(r) ==
    /\ req[r].pc \notin {"idle", "logout", "clear"}
    /\ End(r)
    /\ UNCHANGED <<scopes, stores, browsers, faults, history>>

(***************************************************************************)
(* Expiry in valkey, and a client that loses scopes.                        *)
(***************************************************************************)
ExpireSession(s) ==
    /\ session[s] # None
    /\ session' = [session EXCEPT ![s] = None]
    /\ UNCHANGED <<scopes, opened, page, consent, browsers, req, faults, history>>

ExpireInteraction(i) ==
    /\ Live(i)
    /\ page' = [page EXCEPT ![i] = NoPage]
    /\ shown' = [b \in Browser |-> shown[b] \ {i}]
    /\ UNCHANGED <<scopes, session, opened, consent, cookie, req, faults, history>>

NarrowClient(c, S) ==
    /\ S \subseteq scopes[c] /\ S # scopes[c]
    /\ scopes' = [scopes EXCEPT ![c] = S]
    /\ UNCHANGED <<stores, browsers, req, faults, history>>

Step(r) ==
    \/ \E b \in Browser, c \in Client, a \in Ask : Authorize(r, b, c, a.scope, a.prompt)
    \/ \E b \in Browser, i \in Interaction, u \in User : FinishLogin(r, b, i, u)
    \/ \E b \in Browser, i \in Interaction : Confirm(r, b, i)
    \/ \E b \in Browser : Logout(r, b)
    \/ ReadSession(r)
    \/ LoginPage(r)
    \/ canAutoGrantAuthorization(r)
    \/ redirectToConsent(r)
    \/ RedirectAfterLogin(r)
    \/ ConfirmReads(r)
    \/ PutConsentGrant(r)
    \/ NewAuthorizeRequest(r)
    \/ IssueCode(r)
    \/ LogoutSession(r)
    \/ ClearCookie(r)
    \/ GiveUp(r)

Next ==
    \/ \E r \in Request : Step(r)
    \/ \E s \in Session : ExpireSession(s)
    \/ \E i \in Interaction : ExpireInteraction(i)
    \/ \E c \in Client, a \in Ask : NarrowClient(c, a.scope)

Spec == Init /\ [][Next]_vars

(***************************************************************************)
(* Properties.                                                              *)
(***************************************************************************)
Pc == {"idle", "session", "grant", "back", "confirm",
       "put", "validate", "code", "logout", "clear"}

\* The types of the state.
TypeOK ==
    /\ scopes \in [Client -> SUBSET Scope]
    /\ cookie \in [Browser -> Session \cup {None}]
    /\ session \in [Session -> User \cup {None}]
    /\ opened \subseteq Session
    /\ page \in [Interaction -> [c : Client \cup {None}, scope : SUBSET Scope,
                                 prompt : BOOLEAN, asked : BOOLEAN]]
    /\ shown \in [Browser -> SUBSET Interaction]
    /\ \A u \in User : \A c \in Client :
          /\ consent[u][c] = None \/ consent[u][c] \in SUBSET Scope
          /\ approved[u][c] \subseteq SUBSET Scope
    /\ req \in [Request -> [pc : Pc, b : Browser \cup {None}, sid : Session \cup {None},
                            sub : User \cup {None}, c : Client \cup {None},
                            i : Interaction \cup {None}, scope : SUBSET Scope,
                            prompt : BOOLEAN, asked : BOOLEAN, confirmed : BOOLEAN,
                            late : BOOLEAN, most : SUBSET Scope]]
    /\ faults \in 0 .. MaxFaults
    /\ ended \subseteq Session

Issuing(r) == req[r].pc = "code"

\* A client outside the trusted domains gets a code for scopes its user has
\* confirmed for it in one consent, whatever was stored, replaced or read since.
CodeApproved ==
    \A r \in Request : Issuing(r) /\ ~trustedFirstPartyClient(req[r].c) =>
        \E A \in approved[req[r].sub][req[r].c] : req[r].scope \subseteq A

\* prompt=consent survives the detour over the login page: such a request ends
\* in a code only through ConfirmConsent.
PromptHonoured ==
    \A r \in Request : Issuing(r) /\ req[r].asked /\ ~trustedFirstPartyClient(req[r].c) => req[r].confirmed

\* A code never carries a scope the client had lost before the request began,
\* although interactions keep the scopes they were created with.
CodeWithinClient == \A r \in Request : Issuing(r) => req[r].scope \subseteq req[r].most

\* After Logout has deleted a session, no request sent later with its cookie
\* gets a code.
LogoutEndsSession == \A r \in Request : req[r].late => ~Issuing(r)
===============================================================================
