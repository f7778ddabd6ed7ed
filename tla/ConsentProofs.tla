---------------------------- MODULE ConsentProofs -----------------------------
(***************************************************************************)
(* Codes carry consented scopes, for any number of users, browsers, clients *)
(* and concurrent requests.                                                 *)
(*                                                                         *)
(* The properties of Consent speak of the moment a code is issued.  The     *)
(* invariant says what the stores may hold (StoresOK) and what a request    *)
(* has established on its way there (Knows), which stays true while others  *)
(* move, because clients only lose scopes, what a user has approved is not  *)
(* taken back, and a session that has ended is not opened again (Follows).  *)
(***************************************************************************)
EXTENDS Consent, TLAPS

PageRecord == [c : Client \cup {None}, scope : SUBSET Scope, prompt : BOOLEAN, asked : BOOLEAN]
RequestRecord == [pc : Pc, b : Browser \cup {None}, sid : Session \cup {None},
                  sub : User \cup {None}, c : Client \cup {None},
                  i : Interaction \cup {None}, scope : SUBSET Scope,
                  prompt : BOOLEAN, asked : BOOLEAN, confirmed : BOOLEAN,
                  late : BOOLEAN, most : SUBSET Scope]

StoreTypes ==
    /\ scopes \in [Client -> SUBSET Scope]
    /\ cookie \in [Browser -> Session \cup {None}]
    /\ session \in [Session -> User \cup {None}]
    /\ opened \subseteq Session
    /\ page \in [Interaction -> PageRecord]
    /\ shown \in [Browser -> SUBSET Interaction]
    /\ consent \in [User -> [Client -> (SUBSET Scope) \cup {None}]]
    /\ approved \in [User -> [Client -> SUBSET (SUBSET Scope)]]
    /\ faults \in 0 .. MaxFaults
    /\ ended \subseteq Session

\* A stored grant was approved, an interaction keeps the prompt that was asked for,
\* and a session that has ended is gone and was opened before.
StoresOK ==
    /\ StoreTypes
    /\ \A u \in User : \A c \in Client :
          consent[u][c] # None => consent[u][c] \in approved[u][c]
    /\ \A i \in Interaction : page[i].asked => page[i].prompt
    /\ \A s \in ended : session[s] = None /\ s \in opened
    /\ \A s \in Session : session[s] # None => s \in opened
    /\ \A b \in Browser : cookie[b] \in opened \cup {None}

\* What a request x has established about the scopes of clients k, the approved
\* sets a, the opened sessions o and the ended ones e.
Authorizing == {"session", "grant", "put", "validate", "code"}
Knows(x, k, a, o, e) ==
    /\ x.pc \in Authorizing => x.c \in Client /\ (x.asked => x.prompt)
    /\ x.pc \in Authorizing \ {"code"} => k[x.c] \subseteq x.most
    /\ x.pc = "code" => x.scope \subseteq x.most
    /\ x.pc \in {"grant", "put", "validate", "code"} => x.sub \in User
    /\ x.pc \in {"validate", "code"} /\ ~trustedFirstPartyClient(x.c) =>
          /\ \E A \in a[x.sub][x.c] : x.scope \subseteq A
          /\ x.asked => x.confirmed
    /\ x.pc \in {"session", "back", "confirm", "logout"} => x.sid \in o \cup {None}
    /\ x.pc \in {"back", "logout"} => x.sid # None
    /\ x.pc \in {"back", "logout", "clear"} => x.b \in Browser
    /\ x.pc = "back" => x.i \in Interaction
    /\ x.pc = "confirm" => x.i \in Interaction
    /\ x.pc \in {"session"} => x.b \in Browser
    /\ x.pc = "grant" => x.b \in Browser
    /\ x.late => /\ x.pc \in {"session", "confirm", "logout", "clear"}
                 /\ x.pc \in {"session", "confirm"} => x.sid \in e

ConsentInv ==
    /\ StoresOK
    /\ req \in [Request -> RequestRecord]
    /\ \A r \in Request : Knows(req[r], scopes, approved, opened, ended)

\* l, v, p, f may come after k, a, o, e.
Follows(l, v, p, f, k, a, o, e) ==
    /\ \A c \in Client : l[c] \subseteq k[c]
    /\ \A u \in User : \A c \in Client : a[u][c] \subseteq v[u][c]
    /\ o \subseteq p /\ e \subseteq f

-----------------------------------------------------------------------------
(***************************************************************************)
(* Requests.                                                                *)
(***************************************************************************)
LEMMA FreeKnows == Free \in RequestRecord /\ \A k, a, o, e : Knows(Free, k, a, o, e)
BY DEF Free, RequestRecord, Knows, Pc, Authorizing

LEMMA KnowsKept ==
    ASSUME NEW x, NEW k, NEW a, NEW o, NEW e, NEW l, NEW v, NEW p, NEW f,
           Knows(x, k, a, o, e), Follows(l, v, p, f, k, a, o, e)
    PROVE  Knows(x, l, v, p, f)
<1>1. x.pc \in Authorizing \ {"code"} => l[x.c] \subseteq x.most
  BY DEF Knows, Follows, Authorizing
<1>2. x.pc \in {"validate", "code"} /\ ~trustedFirstPartyClient(x.c) =>
          /\ \E A \in v[x.sub][x.c] : x.scope \subseteq A
          /\ x.asked => x.confirmed
  BY DEF Knows, Follows, Authorizing
<1>3. /\ x.pc \in {"session", "back", "confirm", "logout"} => x.sid \in p \cup {None}
      /\ x.late => /\ x.pc \in {"session", "confirm", "logout", "clear"}
                   /\ x.pc \in {"session", "confirm"} => x.sid \in f
  BY DEF Knows, Follows
<1> QED BY <1>1, <1>2, <1>3 DEF Knows

\* What the invariant says of the request of a step.
LEMMA RequestFacts ==
    ASSUME ConsentInv, NEW r \in Request
    PROVE  /\ req[r] \in RequestRecord
           /\ Knows(req[r], scopes, approved, opened, ended)
           /\ req \in [Request -> RequestRecord]
BY DEF ConsentInv

\* A step of request r that leaves x behind.
LEMMA StepKeeps ==
    ASSUME ConsentInv, NEW r \in Request, NEW x \in RequestRecord,
           req' = [req EXCEPT ![r] = x], StoresOK',
           Knows(x, scopes', approved', opened', ended'),
           Follows(scopes', approved', opened', ended', scopes, approved, opened, ended)
    PROVE  ConsentInv'
<1>1. req' \in [Request -> RequestRecord]
  BY RequestFacts
<1>2. ASSUME NEW q \in Request PROVE Knows(req'[q], scopes', approved', opened', ended')
  <2>1. CASE q = r
    BY <2>1, RequestFacts
  <2>2. CASE q # r
    <3>1. req'[q] = req[q] /\ Knows(req[q], scopes, approved, opened, ended)
      BY <2>2, RequestFacts
    <3> QED BY <3>1, KnowsKept
  <2> QED BY <2>1, <2>2
<1> QED BY <1>1, <1>2 DEF ConsentInv

LEMMA NothingFollows == \A k, a, o, e : Follows(k, a, o, e, k, a, o, e)
BY DEF Follows

\* A step of request r that changes nothing else, save for the count of faults.
LEMMA QuietStep ==
    ASSUME ConsentInv, NEW r \in Request, NEW x \in RequestRecord,
           req' = [req EXCEPT ![r] = x], Knows(x, scopes, approved, opened, ended),
           UNCHANGED <<scopes, stores, browsers, faults, history>>
    PROVE  ConsentInv'
<1>1. StoresOK'
  BY DEF ConsentInv, StoresOK, StoreTypes, stores, browsers, history
<1>2. /\ Knows(x, scopes', approved', opened', ended')
      /\ Follows(scopes', approved', opened', ended', scopes, approved, opened, ended)
  BY ONLY Knows(x, scopes, approved, opened, ended), NothingFollows,
          UNCHANGED <<scopes, stores, browsers, faults, history>> DEF stores, history
<1> QED BY <1>1, <1>2, StepKeeps

LEMMA EndStep ==
    ASSUME ConsentInv, NEW r \in Request, End(r),
           UNCHANGED <<scopes, stores, browsers, faults, history>>
    PROVE  ConsentInv'
BY FreeKnows, QuietStep DEF End

LEMMA FaultType ==
    ASSUME ConsentInv
    PROVE  /\ faults \in 0 .. MaxFaults
           /\ Fault => faults' \in 0 .. MaxFaults
BY ConsentAssumption DEF ConsentInv, StoresOK, StoreTypes, Fault

\* The request of browser b with its cookie.
LEMMA ArriveFacts ==
    ASSUME ConsentInv, NEW b \in Browser, NEW pc \in Pc
    PROVE  LET x == Arrive(b, pc)
           IN  /\ x \in RequestRecord /\ x.pc = pc /\ x.b = b /\ x.sid = cookie[b]
               /\ x.sid \in opened \cup {None} /\ x.late = (cookie[b] \in ended)
<1> DEFINE late == cookie[b] \in ended
           y == [Free EXCEPT !.pc = pc, !.b = b, !.sid = cookie[b], !.late = late]
<1>1. cookie[b] \in Session \cup {None} /\ cookie[b] \in opened \cup {None}
  BY DEF ConsentInv, StoresOK, StoreTypes
<1>2. late \in BOOLEAN
  OBVIOUS
<1>3. Arrive(b, pc) = y
  BY DEF Arrive
<1> HIDE DEF late
<1>4. y \in RequestRecord /\ y.pc = pc /\ y.b = b /\ y.sid = cookie[b] /\ y.late = late
  BY <1>1, <1>2 DEF Free, RequestRecord
<1> HIDE DEF y
<1>5. y.late = (cookie[b] \in ended)
  BY <1>4 DEF late
<1> QED BY <1>1, <1>3, <1>4, <1>5

-----------------------------------------------------------------------------
(***************************************************************************)
(* Authorize.                                                               *)
(***************************************************************************)
LEMMA AuthorizeStep ==
    ASSUME ConsentInv, NEW r \in Request, NEW b \in Browser, NEW c \in Client,
           NEW S \in SUBSET Scope, NEW prompt \in BOOLEAN, Authorize(r, b, c, S, prompt)
    PROVE  ConsentInv'
<1> DEFINE y == Arrive(b, "session")
           most == scopes[c]
           x == [y EXCEPT !.c = c, !.scope = S, !.prompt = prompt, !.asked = prompt,
                          !.most = most]
<1>1. /\ y \in RequestRecord /\ y.pc = "session" /\ y.b = b
      /\ y.sid \in opened \cup {None} /\ y.late = (y.sid \in ended)
  BY ArriveFacts DEF Pc
<1>2. /\ req' = [req EXCEPT ![r] = x]
      /\ UNCHANGED <<scopes, stores, browsers, faults, history>>
  BY DEF Authorize
<1>3. most \in SUBSET Scope
  BY DEF ConsentInv, StoresOK, StoreTypes
<1> HIDE DEF y, most
<1>4. /\ x \in RequestRecord /\ x.pc = "session" /\ x.b = b /\ x.c = c
      /\ x.sid = y.sid /\ x.late = y.late /\ x.asked = prompt /\ x.prompt = prompt
      /\ x.most = most
  BY <1>1, <1>3 DEF RequestRecord
<1> HIDE DEF x
<1>5. Knows(x, scopes, approved, opened, ended)
  BY <1>1, <1>4 DEF Knows, Authorizing, most
<1> QED BY <1>2, <1>4, <1>5, QuietStep

\* A session that is read as signed in has not ended.
LEMMA SignedInFacts ==
    ASSUME ConsentInv, NEW s, SignedIn(s), s \in opened \cup {None}
    PROVE  s \in Session /\ session[s] \in User /\ s \notin ended
BY DEF ConsentInv, StoresOK, StoreTypes, SignedIn

LEMMA ReadSessionStep ==
    ASSUME ConsentInv, NEW r \in Request, ReadSession(r)
    PROVE  ConsentInv'
<1> DEFINE u == session[req[r].sid]
           x == [req[r] EXCEPT !.pc = "grant", !.sub = u, !.sid = None]
<1>1. /\ req[r].pc = "session" /\ SignedIn(req[r].sid)
      /\ UNCHANGED <<scopes, stores, browsers, faults, history>>
  BY DEF ReadSession
<1>2. req' = [req EXCEPT ![r].pc = "grant", ![r].sub = u, ![r].sid = None]
  BY DEF ReadSession
<1>3. req' = [req EXCEPT ![r] = x]
  BY <1>2, RequestFacts
<1>4. req[r].sid \in opened \cup {None} /\ (req[r].late => req[r].sid \in ended)
  BY <1>1, RequestFacts DEF Knows
<1>5. u \in User /\ req[r].late = FALSE
  BY <1>1, <1>4, SignedInFacts, RequestFacts DEF RequestRecord
<1> HIDE DEF u
<1>6. /\ x \in RequestRecord /\ x.pc = "grant" /\ x.sub = u /\ x.b = req[r].b /\ x.c = req[r].c
      /\ x.asked = req[r].asked /\ x.prompt = req[r].prompt /\ x.most = req[r].most
      /\ x.late = req[r].late
  BY ZenonT(90), <1>5, RequestFacts DEF RequestRecord, Pc
<1> HIDE DEF x
<1>7. Knows(x, scopes, approved, opened, ended)
  BY <1>1, <1>5, <1>6, RequestFacts DEF Knows, Authorizing
<1> QED BY <1>1, <1>3, <1>6, <1>7, QuietStep

\* The interaction that is stored keeps the prompt of the request.
LEMMA StoreInteractionStep ==
    ASSUME ConsentInv, NEW r \in Request, req[r].pc \in {"session", "grant"},
           faults' \in 0 .. MaxFaults, StoreInteraction(r)
    PROVE  ConsentInv'
<1> DEFINE p == Kept(r)
<1>1. PICK i \in Interaction : /\ page' = [page EXCEPT ![i] = p]
                               /\ shown' = [shown EXCEPT ![req[r].b] = @ \cup {i}]
  BY DEF StoreInteraction
<1>2. /\ req' = [req EXCEPT ![r] = Free]
      /\ UNCHANGED <<scopes, session, opened, consent, cookie, history>>
  BY DEF StoreInteraction, End
<1>3. /\ req[r].b \in Browser /\ req[r].c \in Client /\ (req[r].asked => req[r].prompt)
      /\ req[r].scope \in SUBSET Scope /\ req[r].prompt \in BOOLEAN /\ req[r].asked \in BOOLEAN
  BY RequestFacts DEF Knows, Authorizing, RequestRecord
<1>4. p \in PageRecord /\ (p.asked => p.prompt)
  BY <1>3 DEF Kept, PageRecord
<1> HIDE DEF p
<1>5. page' \in [Interaction -> PageRecord]
  BY <1>1, <1>4 DEF ConsentInv, StoresOK, StoreTypes
<1>6. shown' \in [Browser -> SUBSET Interaction]
  BY <1>1, <1>3 DEF ConsentInv, StoresOK, StoreTypes
<1>7. \A j \in Interaction : page'[j].asked => page'[j].prompt
  BY <1>1, <1>4 DEF ConsentInv, StoresOK, StoreTypes
<1>8. StoresOK'
  BY <1>2, <1>5, <1>6, <1>7 DEF ConsentInv, StoresOK, StoreTypes, history
<1>9. Follows(scopes', approved', opened', ended', scopes, approved, opened, ended)
  BY <1>2, NothingFollows DEF history
<1> QED BY <1>2, <1>8, <1>9, FreeKnows, StepKeeps

LEMMA LoginPageStep ==
    ASSUME ConsentInv, NEW r \in Request, LoginPage(r)
    PROVE  ConsentInv'
BY FaultType, StoreInteractionStep DEF LoginPage

LEMMA redirectToConsentStep ==
    ASSUME ConsentInv, NEW r \in Request, redirectToConsent(r)
    PROVE  ConsentInv'
BY FaultType, StoreInteractionStep DEF redirectToConsent

LEMMA canAutoGrantStep ==
    ASSUME ConsentInv, NEW r \in Request, canAutoGrantAuthorization(r)
    PROVE  ConsentInv'
<1> DEFINE x == [req[r] EXCEPT !.pc = "validate", !.b = None]
           u == req[r].sub
           c == req[r].c
<1>1. /\ req[r].pc = "grant" /\ AutoGrants(r)
      /\ UNCHANGED <<scopes, stores, browsers, faults, history>>
  BY DEF canAutoGrantAuthorization
<1>2. req' = [req EXCEPT ![r].pc = "validate", ![r].b = None]
  BY DEF canAutoGrantAuthorization
<1>3. req' = [req EXCEPT ![r] = x]
  BY <1>2, RequestFacts
<1>4. /\ u \in User /\ c \in Client /\ (req[r].asked => req[r].prompt)
      /\ scopes[c] \subseteq req[r].most /\ req[r].late = FALSE
  BY <1>1, RequestFacts DEF Knows, Authorizing, RequestRecord
<1>5. /\ x \in RequestRecord /\ x.pc = "validate" /\ x.sub = u /\ x.c = c
      /\ x.scope = req[r].scope /\ x.asked = req[r].asked /\ x.prompt = req[r].prompt
      /\ x.most = req[r].most /\ x.late = req[r].late
  BY ZenonT(90), RequestFacts DEF RequestRecord, Pc
<1> HIDE DEF x
<1>6. ASSUME ~trustedFirstPartyClient(c)
      PROVE  /\ \E A \in approved[u][c] : req[r].scope \subseteq A
             /\ req[r].asked => req[r].confirmed
  <2>1. /\ ~req[r].prompt /\ consent[u][c] # None
        /\ req[r].scope \subseteq consent[u][c]
    BY <1>1, <1>6 DEF AutoGrants, scopeSubset
  <2>2. consent[u][c] \in approved[u][c]
    BY <1>4, <2>1 DEF ConsentInv, StoresOK
  <2> QED BY <1>4, <2>1, <2>2
<1>7. ~trustedFirstPartyClient(x.c) => /\ \E A \in approved[x.sub][x.c] : x.scope \subseteq A
                                       /\ x.asked => x.confirmed
  <2> SUFFICES ASSUME ~trustedFirstPartyClient(x.c)
               PROVE  (\E A \in approved[x.sub][x.c] : x.scope \subseteq A) /\ ~x.asked
    OBVIOUS
  <2>1. ~req[r].prompt
    BY <1>1, <1>5 DEF AutoGrants
  <2> QED BY <1>4, <1>5, <1>6, <2>1
<1>8. Knows(x, scopes, approved, opened, ended)
  BY <1>4, <1>5, <1>7 DEF Knows, Authorizing
<1> QED BY <1>1, <1>3, <1>5, <1>8, QuietStep

-----------------------------------------------------------------------------
(***************************************************************************)
(* Signing in at an interaction.                                            *)
(***************************************************************************)
LEMMA FinishLoginStep ==
    ASSUME ConsentInv, NEW r \in Request, NEW b \in Browser, NEW i \in Interaction,
           NEW u \in User, FinishLogin(r, b, i, u)
    PROVE  ConsentInv'
<1>1. PICK s \in Session \ opened :
          /\ opened' = opened \cup {s}
          /\ session' = [session EXCEPT ![s] = u]
          /\ req' = [req EXCEPT ![r] = [Free EXCEPT !.pc = "back", !.b = b, !.sid = s, !.i = i]]
  BY DEF FinishLogin
<1>2. UNCHANGED <<scopes, page, consent, browsers, faults, history>>
  BY DEF FinishLogin
<1> DEFINE x == [Free EXCEPT !.pc = "back", !.b = b, !.sid = s, !.i = i]
<1>3. /\ x \in RequestRecord /\ x.pc = "back" /\ x.b = b /\ x.sid = s /\ x.i = i
      /\ x.late = FALSE
  BY DEF Free, RequestRecord, Pc
<1>4. req' = [req EXCEPT ![r] = x]
  BY <1>1
<1> HIDE DEF x
<1>5. s # None
  BY ConsentAssumption
<1>6. Knows(x, scopes', approved', opened', ended')
  BY <1>1, <1>3, <1>5 DEF Knows, Authorizing
<1>7. /\ session' \in [Session -> User \cup {None}] /\ opened' \subseteq Session
      /\ \A q \in ended : session'[q] = None /\ q \in opened'
      /\ \A q \in Session : session'[q] # None => q \in opened'
  BY <1>1 DEF ConsentInv, StoresOK, StoreTypes
<1>8. StoresOK'
  BY <1>1, <1>2, <1>7 DEF ConsentInv, StoresOK, StoreTypes, browsers, history
<1>9. Follows(scopes', approved', opened', ended', scopes, approved, opened, ended)
  BY <1>1, <1>2 DEF Follows, history
<1> QED BY <1>3, <1>4, <1>6, <1>8, <1>9, StepKeeps

LEMMA RedirectAfterLoginStep ==
    ASSUME ConsentInv, NEW r \in Request, RedirectAfterLogin(r)
    PROVE  ConsentInv'
<1> DEFINE p == page[req[r].i]
           b == req[r].b
           s == req[r].sid
           late == s \in ended
           most == scopes[p.c]
           x == [Free EXCEPT !.pc = "session", !.b = b, !.sid = s, !.c = p.c,
                             !.scope = p.scope, !.prompt = p.prompt, !.asked = p.asked,
                             !.late = late, !.most = most]
<1>1. /\ req[r].pc = "back" /\ cookie' = [cookie EXCEPT ![b] = s]
      /\ UNCHANGED <<scopes, stores, shown, faults, history>>
  BY DEF RedirectAfterLogin
<1>2. b \in Browser /\ s \in opened /\ req[r].i \in Interaction
  BY <1>1, RequestFacts DEF Knows
<1>3. p \in PageRecord /\ (p.asked => p.prompt) /\ s \in Session
  BY <1>2 DEF ConsentInv, StoresOK, StoreTypes
<1>4. /\ cookie' \in [Browser -> Session \cup {None}]
      /\ \A q \in Browser : cookie'[q] \in opened \cup {None}
  BY <1>1, <1>2, <1>3 DEF ConsentInv, StoresOK, StoreTypes
<1>5. StoresOK'
  BY <1>1, <1>4 DEF ConsentInv, StoresOK, StoreTypes, stores, history
<1>6. Follows(scopes', approved', opened', ended', scopes, approved, opened, ended)
  BY <1>1, NothingFollows DEF stores, history
<1>7. CASE End(r)
  BY <1>5, <1>6, <1>7, FreeKnows, StepKeeps DEF End
<1>8. CASE p.c # None /\ req' = [req EXCEPT ![r] = x]
  <2>1. p.c \in Client /\ most \in SUBSET Scope /\ late \in BOOLEAN
    BY <1>3, <1>8 DEF PageRecord, ConsentInv, StoresOK, StoreTypes
  <2>2. /\ p.scope \in SUBSET Scope /\ p.prompt \in BOOLEAN /\ p.asked \in BOOLEAN
    BY <1>3 DEF PageRecord
  <2> HIDE DEF p, b, s, late, most
  <2>3. /\ x \in RequestRecord /\ x.pc = "session" /\ x.b = b /\ x.sid = s /\ x.c = p.c
        /\ x.prompt = p.prompt /\ x.asked = p.asked /\ x.late = late /\ x.most = most
    BY ZenonT(90), <1>2, <1>3, <2>1, <2>2 DEF Free, RequestRecord, Pc
  <2> HIDE DEF x
  <2>4. x.late => x.sid \in ended
    BY <2>3 DEF late
  <2>5. most = scopes[x.c]
    BY <2>3 DEF most
  <2>6. Knows(x, scopes, approved, opened, ended)
    BY <1>2, <1>3, <2>1, <2>3, <2>4, <2>5 DEF Knows, Authorizing
  <2>7. Knows(x, scopes', approved', opened', ended')
    BY <1>1, <2>6 DEF stores, history
  <2> QED BY <1>5, <1>6, <1>8, <2>3, <2>7, StepKeeps
<1> QED BY <1>7, <1>8 DEF RedirectAfterLogin

-----------------------------------------------------------------------------
(***************************************************************************)
(* ConfirmConsent and the issue of the code.                                *)
(***************************************************************************)
LEMMA ConfirmStep ==
    ASSUME ConsentInv, NEW r \in Request, NEW b \in Browser, NEW i \in Interaction,
           Confirm(r, b, i)
    PROVE  ConsentInv'
<1> DEFINE y == Arrive(b, "confirm")
           x == [y EXCEPT !.i = i]
<1>1. /\ y \in RequestRecord /\ y.pc = "confirm" /\ y.b = b
      /\ y.sid \in opened \cup {None} /\ y.late = (y.sid \in ended)
  BY ArriveFacts DEF Pc
<1>2. /\ req' = [req EXCEPT ![r] = x]
      /\ UNCHANGED <<scopes, stores, browsers, faults, history>>
  BY DEF Confirm
<1> HIDE DEF y
<1>3. /\ x \in RequestRecord /\ x.pc = "confirm" /\ x.b = b /\ x.i = i
      /\ x.sid = y.sid /\ x.late = y.late
  BY <1>1 DEF RequestRecord
<1> HIDE DEF x
<1>4. Knows(x, scopes, approved, opened, ended)
  BY <1>1, <1>3 DEF Knows, Authorizing
<1> QED BY <1>2, <1>3, <1>4, QuietStep

LEMMA ConfirmReadsStep ==
    ASSUME ConsentInv, NEW r \in Request, ConfirmReads(r)
    PROVE  ConsentInv'
<1> DEFINE p == page[req[r].i]
           u == session[req[r].sid]
           most == scopes[p.c]
           x == [req[r] EXCEPT !.pc = "put", !.sub = u, !.b = None, !.sid = None, !.i = None,
                               !.c = p.c, !.scope = p.scope, !.prompt = p.prompt,
                               !.asked = p.asked, !.most = most]
<1>1. req[r].pc = "confirm" /\ UNCHANGED <<scopes, stores, browsers, faults, history>>
  BY DEF ConfirmReads
<1>2. /\ req[r].i \in Interaction /\ req[r].sid \in opened \cup {None}
      /\ req[r].late => req[r].sid \in ended
  BY <1>1, RequestFacts DEF Knows
<1>3. p \in PageRecord /\ (p.asked => p.prompt)
  BY <1>2 DEF ConsentInv, StoresOK, StoreTypes
<1>4. CASE End(r)
  BY <1>1, <1>4, EndStep
<1>5. CASE SignedIn(req[r].sid) /\ p.c # None /\ req' = [req EXCEPT ![r] = x]
  <2>1. u \in User /\ req[r].late = FALSE
    BY <1>2, <1>5, SignedInFacts, RequestFacts DEF RequestRecord
  <2>2. p.c \in Client /\ most \in SUBSET Scope
    BY <1>3, <1>5 DEF PageRecord, ConsentInv, StoresOK, StoreTypes
  <2>3. /\ p.scope \in SUBSET Scope /\ p.prompt \in BOOLEAN /\ p.asked \in BOOLEAN
    BY <1>3 DEF PageRecord
  <2> HIDE DEF p, u, most
  <2>4. /\ x \in RequestRecord /\ x.pc = "put" /\ x.sub = u /\ x.c = p.c
        /\ x.prompt = p.prompt /\ x.asked = p.asked /\ x.late = req[r].late /\ x.most = most
    BY ZenonT(90), <2>1, <2>2, <2>3, RequestFacts DEF RequestRecord, Pc
  <2> HIDE DEF x
  <2>5. most = scopes[x.c]
    BY <2>4 DEF most
  <2>6. Knows(x, scopes, approved, opened, ended)
    BY <1>3, <2>1, <2>2, <2>4, <2>5 DEF Knows, Authorizing
  <2> QED BY <1>1, <1>5, <2>4, <2>6, QuietStep
<1> QED BY <1>4, <1>5 DEF ConfirmReads

LEMMA PutConsentGrantStep ==
    ASSUME ConsentInv, NEW r \in Request, PutConsentGrant(r)
    PROVE  ConsentInv'
<1> DEFINE u == req[r].sub
           c == req[r].c
           S == req[r].scope
           x == [req[r] EXCEPT !.pc = "validate", !.confirmed = TRUE]
<1>1. /\ req[r].pc = "put"
      /\ consent' = [consent EXCEPT ![u][c] = S]
      /\ approved' = [approved EXCEPT ![u][c] = @ \cup {S}]
      /\ req' = [req EXCEPT ![r].pc = "validate", ![r].confirmed = TRUE]
      /\ UNCHANGED <<scopes, session, opened, page, browsers, faults, ended>>
  BY DEF PutConsentGrant
<1>2. /\ u \in User /\ c \in Client /\ S \in SUBSET Scope /\ (req[r].asked => req[r].prompt)
      /\ scopes[c] \subseteq req[r].most /\ req[r].late = FALSE
  BY <1>1, RequestFacts DEF Knows, Authorizing, RequestRecord
<1>3. req' = [req EXCEPT ![r] = x]
  BY <1>1, RequestFacts
<1>4. /\ x \in RequestRecord /\ x.pc = "validate" /\ x.sub = u /\ x.c = c /\ x.scope = S
      /\ x.confirmed = TRUE /\ x.asked = req[r].asked /\ x.prompt = req[r].prompt
      /\ x.most = req[r].most /\ x.late = req[r].late
  BY ZenonT(90), RequestFacts DEF RequestRecord, Pc
<1> HIDE DEF x, u, c, S
<1>5. \A v \in User : \A d \in Client :
          /\ consent'[v][d] = IF v = u /\ d = c THEN S ELSE consent[v][d]
          /\ approved'[v][d] = IF v = u /\ d = c THEN approved[v][d] \cup {S} ELSE approved[v][d]
  BY <1>1, <1>2 DEF ConsentInv, StoresOK, StoreTypes
<1>6. /\ consent' \in [User -> [Client -> (SUBSET Scope) \cup {None}]]
      /\ approved' \in [User -> [Client -> SUBSET (SUBSET Scope)]]
  BY <1>1, <1>2 DEF ConsentInv, StoresOK, StoreTypes
<1>7. \A v \in User : \A d \in Client :
          consent'[v][d] # None => consent'[v][d] \in approved'[v][d]
  BY ZenonT(90), <1>5 DEF ConsentInv, StoresOK
<1>8. StoresOK'
  BY <1>1, <1>6, <1>7 DEF ConsentInv, StoresOK, StoreTypes, browsers
<1>9. Follows(scopes', approved', opened', ended', scopes, approved, opened, ended)
  BY <1>1, <1>5 DEF Follows
<1>10. \E A \in approved'[u][c] : S \subseteq A
  BY <1>2, <1>5
<1>11. Knows(x, scopes', approved', opened', ended')
  BY <1>1, <1>2, <1>4, <1>10 DEF Knows, Authorizing
<1> QED BY <1>3, <1>4, <1>8, <1>9, <1>11, StepKeeps

LEMMA NewAuthorizeRequestStep ==
    ASSUME ConsentInv, NEW r \in Request, NewAuthorizeRequest(r)
    PROVE  ConsentInv'
<1> DEFINE x == [req[r] EXCEPT !.pc = "code"]
<1>1. req[r].pc = "validate" /\ UNCHANGED <<scopes, stores, browsers, faults, history>>
  BY DEF NewAuthorizeRequest
<1>2. CASE req[r].scope \subseteq scopes[req[r].c]
  <2>1. req' = [req EXCEPT ![r] = x]
    BY <1>2, RequestFacts DEF NewAuthorizeRequest, Goto, scopeSubset
  <2>2. /\ x \in RequestRecord /\ x.pc = "code" /\ x.sub = req[r].sub /\ x.c = req[r].c
        /\ x.scope = req[r].scope /\ x.confirmed = req[r].confirmed
        /\ x.asked = req[r].asked /\ x.prompt = req[r].prompt
        /\ x.most = req[r].most /\ x.late = req[r].late
    BY RequestFacts DEF RequestRecord, Pc
  <2> HIDE DEF x
  <2>3. Knows(x, scopes, approved, opened, ended)
    BY <1>1, <1>2, <2>2, RequestFacts DEF Knows, Authorizing
  <2> QED BY <1>1, <2>1, <2>2, <2>3, QuietStep
<1>3. CASE ~(req[r].scope \subseteq scopes[req[r].c])
  BY <1>1, <1>3, EndStep DEF NewAuthorizeRequest, scopeSubset
<1> QED BY <1>2, <1>3

-----------------------------------------------------------------------------
(***************************************************************************)
(* Logout, and the environment.                                             *)
(***************************************************************************)
LEMMA LogoutStep ==
    ASSUME ConsentInv, NEW r \in Request, NEW b \in Browser, Logout(r, b)
    PROVE  ConsentInv'
<1> DEFINE y == Arrive(b, "logout")
<1>1. /\ y \in RequestRecord /\ y.pc = "logout" /\ y.b = b /\ y.sid = cookie[b]
      /\ y.sid \in opened \cup {None}
  BY ArriveFacts DEF Pc
<1>2. /\ req' = [req EXCEPT ![r] = y] /\ cookie[b] # None
      /\ UNCHANGED <<scopes, stores, browsers, faults, history>>
  BY DEF Logout
<1> HIDE DEF y
<1>3. Knows(y, scopes, approved, opened, ended)
  BY <1>1, <1>2 DEF Knows, Authorizing
<1> QED BY <1>1, <1>2, <1>3, QuietStep

LEMMA LogoutSessionStep ==
    ASSUME ConsentInv, NEW r \in Request, LogoutSession(r)
    PROVE  ConsentInv'
<1> DEFINE s == req[r].sid
           x == [req[r] EXCEPT !.pc = "clear"]
<1>1. /\ req[r].pc = "logout" /\ Goto(r, "clear")
      /\ UNCHANGED <<scopes, opened, page, consent, browsers, approved>>
  BY DEF LogoutSession
<1>2. \/ session' = [session EXCEPT ![s] = None] /\ ended' = ended \cup {s}
      \/ UNCHANGED <<session, ended>>
  BY DEF LogoutSession
<1>3. faults' \in 0 .. MaxFaults
  BY FaultType DEF LogoutSession
<1>4. s \in opened /\ req[r].b \in Browser
  BY <1>1, RequestFacts DEF Knows
<1>5. /\ session' \in [Session -> User \cup {None}] /\ ended' \subseteq Session
      /\ \A q \in ended' : session'[q] = None /\ q \in opened
      /\ \A q \in Session : session'[q] # None => q \in opened
      /\ ended \subseteq ended'
  BY SMTT(60), <1>2, <1>4 DEF ConsentInv, StoresOK, StoreTypes
<1>6. StoresOK'
  BY <1>1, <1>3, <1>5 DEF ConsentInv, StoresOK, StoreTypes, browsers
<1>7. Follows(scopes', approved', opened', ended', scopes, approved, opened, ended)
  BY <1>1, <1>5 DEF Follows
<1>8. x \in RequestRecord /\ x.pc = "clear" /\ x.b = req[r].b
  BY RequestFacts DEF RequestRecord, Pc
<1>9. req' = [req EXCEPT ![r] = x]
  BY <1>1, RequestFacts DEF Goto
<1> HIDE DEF x
<1>10. Knows(x, scopes', approved', opened', ended')
  BY <1>4, <1>8 DEF Knows, Authorizing
<1> QED BY <1>6, <1>7, <1>8, <1>9, <1>10, StepKeeps

LEMMA ClearCookieStep ==
    ASSUME ConsentInv, NEW r \in Request, ClearCookie(r)
    PROVE  ConsentInv'
<1>1. /\ req[r].pc = "clear" /\ req' = [req EXCEPT ![r] = Free]
      /\ cookie' = [cookie EXCEPT ![req[r].b] = None] \/ UNCHANGED cookie
      /\ UNCHANGED <<scopes, stores, shown, history>>
  BY DEF ClearCookie, End
<1>2. faults' \in 0 .. MaxFaults
  BY FaultType DEF ClearCookie
<1>3. /\ cookie' \in [Browser -> Session \cup {None}]
      /\ \A b \in Browser : cookie'[b] \in opened \cup {None}
  BY <1>1 DEF ConsentInv, StoresOK, StoreTypes
<1>4. StoresOK'
  BY <1>1, <1>2, <1>3 DEF ConsentInv, StoresOK, StoreTypes, stores, history
<1>5. Follows(scopes', approved', opened', ended', scopes, approved, opened, ended)
  BY <1>1, NothingFollows DEF stores, history
<1> QED BY <1>1, <1>4, <1>5, FreeKnows, StepKeeps

\* A step that leaves the requests alone.
LEMMA StoreStep ==
    ASSUME ConsentInv, UNCHANGED req, StoresOK',
           Follows(scopes', approved', opened', ended', scopes, approved, opened, ended)
    PROVE  ConsentInv'
<1>1. ASSUME NEW q \in Request PROVE Knows(req'[q], scopes', approved', opened', ended')
  <2>1. req'[q] = req[q] /\ Knows(req[q], scopes, approved, opened, ended)
    BY RequestFacts
  <2> QED BY <2>1, KnowsKept
<1> QED BY <1>1 DEF ConsentInv

LEMMA ExpireSessionStep ==
    ASSUME ConsentInv, NEW s \in Session, ExpireSession(s)
    PROVE  ConsentInv'
<1>1. /\ session' = [session EXCEPT ![s] = None]
      /\ UNCHANGED <<scopes, opened, page, consent, browsers, req, faults, history>>
  BY DEF ExpireSession
<1>2. /\ session' \in [Session -> User \cup {None}]
      /\ \A q \in ended : session'[q] = None /\ q \in opened
      /\ \A q \in Session : session'[q] # None => q \in opened
  BY <1>1 DEF ConsentInv, StoresOK, StoreTypes
<1>3. StoresOK'
  BY <1>1, <1>2 DEF ConsentInv, StoresOK, StoreTypes, browsers, history
<1>4. Follows(scopes', approved', opened', ended', scopes, approved, opened, ended)
  BY <1>1, NothingFollows DEF history
<1> QED BY <1>1, <1>3, <1>4, StoreStep

LEMMA ExpireInteractionStep ==
    ASSUME ConsentInv, NEW i \in Interaction, ExpireInteraction(i)
    PROVE  ConsentInv'
<1>1. /\ page' = [page EXCEPT ![i] = NoPage]
      /\ shown' = [b \in Browser |-> shown[b] \ {i}]
      /\ UNCHANGED <<scopes, session, opened, consent, cookie, req, faults, history>>
  BY DEF ExpireInteraction
<1>2. NoPage \in PageRecord /\ NoPage.asked = FALSE
  BY DEF NoPage, PageRecord
<1>3. /\ page' \in [Interaction -> PageRecord]
      /\ \A j \in Interaction : page'[j].asked => page'[j].prompt
  BY <1>1, <1>2 DEF ConsentInv, StoresOK, StoreTypes
<1>4. shown' \in [Browser -> SUBSET Interaction]
  BY <1>1 DEF ConsentInv, StoresOK, StoreTypes
<1>5. StoresOK'
  BY <1>1, <1>3, <1>4 DEF ConsentInv, StoresOK, StoreTypes, history
<1>6. Follows(scopes', approved', opened', ended', scopes, approved, opened, ended)
  BY <1>1, NothingFollows DEF history
<1> QED BY <1>1, <1>5, <1>6, StoreStep

LEMMA NarrowClientStep ==
    ASSUME ConsentInv, NEW c \in Client, NEW S \in SUBSET Scope, NarrowClient(c, S)
    PROVE  ConsentInv'
<1>1. /\ S \subseteq scopes[c] /\ scopes' = [scopes EXCEPT ![c] = S]
      /\ UNCHANGED <<stores, browsers, req, faults, history>>
  BY DEF NarrowClient
<1>2. /\ scopes' \in [Client -> SUBSET Scope]
      /\ \A d \in Client : scopes'[d] \subseteq scopes[d]
  BY <1>1 DEF ConsentInv, StoresOK, StoreTypes
<1>3. StoresOK'
  BY <1>1, <1>2 DEF ConsentInv, StoresOK, StoreTypes, stores, browsers, history
<1>4. Follows(scopes', approved', opened', ended', scopes, approved, opened, ended)
  BY <1>1, <1>2 DEF Follows, stores, history
<1> QED BY <1>1, <1>3, <1>4, StoreStep

-----------------------------------------------------------------------------
(***************************************************************************)
(* The theorems.                                                            *)
(***************************************************************************)
LEMMA InitHolds == Init => ConsentInv
<1> SUFFICES ASSUME Init PROVE ConsentInv
  OBVIOUS
<1>1. NoPage \in PageRecord /\ NoPage.asked = FALSE
  BY DEF NoPage, PageRecord
<1>2. StoreTypes
  BY <1>1, ConsentAssumption DEF Init, StoreTypes
<1>3. StoresOK
  BY <1>1, <1>2 DEF Init, StoresOK
<1> QED BY <1>3, FreeKnows DEF Init, ConsentInv

LEMMA RequestStep ==
    ASSUME ConsentInv, NEW r \in Request, Step(r)
    PROVE  ConsentInv'
<1>1. CASE IssueCode(r)
  BY <1>1, EndStep DEF IssueCode
<1>2. CASE GiveUp(r)
  BY <1>2, EndStep DEF GiveUp
<1>3. ASSUME NEW b \in Browser, NEW c \in Client, NEW a \in Ask,
             Authorize(r, b, c, a.scope, a.prompt)
      PROVE  ConsentInv'
  <2>1. a.scope \in SUBSET Scope /\ a.prompt \in BOOLEAN
    BY ConsentAssumption
  <2> QED BY <1>3, <2>1, AuthorizeStep
<1> QED
  BY <1>1, <1>2, <1>3, FinishLoginStep, ConfirmStep, LogoutStep, ReadSessionStep,
     LoginPageStep, canAutoGrantStep, redirectToConsentStep, RedirectAfterLoginStep,
     ConfirmReadsStep, PutConsentGrantStep, NewAuthorizeRequestStep, LogoutSessionStep,
     ClearCookieStep DEF Step

LEMMA NextKeeps == ConsentInv /\ [Next]_vars => ConsentInv'
<1> SUFFICES ASSUME ConsentInv, [Next]_vars PROVE ConsentInv'
  OBVIOUS
<1>1. ASSUME NEW c \in Client, NEW a \in Ask, NarrowClient(c, a.scope)
      PROVE  ConsentInv'
  <2>1. a.scope \in SUBSET Scope
    BY ConsentAssumption
  <2> QED BY <1>1, <2>1, NarrowClientStep
<1>2. CASE UNCHANGED vars
  <2>1. StoresOK' /\ UNCHANGED <<req, scopes, approved, opened, ended>>
    BY <1>2 DEF vars, stores, browsers, history, ConsentInv, StoresOK, StoreTypes
  <2>2. Follows(scopes', approved', opened', ended', scopes, approved, opened, ended)
    BY <2>1, NothingFollows
  <2> QED BY <2>1, <2>2, StoreStep
<1> QED BY <1>1, <1>2, RequestStep, ExpireSessionStep, ExpireInteractionStep DEF Next

\* The invariant that carries the others.
THEOREM ConsentInvHolds == Spec => []ConsentInv
<1>1. Init => ConsentInv
  BY InitHolds
<1>2. ConsentInv /\ [Next]_vars => ConsentInv'
  BY NextKeeps
<1> QED BY <1>1, <1>2, PTL DEF Spec

\* Sessions, interactions, consents and the requests of Authorize, ConfirmConsent
\* and Logout stay in their types.
THEOREM ConsentTypeCorrect == Spec => []TypeOK
<1>1. ConsentInv => TypeOK
  <2> SUFFICES ASSUME ConsentInv PROVE TypeOK
    OBVIOUS
  <2>1. \A u \in User : \A c \in Client :
            /\ consent[u][c] = None \/ consent[u][c] \in SUBSET Scope
            /\ approved[u][c] \subseteq SUBSET Scope
    BY DEF ConsentInv, StoresOK, StoreTypes
  <2> QED BY <2>1 DEF ConsentInv, StoresOK, StoreTypes, PageRecord, RequestRecord, TypeOK
<1> QED BY <1>1, ConsentInvHolds, PTL

\* Whatever tabs confirm, replace and read, a code of a client outside the trusted
\* domains carries scopes its user has confirmed in one consent
\* (canAutoGrantAuthorization, ConfirmConsent).
THEOREM CodesAreApproved == Spec => []CodeApproved
<1>1. ConsentInv => CodeApproved
  BY DEF ConsentInv, Knows, CodeApproved, Issuing
<1> QED BY <1>1, ConsentInvHolds, PTL

\* A request with prompt=consent ends in a code through ConfirmConsent only, also
\* after the detour over the login page (RedirectAfterLogin).
THEOREM PromptsAreHonoured == Spec => []PromptHonoured
<1>1. ConsentInv => PromptHonoured
  BY DEF ConsentInv, Knows, PromptHonoured, Issuing
<1> QED BY <1>1, ConsentInvHolds, PTL

\* finishAuthorization checks the scopes of an old interaction against the client
\* as it is now, so that a code has no scope that was lost before the request.
THEOREM CodesStayWithinClient == Spec => []CodeWithinClient
<1>1. ConsentInv => CodeWithinClient
  BY DEF ConsentInv, Knows, CodeWithinClient, Issuing
<1> QED BY <1>1, ConsentInvHolds, PTL

\* No request that is sent with the cookie of a session that Logout has deleted
\* ends in a code.
THEOREM LogoutIsFinal == Spec => []LogoutEndsSession
<1>1. ConsentInv => LogoutEndsSession
  BY DEF ConsentInv, Knows, LogoutEndsSession, Issuing
<1> QED BY <1>1, ConsentInvHolds, PTL
=============================================================================
