--------------------------- MODULE TokenStoreProofs ---------------------------
(***************************************************************************)
(* Proofs about TokenStore, for any number of requests and families and any *)
(* lifetimes.  First the type invariant and that a one-time grant that has  *)
(* paid out is refused to every later request; then, from an invariant of   *)
(* the reverse index, what a revocation kills and how long a token lasts;   *)
(* then that a token lives once, and which overlaps take one out of the     *)
(* index; last, that the store implements OneTimeGrant.                     *)
(***************************************************************************)
EXTENDS TokenStore, TLAPS

\* Program points of a token request after the step that spends its grant.
Paid == Minting \cup {"oidcGet", "oidcDel", "done"}

RevokeKind == {"revokeA", "revokeR"}

\* Which handler a request at each program point is in.
Coherent ==
    \A r \in Req :
        /\ req[r].pc = "idle" => req[r].kind = "none" /\ ~req[r].late
        /\ req[r].pc # "idle" => req[r].fam \in Fam
        /\ req[r].kind \in RevokeKind \cup {"refresh"} => req[r].on \in Req
        /\ req[r].pc \in {"pkce", "pkceDel", "code2", "invGet", "invPut",
                          "oidcGet", "oidcDel", "replayed"} => req[r].kind = "redeem"
        /\ req[r].pc \in {"rt2", "rotate"} => req[r].kind = "refresh"
        /\ req[r].pc \in Minting => req[r].kind \in {"redeem", "refresh", "cc"}
        /\ req[r].pc \in {"list", "drop"} => req[r].kind \in RevokeKind \cup {"redeem"}
        /\ req[r].pc = "deny" => req[r].kind \in RevokeKind
        /\ req[r].late => req[r].kind \in {"redeem", "refresh"}

\* A paid redemption has left the code spent, so a later one meets it spent.
CodeSpent ==
    \A r \in Req : req[r].kind = "redeem" =>
        /\ req[r].pc \in Paid => code[req[r].fam] = "spent"
        /\ req[r].late => req[r].pc \in {"list", "drop", "replayed", "failed"}

\* A paid refresh has deleted the token it was made with, and the request that
\* minted that token is over, so the key is never written again.
RefreshSpent ==
    \A r \in Req : req[r].kind = "refresh" =>
        /\ req[req[r].on].pc = "done"
        /\ req[r].pc \in Paid => tok["refresh"][req[r].on] = 0
        /\ req[r].late => req[r].pc = "failed"

GrantInv == TypeOK /\ Coherent /\ CodeSpent /\ RefreshSpent

-----------------------------------------------------------------------------
(***************************************************************************)
(* What the two ways of updating a request do to each field.                *)
(***************************************************************************)
LEMMA GotoFacts ==
    ASSUME TypeOK, NEW r \in Req, NEW p \in PC, Goto(r, p)
    PROVE  /\ req' \in [Req -> Request]
           /\ \A q \in Req : /\ req'[q].kind = req[q].kind
                             /\ req'[q].fam = req[q].fam
                             /\ req'[q].on = req[q].on
                             /\ req'[q].late = req[q].late
                             /\ req'[q].pc = IF q = r THEN p ELSE req[q].pc
  <1>1. req' = [req EXCEPT ![r].pc = p] /\ req \in [Req -> Request]
    BY DEF Goto, TypeOK
  <1>2. req' \in [Req -> Request]
    BY <1>1 DEF Request
  <1>3. \A q \in Req : /\ req'[q].kind = req[q].kind
                       /\ req'[q].fam = req[q].fam
                       /\ req'[q].on = req[q].on
                       /\ req'[q].late = req[q].late
                       /\ req'[q].pc = IF q = r THEN p ELSE req[q].pc
    BY <1>1 DEF Request
  <1> QED
    BY <1>2, <1>3

LEMMA StopFacts ==
    ASSUME TypeOK, NEW r \in Req, Stop(r)
    PROVE  /\ req' \in [Req -> Request]
           /\ \A q \in Req : /\ req'[q].kind = req[q].kind
                             /\ req'[q].fam = req[q].fam
                             /\ req'[q].on = req[q].on
                             /\ req'[q].late = req[q].late
                             /\ req'[q].pc = IF q = r THEN "failed" ELSE req[q].pc
  <1> DEFINE ended == [req[r] EXCEPT !.pc = "failed", !.aexp = 0, !.rexp = 0,
                                     !.snap = {}, !.doomed = {}]
  <1>1. req' = [req EXCEPT ![r] = ended] /\ req \in [Req -> Request] /\ req[r] \in Request
    BY DEF Stop, TypeOK, Request
  <1>2. "failed" \in PC
    BY DEF PC, InFlight, Terminal
  <1>3. /\ ended \in Request
        /\ ended.kind = req[r].kind /\ ended.fam = req[r].fam /\ ended.on = req[r].on
        /\ ended.late = req[r].late /\ ended.pc = "failed"
    BY <1>1, <1>2 DEF Request
  <1> HIDE DEF ended
  <1> QED
    BY <1>1, <1>3

\* A request goes on to p, or ends for want of something.
Moves(r, p) == Goto(r, p) \/ (p = "failed" /\ Stop(r))

LEMMA MovesFacts ==
    ASSUME TypeOK, NEW r \in Req, NEW p \in PC, Moves(r, p)
    PROVE  /\ req' \in [Req -> Request]
           /\ \A q \in Req : /\ req'[q].kind = req[q].kind
                             /\ req'[q].fam = req[q].fam
                             /\ req'[q].on = req[q].on
                             /\ req'[q].late = req[q].late
                             /\ req'[q].pc = IF q = r THEN p ELSE req[q].pc
  BY GotoFacts, StopFacts DEF Moves

LEMMA EndedRequest ==
    ASSUME NEW q \in Request, NEW p \in PC, NEW e \in BOOLEAN
    PROVE  /\ [q EXCEPT !.pc = p, !.leg = 2, !.err = e, !.snap = {}] \in Request
           /\ [q EXCEPT !.pc = p, !.leg = 2, !.err = e, !.snap = {}].pc = p
  BY DEF Request

LEMMA EndLegFacts ==
    ASSUME TypeOK, NEW r \in Req, NEW e \in BOOLEAN, EndLeg(r, e)
    PROVE  /\ req' \in [Req -> Request]
           /\ \A q \in Req : /\ req'[q].kind = req[q].kind
                             /\ req'[q].fam = req[q].fam
                             /\ req'[q].on = req[q].on
                             /\ req'[q].late = req[q].late
                             /\ q # r => req'[q].pc = req[q].pc
           /\ req'[r].pc = IF req[r].leg = 1 THEN "list" ELSE AfterLegs(r, e)
           /\ req'[r].pc \in {"list", "replayed", "failed", "deny"}
  <1> DEFINE p == IF req[r].leg = 1 THEN "list" ELSE AfterLegs(r, e)
  <1>1. p \in {"list", "replayed", "failed", "deny"}
    BY DEF AfterLegs
  <1>2. p \in PC
    BY <1>1 DEF PC, InFlight, Terminal
  <1>3. req' = [req EXCEPT ![r].pc = p, ![r].leg = 2, ![r].err = e, ![r].snap = {}]
    BY DEF EndLeg
  <1> HIDE DEF p
  <1> DEFINE ended == [req[r] EXCEPT !.pc = p, !.leg = 2, !.err = e, !.snap = {}]
  <1>a. req[r] \in Request
    BY DEF TypeOK
  <1>b. ended \in Request /\ ended.pc = p
    BY <1>a, <1>2, EndedRequest
  <1>c. req' = [req EXCEPT ![r] = ended]
    BY <1>3 DEF TypeOK, Request
  <1> HIDE DEF ended
  <1>4. req' \in [Req -> Request] /\ req'[r].pc = p
    BY <1>b, <1>c DEF TypeOK
  <1>5. \A q \in Req : /\ req'[q].kind = req[q].kind
                       /\ req'[q].fam = req[q].fam
                       /\ req'[q].on = req[q].on
                       /\ req'[q].late = req[q].late
                       /\ q # r => req'[q].pc = req[q].pc
    BY <1>3 DEF TypeOK, Request
  <1> QED
    BY <1>1, <1>4, <1>5 DEF p

LEMMA BeginFacts ==
    ASSUME TypeOK, NEW kind \in {"redeem", "refresh", "cc", "revokeA", "revokeR"},
           NEW f \in Fam, NEW t \in Req \cup {None}, NEW p \in PC, NEW l \in BOOLEAN
    PROVE  /\ Begin(kind, f, t, p, l) \in Request
           /\ Begin(kind, f, t, p, l).kind = kind
           /\ Begin(kind, f, t, p, l).fam = f
           /\ Begin(kind, f, t, p, l).on = t
           /\ Begin(kind, f, t, p, l).pc = p
           /\ Begin(kind, f, t, p, l).late = l
  <1>1. now + AccessTTL \in Nat /\ now + RefreshTTL \in Nat
    BY TTLAssumption DEF TypeOK
  <1> QED
    BY <1>1 DEF Begin, Request

LEMMA DoomedFacts ==
    ASSUME NEW b \in Request, NEW d \in SUBSET Token
    PROVE  /\ [b EXCEPT !.doomed = d] \in Request
           /\ [b EXCEPT !.doomed = d].kind = b.kind
           /\ [b EXCEPT !.doomed = d].fam = b.fam
           /\ [b EXCEPT !.doomed = d].on = b.on
           /\ [b EXCEPT !.doomed = d].pc = b.pc
           /\ [b EXCEPT !.doomed = d].late = b.late
  BY DEF Request

\* A request that begins changes no other request.
LEMMA StartFacts ==
    ASSUME TypeOK, NEW r \in Req, NEW b \in Request, req' = [req EXCEPT ![r] = b]
    PROVE  /\ req' \in [Req -> Request]
           /\ req'[r] = b
           /\ \A q \in Req : q # r => req'[q] = req[q]
  BY DEF TypeOK

-----------------------------------------------------------------------------
LEMMA InitGrantInv == Init => GrantInv
  BY TTLAssumption, NameAssumption
     DEF Init, GrantInv, TypeOK, Coherent, CodeSpent, RefreshSpent, Idle, Request, PC,
         InFlight, Terminal, Minting, Paid, RevokeKind, Kind

(***************************************************************************)
(* Each action preserves the invariant.                                    *)
(***************************************************************************)

\* The steps that only move one request on, or that also touch state the
\* invariant says nothing of (PKCE, OpenID Connect, denied tokens).
LEMMA MoveKeepsGrantInv ==
    ASSUME GrantInv, NEW r \in Req, NEW p \in PC, Moves(r, p),
           UNCHANGED <<now, code, codeExp, tok, idx, overtaken, lost>>,
           pkce' \subseteq Fam, oidc' \subseteq Fam, denied' \subseteq Req,
           req[r].pc \notin {"idle", "done"},
           \/ p = "failed"
           \/ req[r].kind = "redeem" /\ ~req[r].late /\ p \in {"pkceDel", "code2", "invGet", "invPut"}
           \/ req[r].kind = "redeem" /\ req[r].pc \in Paid /\ p \in {"oidcDel", "done"}
           \/ req[r].kind = "refresh" /\ ~req[r].late /\ p = "rotate"
           \/ req[r].kind \in RevokeKind /\ p = "done"
    PROVE  GrantInv'
  <1>1. TypeOK'
    BY MovesFacts DEF GrantInv, TypeOK
  <1>2. Coherent'
    BY MovesFacts DEF GrantInv, Coherent, Minting, RevokeKind
  <1>3. CodeSpent'
    BY MovesFacts DEF GrantInv, CodeSpent, Coherent, Paid, Minting, RevokeKind
  <1>4. RefreshSpent'
    BY MovesFacts DEF GrantInv, RefreshSpent, Coherent, Paid, Minting, RevokeKind
  <1> QED
    BY <1>1, <1>2, <1>3, <1>4 DEF GrantInv

LEMMA NewAuthorizeResponseKeepsGrantInv ==
    ASSUME GrantInv, NEW f \in Fam, NewAuthorizeResponse(f)
    PROVE  GrantInv'
  <1>1. TypeOK'
    BY TTLAssumption DEF GrantInv, TypeOK, NewAuthorizeResponse
  <1>2. Coherent' /\ RefreshSpent'
    BY DEF GrantInv, Coherent, RefreshSpent, NewAuthorizeResponse
  <1>3. CodeSpent'
    BY DEF GrantInv, TypeOK, CodeSpent, NewAuthorizeResponse
  <1> QED
    BY <1>1, <1>2, <1>3 DEF GrantInv

LEMMA RedeemGetCodeKeepsGrantInv ==
    ASSUME GrantInv, NEW r \in Req, NEW f \in Fam, RedeemGetCode(r, f)
    PROVE  GrantInv'
  <1> DEFINE spentBefore == \E q \in Req : /\ req[q].kind = "redeem"
                                           /\ req[q].fam = f
                                           /\ req[q].pc = "done"
             start(pc) == Begin("redeem", f, None, pc, spentBefore)
             b == IF ~CodeLive(f) THEN start("failed")
                  ELSE IF code[f] = "fresh" THEN start("pkce")
                  ELSE [start("list") EXCEPT !.doomed = Revocable(f)]
  <1>1. req' = [req EXCEPT ![r] = b] /\ req[r].pc = "idle" /\ UNCHANGED <<now, stored, overtaken, lost>>
    BY DEF RedeemGetCode
  <1>2. TypeOK /\ spentBefore \in BOOLEAN /\ Revocable(f) \in SUBSET Token
    BY DEF GrantInv, Revocable
  <1>3. spentBefore => code[f] = "spent"
    BY DEF GrantInv, CodeSpent, Paid
  <1> HIDE DEF spentBefore
  <1>4. /\ b \in Request
        /\ b.kind = "redeem" /\ b.fam = f /\ b.late = spentBefore
        /\ b.pc = IF ~CodeLive(f) THEN "failed"
                  ELSE IF code[f] = "fresh" THEN "pkce" ELSE "list"
    <2>1. \A p \in {"failed", "pkce", "list"} : p \in PC
      BY DEF PC, InFlight, Terminal
    <2>2. \A p \in {"failed", "pkce", "list"} :
            /\ start(p) \in Request
            /\ start(p).kind = "redeem" /\ start(p).fam = f /\ start(p).late = spentBefore
            /\ start(p).pc = p
      BY <1>2, <2>1, BeginFacts
    <2> HIDE DEF start
    <2> QED
      BY <1>2, <2>2, DoomedFacts
  <1> HIDE DEF b
  <1>5. /\ req' \in [Req -> Request] /\ req'[r] = b
        /\ \A q \in Req : q # r => req'[q] = req[q]
    BY <1>1, <1>2, <1>4, StartFacts
  <1>6. TypeOK'
    BY <1>1, <1>2, <1>5 DEF TypeOK, stored
  <1>7. Coherent'
    BY <1>4, <1>5 DEF GrantInv, Coherent, Minting, RevokeKind
  <1>8. CodeSpent'
    BY <1>1, <1>3, <1>4, <1>5 DEF GrantInv, CodeSpent, Paid, Minting, stored
  <1>9. RefreshSpent'
    BY <1>1, <1>4, <1>5 DEF GrantInv, Coherent, RefreshSpent, stored
  <1> QED
    BY <1>6, <1>7, <1>8, <1>9 DEF GrantInv

LEMMA RefreshGetKeepsGrantInv ==
    ASSUME GrantInv, NEW r \in Req, NEW t \in Req, RefreshGet(r, t)
    PROVE  GrantInv'
  <1> DEFINE usedBefore == \E q \in Req : /\ req[q].kind = "refresh"
                                          /\ req[q].on = t
                                          /\ req[q].pc = "done"
             p == IF Live("refresh", t) THEN "rt2" ELSE "failed"
             b == Begin("refresh", req[t].fam, t, p, usedBefore)
  <1>1. /\ req' = [req EXCEPT ![r] = b] /\ req[r].pc = "idle" /\ req[t].pc = "done"
        /\ UNCHANGED <<now, stored, overtaken, lost>>
    BY DEF RefreshGet
  <1>2. TypeOK /\ usedBefore \in BOOLEAN /\ p \in PC /\ req[t].fam \in Fam
    BY <1>1 DEF GrantInv, Coherent, PC, InFlight, Terminal
  <1>3. usedBefore => p = "failed"
    <2>1. usedBefore => tok["refresh"][t] = 0
      BY DEF GrantInv, RefreshSpent, Paid
    <2> QED
      BY <1>2, <2>1 DEF Live, TypeOK
  <1>p. p \in {"rt2", "failed"}
    OBVIOUS
  <1> HIDE DEF usedBefore, p
  <1>4. /\ b \in Request
        /\ b.kind = "refresh" /\ b.fam = req[t].fam /\ b.on = t /\ b.late = usedBefore
        /\ b.pc = p
    BY <1>2, BeginFacts
  <1> HIDE DEF b
  <1>5. /\ req' \in [Req -> Request] /\ req'[r] = b
        /\ \A q \in Req : q # r => req'[q] = req[q]
    BY <1>1, <1>2, <1>4, StartFacts
  <1>6. TypeOK'
    BY <1>1, <1>2, <1>5 DEF TypeOK, stored
  <1>7. Coherent'
    BY <1>2, <1>4, <1>5, <1>p DEF GrantInv, Coherent, Minting, RevokeKind
  <1>8. CodeSpent'
    BY <1>1, <1>4, <1>5 DEF GrantInv, CodeSpent, stored
  <1>9. RefreshSpent'
    BY <1>1, <1>3, <1>4, <1>5, <1>p DEF GrantInv, Coherent, RefreshSpent, Paid, Minting,
       RevokeKind, stored
  <1> QED
    BY <1>6, <1>7, <1>8, <1>9 DEF GrantInv

LEMMA ClientCredentialsKeepsGrantInv ==
    ASSUME GrantInv, NEW r \in Req, NEW f \in Fam, ClientCredentials(r, f)
    PROVE  GrantInv'
  <1> DEFINE b == Begin("cc", f, None, "setaccess", FALSE)
  <1>1. /\ req' = [req EXCEPT ![r] = b] /\ req[r].pc = "idle"
        /\ UNCHANGED <<now, stored, overtaken, lost>>
    BY DEF ClientCredentials
  <1>2. TypeOK /\ "setaccess" \in PC
    BY DEF GrantInv, PC, InFlight, Minting
  <1>3. /\ b \in Request
        /\ b.kind = "cc" /\ b.fam = f /\ ~b.late /\ b.pc = "setaccess"
    <2>1. now + AccessTTL \in Nat /\ now + RefreshTTL \in Nat
      BY <1>2, TTLAssumption DEF TypeOK
    <2> QED
      BY <1>2, <2>1 DEF Begin, Request
  <1> HIDE DEF b
  <1>4. /\ req' \in [Req -> Request] /\ req'[r] = b
        /\ \A q \in Req : q # r => req'[q] = req[q]
    BY <1>1, <1>2, <1>3, StartFacts
  <1>5. TypeOK'
    BY <1>1, <1>2, <1>4 DEF TypeOK, stored
  <1>6. Coherent'
    BY <1>3, <1>4 DEF GrantInv, Coherent, Minting, RevokeKind
  <1>7. CodeSpent'
    BY <1>1, <1>3, <1>4 DEF GrantInv, CodeSpent, stored
  <1>8. RefreshSpent'
    BY <1>1, <1>3, <1>4 DEF GrantInv, Coherent, RefreshSpent, stored
  <1> QED
    BY <1>5, <1>6, <1>7, <1>8 DEF GrantInv

LEMMA InvalidatePutKeepsGrantInv ==
    ASSUME GrantInv, NEW r \in Req, InvalidatePut(r)
    PROVE  GrantInv'
  <1>1. /\ req[r].pc = "invPut" /\ code' = [code EXCEPT ![req[r].fam] = "spent"]
        /\ Goto(r, "setaccess")
        /\ UNCHANGED <<now, codeExp, pkce, oidc, tok, idx, denied, overtaken, lost>>
    BY DEF InvalidatePut
  <1>2. TypeOK /\ "setaccess" \in PC /\ req[r].fam \in Fam /\ req[r].kind = "redeem"
        /\ ~req[r].late
    BY <1>1 DEF GrantInv, Coherent, CodeSpent, PC, InFlight, Minting
  <1>3. TypeOK'
    BY <1>1, <1>2, GotoFacts DEF TypeOK
  <1>4. Coherent'
    BY <1>1, <1>2, GotoFacts DEF GrantInv, Coherent, Minting, RevokeKind
  <1>5. CodeSpent'
    BY <1>1, <1>2, GotoFacts DEF GrantInv, TypeOK, CodeSpent, Paid, Minting
  <1>6. RefreshSpent'
    BY <1>1, <1>2, GotoFacts DEF GrantInv, Coherent, RefreshSpent, RevokeKind
  <1> QED
    BY <1>3, <1>4, <1>5, <1>6 DEF GrantInv

LEMMA RotateKeepsGrantInv ==
    ASSUME GrantInv, NEW r \in Req, RotateRefreshToken(r)
    PROVE  GrantInv'
  <1>1. /\ req[r].pc = "rotate" /\ tok' = [tok EXCEPT !["refresh"][req[r].on] = 0]
        /\ Goto(r, "setaccess")
        /\ UNCHANGED <<now, code, codeExp, pkce, oidc, idx, denied, overtaken, lost>>
    BY DEF RotateRefreshToken
  <1>2. TypeOK /\ "setaccess" \in PC /\ req[r].on \in Req /\ req[r].kind = "refresh"
        /\ ~req[r].late
    BY <1>1 DEF GrantInv, Coherent, RefreshSpent, PC, InFlight, Minting
  <1>3. /\ tok' \in [Kind -> [Req -> Nat]]
        /\ tok'["refresh"][req[r].on] = 0
        /\ \A t \in Req : tok["refresh"][t] = 0 => tok'["refresh"][t] = 0
    BY <1>1, <1>2 DEF TypeOK, Kind
  <1>4. TypeOK'
    BY <1>1, <1>2, <1>3, GotoFacts DEF TypeOK
  <1>5. Coherent'
    BY <1>1, <1>2, GotoFacts DEF GrantInv, Coherent, Minting, RevokeKind
  <1>6. CodeSpent'
    BY <1>1, <1>2, GotoFacts DEF GrantInv, CodeSpent
  <1>7. RefreshSpent'
    BY <1>1, <1>2, <1>3, GotoFacts DEF GrantInv, Coherent, RefreshSpent, Paid, Minting, RevokeKind
  <1> QED
    BY <1>4, <1>5, <1>6, <1>7 DEF GrantInv

LEMMA PutKeepsGrantInv ==
    ASSUME GrantInv, NEW r \in Req, NEW k \in Kind, putPersisted(r, k)
    PROVE  GrantInv'
  <1>1. /\ req[r].pc = SetPC(k) /\ tok' = [tok EXCEPT ![k][r] = expiryFor(r, k)]
        /\ Goto(r, AddPC(k))
        /\ UNCHANGED <<now, code, codeExp, pkce, oidc, idx, denied, overtaken, lost>>
    BY DEF putPersisted
  <1>2. /\ TypeOK /\ AddPC(k) \in Minting /\ AddPC(k) \in PC /\ req[r].pc \in Minting
        /\ expiryFor(r, k) \in Nat
    BY <1>1 DEF GrantInv, TypeOK, Request, SetPC, AddPC, PC, InFlight, Minting, expiryFor
  <1>3. req[r].fam \in Fam /\ req[r].kind \in {"redeem", "refresh", "cc"} /\ ~req[r].late
    BY <1>2 DEF GrantInv, Coherent, CodeSpent, RefreshSpent, Minting
  <1>4. /\ tok' \in [Kind -> [Req -> Nat]]
        /\ \A t \in Req : t # r => tok'["refresh"][t] = tok["refresh"][t]
    BY <1>1, <1>2 DEF TypeOK, Kind
  <1> HIDE DEF AddPC
  <1>5. TypeOK'
    BY <1>1, <1>2, <1>4, GotoFacts DEF TypeOK
  <1>6. Coherent'
    BY <1>1, <1>2, <1>3, GotoFacts DEF GrantInv, Coherent, Minting, RevokeKind
  <1>7. CodeSpent'
    BY <1>1, <1>2, <1>3, GotoFacts DEF GrantInv, CodeSpent, Paid, Minting
  <1>8. RefreshSpent'
    BY <1>1, <1>2, <1>3, <1>4, GotoFacts DEF GrantInv, Coherent, RefreshSpent, Paid, Minting,
       RevokeKind
  <1> QED
    BY <1>5, <1>6, <1>7, <1>8 DEF GrantInv

LEMMA SAddKeepsGrantInv ==
    ASSUME GrantInv, NEW r \in Req, NEW k \in Kind, SAddIndex(r, k)
    PROVE  GrantInv'
  <1> DEFINE f == req[r].fam
             exp == ttlFor(expiryFor(r, k))
             members == Members(k, f) \cup {r}
  <1>1. /\ req[r].pc = AddPC(k)
        /\ idx' = [idx EXCEPT ![k][f] = [members |-> members, exp |-> exp]]
        /\ overtaken' = overtaken \cup ({k} \X {t \in members : tok[k][t] > exp})
        /\ Goto(r, AfterAdd(r, k))
        /\ UNCHANGED <<now, code, codeExp, pkce, oidc, tok, denied, lost>>
    BY DEF SAddIndex, AddToIndex
  <1>2. TypeOK /\ req[r].pc \in Minting /\ expiryFor(r, k) \in Nat
    BY <1>1 DEF GrantInv, TypeOK, Request, AddPC, Minting, expiryFor
  <1>3. f \in Fam /\ req[r].kind \in {"redeem", "refresh", "cc"} /\ ~req[r].late
    BY <1>2 DEF GrantInv, Coherent, CodeSpent, RefreshSpent, Minting
  <1>4. /\ AfterAdd(r, k) \in {"done", "setrefresh", "oidcGet"}
        /\ AfterAdd(r, k) = "oidcGet" => req[r].kind = "redeem"
    BY <1>3 DEF AfterAdd
  <1>5. AfterAdd(r, k) \in PC /\ AfterAdd(r, k) \in Paid
    BY <1>4 DEF PC, InFlight, Paid, Minting, Terminal
  <1>6. exp \in Nat /\ members \subseteq Req
    BY <1>2, <1>3 DEF ttlFor, Members, TypeOK
  <1> HIDE DEF exp, members
  <1>7. idx' \in [Kind -> [Fam -> [members : SUBSET Req, exp : Nat]]]
    BY <1>1, <1>2, <1>6 DEF TypeOK
  <1>8. overtaken' \subseteq Token /\ lost' \subseteq Token
    BY <1>1, <1>2, <1>6 DEF TypeOK, Token
  <1>9. TypeOK'
    BY <1>1, <1>2, <1>5, <1>7, <1>8, GotoFacts DEF TypeOK
  <1>10. Coherent'
    BY <1>1, <1>2, <1>3, <1>4, <1>5, GotoFacts DEF GrantInv, Coherent, Minting, RevokeKind
  <1>11. CodeSpent'
    BY <1>1, <1>2, <1>3, <1>5, GotoFacts DEF GrantInv, CodeSpent, Paid, Minting
  <1>12. RefreshSpent'
    BY <1>1, <1>2, <1>3, <1>5, GotoFacts DEF GrantInv, Coherent, RefreshSpent, Paid, Minting,
       RevokeKind
  <1> QED
    BY <1>9, <1>10, <1>11, <1>12 DEF GrantInv

LEMMA RevokeLookupKeepsGrantInv ==
    ASSUME GrantInv, NEW r \in Req, NEW k \in Kind, NEW t \in Req, RevokeLookup(r, k, t)
    PROVE  GrantInv'
  <1> DEFINE kind == IF k = "access" THEN "revokeA" ELSE "revokeR"
             start(pc) == Begin(kind, req[t].fam, t, pc, FALSE)
             b == IF Live(k, t)
                  THEN [start("list") EXCEPT !.doomed = Revocable(req[t].fam)]
                  ELSE start("deny")
  <1>1. /\ req' = [req EXCEPT ![r] = b] /\ req[r].pc = "idle" /\ req[t].pc = "done"
        /\ UNCHANGED <<now, stored, overtaken, lost>>
    BY DEF RevokeLookup
  <1>2. TypeOK /\ req[t].fam \in Fam /\ Revocable(req[t].fam) \in SUBSET Token
    BY <1>1 DEF GrantInv, Coherent, Revocable
  <1>3. kind \in RevokeKind
    BY DEF RevokeKind
  <1>4. /\ b \in Request
        /\ b.kind = kind /\ b.fam = req[t].fam /\ b.on = t /\ ~b.late
        /\ b.pc \in {"list", "deny"}
    <2>1. now + AccessTTL \in Nat /\ now + RefreshTTL \in Nat
      BY <1>2, TTLAssumption DEF TypeOK
    <2>2. \A p \in {"list", "deny"} : p \in PC
      BY DEF PC, InFlight
    <2> HIDE DEF kind
    <2>3. \A p \in {"list", "deny"} :
            /\ start(p) \in Request
            /\ start(p).kind = kind /\ start(p).fam = req[t].fam /\ start(p).on = t
            /\ ~start(p).late /\ start(p).pc = p
      BY <1>2, <1>3, <2>1, <2>2 DEF Begin, Request, RevokeKind
    <2> HIDE DEF start
    <2> QED
      BY <1>2, <2>3, DoomedFacts
  <1> HIDE DEF b, kind
  <1>5. /\ req' \in [Req -> Request] /\ req'[r] = b
        /\ \A q \in Req : q # r => req'[q] = req[q]
    BY <1>1, <1>2, <1>4, StartFacts
  <1>6. TypeOK'
    BY <1>1, <1>2, <1>5 DEF TypeOK, stored
  <1>7. Coherent'
    BY <1>2, <1>3, <1>4, <1>5 DEF GrantInv, Coherent, Minting, RevokeKind
  <1>8. CodeSpent'
    BY <1>1, <1>3, <1>4, <1>5 DEF GrantInv, CodeSpent, RevokeKind, stored
  <1>9. RefreshSpent'
    BY <1>1, <1>3, <1>4, <1>5 DEF GrantInv, Coherent, RefreshSpent, RevokeKind, stored
  <1> QED
    BY <1>6, <1>7, <1>8, <1>9 DEF GrantInv

\* The end of a leg, whatever it did to the index and to the tokens it deleted.
LEMMA EndLegKeepsGrantInv ==
    ASSUME GrantInv, NEW r \in Req, NEW e \in BOOLEAN, EndLeg(r, e),
           req[r].pc \in {"list", "drop"},
           UNCHANGED <<now, code, codeExp, pkce, oidc, denied>>,
           tok' \in [Kind -> [Req -> Nat]],
           \A t \in Req : tok["refresh"][t] = 0 => tok'["refresh"][t] = 0,
           idx' \in [Kind -> [Fam -> [members : SUBSET Req, exp : Nat]]],
           overtaken' = overtaken, lost' \subseteq Token
    PROVE  GrantInv'
  <1>1. TypeOK /\ req[r].fam \in Fam /\ req[r].kind \in RevokeKind \cup {"redeem"}
    BY DEF GrantInv, Coherent
  <1>2. /\ req'[r].pc \in {"list", "replayed", "failed", "deny"}
        /\ req'[r].pc = "replayed" => req[r].kind = "redeem"
        /\ req'[r].pc = "deny" => req[r].kind \in RevokeKind
    BY <1>1, EndLegFacts DEF AfterLegs
  <1>3. TypeOK'
    BY <1>1, EndLegFacts DEF TypeOK
  <1>4. Coherent'
    BY <1>1, <1>2, EndLegFacts DEF GrantInv, Coherent, Minting, RevokeKind
  <1>5. CodeSpent'
    <2>1. req[r].kind = "redeem" => req'[r].pc \in {"list", "replayed", "failed"}
      BY <1>2 DEF RevokeKind
    <2> QED
      BY <1>1, <1>2, <2>1, EndLegFacts DEF GrantInv, CodeSpent, Paid, Minting
  <1>6. RefreshSpent'
    <2>1. req[r].kind # "refresh" /\ req[r].pc # "done"
      BY <1>1 DEF RevokeKind
    <2> SUFFICES ASSUME NEW q \in Req, req'[q].kind = "refresh"
                 PROVE  /\ req'[req'[q].on].pc = "done"
                        /\ req'[q].pc \in Paid => tok'["refresh"][req'[q].on] = 0
                        /\ req'[q].late => req'[q].pc = "failed"
      BY DEF RefreshSpent
    <2>2. q # r /\ req'[q].on = req[q].on /\ req'[q].pc = req[q].pc
          /\ req'[q].late = req[q].late /\ req[q].kind = "refresh"
      BY <1>1, <2>1, EndLegFacts
    <2>3. req[q].on \in Req /\ req[req[q].on].pc = "done"
      BY <2>2 DEF GrantInv, Coherent, RefreshSpent
    <2> QED
      BY <1>1, <2>1, <2>2, <2>3, EndLegFacts DEF GrantInv, RefreshSpent
  <1> QED
    BY <1>3, <1>4, <1>5, <1>6 DEF GrantInv

LEMMA RevokeListKeepsGrantInv ==
    ASSUME GrantInv, NEW r \in Req, RevokeList(r)
    PROVE  GrantInv'
  <1> DEFINE snap == Members(LegKind(r), req[r].fam)
  <1>1. /\ req[r].pc = "list" /\ req' = [req EXCEPT ![r].pc = "drop", ![r].snap = snap]
        /\ UNCHANGED <<now, stored, overtaken, lost>>
    BY DEF RevokeList
  <1>2. TypeOK /\ req[r].fam \in Fam /\ LegKind(r) \in Kind /\ "drop" \in PC
    BY <1>1 DEF GrantInv, Coherent, LegKind, Kind, PC, InFlight
  <1>3. snap \in SUBSET Req
    BY <1>2 DEF TypeOK, Members
  <1> HIDE DEF snap
  <1> DEFINE listed == [req[r] EXCEPT !.pc = "drop", !.snap = snap]
  <1>a. req[r] \in Request
    BY <1>2 DEF TypeOK
  <1>b. listed \in Request
    BY <1>2, <1>3, <1>a DEF Request
  <1>c. req' = [req EXCEPT ![r] = listed]
    BY <1>1, <1>2 DEF TypeOK, Request
  <1> HIDE DEF listed
  <1>4. req' \in [Req -> Request]
    BY <1>2, <1>b, <1>c DEF TypeOK
  <1>d. req[r].pc = "list" /\ UNCHANGED <<code, tok>>
    BY <1>1 DEF stored
  <1>5. \A q \in Req : /\ req'[q].kind = req[q].kind
                       /\ req'[q].fam = req[q].fam
                       /\ req'[q].on = req[q].on
                       /\ req'[q].late = req[q].late
                       /\ req'[q].pc = IF q = r THEN "drop" ELSE req[q].pc
    BY <1>1, <1>2 DEF TypeOK, Request
  <1>6. TypeOK'
    BY <1>1, <1>2, <1>4 DEF TypeOK, stored
  <1>7. Coherent'
    BY <1>5, <1>d DEF GrantInv, Coherent, Minting, RevokeKind
  <1>8. CodeSpent'
    BY <1>5, <1>d DEF GrantInv, CodeSpent, Paid, Minting
  <1>9. RefreshSpent'
    BY <1>5, <1>d DEF GrantInv, Coherent, RefreshSpent, Paid, Minting, RevokeKind
  <1> QED
    BY <1>6, <1>7, <1>8, <1>9 DEF GrantInv

LEMMA RevokeDropKeepsGrantInv ==
    ASSUME GrantInv, NEW r \in Req, RevokeDrop(r)
    PROVE  GrantInv'
  <1> DEFINE k == LegKind(r)
             f == req[r].fam
  <1>1. /\ req[r].pc = "drop"
        /\ tok' = [tok EXCEPT ![k] =
                     [t \in Req |-> IF t \in req[r].snap THEN 0 ELSE tok[k][t]]]
        /\ idx' = [idx EXCEPT ![k][f] = [members |-> {}, exp |-> 0]]
        /\ lost' = lost \cup ({k} \X (Members(k, f) \ req[r].snap))
        /\ EndLeg(r, req[r].err)
        /\ UNCHANGED <<now, code, codeExp, pkce, oidc, denied, overtaken>>
    BY DEF RevokeDrop
  <1>2. TypeOK /\ f \in Fam /\ k \in Kind /\ req[r].err \in BOOLEAN
    BY <1>1 DEF GrantInv, TypeOK, Request, Coherent, LegKind, Kind
  <1> HIDE DEF k
  <1>3. /\ tok' \in [Kind -> [Req -> Nat]]
        /\ \A t \in Req : tok["refresh"][t] = 0 => tok'["refresh"][t] = 0
    BY <1>1, <1>2 DEF TypeOK, Kind
  <1>4. idx' \in [Kind -> [Fam -> [members : SUBSET Req, exp : Nat]]]
    BY <1>1, <1>2 DEF TypeOK
  <1>5. lost' \subseteq Token
    BY <1>1, <1>2 DEF TypeOK, Token, Members
  <1> QED
    BY <1>1, <1>2, <1>3, <1>4, <1>5, EndLegKeepsGrantInv

LEMMA NextGrantInv == GrantInv /\ [Next]_vars => GrantInv'
  <1> SUFFICES ASSUME GrantInv, [Next]_vars PROVE GrantInv'
    OBVIOUS
  <1>t. TypeOK
    BY DEF GrantInv
  <1>1. ASSUME NEW f \in Fam, NewAuthorizeResponse(f) PROVE GrantInv'
    BY <1>1, NewAuthorizeResponseKeepsGrantInv
  <1>2. ASSUME NEW r \in Req, Redeem(r) PROVE GrantInv'
    <2>p. {"failed", "pkceDel", "code2", "invGet", "invPut", "oidcDel", "done"} \subseteq PC
      BY DEF PC, InFlight, Terminal
    <2>1. CASE \E f \in Fam : RedeemGetCode(r, f)
      BY <2>1, RedeemGetCodeKeepsGrantInv
    <2>2. CASE GetPKCERequestSession(r)
      BY <1>t, <2>p, <2>2, MoveKeepsGrantInv
         DEF GetPKCERequestSession, GotoIf, Moves, GrantInv, Coherent, CodeSpent, stored, TypeOK
    <2>3. CASE DeletePKCERequestSession(r)
      BY <1>t, <2>p, <2>3, MoveKeepsGrantInv
         DEF DeletePKCERequestSession, GotoIf, Moves, GrantInv, Coherent, CodeSpent, TypeOK
    <2>4. CASE RedeemGetCodeAgain(r)
      BY <1>t, <2>p, <2>4, MoveKeepsGrantInv
         DEF RedeemGetCodeAgain, GotoIf, Moves, GrantInv, Coherent, CodeSpent, stored, TypeOK
    <2>5. CASE InvalidateGet(r)
      BY <1>t, <2>p, <2>5, MoveKeepsGrantInv
         DEF InvalidateGet, GotoIf, Moves, GrantInv, Coherent, CodeSpent, stored, TypeOK
    <2>6. CASE InvalidatePut(r)
      BY <2>6, InvalidatePutKeepsGrantInv
    <2>7. CASE GetOpenIDConnectSession(r)
      BY <1>t, <2>p, <2>7, MoveKeepsGrantInv
         DEF GetOpenIDConnectSession, Moves, GrantInv, Coherent, Paid, stored, TypeOK
    <2>8. CASE DeleteOpenIDConnectSession(r)
      BY <1>t, <2>p, <2>8, MoveKeepsGrantInv
         DEF DeleteOpenIDConnectSession, Moves, GrantInv, Coherent, Paid, TypeOK
    <2> QED
      BY <1>2, <2>1, <2>2, <2>3, <2>4, <2>5, <2>6, <2>7, <2>8 DEF Redeem
  <1>3. ASSUME NEW r \in Req, Refresh(r) PROVE GrantInv'
    <2>p. {"failed", "rotate"} \subseteq PC
      BY DEF PC, InFlight, Terminal
    <2>1. CASE \E t \in Req : RefreshGet(r, t)
      BY <2>1, RefreshGetKeepsGrantInv
    <2>2. CASE RefreshGetAgain(r)
      BY <1>t, <2>p, <2>2, MoveKeepsGrantInv
         DEF RefreshGetAgain, GotoIf, Moves, GrantInv, Coherent, RefreshSpent, stored, TypeOK
    <2>3. CASE RotateRefreshToken(r)
      BY <2>3, RotateKeepsGrantInv
    <2> QED
      BY <1>3, <2>1, <2>2, <2>3 DEF Refresh
  <1>4. ASSUME NEW r \in Req, NEW f \in Fam, ClientCredentials(r, f) PROVE GrantInv'
    BY <1>4, ClientCredentialsKeepsGrantInv
  <1>5. ASSUME NEW r \in Req, Put(r) PROVE GrantInv'
    BY <1>5, PutKeepsGrantInv, SAddKeepsGrantInv DEF Put
  <1>6. ASSUME NEW r \in Req, Revoke(r) PROVE GrantInv'
    <2>1. CASE \E k \in Kind, t \in Req : RevokeLookup(r, k, t)
      BY <2>1, RevokeLookupKeepsGrantInv
    <2>2. CASE RevokeList(r)
      BY <2>2, RevokeListKeepsGrantInv
    <2>3. CASE RevokeDrop(r)
      BY <2>3, RevokeDropKeepsGrantInv
    <2>4. CASE RevokeLegError(r)
      BY <1>t, <2>4, EndLegKeepsGrantInv DEF RevokeLegError, TypeOK, stored
    <2>5. CASE DenyJTI(r)
      <3>1. "done" \in PC /\ req[r].kind \in RevokeKind
        BY <2>5 DEF PC, InFlight, Terminal, DenyJTI, GrantInv, Coherent
      <3>2. denied' \subseteq Req
        BY <1>t, <2>5, <3>1 DEF DenyJTI, TypeOK, GrantInv, Coherent
      <3> QED
        BY <1>t, <2>5, <3>1, <3>2, MoveKeepsGrantInv DEF DenyJTI, Moves, TypeOK
    <2> QED
      BY <1>6, <2>1, <2>2, <2>3, <2>4, <2>5 DEF Revoke
  <1>7. ASSUME NEW r \in Req, Fail(r) PROVE GrantInv'
    <2>1. "failed" \in PC
      BY DEF PC, InFlight, Terminal
    <2> QED
      BY <1>t, <1>7, <2>1, MoveKeepsGrantInv DEF Fail, Moves, Terminal, TypeOK, stored
  <1>8. CASE Tick
    <2>1. UNCHANGED <<stored, req, overtaken>> /\ now' = now + 1 /\ lost' \subseteq lost \cup Token
      BY <1>8 DEF Tick
    <2>2. lost' \subseteq Token
      BY <1>t, <2>1 DEF TypeOK
    <2> QED
      BY <1>t, <2>1, <2>2 DEF GrantInv, TypeOK, Coherent, CodeSpent, RefreshSpent, stored
  <1>9. CASE UNCHANGED vars
    BY <1>t, <1>9 DEF vars, GrantInv, TypeOK, Coherent, CodeSpent, RefreshSpent
  <1> QED
    BY <1>1, <1>2, <1>3, <1>4, <1>5, <1>6, <1>7, <1>8, <1>9 DEF Next

-----------------------------------------------------------------------------
\* The inductive invariant holds in every reachable state.
THEOREM GrantInvInvariant == Spec => []GrantInv
  BY InitGrantInv, NextGrantInv, PTL DEF Spec

\* Type correctness of the store, the index and the requests.
THEOREM TypeCorrect == Spec => []TypeOK
  <1>1. GrantInv => TypeOK
    BY DEF GrantInv
  <1> QED
    BY <1>1, GrantInvInvariant, PTL

\* A token request that begins after the same code or refresh token has paid
\* out is never answered with tokens.
THEOREM SpentGrantsStaySpent == Spec => []SpentGrantRejected
  <1>1. GrantInv => SpentGrantRejected
    BY DEF GrantInv, Coherent, CodeSpent, RefreshSpent, SpentGrantRejected
  <1> QED
    BY <1>1, GrantInvInvariant, PTL
-----------------------------------------------------------------------------
(***************************************************************************)
(* The reverse index: what it lists, what a revocation finds by it, and     *)
(* what becomes of a token that a client was given.                         *)
(***************************************************************************)
Mint == {"redeem", "refresh", "cc"}
RevokePC == {"list", "drop", "replayed", "failed"}

\* Program points after the key of kind k is set, and after it is in the index.
HasPC(k) == IF k = "access"
            THEN {"addaccess", "setrefresh", "addrefresh", "oidcGet", "oidcDel", "done"}
            ELSE {"addrefresh", "oidcGet", "oidcDel", "done"}
AddedPC(k) == (HasPC(k) \ {AddPC(k)}) \cup {"failed"}

\* Request t has written its key of kind k and never does so again.
Over(k, t) == req[t].kind \in Mint /\ req[t].pc \in AddedPC(k)

\* The index lists tokens of its family, and lives as long as they do unless
\* another request has overtaken them.
IndexOK ==
    \A k \in Kind : \A f \in Fam : \A t \in idx[k][f].members :
        /\ Over(k, t) /\ req[t].fam = f
        /\ tok[k][t] <= idx[k][f].exp \/ <<k, t>> \in overtaken

SnapOK(q) ==
    req[q].pc = "drop" =>
        \A t \in req[q].snap : Over(LegKind(q), t) /\ req[t].fam = req[q].fam

LegOK(q) ==
    /\ req[q].leg = 2 =>
          /\ req[q].kind \in RevokeKind \cup {"redeem"}
          /\ req[q].kind = "redeem" => req[q].pc \in RevokePC
    /\ req[q].kind \in RevokeKind /\ req[q].pc \in {"deny", "done"} => ~req[q].err

\* The leg of revocation q that deletes the tokens of kind k is yet to come.
Ahead(q, k) == req[q].pc \in {"list", "drop"} /\ (req[q].leg = 1 \/ LegKind(q) = k)

\* What a revocation without an error has to kill is dead for good, or was lost,
\* or is still listed.
Gone(k, t) == Over(k, t) /\ tok[k][t] <= now
DoomOK(q) ==
    ~req[q].err => \A x \in req[q].doomed :
        \/ Gone(x[1], x[2])
        \/ x \in lost
        \/ Ahead(q, x[1]) /\ x[2] \in Members(x[1], req[q].fam)

\* The key of a token is as its request has left it, or the token was removed.
KeptOK(r) ==
    /\ req[r].kind \in Mint /\ req[r].pc \in HasPC("access") =>
          tok["access"][r] = req[r].aexp \/ Removed("access", r)
    /\ /\ req[r].kind \in {"redeem", "refresh"} /\ req[r].fam \in Offline
       /\ req[r].pc \in HasPC("refresh")
       => tok["refresh"][r] = req[r].rexp \/ Removed("refresh", r)

StoreInv ==
    /\ IndexOK
    /\ \A q \in Req : SnapOK(q) /\ LegOK(q) /\ DoomOK(q) /\ KeptOK(q)

-----------------------------------------------------------------------------
\* What a step may do to the request it is a step of: one that begins was idle,
\* and one that goes on keeps its kind, its family and the grant it presents,
\* never goes back to write a key, and never takes back a deletion.
Evolve(r) ==
    /\ \A q \in Req : q # r => req'[q] = req[q]
    /\ \/ req[r].kind = "none"
       \/ /\ req'[r].kind = req[r].kind
          /\ req'[r].fam = req[r].fam
          /\ req'[r].on = req[r].on
          /\ req[r].leg = 2 => req'[r].leg = 2
          /\ \A k \in Kind : req[r].pc \in AddedPC(k) => req'[r].pc \in AddedPC(k)
          /\ req[r].kind = "refresh" /\ req[r].pc \in Minting \cup {"done", "failed"}
             => req'[r].pc \in Minting \cup {"done", "failed"}
          /\ req[r].kind = "redeem" /\ req[r].pc \in RevokePC => req'[r].pc \in RevokePC

LEMMA OverStays ==
    ASSUME NEW r \in Req, Evolve(r), NEW k \in Kind, NEW t \in Req, Over(k, t)
    PROVE  Over(k, t)' /\ req'[t].fam = req[t].fam
  BY DEF Evolve, Over, Mint

LEMMA RemovedStays ==
    ASSUME NEW r \in Req, Evolve(r), NEW k \in Kind, NEW t \in Req, req[t].kind \in Mint,
           Removed(k, t)
    PROVE  Removed(k, t)'
  <1>1. req'[t].fam = req[t].fam
    BY DEF Evolve, Mint
  <1>2. CASE \E q \in Req : /\ k = "refresh" /\ req[q].kind = "refresh" /\ req[q].on = t
                            /\ req[q].pc \in Minting \cup {"done", "failed"}
    BY <1>2 DEF Evolve, Removed
  <1>3. CASE \E q \in Req : /\ req[q].fam = req[t].fam
                            /\ \/ req[q].kind \in RevokeKind
                               \/ req[q].kind = "redeem" /\ req[q].pc \in RevokePC
                            /\ req[q].leg = 2
    <2>1. PICK q \in Req : /\ req[q].fam = req[t].fam
                           /\ \/ req[q].kind \in RevokeKind
                              \/ req[q].kind = "redeem" /\ req[q].pc \in RevokePC
                           /\ req[q].leg = 2
      BY <1>3
    <2>2. /\ req'[q].fam = req[t].fam
          /\ \/ req'[q].kind \in RevokeKind
             \/ req'[q].kind = "redeem" /\ req'[q].pc \in RevokePC
          /\ req'[q].leg = 2
      BY <2>1 DEF Evolve, RevokeKind
    <2> QED
      BY <1>1, <2>2 DEF Removed, RevokeKind, RevokePC
  <1> QED
    BY <1>2, <1>3 DEF Removed, RevokeKind, RevokePC

\* What a step of r leaves to the other requests.
LEMMA StepKeepsStoreInv ==
    ASSUME GrantInv, StoreInv, NEW r \in Req, Evolve(r), now' = now, lost \subseteq lost',
           \A k \in Kind, t \in Req : Over(k, t) => tok'[k][t] <= tok[k][t],
           \A k \in Kind, f \in Fam : \A t \in Members(k, f) :
               t \in Members(k, f)' \/ Gone(k, t)' \/ <<k, t>> \in lost',
           \A k \in Kind, t \in Req :
               t # r /\ req[t].kind \in Mint => tok'[k][t] = tok[k][t] \/ Removed(k, t)',
           TypeOK', IndexOK', SnapOK(r)', LegOK(r)', DoomOK(r)', KeptOK(r)'
    PROVE  StoreInv'
  <1> SUFFICES ASSUME NEW q \in Req, q # r
               PROVE  SnapOK(q)' /\ LegOK(q)' /\ DoomOK(q)' /\ KeptOK(q)'
    BY DEF StoreInv
  <1>0. req'[q] = req[q] /\ TypeOK /\ SnapOK(q) /\ LegOK(q) /\ DoomOK(q) /\ KeptOK(q)
    BY DEF Evolve, GrantInv, StoreInv
  <1>1. SnapOK(q)'
    <2>1. req[q].snap \subseteq Req /\ LegKind(q) \in Kind /\ LegKind(q)' = LegKind(q)
      BY <1>0 DEF TypeOK, Request, LegKind, Kind
    <2> QED
      BY <1>0, <2>1, OverStays DEF SnapOK
  <1>2. LegOK(q)'
    BY <1>0 DEF LegOK
  <1>3. DoomOK(q)'
    <2> SUFFICES ASSUME ~req[q].err, NEW x \in req[q].doomed
                 PROVE  \/ Gone(x[1], x[2])'
                        \/ x \in lost'
                        \/ Ahead(q, x[1])' /\ x[2] \in Members(x[1], req[q].fam)'
      BY <1>0 DEF DoomOK
    <2>1. x[1] \in Kind /\ x[2] \in Req /\ x = <<x[1], x[2]>>
      BY <1>0 DEF TypeOK, Request, Token
    <2>2. CASE Gone(x[1], x[2])
      <3>1. Over(x[1], x[2]) /\ tok[x[1]][x[2]] <= now
        BY <2>2 DEF Gone
      <3>2. Over(x[1], x[2])' /\ tok'[x[1]][x[2]] <= tok[x[1]][x[2]]
        BY <2>1, <3>1, OverStays
      <3>3. tok'[x[1]][x[2]] \in Nat /\ tok[x[1]][x[2]] \in Nat /\ now \in Nat
        BY <1>0, <2>1 DEF TypeOK
      <3> QED
        BY <3>1, <3>2, <3>3 DEF Gone
    <2>3. CASE x \in lost
      BY <2>3
    <2>4. CASE Ahead(q, x[1]) /\ x[2] \in Members(x[1], req[q].fam)
      <3>1. Ahead(q, x[1])'
        BY <1>0, <2>4 DEF Ahead, LegKind
      <3>2. req[q].fam \in Fam
        BY <2>4 DEF Ahead, GrantInv, Coherent
      <3> QED
        BY <1>0, <2>1, <2>4, <3>1, <3>2 DEF Members
    <2> QED
      BY <1>0, <2>2, <2>3, <2>4 DEF DoomOK
  <1>4. KeptOK(q)'
    <2>1. ASSUME NEW k \in Kind, req[q].kind \in Mint,
                 NEW e \in Nat, tok[k][q] = e \/ Removed(k, q)
          PROVE  tok'[k][q] = e \/ Removed(k, q)'
      BY <2>1, RemovedStays
    <2>2. req[q].aexp \in Nat /\ req[q].rexp \in Nat /\ "access" \in Kind /\ "refresh" \in Kind
      BY <1>0 DEF TypeOK, Request, Kind
    <2>3. req[q].kind \in Mint /\ req[q].pc \in HasPC("access") =>
             tok'["access"][q] = req'[q].aexp \/ Removed("access", q)'
      BY <1>0, <2>1, <2>2 DEF KeptOK
    <2>4. /\ req[q].kind \in {"redeem", "refresh"} /\ req[q].fam \in Offline
          /\ req[q].pc \in HasPC("refresh")
          => tok'["refresh"][q] = req'[q].rexp \/ Removed("refresh", q)'
      BY <1>0, <2>1, <2>2 DEF KeptOK, Mint
    <2> QED
      BY <1>0, <2>3, <2>4 DEF KeptOK
  <1> QED
    BY <1>1, <1>2, <1>3, <1>4

\* Steps that leave every key, the index and the clock alone.
LEMMA QuietKeepsStoreInv ==
    ASSUME GrantInv, StoreInv, NEW r \in Req, Evolve(r), UNCHANGED <<now, tok, idx, overtaken, lost>>,
           TypeOK', SnapOK(r)', LegOK(r)', DoomOK(r)', KeptOK(r)'
    PROVE  StoreInv'
  <1>1. IndexOK'
    <2> SUFFICES ASSUME NEW k \in Kind, NEW f \in Fam, NEW t \in idx[k][f].members
                 PROVE  /\ Over(k, t)' /\ req'[t].fam = f
                        /\ tok[k][t] <= idx[k][f].exp \/ <<k, t>> \in overtaken
      BY DEF IndexOK
    <2>1. t \in Req
      BY DEF GrantInv, TypeOK
    <2>2. Over(k, t) /\ req[t].fam = f /\ (tok[k][t] <= idx[k][f].exp \/ <<k, t>> \in overtaken)
      BY DEF StoreInv, IndexOK
    <2> QED
      BY <2>1, <2>2, OverStays
  <1>2. \A k \in Kind, t \in Req : tok'[k][t] = tok[k][t] /\ tok[k][t] \in Nat
    BY DEF GrantInv, TypeOK
  <1>3. \A k \in Kind, f \in Fam : Members(k, f)' = Members(k, f)
    BY DEF Members
  <1>4. now' = now /\ overtaken \subseteq overtaken' /\ lost \subseteq lost'
    OBVIOUS
  <1> QED
    BY <1>1, <1>2, <1>3, <1>4, StepKeepsStoreInv

\* A request goes on, or stops: only a mint that ends has keys to account for.
Onward(r, p) ==
    \/ /\ req[r].pc \in {"pkce", "pkceDel", "code2", "invGet", "rt2"}
       /\ p \in {"pkceDel", "code2", "invGet", "invPut", "rotate"}
    \/ req[r].pc \in {"invPut", "rotate"} /\ p = "setaccess"
    \/ req[r].pc \in {"oidcGet", "oidcDel"} /\ p \in {"oidcDel", "done"}
    \/ req[r].kind \in RevokeKind /\ req[r].pc = "deny" /\ p = "done"

LEMMA GotoRest ==
    ASSUME TypeOK, NEW r \in Req, NEW p \in PC, Goto(r, p)
    PROVE  /\ \A q \in Req : q # r => req'[q] = req[q]
           /\ req'[r].kind = req[r].kind /\ req'[r].fam = req[r].fam /\ req'[r].on = req[r].on
           /\ req'[r].leg = req[r].leg /\ req'[r].err = req[r].err
           /\ req'[r].snap = req[r].snap /\ req'[r].doomed = req[r].doomed
           /\ req'[r].aexp = req[r].aexp /\ req'[r].rexp = req[r].rexp
           /\ req'[r].pc = p
  BY DEF Goto, TypeOK, Request

LEMMA StopRest ==
    ASSUME TypeOK, NEW r \in Req, Stop(r)
    PROVE  /\ \A q \in Req : q # r => req'[q] = req[q]
           /\ req'[r].kind = req[r].kind /\ req'[r].fam = req[r].fam /\ req'[r].on = req[r].on
           /\ req'[r].leg = req[r].leg /\ req'[r].err = req[r].err
           /\ req'[r].doomed = {} /\ req'[r].pc = "failed"
  BY DEF Stop, TypeOK, Request

LEMMA GotoEvolves ==
    ASSUME GrantInv, StoreInv, NEW r \in Req, NEW p \in PC, Goto(r, p), Onward(r, p)
    PROVE  Evolve(r) /\ SnapOK(r)' /\ LegOK(r)'
  <1>0. TypeOK /\ LegOK(r)
    BY DEF GrantInv, StoreInv
  <1>1. Evolve(r)
    BY <1>0, GotoRest DEF Evolve, Onward, AddedPC, HasPC, AddPC, Minting, RevokePC, RevokeKind, Kind
  <1>2. SnapOK(r)'
    BY <1>0, GotoRest DEF SnapOK, Onward
  <1>3. LegOK(r)'
    <2>1. req[r].pc \in {"oidcGet", "oidcDel"} => req[r].kind = "redeem"
      BY DEF GrantInv, Coherent
    <2> QED
      BY <1>0, <2>1, GotoRest DEF LegOK, Onward, RevokePC, RevokeKind
  <1> QED
    BY <1>1, <1>2, <1>3

LEMMA MoveKeepsStoreInv ==
    ASSUME GrantInv, StoreInv, NEW r \in Req, NEW p \in PC, Goto(r, p), Onward(r, p),
           UNCHANGED <<now, tok, idx, overtaken, lost>>, TypeOK'
    PROVE  StoreInv'
  <1>0. TypeOK /\ DoomOK(r) /\ KeptOK(r)
    BY DEF GrantInv, StoreInv
  <1>1. Evolve(r) /\ SnapOK(r)' /\ LegOK(r)'
    BY GotoEvolves
  <1>2. DoomOK(r)'
    <2> SUFFICES ASSUME ~req[r].err, NEW x \in req[r].doomed
                 PROVE  Gone(x[1], x[2])' \/ x \in lost
      BY <1>0, GotoRest DEF DoomOK
    <2>1. x[1] \in Kind /\ x[2] \in Req
      BY <1>0 DEF TypeOK, Request, Token
    <2>2. ~Ahead(r, x[1])
      BY DEF Ahead, Onward
    <2>3. Gone(x[1], x[2]) \/ x \in lost
      BY <1>0, <2>2 DEF DoomOK
    <2> QED
      BY <1>1, <2>1, <2>3, OverStays DEF Gone
  <1>3. KeptOK(r)'
    <2>1. req[r].kind \in Mint => req[r].pc # "deny"
      BY DEF GrantInv, Coherent, Mint, RevokeKind
    <2>2. \A k \in Kind : req[r].kind \in Mint /\ p \in HasPC(k) => req[r].pc \in HasPC(k)
      BY <2>1 DEF HasPC, Onward, Mint, Kind, RevokeKind
    <2>3. req[r].kind \in Mint /\ p \in HasPC("access") =>
             tok["access"][r] = req[r].aexp \/ Removed("access", r)'
      BY <1>0, <1>1, <2>2, RemovedStays DEF KeptOK, Kind
    <2>4. /\ req[r].kind \in {"redeem", "refresh"} /\ req[r].fam \in Offline
          /\ p \in HasPC("refresh")
          => tok["refresh"][r] = req[r].rexp \/ Removed("refresh", r)'
      BY <1>0, <1>1, <2>2, RemovedStays DEF KeptOK, Kind, Mint
    <2> QED
      BY <1>0, <2>3, <2>4, GotoRest DEF KeptOK
  <1> QED
    BY <1>1, <1>2, <1>3, QuietKeepsStoreInv

LEMMA StopKeepsStoreInv ==
    ASSUME GrantInv, StoreInv, NEW r \in Req, Stop(r), req[r].pc \notin Terminal \cup {"idle"},
           UNCHANGED <<now, tok, idx, overtaken, lost>>, TypeOK'
    PROVE  StoreInv'
  <1>0. TypeOK /\ LegOK(r)
    BY DEF GrantInv, StoreInv
  <1>1. Evolve(r)
    BY <1>0, StopRest DEF Evolve, AddedPC, HasPC, AddPC, RevokePC, Kind
  <1>2. SnapOK(r)' /\ LegOK(r)' /\ DoomOK(r)' /\ KeptOK(r)'
    BY <1>0, StopRest DEF SnapOK, LegOK, DoomOK, KeptOK, HasPC, RevokePC, RevokeKind
  <1> QED
    BY <1>1, <1>2, QuietKeepsStoreInv

\* A request that begins has deleted nothing and found nothing, except a
\* revocation, which finds what the index lists.
LEMMA StartKeepsStoreInv ==
    ASSUME GrantInv, StoreInv, NEW r \in Req, req[r].pc = "idle",
           NEW b \in Request, req' = [req EXCEPT ![r] = b],
           b.leg = 1, ~b.err, b.fam \in Fam,
           b.pc \in {"failed", "pkce", "list", "rt2", "setaccess", "deny"},
           b.doomed = {} \/ (b.pc = "list" /\ b.doomed = Revocable(b.fam)),
           UNCHANGED <<now, tok, idx, overtaken, lost>>, TypeOK'
    PROVE  StoreInv'
  <1>0. TypeOK /\ req[r].kind = "none"
    BY DEF GrantInv, Coherent
  <1>1. req'[r] = b /\ Evolve(r)
    BY <1>0 DEF Evolve, TypeOK
  <1>2. SnapOK(r)' /\ LegOK(r)' /\ KeptOK(r)'
    BY <1>1 DEF SnapOK, LegOK, KeptOK, HasPC
  <1>3. DoomOK(r)'
    BY <1>1 DEF DoomOK, Revocable, Findable, Ahead, Members
  <1> QED
    BY <1>1, <1>2, <1>3, QuietKeepsStoreInv

\* What the record of a request that begins says of its revocation.
LEMMA BeginRest ==
    ASSUME TypeOK, NEW kind \in {"redeem", "refresh", "cc", "revokeA", "revokeR"},
           NEW f \in Fam, NEW t \in Req \cup {None}, NEW p \in PC, NEW l \in BOOLEAN
    PROVE  /\ Begin(kind, f, t, p, l) \in Request
           /\ Begin(kind, f, t, p, l).fam = f
           /\ Begin(kind, f, t, p, l).pc = p
           /\ Begin(kind, f, t, p, l).leg = 1
           /\ ~Begin(kind, f, t, p, l).err
           /\ Begin(kind, f, t, p, l).doomed = {}
  BY BeginFacts DEF Begin

LEMMA DoomedRest ==
    ASSUME NEW b \in Request, NEW d \in SUBSET Token
    PROVE  /\ [b EXCEPT !.doomed = d] \in Request
           /\ [b EXCEPT !.doomed = d].fam = b.fam
           /\ [b EXCEPT !.doomed = d].pc = b.pc
           /\ [b EXCEPT !.doomed = d].leg = b.leg
           /\ [b EXCEPT !.doomed = d].err = b.err
           /\ [b EXCEPT !.doomed = d].doomed = d
  BY DEF Request

LEMMA RedeemGetCodeKeepsStoreInv ==
    ASSUME GrantInv, StoreInv, NEW r \in Req, NEW f \in Fam, RedeemGetCode(r, f), TypeOK'
    PROVE  StoreInv'
  <1> DEFINE spentBefore == \E q \in Req : /\ req[q].kind = "redeem"
                                           /\ req[q].fam = f
                                           /\ req[q].pc = "done"
             start(pc) == Begin("redeem", f, None, pc, spentBefore)
             b == IF ~CodeLive(f) THEN start("failed")
                  ELSE IF code[f] = "fresh" THEN start("pkce")
                  ELSE [start("list") EXCEPT !.doomed = Revocable(f)]
  <1>1. req' = [req EXCEPT ![r] = b] /\ req[r].pc = "idle" /\ UNCHANGED <<now, tok, idx, overtaken, lost>>
    BY DEF RedeemGetCode, stored
  <1>2. TypeOK /\ spentBefore \in BOOLEAN /\ Revocable(f) \in SUBSET Token
    BY DEF GrantInv, Revocable
  <1> HIDE DEF spentBefore
  <1>3. \A p \in {"failed", "pkce", "list"} :
          /\ start(p) \in Request /\ start(p).fam = f /\ start(p).pc = p
          /\ start(p).leg = 1 /\ ~start(p).err /\ start(p).doomed = {}
    <2>1. \A p \in {"failed", "pkce", "list"} : p \in PC
      BY DEF PC, InFlight, Terminal
    <2> QED
      BY SMTT(60), <1>2, <2>1, BeginRest
  <1> HIDE DEF start
  <1>4. /\ b \in Request /\ b.leg = 1 /\ ~b.err /\ b.fam = f
        /\ b.pc \in {"failed", "pkce", "list"}
        /\ b.doomed = {} \/ (b.pc = "list" /\ b.doomed = Revocable(f))
    BY <1>2, <1>3, DoomedRest
  <1> HIDE DEF b
  <1> QED
    BY <1>1, <1>4, StartKeepsStoreInv

LEMMA RefreshGetKeepsStoreInv ==
    ASSUME GrantInv, StoreInv, NEW r \in Req, NEW t \in Req, RefreshGet(r, t), TypeOK'
    PROVE  StoreInv'
  <1> DEFINE usedBefore == \E q \in Req : /\ req[q].kind = "refresh"
                                          /\ req[q].on = t
                                          /\ req[q].pc = "done"
             p == IF Live("refresh", t) THEN "rt2" ELSE "failed"
             b == Begin("refresh", req[t].fam, t, p, usedBefore)
  <1>1. /\ req' = [req EXCEPT ![r] = b] /\ req[r].pc = "idle" /\ req[t].pc = "done"
        /\ UNCHANGED <<now, tok, idx, overtaken, lost>>
    BY DEF RefreshGet, stored
  <1>2. TypeOK /\ usedBefore \in BOOLEAN /\ p \in PC /\ req[t].fam \in Fam
    BY <1>1 DEF GrantInv, Coherent, PC, InFlight, Terminal
  <1>3. p \in {"rt2", "failed"}
    OBVIOUS
  <1> HIDE DEF usedBefore, p
  <1>4. /\ b \in Request /\ b.fam = req[t].fam /\ b.pc = p
        /\ b.leg = 1 /\ ~b.err /\ b.doomed = {}
    BY <1>2, BeginRest
  <1> HIDE DEF b
  <1> QED
    BY <1>1, <1>2, <1>3, <1>4, StartKeepsStoreInv

LEMMA ClientCredentialsKeepsStoreInv ==
    ASSUME GrantInv, StoreInv, NEW r \in Req, NEW f \in Fam, ClientCredentials(r, f), TypeOK'
    PROVE  StoreInv'
  <1> DEFINE b == Begin("cc", f, None, "setaccess", FALSE)
  <1>1. /\ req' = [req EXCEPT ![r] = b] /\ req[r].pc = "idle"
        /\ UNCHANGED <<now, tok, idx, overtaken, lost>>
    BY DEF ClientCredentials, stored
  <1>2. TypeOK /\ "setaccess" \in PC
    BY DEF GrantInv, PC, InFlight, Minting
  <1>3. /\ b \in Request /\ b.fam = f /\ b.pc = "setaccess"
        /\ b.leg = 1 /\ ~b.err /\ b.doomed = {}
    <2>1. now + AccessTTL \in Nat /\ now + RefreshTTL \in Nat
      BY <1>2, TTLAssumption DEF TypeOK
    <2> QED
      BY <1>2, <2>1 DEF Begin, Request
  <1> HIDE DEF b
  <1> QED
    BY <1>1, <1>3, StartKeepsStoreInv

LEMMA RevokeLookupKeepsStoreInv ==
    ASSUME GrantInv, StoreInv, NEW r \in Req, NEW k \in Kind, NEW t \in Req,
           RevokeLookup(r, k, t), TypeOK'
    PROVE  StoreInv'
  <1> DEFINE kind == IF k = "access" THEN "revokeA" ELSE "revokeR"
             start(pc) == Begin(kind, req[t].fam, t, pc, FALSE)
             b == IF Live(k, t)
                  THEN [start("list") EXCEPT !.doomed = Revocable(req[t].fam)]
                  ELSE start("deny")
  <1>1. /\ req' = [req EXCEPT ![r] = b] /\ req[r].pc = "idle" /\ req[t].pc = "done"
        /\ UNCHANGED <<now, tok, idx, overtaken, lost>>
    BY DEF RevokeLookup, stored
  <1>2. TypeOK /\ req[t].fam \in Fam /\ Revocable(req[t].fam) \in SUBSET Token
    BY <1>1 DEF GrantInv, Coherent, Revocable
  <1>3. \A p \in {"list", "deny"} :
          /\ start(p) \in Request /\ start(p).fam = req[t].fam /\ start(p).pc = p
          /\ start(p).leg = 1 /\ ~start(p).err /\ start(p).doomed = {}
    <2>1. now + AccessTTL \in Nat /\ now + RefreshTTL \in Nat
      BY <1>2, TTLAssumption DEF TypeOK
    <2>2. \A p \in {"list", "deny"} : p \in PC
      BY DEF PC, InFlight
    <2>3. kind \in {"revokeA", "revokeR"}
      OBVIOUS
    <2> HIDE DEF kind
    <2> QED
      BY <1>2, <2>1, <2>2, <2>3 DEF Begin, Request
  <1> HIDE DEF start
  <1>4. /\ b \in Request /\ b.leg = 1 /\ ~b.err /\ b.fam = req[t].fam
        /\ b.pc \in {"list", "deny"}
        /\ b.doomed = {} \/ (b.pc = "list" /\ b.doomed = Revocable(b.fam))
    BY <1>2, <1>3, DoomedRest
  <1> HIDE DEF b
  <1> QED
    BY <1>1, <1>2, <1>4, StartKeepsStoreInv

(***************************************************************************)
(* The steps that write keys, the index or the clock.                      *)
(***************************************************************************)
LEMMA PutKeepsStoreInv ==
    ASSUME GrantInv, StoreInv, NEW r \in Req, NEW k \in Kind, putPersisted(r, k), TypeOK'
    PROVE  StoreInv'
  <1>1. /\ req[r].pc = SetPC(k) /\ tok' = [tok EXCEPT ![k][r] = expiryFor(r, k)]
        /\ Goto(r, AddPC(k)) /\ UNCHANGED <<now, idx, overtaken, lost>>
    BY DEF putPersisted
  <1>2. /\ TypeOK /\ req[r].kind \in Mint /\ LegOK(r) /\ KeptOK(r) /\ DoomOK(r)
        /\ AddPC(k) \in PC
    BY <1>1 DEF GrantInv, StoreInv, Coherent, Mint, SetPC, AddPC, Minting, PC, InFlight
  <1>3. /\ \A j \in Kind, t \in Req : tok'[j][t] = IF j = k /\ t = r THEN expiryFor(r, k)
                                                   ELSE tok[j][t]
        /\ \A j \in Kind, t \in Req : tok[j][t] \in Nat
    BY <1>1, <1>2 DEF TypeOK
  <1>4. ~Over(k, r)
    BY <1>1 DEF Over, SetPC, AddedPC, HasPC, AddPC, Kind
  <1>5. Evolve(r)
    BY <1>1, <1>2, GotoRest
       DEF Evolve, SetPC, AddPC, AddedPC, HasPC, Minting, RevokePC, Kind
  <1>6. \A j \in Kind, t \in Req : Over(j, t) => tok'[j][t] = tok[j][t]
    BY <1>3, <1>4
  <1>7. IndexOK'
    <2> SUFFICES ASSUME NEW j \in Kind, NEW f \in Fam, NEW t \in idx[j][f].members
                 PROVE  /\ Over(j, t)' /\ req'[t].fam = f
                        /\ tok'[j][t] <= idx[j][f].exp \/ <<j, t>> \in overtaken
      BY <1>1 DEF IndexOK
    <2>1. t \in Req
      BY <1>2 DEF TypeOK
    <2>2. Over(j, t) /\ req[t].fam = f /\ (tok[j][t] <= idx[j][f].exp \/ <<j, t>> \in overtaken)
      BY DEF StoreInv, IndexOK
    <2> QED
      BY <1>5, <1>6, <2>1, <2>2, OverStays
  <1>8. SnapOK(r)' /\ LegOK(r)'
    BY <1>1, <1>2, GotoRest DEF SnapOK, LegOK, AddPC, SetPC, RevokePC, Mint, RevokeKind
  <1>9. DoomOK(r)'
    <2> SUFFICES ASSUME ~req[r].err, NEW x \in req[r].doomed
                 PROVE  Gone(x[1], x[2])' \/ x \in lost
      BY <1>1, <1>2, GotoRest DEF DoomOK
    <2>1. x[1] \in Kind /\ x[2] \in Req
      BY <1>2 DEF TypeOK, Request, Token
    <2>2. ~Ahead(r, x[1])
      BY <1>1 DEF Ahead, SetPC
    <2>3. Gone(x[1], x[2]) \/ x \in lost
      BY <1>2, <2>2 DEF DoomOK
    <2> QED
      BY <1>1, <1>5, <1>6, <2>1, <2>3, OverStays DEF Gone
  <1>10. KeptOK(r)'
    <2>1. k = "access" => tok'["access"][r] = req[r].aexp /\ AddPC(k) \notin HasPC("refresh")
      BY <1>3 DEF expiryFor, Kind, AddPC, HasPC
    <2>2. k = "refresh" => tok'["refresh"][r] = req[r].rexp /\ req[r].pc \in HasPC("access")
                           /\ tok'["access"][r] = tok["access"][r]
      BY <1>1, <1>3 DEF expiryFor, Kind, SetPC, HasPC
    <2>3. k = "refresh" => tok["access"][r] = req[r].aexp \/ Removed("access", r)'
      BY <1>2, <1>5, <2>2, RemovedStays DEF KeptOK, Kind
    <2> QED
      BY <1>1, <1>2, <2>1, <2>2, <2>3, GotoRest DEF KeptOK, Kind
  <1>11. \A j \in Kind, f \in Fam : Members(j, f)' = Members(j, f)
    BY <1>1 DEF Members
  <1>12. \A j \in Kind, t \in Req : t # r => tok'[j][t] = tok[j][t]
    BY <1>3
  <1>13. \A j \in Kind, t \in Req : Over(j, t) => tok'[j][t] <= tok[j][t]
    BY <1>3, <1>6
  <1>14. now' = now /\ overtaken \subseteq overtaken' /\ lost \subseteq lost'
    BY <1>1
  <1> QED
    BY <1>5, <1>7, <1>8, <1>9, <1>10, <1>11, <1>12, <1>13, <1>14, StepKeepsStoreInv

LEMMA SAddKeepsStoreInv ==
    ASSUME GrantInv, StoreInv, NEW r \in Req, NEW k \in Kind, SAddIndex(r, k), TypeOK'
    PROVE  StoreInv'
  <1> DEFINE f == req[r].fam
             exp == ttlFor(expiryFor(r, k))
             members == Members(k, f) \cup {r}
  <1>1. /\ req[r].pc = AddPC(k)
        /\ idx' = [idx EXCEPT ![k][f] = [members |-> members, exp |-> exp]]
        /\ overtaken' = overtaken \cup ({k} \X {t \in members : tok[k][t] > exp})
        /\ Goto(r, AfterAdd(r, k)) /\ now' = now /\ tok' = tok /\ lost' = lost
    BY DEF SAddIndex, AddToIndex
  <1>2. /\ TypeOK /\ req[r].kind \in Mint /\ f \in Fam
        /\ LegOK(r) /\ KeptOK(r) /\ DoomOK(r) /\ IndexOK
    BY <1>1 DEF GrantInv, StoreInv, Coherent, Mint, AddPC, Minting
  <1>3. /\ AfterAdd(r, k) \in {"done", "setrefresh", "oidcGet"}
        /\ AfterAdd(r, k) = "setrefresh" => k = "access"
    BY <1>2 DEF AfterAdd
  <1>4. AfterAdd(r, k) \in PC /\ AfterAdd(r, k) \in AddedPC(k)
    BY <1>3 DEF PC, InFlight, Minting, Terminal, AddedPC, HasPC, AddPC, Kind
  <1>5. exp \in Nat /\ now < exp /\ members \subseteq Req
    <2>1. now \in Nat /\ expiryFor(r, k) \in Nat
      BY <1>2 DEF TypeOK, Request, expiryFor
    <2> QED
      BY <1>2, <2>1 DEF ttlFor, Members, TypeOK
  <1>6. \A j \in Kind, g \in Fam :
          /\ j = k /\ g = f => idx'[j][g].members = members /\ idx'[j][g].exp = exp
          /\ ~(j = k /\ g = f) => idx'[j][g] = idx[j][g]
    BY <1>1, <1>2 DEF TypeOK
  <1>7. Evolve(r)
    <2>1. \A j \in Kind : req[r].pc \in AddedPC(j) => AfterAdd(r, k) \in AddedPC(j)
      BY <1>1, <1>3, <1>4 DEF AddedPC, HasPC, AddPC, Kind
    <2>2. req[r].kind = "refresh" => AfterAdd(r, k) \in {"done", "setrefresh"}
      BY DEF AfterAdd
    <2>3. req[r].pc \notin RevokePC
      BY <1>1 DEF AddPC, RevokePC
    <2> QED
      BY <1>1, <1>2, <1>4, <2>1, <2>2, <2>3, GotoRest DEF Evolve, Minting
  <1>8. Over(k, r)' /\ req'[r].fam = f
    BY <1>1, <1>2, <1>4, GotoRest DEF Over
  <1>t. tok' = tok
    BY <1>1
  <1> HIDE DEF exp, members
  <1>9. IndexOK'
    <2> SUFFICES ASSUME NEW j \in Kind, NEW g \in Fam, NEW t \in idx'[j][g].members
                 PROVE  /\ Over(j, t)' /\ req'[t].fam = g
                        /\ tok[j][t] <= idx'[j][g].exp \/ <<j, t>> \in overtaken'
      BY <1>t DEF IndexOK
    <2>1. CASE ~(j = k /\ g = f)
      <3>1. t \in Req /\ t \in idx[j][g].members /\ idx'[j][g].exp = idx[j][g].exp
        BY <1>2, <1>6, <2>1 DEF TypeOK
      <3>2. Over(j, t) /\ req[t].fam = g /\ (tok[j][t] <= idx[j][g].exp \/ <<j, t>> \in overtaken)
        BY <1>2, <3>1 DEF IndexOK
      <3> QED
        BY <1>1, <1>7, <3>1, <3>2, OverStays
    <2>2. CASE j = k /\ g = f
      <3>1. t \in members /\ t \in Req /\ idx'[j][g].exp = exp
        BY <1>5, <1>6, <2>2
      <3>2. Over(j, t)' /\ req'[t].fam = g
        <4>1. CASE t = r
          BY <1>8, <2>2, <4>1
        <4>2. CASE t # r
          <5>1. t \in idx[j][g].members
            BY <2>2, <3>1, <4>2 DEF members, Members
          <5> QED
            BY ZenonT(60), <1>2, <1>7, <3>1, <5>1, OverStays DEF IndexOK
        <4> QED
          BY <4>1, <4>2
      <3>3. tok[j][t] \in Nat
        BY <1>2, <3>1 DEF TypeOK
      <3>4. tok[j][t] > exp => <<j, t>> \in overtaken'
        BY <1>1, <2>2, <3>1
      <3> QED
        BY <1>5, <3>1, <3>2, <3>3, <3>4
    <2> QED
      BY <2>1, <2>2
  <1>10. SnapOK(r)' /\ LegOK(r)'
    <2>1. req[r].leg = 2 => req[r].pc \in RevokePC \/ req[r].kind \in RevokeKind
      BY <1>2 DEF LegOK
    <2>2. req[r].leg # 2
      BY <1>1, <1>2, <2>1 DEF AddPC, RevokePC, RevokeKind, Mint
    <2> QED
      BY <1>1, <1>2, <1>3, <1>4, <2>2, GotoRest DEF SnapOK, LegOK, Mint, RevokeKind
  <1>11. DoomOK(r)'
    <2> SUFFICES ASSUME ~req[r].err, NEW x \in req[r].doomed
                 PROVE  Gone(x[1], x[2])' \/ x \in lost'
      BY <1>1, <1>2, <1>4, GotoRest DEF DoomOK
    <2>1. x[1] \in Kind /\ x[2] \in Req
      BY <1>2 DEF TypeOK, Request, Token
    <2>2. ~Ahead(r, x[1])
      BY <1>1 DEF Ahead, AddPC
    <2>3. Gone(x[1], x[2]) \/ x \in lost
      BY <1>2, <2>2 DEF DoomOK
    <2> QED
      BY <1>1, <1>7, <2>1, <2>3, OverStays DEF Gone
  <1>12. KeptOK(r)'
    <2>1. req[r].pc \in HasPC("access")
      BY <1>1 DEF AddPC, HasPC, Kind
    <2>2. /\ req[r].kind \in {"redeem", "refresh"} /\ f \in Offline
          /\ AfterAdd(r, k) \in HasPC("refresh")
          => req[r].pc \in HasPC("refresh")
      BY <1>1 DEF AfterAdd, AddPC, HasPC, Kind
    <2>3. tok["access"][r] = req[r].aexp \/ Removed("access", r)'
      BY <1>2, <1>7, <2>1, RemovedStays DEF KeptOK, Kind
    <2>4. /\ req[r].kind \in {"redeem", "refresh"} /\ f \in Offline
          /\ AfterAdd(r, k) \in HasPC("refresh")
          => tok["refresh"][r] = req[r].rexp \/ Removed("refresh", r)'
      BY <1>2, <1>7, <2>2, RemovedStays DEF KeptOK, Kind, Mint
    <2> QED
      BY <1>1, <1>2, <1>4, <2>3, <2>4, GotoRest DEF KeptOK
  <1>13. \A j \in Kind, g \in Fam : \A t \in Members(j, g) : t \in Members(j, g)'
    BY ZenonT(60), <1>1, <1>5, <1>6 DEF Members, members
  <1>14. \A j \in Kind, t \in Req : tok'[j][t] = tok[j][t] /\ tok[j][t] \in Nat
    BY <1>1, <1>2 DEF TypeOK
  <1>15. now' = now /\ overtaken \subseteq overtaken' /\ lost \subseteq lost'
    BY <1>1
  <1> QED
    BY <1>7, <1>9, <1>10, <1>11, <1>12, <1>13, <1>14, <1>15, StepKeepsStoreInv

LEMMA RotateKeepsStoreInv ==
    ASSUME GrantInv, StoreInv, NEW r \in Req, RotateRefreshToken(r), TypeOK'
    PROVE  StoreInv'
  <1>1. /\ req[r].pc = "rotate" /\ tok' = [tok EXCEPT !["refresh"][req[r].on] = 0]
        /\ Goto(r, "setaccess") /\ UNCHANGED <<now, idx, overtaken, lost>>
    BY DEF RotateRefreshToken
  <1>2. /\ TypeOK /\ req[r].kind = "refresh" /\ req[r].on \in Req
        /\ Onward(r, "setaccess") /\ "setaccess" \in PC /\ DoomOK(r) /\ IndexOK
    BY <1>1 DEF GrantInv, StoreInv, Coherent, Onward, PC, InFlight, Minting
  <1>3. Evolve(r) /\ SnapOK(r)' /\ LegOK(r)'
    BY <1>1, <1>2, GotoEvolves
  <1>4. \A j \in Kind, t \in Req :
          /\ tok[j][t] \in Nat
          /\ tok'[j][t] = IF j = "refresh" /\ t = req[r].on THEN 0 ELSE tok[j][t]
    BY <1>1, <1>2 DEF TypeOK, Kind
  <1>5. \A j \in Kind, t \in Req : tok'[j][t] <= tok[j][t]
    BY <1>4
  <1>6. IndexOK'
    <2> SUFFICES ASSUME NEW j \in Kind, NEW f \in Fam, NEW t \in idx[j][f].members
                 PROVE  /\ Over(j, t)' /\ req'[t].fam = f
                        /\ tok'[j][t] <= idx[j][f].exp \/ <<j, t>> \in overtaken
      BY <1>1 DEF IndexOK
    <2>1. t \in Req /\ idx[j][f].exp \in Nat
      BY <1>2 DEF TypeOK
    <2>2. Over(j, t) /\ req[t].fam = f /\ (tok[j][t] <= idx[j][f].exp \/ <<j, t>> \in overtaken)
      BY <1>2 DEF IndexOK
    <2> QED
      BY <1>3, <1>4, <2>1, <2>2, OverStays
  <1>7. DoomOK(r)'
    <2> SUFFICES ASSUME ~req[r].err, NEW x \in req[r].doomed
                 PROVE  Gone(x[1], x[2])' \/ x \in lost
      BY <1>1, <1>2, GotoRest DEF DoomOK
    <2>1. x[1] \in Kind /\ x[2] \in Req /\ now \in Nat
      BY <1>2 DEF TypeOK, Request, Token
    <2>2. ~Ahead(r, x[1])
      BY <1>1 DEF Ahead
    <2>3. Gone(x[1], x[2]) \/ x \in lost
      BY <1>2, <2>2 DEF DoomOK
    <2> QED
      BY <1>1, <1>3, <1>4, <2>1, <2>3, OverStays DEF Gone
  <1>8. KeptOK(r)'
    BY <1>1, <1>2, GotoRest DEF KeptOK, HasPC
  <1>9. \A j \in Kind, t \in Req : tok'[j][t] = tok[j][t] \/ Removed(j, t)'
    <2>1. \A t \in Req : t = req[r].on => Removed("refresh", t)'
      BY <1>1, <1>2, GotoRest DEF Removed, Minting
    <2> QED
      BY <1>4, <2>1
  <1>10. \A j \in Kind, f \in Fam : Members(j, f)' = Members(j, f)
    BY <1>1 DEF Members
  <1>11. now' = now /\ overtaken \subseteq overtaken' /\ lost \subseteq lost'
    BY <1>1
  <1> QED
    BY <1>3, <1>5, <1>6, <1>7, <1>8, <1>9, <1>10, <1>11, StepKeepsStoreInv

\* The end of a leg without an error about its own request.
LEMMA EndLegRest ==
    ASSUME TypeOK, NEW r \in Req, NEW e \in BOOLEAN, EndLeg(r, e)
    PROVE  /\ \A q \in Req : q # r => req'[q] = req[q]
           /\ req'[r].kind = req[r].kind /\ req'[r].fam = req[r].fam /\ req'[r].on = req[r].on
           /\ req'[r].leg = 2 /\ req'[r].err = e /\ req'[r].doomed = req[r].doomed
           /\ req'[r].pc = IF req[r].leg = 1 THEN "list" ELSE AfterLegs(r, e)
  BY DEF EndLeg, TypeOK, Request

LEMMA EndLegEvolves ==
    ASSUME GrantInv, StoreInv, NEW r \in Req, NEW e \in BOOLEAN, EndLeg(r, e),
           req[r].pc \in {"list", "drop"}
    PROVE  Evolve(r) /\ SnapOK(r)' /\ LegOK(r)' /\ KeptOK(r)'
  <1>1. TypeOK /\ req[r].kind \in RevokeKind \cup {"redeem"}
    BY DEF GrantInv, Coherent
  <1>2. /\ req'[r].pc \in {"list", "replayed", "failed", "deny"}
        /\ req'[r].pc = "deny" => ~e
        /\ req[r].kind = "redeem" => req'[r].pc \in RevokePC
    BY <1>1, EndLegRest DEF AfterLegs, RevokePC, RevokeKind
  <1>3. Evolve(r)
    BY <1>1, <1>2, EndLegRest DEF Evolve, AddedPC, HasPC, AddPC, Kind, RevokePC, RevokeKind
  <1>4. SnapOK(r)' /\ LegOK(r)' /\ KeptOK(r)'
    BY <1>1, <1>2, EndLegRest DEF SnapOK, LegOK, KeptOK, HasPC
  <1> QED
    BY <1>3, <1>4

LEMMA RevokeLegErrorKeepsStoreInv ==
    ASSUME GrantInv, StoreInv, NEW r \in Req, RevokeLegError(r), TypeOK'
    PROVE  StoreInv'
  <1>1. /\ req[r].pc \in {"list", "drop"} /\ EndLeg(r, TRUE) /\ UNCHANGED <<now, tok, idx, overtaken, lost>>
        /\ TypeOK
    BY DEF RevokeLegError, stored, GrantInv
  <1>2. Evolve(r) /\ SnapOK(r)' /\ LegOK(r)' /\ KeptOK(r)'
    BY <1>1, EndLegEvolves
  <1>3. DoomOK(r)'
    BY <1>1 DEF EndLeg, TypeOK, Request, DoomOK
  <1> QED
    BY <1>1, <1>2, <1>3, QuietKeepsStoreInv

LEMMA RevokeListKeepsStoreInv ==
    ASSUME GrantInv, StoreInv, NEW r \in Req, RevokeList(r), TypeOK'
    PROVE  StoreInv'
  <1> DEFINE snap == Members(LegKind(r), req[r].fam)
  <1>1. /\ req[r].pc = "list" /\ req' = [req EXCEPT ![r].pc = "drop", ![r].snap = snap]
        /\ UNCHANGED <<now, tok, idx, overtaken, lost>>
    BY DEF RevokeList, stored
  <1>2. /\ TypeOK /\ req[r].fam \in Fam /\ LegKind(r) \in Kind /\ LegOK(r) /\ DoomOK(r)
        /\ IndexOK /\ req[r].kind \in RevokeKind \cup {"redeem"}
    BY <1>1 DEF GrantInv, StoreInv, Coherent, LegKind, Kind
  <1>3. ASSUME NEW t \in snap
        PROVE  t \in Req /\ Over(LegKind(r), t) /\ req[t].fam = req[r].fam
    <2>1. t \in idx[LegKind(r)][req[r].fam].members
      BY DEF Members
    <2>2. t \in Req
      BY <1>2, <2>1 DEF TypeOK
    <2>3. ASSUME NEW k \in Kind, NEW f \in Fam, t \in idx[k][f].members
          PROVE  Over(k, t) /\ req[t].fam = f
      BY <1>2, <2>3 DEF IndexOK
    <2> QED
      BY <1>2, <2>1, <2>2, <2>3
  <1> HIDE DEF snap
  <1>4. /\ \A q \in Req : q # r => req'[q] = req[q]
        /\ req'[r].kind = req[r].kind /\ req'[r].fam = req[r].fam /\ req'[r].on = req[r].on
        /\ req'[r].leg = req[r].leg /\ req'[r].err = req[r].err
        /\ req'[r].doomed = req[r].doomed /\ req'[r].pc = "drop" /\ req'[r].snap = snap
    BY <1>1, <1>2 DEF TypeOK, Request
  <1>5. Evolve(r)
    BY <1>1, <1>2, <1>4 DEF Evolve, AddedPC, HasPC, AddPC, Kind, RevokePC, RevokeKind
  <1>6. SnapOK(r)'
    <2>1. LegKind(r)' = LegKind(r)
      BY <1>4 DEF LegKind
    <2> QED
      BY <1>2, <1>3, <1>4, <1>5, <2>1, OverStays DEF SnapOK
  <1>7. LegOK(r)' /\ KeptOK(r)'
    BY <1>2, <1>4 DEF LegOK, KeptOK, HasPC, RevokePC
  <1>8. DoomOK(r)'
    <2> SUFFICES ASSUME ~req[r].err, NEW x \in req[r].doomed
                 PROVE  \/ Gone(x[1], x[2])'
                        \/ x \in lost
                        \/ Ahead(r, x[1])' /\ x[2] \in Members(x[1], req[r].fam)
      BY <1>1, <1>4 DEF DoomOK, Members
    <2>1. x[1] \in Kind /\ x[2] \in Req
      BY <1>2 DEF TypeOK, Request, Token
    <2>2. Ahead(r, x[1]) => Ahead(r, x[1])'
      BY <1>4 DEF Ahead, LegKind
    <2>3. Gone(x[1], x[2]) => Gone(x[1], x[2])'
      BY <1>1, <1>5, <2>1, OverStays DEF Gone
    <2> QED
      BY <1>2, <2>2, <2>3 DEF DoomOK
  <1> QED
    BY <1>1, <1>5, <1>6, <1>7, <1>8, QuietKeepsStoreInv

LEMMA RevokeDropKeepsStoreInv ==
    ASSUME GrantInv, StoreInv, NEW r \in Req, RevokeDrop(r), TypeOK'
    PROVE  StoreInv'
  <1> DEFINE k == LegKind(r)
             f == req[r].fam
  <1>1. /\ req[r].pc = "drop"
        /\ tok' = [tok EXCEPT ![k] =
                     [t \in Req |-> IF t \in req[r].snap THEN 0 ELSE tok[k][t]]]
        /\ idx' = [idx EXCEPT ![k][f] = [members |-> {}, exp |-> 0]]
        /\ lost' = lost \cup ({k} \X (Members(k, f) \ req[r].snap))
        /\ EndLeg(r, req[r].err) /\ now' = now /\ overtaken' = overtaken
    BY DEF RevokeDrop
  <1>2. /\ TypeOK /\ f \in Fam /\ k \in Kind /\ req[r].err \in BOOLEAN /\ req[r].leg \in {1, 2}
        /\ req[r].kind \in RevokeKind \cup {"redeem"}
        /\ SnapOK(r) /\ LegOK(r) /\ DoomOK(r) /\ IndexOK
    BY <1>1 DEF GrantInv, StoreInv, TypeOK, Request, Coherent, LegKind, Kind
  <1>3. Evolve(r) /\ SnapOK(r)' /\ LegOK(r)' /\ KeptOK(r)'
    BY <1>1, <1>2, EndLegEvolves
  <1>4. \A t \in req[r].snap : t \in Req /\ Over(k, t) /\ req[t].fam = f
    BY <1>1, <1>2 DEF SnapOK, TypeOK, Request
  <1>5. /\ req'[r].kind = req[r].kind /\ req'[r].fam = f
        /\ req'[r].leg = 2 /\ req'[r].err = req[r].err /\ req'[r].doomed = req[r].doomed
        /\ req[r].leg = 1 => req'[r].pc = "list"
        /\ req[r].kind = "redeem" => req'[r].pc \in RevokePC
    BY <1>1, <1>2, EndLegRest DEF AfterLegs, RevokePC
  <1>6. \A j \in Kind : j # k /\ req[r].leg = 1 => LegKind(r)' = j
    BY <1>5 DEF LegKind, Kind
  <1> HIDE DEF k
  <1>7. \A j \in Kind, t \in Req :
          /\ tok[j][t] \in Nat
          /\ tok'[j][t] = IF j = k /\ t \in req[r].snap THEN 0 ELSE tok[j][t]
    BY <1>1, <1>2 DEF TypeOK
  <1>8. \A j \in Kind, g \in Fam :
          /\ j = k /\ g = f => idx'[j][g].members = {}
          /\ ~(j = k /\ g = f) => idx'[j][g] = idx[j][g]
    BY <1>1, <1>2 DEF TypeOK
  <1>9. overtaken \subseteq overtaken' /\ lost \subseteq lost' /\ \A t \in Members(k, f) : t \in req[r].snap \/ <<k, t>> \in lost'
    BY <1>1
  <1>10. IndexOK'
    <2> SUFFICES ASSUME NEW j \in Kind, NEW g \in Fam, NEW t \in idx'[j][g].members
                 PROVE  /\ Over(j, t)' /\ req'[t].fam = g
                        /\ tok'[j][t] <= idx'[j][g].exp \/ <<j, t>> \in overtaken'
      BY DEF IndexOK
    <2>1. t \in Req /\ idx[j][g].exp \in Nat /\ t \in idx[j][g].members /\ idx'[j][g] = idx[j][g]
      BY <1>2, <1>8 DEF TypeOK
    <2>2. Over(j, t) /\ req[t].fam = g /\ (tok[j][t] <= idx[j][g].exp \/ <<j, t>> \in overtaken)
      BY <1>2, <2>1 DEF IndexOK
    <2> QED
      BY <1>3, <1>7, <1>9, <2>1, <2>2, OverStays
  <1>11. \A j \in Kind, g \in Fam : \A t \in Members(j, g) :
           t \in Members(j, g)' \/ Gone(j, t)' \/ <<j, t>> \in lost'
    <2> SUFFICES ASSUME NEW j \in Kind, NEW g \in Fam, NEW t \in Members(j, g)
                 PROVE  t \in Members(j, g)' \/ Gone(j, t)' \/ <<j, t>> \in lost'
      OBVIOUS
    <2>1. CASE ~(j = k /\ g = f)
      BY <1>1, <1>8, <2>1 DEF Members
    <2>2. CASE j = k /\ g = f /\ t \in req[r].snap
      <3>1. t \in Req /\ Over(j, t)'
        BY <1>3, <1>4, <2>2, OverStays
      <3> QED
        BY <1>1, <1>2, <1>7, <2>2, <3>1 DEF Gone, TypeOK
    <2>3. CASE j = k /\ g = f /\ t \notin req[r].snap
      BY <1>9, <2>3
    <2> QED
      BY <2>1, <2>2, <2>3
  <1>12. DoomOK(r)'
    <2> SUFFICES ASSUME ~req[r].err, NEW x \in req[r].doomed
                 PROVE  \/ Gone(x[1], x[2])'
                        \/ x \in lost'
                        \/ Ahead(r, x[1])' /\ x[2] \in Members(x[1], f)'
      BY <1>5 DEF DoomOK, Members
    <2>1. x[1] \in Kind /\ x[2] \in Req /\ x = <<x[1], x[2]>>
      BY <1>2 DEF TypeOK, Request, Token
    <2>2. CASE Gone(x[1], x[2])
      BY <1>1, <1>2, <1>3, <1>7, <2>1, <2>2, OverStays DEF Gone, TypeOK
    <2>3. CASE x \in lost
      BY <1>9, <2>3
    <2>4. CASE Ahead(r, x[1]) /\ x[2] \in Members(x[1], f) /\ x[1] = k
      <3>1. CASE x[2] \in req[r].snap
        <4>1. Over(x[1], x[2])' /\ tok'[x[1]][x[2]] = 0 /\ now \in Nat
          BY <1>2, <1>3, <1>4, <1>7, <2>1, <2>4, <3>1, OverStays DEF TypeOK
        <4> QED
          BY <1>1, <4>1 DEF Gone
      <3>2. CASE x[2] \notin req[r].snap
        BY <1>9, <2>1, <2>4, <3>2
      <3> QED
        BY <3>1, <3>2
    <2>5. CASE Ahead(r, x[1]) /\ x[2] \in Members(x[1], f) /\ x[1] # k
      <3>1. req[r].leg = 1
        BY <2>5 DEF Ahead, k
      <3>2. Ahead(r, x[1])'
        BY <1>5, <1>6, <2>1, <2>5, <3>1 DEF Ahead
      <3>3. x[2] \in Members(x[1], f)'
        BY <1>1, <1>2, <1>5, <1>8, <2>1, <2>5 DEF Members
      <3> QED
        BY <3>2, <3>3
    <2> QED
      BY <1>2, <2>2, <2>3, <2>4, <2>5 DEF DoomOK
  <1>13. \A j \in Kind, t \in Req : tok'[j][t] = tok[j][t] \/ Removed(j, t)'
    <2> SUFFICES ASSUME NEW j \in Kind, NEW t \in Req, j = k, t \in req[r].snap
                 PROVE  Removed(j, t)'
      BY <1>7
    <2>1. req'[t].fam = f
      BY <1>3, <1>4, OverStays
    <2> QED
      BY <1>2, <1>5, <2>1 DEF Removed, RevokeKind, RevokePC
  <1>14. \A j \in Kind, t \in Req : tok'[j][t] <= tok[j][t]
    BY <1>7
  <1>15. now' = now /\ overtaken \subseteq overtaken' /\ lost \subseteq lost'
    BY <1>1, <1>9
  <1> QED
    BY <1>3, <1>10, <1>11, <1>12, <1>13, <1>14, <1>15, StepKeepsStoreInv

LEMMA TickKeepsStoreInv ==
    ASSUME GrantInv, StoreInv, Tick, TypeOK'
    PROVE  StoreInv'
  <1>1. /\ now' = now + 1 /\ UNCHANGED <<tok, idx, req, overtaken>>
        /\ lost \subseteq lost'
        /\ \A k \in Kind, f \in Fam : \A t \in Req :
              t \in Members(k, f) /\ idx[k][f].exp <= now' /\ tok[k][t] > now' => <<k, t>> \in lost'
    BY DEF Tick, stored, Token
  <1>2. TypeOK /\ IndexOK
    BY DEF GrantInv, StoreInv
  <1>3. IndexOK' /\ \A q \in Req : SnapOK(q)' /\ LegOK(q)' /\ KeptOK(q)'
    BY <1>1 DEF StoreInv, IndexOK, SnapOK, LegOK, KeptOK, Over, LegKind, Removed
  <1>4. ASSUME NEW q \in Req PROVE DoomOK(q)'
    <2> SUFFICES ASSUME ~req[q].err, NEW x \in req[q].doomed
                 PROVE  \/ Gone(x[1], x[2])'
                        \/ x \in lost'
                        \/ Ahead(q, x[1])' /\ x[2] \in Members(x[1], req[q].fam)'
      BY <1>1 DEF DoomOK
    <2>1. x[1] \in Kind /\ x[2] \in Req /\ x = <<x[1], x[2]>> /\ now \in Nat
          /\ tok[x[1]][x[2]] \in Nat
      BY <1>2 DEF TypeOK, Request, Token
    <2>2. CASE Gone(x[1], x[2])
      BY <1>1, <2>1, <2>2 DEF Gone, Over
    <2>3. CASE x \in lost
      BY <1>1, <2>3
    <2>4. CASE Ahead(q, x[1]) /\ x[2] \in Members(x[1], req[q].fam)
      <3>1. Ahead(q, x[1])' /\ req[q].fam \in Fam
        BY <1>1, <2>4 DEF Ahead, LegKind, GrantInv, Coherent
      <3>2. CASE now + 1 < idx[x[1]][req[q].fam].exp
        BY <1>1, <2>4, <3>1, <3>2 DEF Members
      <3>3. CASE ~(now + 1 < idx[x[1]][req[q].fam].exp)
        <4>1. idx[x[1]][req[q].fam].exp \in Nat /\ now' \in Nat
          BY <1>1, <1>2, <2>1, <3>1 DEF TypeOK
        <4>2. idx[x[1]][req[q].fam].exp <= now'
          BY <1>1, <2>1, <3>3, <4>1
        <4>3. CASE tok[x[1]][x[2]] > now'
          BY <1>1, <2>1, <2>4, <3>1, <4>2, <4>3
        <4>4. CASE ~(tok[x[1]][x[2]] > now')
          <5>1. Over(x[1], x[2])
            BY <1>2, <2>1, <2>4, <3>1 DEF IndexOK, Members
          <5> QED
            BY <1>1, <2>1, <4>1, <4>4, <5>1 DEF Gone, Over
        <4> QED
          BY <4>3, <4>4
      <3> QED
        BY <3>2, <3>3
    <2> QED
      BY <1>2, <2>2, <2>3, <2>4 DEF StoreInv, DoomOK
  <1> QED
    BY <1>3, <1>4 DEF StoreInv

-----------------------------------------------------------------------------
LEMMA InitStoreInv == Init => StoreInv
  BY DEF Init, StoreInv, IndexOK, SnapOK, LegOK, DoomOK, KeptOK, Idle, RevokeKind, Mint

LEMMA NextStoreInv == GrantInv /\ StoreInv /\ TypeOK' /\ [Next]_vars => StoreInv'
  <1> SUFFICES ASSUME GrantInv, StoreInv, TypeOK', [Next]_vars PROVE StoreInv'
    OBVIOUS
  <1>t. TypeOK /\ Coherent
    BY DEF GrantInv
  <1>p. {"pkceDel", "code2", "invGet", "invPut", "rotate", "setaccess", "oidcDel", "done"}
          \subseteq PC
    BY DEF PC, InFlight, Minting, Terminal
  <1>a. ASSUME NEW r \in Req, NEW p \in PC, Goto(r, p), Onward(r, p),
               UNCHANGED <<now, tok, idx, overtaken, lost>>
        PROVE  StoreInv'
    BY <1>a, MoveKeepsStoreInv
  <1>b. ASSUME NEW r \in Req, Stop(r), req[r].pc \notin Terminal \cup {"idle"},
               UNCHANGED <<now, tok, idx, overtaken, lost>>
        PROVE  StoreInv'
    BY <1>b, StopKeepsStoreInv
  <1>1. ASSUME NEW f \in Fam, NewAuthorizeResponse(f) PROVE StoreInv'
    BY <1>1 DEF NewAuthorizeResponse, StoreInv, IndexOK, SnapOK, LegOK, DoomOK, KeptOK, Over,
       LegKind, Removed, Gone, Ahead, Members
  <1>2. ASSUME NEW r \in Req, Redeem(r) PROVE StoreInv'
    <2>1. CASE \E f \in Fam : RedeemGetCode(r, f)
      BY <2>1, RedeemGetCodeKeepsStoreInv
    <2>2. CASE GetPKCERequestSession(r)
      BY <1>p, <1>a, <1>b, <2>2 DEF GetPKCERequestSession, GotoIf, Onward, Terminal, stored
    <2>3. CASE DeletePKCERequestSession(r)
      BY <1>p, <1>a, <1>b, <2>3 DEF DeletePKCERequestSession, GotoIf, Onward, Terminal
    <2>4. CASE RedeemGetCodeAgain(r)
      BY <1>p, <1>a, <1>b, <2>4 DEF RedeemGetCodeAgain, GotoIf, Onward, Terminal, stored
    <2>5. CASE InvalidateGet(r)
      BY <1>p, <1>a, <1>b, <2>5 DEF InvalidateGet, GotoIf, Onward, Terminal, stored
    <2>6. CASE InvalidatePut(r)
      BY <1>p, <1>a, <2>6 DEF InvalidatePut, Onward
    <2>7. CASE GetOpenIDConnectSession(r)
      BY <1>p, <1>a, <2>7 DEF GetOpenIDConnectSession, Onward, stored
    <2>8. CASE DeleteOpenIDConnectSession(r)
      BY <1>p, <1>a, <2>8 DEF DeleteOpenIDConnectSession, Onward
    <2> QED
      BY <1>2, <2>1, <2>2, <2>3, <2>4, <2>5, <2>6, <2>7, <2>8 DEF Redeem
  <1>3. ASSUME NEW r \in Req, Refresh(r) PROVE StoreInv'
    <2>1. CASE \E t \in Req : RefreshGet(r, t)
      BY <2>1, RefreshGetKeepsStoreInv
    <2>2. CASE RefreshGetAgain(r)
      BY <1>p, <1>a, <1>b, <2>2 DEF RefreshGetAgain, GotoIf, Onward, Terminal, stored
    <2>3. CASE RotateRefreshToken(r)
      BY <2>3, RotateKeepsStoreInv
    <2> QED
      BY <1>3, <2>1, <2>2, <2>3 DEF Refresh
  <1>4. ASSUME NEW r \in Req, NEW f \in Fam, ClientCredentials(r, f) PROVE StoreInv'
    BY <1>4, ClientCredentialsKeepsStoreInv
  <1>5. ASSUME NEW r \in Req, Put(r) PROVE StoreInv'
    BY <1>5, PutKeepsStoreInv, SAddKeepsStoreInv DEF Put
  <1>6. ASSUME NEW r \in Req, Revoke(r) PROVE StoreInv'
    <2>1. CASE \E k \in Kind, t \in Req : RevokeLookup(r, k, t)
      BY <2>1, RevokeLookupKeepsStoreInv
    <2>2. CASE RevokeList(r)
      BY <2>2, RevokeListKeepsStoreInv
    <2>3. CASE RevokeDrop(r)
      BY <2>3, RevokeDropKeepsStoreInv
    <2>4. CASE RevokeLegError(r)
      BY <2>4, RevokeLegErrorKeepsStoreInv
    <2>5. CASE DenyJTI(r)
      <3>1. req[r].kind \in RevokeKind
        BY <1>t, <2>5 DEF DenyJTI, Coherent
      <3> QED
        BY <1>p, <1>a, <2>5, <3>1 DEF DenyJTI, Onward
    <2> QED
      BY <1>6, <2>1, <2>2, <2>3, <2>4, <2>5 DEF Revoke
  <1>7. ASSUME NEW r \in Req, Fail(r) PROVE StoreInv'
    BY <1>b, <1>7 DEF Fail, stored
  <1>8. CASE Tick
    BY <1>8, TickKeepsStoreInv
  <1>9. CASE UNCHANGED vars
    BY SMTT(60), <1>9 DEF vars, StoreInv, IndexOK, SnapOK, LegOK, DoomOK, KeptOK, Over, LegKind, Removed,
       Gone, Ahead, Members
  <1> QED
    BY <1>1, <1>2, <1>3, <1>4, <1>5, <1>6, <1>7, <1>8, <1>9 DEF Next

\* The reverse index lists only tokens of its family whose key is written for
\* good, and outlives those that nobody has overtaken; what a revocation has to
\* kill stays listed until the leg that deletes it.
THEOREM StoreInvInvariant == Spec => []StoreInv
  <1>1. GrantInv => TypeOK
    BY DEF GrantInv
  <1> QED
    BY <1>1, InitStoreInv, NextStoreInv, GrantInvInvariant, PTL DEF Spec

\* A revocation that reports success has killed every token of the family that
\* the index could find when it began, except those another revocation dropped
\* from the index undeleted and those that outlived a shortened index
\* (LossesNeedOverlap says what it takes to lose one).
THEOREM RevocationsKill == Spec => []RevocationKillsFindable
  <1>1. GrantInv /\ StoreInv => RevocationKillsFindable
    <2> SUFFICES ASSUME GrantInv, StoreInv, NEW r \in Req, Revoked(r), NEW x \in req[r].doomed
                 PROVE  ~Accepted(x[1], x[2]) \/ x \in lost
      BY DEF RevocationKillsFindable
    <2>1. ~req[r].err /\ DoomOK(r) /\ TypeOK
      BY DEF Revoked, StoreInv, LegOK, RevokeKind, GrantInv
    <2>2. ~Ahead(r, x[1])
      BY DEF Revoked, Ahead
    <2>3. Gone(x[1], x[2]) \/ x \in lost
      BY <2>1, <2>2 DEF DoomOK
    <2>4. x[1] \in Kind /\ x[2] \in Req
      BY <2>1 DEF TypeOK, Request, Token
    <2> QED
      BY <2>1, <2>3, <2>4 DEF Gone, Accepted, Live, TypeOK
  <1> QED
    BY <1>1, GrantInvInvariant, StoreInvInvariant, PTL

\* A token stays valid for its own lifespan unless it was rotated or its family
\* was revoked.
THEOREM TokensAreKept == Spec => []TokenKept
  <1>1. StoreInv => TokenKept
    <2> SUFFICES ASSUME StoreInv, NEW r \in Req, req[r].pc = "done", req[r].kind \in Mint
                 PROVE  /\ now < req[r].aexp => Live("access", r) \/ Removed("access", r)
                        /\ now < req[r].rexp /\ req[r].kind # "cc" /\ req[r].fam \in Offline
                           => Live("refresh", r) \/ Removed("refresh", r)
      BY DEF TokenKept, Mint
    <2>1. "done" \in HasPC("access") /\ "done" \in HasPC("refresh")
      BY DEF HasPC
    <2> QED
      BY <2>1 DEF StoreInv, KeptOK, Live, Mint
  <1> QED
    BY <1>1, StoreInvInvariant, PTL

-----------------------------------------------------------------------------
(***************************************************************************)
(* The life of a token.                                                     *)
(***************************************************************************)

\* Program points before the key of kind k is set, that of a request not begun included.
Before(k) == {"idle", "pkce", "pkceDel", "code2", "invGet", "invPut", "rt2", "rotate", "setaccess"}
             \cup (IF k = "refresh" THEN {"addaccess", "setrefresh"} ELSE {})
Born(k, t) == req[t].pc \notin Before(k)
Unborn == \A k \in Kind, t \in Req : ~Born(k, t) => tok[k][t] = 0

\* A token lives once.
OneLife(k, t) ==
    /\ ~Born(k, t) => ~Live(k, t)
    /\ Born(k, t) => Born(k, t)' /\ (Accepted(k, t)' => Accepted(k, t))

\* A step of r that leaves the other requests and the clock alone.
LEMMA LivesOn ==
    ASSUME GrantInv, Unborn, TypeOK', NEW r \in Req, denied \subseteq denied', now' = now,
           \A q \in Req \ {r} : req'[q].pc = req[q].pc,
           \A k \in Kind : Born(k, r) => req'[r].pc \notin Before(k),
           \A k \in Kind, t \in Req :
               \/ tok'[k][t] \in {tok[k][t], 0}
               \/ t = r /\ ~Born(k, t) /\ req'[r].pc \notin Before(k)
    PROVE  Unborn' /\ \A k \in Kind, t \in Req : OneLife(k, t)
  <1>1. now \in Nat /\ tok \in [Kind -> [Req -> Nat]] /\ tok' \in [Kind -> [Req -> Nat]]
    BY DEF GrantInv, TypeOK
  <1>2. ASSUME NEW k \in Kind, NEW t \in Req
        PROVE  (~Born(k, t)' => tok'[k][t] = 0) /\ OneLife(k, t)
    <2>1. Born(k, t) => Born(k, t)'
      BY DEF Born
    <2>2. ~Born(k, t) => tok[k][t] = 0
      BY DEF Unborn
    <2>3. tok[k][t] \in Nat /\ tok'[k][t] \in Nat
      BY <1>1
    <2>4. ~Born(k, t)' => tok'[k][t] = 0
      BY <2>1, <2>2 DEF Born
    <2>5. Born(k, t) => tok'[k][t] \in {tok[k][t], 0}
      OBVIOUS
    <2>6. Born(k, t) /\ Accepted(k, t)' => Accepted(k, t)
      BY <1>1, <2>3, <2>5 DEF Accepted, Live
    <2>7. ~Born(k, t) => ~Live(k, t)
      BY <1>1, <2>2 DEF Live
    <2> QED
      BY <2>1, <2>4, <2>6, <2>7 DEF OneLife
  <1> QED
    BY <1>2 DEF Unborn

\* A request goes on to p without touching a token.
LEMMA MovesLive ==
    ASSUME GrantInv, Unborn, TypeOK', NEW r \in Req, NEW p \in PC, Moves(r, p),
           now' = now, tok' = tok, denied \subseteq denied',
           \A k \in Kind : Born(k, r) => p \notin Before(k)
    PROVE  Unborn' /\ \A k \in Kind, t \in Req : OneLife(k, t)
  <1>1. \A q \in Req : req'[q].pc = IF q = r THEN p ELSE req[q].pc
    BY MovesFacts DEF GrantInv
  <1> QED
    BY <1>1, LivesOn

\* A request begins.
LEMMA BeginningLives ==
    ASSUME GrantInv, Unborn, TypeOK', NEW r \in Req, NEW y, req' = [req EXCEPT ![r] = y],
           req[r].pc = "idle",
           now' = now, tok' = tok, denied' = denied
    PROVE  Unborn' /\ \A k \in Kind, t \in Req : OneLife(k, t)
  <1>1. req'[r] = y /\ \A q \in Req \ {r} : req'[q] = req[q]
    BY DEF GrantInv, TypeOK
  <1>2. \A k \in Kind : Born(k, r) => req'[r].pc \notin Before(k)
    BY <1>1 DEF Born, Before
  <1> QED
    BY <1>1, <1>2, LivesOn

LEMMA PutLives ==
    ASSUME GrantInv, Unborn, TypeOK', NEW r \in Req, Put(r)
    PROVE  Unborn' /\ \A k \in Kind, t \in Req : OneLife(k, t)
  <1>1. ASSUME NEW k \in Kind, putPersisted(r, k)
        PROVE  Unborn' /\ \A j \in Kind, t \in Req : OneLife(j, t)
    <2>1. /\ req[r].pc = SetPC(k) /\ Goto(r, AddPC(k)) /\ AddPC(k) \in PC
          /\ tok' = [tok EXCEPT ![k][r] = expiryFor(r, k)] /\ now' = now /\ denied' = denied
      BY <1>1 DEF putPersisted, AddPC, PC, InFlight, Minting
    <2>2. \A q \in Req : req'[q].pc = IF q = r THEN AddPC(k) ELSE req[q].pc
      BY <2>1, GotoFacts DEF GrantInv
    <2>3. \A j \in Kind, t \in Req : t # r \/ j # k => tok'[j][t] = tok[j][t]
      BY <2>1 DEF GrantInv, TypeOK
    <2>4. ~Born(k, r) /\ AddPC(k) \notin Before(k)
      BY <2>1 DEF Born, Before, SetPC, AddPC, Kind
    <2>5. \A j \in Kind : Born(j, r) => AddPC(k) \notin Before(j)
      BY <2>1 DEF Born, Before, SetPC, AddPC, Kind
    <2> QED
      BY <2>1, <2>2, <2>3, <2>4, <2>5, LivesOn
  <1>2. ASSUME NEW k \in Kind, SAddIndex(r, k)
        PROVE  Unborn' /\ \A j \in Kind, t \in Req : OneLife(j, t)
    <2>1. /\ req[r].pc = AddPC(k) /\ Goto(r, AfterAdd(r, k)) /\ UNCHANGED <<now, tok, denied>>
          /\ AfterAdd(r, k) \in {"done", "setrefresh", "oidcGet"}
          /\ AfterAdd(r, k) = "setrefresh" => k = "access"
      BY <1>2 DEF SAddIndex, AddToIndex, AfterAdd
    <2>2. AfterAdd(r, k) \in PC
      BY <2>1 DEF PC, InFlight, Minting, Terminal
    <2>3. \A j \in Kind : Born(j, r) => AfterAdd(r, k) \notin Before(j)
      BY <2>1 DEF Born, Before, AddPC, Kind
    <2> QED
      BY <2>1, <2>2, <2>3, MovesLive DEF Moves
  <1> QED
    BY <1>1, <1>2 DEF Put

LEMMA EndLegLives ==
    ASSUME GrantInv, Unborn, TypeOK', NEW r \in Req, NEW err \in BOOLEAN, EndLeg(r, err),
           now' = now, denied' = denied,
           \A k \in Kind, t \in Req : tok'[k][t] \in {tok[k][t], 0}
    PROVE  Unborn' /\ \A k \in Kind, t \in Req : OneLife(k, t)
  <1>1. req'[r].pc \in {"list", "replayed", "failed", "deny"}
    BY EndLegFacts DEF GrantInv
  <1>2. \A q \in Req \ {r} : req'[q].pc = req[q].pc
    BY EndLegFacts DEF GrantInv
  <1>3. \A k \in Kind : req'[r].pc \notin Before(k)
    BY <1>1 DEF Before
  <1> QED
    BY <1>2, <1>3, LivesOn

LEMMA RevokeLives ==
    ASSUME GrantInv, Unborn, TypeOK', NEW r \in Req, Revoke(r)
    PROVE  Unborn' /\ \A k \in Kind, t \in Req : OneLife(k, t)
  <1>1. CASE \E k \in Kind, t \in Req : RevokeLookup(r, k, t)
    <2>1. /\ req[r].pc = "idle" /\ UNCHANGED <<now, tok, denied>>
          /\ \E y : req' = [req EXCEPT ![r] = y]
      BY <1>1 DEF RevokeLookup, stored
    <2> QED
      BY <2>1, BeginningLives
  <1>2. CASE RevokeList(r)
    <2> DEFINE S == Members(LegKind(r), req[r].fam)
    <2>1. /\ req' = [req EXCEPT ![r].pc = "drop", ![r].snap = S]
          /\ UNCHANGED <<now, tok, denied>>
      BY <1>2 DEF RevokeList, stored
    <2> HIDE DEF S
    <2>2. req'[r].pc = "drop" /\ \A q \in Req \ {r} : req'[q] = req[q]
      BY <2>1 DEF GrantInv, TypeOK, Request
    <2>3. \A k \in Kind : req'[r].pc \notin Before(k)
      BY <2>2 DEF Before
    <2> QED
      BY <2>1, <2>2, <2>3, LivesOn
  <1>3. CASE RevokeDrop(r)
    <2>1. /\ EndLeg(r, req[r].err) /\ now' = now /\ denied' = denied
          /\ tok' = [tok EXCEPT ![LegKind(r)] =
                       [t \in Req |-> IF t \in req[r].snap THEN 0 ELSE tok[LegKind(r)][t]]]
      BY <1>3 DEF RevokeDrop
    <2>2. ASSUME NEW k \in Kind, NEW t \in Req PROVE tok'[k][t] \in {tok[k][t], 0}
      BY <2>1 DEF GrantInv, TypeOK
    <2>3. req[r].err \in BOOLEAN
      BY DEF GrantInv, TypeOK, Request
    <2> QED
      BY <2>1, <2>2, <2>3, EndLegLives
  <1>4. CASE RevokeLegError(r)
    <2>1. EndLeg(r, TRUE) /\ UNCHANGED <<now, tok, denied>>
      BY <1>4 DEF RevokeLegError, stored
    <2> QED
      BY <2>1, EndLegLives
  <1>5. CASE DenyJTI(r)
    <2>1. /\ Moves(r, "done") /\ "done" \in PC /\ now' = now /\ tok' = tok
          /\ denied \subseteq denied'
      BY <1>5 DEF DenyJTI, Moves, PC, Terminal
    <2>2. \A k \in Kind : "done" \notin Before(k)
      BY DEF Before
    <2> QED
      BY <2>1, <2>2, MovesLive
  <1> QED
    BY <1>1, <1>2, <1>3, <1>4, <1>5 DEF Revoke

LEMMA RedeemLives ==
    ASSUME GrantInv, Unborn, TypeOK', NEW r \in Req, Redeem(r) \/ Refresh(r) \/ Fail(r)
    PROVE  Unborn' /\ \A k \in Kind, t \in Req : OneLife(k, t)
  <1>1. CASE (\E f \in Fam : RedeemGetCode(r, f)) \/ (\E t \in Req : RefreshGet(r, t))
    <2>1. /\ req[r].pc = "idle" /\ UNCHANGED <<now, tok, denied>>
          /\ \E y : req' = [req EXCEPT ![r] = y]
      BY <1>1 DEF RedeemGetCode, RefreshGet, stored
    <2> QED
      BY <2>1, BeginningLives
  <1>2. CASE RotateRefreshToken(r)
    <2>1. /\ req[r].pc = "rotate" /\ Goto(r, "setaccess") /\ now' = now /\ denied' = denied
          /\ tok' = [tok EXCEPT !["refresh"][req[r].on] = 0]
      BY <1>2 DEF RotateRefreshToken
    <2>2. \A q \in Req : req'[q].pc = IF q = r THEN "setaccess" ELSE req[q].pc
      BY <2>1, GotoFacts DEF GrantInv, PC, InFlight, Minting
    <2>3. \A k \in Kind, t \in Req : tok'[k][t] \in {tok[k][t], 0}
      BY <2>1 DEF GrantInv, TypeOK
    <2>4. \A k \in Kind : ~Born(k, r)
      BY <2>1 DEF Born, Before
    <2> QED
      BY <2>1, <2>2, <2>3, <2>4, LivesOn
  <1>3. CASE \/ GetPKCERequestSession(r) \/ DeletePKCERequestSession(r) \/ RedeemGetCodeAgain(r)
             \/ InvalidateGet(r) \/ InvalidatePut(r) \/ RefreshGetAgain(r)
    <2>1. /\ req[r].pc \in {"pkce", "pkceDel", "code2", "invGet", "invPut", "rt2"}
          /\ UNCHANGED <<now, tok, denied>>
          /\ \E p \in PC : Moves(r, p)
      BY <1>3 DEF GetPKCERequestSession, DeletePKCERequestSession, RedeemGetCodeAgain,
         InvalidateGet, InvalidatePut, RefreshGetAgain, stored, GotoIf, Moves, PC, InFlight,
         Minting, Terminal
    <2>2. \A k \in Kind : ~Born(k, r)
      BY <2>1 DEF Born, Before
    <2> QED
      BY <2>1, <2>2, MovesLive
  <1>4. CASE GetOpenIDConnectSession(r) \/ DeleteOpenIDConnectSession(r) \/ Fail(r)
    <2>1. /\ UNCHANGED <<now, tok, denied>>
          /\ \E p \in {"oidcDel", "done", "failed"} : Moves(r, p)
      BY <1>4 DEF GetOpenIDConnectSession, DeleteOpenIDConnectSession, Fail, stored, Moves
    <2>2. {"oidcDel", "done", "failed"} \subseteq PC
      BY DEF PC, InFlight, Terminal
    <2>3. \A k \in Kind : Before(k) \cap {"oidcDel", "done", "failed"} = {}
      BY DEF Before
    <2> QED
      BY <2>1, <2>2, <2>3, MovesLive
  <1> QED
    BY <1>1, <1>2, <1>3, <1>4 DEF Redeem, Refresh

\* Time passes, a code is issued, or nothing happens.
LEMMA OutsideLives ==
    ASSUME GrantInv, Unborn, TypeOK',
           Tick \/ (\E f \in Fam : NewAuthorizeResponse(f)) \/ UNCHANGED vars
    PROVE  Unborn' /\ \A k \in Kind, t \in Req : OneLife(k, t)
  <1>1. now' \in {now, now + 1} /\ UNCHANGED <<tok, denied, req>>
    BY DEF Tick, NewAuthorizeResponse, stored, vars
  <1>2. now \in Nat /\ tok \in [Kind -> [Req -> Nat]]
    BY DEF GrantInv, TypeOK
  <1>3. ASSUME NEW k \in Kind, NEW t \in Req
        PROVE  OneLife(k, t)
    <2>1. Born(k, t)' = Born(k, t) /\ tok[k][t] \in Nat /\ (~Born(k, t) => tok[k][t] = 0)
      BY <1>1, <1>2 DEF Born, Unborn
    <2>2. Accepted(k, t)' => Accepted(k, t)
      BY <1>1, <1>2, <2>1 DEF Accepted, Live
    <2>3. ~Born(k, t) => ~Live(k, t)
      BY <1>2, <2>1 DEF Live
    <2> QED
      BY <2>1, <2>2, <2>3 DEF OneLife
  <1>4. Unborn'
    BY <1>1 DEF Unborn, Born
  <1> QED
    BY <1>3, <1>4

LEMMA StepLives ==
    ASSUME GrantInv, Unborn, TypeOK', [Next]_vars
    PROVE  Unborn' /\ \A k \in Kind, t \in Req : OneLife(k, t)
  <1>1. ASSUME NEW r \in Req, NEW f \in Fam, ClientCredentials(r, f)
        PROVE  Unborn' /\ \A k \in Kind, t \in Req : OneLife(k, t)
    <2>1. /\ req[r].pc = "idle" /\ UNCHANGED <<now, tok, denied>>
          /\ \E y : req' = [req EXCEPT ![r] = y]
      BY <1>1 DEF ClientCredentials, stored
    <2> QED
      BY <2>1, BeginningLives
  <1> QED
    BY <1>1, PutLives, RevokeLives, RedeemLives, OutsideLives DEF Next

\* Before its SET a token is not accepted, its SET is done once, and from then on it can
\* only cease to be accepted: whatever overlaps, a token that expired, was rotated away,
\* deleted with its family or denied never comes back (putPersisted, RevokeDrop,
\* RotateRefreshToken, revokeLegacyJWTIfOwned).
THEOREM TokensLiveOnce == Spec => [][\A k \in Kind, t \in Req : OneLife(k, t)]_vars
  <1>1. Init => Unborn
    BY DEF Init, Unborn
  <1>2. GrantInv /\ Unborn /\ TypeOK' /\ [Next]_vars
        => Unborn' /\ [\A k \in Kind, t \in Req : OneLife(k, t)]_vars
    BY StepLives
  <1>3. GrantInv => TypeOK
    BY DEF GrantInv
  <1> QED
    BY <1>1, <1>2, <1>3, GrantInvInvariant, PTL DEF Spec

-----------------------------------------------------------------------------
(***************************************************************************)
(* What takes a token out of the index without deleting it.                 *)
(***************************************************************************)

\* The key that a request is about to index is not younger than the request.
OwnKey == \A r \in Req, k \in Kind : req[r].pc = AddPC(k) => tok[k][r] <= expiryFor(r, k)

LEMMA OwnKeyKept ==
    ASSUME GrantInv, OwnKey, NEW r \in Req, \A q \in Req \ {r} : req'[q] = req[q],
           req'[r].pc \notin {"addaccess", "addrefresh"},
           \A k \in Kind, t \in Req : tok'[k][t] \in {tok[k][t], 0}
    PROVE  OwnKey'
  <1> SUFFICES ASSUME NEW q \in Req, NEW k \in Kind, req'[q].pc = AddPC(k)
               PROVE  tok'[k][q] <= expiryFor(q, k)'
    BY DEF OwnKey
  <1>1. q # r
    BY DEF AddPC
  <1>2. req'[q] = req[q] /\ expiryFor(q, k)' = expiryFor(q, k)
    BY <1>1 DEF expiryFor
  <1>3. tok[k][q] <= expiryFor(q, k)
    BY <1>2 DEF OwnKey
  <1>4. expiryFor(q, k) \in Nat
    BY DEF expiryFor, GrantInv, TypeOK, Request
  <1> QED
    BY <1>2, <1>3, <1>4

LEMMA PutOwnKey ==
    ASSUME GrantInv, OwnKey, NEW r \in Req, NEW k \in Kind, putPersisted(r, k)
    PROVE  OwnKey'
  <1>1. /\ req[r].pc = SetPC(k) /\ req' = [req EXCEPT ![r].pc = AddPC(k)]
        /\ tok' = [tok EXCEPT ![k][r] = expiryFor(r, k)]
    BY DEF putPersisted, Goto
  <1> SUFFICES ASSUME NEW q \in Req, NEW j \in Kind, req'[q].pc = AddPC(j)
               PROVE  tok'[j][q] <= expiryFor(q, j)'
    BY DEF OwnKey
  <1>2. expiryFor(q, j) \in Nat /\ req[q] \in Request
    BY DEF expiryFor, GrantInv, TypeOK, Request
  <1>3. CASE q = r
    <2>1. req'[r].pc = AddPC(k) /\ req'[r].aexp = req[r].aexp /\ req'[r].rexp = req[r].rexp
      BY <1>1, <1>2, <1>3 DEF GrantInv, TypeOK, Request
    <2>2. j = k /\ expiryFor(r, k)' = expiryFor(r, k)
      BY <1>3, <2>1 DEF AddPC, Kind, expiryFor
    <2>3. tok'[k][r] = expiryFor(r, k)
      BY <1>1 DEF GrantInv, TypeOK
    <2> QED
      BY <1>2, <1>3, <2>2, <2>3
  <1>4. CASE q # r
    <2>1. req'[q] = req[q] /\ tok'[j][q] = tok[j][q]
      BY <1>1, <1>4 DEF GrantInv, TypeOK
    <2>2. tok[j][q] <= expiryFor(q, j) /\ expiryFor(q, j)' = expiryFor(q, j)
      BY <2>1 DEF OwnKey, expiryFor
    <2> QED
      BY <2>1, <2>2
  <1> QED
    BY <1>3, <1>4

\* A request begins in none of the two places where a key waits to be indexed.
LEMMA BeginsOwnKey ==
    ASSUME GrantInv, OwnKey, NEW r \in Req, NEW f \in Fam, NEW t \in Req,
           RedeemGetCode(r, f) \/ RefreshGet(r, t) \/ ClientCredentials(r, f)
           \/ \E k \in Kind : RevokeLookup(r, k, t)
    PROVE  OwnKey'
  <1>1. tok' = tok
    BY DEF RedeemGetCode, RefreshGet, ClientCredentials, RevokeLookup, stored
  <1>2. \E y : req' = [req EXCEPT ![r] = y] /\ y.pc \notin {"addaccess", "addrefresh"}
    <2> DEFINE B(kind, g, o, p, l) == Begin(kind, g, o, p, l)
               D(b, d) == [b EXCEPT !.doomed = d]
               Fine(y) == y.pc \notin {"addaccess", "addrefresh"}
    <2>1. ASSUME NEW kind, NEW g, NEW o, NEW p \in PC \ {"addaccess", "addrefresh"}, NEW l, NEW d
          PROVE  Fine(B(kind, g, o, p, l)) /\ Fine(D(B(kind, g, o, p, l), d))
      BY DEF Begin
    <2>p. {"failed", "pkce", "list", "rt2", "setaccess", "deny"} \subseteq PC \ {"addaccess", "addrefresh"}
      BY DEF PC, InFlight, Minting, Terminal
    <2>2. CASE RedeemGetCode(r, f)
      <3> DEFINE late == \E q \in Req : /\ req[q].kind = "redeem"
                                        /\ req[q].fam = f
                                        /\ req[q].pc = "done"
                 y == IF ~CodeLive(f) THEN B("redeem", f, None, "failed", late)
                      ELSE IF code[f] = "fresh" THEN B("redeem", f, None, "pkce", late)
                      ELSE D(B("redeem", f, None, "list", late), Revocable(f))
      <3>1. req' = [req EXCEPT ![r] = y]
        BY <2>2 DEF RedeemGetCode
      <3> HIDE DEF late, B, D, Fine
      <3>2. Fine(y)
        BY <2>1, <2>p
      <3> QED
        BY <3>1, <3>2 DEF Fine
    <2>3. CASE RefreshGet(r, t)
      <3> DEFINE late == \E q \in Req : /\ req[q].kind = "refresh"
                                        /\ req[q].on = t
                                        /\ req[q].pc = "done"
                 p == IF Live("refresh", t) THEN "rt2" ELSE "failed"
                 y == B("refresh", req[t].fam, t, p, late)
      <3>1. req' = [req EXCEPT ![r] = y]
        BY <2>3 DEF RefreshGet
      <3>2. p \in PC \ {"addaccess", "addrefresh"}
        BY <2>p
      <3> HIDE DEF late, B, D, Fine, p
      <3>3. Fine(y)
        BY <2>1, <3>2
      <3> QED
        BY <3>1, <3>3 DEF Fine
    <2>4. CASE ClientCredentials(r, f)
      <3> DEFINE y == B("cc", f, None, "setaccess", FALSE)
      <3>1. req' = [req EXCEPT ![r] = y]
        BY <2>4 DEF ClientCredentials
      <3> HIDE DEF B, D, Fine
      <3>2. Fine(y)
        BY <2>1, <2>p
      <3> QED
        BY <3>1, <3>2 DEF Fine
    <2>5. CASE \E k \in Kind : RevokeLookup(r, k, t)
      <3> PICK k \in Kind : RevokeLookup(r, k, t)
        BY <2>5
      <3> DEFINE kind == IF k = "access" THEN "revokeA" ELSE "revokeR"
                 y == IF Live(k, t) THEN D(B(kind, req[t].fam, t, "list", FALSE), Revocable(req[t].fam))
                      ELSE B(kind, req[t].fam, t, "deny", FALSE)
      <3>1. req' = [req EXCEPT ![r] = y]
        BY DEF RevokeLookup
      <3> HIDE DEF kind, B, D, Fine
      <3>2. Fine(y)
        BY <2>1, <2>p
      <3> QED
        BY <3>1, <3>2 DEF Fine
    <2> QED
      BY <2>2, <2>3, <2>4, <2>5
  <1>3. req'[r].pc \notin {"addaccess", "addrefresh"} /\ \A q \in Req \ {r} : req'[q] = req[q]
    BY <1>2 DEF GrantInv, TypeOK
  <1> QED
    BY <1>1, <1>3, OwnKeyKept

\* A request goes on elsewhere, or is over.
LEMMA MovesOwnKey ==
    ASSUME GrantInv, OwnKey, NEW r \in Req, NEW p \in PC, Moves(r, p),
           p \notin {"addaccess", "addrefresh"},
           \A k \in Kind, t \in Req : tok'[k][t] \in {tok[k][t], 0}
    PROVE  OwnKey'
  <1>1. req'[r].pc = p
    BY MovesFacts DEF GrantInv
  <1>2. \A q \in Req \ {r} : req'[q] = req[q]
    BY DEF Moves, Goto, Stop, GrantInv, TypeOK
  <1> QED
    BY <1>1, <1>2, OwnKeyKept

LEMMA RevokeOwnKey ==
    ASSUME GrantInv, OwnKey, NEW r \in Req, RevokeList(r) \/ RevokeDrop(r) \/ RevokeLegError(r)
    PROVE  OwnKey'
  <1>1. \A q \in Req \ {r} : req'[q] = req[q]
    BY DEF RevokeList, RevokeDrop, RevokeLegError, EndLeg, GrantInv, TypeOK
  <1>2. CASE RevokeList(r)
    <2> DEFINE S == Members(LegKind(r), req[r].fam)
    <2>1. req' = [req EXCEPT ![r].pc = "drop", ![r].snap = S] /\ tok' = tok
      BY <1>2 DEF RevokeList, stored
    <2> HIDE DEF S
    <2>2. req'[r].pc = "drop"
      BY <2>1 DEF GrantInv, TypeOK, Request
    <2> QED
      BY <1>1, <2>1, <2>2, OwnKeyKept
  <1>3. CASE RevokeDrop(r)
    <2>1. EndLeg(r, req[r].err) /\ req[r].err \in BOOLEAN
      BY <1>3 DEF RevokeDrop, GrantInv, TypeOK, Request
    <2>2. req'[r].pc \notin {"addaccess", "addrefresh"}
      BY <2>1, EndLegFacts DEF GrantInv
    <2>3. \A k \in Kind, t \in Req : tok'[k][t] \in {tok[k][t], 0}
      BY <1>3 DEF RevokeDrop, GrantInv, TypeOK
    <2> QED
      BY <1>1, <2>2, <2>3, OwnKeyKept
  <1>4. CASE RevokeLegError(r)
    <2>1. EndLeg(r, TRUE) /\ tok' = tok
      BY <1>4 DEF RevokeLegError, stored
    <2>2. req'[r].pc \notin {"addaccess", "addrefresh"}
      BY <2>1, EndLegFacts DEF GrantInv
    <2> QED
      BY <1>1, <2>1, <2>2, OwnKeyKept
  <1> QED
    BY <1>2, <1>3, <1>4

LEMMA StepOwnKey ==
    ASSUME GrantInv, OwnKey, NEW r \in Req,
           Redeem(r) \/ Refresh(r) \/ Put(r) \/ Revoke(r) \/ Fail(r)
           \/ \E f \in Fam : ClientCredentials(r, f)
    PROVE  OwnKey'
  <1>1. CASE \/ \E f \in Fam : RedeemGetCode(r, f) \/ ClientCredentials(r, f)
             \/ \E t \in Req : RefreshGet(r, t)
             \/ \E k \in Kind, t \in Req : RevokeLookup(r, k, t)
    <2>1. CASE \E f \in Fam : RedeemGetCode(r, f) \/ ClientCredentials(r, f)
      BY <2>1, BeginsOwnKey
    <2>2. CASE (\E t \in Req : RefreshGet(r, t)) \/ \E k \in Kind, t \in Req : RevokeLookup(r, k, t)
      <3>1. \E f \in Fam : TRUE
        <4>1. ASSUME NEW t \in Req, RefreshGet(r, t) \/ \E k \in Kind : RevokeLookup(r, k, t)
              PROVE  req[t].fam \in Fam
          BY <4>1 DEF RefreshGet, RevokeLookup, GrantInv, Coherent
        <4> QED
          BY <2>2, <4>1
      <3> QED
        BY <2>2, <3>1, BeginsOwnKey
    <2> QED
      BY <1>1, <2>1, <2>2
  <1>2. CASE \E k \in Kind : putPersisted(r, k)
    BY <1>2, PutOwnKey
  <1>3. CASE \E k \in Kind : SAddIndex(r, k)
    <2> PICK k \in Kind : SAddIndex(r, k)
      BY <1>3
    <2>1. /\ Moves(r, AfterAdd(r, k)) /\ tok' = tok
          /\ AfterAdd(r, k) \in {"done", "setrefresh", "oidcGet"}
      BY DEF SAddIndex, AddToIndex, AfterAdd, Moves
    <2>2. AfterAdd(r, k) \in PC
      BY <2>1 DEF PC, InFlight, Minting, Terminal
    <2> QED
      BY <2>1, <2>2, MovesOwnKey
  <1>4. CASE RotateRefreshToken(r)
    <2>1. Moves(r, "setaccess") /\ tok' = [tok EXCEPT !["refresh"][req[r].on] = 0]
      BY <1>4 DEF RotateRefreshToken, Moves
    <2>2. \A k \in Kind, t \in Req : tok'[k][t] \in {tok[k][t], 0}
      BY <2>1 DEF GrantInv, TypeOK
    <2>3. "setaccess" \in PC
      BY DEF PC, InFlight, Minting
    <2> QED
      BY <2>1, <2>2, <2>3, MovesOwnKey
  <1>5. CASE \/ GetPKCERequestSession(r) \/ DeletePKCERequestSession(r) \/ RedeemGetCodeAgain(r)
             \/ InvalidateGet(r) \/ InvalidatePut(r) \/ RefreshGetAgain(r)
             \/ GetOpenIDConnectSession(r) \/ DeleteOpenIDConnectSession(r)
             \/ DenyJTI(r) \/ Fail(r)
    <2>1. tok' = tok
      BY <1>5 DEF GetPKCERequestSession, DeletePKCERequestSession, RedeemGetCodeAgain,
         InvalidateGet, InvalidatePut, RefreshGetAgain, GetOpenIDConnectSession,
         DeleteOpenIDConnectSession, DenyJTI, Fail, stored
    <2>2. \E p \in {"pkceDel", "code2", "invGet", "invPut", "setaccess", "rotate", "oidcDel",
                    "done", "failed"} : Moves(r, p)
      BY <1>5 DEF GetPKCERequestSession, DeletePKCERequestSession, RedeemGetCodeAgain,
         InvalidateGet, InvalidatePut, RefreshGetAgain, GetOpenIDConnectSession,
         DeleteOpenIDConnectSession, DenyJTI, Fail, GotoIf, Moves
    <2>3. {"pkceDel", "code2", "invGet", "invPut", "setaccess", "rotate", "oidcDel", "done",
           "failed"} \subseteq PC
      BY DEF PC, InFlight, Minting, Terminal
    <2> QED
      BY <2>1, <2>2, <2>3, MovesOwnKey
  <1> QED
    BY <1>1, <1>2, <1>3, <1>4, <1>5, RevokeOwnKey DEF Redeem, Refresh, Put, Revoke

LEMMA Indexed ==
    ASSUME GrantInv, StoreInv, NEW k \in Kind, NEW f \in Fam, NEW t \in idx[k][f].members
    PROVE  t \in Req /\ Over(k, t) /\ req[t].fam = f
  <1>1. t \in Req
    BY DEF GrantInv, TypeOK
  <1>2. IndexOK
    BY DEF StoreInv
  <1> QED
    BY <1>1, <1>2 DEF IndexOK

LEMMA SAddLoses ==
    ASSUME GrantInv, StoreInv, OwnKey, NEW r \in Req, NEW k \in Kind, SAddIndex(r, k)
    PROVE  OverlapLoses
  <1> DEFINE exp == ttlFor(expiryFor(r, k))
             members == Members(k, req[r].fam) \cup {r}
  <1>1. /\ req[r].pc = AddPC(k) /\ lost' = lost
        /\ overtaken' = overtaken \cup ({k} \X {t \in members : tok[k][t] > exp})
    BY DEF SAddIndex, AddToIndex
  <1>2. now \in Nat /\ expiryFor(r, k) \in Nat
    BY DEF GrantInv, TypeOK, Request, expiryFor
  <1>3. exp \in Nat /\ expiryFor(r, k) <= exp
    BY <1>2 DEF ttlFor
  <1>4. req[r].fam \in Fam
    BY <1>1 DEF GrantInv, Coherent, AddPC
  <1>5. tok[k][r] <= expiryFor(r, k) /\ tok \in [Kind -> [Req -> Nat]]
    BY <1>1 DEF OwnKey, GrantInv, TypeOK
  <1>6. ASSUME NEW t \in members, tok[k][t] > exp
        PROVE  Sibling(r, t) /\ Overtakes(r, k, t)
    <2>1. t # r
      BY <1>2, <1>3, <1>5, <1>6
    <2>2. t \in idx[k][req[r].fam].members
      BY <2>1 DEF Members
    <2>3. t \in Req /\ req[t].fam = req[r].fam
      BY <1>4, <2>2, Indexed
    <2>4. expiryFor(r, k) < tok[k][t]
      BY <1>2, <1>3, <1>5, <1>6, <2>3
    <2> QED
      BY <1>1, <2>1, <2>3, <2>4 DEF Sibling, Overtakes
  <1> HIDE DEF exp, members
  <1> SUFFICES ASSUME NEW x \in overtaken' \ overtaken
               PROVE  Sibling(r, x[2]) /\ Overtakes(r, x[1], x[2])
    BY <1>1 DEF OverlapLoses
  <1>7. x[1] = k /\ x[2] \in members /\ tok[k][x[2]] > exp
    BY <1>1
  <1> QED
    BY <1>6, <1>7

LEMMA DropLoses ==
    ASSUME GrantInv, StoreInv, NEW r \in Req, RevokeDrop(r)
    PROVE  OverlapLoses
  <1> DEFINE members == Members(LegKind(r), req[r].fam)
  <1>1. /\ req[r].pc = "drop" /\ overtaken' = overtaken
        /\ lost' = lost \cup ({LegKind(r)} \X (members \ req[r].snap))
    BY DEF RevokeDrop
  <1>2. req[r].fam \in Fam /\ LegKind(r) \in Kind
    BY <1>1 DEF GrantInv, Coherent, LegKind, Kind
  <1>3. ASSUME NEW t \in members \ req[r].snap
        PROVE  Sibling(r, t) /\ Misses(r, LegKind(r), t)
    <2>1. t \in idx[LegKind(r)][req[r].fam].members
      BY DEF Members
    <2>2. Over(LegKind(r), t) /\ req[t].fam = req[r].fam
      BY <1>2, <2>1, Indexed
    <2>3. t # r
      BY <1>1, <2>2 DEF Over, AddedPC, HasPC, AddPC
    <2> QED
      BY <1>1, <2>2, <2>3 DEF Sibling, Misses
  <1> HIDE DEF members
  <1> SUFFICES ASSUME NEW x \in lost' \ lost
               PROVE  Sibling(r, x[2]) /\ Misses(r, x[1], x[2])
    BY <1>1 DEF OverlapLoses
  <1>4. x[1] = LegKind(r) /\ x[2] \in members \ req[r].snap
    BY <1>1
  <1> QED
    BY <1>3, <1>4

LEMMA TickLoses ==
    ASSUME GrantInv, StoreInv, Tick
    PROVE  OverlapLoses
  <1>1. overtaken' = overtaken /\ now' = now + 1
    BY DEF Tick
  <1> SUFFICES ASSUME NEW x \in lost' \ lost PROVE x \in overtaken
    BY <1>1 DEF OverlapLoses
  <1>2. /\ x \in Token /\ tok[x[1]][x[2]] > now'
        /\ \E f \in Fam : x[2] \in Members(x[1], f) /\ idx[x[1]][f].exp <= now'
    BY DEF Tick
  <1>3. PICK f \in Fam : x[2] \in Members(x[1], f) /\ idx[x[1]][f].exp <= now'
    BY <1>2
  <1>4. x[1] \in Kind /\ x[2] \in Req /\ x = <<x[1], x[2]>>
    BY <1>2 DEF Token
  <1>5. tok[x[1]][x[2]] \in Nat /\ idx[x[1]][f].exp \in Nat /\ now \in Nat
    BY <1>4 DEF GrantInv, TypeOK
  <1>6. tok[x[1]][x[2]] <= idx[x[1]][f].exp \/ x \in overtaken
    BY <1>3, <1>4 DEF StoreInv, IndexOK, Members
  <1> QED
    BY <1>1, <1>2, <1>3, <1>5, <1>6

\* Nobody loses tokens but SADD, the DEL of a revocation and the clock.
LEMMA OthersLoseNothing ==
    ASSUME [Next]_vars, ~Tick, \A r \in Req : ~RevokeDrop(r) /\ \A k \in Kind : ~SAddIndex(r, k)
    PROVE  lost' = lost /\ overtaken' = overtaken
  BY DEF Next, Redeem, Refresh, Put, Revoke, vars, NewAuthorizeResponse, RedeemGetCode,
     GetPKCERequestSession, DeletePKCERequestSession, RedeemGetCodeAgain, InvalidateGet,
     InvalidatePut, GetOpenIDConnectSession, DeleteOpenIDConnectSession, RefreshGet,
     RefreshGetAgain, RotateRefreshToken, ClientCredentials, putPersisted, RevokeLookup,
     RevokeList, RevokeLegError, DenyJTI, Fail

\* A living token leaves the reverse index, and so the reach of revocations, only by
\* another request of its family that overlaps its own: one that began earlier and
\* indexes its own token later (put), or a revocation that had read the index before
\* the token was added (revokeByRequestID).  These losses are what
\* RevocationKillsFindable exempts; a family whose requests do not overlap has none.
THEOREM LossesNeedOverlap == Spec => LossNeedsOverlap
  <1>1. Init => OwnKey
    BY DEF Init, OwnKey, Idle, AddPC
  <1>2. GrantInv /\ OwnKey /\ [Next]_vars => OwnKey'
    <2> SUFFICES ASSUME GrantInv, OwnKey, [Next]_vars PROVE OwnKey'
      OBVIOUS
    <2>1. CASE (\E f \in Fam : NewAuthorizeResponse(f)) \/ Tick \/ UNCHANGED vars
      <3>1. req' = req /\ tok' = tok
        BY <2>1 DEF NewAuthorizeResponse, Tick, vars, stored
      <3> QED
        BY <3>1 DEF OwnKey, expiryFor
    <2> QED
      BY <2>1, StepOwnKey DEF Next
  <1>3. GrantInv /\ StoreInv /\ OwnKey /\ [Next]_vars => [OverlapLoses]_vars
    <2> SUFFICES ASSUME GrantInv, StoreInv, OwnKey, [Next]_vars PROVE OverlapLoses
      OBVIOUS
    <2>1. CASE lost' = lost /\ overtaken' = overtaken
      BY <2>1 DEF OverlapLoses
    <2> QED
      BY <2>1, SAddLoses, DropLoses, TickLoses, OthersLoseNothing
  <1> QED
    BY <1>1, <1>2, <1>3, GrantInvInvariant, StoreInvInvariant, PTL DEF Spec, LossNeedsOverlap

-----------------------------------------------------------------------------
(***************************************************************************)
(* TokenStore implements OneTimeGrant: every step of a request is one of    *)
(* the promise or invisible.                                               *)
(***************************************************************************)
Uses == {Use(r) : r \in Presenting}

\* A redemption is of a code that was issued, and refresh tokens descend from
\* families that have them.
Sourced ==
    \A r \in Req : /\ req[r].kind = "redeem" => code[req[r].fam] # "absent"
                   /\ req[r].kind = "refresh" => req[r].fam \in Offline

\* What the promise sees of a request other than its program point.
SameGrant(q) ==
    /\ req'[q].kind = req[q].kind
    /\ req'[q].fam = req[q].fam
    /\ req'[q].on = req[q].on
    /\ req'[q].late = req[q].late

\* Nothing happens to the other requests.
Alone(r) == \A q \in Req \ {r} : SameGrant(q) /\ req'[q].pc = req[q].pc

CodesKept == \A f \in Fam : code'[f] = "absent" <=> code[f] = "absent"

PromiseStep == [Promise!Next]_(Promise!vars)

-----------------------------------------------------------------------------
LEMMA OthersSame ==
    ASSUME NEW r \in Req, Alone(r), NEW q \in Req \ {r}
    PROVE  /\ q \in Presenting' <=> q \in Presenting
           /\ q \in Answered' <=> q \in Answered
           /\ Use(q)' = Use(q)
           /\ Presented(q)' = Presented(q)
           /\ req'[q].fam = req[q].fam
  BY DEF Alone, SameGrant, Presenting, Answered, Redeemer, Use, Presented

\* While no request is answered and no code issued, the grants stay as they are.
LEMMA GrantsStay ==
    ASSUME NEW r \in Req, Alone(r), CodesKept, r \notin Answered, r \notin Answered'
    PROVE  PaidOut' = PaidOut /\ Usable' = Usable
  <1>1. Answered' = Answered
    BY OthersSame DEF Answered
  <1>2. \A q \in Answered : Presented(q)' = Presented(q) /\ req'[q].fam = req[q].fam
    BY OthersSame DEF Answered
  <1>3. PaidOut' = PaidOut
    BY <1>1, <1>2 DEF PaidOut
  <1>4. {f \in Fam : code'[f] # "absent"} = {f \in Fam : code[f] # "absent"}
    BY DEF CodesKept
  <1>5. {q \in Answered' : req'[q].fam \in Offline} = {q \in Answered : req[q].fam \in Offline}
    BY <1>1, <1>2
  <1> QED
    BY <1>3, <1>4, <1>5 DEF Usable

LEMMA UsesStay ==
    ASSUME NEW r \in Req, Alone(r), r \notin Presenting, r \notin Presenting'
    PROVE  Uses' = Uses
  <1>1. Presenting' = Presenting
    BY OthersSame DEF Presenting
  <1>2. \A q \in Presenting : Use(q)' = Use(q)
    BY OthersSame DEF Presenting
  <1> QED
    BY <1>1, <1>2 DEF Uses

\* A request that presents no grant before and after its step.
LEMMA Unseen ==
    ASSUME NEW r \in Req, Alone(r), CodesKept, r \notin Presenting, r \notin Presenting'
    PROVE  PromiseStep
  <1>1. r \notin Answered /\ r \notin Answered'
    BY DEF Answered, Presenting
  <1>2. PaidOut' = PaidOut /\ Usable' = Usable
    BY <1>1, GrantsStay
  <1>3. Uses' = Uses
    BY UsesStay
  <1> QED
    BY <1>2, <1>3 DEF PromiseStep, Promise!vars, Uses

\* A request in flight that stays in flight.
LEMMA GoesOn ==
    ASSUME NEW r \in Req, Alone(r), CodesKept, SameGrant(r),
           req[r].pc \in InFlight, req'[r].pc \in InFlight
    PROVE  PromiseStep
  <1>1. r \notin Answered /\ r \notin Answered'
    BY DEF Answered, InFlight, Minting
  <1>2. PaidOut' = PaidOut /\ Usable' = Usable
    BY <1>1, GrantsStay
  <1>3. Presenting' = Presenting
    BY OthersSame DEF Presenting, SameGrant, Redeemer
  <1>4. req[r].pc # "done" /\ req'[r].pc # "done"
    BY DEF InFlight, Minting
  <1>5. Use(r)' = Use(r)
    BY <1>4 DEF Use, Presented, SameGrant
  <1>6. \A q \in Presenting : Use(q)' = Use(q)
    BY <1>5, OthersSame DEF Presenting
  <1>7. Uses' = Uses
    BY <1>3, <1>6 DEF Uses
  <1> QED
    BY <1>2, <1>7 DEF PromiseStep, Promise!vars, Uses

\* Entries of different requests differ.
LEMMA UseOwned == \A q \in Req : Use(q).by = q /\ Use(q).on = Presented(q)
  BY DEF Use

LEMMA UsesButOne ==
    ASSUME NEW r \in Req, Alone(r), r \in Presenting
    PROVE  Uses \ {Use(r)} = {Use(q) : q \in Presenting \ {r}}
  BY UseOwned DEF Uses, Presenting

LEMMA OtherUsesStay ==
    ASSUME NEW r \in Req, Alone(r)
    PROVE  {Use(q) : q \in Presenting \ {r}}' = {Use(q) : q \in Presenting \ {r}}
  <1>1. Presenting' \ {r} = Presenting \ {r}
    BY OthersSame DEF Presenting
  <1>2. \A q \in Presenting \ {r} : Use(q)' = Use(q)
    BY OthersSame DEF Presenting
  <1> QED
    BY <1>1, <1>2

\* A request in flight that ends without tokens.
LEMMA GivesUp ==
    ASSUME NEW r \in Req, Alone(r), CodesKept,
           r \in Presenting, req[r].pc # "done", r \notin Presenting'
    PROVE  PromiseStep
  <1>1. r \notin Answered /\ r \notin Answered'
    BY DEF Answered, Presenting
  <1>2. PaidOut' = PaidOut /\ Usable' = Usable
    BY <1>1, GrantsStay
  <1>3. Uses' = {Use(q) : q \in Presenting \ {r}}'
    BY DEF Uses
  <1>4. Uses' = Uses \ {Use(r)}
    BY <1>3, OtherUsesStay, UsesButOne
  <1>5. Use(r) \in Uses
    BY DEF Uses
  <1>6. Promise!Leave(Use(r))
    BY <1>2, <1>4 DEF Promise!Leave, Uses
  <1> QED
    BY <1>5, <1>6 DEF PromiseStep, Promise!Next, Uses

\* A request that starts to present a grant.
LEMMA Starts ==
    ASSUME NEW r \in Req, Alone(r), CodesKept,
           r \notin Presenting, r \in Presenting', req'[r].pc # "done",
           NEW g \in Usable, Presented(r)' = g,
           req'[r].late = (g \in PaidOut)
    PROVE  PromiseStep
  <1> DEFINE x == [by |-> r, on |-> g, late |-> g \in PaidOut, paid |-> FALSE]
  <1>1. r \notin Answered /\ r \notin Answered'
    BY DEF Answered, Presenting
  <1>2. PaidOut' = PaidOut /\ Usable' = Usable
    BY <1>1, GrantsStay
  <1>3. Use(r)' = x
    BY DEF Use
  <1>4. Uses' = {Use(q) : q \in Presenting \ {r}}' \cup {Use(r)'}
    BY DEF Uses
  <1>5. Uses' = Uses \cup {x}
    BY <1>3, <1>4, OtherUsesStay DEF Uses
  <1>6. r \notin {y.by : y \in Uses}
    BY UseOwned DEF Uses, Presenting
  <1>7. Promise!Present(r, g)
    BY <1>2, <1>5, <1>6 DEF Promise!Present, Uses
  <1> QED
    BY <1>7 DEF PromiseStep, Promise!Next

\* A request in flight that is answered with tokens.
LEMMA IsPaid ==
    ASSUME NEW r \in Req, Alone(r), CodesKept, SameGrant(r),
           Redeemer(r), req[r].pc \in InFlight, req[r].late = FALSE, req'[r].pc = "done"
    PROVE  PromiseStep
  <1> DEFINE x == Use(r)
             y == Promise!Paid(x)
  <1>1. r \notin Answered /\ req[r].pc # "done" /\ r \in Presenting
    BY DEF Answered, InFlight, Minting, Presenting
  <1>2. r \in Answered' /\ r \in Presenting' /\ Presented(r)' = Presented(r)
    BY DEF Answered, Presenting, Redeemer, SameGrant, Presented
  <1>3. Answered' = Answered \cup {r}
    BY <1>2, OthersSame DEF Answered
  <1>4. \A q \in Answered \cup {r} : Presented(q)' = Presented(q) /\ req'[q].fam = req[q].fam
    BY <1>2, OthersSame DEF Answered, SameGrant
  <1>5. PaidOut' = PaidOut \cup {Presented(r)}
    BY <1>3, <1>4 DEF PaidOut
  <1>6. x \in Uses /\ x.on = Presented(r) /\ ~x.late /\ ~x.paid
    BY <1>1 DEF Uses, Use
  <1>7. Use(r)' = y
    <2>1. req'[r].late = FALSE /\ (req'[r].pc = "done") = TRUE
      BY DEF SameGrant
    <2>2. Use(r)' = [by |-> r, on |-> Presented(r), late |-> FALSE, paid |-> TRUE]
      BY <1>2, <2>1 DEF Use
    <2>3. x.by = r /\ x.on = Presented(r)
      BY DEF Use
    <2> QED
      BY <2>2, <2>3 DEF Promise!Paid
  <1>8. Uses' = {Use(q) : q \in Presenting \ {r}}' \cup {Use(r)'}
    BY <1>2 DEF Uses
  <1>9. Uses' = (Uses \ {x}) \cup {y}
    BY <1>1, <1>7, <1>8, OtherUsesStay, UsesButOne
  <1>10. Usable' = Usable \/ \E g \in OneTime \ Usable : Usable' = Usable \cup {g}
    <2>1. {f \in Fam : code'[f] # "absent"} = {f \in Fam : code[f] # "absent"}
      BY DEF CodesKept
    <2>2. CASE req[r].fam \in Offline
      <3>1. {q \in Answered' : req'[q].fam \in Offline}
            = {q \in Answered : req[q].fam \in Offline} \cup {r}
        BY <1>3, <1>4, <2>2
      <3>2. Usable' = Usable \cup {RefreshToken(r)}
        BY <2>1, <3>1 DEF Usable
      <3>3. RefreshToken(r) \in OneTime
        BY DEF OneTime
      <3> QED
        BY <3>2, <3>3
    <2>3. CASE req[r].fam \notin Offline
      <3>1. {q \in Answered' : req'[q].fam \in Offline}
            = {q \in Answered : req[q].fam \in Offline}
        BY <1>3, <1>4, <2>3
      <3> QED
        BY <2>1, <3>1 DEF Usable
    <2> QED
      BY <2>2, <2>3
  <1> HIDE DEF x, y
  <1>11. PaidOut' = PaidOut \cup {x.on}
    BY <1>5, <1>6
  <1>12. y = Promise!Paid(x)
    BY DEF y
  <1>13. Promise!Pay(x)
    BY <1>6, <1>9, <1>10, <1>11, <1>12 DEF Promise!Pay, Uses
  <1> QED
    BY <1>6, <1>13 DEF PromiseStep, Promise!Next, Uses

-----------------------------------------------------------------------------
(***************************************************************************)
(* The steps of a request, as the promise sees them.                        *)
(***************************************************************************)
Begun(r) ==
    /\ req[r].pc = "idle"
    /\ req'[r].kind = "redeem" => code[req'[r].fam] # "absent"
    /\ req'[r].kind = "refresh" => req'[r].fam \in Offline
    /\ \/ r \notin Presenting'
       \/ /\ r \in Presenting' /\ req'[r].pc # "done"
          /\ \E g \in Usable : Presented(r)' = g /\ req'[r].late = (g \in PaidOut)

Carried(r) ==
    /\ SameGrant(r)
    /\ \/ req[r].pc \in InFlight /\ req'[r].pc \in InFlight
       \/ req[r].pc \in InFlight /\ req'[r].pc = "failed"
       \/ Redeemer(r) /\ req[r].pc \in InFlight /\ req'[r].pc = "done"
       \/ r \notin Presenting /\ r \notin Presenting'

Seen(r) == Alone(r) /\ CodesKept /\ (Begun(r) \/ Carried(r))

\* A token request that is past the lookup did not come late.
LEMMA InFlightInTime ==
    ASSUME GrantInv, NEW r \in Req, Redeemer(r), req[r].pc \in InFlight
    PROVE  req[r].late = FALSE
  <1>1. ~req[r].late
    BY DEF GrantInv, CodeSpent, RefreshSpent, Redeemer, InFlight, Minting
  <1>2. req[r].late \in BOOLEAN
    BY DEF GrantInv, TypeOK, Request
  <1> QED
    BY <1>1, <1>2

LEMMA SeenIsPromised ==
    ASSUME GrantInv, NEW r \in Req, Seen(r)
    PROVE  PromiseStep
  <1>1. CASE Begun(r)
    <2>1. r \notin Presenting
      BY <1>1 DEF Begun, GrantInv, Coherent, Presenting, Redeemer
    <2> QED
      BY <1>1, <2>1, Unseen, Starts DEF Begun, Seen
  <1>2. CASE Carried(r)
    <2>1. CASE req[r].pc \in InFlight /\ req'[r].pc \in InFlight
      BY <1>2, <2>1, GoesOn DEF Carried, Seen
    <2>2. CASE req[r].pc \in InFlight /\ req'[r].pc = "failed"
      <3>1. r \notin Presenting' /\ req[r].pc # "done"
        BY <2>2 DEF Presenting, InFlight, Minting
      <3> QED
        BY <3>1, Unseen, GivesUp DEF Seen
    <2>3. CASE Redeemer(r) /\ req[r].pc \in InFlight /\ req'[r].pc = "done"
      <3>1. req[r].late = FALSE
        BY <2>3, InFlightInTime
      <3> QED
        BY <1>2, <2>3, <3>1, IsPaid DEF Carried, Seen
    <2>4. CASE r \notin Presenting /\ r \notin Presenting'
      BY <2>4, Unseen DEF Seen
    <2> QED
      BY <1>2, <2>1, <2>2, <2>3, <2>4 DEF Carried
  <1> QED
    BY <1>1, <1>2 DEF Seen

LEMMA SeenKeepsSourced ==
    ASSUME Sourced, NEW r \in Req, Seen(r), \A q \in Req : req'[q].kind = "redeem" => req'[q].fam \in Fam
    PROVE  Sourced'
  BY DEF Sourced, Seen, Alone, SameGrant, CodesKept, Begun, Carried

\* A request moves on.
LEMMA MovesSeen ==
    ASSUME GrantInv, NEW r \in Req, NEW p \in PC, Moves(r, p), CodesKept,
           \/ req[r].pc \in InFlight /\ p \in InFlight
           \/ req[r].pc \in InFlight /\ p = "failed"
           \/ Redeemer(r) /\ req[r].pc \in InFlight /\ p = "done"
           \/ req[r].kind \in RevokeKind \cup {"cc"}
           \/ req[r].pc \in {"list", "drop"} /\ p = "failed"
    PROVE  Seen(r)
  <1>1. Alone(r) /\ SameGrant(r) /\ req'[r].pc = p
    BY MovesFacts DEF GrantInv, Alone, SameGrant
  <1>2. ASSUME req[r].kind \in RevokeKind \cup {"cc"}
        PROVE  r \notin Presenting /\ r \notin Presenting'
    BY <1>1, <1>2 DEF Presenting, Redeemer, SameGrant, RevokeKind
  <1>3. ASSUME req[r].pc \in {"list", "drop"}, p = "failed"
        PROVE  r \notin Presenting /\ r \notin Presenting'
    BY <1>1, <1>3 DEF Presenting, InFlight, Minting
  <1> QED
    BY <1>1, <1>2, <1>3 DEF Seen, Carried

LEMMA StartedAlone ==
    ASSUME TypeOK, NEW r \in Req, NEW b \in Request, req' = [req EXCEPT ![r] = b]
    PROVE  Alone(r) /\ req'[r] = b
  BY StartFacts DEF Alone, SameGrant

LEMMA EndLegSeen ==
    ASSUME GrantInv, NEW r \in Req, NEW e \in BOOLEAN, EndLeg(r, e), CodesKept,
           req[r].pc \in {"list", "drop"}
    PROVE  Seen(r)
  <1>1. Alone(r) /\ SameGrant(r) /\ req'[r].pc \in {"list", "replayed", "failed", "deny"}
    BY EndLegFacts DEF GrantInv, Alone, SameGrant
  <1>2. r \notin Presenting /\ r \notin Presenting'
    BY <1>1 DEF Presenting, InFlight, Minting
  <1> QED
    BY <1>1, <1>2 DEF Seen, Carried

-----------------------------------------------------------------------------
(***************************************************************************)
(* One lemma per handler that starts something, then all steps.             *)
(***************************************************************************)
LEMMA RedeemGetCodeSeen ==
    ASSUME GrantInv, NEW r \in Req, NEW f \in Fam, RedeemGetCode(r, f)
    PROVE  Seen(r)
  <1> DEFINE spentBefore == \E q \in Req : /\ req[q].kind = "redeem"
                                           /\ req[q].fam = f
                                           /\ req[q].pc = "done"
             start(pc) == Begin("redeem", f, None, pc, spentBefore)
             b == IF ~CodeLive(f) THEN start("failed")
                  ELSE IF code[f] = "fresh" THEN start("pkce")
                  ELSE [start("list") EXCEPT !.doomed = Revocable(f)]
  <1>1. /\ req' = [req EXCEPT ![r] = b] /\ req[r].pc = "idle"
        /\ code[f] # "absent" /\ UNCHANGED <<now, stored, overtaken, lost>>
    BY DEF RedeemGetCode
  <1>2. TypeOK /\ spentBefore \in BOOLEAN /\ Revocable(f) \in SUBSET Token
    BY DEF GrantInv, Revocable
  <1>3. spentBefore <=> Code(f) \in PaidOut
    BY DEF Code, RefreshToken, PaidOut, Answered, Redeemer, Presented
  <1> HIDE DEF spentBefore
  <1>4. /\ b \in Request /\ b.kind = "redeem" /\ b.fam = f /\ b.late = spentBefore
        /\ b.pc \in {"failed", "pkce", "list"}
    <2>1. \A p \in {"failed", "pkce", "list"} : p \in PC
      BY DEF PC, InFlight, Terminal
    <2>2. \A p \in {"failed", "pkce", "list"} :
            /\ start(p) \in Request
            /\ start(p).kind = "redeem" /\ start(p).fam = f /\ start(p).late = spentBefore
            /\ start(p).pc = p
      BY <1>2, <2>1, BeginFacts
    <2> HIDE DEF start
    <2> QED
      BY <1>2, <2>2, DoomedFacts
  <1> HIDE DEF b
  <1>5. Alone(r) /\ req'[r] = b
    BY <1>1, <1>2, <1>4, StartedAlone
  <1>6. CodesKept
    BY <1>1 DEF CodesKept, stored
  <1>7. Presented(r)' = Code(f)
    BY <1>4, <1>5 DEF Presented
  <1>8. Code(f) \in Usable
    BY <1>1 DEF Usable
  <1>9. Begun(r)
    <2>1. r \in Presenting' => req'[r].pc = "pkce"
      BY <1>4, <1>5 DEF Presenting, InFlight, Minting
    <2>2. req'[r].late = (Code(f) \in PaidOut)
      BY <1>2, <1>3, <1>4, <1>5
    <2> QED
      BY <1>1, <1>4, <1>5, <1>7, <1>8, <2>1, <2>2 DEF Begun
  <1> QED
    BY <1>5, <1>6, <1>9 DEF Seen

LEMMA RefreshGetSeen ==
    ASSUME GrantInv, Sourced, NEW r \in Req, NEW t \in Req, RefreshGet(r, t)
    PROVE  Seen(r)
  <1> DEFINE usedBefore == \E q \in Req : /\ req[q].kind = "refresh"
                                          /\ req[q].on = t
                                          /\ req[q].pc = "done"
             p == IF Live("refresh", t) THEN "rt2" ELSE "failed"
             b == Begin("refresh", req[t].fam, t, p, usedBefore)
  <1>1. /\ req' = [req EXCEPT ![r] = b] /\ req[r].pc = "idle" /\ req[t].pc = "done"
        /\ req[t].kind = "refresh" \/ (req[t].kind = "redeem" /\ req[t].fam \in Offline)
        /\ UNCHANGED <<now, stored, overtaken, lost>>
    BY DEF RefreshGet
  <1>2. TypeOK /\ usedBefore \in BOOLEAN /\ p \in PC /\ req[t].fam \in Fam
    BY <1>1 DEF GrantInv, Coherent, PC, InFlight, Terminal
  <1>3. usedBefore <=> RefreshToken(t) \in PaidOut
    BY DEF Code, RefreshToken, PaidOut, Answered, Redeemer, Presented
  <1>p. p \in {"rt2", "failed"}
    OBVIOUS
  <1> HIDE DEF usedBefore, p
  <1>4. /\ b \in Request /\ b.kind = "refresh" /\ b.fam = req[t].fam /\ b.on = t
        /\ b.late = usedBefore /\ b.pc = p
    BY <1>2, BeginFacts
  <1> HIDE DEF b
  <1>5. Alone(r) /\ req'[r] = b
    BY <1>1, <1>2, <1>4, StartedAlone
  <1>6. CodesKept
    BY <1>1 DEF CodesKept, stored
  <1>7. Presented(r)' = RefreshToken(t)
    BY <1>4, <1>5 DEF Presented
  <1>8. req[t].fam \in Offline
    BY <1>1 DEF Sourced
  <1>9. RefreshToken(t) \in Usable
    BY <1>1, <1>8 DEF Usable, Answered, Redeemer
  <1>10. Begun(r)
    <2>1. r \in Presenting' => req'[r].pc = "rt2"
      BY <1>4, <1>5, <1>p DEF Presenting, InFlight, Minting
    <2>2. req'[r].late = (RefreshToken(t) \in PaidOut)
      BY <1>2, <1>3, <1>4, <1>5
    <2> QED
      BY <1>1, <1>4, <1>5, <1>7, <1>8, <1>9, <2>1, <2>2 DEF Begun
  <1> QED
    BY <1>5, <1>6, <1>10 DEF Seen

\* Requests of other kinds start outside the promise.
LEMMA OtherKindSeen ==
    ASSUME GrantInv, NEW r \in Req, NEW b \in Request, req[r].pc = "idle",
           req' = [req EXCEPT ![r] = b], b.kind \in RevokeKind \cup {"cc"}, CodesKept
    PROVE  Seen(r)
  <1>1. Alone(r) /\ req'[r] = b
    BY StartedAlone DEF GrantInv
  <1>2. r \notin Presenting'
    BY <1>1 DEF Presenting, Redeemer, RevokeKind
  <1> QED
    BY <1>1, <1>2 DEF Seen, Begun, RevokeKind

LEMMA ClientCredentialsSeen ==
    ASSUME GrantInv, NEW r \in Req, NEW f \in Fam, ClientCredentials(r, f)
    PROVE  Seen(r)
  <1> DEFINE b == Begin("cc", f, None, "setaccess", FALSE)
  <1>1. req[r].pc = "idle" /\ req' = [req EXCEPT ![r] = b] /\ UNCHANGED <<now, stored, overtaken, lost>>
    BY DEF ClientCredentials
  <1>2. b \in Request /\ b.kind = "cc"
    <2>1. now + AccessTTL \in Nat /\ now + RefreshTTL \in Nat
      BY TTLAssumption DEF GrantInv, TypeOK
    <2>2. "setaccess" \in PC
      BY DEF PC, InFlight, Minting
    <2> QED
      BY <2>1, <2>2 DEF Begin, Request
  <1> HIDE DEF b
  <1>3. CodesKept
    BY <1>1 DEF CodesKept, stored
  <1> QED
    BY <1>1, <1>2, <1>3, OtherKindSeen

LEMMA RevokeLookupSeen ==
    ASSUME GrantInv, NEW r \in Req, NEW k \in Kind, NEW t \in Req, RevokeLookup(r, k, t)
    PROVE  Seen(r)
  <1> DEFINE kind == IF k = "access" THEN "revokeA" ELSE "revokeR"
             start(pc) == Begin(kind, req[t].fam, t, pc, FALSE)
             b == IF Live(k, t)
                  THEN [start("list") EXCEPT !.doomed = Revocable(req[t].fam)]
                  ELSE start("deny")
  <1>1. /\ req' = [req EXCEPT ![r] = b] /\ req[r].pc = "idle" /\ req[t].pc = "done"
        /\ UNCHANGED <<now, stored, overtaken, lost>>
    BY DEF RevokeLookup
  <1>2. TypeOK /\ req[t].fam \in Fam /\ Revocable(req[t].fam) \in SUBSET Token
    BY <1>1 DEF GrantInv, Coherent, Revocable
  <1>3. kind \in {"revokeA", "revokeR"}
    OBVIOUS
  <1> HIDE DEF kind
  <1>4. b \in Request /\ b.kind = kind
    <2>1. {"list", "deny"} \subseteq PC
      BY DEF PC
    <2>2. now + AccessTTL \in Nat /\ now + RefreshTTL \in Nat
      BY <1>2, TTLAssumption DEF TypeOK
    <2>3. \A p \in {"list", "deny"} : start(p) \in Request /\ start(p).kind = kind
      BY <1>2, <1>3, <2>1, <2>2 DEF Begin, Request
    <2> HIDE DEF start
    <2> QED
      BY <1>2, <2>3, DoomedFacts
  <1> HIDE DEF b
  <1>5. CodesKept
    BY <1>1 DEF CodesKept, stored
  <1> QED
    BY <1>1, <1>3, <1>4, <1>5, OtherKindSeen DEF RevokeKind

LEMMA RevokeListSeen ==
    ASSUME GrantInv, NEW r \in Req, RevokeList(r)
    PROVE  Seen(r)
  <1>1. /\ req[r].pc = "list" /\ UNCHANGED <<now, stored, overtaken, lost>>
        /\ req' = [req EXCEPT ![r].pc = "drop", ![r].snap = Members(LegKind(r), req[r].fam)]
    BY DEF RevokeList
  <1>2. Alone(r) /\ SameGrant(r) /\ req'[r].pc = "drop"
    BY <1>1 DEF GrantInv, TypeOK, Request, Alone, SameGrant
  <1>3. r \notin Presenting /\ r \notin Presenting'
    BY <1>1, <1>2 DEF Presenting, InFlight, Minting
  <1> QED
    BY <1>1, <1>2, <1>3 DEF Seen, Carried, CodesKept, stored

LEMMA StepSeen ==
    ASSUME GrantInv, Sourced, NEW r \in Req,
           \/ Redeem(r) \/ Refresh(r) \/ Put(r) \/ Revoke(r) \/ Fail(r)
           \/ \E f \in Fam : ClientCredentials(r, f)
    PROVE  Seen(r)
  <1>c. code' = code => CodesKept
    BY DEF CodesKept
  <1>p. InFlight \cup {"failed", "done"} \subseteq PC
    BY DEF PC, Terminal
  <1>t. TypeOK
    BY DEF GrantInv
  <1>1. CASE Redeem(r)
    <2>1. CASE \E f \in Fam : RedeemGetCode(r, f)
      BY <2>1, RedeemGetCodeSeen
    <2>2. CASE \/ GetPKCERequestSession(r) \/ DeletePKCERequestSession(r)
               \/ RedeemGetCodeAgain(r) \/ InvalidateGet(r)
      <3>1. \E p \in {"pkceDel", "code2", "invGet", "invPut", "failed"} : Moves(r, p)
        BY <2>2 DEF GetPKCERequestSession, DeletePKCERequestSession, RedeemGetCodeAgain,
           InvalidateGet, GotoIf, Moves
      <3>2. code' = code /\ req[r].pc \in InFlight
        BY <2>2 DEF GetPKCERequestSession, DeletePKCERequestSession, RedeemGetCodeAgain,
           InvalidateGet, stored, InFlight
      <3>3. {"pkceDel", "code2", "invGet", "invPut"} \subseteq InFlight
        BY DEF InFlight
      <3> QED
        BY <1>c, <1>p, <3>1, <3>2, <3>3, MovesSeen
    <2>3. CASE InvalidatePut(r)
      <3>1. /\ req[r].pc = "invPut" /\ Goto(r, "setaccess")
            /\ code' = [code EXCEPT ![req[r].fam] = "spent"]
        BY <2>3 DEF InvalidatePut
      <3>2. req[r].kind = "redeem" /\ req[r].fam \in Fam /\ code[req[r].fam] # "absent"
        BY <3>1 DEF GrantInv, Coherent, Sourced
      <3>3. CodesKept
        BY <1>t, <3>1, <3>2 DEF TypeOK, CodesKept
      <3>4. "invPut" \in InFlight /\ "setaccess" \in InFlight
        BY DEF InFlight, Minting
      <3> QED
        BY <1>p, <3>1, <3>3, <3>4, MovesSeen DEF Moves
    <2>4. CASE GetOpenIDConnectSession(r) \/ DeleteOpenIDConnectSession(r)
      <3>1. \E p \in {"oidcDel", "done"} : Moves(r, p)
        BY <2>4 DEF GetOpenIDConnectSession, DeleteOpenIDConnectSession, Moves
      <3>2. code' = code /\ req[r].pc \in {"oidcGet", "oidcDel"}
        BY <2>4 DEF GetOpenIDConnectSession, DeleteOpenIDConnectSession, stored
      <3>3. Redeemer(r)
        BY <3>2 DEF GrantInv, Coherent, Redeemer
      <3>4. {"oidcGet", "oidcDel"} \subseteq InFlight
        BY DEF InFlight
      <3> QED
        BY <1>c, <1>p, <3>1, <3>2, <3>3, <3>4, MovesSeen
    <2> QED
      BY <1>1, <2>1, <2>2, <2>3, <2>4 DEF Redeem
  <1>2. CASE Refresh(r)
    <2>1. CASE \E t \in Req : RefreshGet(r, t)
      BY <2>1, RefreshGetSeen
    <2>2. CASE RefreshGetAgain(r) \/ RotateRefreshToken(r)
      <3>1. \E p \in {"rotate", "setaccess", "failed"} : Moves(r, p)
        BY <2>2 DEF RefreshGetAgain, RotateRefreshToken, GotoIf, Moves
      <3>2. code' = code /\ req[r].pc \in InFlight
        BY <2>2 DEF RefreshGetAgain, RotateRefreshToken, stored, InFlight
      <3>3. {"rotate", "setaccess"} \subseteq InFlight
        BY DEF InFlight, Minting
      <3> QED
        BY <1>c, <1>p, <3>1, <3>2, <3>3, MovesSeen
    <2> QED
      BY <1>2, <2>1, <2>2 DEF Refresh
  <1>3. CASE Put(r)
    <2>1. PICK k \in Kind : putPersisted(r, k) \/ SAddIndex(r, k)
      BY <1>3 DEF Put
    <2>2. code' = code /\ req[r].pc \in Minting
      BY <2>1 DEF putPersisted, SAddIndex, AddToIndex, SetPC, AddPC, Minting
    <2>3. req[r].kind \in {"redeem", "refresh", "cc"}
      BY <2>2 DEF GrantInv, Coherent
    <2>4. \E p \in {"addaccess", "addrefresh", "setrefresh", "oidcGet", "done"} : Moves(r, p)
      BY <2>1 DEF putPersisted, SAddIndex, AddToIndex, AddPC, AfterAdd, Moves
    <2>5. {"addaccess", "addrefresh", "setrefresh", "oidcGet"} \cup Minting \subseteq InFlight
      BY DEF InFlight, Minting
    <2> QED
      BY <1>c, <1>p, <2>2, <2>3, <2>4, <2>5, MovesSeen DEF Redeemer
  <1>4. CASE Revoke(r)
    <2>1. CASE \E k \in Kind, t \in Req : RevokeLookup(r, k, t)
      BY <2>1, RevokeLookupSeen
    <2>2. CASE RevokeList(r)
      BY <2>2, RevokeListSeen
    <2>3. CASE RevokeDrop(r) \/ RevokeLegError(r)
      <3>1. code' = code /\ req[r].pc \in {"list", "drop"}
        BY <2>3 DEF RevokeDrop, RevokeLegError, stored
      <3>2. EndLeg(r, req[r].err) \/ EndLeg(r, TRUE)
        BY <2>3 DEF RevokeDrop, RevokeLegError
      <3>3. req[r].err \in BOOLEAN
        BY <1>t DEF TypeOK, Request
      <3> QED
        BY <1>c, <3>1, <3>2, <3>3, EndLegSeen
    <2>4. CASE DenyJTI(r)
      <3>1. code' = code /\ Moves(r, "done") /\ req[r].pc = "deny"
        BY <2>4 DEF DenyJTI, Moves
      <3>2. req[r].kind \in RevokeKind
        BY <3>1 DEF GrantInv, Coherent
      <3> QED
        BY <1>c, <1>p, <3>1, <3>2, MovesSeen
    <2> QED
      BY <1>4, <2>1, <2>2, <2>3, <2>4 DEF Revoke
  <1>5. CASE Fail(r)
    <2>1. code' = code /\ Moves(r, "failed") /\ req[r].pc \notin Terminal \cup {"idle"}
      BY <1>5 DEF Fail, Moves, stored
    <2>2. req[r].pc \in InFlight \cup {"list", "drop", "deny"}
      BY <1>t, <2>1 DEF TypeOK, Request, PC
    <2>3. req[r].pc = "deny" => req[r].kind \in RevokeKind
      BY DEF GrantInv, Coherent
    <2> QED
      BY <1>c, <1>p, <2>1, <2>2, <2>3, MovesSeen
  <1>6. CASE \E f \in Fam : ClientCredentials(r, f)
    BY <1>6, ClientCredentialsSeen
  <1> QED
    BY <1>1, <1>2, <1>3, <1>4, <1>5, <1>6

-----------------------------------------------------------------------------
LEMMA NewAuthorizeResponseIssues ==
    ASSUME GrantInv, NEW f \in Fam, NewAuthorizeResponse(f)
    PROVE  PromiseStep
  <1>1. code[f] = "absent" /\ code' = [code EXCEPT ![f] = "fresh"] /\ req' = req
    BY DEF NewAuthorizeResponse
  <1>2. {g \in Fam : code'[g] # "absent"} = {g \in Fam : code[g] # "absent"} \cup {f}
    BY <1>1 DEF GrantInv, TypeOK
  <1>3. /\ Answered' = Answered /\ Presenting' = Presenting
        /\ \A r \in Req : Presented(r)' = Presented(r) /\ Use(r)' = Use(r)
    BY <1>1 DEF Answered, Presenting, Redeemer, Presented, Use
  <1>4. PaidOut' = PaidOut /\ Uses' = Uses
    BY <1>3 DEF PaidOut, Uses, Answered, Presenting
  <1>5. Usable' = Usable \cup {Code(f)}
    BY <1>1, <1>2, <1>3 DEF Usable
  <1>6. Code(f) \in OneTime
    BY DEF OneTime
  <1>7. CASE Code(f) \in Usable
    BY <1>4, <1>5, <1>7 DEF PromiseStep, Promise!vars, Uses
  <1>8. CASE Code(f) \notin Usable
    BY <1>4, <1>5, <1>6, <1>8 DEF PromiseStep, Promise!Next, Promise!Issue, Uses
  <1> QED
    BY <1>7, <1>8

LEMMA NextPromised ==
    ASSUME GrantInv, Sourced, [Next]_vars
    PROVE  PromiseStep /\ Sourced'
  <1>1. ASSUME NEW r \in Req,
               \/ Redeem(r) \/ Refresh(r) \/ Put(r) \/ Revoke(r) \/ Fail(r)
               \/ \E f \in Fam : ClientCredentials(r, f)
        PROVE  PromiseStep /\ Sourced'
    <2>1. Seen(r)
      BY <1>1, StepSeen
    <2>2. \A q \in Req : req'[q].kind = "redeem" => req'[q].fam \in Fam
      <3>1. GrantInv'
        BY NextGrantInv
      <3>2. \A q \in Req : req'[q].kind = "redeem" => req'[q].pc # "idle"
        BY <3>1 DEF GrantInv, Coherent
      <3> QED
        BY <3>1, <3>2 DEF GrantInv, Coherent
    <2> QED
      BY <2>1, <2>2, SeenIsPromised, SeenKeepsSourced
  <1>2. ASSUME NEW f \in Fam, NewAuthorizeResponse(f)
        PROVE  PromiseStep /\ Sourced'
    <2>1. Sourced'
      BY <1>2 DEF NewAuthorizeResponse, Sourced, GrantInv, TypeOK
    <2> QED
      BY <1>2, <2>1, NewAuthorizeResponseIssues
  <1>3. CASE Tick \/ UNCHANGED vars
    <2>1. req' = req /\ code' = code
      BY <1>3 DEF Tick, vars, stored
    <2>2. Sourced'
      BY <2>1 DEF Sourced
    <2>3. PaidOut' = PaidOut /\ Usable' = Usable /\ Uses' = Uses
      BY <2>1 DEF PaidOut, Usable, Uses, Answered, Presenting, Redeemer, Presented, Use
    <2> QED
      BY <2>2, <2>3 DEF PromiseStep, Promise!vars, Uses
  <1> QED
    BY <1>1, <1>2, <1>3 DEF Next

LEMMA InitPromised == Init => Sourced /\ Promise!Init
  <1> SUFFICES ASSUME Init PROVE Sourced /\ Promise!Init
    OBVIOUS
  <1>1. \A r \in Req : req[r].kind = "none" /\ req[r].pc = "idle"
    BY DEF Init, Idle
  <1>2. Answered = {} /\ Presenting = {}
    BY <1>1 DEF Answered, Presenting, Redeemer
  <1>3. {f \in Fam : code[f] # "absent"} = {}
    BY DEF Init
  <1>4. Usable = {} /\ PaidOut = {} /\ Uses = {}
    BY <1>2, <1>3 DEF Usable, PaidOut, Uses
  <1> QED
    BY <1>1, <1>4 DEF Sourced, Promise!Init, Uses

\* Every behaviour of the token store is one of OneTimeGrant: codes and refresh
\* tokens pay out once, whatever overlaps, fails or expires.
THEOREM StoreKeepsPromise == Spec => GrantsOnce
  <1>1. Init => Sourced /\ Promise!Init
    BY InitPromised
  <1>2. GrantInv /\ Sourced /\ [Next]_vars => [Promise!Next]_(Promise!vars) /\ Sourced'
    BY NextPromised DEF PromiseStep
  <1> QED
    BY <1>1, <1>2, GrantInvInvariant, PTL DEF Spec, GrantsOnce, Promise!Spec
=============================================================================
