------------------------------ MODULE TokenStore ------------------------------
(***************************************************************************)
(* The OAuth token store (internal/fositestore) over valkey (internal/kv),  *)
(* driven by the /oauth/token, /oauth/revoke and code-issuing handlers of   *)
(* internal/idp.  Every valkey command is one step; requests interleave     *)
(* freely and each may stop after any command (a kv error, a client that    *)
(* hangs up and cancels the request context, a crash of the process).       *)
(*                                                                         *)
(* An authorization code and all tokens descending from it carry the same   *)
(* fosite request id, their family.  The access and the refresh token that  *)
(* request r mints are named by r.  A key with a TTL is a deadline: the key *)
(* exists while now is before it, and 0 stands for a key that is not set.   *)
(***************************************************************************)
EXTENDS Integers, FiniteSets

CONSTANTS
    Req,          \* requests to the token and revocation endpoints
    Fam,          \* fosite request ids
    Offline,      \* families granted offline_access (a refresh token is due)
    OpenID,       \* families granted openid (an id_token session is stored)
    CodeTTL, AccessTTL, RefreshTTL,
    MaxTime,      \* bound on the clock
    None          \* no family, no token

ASSUME TTLAssumption ==
    /\ CodeTTL \in Nat \ {0}
    /\ AccessTTL \in Nat \ {0}
    /\ RefreshTTL \in Nat \ {0}
    /\ MaxTime \in Nat

ASSUME NameAssumption ==
    /\ Offline \subseteq Fam
    /\ OpenID \subseteq Fam
    /\ None \notin Fam \cup Req

VARIABLES
    now,
    code,      \* code[f]: "absent", "fresh" or "spent" (Invalidated)
    codeExp,   \* codeExp[f]: deadline of the code, PKCE and OpenID keys of f
    pkce,      \* families whose PKCE key is set
    oidc,      \* families whose OpenID Connect key is set
    tok,       \* tok["access"][r], tok["refresh"][r]: deadline of that key
    idx,       \* idx[k][f]: reverse index, its members and its deadline
    denied,    \* access tokens whose jti has a RevokedToken artifact
    req,       \* the requests
    overtaken, \* history: tokens whose index was given a shorter life than theirs
    lost       \* history: living tokens that went from the index undeleted

stored == <<code, codeExp, pkce, oidc, tok, idx, denied>>
vars == <<now, code, codeExp, pkce, oidc, tok, idx, denied, req, overtaken, lost>>

Kind == {"access", "refresh"}
Token == Kind \X Req

(***************************************************************************)
(* The valkey view of a key: what a read at this moment returns.            *)
(***************************************************************************)
CodeLive(f) == code[f] # "absent" /\ now < codeExp[f]
Live(k, t) == now < tok[k][t]
Members(k, f) == IF now < idx[k][f].exp THEN idx[k][f].members ELSE {}
Findable(k, f) == {t \in Members(k, f) : Live(k, t)}

\* An expired deadline still becomes a TTL of one second.
ttlFor(exp) == IF exp > now THEN exp ELSE now + 1

\* Mutant: the earliest deadline of the shared session.
expiryForEarliest(r, k) ==
    IF req[r].aexp < req[r].rexp THEN req[r].aexp ELSE req[r].rexp

\* The deadline that a stored session of kind k gets: its own, never the
\* earliest of the session it shares with the other token.
expiryFor(r, k) == IF k = "access" THEN req[r].aexp ELSE req[r].rexp

-----------------------------------------------------------------------------
(***************************************************************************)
(* Requests.                                                               *)
(***************************************************************************)
Idle == [kind |-> "none", pc |-> "idle", fam |-> None, on |-> None,
         aexp |-> 0, rexp |-> 0, leg |-> 1, snap |-> {}, err |-> FALSE,
         late |-> FALSE, doomed |-> {}]

Terminal == {"done", "failed", "replayed"}
Minting == {"setaccess", "addaccess", "setrefresh", "addrefresh"}
\* A token request that may still be answered with tokens.
InFlight == Minting \cup {"pkce", "pkceDel", "code2", "invGet", "invPut", "rt2", "rotate",
                         "oidcGet", "oidcDel"}
PC == {"idle", "list", "drop", "deny"} \cup InFlight \cup Terminal

\* Only a request that goes on to tokens gets deadlines.
Begin(kind, f, t, pc, late) ==
    [kind |-> kind, pc |-> pc, fam |-> f, on |-> t,
     aexp |-> IF pc \in InFlight THEN now + AccessTTL ELSE 0,
     rexp |-> IF pc \in InFlight THEN now + RefreshTTL ELSE 0,
     leg |-> 1, snap |-> {}, err |-> FALSE, late |-> late, doomed |-> {}]

Goto(r, pc) == req' = [req EXCEPT ![r].pc = pc]

\* The request is over, and what it had found is forgotten.
Stop(r) == req' = [req EXCEPT ![r].pc = "failed", ![r].aexp = 0, ![r].rexp = 0,
                              ![r].snap = {}, ![r].doomed = {}]
GotoIf(r, found, pc) == IF found THEN Goto(r, pc) ELSE Stop(r)

\* The tokens of f that the reverse index finds now: what a revocation that
\* begins at this moment has to kill.
Revocable(f) == {x \in Token : x[2] \in Findable(x[1], f)}

Init ==
    /\ now = 0
    /\ code = [f \in Fam |-> "absent"]
    /\ codeExp = [f \in Fam |-> 0]
    /\ pkce = {}
    /\ oidc = {}
    /\ tok = [k \in Kind |-> [r \in Req |-> 0]]
    /\ idx = [k \in Kind |-> [f \in Fam |-> [members |-> {}, exp |-> 0]]]
    /\ denied = {}
    /\ req = [r \in Req |-> Idle]
    /\ overtaken = {}
    /\ lost = {}

(***************************************************************************)
(* The authorization endpoint issues a code: the code, PKCE and OpenID      *)
(* Connect sessions are written one after the other, and the code reaches   *)
(* the client only when all of them are.  Nobody holds the code before      *)
(* that, so the writes are one step.                                        *)
(***************************************************************************)
NewAuthorizeResponse(f) ==
    /\ code[f] = "absent"
    /\ \A r \in Req : req[r].fam # f
    /\ code' = [code EXCEPT ![f] = "fresh"]
    /\ codeExp' = [codeExp EXCEPT ![f] = now + CodeTTL]
    /\ pkce' = pkce \cup {f}
    /\ oidc' = IF f \in OpenID THEN oidc \cup {f} ELSE oidc
    /\ UNCHANGED <<now, tok, idx, denied, req, overtaken, lost>>

-----------------------------------------------------------------------------
(***************************************************************************)
(* grant_type=authorization_code                                           *)
(***************************************************************************)

\* GetAuthorizeCodeSession: not found is invalid_grant; an invalidated code
\* makes fosite revoke the family; a fresh one sets the new deadlines.
RedeemGetCode(r, f) ==
    /\ req[r].pc = "idle"
    /\ code[f] # "absent"
    /\ LET spentBefore == \E q \in Req : /\ req[q].kind = "redeem"
                                         /\ req[q].fam = f
                                         /\ req[q].pc = "done"
           start(pc) == Begin("redeem", f, None, pc, spentBefore)
       IN  req' = [req EXCEPT ![r] =
                     IF ~CodeLive(f) THEN start("failed")
                     ELSE IF code[f] = "fresh" THEN start("pkce")
                     ELSE [start("list") EXCEPT !.doomed = Revocable(f)]]
    /\ UNCHANGED <<now, stored, overtaken, lost>>

GetPKCERequestSession(r) ==
    /\ req[r].pc = "pkce"
    /\ GotoIf(r, req[r].fam \in pkce /\ now < codeExp[req[r].fam], "pkceDel")
    /\ UNCHANGED <<now, stored, overtaken, lost>>

\* The PKCE session is deleted before the verifier is compared, so a wrong
\* verifier burns the code.
DeletePKCERequestSession(r) ==
    /\ req[r].pc = "pkceDel"
    /\ pkce' = pkce \ {req[r].fam}
    /\ \E verified \in BOOLEAN : GotoIf(r, verified, "code2")
    /\ UNCHANGED <<now, code, codeExp, oidc, tok, idx, denied, overtaken, lost>>

\* The response is written from a second read of the code: an invalidated code
\* is now an error that revokes nothing.
RedeemGetCodeAgain(r) ==
    /\ req[r].pc = "code2"
    /\ GotoIf(r, CodeLive(req[r].fam) /\ code[req[r].fam] = "fresh", "invGet")
    /\ UNCHANGED <<now, stored, overtaken, lost>>

\* InvalidateAuthorizeCodeSession is a read and a write of the whole session.
InvalidateGet(r) ==
    /\ req[r].pc = "invGet"
    /\ GotoIf(r, CodeLive(req[r].fam), "invPut")
    /\ UNCHANGED <<now, stored, overtaken, lost>>

\* The value keeps the code's own deadline, which every read honours: a code that
\* expired in between is written back and still not found.
InvalidatePut(r) ==
    /\ req[r].pc = "invPut"
    /\ code' = [code EXCEPT ![req[r].fam] = "spent"]
    /\ Goto(r, "setaccess")
    /\ UNCHANGED <<now, codeExp, pkce, oidc, tok, idx, denied, overtaken, lost>>

GetOpenIDConnectSession(r) ==
    /\ req[r].pc = "oidcGet"
    /\ Goto(r, IF req[r].fam \in oidc /\ now < codeExp[req[r].fam]
               THEN "oidcDel" ELSE "done")
    /\ UNCHANGED <<now, stored, overtaken, lost>>

DeleteOpenIDConnectSession(r) ==
    /\ req[r].pc = "oidcDel"
    /\ oidc' = oidc \ {req[r].fam}
    /\ Goto(r, "done")
    /\ UNCHANGED <<now, code, codeExp, pkce, tok, idx, denied, overtaken, lost>>

-----------------------------------------------------------------------------
(***************************************************************************)
(* grant_type=refresh_token, with the refresh token that request t minted.  *)
(***************************************************************************)
RefreshGet(r, t) ==
    /\ req[r].pc = "idle"
    /\ req[t].pc = "done"
    /\ req[t].kind = "refresh" \/ (req[t].kind = "redeem" /\ req[t].fam \in Offline)
    /\ LET usedBefore == \E q \in Req : /\ req[q].kind = "refresh"
                                        /\ req[q].on = t
                                        /\ req[q].pc = "done"
       IN  req' = [req EXCEPT ![r] =
                     Begin("refresh", req[t].fam, t,
                           IF Live("refresh", t) THEN "rt2" ELSE "failed",
                           usedBefore)]
    /\ UNCHANGED <<now, stored, overtaken, lost>>

RefreshGetAgain(r) ==
    /\ req[r].pc = "rt2"
    /\ GotoIf(r, Live("refresh", req[r].on), "rotate")
    /\ UNCHANGED <<now, stored, overtaken, lost>>

\* Mutant: the presented refresh token is not deleted.
RotateNothing(r) ==
    /\ req[r].pc = "rotate"
    /\ Goto(r, "setaccess")
    /\ UNCHANGED <<now, stored, overtaken, lost>>

\* Deletes the presented refresh token only; its index entry stays, and the
\* access tokens of the family stay valid.
RotateRefreshToken(r) ==
    /\ req[r].pc = "rotate"
    /\ tok' = [tok EXCEPT !["refresh"][req[r].on] = 0]
    /\ Goto(r, "setaccess")
    /\ UNCHANGED <<now, code, codeExp, pkce, oidc, idx, denied, overtaken, lost>>

(***************************************************************************)
(* grant_type=client_credentials: an access token in a family of its own.   *)
(***************************************************************************)
ClientCredentials(r, f) ==
    /\ req[r].pc = "idle"
    /\ code[f] = "absent"
    /\ \A q \in Req : req[q].fam # f
    /\ req' = [req EXCEPT ![r] = Begin("cc", f, None, "setaccess", FALSE)]
    /\ UNCHANGED <<now, stored, overtaken, lost>>

-----------------------------------------------------------------------------
(***************************************************************************)
(* put for access and refresh tokens: SET of the session, then SADD of its  *)
(* key to the reverse index (one MULTI with the EXPIRE of the index).       *)
(***************************************************************************)
SetPC(k) == IF k = "access" THEN "setaccess" ELSE "setrefresh"
AddPC(k) == IF k = "access" THEN "addaccess" ELSE "addrefresh"

AfterAdd(r, k) ==
    IF req[r].kind = "cc" THEN "done"
    ELSE IF k = "access" /\ req[r].fam \in Offline THEN "setrefresh"
    ELSE IF req[r].kind = "redeem" THEN "oidcGet" ELSE "done"

putPersisted(r, k) ==
    /\ req[r].pc = SetPC(k)
    /\ tok' = [tok EXCEPT ![k][r] = expiryFor(r, k)]
    /\ Goto(r, AddPC(k))
    /\ UNCHANGED <<now, code, codeExp, pkce, oidc, idx, denied, overtaken, lost>>

\* SADD refreshes the TTL of the whole index, which shortens it when an older
\* request adds its token last.
AddToIndex(r, k, exp) ==
    LET f == req[r].fam
        members == Members(k, f) \cup {r}
    IN  /\ req[r].pc = AddPC(k)
        /\ idx' = [idx EXCEPT ![k][f] = [members |-> members, exp |-> exp]]
        /\ overtaken' = overtaken \cup ({k} \X {t \in members : tok[k][t] > exp})
        /\ Goto(r, AfterAdd(r, k))
        /\ UNCHANGED <<now, code, codeExp, pkce, oidc, tok, denied, lost>>

\* Mutant: the index of either kind gets the deadline of the access token.
SAddIndexAccessTTL(r, k) == AddToIndex(r, k, ttlFor(req[r].aexp))

SAddIndex(r, k) == AddToIndex(r, k, ttlFor(expiryFor(r, k)))

-----------------------------------------------------------------------------
(***************************************************************************)
(* /oauth/revoke, presenting the token of kind k that request t minted.     *)
(***************************************************************************)

\* An unknown token is not an error: the request goes straight on to the
\* RevokedToken artifact.
RevokeLookup(r, k, t) ==
    /\ req[r].pc = "idle"
    /\ req[t].pc = "done"
    /\ req[t].kind \in {"redeem", "refresh", "cc"}
    /\ k = "refresh" => req[t].kind # "cc" /\ req[t].fam \in Offline
    /\ LET start(pc) == Begin(IF k = "access" THEN "revokeA" ELSE "revokeR",
                              req[t].fam, t, pc, FALSE)
       IN  req' = [req EXCEPT ![r] =
                     IF Live(k, t)
                     THEN [start("list") EXCEPT !.doomed = Revocable(req[t].fam)]
                     ELSE start("deny")]
    /\ UNCHANGED <<now, stored, overtaken, lost>>

\* A replayed code revokes access tokens first, /oauth/revoke refresh tokens.
LegKind(r) == IF (req[r].kind = "redeem") = (req[r].leg = 1)
              THEN "access" ELSE "refresh"

AfterLegs(r, err) ==
    IF req[r].kind = "redeem" THEN "replayed"
    ELSE IF err THEN "failed" ELSE "deny"

\* Mutant: the leg counter runs past the two legs.
EndLegOverrun(r, err) ==
    req' = [req EXCEPT ![r].pc = IF req[r].leg = 1 THEN "list" ELSE AfterLegs(r, err),
                       ![r].leg = req[r].leg + 1,
                       ![r].err = err,
                       ![r].snap = {}]

EndLeg(r, err) ==
    req' = [req EXCEPT ![r].pc = IF req[r].leg = 1 THEN "list" ELSE AfterLegs(r, err),
                       ![r].leg = 2,
                       ![r].err = err,
                       ![r].snap = {}]

\* revokeByRequestID: SMEMBERS, then one DEL of the members and of the index.
RevokeList(r) ==
    /\ req[r].pc = "list"
    /\ req' = [req EXCEPT ![r].pc = "drop",
                          ![r].snap = Members(LegKind(r), req[r].fam)]
    /\ UNCHANGED <<now, stored, overtaken, lost>>

\* Mutant: only the index is deleted, not the sessions it lists.
RevokeDropIndexOnly(r) ==
    /\ req[r].pc = "drop"
    /\ idx' = [idx EXCEPT ![LegKind(r)][req[r].fam] = [members |-> {}, exp |-> 0]]
    /\ EndLeg(r, req[r].err)
    /\ UNCHANGED <<now, code, codeExp, pkce, oidc, tok, denied, overtaken, lost>>

RevokeDrop(r) ==
    LET k == LegKind(r)
        f == req[r].fam
    IN  /\ req[r].pc = "drop"
        /\ tok' = [tok EXCEPT ![k] =
                     [t \in Req |-> IF t \in req[r].snap THEN 0 ELSE tok[k][t]]]
        /\ idx' = [idx EXCEPT ![k][f] = [members |-> {}, exp |-> 0]]
        /\ lost' = lost \cup ({k} \X (Members(k, f) \ req[r].snap))
        /\ EndLeg(r, req[r].err)
        /\ UNCHANGED <<now, code, codeExp, pkce, oidc, denied, overtaken>>

\* A kv error ends one leg; fosite still runs the other one.
RevokeLegError(r) ==
    /\ req[r].pc \in {"list", "drop"}
    /\ EndLeg(r, TRUE)
    /\ UNCHANGED <<now, stored, overtaken, lost>>

\* revokeLegacyJWTIfOwned: only a JWT access token has a jti, and an error is
\* swallowed: the response is 200 whether or not the artifact was stored.
DenyJTI(r) ==
    /\ req[r].pc = "deny"
    /\ \/ req[r].kind = "revokeA" /\ denied' = denied \cup {req[r].on}
       \/ denied' = denied
    /\ Goto(r, "done")
    /\ UNCHANGED <<now, code, codeExp, pkce, oidc, tok, idx, overtaken, lost>>

-----------------------------------------------------------------------------
\* Any request may stop between two commands.
Fail(r) ==
    /\ req[r].pc \notin Terminal \cup {"idle"}
    /\ Stop(r)
    /\ UNCHANGED <<now, stored, overtaken, lost>>

\* An index that expires takes its members out of the reach of revocations, also
\* those that live on.
Tick ==
    /\ now < MaxTime
    /\ now' = now + 1
    /\ lost' = lost \cup {x \in Token : /\ tok[x[1]][x[2]] > now'
                                        /\ \E f \in Fam : /\ x[2] \in Members(x[1], f)
                                                          /\ idx[x[1]][f].exp <= now'}
    /\ UNCHANGED <<stored, req, overtaken>>

Redeem(r) ==
    \/ \E f \in Fam : RedeemGetCode(r, f)
    \/ GetPKCERequestSession(r)
    \/ DeletePKCERequestSession(r)
    \/ RedeemGetCodeAgain(r)
    \/ InvalidateGet(r)
    \/ InvalidatePut(r)
    \/ GetOpenIDConnectSession(r)
    \/ DeleteOpenIDConnectSession(r)

Refresh(r) ==
    \/ \E t \in Req : RefreshGet(r, t)
    \/ RefreshGetAgain(r)
    \/ RotateRefreshToken(r)

Put(r) == \E k \in Kind : putPersisted(r, k) \/ SAddIndex(r, k)

Revoke(r) ==
    \/ \E k \in Kind, t \in Req : RevokeLookup(r, k, t)
    \/ RevokeList(r)
    \/ RevokeDrop(r)
    \/ RevokeLegError(r)
    \/ DenyJTI(r)

Next ==
    \/ \E f \in Fam : NewAuthorizeResponse(f)
    \/ \E r \in Req : Redeem(r)
    \/ \E r \in Req : Refresh(r)
    \/ \E r \in Req, f \in Fam : ClientCredentials(r, f)
    \/ \E r \in Req : Put(r)
    \/ \E r \in Req : Revoke(r)
    \/ \E r \in Req : Fail(r)
    \/ Tick

Spec == Init /\ [][Next]_vars

-----------------------------------------------------------------------------
(***************************************************************************)
(* Properties.                                                             *)
(***************************************************************************)
Request ==
    [kind : {"none", "redeem", "refresh", "cc", "revokeA", "revokeR"},
     pc : PC, fam : Fam \cup {None}, on : Req \cup {None},
     aexp : Nat, rexp : Nat, leg : {1, 2}, snap : SUBSET Req, err : BOOLEAN,
     late : BOOLEAN, doomed : SUBSET Token]

\* The stored sessions, the reverse index and the requests keep their types.
TypeOK ==
    /\ now \in Nat
    /\ code \in [Fam -> {"absent", "fresh", "spent"}]
    /\ codeExp \in [Fam -> Nat]
    /\ pkce \subseteq Fam
    /\ oidc \subseteq Fam
    /\ tok \in [Kind -> [Req -> Nat]]
    /\ idx \in [Kind -> [Fam -> [members : SUBSET Req, exp : Nat]]]
    /\ denied \subseteq Req
    /\ req \in [Req -> Request]
    /\ overtaken \subseteq Token
    /\ lost \subseteq Token

\* A one-time grant that has already paid out is refused: a token request that
\* begins after another request was answered with tokens for the same code, or
\* the same refresh token, is never answered with tokens.  Two requests that
\* overlap may both succeed; InvalidateAuthorizeCodeSession and
\* RotateRefreshToken only have to stop the ones that come later.
SpentGrantRejected == \A r \in Req : req[r].late => req[r].pc # "done"

(***************************************************************************)
(* Codes and refresh tokens are one-time grants.  A refresh token is named  *)
(* by the request that minted it.                                           *)
(***************************************************************************)
Code(f) == <<"code", f>>
RefreshToken(t) == <<"refresh", t>>
OneTime == {Code(f) : f \in Fam} \cup {RefreshToken(t) : t \in Req}

Redeemer(r) == req[r].kind \in {"redeem", "refresh"}
Presented(r) == IF req[r].kind = "redeem" THEN Code(req[r].fam) ELSE RefreshToken(req[r].on)

Answered == {r \in Req : req[r].pc = "done" /\ Redeemer(r)}
PaidOut == {Presented(r) : r \in Answered}
Usable == {Code(f) : f \in {f \in Fam : code[f] # "absent"}} \cup
          {RefreshToken(r) : r \in {r \in Answered : req[r].fam \in Offline}}
Presenting == {r \in Req : Redeemer(r) /\ req[r].pc \in InFlight \cup {"done"}}
Use(r) == [by |-> r, on |-> Presented(r), late |-> req[r].late, paid |-> req[r].pc = "done"]

Promise == INSTANCE OneTimeGrant WITH
    User <- Req,
    Grant <- OneTime,
    issued <- Usable,
    served <- PaidOut,
    closed <- PaidOut,
    use <- {Use(r) : r \in Presenting}

\* Codes and refresh tokens keep the promise of OneTimeGrant: a response with
\* tokens closes the grant it was made for, only a code that was issued or a
\* refresh token that was in a response is presented, and only by its own answer
\* does a request bring a new refresh token into the world.
GrantsOnce == Promise!Spec

\* VerifyAccessToken and the refresh grant accept a token of kind k.
Accepted(k, t) == Live(k, t) /\ (k = "access" => t \notin denied)

Revoked(r) == \/ req[r].pc = "replayed" /\ ~req[r].err
              \/ req[r].pc = "done" /\ req[r].kind \in {"revokeA", "revokeR"}

\* A revocation that reports success (/oauth/revoke, or the replay of a spent
\* code) kills every token of the family that the reverse index could find when
\* it began.  Two ways out are the code's own, and the only ones: another
\* revocation dropped the token from the index without deleting it
\* (revokeByRequestID lists and deletes in two commands), or the index expired
\* before the token did, because SADD had shortened its life (put, kv.SAdd).
RevocationKillsFindable ==
    \A r \in Req : Revoked(r) =>
        \A x \in req[r].doomed : ~Accepted(x[1], x[2]) \/ x \in lost

\* r gives the index a shorter life than the key of kind k that t has set, because t
\* began after r did; or r deletes the index although t is not in the list it read.
Overtakes(r, k, t) == req[r].pc = AddPC(k) /\ expiryFor(r, k) < tok[k][t]
Misses(r, k, t) ==
    /\ req[r].pc = "drop" /\ LegKind(r) = k
    /\ t \in Members(k, req[r].fam) \ req[r].snap

Sibling(r, t) == r # t /\ req[r].fam = req[t].fam

OverlapLoses ==
    /\ \A x \in lost' \ lost :
          x \in overtaken \/ \E r \in Req : Sibling(r, x[2]) /\ Misses(r, x[1], x[2])
    /\ \A x \in overtaken' \ overtaken :
          \E r \in Req : Sibling(r, x[2]) /\ Overtakes(r, x[1], x[2])

\* A living token leaves the reverse index, and so the reach of revocations, only
\* by another request of its family that overlaps its own: a revocation that had
\* read the index before it was added, or a token request with an older deadline
\* that adds its token later and shortens the index below the token's life.  A
\* family whose requests do not overlap loses nothing.
LossNeedsOverlap == [][OverlapLoses]_vars

\* A request that may have deleted the token of kind k that t minted.
Removed(k, t) ==
    \E q \in Req :
        \/ /\ k = "refresh"
           /\ req[q].kind = "refresh"
           /\ req[q].on = t
           /\ req[q].pc \in Minting \cup {"done", "failed"}
        \/ /\ req[q].fam = req[t].fam
           /\ \/ req[q].kind \in {"revokeA", "revokeR"}
              \/ req[q].kind = "redeem" /\ req[q].pc \in {"list", "drop", "replayed", "failed"}
           /\ req[q].leg = 2

\* A token the client was given stays valid for its own lifespan: it only goes
\* earlier because it was rotated (a refresh token) or because its family was
\* revoked.  A refresh in particular kills no access token, and a refresh token
\* survives the access token of its session (the comment in put).
TokenKept ==
    \A r \in Req :
        req[r].pc = "done" /\ req[r].kind \in {"redeem", "refresh", "cc"} =>
            /\ now < req[r].aexp => Live("access", r) \/ Removed("access", r)
            /\ /\ now < req[r].rexp
               /\ req[r].kind # "cc"
               /\ req[r].fam \in Offline
               => Live("refresh", r) \/ Removed("refresh", r)
=============================================================================
