------------------------------ MODULE TokenClaims ------------------------------
(***************************************************************************)
(* What the tokens say about a person: subject, customer, roles, and who    *)
(* acts for whom (internal/idp).                                            *)
(*                                                                         *)
(* finishAuthorizationFosite copies the account into the session that is    *)
(* stored with the code.  Every token of that grant is made of this copy,   *)
(* and a token exchange makes tokens of tokens.  Accounts are edited in the *)
(* backend meanwhile.  Whether a token may still be issued or used is the   *)
(* subject of TokenStore and AccessTokens, the key that signs it that of    *)
(* SigningKeys; here a grant is paid and a token exchanged at any time.     *)
(* Names carry the prefix Claims where another component has the same.      *)
(***************************************************************************)
EXTENDS FiniteSets

CONSTANTS
    User,
    Role,
    Customer,
    Records,   \* what the backend may hold of an account
    Grant,     \* logins that end with a code
    Owner,     \* Owner[g]: the user that signs in
    Token,     \* access tokens
    Nil

ASSUME ClaimsAssumption ==
    /\ Records \subseteq [active : BOOLEAN, cid : Customer \cup {Nil},
                          roles : SUBSET Role, role : Role \cup {Nil}]
    /\ Nil \notin Records \cup Grant
    /\ Owner \in [Grant -> User]

VARIABLES
    account,   \* account[u]: what the backend holds of user u
    session,   \* session[g]: the claims in the fosite session of grant g
    tok,       \* tok[t]: the claims of token t, who acts (act) and who may (may_act)
    copied,    \* history: copied[g], the account of the owner when the code was issued
    chain      \* history: chain[t], the grant t goes back to and the actors on the way

claimsVars == <<account, session, tok, copied, chain>>

NoClaims == [sub |-> Nil, verified |-> FALSE, customer |-> Nil, roles |-> {}]

\* Mutant: the role is taken without asking whether the account has one.
BuildClaimsUnasked(u, a) ==
    [sub |-> u, verified |-> a.active, customer |-> a.cid, roles |-> {a.role}]

\* A single role takes the place of the roles.  A role that the backend delivers as
\* null or as the empty string counts as none here; the code lists it as one role.
BuildClaims(u, a) ==
    [sub |-> u, verified |-> a.active, customer |-> a.cid,
     roles |-> IF a.role = Nil THEN a.roles ELSE {a.role}]

\* The session when the account cannot be fetched.
SubjectOnly(u) == [NoClaims EXCEPT !.sub = u]

Unissued == [claims |-> NoClaims, act |-> Nil, may_act |-> Nil]
Unrooted == [issued |-> FALSE, root |-> Nil, actors |-> {}]

ClaimsInit ==
    /\ account \in [User -> Records]
    /\ session = [g \in Grant |-> NoClaims]
    /\ tok = [t \in Token |-> Unissued]
    /\ copied = [g \in Grant |-> Nil]
    /\ chain = [t \in Token |-> Unrooted]

\* The users of the backend are edited elsewhere.
EditAccount(u, a) ==
    /\ account' = [account EXCEPT ![u] = a]
    /\ UNCHANGED <<session, tok, copied, chain>>

\* Mutant: the session may be made again, of what the account has become.
newFositeSessionAgain(g) ==
    LET u == Owner[g]
    IN  /\ \E claims \in {BuildClaims(u, account[u]), SubjectOnly(u)} :
              session' = [session EXCEPT ![g] = claims]
        /\ copied' = [copied EXCEPT ![g] = IF @ = Nil THEN account[u] ELSE @]
        /\ UNCHANGED <<account, tok, chain>>

newFositeSession(g) ==
    LET u == Owner[g]
    IN  /\ copied[g] = Nil
        /\ \E claims \in {BuildClaims(u, account[u]), SubjectOnly(u)} :
              session' = [session EXCEPT ![g] = claims]
        /\ copied' = [copied EXCEPT ![g] = account[u]]
        /\ UNCHANGED <<account, tok, chain>>

Sign(t, claims, act, may, root, actors) ==
    /\ ~chain[t].issued
    /\ tok' = [tok EXCEPT ![t] = [claims |-> claims, act |-> act, may_act |-> may]]
    /\ chain' = [chain EXCEPT ![t] = [issued |-> TRUE, root |-> root, actors |-> actors]]
    /\ UNCHANGED <<account, session, copied>>

\* A code is redeemed or a refresh token used: the stored session is signed again.
NewAccessResponse(g, t) ==
    /\ copied[g] # Nil
    /\ Sign(t, session[g], Nil, Nil, g, {})

\* client_credentials: a session without a subject, for this token only.
populateClientTokenSession(t) == Sign(t, NoClaims, Nil, Nil, Nil, {})

-----------------------------------------------------------------------------
(***************************************************************************)
(* tokenExchange starts from all claims of the subject token s.             *)
(***************************************************************************)

\* With an actor token a, act and may_act are replaced, but only when the actor has
\* a subject: the token of a client has none.
ExchangeForActor(s, a, t) ==
    LET subject == tok[s].claims.sub
        actor == tok[a].claims.sub
    IN  /\ chain[s].issued /\ chain[a].issued
        /\ Sign(t, tok[s].claims,
                IF actor = Nil THEN tok[s].act ELSE actor,
                IF actor = Nil \/ subject \in {Nil, actor} THEN tok[s].may_act ELSE subject,
                chain[s].root,
                chain[s].actors \cup ({actor} \ {Nil}))

\* Mutant: an exchange without an actor starts from the registered claims.
ExchangeForgetful(s, t) ==
    /\ chain[s].issued
    /\ Sign(t, tok[s].claims, Nil, Nil, chain[s].root, chain[s].actors)

\* Without an actor token act and may_act stay as they are.
ExchangeAlone(s, t) ==
    /\ chain[s].issued
    /\ Sign(t, tok[s].claims, tok[s].act, tok[s].may_act, chain[s].root, chain[s].actors)

ClaimsNext ==
    \/ \E u \in User, a \in Records : EditAccount(u, a)
    \/ \E g \in Grant : newFositeSession(g)
    \/ \E g \in Grant, t \in Token : NewAccessResponse(g, t)
    \/ \E t \in Token : populateClientTokenSession(t)
    \/ \E s, t \in Token : ExchangeAlone(s, t)
    \/ \E s, a, t \in Token : ExchangeForActor(s, a, t)

ClaimsSpec == ClaimsInit /\ [][ClaimsNext]_claimsVars

-----------------------------------------------------------------------------
ClaimSet == [sub : User \cup {Nil}, verified : BOOLEAN, customer : Customer \cup {Nil},
             roles : SUBSET Role]

\* Accounts, sessions, tokens and histories keep their types; the roles are
\* a list of roles whether the account has several or one.
ClaimsTypeOK ==
    /\ account \in [User -> Records]
    /\ session \in [Grant -> ClaimSet]
    /\ tok \in [Token -> [claims : ClaimSet, act : User \cup {Nil}, may_act : User \cup {Nil}]]
    /\ copied \in [Grant -> Records \cup {Nil}]
    /\ chain \in [Token -> [issued : BOOLEAN, root : Grant \cup {Nil}, actors : SUBSET User]]

\* However often a grant is refreshed or its tokens exchanged, subject, customer
\* and roles are those of one person at one moment, the login at the root; a
\* token never combines them with what the account became, or with an actor's
\* (newFositeSession, tokenExchange).  Without an account it has a subject only,
\* and without a login nothing.
OneAccount ==
    \A t \in Token :
        LET g == chain[t].root
        IN  tok[t].claims \in IF g = Nil THEN {NoClaims}
                              ELSE {BuildClaims(Owner[g], copied[g]), SubjectOnly(Owner[g])}

\* A delegation is not lost on the way: along a chain of exchanges (tokenExchange)
\* the token names an actor once one with a subject has presented its token, it
\* names none that has not, and it says that the subject may act exactly when
\* somebody else has acted for the subject.
DelegationKept ==
    \A t \in Token :
        LET actors == chain[t].actors
            sub == tok[t].claims.sub
        IN  /\ tok[t].act \in IF actors = {} THEN {Nil} ELSE actors
            /\ tok[t].may_act = IF actors \subseteq {sub} THEN Nil ELSE sub
=============================================================================
