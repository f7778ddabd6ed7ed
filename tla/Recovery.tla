------------------------------- MODULE Recovery -------------------------------
(***************************************************************************)
(* How a user gets a new password and a session: the forgotten-password     *)
(* link (BeginPasswordReset, CompletePasswordReset), sign-in with a password *)
(* the backend flagged (FinishLogin), and the forced change that follows    *)
(* (CompletePasswordChange).                                                *)
(*                                                                         *)
(* A reset link and a pending forced change are both artifacts in valkey    *)
(* that name a user; whoever presents the key may set that user's password. *)
(* A link reaches the person whose mail it was sent to; the id of an         *)
(* interaction is part of its URL, and nothing ties it to a browser: here    *)
(* anybody may post to any interaction.                                      *)
(* Requests run concurrently and every call to valkey or to the identity    *)
(* backend is one step.  Persons are identified with their accounts.        *)
(***************************************************************************)
EXTENDS Integers, FiniteSets

CONSTANTS
    User,         \* accounts, and the persons that own them
    Address,      \* email addresses
    Holder,       \* Holder[a]: the person who reads the mail of address a
    contact_email, \* the address at signup, None if there was none; kept as its hash
    recoveryEmail, \* the recovery address of the profile, or None
    Request,      \* concurrent HTTP requests
    Link,         \* reset tokens
    Page,         \* login interactions
    None,
    MaxFaults     \* bound on failed deletes and lost answers

\* The addresses of an account are read by the person that owns it.
ASSUME RecoveryAssumption ==
    /\ Holder \in [Address -> User]
    /\ contact_email \in [User -> Address \cup {None}]
    /\ recoveryEmail \in [User -> Address \cup {None}]
    /\ \A u \in User : \A a \in {contact_email[u], recoveryEmail[u]} \ {None} : Holder[a] = u
    /\ Link \cap Page = {}
    /\ None \notin User \cup Address \cup Link \cup Page
    /\ MaxFaults \in Nat

Key == Link \cup Page

VARIABLES
    usable,    \* accounts that are activated and neither suspended nor disabled
    flagged,   \* accounts whose password must be replaced
    open,      \* interactions that have not expired
    art,       \* art[k]: the user named by the artifact of key k, or None
    minted,    \* reset tokens handed out so far
    inbox,     \* inbox[p]: the links person p has received
    req,       \* the requests
    faults,    \* failed deletes and lost answers so far
    proved,    \* history: <<g, u>> when a flagged password of u was accepted at g
    uses,      \* history: uses[l], passwords set with link l (0, 1 or more)
    spent      \* history: links deleted after the password was set

env == <<usable, flagged, open>>
history == <<proved, uses, spent>>
vars == <<env, art, minted, inbox, req, faults, history>>

Free == [pc |-> "idle", by |-> None, sub |-> None, key |-> None, addr |-> None,
         late |-> FALSE]

Init ==
    /\ usable \in SUBSET User
    /\ flagged \in SUBSET User
    /\ open = Page
    /\ art = [k \in Key |-> None]
    /\ minted = {}
    /\ inbox = [p \in User |-> {}]
    /\ req = [r \in Request |-> Free]
    /\ faults = 0
    /\ proved = {}
    /\ uses = [l \in Link |-> 0]
    /\ spent = {}

Goto(r, pc) == req' = [req EXCEPT ![r].pc = pc]
End(r) == req' = [req EXCEPT ![r] = Free]
Fault == faults < MaxFaults /\ faults' = faults + 1

(***************************************************************************)
(* ForgotSubmit: somebody asks for a link for account u to address a.       *)
(***************************************************************************)
ForgotSubmit(r, u, a) ==
    /\ req[r].pc = "idle"
    /\ req' = [req EXCEPT ![r] = [Free EXCEPT !.pc = "find", !.sub = u, !.addr = a]]
    /\ UNCHANGED <<env, art, minted, inbox, faults, history>>

Usable(u) == u \in usable

FindByLogin(r) ==
    /\ req[r].pc = "find"
    /\ IF Usable(req[r].sub) THEN Goto(r, "verify") ELSE End(r)
    /\ UNCHANGED <<env, art, minted, inbox, faults, history>>

\* sha256, which nobody inverts: one value for each address.
sha256(a) == <<"sha256", a>>

\* The plaintext of the contact address is not stored.
RecoveryDestinations(u) ==
    {[Address |-> None, Hash |-> sha256(a)] : a \in {contact_email[u]} \ {None}}
        \cup {[Address |-> a, Hash |-> None] : a \in {recoveryEmail[u]} \ {None}}

destinationMatches(dests, a) ==
    \E d \in dests : \/ d.Address # None /\ d.Address = a
                     \/ d.Hash # None /\ d.Hash = sha256(a)

\* Mutant: the address the user typed is not compared with the destinations.
AnyDestination(r) ==
    /\ req[r].pc = "verify"
    /\ Goto(r, "store")
    /\ UNCHANGED <<env, art, minted, inbox, faults, history>>

\* Mutant: the link is mailed without having been stored.
MailUnstored(r) ==
    /\ req[r].pc = "verify"
    /\ IF destinationMatches(RecoveryDestinations(req[r].sub), req[r].addr) THEN Goto(r, "mail")
       ELSE End(r)
    /\ UNCHANGED <<env, art, minted, inbox, faults, history>>

VerifyDestination(r) ==
    /\ req[r].pc = "verify"
    /\ IF destinationMatches(RecoveryDestinations(req[r].sub), req[r].addr) THEN Goto(r, "store")
       ELSE End(r)
    /\ UNCHANGED <<env, art, minted, inbox, faults, history>>

\* The artifact is stored under a new random token; a failure ends the request.
StoreLink(r) ==
    /\ req[r].pc = "store"
    /\ \E l \in Link \ minted :
          /\ minted' = minted \cup {l}
          /\ art' = [art EXCEPT ![l] = req[r].sub]
          /\ req' = [req EXCEPT ![r].pc = "mail", ![r].key = l]
    /\ UNCHANGED <<env, inbox, faults, history>>

\* SendPasswordReset goes to the address the user typed.
SendPasswordReset(r) ==
    /\ req[r].pc = "mail"
    /\ inbox' = [inbox EXCEPT ![Holder[req[r].addr]] = @ \cup {req[r].key}]
    /\ End(r)
    /\ UNCHANGED <<env, art, minted, faults, history>>

(***************************************************************************)
(* FinishLogin for a person that knows the password of account p, at any    *)
(* interaction.                                                             *)
(***************************************************************************)
Login(r, p, g) ==
    /\ req[r].pc = "idle"
    /\ g \in open
    /\ req' = [req EXCEPT ![r] = [Free EXCEPT !.pc = "auth", !.by = p, !.sub = p, !.key = g]]
    /\ UNCHANGED <<env, art, minted, inbox, faults, history>>

\* The backend accepts the password and says whether it must be replaced.
Authenticate(r) ==
    /\ req[r].pc = "auth"
    /\ IF req[r].sub \in flagged
       THEN Goto(r, "accountFlagged") /\ proved' = proved \cup {<<req[r].key, req[r].sub>>}
       ELSE Goto(r, "account") /\ UNCHANGED proved
    /\ UNCHANGED <<env, art, minted, inbox, faults, uses, spent>>

FetchAccount(r) ==
    /\ req[r].pc \in {"account", "accountFlagged"}
    /\ IF ~Usable(req[r].sub) THEN End(r)
       ELSE Goto(r, IF req[r].pc = "account" THEN "session" ELSE "pending")
    /\ UNCHANGED <<env, art, minted, inbox, faults, history>>

\* ErrPasswordChangeRequired: the interaction remembers who must change.
PutPending(r) ==
    /\ req[r].pc = "pending"
    /\ art' = [art EXCEPT ![req[r].key] = req[r].sub]
    /\ End(r)
    /\ UNCHANGED <<env, minted, inbox, faults, history>>

(***************************************************************************)
(* ResetSubmit with a link from the mail, and ChangePassword at an          *)
(* interaction: read the artifact, set the password, delete the artifact,   *)
(* start a session.                                                         *)
(***************************************************************************)
SubmitPassword(r, p, k) ==
    /\ req[r].pc = "idle"
    /\ req' = [req EXCEPT ![r] = [Free EXCEPT !.pc = "get", !.by = p, !.key = k,
                                              !.late = (k \in spent)]]
    /\ UNCHANGED <<env, art, minted, inbox, faults, history>>

\* The token of a link that p was sent; the confirmation and the policy of the
\* new password are met.
ResetSubmit(r, p, l) == l \in inbox[p] /\ SubmitPassword(r, p, l)

\* Any interaction: the form proves nothing but its id.
ChangePassword(r, p, g) == SubmitPassword(r, p, g)

GetArtifact(r) ==
    LET sub == art[req[r].key]
    IN  /\ req[r].pc = "get"
        /\ IF sub = None THEN End(r)
           ELSE req' = [req EXCEPT ![r].pc = "set", ![r].sub = sub]
        /\ UNCHANGED <<env, art, minted, inbox, faults, history>>

\* The backend stores the password and answers, or the answer is lost and the
\* handler reports a failure.
SetPassword(r) ==
    LET k == req[r].key
    IN  /\ req[r].pc = "set"
        /\ uses' = [l \in Link |-> IF l = k /\ uses[l] < 2 THEN uses[l] + 1 ELSE uses[l]]
        /\ \E f \in SUBSET {req[r].sub} : flagged' = flagged \ f
        /\ \/ Goto(r, "delete") /\ UNCHANGED faults
           \/ End(r) /\ Fault
        /\ UNCHANGED <<usable, open, art, minted, inbox, proved, spent>>

\* Mutant: the artifact is left to its expiry.
KeepArtifact(r) ==
    /\ req[r].pc = "delete"
    /\ spent' = spent \cup ({req[r].key} \cap Link)
    /\ Goto(r, "session")
    /\ UNCHANGED <<env, art, minted, inbox, faults, proved, uses>>

\* The error of the delete is dropped.
DeleteArtifact(r) ==
    LET k == req[r].key
    IN  /\ req[r].pc = "delete"
        /\ Goto(r, "session")
        /\ \/ /\ art' = [art EXCEPT ![k] = None]
              /\ spent' = spent \cup ({k} \cap Link)
              /\ UNCHANGED faults
           \/ Fault /\ UNCHANGED <<art, spent>>
        /\ UNCHANGED <<env, minted, inbox, proved, uses>>

startSession(r) ==
    /\ req[r].pc = "session"
    /\ End(r)
    /\ UNCHANGED <<env, art, minted, inbox, faults, history>>

\* Any call may fail before it takes effect, and a client may hang up; after
\* the password is set only startSession is left to lose.
GiveUp(r) ==
    /\ req[r].pc \notin {"idle", "delete"}
    /\ End(r)
    /\ UNCHANGED <<env, art, minted, inbox, faults, history>>

(***************************************************************************)
(* Valkey expires artifacts, administrators change accounts.                *)
(***************************************************************************)
ExpireArtifact(k) ==
    /\ art[k] # None
    /\ art' = [art EXCEPT ![k] = None]
    /\ UNCHANGED <<env, minted, inbox, req, faults, history>>

ExpirePage(g) ==
    /\ g \in open
    /\ open' = open \ {g}
    /\ UNCHANGED <<usable, flagged, art, minted, inbox, req, faults, history>>

Disable(u) ==
    /\ u \in usable
    /\ usable' = usable \ {u}
    /\ UNCHANGED <<flagged, open, art, minted, inbox, req, faults, history>>

Step(r) ==
    \/ \E u \in User, a \in Address : ForgotSubmit(r, u, a)
    \/ \E p \in User, g \in Page : Login(r, p, g)
    \/ \E p \in User, l \in Link : ResetSubmit(r, p, l)
    \/ \E p \in User, g \in Page : ChangePassword(r, p, g)
    \/ FindByLogin(r)
    \/ VerifyDestination(r)
    \/ StoreLink(r)
    \/ SendPasswordReset(r)
    \/ Authenticate(r)
    \/ FetchAccount(r)
    \/ PutPending(r)
    \/ GetArtifact(r)
    \/ SetPassword(r)
    \/ DeleteArtifact(r)
    \/ startSession(r)
    \/ GiveUp(r)

Next ==
    \/ \E r \in Request : Step(r)
    \/ \E k \in Key : ExpireArtifact(k)
    \/ \E g \in Page : ExpirePage(g)
    \/ \E u \in User : Disable(u)

Spec == Init /\ [][Next]_vars

(***************************************************************************)
(* Properties.                                                              *)
(***************************************************************************)
Pc == {"idle", "find", "verify", "store", "mail", "auth", "account", "accountFlagged",
       "pending", "get", "set", "delete", "session"}

\* The types of the state.
TypeOK ==
    /\ usable \subseteq User /\ flagged \subseteq User
    /\ open \subseteq Page
    /\ art \in [Key -> User \cup {None}]
    /\ minted \subseteq Link
    /\ inbox \in [User -> SUBSET Link]
    /\ req \in [Request -> [pc : Pc, by : User \cup {None}, sub : User \cup {None},
                            key : Key \cup {None}, addr : Address \cup {None},
                            late : BOOLEAN]]
    /\ faults \in 0 .. MaxFaults
    /\ proved \subseteq Page \X User
    /\ uses \in [Link -> 0 .. 2]
    /\ spent \subseteq Link

\* The requests that set a password or start a session.
Acting == {r \in Request : req[r].pc \in {"set", "delete", "session"}}

\* Nobody sets the password of somebody else, or is signed in as somebody else,
\* by a mailed link or by signing in; and by the form of a forced change only as
\* an account whose flagged password was accepted at that interaction before.
\* That form asks for the id of the interaction alone: whoever has it may use it.
OnlyEntitled ==
    \A r \in Acting : \/ req[r].by = req[r].sub
                       \/ <<req[r].key, req[r].sub>> \in proved

\* The requests that present a link; past SetPassword they have what they came for.
Presenting == {r \in Request : /\ req[r].pc \in {"get", "set", "delete", "session"}
                              /\ req[r].key \in Link}
Use(r) == [by |-> r, on |-> req[r].key, late |-> req[r].late,
           paid |-> req[r].pc \in {"delete", "session"}]
Served == {l \in Link : uses[l] > 0}

Promise == INSTANCE OneTimeGrant WITH
    User <- Request,
    Grant <- Link,
    issued <- minted,
    served <- Served,
    closed <- spent,
    use <- {Use(r) : r \in Presenting}

\* Links keep the promise of OneTimeGrant: only a link that was minted sets a
\* password, only a link that has set one is deleted after use, and once
\* CompletePasswordReset has deleted it, a later submission sets none.
LinksOnce == Promise!Spec

\* "stores a single-use token" (BeginPasswordReset): one link sets one password.
ResetTokenUsedOnce == \A l \in Link : uses[l] < 2
===============================================================================
