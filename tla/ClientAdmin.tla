----------------------------- MODULE ClientAdmin ------------------------------
(***************************************************************************)
(* Administration of OAuth clients (internal/handlers admin.go, self.go)    *)
(* over the oidc_clients table: the global routes of the API key and the    *)
(* GUI, the tenant routes of administrators' tokens and the self-service    *)
(* routes whose decisions the claims authorizer makes.                      *)
(*                                                                         *)
(* A handler reads the row, decides, and writes the whole row back in three *)
(* steps, with nothing that ties the write to the read.  A write may take    *)
(* effect although its answer is lost.  The error of EncryptSecret, which    *)
(* the handlers drop when they rotate, cannot occur: the key has 32 bytes    *)
(* and Go's random source does not fail.                                    *)
(***************************************************************************)
EXTENDS Integers, FiniteSets

CONSTANTS
    Customer,      \* tenants
    Row,           \* primary keys, random and used once
    Secret,        \* client secrets
    Request,       \* concurrent HTTP requests
    None

ASSUME AdminAssumption ==
    None \notin Customer \cup Row \cup Secret

Tenancy == Customer \cup {None}
Op == {"update", "rotate", "delete", "get"}

\* The route, the customer_id claim and, on the self-service routes, whether
\* the token has an administrator's role.
Nobody == [route |-> "global", cust |-> None, admin |-> FALSE]
Caller == {Nobody} \cup [route : {"tenant"}, cust : Tenancy, admin : {TRUE}]
                  \cup [route : {"self"}, cust : Tenancy, admin : BOOLEAN]

\* Whom the routes of admin.go serve, and whom those of self.go.
Admins == {who \in Caller : who.route # "self"}
Identities == {who \in Caller : who.route = "self"}

VARIABLES
    row,       \* row[i]: the client, or NoClient
    used,      \* primary keys inserted so far
    req,       \* the requests
    told,      \* history: told[i], the secret that the caller of the last creation
               \* or rotation of i to take effect was told; None when that answer
               \* was lost, or a stale update wrote after it
    stale      \* history: updates that have read the row and not yet written it,
               \* and a rotation took effect in between

history == <<told, stale>>
vars == <<row, used, req, history>>

NoClient == [live |-> FALSE, owner |-> None, secret |-> None]
Free == [pc |-> "idle", who |-> Nobody, op |-> "get", id |-> None, copy |-> NoClient,
         seen |-> {}]

Init ==
    /\ row = [i \in Row |-> NoClient]
    /\ used = {}
    /\ req = [r \in Request |-> Free]
    /\ told = [i \in Row |-> None]
    /\ stale = {}

\* A new random secret is none that anybody has for this client.
Fresh(s, i) == /\ s # row[i].secret
               /\ \A q \in Request : req[q].id = i => req[q].copy.secret # s

End(r) == req' = [req EXCEPT ![r] = Free] /\ stale' = stale \ {r}

(***************************************************************************)
(* Decisions.                                                               *)
(***************************************************************************)
\* owned: without a customer_id claim nothing is filtered.
owned(who, owner) == who.cust = None \/ owner = who.cust

\* The claims authorizer on an instance: administrators may do everything,
\* others what their own tenant owns.
Authorize(who, owner) == who.admin \/ (who.cust # None /\ owner = who.cust)

Permitted(who, owner) ==
    \/ who.route = "global"
    \/ who.route = "tenant" /\ owned(who, owner)
    \/ who.route = "self" /\ Authorize(who, owner)

(***************************************************************************)
(* Create: tenant routes store the claim as the owner; self-service callers *)
(* may name one, and own it themselves otherwise.  The answer may be lost    *)
(* after the row was stored.                                                *)
(***************************************************************************)
customerValue(who) == IF who.route = "global" THEN None ELSE who.cust
MayCreate(who, owner) ==
    \/ who \in Admins /\ owner = customerValue(who)
    \/ /\ who \in Identities
       /\ owner # None \/ who.cust = None
       /\ Authorize(who, owner)

CreateClient(r, who, owner) ==
    /\ req[r].pc = "idle"
    /\ MayCreate(who, owner)
    /\ \E i \in Row \ used, s \in Secret :
          /\ Fresh(s, i)
          /\ row' = [row EXCEPT ![i] = [live |-> TRUE, owner |-> owner, secret |-> s]]
          /\ used' = used \cup {i}
          /\ \/ /\ told' = [told EXCEPT ![i] = s]
                /\ req' = [req EXCEPT ![r] = [Free EXCEPT !.pc = "answer", !.who = who, !.seen = {i}]]
             \/ told' = [told EXCEPT ![i] = None] /\ UNCHANGED req
    /\ UNCHANGED stale

createClient(r) == \E who \in Admins : CreateClient(r, who, customerValue(who))
selfCreateClient(r) == \E who \in Identities, owner \in Tenancy : CreateClient(r, who, owner)

(***************************************************************************)
(* Update, rotate, delete and get: read, decide, write.                     *)
(***************************************************************************)
Start(r, who, op, i) ==
    /\ req[r].pc = "idle"
    /\ req' = [req EXCEPT ![r] = [Free EXCEPT !.pc = "read", !.who = who, !.op = op, !.id = i]]
    /\ UNCHANGED <<row, used, history>>

getClient(r, i) == \E who \in Admins : Start(r, who, "get", i)
updateClient(r, i) == \E who \in Admins : Start(r, who, "update", i)
rotateSecret(r, i) == \E who \in Admins : Start(r, who, "rotate", i)
deleteClient(r, i) == \E who \in Admins : Start(r, who, "delete", i)

selfGetClient(r, i) == \E who \in Identities : Start(r, who, "get", i)
selfUpdateClient(r, i) == \E who \in Identities : Start(r, who, "update", i)
selfRotateSecret(r, i) == \E who \in Identities : Start(r, who, "rotate", i)
selfDeleteClient(r, i) == \E who \in Identities : Start(r, who, "delete", i)

GetClientByID(r) ==
    LET i == req[r].id
    IN  /\ req[r].pc = "read"
        /\ IF row[i].live
           THEN req' = [req EXCEPT ![r].pc = "decide", ![r].copy = row[i]] /\ UNCHANGED stale
           ELSE End(r)
        /\ UNCHANGED <<row, used, told>>

\* An error other than ErrNotFound: the routes of admin.go go on with an empty
\* client, which only a caller that is filtered by nothing owns.
GetFails(r) ==
    /\ req[r].pc = "read"
    /\ req[r].who \in Admins
    /\ req' = [req EXCEPT ![r].pc = "decide", ![r].id = None]
    /\ UNCHANGED <<row, used, history>>

Answer(r, seen) ==
    req' = [req EXCEPT ![r] = [Free EXCEPT !.pc = "answer", !.who = req[r].who, !.seen = seen]]

\* Mutant: only reads are refused.
DecideReads(r) ==
    /\ req[r].pc = "decide"
    /\ \/ /\ req[r].op # "get"
          /\ req' = [req EXCEPT ![r].pc = "write"]
          /\ UNCHANGED stale
       \/ /\ req[r].op = "get"
          /\ IF Permitted(req[r].who, req[r].copy.owner)
             THEN Answer(r, {req[r].id} \cap Row) /\ UNCHANGED stale
             ELSE End(r)
    /\ UNCHANGED <<row, used, told>>

Decide(r) ==
    /\ req[r].pc = "decide"
    /\ \/ /\ ~Permitted(req[r].who, req[r].copy.owner)
          /\ End(r)
       \/ /\ Permitted(req[r].who, req[r].copy.owner)
          /\ IF req[r].op = "get" THEN Answer(r, {req[r].id} \cap Row)
             ELSE req' = [req EXCEPT ![r].pc = "write"]
          /\ UNCHANGED stale
    /\ UNCHANGED <<row, used, told>>

\* An update that asks for a new secret is a rotate here: the other fields of
\* the row, which it also writes, are left out.
NewSecret(r, i, s) ==
    IF req[r].op = "rotate" THEN Fresh(s, i) ELSE s = req[r].copy.secret

\* Updates that have read row i and not yet written it.
Copied(i) == {q \in Request : /\ req[q].id = i /\ req[q].op = "update"
                              /\ req[q].pc \in {"decide", "write"}}

\* What the write of secret s means for the callers, who may be told or not.
Tell(r, i, s) ==
    /\ \E t \in IF req[r].op = "rotate" THEN {s, None}
              ELSE IF r \in stale THEN {None} ELSE {told[i]} :
          told' = [told EXCEPT ![i] = t]
    /\ req' = [req EXCEPT ![r] = Free]
    /\ stale' = (IF req[r].op = "rotate" THEN stale \cup Copied(i) ELSE stale) \ {r}

\* Mutant: the row is written whether it is still there or not.
Upsert(r) ==
    LET i == req[r].id
    IN  /\ req[r].pc = "write" /\ req[r].op \in {"update", "rotate"} /\ i # None
        /\ \E s \in Secret :
              /\ NewSecret(r, i, s)
              /\ row' = [row EXCEPT ![i] = [req[r].copy EXCEPT !.secret = s]]
              /\ Tell(r, i, s)
        /\ UNCHANGED used

\* Mutant: the secret that was read is stored and the new one returned.
KeepSecret(r) ==
    LET i == req[r].id
    IN  /\ req[r].pc = "write" /\ req[r].op \in {"update", "rotate"} /\ i # None
        /\ IF row[i].live
           THEN \E s \in Secret :
                   /\ NewSecret(r, i, s)
                   /\ row' = [row EXCEPT ![i].secret = req[r].copy.secret]
                   /\ Tell(r, i, s)
           ELSE End(r) /\ UNCHANGED <<row, told>>
        /\ UNCHANGED used

\* Every column but the owner is written; no row, no write.  The empty client of a
\* failed read has no id: its write fails, as any call may (Finish).
UpdateClient(r) ==
    LET i == req[r].id
    IN  /\ req[r].pc = "write" /\ req[r].op \in {"update", "rotate"} /\ i # None
        /\ IF row[i].live
           THEN \E s \in Secret :
                   /\ NewSecret(r, i, s)
                   /\ row' = [row EXCEPT ![i].secret = s]
                   /\ Tell(r, i, s)
           ELSE End(r) /\ UNCHANGED <<row, told>>
        /\ UNCHANGED used

\* Mutant: a deleted client only loses its secret.
BlankClient(r) ==
    /\ req[r].pc = "write" /\ req[r].op = "delete" /\ req[r].id # None
    /\ row' = [row EXCEPT ![req[r].id].secret = None]
    /\ told' = [told EXCEPT ![req[r].id] = None]
    /\ End(r)
    /\ UNCHANGED used

DeleteClient(r) ==
    /\ req[r].pc = "write" /\ req[r].op = "delete" /\ req[r].id # None
    /\ row' = [row EXCEPT ![req[r].id] = NoClient]
    /\ told' = [told EXCEPT ![req[r].id] = None]
    /\ End(r)
    /\ UNCHANGED used

(***************************************************************************)
(* Lists.                                                                   *)
(***************************************************************************)
\* Mutant: an empty scope is passed to the store as no filter.
InScopeNil(who, owner) == who.route = "global" \/ who.admin \/ who.cust \in {None, owner}

\* Scope of the claims authorizer, and the filter of the other routes.
InScope(who, owner) ==
    \/ who.route = "global"
    \/ who.route = "tenant" /\ (who.cust = None \/ owner = who.cust)
    \/ who.route = "self" /\ (who.admin \/ (who.cust # None /\ owner = who.cust))

ListClients(r, who) ==
    /\ req[r].pc = "idle"
    /\ req' = [req EXCEPT ![r] = [Free EXCEPT !.pc = "answer", !.who = who,
                 !.seen = {i \in Row : row[i].live /\ InScope(who, row[i].owner)}]]
    /\ UNCHANGED <<row, used, history>>

listClients(r) == \E who \in Admins : ListClients(r, who)
selfListClients(r) == \E who \in Identities : ListClients(r, who)

\* The answer is written, or any call failed before it took effect.
Finish(r) ==
    /\ req[r].pc # "idle"
    /\ End(r)
    /\ UNCHANGED <<row, used, told>>

AdminRoute(r) ==
    \/ listClients(r) \/ createClient(r)
    \/ \E i \in Row : \/ getClient(r, i) \/ updateClient(r, i)
                      \/ rotateSecret(r, i) \/ deleteClient(r, i)

SelfRoute(r) ==
    \/ selfListClients(r) \/ selfCreateClient(r)
    \/ \E i \in Row : \/ selfGetClient(r, i) \/ selfUpdateClient(r, i)
                      \/ selfRotateSecret(r, i) \/ selfDeleteClient(r, i)

Step(r) ==
    \/ AdminRoute(r)
    \/ SelfRoute(r)
    \/ GetClientByID(r)
    \/ GetFails(r)
    \/ Decide(r)
    \/ UpdateClient(r)
    \/ DeleteClient(r)
    \/ Finish(r)

Next == \E r \in Request : Step(r)

Spec == Init /\ [][Next]_vars

(***************************************************************************)
(* Properties.                                                              *)
(***************************************************************************)
ClientRecord == {NoClient} \cup [live : {TRUE}, owner : Tenancy, secret : Secret]
Pc == {"idle", "read", "decide", "write", "answer"}

\* The types of the state.
TypeOK ==
    /\ row \in [Row -> ClientRecord]
    /\ used \subseteq Row
    /\ req \in [Request -> [pc : Pc, who : Caller, op : Op, id : Row \cup {None},
                            copy : ClientRecord, seen : SUBSET Row]]
    /\ told \in [Row -> Secret \cup {None}]
    /\ stale \subseteq Request

\* Callers the code confines to one tenant.
Confined(who) ==
    \/ who.route = "tenant" /\ who.cust # None
    \/ who.route = "self" /\ ~who.admin

\* A confined caller changes rows of its own tenant only, although the row it
\* decided on was read earlier.
Changes(r, i) == req'[r] # req[r] /\ row'[i] # row[i]
TenantIsolation ==
    [][\A r \in Request, i \in Row :
          \/ ~Changes(r, i)
          \/ req[r].pc = "idle"
          \/ ~Confined(req[r].who)
          \/ row[i].owner = req[r].who.cust]_vars

\* What a confined caller is answered, a created client included, is its own.
AnswerScoped ==
    \A r \in Request : req[r].pc = "answer" /\ Confined(req[r].who) =>
        \A i \in req[r].seen : row[i].live => row[i].owner = req[r].who.cust

\* A deleted client stays deleted and no client changes hands, although an
\* update may be under way with a copy read before.
Lifetime ==
    [][\A i \in used : /\ ~row[i].live => ~row'[i].live
                       /\ row'[i].live => row'[i].owner = row[i].owner]_vars

\* The secret that the caller of the last creation or rotation to take effect was
\* told is the one stored, until an update that had read the row before that
\* rotation writes the older one back (UpdateClient writes every column it read).
\* Nothing else takes a secret from whoever was told it: no update that read the
\* row later, no failed call, no rotation but one that takes effect.
ReturnedSecretStored ==
    \A i \in Row : row[i].live => told[i] \in {None, row[i].secret}
===============================================================================
