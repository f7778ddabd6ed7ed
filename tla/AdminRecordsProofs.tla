-------------------------- MODULE AdminRecordsProofs --------------------------
(***************************************************************************)
(* The invariants of AdminRecords for any number of rows, values and        *)
(* concurrent requests, and, in the second part, those of TokenClaims, which *)
(* shares no name with it.                                                  *)
(*                                                                         *)
(* EndpointsKept is not inductive by itself: an update writes back what it  *)
(* has read, so the copies of the requests must have an endpoint as well    *)
(* (CopiesKept).                                                            *)
(***************************************************************************)
EXTENDS AdminRecords, TokenClaims, TLAPS

\* row and req are functions and requests are records: TypeOK speaks of what
\* they hold only.
Copy(x) == x = [pc |-> x.pc, id |-> x.id, val |-> x.val]
Shapes ==
    /\ row = [i \in Id |-> row[i]]
    /\ req = [r \in Request |-> req[r]]
    /\ \A r \in Request : Copy(req[r])

CopiesKept ==
    \A r \in Request : req[r] # Free /\ req[r].id \in Provider => req[r].val["acs"] # Blank

RecordsInv == TypeOK /\ Shapes /\ CopiesKept /\ EndpointsKept

-----------------------------------------------------------------------------
\* Nothing that is stored looks like the absence of a row.
LEMMA RowsExist == ASSUME NEW i \in Id PROVE NoRow \notin Rows(i)
<1>1. DOMAIN NoRow = {"none"}
  BY DEF NoRow
<1>2. \A v \in Rows(i) : DOMAIN v = Fields(i)
  BY DEF Rows
<1>3. "none" \notin Fields(i) /\ "none" \in {"none"}
  BY DEF Fields
<1> QED BY <1>1, <1>2, <1>3

\* A row exists when its id has been inserted and not deleted.
LEMMA ExistsWhen == ASSUME TypeOK, NEW i \in Id PROVE Exists(i) <=> i \in born \ dead
BY RowsExist DEF TypeOK, Exists

LEMMA FreeFacts == Free.pc = "idle" /\ Free.id = None /\ Copy(Free)
BY DEF Free, Copy

\* Laying a body over a row gives a row, with an endpoint if both have one.
LEMMA LaidRow ==
    ASSUME NEW i \in Id, NEW v \in Rows(i), NEW patch \in Patches(i)
    PROVE  /\ Laid(v, patch) \in Rows(i)
           /\ i \in Provider /\ v["acs"] # Blank /\ patch["acs"] # Blank
                 => Laid(v, patch)["acs"] # Blank
<1>1. DOMAIN v = Fields(i)
  BY DEF Rows
<1>2. \A f \in Fields(i) : /\ v[f] \in Value \cup {Blank}
                           /\ patch[f] \in Value \cup {Blank, Absent}
  BY DEF Rows, Patches
<1>3. Laid(v, patch) \in Rows(i)
  BY <1>1, <1>2 DEF Laid, Rows
<1>4. i \in Provider => "acs" \in Fields(i)
  BY DEF Fields
<1> QED BY <1>1, <1>3, <1>4 DEF Laid

-----------------------------------------------------------------------------
(***************************************************************************)
(* One lemma for each kind of step.                                         *)
(***************************************************************************)
\* A step that changes requests only: the request it leaves behind is in order.
LEMMA RequestStep ==
    ASSUME RecordsInv, NEW r \in Request, NEW x, req' = [req EXCEPT ![r] = x],
           UNCHANGED <<row, born, dead>>,
           \/ x = Free
           \/ /\ Copy(x)
              /\ x.pc \in {"patch", "write"} /\ x.id \in born /\ x.val \in Rows(x.id)
              /\ x.id \in Provider => x.val["acs"] # Blank
    PROVE  RecordsInv'
<1> USE DEF RecordsInv
<1>1. /\ \A q \in Request : req'[q] = IF q = r THEN x ELSE req[q]
      /\ req' = [q \in Request |-> req'[q]]
  BY DEF Shapes
<1>2. TypeOK'
  BY <1>1 DEF TypeOK, Rows
<1>3. Shapes' /\ CopiesKept'
  BY <1>1, FreeFacts DEF Shapes, CopiesKept
<1>4. EndpointsKept'
  BY DEF EndpointsKept, Exists
<1> QED BY <1>2, <1>3, <1>4

\* A step that writes v, which has an endpoint, to row i.
LEMMA RowStep ==
    ASSUME RecordsInv, NEW i \in Id, NEW v \in Rows(i), row' = [row EXCEPT ![i] = v],
           i \in born', i \notin dead, born' = born \cup {i}, dead' = dead,
           i \in Provider => v["acs"] # Blank,
           \/ UNCHANGED req
           \/ \E r \in Request : req' = [req EXCEPT ![r] = Free]
    PROVE  RecordsInv'
<1> USE DEF RecordsInv
<1>1. /\ \A j \in Id : row'[j] = IF j = i THEN v ELSE row[j]
      /\ row' = [j \in Id |-> row'[j]]
  BY DEF Shapes
<1>2. /\ \A q \in Request : req'[q] = req[q] \/ req'[q] = Free
      /\ req' = [q \in Request |-> req'[q]]
  BY DEF Shapes
<1>3. \A j \in Id : j # i => (Exists(j)' <=> Exists(j))
  BY <1>1 DEF Exists
<1>4. TypeOK'
  <2>1. born' \subseteq Id /\ dead' \subseteq born'
    BY DEF TypeOK
  <2>2. ASSUME NEW j \in Id
        PROVE  IF j \in born' \ dead' THEN row'[j] \in Rows(j) ELSE row'[j] = NoRow
    BY <1>1 DEF TypeOK
  <2>3. ASSUME NEW q \in Request
        PROVE  \/ req'[q] = Free
               \/ /\ req'[q].pc \in {"patch", "write"} /\ req'[q].id \in born'
                  /\ req'[q].val \in Rows(req'[q].id)
    BY <1>2 DEF TypeOK
  <2> QED BY <2>1, <2>2, <2>3 DEF TypeOK, Rows
<1>5. Shapes' /\ CopiesKept'
  BY <1>1, <1>2, FreeFacts DEF Shapes, CopiesKept
<1>6. EndpointsKept'
  BY <1>1, <1>3 DEF EndpointsKept, Id
<1> QED BY <1>4, <1>5, <1>6

\* A step that deletes row i.
LEMMA DeleteStep ==
    ASSUME RecordsInv, NEW i \in Id, Delete(i)
    PROVE  RecordsInv'
<1> USE DEF RecordsInv
<1>1. /\ \A j \in Id : row'[j] = IF j = i THEN NoRow ELSE row[j]
      /\ row' = [j \in Id |-> row'[j]]
  BY DEF Shapes, Delete
<1>2. i \in born /\ dead' = dead \cup {i} /\ UNCHANGED <<req, born>>
  BY ExistsWhen DEF Delete
<1>3. \A j \in Id : Exists(j)' => j # i /\ Exists(j)
  BY <1>1 DEF Exists
<1>4. TypeOK'
  BY <1>1, <1>2 DEF TypeOK, Rows
<1>5. Shapes' /\ CopiesKept'
  BY <1>1, <1>2 DEF Shapes, CopiesKept
<1>6. EndpointsKept'
  BY <1>1, <1>3 DEF EndpointsKept, Id
<1> QED BY <1>4, <1>5, <1>6

LEMMA InsertStep ==
    ASSUME RecordsInv, NEW i \in Id, NEW v \in Rows(i), Complete(v), Insert(i, v)
    PROVE  RecordsInv'
<1>1. i \notin dead /\ i \in born' /\ born' = born \cup {i} /\ dead' = dead
  BY DEF RecordsInv, TypeOK, Insert
<1>2. i \in Provider => v["acs"] # Blank
  BY DEF Complete, Rows, Fields
<1> QED BY <1>1, <1>2, RowStep DEF Insert

LEMMA ReadStep ==
    ASSUME RecordsInv, NEW r \in Request, NEW i \in Id, Read(r, i)
    PROVE  RecordsInv'
<1> DEFINE x == [pc |-> "patch", id |-> i, val |-> row[i]]
<1>1. i \in born /\ row[i] \in Rows(i) /\ Exists(i)
  BY ExistsWhen DEF RecordsInv, TypeOK, Read
<1>2. x.pc = "patch" /\ x.id = i /\ x.val = row[i] /\ Copy(x)
  BY DEF Copy
<1>3. i \in Provider => row[i]["acs"] # Blank
  BY <1>1 DEF RecordsInv, EndpointsKept
<1>4. req' = [req EXCEPT ![r] = x] /\ UNCHANGED <<row, born, dead>>
  BY DEF Read
<1> HIDE DEF x
<1> QED BY <1>1, <1>2, <1>3, <1>4, RequestStep

\* What a request with a copy knows.
LEMMA CopyFacts ==
    ASSUME RecordsInv, NEW r \in Request, req[r].pc # "idle"
    PROVE  /\ req[r] # Free /\ req[r].id \in born /\ req[r].id \in Id
           /\ req[r].val \in Rows(req[r].id)
           /\ req[r].id \in Provider => req[r].val["acs"] # Blank
BY FreeFacts DEF RecordsInv, TypeOK, CopiesKept

LEMMA OverlayStep ==
    ASSUME RecordsInv, NEW r \in Request, req[r].pc = "patch",
           NEW patch \in Patches(req[r].id), Overlay(r, patch),
           req[r].id \in Provider => patch["acs"] # Blank
    PROVE  RecordsInv'
<1> DEFINE i == req[r].id
           v == Laid(req[r].val, patch)
           x == [pc |-> "write", id |-> i, val |-> v]
<1>1. /\ i \in born /\ i \in Id /\ req[r].val \in Rows(i)
      /\ i \in Provider => req[r].val["acs"] # Blank
  BY CopyFacts
<1>2. v \in Rows(i) /\ (i \in Provider => v["acs"] # Blank)
  BY <1>1, LaidRow
<1>3. req' = [req EXCEPT ![r] = x] /\ UNCHANGED <<row, born, dead>>
  BY DEF Overlay
<1>4. x.pc = "write" /\ x.id = i /\ x.val = v /\ Copy(x)
  BY DEF Copy
<1> HIDE DEF i, v, x
<1> QED BY <1>1, <1>2, <1>3, <1>4, RequestStep

\* The write of an update: the row is still there, or nothing changes.
LEMMA WriteStep ==
    ASSUME RecordsInv, NEW r \in Request, req[r].pc = "write", Write(r)
    PROVE  RecordsInv'
<1> DEFINE i == req[r].id
           v == req[r].val
<1>1. i \in Id /\ i \in born /\ v \in Rows(i) /\ (i \in Provider => v["acs"] # Blank)
  BY CopyFacts
<1>2. req' = [req EXCEPT ![r] = Free] /\ UNCHANGED <<born, dead>>
  BY DEF Write, End
<1>3. CASE Exists(i)
  <2>1. i \notin dead /\ born' = born \cup {i} /\ i \in born'
    BY <1>1, <1>2, <1>3, ExistsWhen DEF RecordsInv
  <2>2. row' = [row EXCEPT ![i] = v]
    BY <1>3 DEF Write
  <2> HIDE DEF i, v
  <2> QED BY <1>1, <1>2, <2>1, <2>2, RowStep
<1>4. CASE ~Exists(i)
  <2>1. row' = row
    BY <1>4 DEF Write
  <2> QED BY <1>2, <2>1, RequestStep
<1> QED BY <1>3, <1>4

LEMMA GiveUpStep ==
    ASSUME RecordsInv, NEW r \in Request, GiveUp(r)
    PROVE  RecordsInv'
BY RequestStep DEF GiveUp, End

\* The bodies of the updates of one table have the fields of that table.
LEMMA PatchOfTable ==
    ASSUME NEW i \in Id, NEW j \in Id, i \in Provider <=> j \in Provider
    PROVE  Patches(i) = Patches(j)
BY DEF Patches, Fields

LEMMA InitInv == Init => RecordsInv
<1> SUFFICES ASSUME Init PROVE RecordsInv
  OBVIOUS
<1>1. TypeOK
  BY DEF Init, TypeOK
<1>2. Shapes
  BY FreeFacts DEF Init, Shapes
<1>3. CopiesKept
  BY DEF Init, CopiesKept
<1>4. EndpointsKept
  BY DEF Init, EndpointsKept, Exists, Id
<1> QED BY <1>1, <1>2, <1>3, <1>4 DEF RecordsInv

LEMMA StepInv == RecordsInv /\ [Next]_vars => RecordsInv'
<1> SUFFICES ASSUME RecordsInv, [Next]_vars PROVE RecordsInv'
  OBVIOUS
<1>1. ASSUME NEW i \in Provider, NEW v \in Rows(i), createServiceProvider(i, v)
      PROVE  RecordsInv'
  BY <1>1, InsertStep DEF createServiceProvider, CreateServiceProvider, Id
<1>2. ASSUME NEW i \in Pol, NEW v \in Rows(i), createPolicy(i, v)
      PROVE  RecordsInv'
  BY <1>2, InsertStep, RecordsAssumption DEF createPolicy, CreatePolicy, Id
<1>3. ASSUME NEW i \in Provider, deleteServiceProvider(i)
      PROVE  RecordsInv'
  BY <1>3, DeleteStep DEF deleteServiceProvider, DeleteServiceProvider, Id
<1>4. ASSUME NEW i \in Pol, deletePolicy(i)
      PROVE  RecordsInv'
  BY <1>4, DeleteStep DEF deletePolicy, DeletePolicy, Id
<1>5. ASSUME NEW r \in Request, NEW i \in Provider, GetServiceProvider(r, i)
      PROVE  RecordsInv'
  BY <1>5, ReadStep DEF GetServiceProvider, Id
<1>6. ASSUME NEW r \in Request, NEW i \in Pol, GetPolicy(r, i)
      PROVE  RecordsInv'
  BY <1>6, ReadStep DEF GetPolicy, Id
<1>7. ASSUME NEW r \in Request, NEW i \in Provider, NEW p \in Patches(i),
             updateServiceProvider(r, p)
      PROVE  RecordsInv'
  <2>1. req[r].pc = "patch" /\ req[r].id \in Provider /\ p["acs"] # Blank /\ Overlay(r, p)
    BY <1>7 DEF updateServiceProvider, At
  <2>2. p \in Patches(req[r].id)
    BY <2>1, PatchOfTable DEF Id
  <2> QED BY <2>1, <2>2, OverlayStep
<1>8. ASSUME NEW r \in Request, NEW i \in Pol, NEW p \in Patches(i), updatePolicy(r, p)
      PROVE  RecordsInv'
  <2>1. req[r].pc = "patch" /\ req[r].id \in Pol /\ Overlay(r, p)
    BY <1>8 DEF updatePolicy, At
  <2>2. req[r].id \notin Provider /\ i \notin Provider
    BY <2>1, RecordsAssumption
  <2>3. p \in Patches(req[r].id)
    BY <2>1, <2>2, PatchOfTable DEF Id
  <2> QED BY <2>1, <2>2, <2>3, OverlayStep
<1>9. ASSUME NEW r \in Request, UpdateServiceProvider(r)
      PROVE  RecordsInv'
  BY <1>9, WriteStep DEF UpdateServiceProvider, At
<1>10. ASSUME NEW r \in Request, UpdatePolicy(r)
       PROVE  RecordsInv'
  BY <1>10, WriteStep, RecordsAssumption DEF UpdatePolicy, At
<1>11. ASSUME NEW r \in Request, GiveUp(r)
       PROVE  RecordsInv'
  BY <1>11, GiveUpStep
<1>12. CASE UNCHANGED vars
  BY <1>12 DEF vars, RecordsInv, TypeOK, Rows, Shapes, CopiesKept, EndpointsKept,
               Exists
<1> QED BY <1>1, <1>2, <1>3, <1>4, <1>5, <1>6, <1>7, <1>8, <1>9, <1>10, <1>11, <1>12 DEF Next

-----------------------------------------------------------------------------
\* The strengthened invariant holds of every state the routes can reach.
THEOREM RecordsInvHolds == Spec => []RecordsInv
<1>1. Init => RecordsInv
  BY InitInv
<1>2. RecordsInv /\ [Next]_vars => RecordsInv'
  BY StepInv
<1> QED BY <1>1, <1>2, PTL DEF Spec

\* A row exists exactly when it has been inserted and not deleted: no update of
\* updateServiceProvider or updatePolicy that was under way brings one back.
THEOREM RecordsTypeCorrect == Spec => []TypeOK
<1>1. RecordsInv => TypeOK
  BY DEF RecordsInv
<1> QED BY <1>1, RecordsInvHolds, PTL

\* However many updates overlap, a stored service provider has an endpoint
\* (acs_endpoints_required in createServiceProvider and updateServiceProvider).
THEOREM ProvidersKeepEndpoints == Spec => []EndpointsKept
<1>1. RecordsInv => EndpointsKept
  BY DEF RecordsInv
<1> QED BY <1>1, RecordsInvHolds, PTL

-----------------------------------------------------------------------------
(***************************************************************************)
(* What the signed tokens say (TokenClaims), for any users, grants and      *)
(* tokens.                                                                  *)
(*                                                                         *)
(* OneAccount and DelegationKept relate a token to its history only, and    *)
(* are not inductive: a refresh signs what the session holds and an         *)
(* exchange what another token says.  ClaimsInv adds that a session holds a *)
(* copy of its owner's account at the login, and that a token has a root    *)
(* only after that login; as the copy is made once (newFositeSession), no   *)
(* token is left behind by it.                                              *)
(***************************************************************************)
\* What the session of grant g may hold when its owner's account was a.
Copies(g, a) == {BuildClaims(Owner[g], a), SubjectOnly(Owner[g])}

TokenRecord == [claims : ClaimSet, act : User \cup {Nil}, may_act : User \cup {Nil}]
ChainRecord == [issued : BOOLEAN, root : Grant \cup {Nil}, actors : SUBSET User]

\* What a token x with the history h must say.
Says(x, h) ==
    /\ h.root = Nil => x.claims = NoClaims
    /\ h.root # Nil => copied[h.root] # Nil /\ x.claims \in Copies(h.root, copied[h.root])
    /\ h.actors = {} => x.act = Nil
    /\ h.actors # {} => x.act \in h.actors
    /\ h.actors \subseteq {x.claims.sub} => x.may_act = Nil
    /\ ~(h.actors \subseteq {x.claims.sub}) => x.may_act = x.claims.sub

\* A session holds what was copied, and a token says what the session at its root does.
ClaimsInv ==
    /\ ClaimsTypeOK
    /\ \A g \in Grant : copied[g] # Nil => session[g] \in Copies(g, copied[g])
    /\ \A t \in Token : Says(tok[t], chain[t])

LEMMA ClaimsSay ==
    ASSUME ClaimsInv, NEW t \in Token
    PROVE  tok[t] \in TokenRecord /\ chain[t] \in ChainRecord /\ Says(tok[t], chain[t])
  BY DEF ClaimsInv, ClaimsTypeOK, TokenRecord, ChainRecord

LEMMA SaysClaims ==
    ASSUME ClaimsInv
    PROVE  OneAccount /\ DelegationKept
<1>1. OneAccount
  BY DEF ClaimsInv, Says, OneAccount, Copies
<1>2. DelegationKept
  <2>1. ASSUME NEW t \in Token
        PROVE  /\ tok[t].act \in IF chain[t].actors = {} THEN {Nil} ELSE chain[t].actors
               /\ tok[t].may_act = IF chain[t].actors \subseteq {tok[t].claims.sub}
                                      THEN Nil ELSE tok[t].claims.sub
    <3>1. Says(tok[t], chain[t])
      BY DEF ClaimsInv
    <3> QED BY <3>1 DEF Says
  <2> QED BY <2>1 DEF DelegationKept
<1> QED BY <1>1, <1>2 DEF ClaimsInv

LEMMA ClaimsTyped ==
    ASSUME NEW u \in User, NEW a \in Records
    PROVE  /\ BuildClaims(u, a) \in ClaimSet
           /\ SubjectOnly(u) \in ClaimSet
           /\ NoClaims \in ClaimSet /\ NoClaims.sub = Nil
<1>1. a \in [active : BOOLEAN, cid : Customer \cup {Nil}, roles : SUBSET Role, role : Role \cup {Nil}]
  BY ClaimsAssumption
<1>2. (IF a.role = Nil THEN a.roles ELSE {a.role}) \in SUBSET Role
  BY <1>1
<1>3. BuildClaims(u, a) \in ClaimSet
  BY <1>1, <1>2 DEF BuildClaims, ClaimSet
<1> QED BY <1>3 DEF SubjectOnly, NoClaims, ClaimSet

\* Sign makes x the token t, with the history h.
LEMMA SignStep ==
    ASSUME ClaimsInv, NEW t \in Token, NEW cl \in ClaimSet,
           NEW act \in User \cup {Nil}, NEW may \in User \cup {Nil},
           NEW root \in Grant \cup {Nil}, NEW actors \in SUBSET User,
           Sign(t, cl, act, may, root, actors),
           Says([claims |-> cl, act |-> act, may_act |-> may],
                [issued |-> TRUE, root |-> root, actors |-> actors])
    PROVE  ClaimsInv'
<1> DEFINE x == [claims |-> cl, act |-> act, may_act |-> may]
           h == [issued |-> TRUE, root |-> root, actors |-> actors]
<1>1. /\ tok' = [tok EXCEPT ![t] = x] /\ chain' = [chain EXCEPT ![t] = h]
      /\ UNCHANGED <<account, session, copied>>
  BY DEF Sign
<1>2. x \in TokenRecord /\ h \in ChainRecord /\ Says(x, h)
  BY DEF TokenRecord, ChainRecord
<1>3. tok \in [Token -> TokenRecord] /\ chain \in [Token -> ChainRecord]
  BY DEF ClaimsInv, ClaimsTypeOK, TokenRecord, ChainRecord
<1> HIDE DEF x, h
<1>4. ClaimsTypeOK'
  <2>1. tok' \in [Token -> TokenRecord] /\ chain' \in [Token -> ChainRecord]
    BY <1>1, <1>2, <1>3
  <2> QED BY <1>1, <2>1 DEF ClaimsInv, ClaimsTypeOK, TokenRecord, ChainRecord
<1>5. ASSUME NEW s \in Token PROVE Says(tok[s], chain[s])'
  <2>1. CASE s = t
    <3>1. tok'[s] = x /\ chain'[s] = h
      BY <1>1, <1>3, <2>1
    <3> QED BY <1>1, <1>2, <3>1 DEF Says, Copies
  <2>2. CASE s # t
    <3>1. tok'[s] = tok[s] /\ chain'[s] = chain[s] /\ Says(tok[s], chain[s])
      BY <1>1, <1>3, <2>2, ClaimsSay
    <3> QED BY <1>1, <3>1 DEF Says
  <2> QED BY <2>1, <2>2
<1>6. \A g \in Grant : copied'[g] # Nil => session'[g] \in Copies(g, copied'[g])
  BY <1>1 DEF ClaimsInv
<1> QED BY <1>4, <1>5, <1>6 DEF ClaimsInv

LEMMA EditAccountStep ==
    ASSUME ClaimsInv, NEW u \in User, NEW a \in Records, EditAccount(u, a)
    PROVE  ClaimsInv'
<1>1. account' = [account EXCEPT ![u] = a] /\ UNCHANGED <<session, tok, copied, chain>>
  BY DEF EditAccount
<1>2. ClaimsTypeOK'
  BY <1>1 DEF ClaimsInv, ClaimsTypeOK
<1>3. ASSUME NEW t \in Token PROVE Says(tok[t], chain[t])'
  BY <1>1, ClaimsSay DEF Says
<1>4. \A g \in Grant : copied'[g] # Nil => session'[g] \in Copies(g, copied'[g])
  BY <1>1 DEF ClaimsInv
<1> QED BY <1>2, <1>3, <1>4 DEF ClaimsInv

\* The copy is made once, so no token goes back to a session before it.
LEMMA newFositeSessionStep ==
    ASSUME ClaimsInv, NEW g \in Grant, newFositeSession(g)
    PROVE  ClaimsInv'
<1> DEFINE u == Owner[g]
<1>1. PICK cl \in Copies(g, account[u]) : session' = [session EXCEPT ![g] = cl]
  BY DEF newFositeSession, Copies
<1>2. /\ copied[g] = Nil /\ copied' = [copied EXCEPT ![g] = account[u]]
      /\ UNCHANGED <<account, tok, chain>>
  BY DEF newFositeSession
<1>3. u \in User /\ account[u] \in Records /\ account[u] # Nil
  BY ClaimsAssumption DEF ClaimsInv, ClaimsTypeOK
<1>4. cl \in ClaimSet
  BY <1>1, <1>3, ClaimsTyped DEF Copies
<1>5. session \in [Grant -> ClaimSet] /\ copied \in [Grant -> Records \cup {Nil}]
  BY DEF ClaimsInv, ClaimsTypeOK
<1> HIDE DEF u
<1>6. ClaimsTypeOK'
  BY <1>1, <1>2, <1>3, <1>4, <1>5 DEF ClaimsInv, ClaimsTypeOK
<1>7. /\ session'[g] = cl /\ copied'[g] = account[u]
      /\ \A f \in Grant : f # g => session'[f] = session[f] /\ copied'[f] = copied[f]
  BY <1>1, <1>2, <1>5
<1>8. \A f \in Grant : copied'[f] # Nil => session'[f] \in Copies(f, copied'[f])
  BY <1>1, <1>7 DEF ClaimsInv
<1>9. ASSUME NEW t \in Token PROVE Says(tok[t], chain[t])'
  <2>1. Says(tok[t], chain[t]) /\ chain[t] \in ChainRecord
    BY ClaimsSay
  <2>2. chain[t].root # Nil => copied'[chain[t].root] = copied[chain[t].root]
    <3>1. chain[t].root # Nil => chain[t].root \in Grant /\ copied[chain[t].root] # Nil
      BY <2>1 DEF Says, ChainRecord
    <3> QED BY <1>2, <1>7, <3>1
  <2> QED BY <1>2, <2>1, <2>2 DEF Says
<1> QED BY <1>6, <1>8, <1>9 DEF ClaimsInv

LEMMA NewAccessResponseStep ==
    ASSUME ClaimsInv, NEW g \in Grant, NEW t \in Token,
           NewAccessResponse(g, t)
    PROVE  ClaimsInv'
<1>1. /\ copied[g] # Nil /\ session[g] \in Copies(g, copied[g])
      /\ Sign(t, session[g], Nil, Nil, g, {})
  BY DEF ClaimsInv, NewAccessResponse
<1>2. session[g] \in ClaimSet /\ g # Nil
  BY ClaimsAssumption DEF ClaimsInv, ClaimsTypeOK
<1>3. Says([claims |-> session[g], act |-> Nil, may_act |-> Nil],
           [issued |-> TRUE, root |-> g, actors |-> {}])
  BY <1>1, <1>2 DEF Says
<1>4. PICK cl \in ClaimSet : cl = session[g]
  BY <1>2
<1> QED BY SMTT(60), <1>1, <1>3, <1>4, SignStep

LEMMA populateClientTokenSessionStep ==
    ASSUME ClaimsInv, NEW t \in Token,
           populateClientTokenSession(t)
    PROVE  ClaimsInv'
<1>1. Sign(t, NoClaims, Nil, Nil, Nil, {})
  BY DEF populateClientTokenSession
<1>2. NoClaims \in ClaimSet
  BY DEF NoClaims, ClaimSet
<1>3. Says([claims |-> NoClaims, act |-> Nil, may_act |-> Nil],
           [issued |-> TRUE, root |-> Nil, actors |-> {}])
  BY DEF Says
<1> QED BY <1>1, <1>2, <1>3, SignStep

LEMMA ExchangeAloneStep ==
    ASSUME ClaimsInv, NEW s \in Token, NEW t \in Token,
           ExchangeAlone(s, t)
    PROVE  ClaimsInv'
<1>1. PICK x \in TokenRecord, h \in ChainRecord :
          x = tok[s] /\ h = chain[s] /\ Says(x, h)
  BY ClaimsSay
<1>2. Sign(t, x.claims, x.act, x.may_act, h.root, h.actors)
  BY <1>1 DEF ExchangeAlone
<1>3. /\ x.claims \in ClaimSet /\ x.act \in User \cup {Nil} /\ x.may_act \in User \cup {Nil}
      /\ h.root \in Grant \cup {Nil} /\ h.actors \in SUBSET User
  BY DEF TokenRecord, ChainRecord
<1>4. Says([claims |-> x.claims, act |-> x.act, may_act |-> x.may_act],
           [issued |-> TRUE, root |-> h.root, actors |-> h.actors])
  BY <1>1 DEF Says
<1> QED BY <1>2, <1>3, <1>4, SignStep

\* The actor joins the chain unless its token has no subject.
LEMMA ExchangeForActorStep ==
    ASSUME ClaimsInv, NEW s \in Token, NEW a \in Token, NEW t \in Token,
           ExchangeForActor(s, a, t)
    PROVE  ClaimsInv'
<1>1. PICK x \in TokenRecord, h \in ChainRecord :
          x = tok[s] /\ h = chain[s] /\ Says(x, h)
  BY ClaimsSay
<1>2. PICK actor \in User \cup {Nil} : actor = tok[a].claims.sub
  BY ClaimsSay DEF TokenRecord, ClaimSet
<1>3. PICK sub \in User \cup {Nil} : sub = x.claims.sub
  BY DEF TokenRecord, ClaimSet
<1> DEFINE act == IF actor = Nil THEN x.act ELSE actor
           may == IF actor = Nil \/ sub \in {Nil, actor} THEN x.may_act ELSE sub
           actors == h.actors \cup ({actor} \ {Nil})
<1>4. Sign(t, x.claims, act, may, h.root, actors)
  BY <1>1, <1>2, <1>3 DEF ExchangeForActor
<1>5. /\ x.claims \in ClaimSet /\ act \in User \cup {Nil} /\ may \in User \cup {Nil}
      /\ h.root \in Grant \cup {Nil} /\ actors \in SUBSET User
  BY DEF TokenRecord, ChainRecord
<1>6. /\ h.root = Nil => x.claims = NoClaims
      /\ h.root # Nil => copied[h.root] # Nil /\ x.claims \in Copies(h.root, copied[h.root])
  BY <1>1 DEF Says
<1>7. /\ h.actors = {} => x.act = Nil
      /\ h.actors # {} => x.act \in h.actors
      /\ h.actors \subseteq {sub} => x.may_act = Nil
      /\ ~(h.actors \subseteq {sub}) => x.may_act = sub
  BY <1>1, <1>3 DEF Says
<1>8. (actors = {} => act = Nil) /\ (actors # {} => act \in actors)
  BY <1>7
<1>9. (actors \subseteq {sub} => may = Nil) /\ (~(actors \subseteq {sub}) => may = sub)
  BY <1>7
<1> HIDE DEF act, may, actors
<1>10. Says([claims |-> x.claims, act |-> act, may_act |-> may],
            [issued |-> TRUE, root |-> h.root, actors |-> actors])
  BY <1>3, <1>6, <1>8, <1>9 DEF Says
<1> QED BY <1>4, <1>5, <1>10, SignStep

LEMMA ClaimsStep ==
    ASSUME ClaimsInv, [ClaimsNext]_(claimsVars)
    PROVE  ClaimsInv'
<1>1. CASE UNCHANGED claimsVars
  <2>1. UNCHANGED <<account, session, tok, copied, chain>>
    BY <1>1 DEF claimsVars
  <2>2. ClaimsTypeOK'
    BY <2>1 DEF ClaimsInv, ClaimsTypeOK
  <2>3. ASSUME NEW t \in Token PROVE Says(tok[t], chain[t])'
    BY <2>1, ClaimsSay DEF Says
  <2> QED BY <2>1, <2>2, <2>3 DEF ClaimsInv
<1>2. CASE ClaimsNext
  BY <1>2, EditAccountStep, newFositeSessionStep, NewAccessResponseStep,
     populateClientTokenSessionStep, ExchangeAloneStep, ExchangeForActorStep DEF ClaimsNext
<1> QED BY <1>1, <1>2

LEMMA ClaimsInvInit ==
    ASSUME ClaimsInit
    PROVE  ClaimsInv
<1>1. NoClaims \in ClaimSet /\ NoClaims.sub = Nil
  BY DEF NoClaims, ClaimSet
<1>2. ClaimsTypeOK
  BY <1>1 DEF ClaimsInit, ClaimsTypeOK, Unissued, Unrooted
<1>3. \A t \in Token : /\ tok[t].claims = NoClaims /\ tok[t].act = Nil
                       /\ tok[t].may_act = Nil
                       /\ chain[t].root = Nil /\ chain[t].actors = {}
  BY DEF ClaimsInit, Unissued, Unrooted
<1>4. \A t \in Token : Says(tok[t], chain[t])
  BY <1>3 DEF Says
<1>5. \A g \in Grant : copied[g] = Nil
  BY DEF ClaimsInit
<1> QED BY <1>2, <1>4, <1>5 DEF ClaimsInv

\* The invariant that carries the others: a session is a copy of one account and a
\* token says what the session at its root does.
THEOREM ClaimsInvHolds == ClaimsSpec => []ClaimsInv
<1>1. ClaimsInit => ClaimsInv
  BY ClaimsInvInit
<1>2. ClaimsInv /\ [ClaimsNext]_(claimsVars) => ClaimsInv'
  BY ClaimsStep
<1> QED BY <1>1, <1>2, PTL DEF ClaimsSpec

\* Accounts, sessions, tokens and their histories keep their types.
THEOREM ClaimsTypeCorrect == ClaimsSpec => []ClaimsTypeOK
<1>1. ClaimsInv => ClaimsTypeOK
  BY DEF ClaimsInv
<1> QED BY <1>1, ClaimsInvHolds, PTL

\* However long the chain of refreshes and exchanges, a token says what the account
\* at its root was at the login, or nothing (newFositeSession, tokenExchange).
THEOREM TokensSayOneAccount == ClaimsSpec => []OneAccount
<1>1. ClaimsInv => OneAccount
  BY SaysClaims
<1> QED BY <1>1, ClaimsInvHolds, PTL

\* However long the chain, act and may_act tell who has acted (tokenExchange).
THEOREM DelegationsKept == ClaimsSpec => []DelegationKept
<1>1. ClaimsInv => DelegationKept
  BY SaysClaims
<1> QED BY <1>1, ClaimsInvHolds, PTL
===============================================================================
