-------------------------- MODULE ClientAdminProofs ---------------------------
(***************************************************************************)
(* Proofs about ClientAdmin, for any tenants, clients, secrets and number   *)
(* of concurrent requests: confined callers change and are answered clients *)
(* of their own tenant only, and a deleted client stays deleted.            *)
(***************************************************************************)
EXTENDS ClientAdmin, TLAPS

RequestRecord == [pc : Pc, who : Caller, op : Op, id : Row \cup {None},
                  copy : ClientRecord, seen : SUBSET Row]

\* What a request knows is true of the table t with the used keys u: the row it
\* read, if it is still there, has the owner that was read, and keys are never
\* used again.
Sound(x, t, u) ==
    /\ x.pc = "read" => x.id \in Row
    /\ x.pc \in {"decide", "write"} /\ x.id # None =>
          /\ x.id \in u
          /\ t[x.id].live => t[x.id].owner = x.copy.owner
    /\ x.pc = "write" => Permitted(x.who, x.copy.owner)
    /\ x.pc = "answer" =>
          /\ x.seen \subseteq u
          /\ Confined(x.who) => \A i \in x.seen : t[i].live => t[i].owner = x.who.cust

RowsUsed == \A i \in Row : row[i].live => i \in used
AdminInv == TypeOK /\ RowsUsed /\ \A r \in Request : Sound(req[r], row, used)

\* A table t that is followed by s: no used key comes back or changes hands.
Follows(s, t, u) ==
    \A i \in u : /\ ~t[i].live => ~s[i].live
                 /\ s[i].live => s[i].owner = t[i].owner

-----------------------------------------------------------------------------
(***************************************************************************)
(* Lemmas about decisions, records and tables.                              *)
(***************************************************************************)
LEMMA FreeType == Free \in RequestRecord /\ \A t, u : Sound(Free, t, u)
  BY DEF Free, RequestRecord, Pc, Caller, Nobody, Op, ClientRecord, NoClient, Sound, Tenancy

LEMMA ClientFacts ==
    ASSUME NEW y \in ClientRecord
    PROVE  /\ y.owner \in Tenancy
           /\ y.live => y \in [live : {TRUE}, owner : Tenancy, secret : Secret]
  <1>1. CASE y = NoClient
    <2>1. y.owner = None /\ ~y.live
      BY <1>1 DEF NoClient
    <2> QED
      BY <2>1 DEF Tenancy
  <1>2. CASE y \in [live : {TRUE}, owner : Tenancy, secret : Secret]
    BY <1>2
  <1> QED
    BY <1>1, <1>2 DEF ClientRecord

LEMMA SecretReplaced ==
    ASSUME NEW y \in [live : {TRUE}, owner : Tenancy, secret : Secret], NEW s \in Secret
    PROVE  /\ [y EXCEPT !.secret = s] \in [live : {TRUE}, owner : Tenancy, secret : Secret]
           /\ [y EXCEPT !.secret = s].owner = y.owner
  OBVIOUS

\* A permitted caller that is confined to a tenant is the owner's.
LEMMA PermittedOwner ==
    ASSUME NEW who \in Caller, NEW owner \in Tenancy, Permitted(who, owner), Confined(who)
    PROVE  owner = who.cust
  BY DEF Permitted, Confined, owned, Authorize, Caller, Nobody

LEMMA InScopeOwner ==
    ASSUME NEW who \in Caller, NEW owner \in Tenancy, InScope(who, owner), Confined(who)
    PROVE  owner = who.cust
  BY DEF InScope, Confined, Caller, Nobody

LEMMA MayCreateOwner ==
    ASSUME NEW who \in Caller, NEW owner \in Tenancy, MayCreate(who, owner), Confined(who)
    PROVE  owner = who.cust
  BY DEF MayCreate, customerValue, Admins, Identities, Confined, Authorize, Caller, Nobody

\* What a request knows stays true while tables follow each other.
LEMMA SoundKept ==
    ASSUME NEW x \in RequestRecord, NEW t, NEW s, NEW u, NEW v,
           Sound(x, t, u), Follows(s, t, u), u \subseteq v
    PROVE  Sound(x, s, v)
  BY DEF Sound, Follows

\* A step of request r that leaves x behind keeps the invariant when the table
\* and x are in order.
LEMMA StepKeeps ==
    ASSUME AdminInv, NEW r \in Request, NEW x \in RequestRecord,
           req' = [req EXCEPT ![r] = x], Sound(x, row', used'),
           row' \in [Row -> ClientRecord], told' \in [Row -> Secret \cup {None}],
           stale' \subseteq Request, used \subseteq used', used' \subseteq Row,
           Follows(row', row, used), RowsUsed'
    PROVE  AdminInv'
  <1>1. req \in [Request -> RequestRecord]
    BY DEF AdminInv, TypeOK, RequestRecord
  <1>2. req' \in [Request -> RequestRecord]
    BY <1>1
  <1>3. TypeOK'
    BY <1>2 DEF TypeOK, RequestRecord
  <1>4. ASSUME NEW q \in Request PROVE Sound(req'[q], row', used')
    <2>1. CASE q = r
      BY <1>1, <2>1
    <2>2. CASE q # r
      <3>1. req'[q] = req[q] /\ req[q] \in RequestRecord /\ Sound(req[q], row, used)
        BY <1>1, <2>2 DEF AdminInv
      <3> QED
        BY <3>1, SoundKept
    <2> QED
      BY <2>1, <2>2
  <1> QED
    BY <1>3, <1>4 DEF AdminInv

\* A step of request r that leaves the table alone.
LEMMA QuietStep ==
    ASSUME AdminInv, NEW r \in Request, NEW x \in RequestRecord,
           req' = [req EXCEPT ![r] = x], Sound(x, row, used), UNCHANGED <<row, used, told>>,
           stale' \subseteq stale
    PROVE  AdminInv'
  <1>1. /\ row' \in [Row -> ClientRecord] /\ told' \in [Row -> Secret \cup {None}]
        /\ stale' \subseteq Request
        /\ used' \subseteq Row /\ used \subseteq used' /\ RowsUsed'
    BY DEF AdminInv, TypeOK, RowsUsed
  <1>2. Follows(row', row, used)
    BY DEF Follows
  <1>3. Sound(x, row', used')
    BY ONLY Sound(x, row, used), UNCHANGED <<row, used, told>>
  <1> QED
    BY <1>1, <1>2, <1>3, StepKeeps

\* A step that writes row i of the table with y.
LEMMA RowWritten ==
    ASSUME AdminInv, NEW i \in Row, NEW y \in ClientRecord,
           row' = [row EXCEPT ![i] = y], used' = used,
           y.live => row[i].live /\ y.owner = row[i].owner
    PROVE  /\ row' \in [Row -> ClientRecord]
           /\ Follows(row', row, used)
           /\ RowsUsed'
  <1>1. /\ row \in [Row -> ClientRecord] /\ used \subseteq Row
        /\ \A j \in Row : row[j].live => j \in used
    BY DEF AdminInv, TypeOK, RowsUsed
  <1>2. row' \in [Row -> ClientRecord] /\ \A j \in Row : row'[j] = IF j = i THEN y ELSE row[j]
    BY <1>1
  <1> QED
    BY <1>1, <1>2 DEF Follows, RowsUsed

-----------------------------------------------------------------------------
(***************************************************************************)
(* One lemma for each kind of step.                                         *)
(***************************************************************************)
LEMMA EndStep ==
    ASSUME AdminInv, NEW r \in Request, End(r), UNCHANGED <<row, used, told>>
    PROVE  AdminInv'
  BY FreeType, QuietStep DEF End

LEMMA CreateStep ==
    ASSUME AdminInv, NEW r \in Request, NEW who \in Caller, NEW owner \in Tenancy,
           CreateClient(r, who, owner)
    PROVE  AdminInv'
  <1> DEFINE z(i) == [Free EXCEPT !.pc = "answer", !.who = who, !.seen = {i}]
  <1>1. PICK i \in Row \ used, s \in Secret :
          /\ row' = [row EXCEPT ![i] = [live |-> TRUE, owner |-> owner, secret |-> s]]
          /\ used' = used \cup {i}
          /\ \/ told' = [told EXCEPT ![i] = s] /\ req' = [req EXCEPT ![r] = z(i)]
             \/ told' = [told EXCEPT ![i] = None] /\ UNCHANGED req
    BY DEF CreateClient
  <1> DEFINE y == [live |-> TRUE, owner |-> owner, secret |-> s]
  <1>2. /\ row \in [Row -> ClientRecord] /\ used \subseteq Row
        /\ told \in [Row -> Secret \cup {None}] /\ req \in [Request -> RequestRecord]
        /\ \A j \in Row : row[j].live => j \in used
        /\ stale' \subseteq Request
    BY DEF AdminInv, TypeOK, RowsUsed, RequestRecord, CreateClient
  <1>3. y \in ClientRecord
    BY DEF ClientRecord
  <1>4. /\ row' \in [Row -> ClientRecord]
        /\ \A j \in Row : row'[j] = IF j = i THEN y ELSE row[j]
    BY <1>1, <1>2, <1>3
  <1>5. row'[i].owner = owner
    BY <1>4
  <1> HIDE DEF y
  <1>6. Follows(row', row, used) /\ RowsUsed' /\ used' \subseteq Row /\ used \subseteq used'
    BY <1>1, <1>2, <1>4 DEF Follows, RowsUsed
  <1>7. CASE told' = [told EXCEPT ![i] = s] /\ req' = [req EXCEPT ![r] = z(i)]
    <2> DEFINE x == z(i)
    <2>1. x \in RequestRecord /\ x.pc = "answer" /\ x.who = who /\ x.seen = {i}
      BY FreeType DEF RequestRecord, Pc, Free
    <2>2. req' = [req EXCEPT ![r] = x] /\ told' \in [Row -> Secret \cup {None}]
      BY <1>2, <1>7
    <2> HIDE DEF x
    <2>3. Sound(x, row', used')
      BY <1>1, <1>5, <2>1, MayCreateOwner DEF Sound, CreateClient
    <2> QED
      BY <1>2, <1>4, <1>6, <2>1, <2>2, <2>3, StepKeeps
  <1>8. CASE told' = [told EXCEPT ![i] = None] /\ UNCHANGED req
    <2>1. req' = [req EXCEPT ![r] = req[r]] /\ req[r] \in RequestRecord
      BY <1>2, <1>8
    <2>2. Sound(req[r], row, used)
      BY DEF AdminInv
    <2>3. Sound(req[r], row', used')
      BY <1>6, <2>1, <2>2, SoundKept
    <2>4. told' \in [Row -> Secret \cup {None}]
      BY <1>2, <1>8
    <2> QED
      BY <1>2, <1>4, <1>6, <2>1, <2>3, <2>4, StepKeeps
  <1> QED
    BY <1>1, <1>7, <1>8

LEMMA StartStep ==
    ASSUME AdminInv, NEW r \in Request, NEW who \in Caller, NEW op \in Op, NEW i \in Row,
           Start(r, who, op, i)
    PROVE  AdminInv'
  <1> DEFINE x == [Free EXCEPT !.pc = "read", !.who = who, !.op = op, !.id = i]
  <1>1. x \in RequestRecord /\ x.pc = "read" /\ x.id = i
    BY FreeType DEF RequestRecord, Pc, Free
  <1>2. req' = [req EXCEPT ![r] = x] /\ UNCHANGED <<row, used, history>>
    BY DEF Start
  <1> HIDE DEF x
  <1>3. Sound(x, row, used)
    BY <1>1 DEF Sound
  <1> QED
    BY <1>1, <1>2, <1>3, QuietStep DEF history

LEMMA ListStep ==
    ASSUME AdminInv, NEW r \in Request, NEW who \in Caller, ListClients(r, who)
    PROVE  AdminInv'
  <1> DEFINE found == {i \in Row : row[i].live /\ InScope(who, row[i].owner)}
             x == [Free EXCEPT !.pc = "answer", !.who = who, !.seen = found]
  <1>1. x \in RequestRecord /\ x.pc = "answer" /\ x.who = who /\ x.seen = found
    BY FreeType DEF RequestRecord, Pc, Free
  <1>2. req' = [req EXCEPT ![r] = x] /\ UNCHANGED <<row, used, history>>
    BY DEF ListClients
  <1>3. \A i \in Row : row[i].live => i \in used /\ row[i].owner \in Tenancy
    BY ClientFacts DEF AdminInv, TypeOK, RowsUsed
  <1>4. \A i \in found : i \in used /\ (Confined(who) => row[i].owner = who.cust)
    BY <1>3, InScopeOwner
  <1> HIDE DEF x, found
  <1>5. Sound(x, row, used)
    BY <1>1, <1>4 DEF Sound
  <1> QED
    BY <1>1, <1>2, <1>5, QuietStep DEF history

LEMMA GetStep ==
    ASSUME AdminInv, NEW r \in Request, GetClientByID(r)
    PROVE  AdminInv'
  <1> DEFINE i == req[r].id
             x == [req[r] EXCEPT !.pc = "decide", !.copy = row[i]]
  <1>1. req[r] \in RequestRecord /\ Sound(req[r], row, used) /\ req[r].pc = "read"
    BY DEF AdminInv, TypeOK, RequestRecord, GetClientByID
  <1>2. i \in Row /\ row \in [Row -> ClientRecord]
    BY <1>1 DEF Sound, AdminInv, TypeOK
  <1>3. CASE ~row[i].live
    BY <1>3, EndStep DEF GetClientByID
  <1>4. CASE row[i].live
    <2>1. req' = [req EXCEPT ![r] = x] /\ UNCHANGED <<row, used, told, stale>>
      BY <1>4, <1>1 DEF GetClientByID, AdminInv, TypeOK, RequestRecord
    <2>2. x \in RequestRecord /\ x.pc = "decide" /\ x.id = i /\ x.copy = row[i]
      BY <1>1, <1>2 DEF RequestRecord, Pc
    <2>3. i \in used
      BY <1>2, <1>4 DEF AdminInv, RowsUsed
    <2> HIDE DEF x
    <2>4. Sound(x, row, used)
      BY <2>2, <2>3, <1>2 DEF Sound
    <2> QED
      BY <2>1, <2>2, <2>4, QuietStep
  <1> QED
    BY <1>3, <1>4

LEMMA GetFailsStep ==
    ASSUME AdminInv, NEW r \in Request, GetFails(r)
    PROVE  AdminInv'
  <1> DEFINE x == [req[r] EXCEPT !.pc = "decide", !.id = None]
  <1>1. req[r] \in RequestRecord /\ req \in [Request -> RequestRecord]
    BY DEF AdminInv, TypeOK, RequestRecord
  <1>2. x \in RequestRecord /\ x.pc = "decide" /\ x.id = None
    BY <1>1 DEF RequestRecord, Pc
  <1>3. req' = [req EXCEPT ![r] = x] /\ UNCHANGED <<row, used, told, stale>>
    BY <1>1 DEF GetFails, history
  <1> HIDE DEF x
  <1>4. Sound(x, row, used)
    BY <1>2 DEF Sound
  <1> QED
    BY <1>2, <1>3, <1>4, QuietStep

LEMMA DecideStep ==
    ASSUME AdminInv, NEW r \in Request, Decide(r)
    PROVE  AdminInv'
  <1> DEFINE who == req[r].who
             i == req[r].id
             owner == req[r].copy.owner
             found == {i} \cap Row
             x == [req[r] EXCEPT !.pc = "write"]
             y == [Free EXCEPT !.pc = "answer", !.who = who, !.seen = found]
  <1>1. req[r] \in RequestRecord /\ Sound(req[r], row, used) /\ req[r].pc = "decide"
    BY DEF AdminInv, TypeOK, RequestRecord, Decide
  <1>2. /\ i \in Row \cup {None} /\ who \in Caller /\ owner \in Tenancy
        /\ i # None => i \in used /\ (row[i].live => row[i].owner = owner)
    BY <1>1, ClientFacts DEF Sound, RequestRecord
  <1>3. CASE ~Permitted(who, owner)
    BY <1>3, EndStep DEF Decide
  <1>4. CASE Permitted(who, owner) /\ req[r].op = "get"
    <2>1. req' = [req EXCEPT ![r] = y] /\ UNCHANGED <<row, used, told, stale>>
      BY <1>4 DEF Decide, Answer
    <2>2. y \in RequestRecord /\ y.pc = "answer" /\ y.who = who /\ y.seen = found
      BY <1>2, FreeType DEF RequestRecord, Pc, Free
    <2>3. Confined(who) => owner = who.cust
      BY <1>2, <1>4, PermittedOwner
    <2>4. \A j \in found : j = i /\ j \in used /\ (row[j].live => row[j].owner = owner)
      BY <1>2, AdminAssumption
    <2> HIDE DEF y, found
    <2>5. Sound(y, row, used)
      BY <2>2, <2>3, <2>4 DEF Sound
    <2> QED
      BY <2>1, <2>2, <2>5, QuietStep
  <1>5. CASE Permitted(who, owner) /\ req[r].op # "get"
    <2>1. req' = [req EXCEPT ![r] = x] /\ UNCHANGED <<row, used, told, stale>>
      BY <1>5, <1>1 DEF Decide, AdminInv, TypeOK, RequestRecord
    <2>2. /\ x \in RequestRecord /\ x.pc = "write" /\ x.id = i /\ x.who = who
          /\ x.copy = req[r].copy
      BY <1>1 DEF RequestRecord, Pc
    <2> HIDE DEF x
    <2>3. Sound(x, row, used)
      BY <2>2, <1>2, <1>5 DEF Sound
    <2> QED
      BY <2>1, <2>2, <2>3, QuietStep
  <1> QED
    BY <1>3, <1>4, <1>5

\* A write that ends its request and leaves y in row i.
LEMMA WriteStep ==
    ASSUME AdminInv, NEW r \in Request, NEW i \in Row, NEW y \in ClientRecord,
           req' = [req EXCEPT ![r] = Free], row' = [row EXCEPT ![i] = y], used' = used,
           told' \in [Row -> Secret \cup {None}], stale' \subseteq Request,
           y.live => row[i].live /\ y.owner = row[i].owner
    PROVE  AdminInv'
  <1>1. row' \in [Row -> ClientRecord] /\ Follows(row', row, used) /\ RowsUsed'
    BY RowWritten
  <1>2. used \subseteq used' /\ used' \subseteq Row
    BY DEF AdminInv, TypeOK
  <1> QED
    BY <1>1, <1>2, FreeType, StepKeeps

\* The row that a write addresses.
LEMMA Written ==
    ASSUME AdminInv, NEW r \in Request, req[r].pc = "write", req[r].id # None
    PROVE  /\ req[r].id \in Row /\ row \in [Row -> ClientRecord] /\ used \subseteq Row
           /\ told \in [Row -> Secret \cup {None}] /\ stale \subseteq Request
           /\ req \in [Request -> RequestRecord]
  BY DEF AdminInv, TypeOK, RequestRecord

LEMMA TellFacts ==
    ASSUME AdminInv, NEW r \in Request, NEW i \in Row, NEW s \in Secret, Tell(r, i, s)
    PROVE  /\ req' = [req EXCEPT ![r] = Free]
           /\ told' \in [Row -> Secret \cup {None}]
           /\ stale' \subseteq Request
           /\ stale' = (IF req[r].op = "rotate" THEN stale \cup Copied(i) ELSE stale) \ {r}
  <1>1. told \in [Row -> Secret \cup {None}] /\ stale \subseteq Request
    BY DEF AdminInv, TypeOK
  <1>2. PICK t \in IF req[r].op = "rotate" THEN {s, None}
                  ELSE IF r \in stale THEN {None} ELSE {told[i]} :
           told' = [told EXCEPT ![i] = t]
    BY DEF Tell
  <1>3. t \in Secret \cup {None}
    BY <1>1, <1>2
  <1>4. told' \in [Row -> Secret \cup {None}]
    BY <1>1, <1>2, <1>3
  <1> QED
    BY <1>1, <1>4 DEF Tell, Copied

LEMMA UpdateStep ==
    ASSUME AdminInv, NEW r \in Request, UpdateClient(r)
    PROVE  AdminInv'
  <1> DEFINE i == req[r].id
  <1>1. i \in Row /\ row \in [Row -> ClientRecord]
    BY Written DEF UpdateClient
  <1>2. CASE ~row[i].live
    BY <1>2, EndStep DEF UpdateClient
  <1>3. CASE row[i].live
    <2>1. PICK s \in Secret : row' = [row EXCEPT ![i].secret = s] /\ Tell(r, i, s)
      BY <1>3 DEF UpdateClient
    <2>2. used' = used
      BY DEF UpdateClient
    <2> DEFINE y == [row[i] EXCEPT !.secret = s]
    <2>3. row[i] \in [live : {TRUE}, owner : Tenancy, secret : Secret]
      BY <1>1, <1>3, ClientFacts
    <2>4. y \in ClientRecord /\ y.owner = row[i].owner
      BY <2>3, SecretReplaced DEF ClientRecord
    <2>5. row' = [row EXCEPT ![i] = y]
      BY <2>1
    <2> HIDE DEF y, i
    <2> QED
      BY <1>1, <1>3, <2>1, <2>2, <2>4, <2>5, TellFacts, WriteStep
  <1> QED
    BY <1>2, <1>3

LEMMA DeleteStep ==
    ASSUME AdminInv, NEW r \in Request, DeleteClient(r)
    PROVE  AdminInv'
  <1>1. /\ req[r].id \in Row /\ told \in [Row -> Secret \cup {None}]
        /\ stale \subseteq Request
    BY Written DEF DeleteClient
  <1>2. /\ told' \in [Row -> Secret \cup {None}] /\ stale' \subseteq Request
        /\ req' = [req EXCEPT ![r] = Free]
    BY <1>1 DEF DeleteClient, End
  <1>3. NoClient \in ClientRecord /\ ~NoClient.live
    BY DEF ClientRecord, NoClient
  <1> QED
    BY <1>1, <1>2, <1>3, WriteStep DEF DeleteClient

\* Every route starts a request, answers a list or creates a client.
LEMMA RouteSteps ==
    ASSUME NEW r \in Request, AdminRoute(r) \/ SelfRoute(r)
    PROVE  \/ \E who \in Caller, owner \in Tenancy : CreateClient(r, who, owner)
           \/ \E who \in Caller, op \in Op, i \in Row : Start(r, who, op, i)
           \/ \E who \in Caller : ListClients(r, who)
  <1>1. Admins \subseteq Caller /\ Identities \subseteq Caller
    BY DEF Admins, Identities
  <1>2. ASSUME NEW who \in Admins PROVE customerValue(who) \in Tenancy
    <2>1. \/ who = Nobody \/ who \in [route : {"tenant"}, cust : Tenancy, admin : {TRUE}]
          \/ who \in [route : {"self"}, cust : Tenancy, admin : BOOLEAN]
      BY DEF Admins, Caller
    <2>2. None \in Tenancy
      BY DEF Tenancy
    <2>3. who.cust \in Tenancy
      <3>1. CASE who = Nobody
        <4>1. Nobody.cust = None
          BY DEF Nobody
        <4> QED
          BY <2>2, <3>1, <4>1
      <3>2. CASE who \in [route : {"tenant"}, cust : Tenancy, admin : {TRUE}]
        BY <3>2
      <3>3. CASE who \in [route : {"self"}, cust : Tenancy, admin : BOOLEAN]
        BY <3>3
      <3> QED
        BY <2>1, <3>1, <3>2, <3>3
    <2> QED
      BY <2>2, <2>3 DEF customerValue
  <1>3. {"get", "update", "rotate", "delete"} \subseteq Op
    BY DEF Op
  <1>4. CASE listClients(r) \/ selfListClients(r) \/ createClient(r) \/ selfCreateClient(r)
    BY <1>1, <1>2, <1>4 DEF listClients, selfListClients, createClient, selfCreateClient
  <1>5. ASSUME NEW i \in Row,
               getClient(r, i) \/ updateClient(r, i) \/ rotateSecret(r, i) \/ deleteClient(r, i)
        PROVE  \E who \in Caller, op \in Op : Start(r, who, op, i)
    BY <1>1, <1>3, <1>5 DEF getClient, updateClient, rotateSecret, deleteClient
  <1>6. ASSUME NEW i \in Row,
               \/ selfGetClient(r, i) \/ selfUpdateClient(r, i)
               \/ selfRotateSecret(r, i) \/ selfDeleteClient(r, i)
        PROVE  \E who \in Caller, op \in Op : Start(r, who, op, i)
    BY <1>1, <1>3, <1>6 DEF selfGetClient, selfUpdateClient, selfRotateSecret, selfDeleteClient
  <1> QED
    BY <1>4, <1>5, <1>6 DEF AdminRoute, SelfRoute

LEMMA InitHolds == Init => AdminInv
  <1> SUFFICES ASSUME Init PROVE AdminInv
    OBVIOUS
  <1>1. Free \in RequestRecord /\ Sound(Free, row, used)
    BY FreeType
  <1>2. NoClient \in ClientRecord /\ ~NoClient.live
    BY DEF ClientRecord, NoClient
  <1>3. TypeOK
    BY <1>1, <1>2 DEF Init, TypeOK, RequestRecord
  <1>4. RowsUsed
    BY <1>2 DEF Init, RowsUsed
  <1> QED
    BY <1>1, <1>3, <1>4 DEF Init, AdminInv

LEMMA NextKeeps == AdminInv /\ [Next]_vars => AdminInv'
  <1> SUFFICES ASSUME AdminInv, [Next]_vars PROVE AdminInv'
    OBVIOUS
  <1>1. CASE UNCHANGED vars
    BY <1>1 DEF AdminInv, TypeOK, RowsUsed, vars, history
  <1>2. CASE Next
    <2>1. PICK r \in Request : Step(r)
      BY <1>2 DEF Next
    <2>2. CASE \E who \in Caller, owner \in Tenancy : CreateClient(r, who, owner)
      BY <2>2, CreateStep
    <2>3. CASE \E who \in Caller, op \in Op, i \in Row : Start(r, who, op, i)
      BY <2>3, StartStep
    <2>4. CASE \E who \in Caller : ListClients(r, who)
      BY <2>4, ListStep
    <2>5. CASE GetClientByID(r)
      BY <2>5, GetStep
    <2>6. CASE Decide(r)
      BY <2>6, DecideStep
    <2>7. CASE UpdateClient(r)
      BY <2>7, UpdateStep
    <2>8. CASE DeleteClient(r)
      BY <2>8, DeleteStep
    <2>9. CASE Finish(r)
      BY <2>9, EndStep DEF Finish
    <2>10. CASE GetFails(r)
      BY <2>10, GetFailsStep
    <2> QED
      BY <2>1, <2>2, <2>3, <2>4, <2>5, <2>6, <2>7, <2>8, <2>9, <2>10, RouteSteps DEF Step
  <1> QED
    BY <1>1, <1>2

\* No step brings a used key back or changes its owner.
LEMMA StepFollows == AdminInv /\ [Next]_vars => Follows(row', row, used)
  <1> SUFFICES ASSUME AdminInv, [Next]_vars PROVE Follows(row', row, used)
    OBVIOUS
  <1>1. CASE UNCHANGED row
    BY <1>1 DEF Follows
  <1>2. ASSUME NEW r \in Request, NEW who \in Caller, NEW owner \in Tenancy,
               CreateClient(r, who, owner)
        PROVE  Follows(row', row, used)
    <2>1. PICK i \in Row \ used, s \in Secret :
             row' = [row EXCEPT ![i] = [live |-> TRUE, owner |-> owner, secret |-> s]]
      BY <1>2 DEF CreateClient
    <2>2. row \in [Row -> ClientRecord] /\ used \subseteq Row
      BY DEF AdminInv, TypeOK
    <2> QED
      BY <2>1, <2>2 DEF Follows
  <1>3. ASSUME NEW r \in Request, UpdateClient(r)
        PROVE  Follows(row', row, used)
    <2> DEFINE i == req[r].id
    <2>1. i \in Row /\ row \in [Row -> ClientRecord] /\ used \subseteq Row
      BY <1>3, Written DEF UpdateClient
    <2>2. CASE row[i].live
      <3>1. PICK s \in Secret : row' = [row EXCEPT ![i].secret = s]
        BY <1>3, <2>2 DEF UpdateClient
      <3> DEFINE y == [row[i] EXCEPT !.secret = s]
      <3>2. row[i] \in [live : {TRUE}, owner : Tenancy, secret : Secret]
        BY <2>1, <2>2, ClientFacts
      <3>3. y.owner = row[i].owner
        BY <3>2, SecretReplaced
      <3>4. row' = [row EXCEPT ![i] = y]
        BY <3>1
      <3> HIDE DEF y, i
      <3> QED
        BY <2>1, <2>2, <3>3, <3>4 DEF Follows
    <2>3. CASE ~row[i].live
      BY <1>3, <2>3, <1>1 DEF UpdateClient
    <2> QED
      BY <2>2, <2>3
  <1>4. ASSUME NEW r \in Request, DeleteClient(r)
        PROVE  Follows(row', row, used)
    <2>1. req[r].id \in Row /\ row \in [Row -> ClientRecord] /\ used \subseteq Row
      BY <1>4, Written DEF DeleteClient
    <2>2. row' = [row EXCEPT ![req[r].id] = NoClient] /\ ~NoClient.live
      BY <1>4 DEF DeleteClient, NoClient
    <2> QED
      BY <2>1, <2>2 DEF Follows
  <1> QED
    BY <1>1, <1>2, <1>3, <1>4, RouteSteps
    DEF Next, Step, Start, ListClients, GetClientByID, GetFails, Decide, Finish, vars

-----------------------------------------------------------------------------
(***************************************************************************)
(* The theorems.                                                            *)
(***************************************************************************)
\* The inductive invariant of client administration.
THEOREM AdminInvHolds == Spec => []AdminInv
  BY InitHolds, NextKeeps, PTL DEF Spec

\* The state of the handlers and of the table is always well typed.
THEOREM AdminTypeCorrect == Spec => []TypeOK
  <1>1. AdminInv => TypeOK
    BY DEF AdminInv
  <1> QED
    BY <1>1, AdminInvHolds, PTL

\* Lists, reads and creations answer a confined caller with its own clients.
THEOREM AnswersAreScoped == Spec => []AnswerScoped
  <1>1. AdminInv => AnswerScoped
    BY DEF AdminInv, AnswerScoped, Sound
  <1> QED
    BY <1>1, AdminInvHolds, PTL

\* A request that is about to write to a row acts for the tenant that owns it.
LEMMA WriterOwns ==
    ASSUME AdminInv, NEW r \in Request, req[r].pc = "write", req[r].id # None,
           row[req[r].id].live, Confined(req[r].who)
    PROVE  row[req[r].id].owner = req[r].who.cust
  <1>1. req[r] \in RequestRecord /\ Sound(req[r], row, used)
    BY DEF AdminInv, TypeOK, RequestRecord
  <1>2. /\ req[r].who \in Caller /\ req[r].copy.owner \in Tenancy
        /\ Permitted(req[r].who, req[r].copy.owner)
        /\ row[req[r].id].owner = req[r].copy.owner
    BY <1>1, ClientFacts DEF RequestRecord, Sound
  <1> QED
    BY <1>2, PermittedOwner

Isolated(r, i) == \/ ~Changes(r, i)
                  \/ req[r].pc = "idle"
                  \/ ~Confined(req[r].who)
                  \/ row[i].owner = req[r].who.cust

LEMMA StepIsolated ==
    ASSUME AdminInv, [Next]_vars, NEW r \in Request, NEW i \in Row
    PROVE  Isolated(r, i)
  <1> SUFFICES ASSUME Changes(r, i), req[r].pc # "idle", Confined(req[r].who)
               PROVE  row[i].owner = req[r].who.cust
    BY DEF Isolated
  <1>1. req'[r] # req[r] /\ row'[i] # row[i]
    BY DEF Changes
  <1>2. row \in [Row -> ClientRecord] /\ req \in [Request -> RequestRecord]
    BY DEF AdminInv, TypeOK, RequestRecord
  <1>3. PICK q \in Request : Step(q)
    BY <1>1 DEF Next, vars
  <1>4. ASSUME NEW who, NEW owner, CreateClient(q, who, owner)
        PROVE  FALSE
    BY <1>1, <1>2, <1>4 DEF CreateClient
  <1>5. CASE UpdateClient(q)
    <2>1. q = r
      BY <1>1, <1>2, <1>5 DEF UpdateClient, Tell, End
    <2>2. req[q].pc = "write" /\ req[q].id # None /\ row[req[q].id].live /\ i = req[q].id
      BY <1>1, <1>2, <1>5 DEF UpdateClient
    <2> QED
      BY <2>1, <2>2, WriterOwns
  <1>6. CASE DeleteClient(q)
    <2>1. q = r
      BY <1>1, <1>2, <1>6 DEF DeleteClient, End
    <2>2. req[q].pc = "write" /\ req[q].id # None /\ i = req[q].id /\ row[i] # NoClient
      BY <1>1, <1>2, <1>6 DEF DeleteClient
    <2>3. row[i].live
      BY <1>2, <2>2 DEF ClientRecord
    <2> QED
      BY <2>1, <2>2, <2>3, WriterOwns
  <1> QED
    BY <1>1, <1>3, <1>4, <1>5, <1>6, RouteSteps
    DEF Step, Start, ListClients, GetClientByID, GetFails, Decide, Finish

\* A caller that is confined to a tenant changes clients of that tenant only.
THEOREM TenantsAreIsolated == Spec => TenantIsolation
  <1>1. ASSUME AdminInv, [Next]_vars
        PROVE  [\A r \in Request, i \in Row : Isolated(r, i)]_vars
    BY <1>1, StepIsolated
  <1>2. AdminInv /\ [Next]_vars
          => [\A r \in Request, i \in Row :
                \/ ~Changes(r, i)
                \/ req[r].pc = "idle"
                \/ ~Confined(req[r].who)
                \/ row[i].owner = req[r].who.cust]_vars
    BY <1>1 DEF Isolated
  <1> QED
    BY <1>2, AdminInvHolds, PTL DEF Spec, TenantIsolation

\* A deleted client never comes back, and no client changes hands.
THEOREM ClientsKeepOwners == Spec => Lifetime
  <1>1. ASSUME AdminInv, [Next]_vars
        PROVE  [\A i \in used : /\ ~row[i].live => ~row'[i].live
                                /\ row'[i].live => row'[i].owner = row[i].owner]_vars
    BY <1>1, StepFollows DEF Follows
  <1> QED
    BY <1>1, AdminInvHolds, PTL DEF Spec, Lifetime

-----------------------------------------------------------------------------
(***************************************************************************)
(* ReturnedSecretStored.  The secret that the last caller was told is in    *)
(* the row and in every copy that an update may still write back, save for  *)
(* the stale ones: when such an update writes, nobody counts as told.       *)
(***************************************************************************)
Holds(x, i) == x.id = i /\ x.op = "update" /\ x.pc \in {"decide", "write"}

SecretInv ==
    \A i \in Row : row[i].live /\ told[i] # None =>
        /\ row[i].secret = told[i]
        /\ \A q \in Request \ stale : Holds(req[q], i) => req[q].copy.secret = told[i]

\* A step of request r that leaves x behind and the table alone.
LEMMA SecretsQuiet ==
    ASSUME AdminInv, SecretInv, NEW r \in Request, NEW x,
           req' = [req EXCEPT ![r] = x], UNCHANGED <<row, told>>,
           stale \ {r} \subseteq stale',
           \A i \in Row : Holds(x, i) =>
              \/ x.copy = row[i]
              \/ Holds(req[r], i) /\ x.copy = req[r].copy /\ stale' = stale
    PROVE  SecretInv'
  <1>1. \A q \in Request : req'[q] = IF q = r THEN x ELSE req[q]
    BY DEF AdminInv, TypeOK
  <1> QED
    BY <1>1 DEF SecretInv

\* A step of request r that leaves x behind, which holds no copy, and writes row i.
LEMMA SecretsWritten ==
    ASSUME AdminInv, SecretInv, NEW r \in Request, NEW x, NEW i \in Row, NEW y, NEW m,
           req' = [req EXCEPT ![r] = x], \A j \in Row : ~Holds(x, j),
           row' = [row EXCEPT ![i] = y], told' = [told EXCEPT ![i] = m],
           stale \ {r} \subseteq stale',
           y.live /\ m # None =>
              /\ y.secret = m
              /\ \A q \in Request \ {r} :
                    Holds(req[q], i) /\ q \notin stale' => req[q].copy.secret = m
    PROVE  SecretInv'
  <1>1. \A q \in Request : req'[q] = IF q = r THEN x ELSE req[q]
    BY DEF AdminInv, TypeOK
  <1>2. /\ \A j \in Row : row'[j] = IF j = i THEN y ELSE row[j]
        /\ \A j \in Row : told'[j] = IF j = i THEN m ELSE told[j]
    BY DEF AdminInv, TypeOK
  <1>3. ASSUME NEW j \in Row, row'[j].live, told'[j] # None
        PROVE  /\ row'[j].secret = told'[j]
               /\ \A q \in Request \ stale' :
                     Holds(req'[q], j) => req'[q].copy.secret = told'[j]
    <2>1. CASE j = i
      BY <1>1, <1>2, <1>3, <2>1
    <2>2. CASE j # i
      BY <1>1, <1>2, <1>3, <2>2 DEF SecretInv
    <2> QED
      BY <2>1, <2>2
  <1> QED
    BY <1>3 DEF SecretInv

LEMMA FreeHoldsNothing == \A i \in Row : ~Holds(Free, i)
  BY DEF Holds, Free

\* A request that ends and leaves the table alone.
LEMMA SecretsEnd ==
    ASSUME AdminInv, SecretInv, NEW r \in Request, End(r), UNCHANGED <<row, told>>
    PROVE  SecretInv'
  BY SecretsQuiet, FreeHoldsNothing DEF End

LEMMA SecretsUpdated ==
    ASSUME AdminInv, SecretInv, NEW r \in Request, UpdateClient(r)
    PROVE  SecretInv'
  <1> DEFINE i == req[r].id
  <1>1. /\ i \in Row /\ row \in [Row -> ClientRecord] /\ req[r].pc = "write"
        /\ req[r].op \in {"update", "rotate"}
    BY Written DEF UpdateClient
  <1>2. CASE ~row[i].live
    BY <1>2, SecretsEnd DEF UpdateClient
  <1>3. CASE row[i].live
    <2>1. PICK s \in Secret : /\ NewSecret(r, i, s)
                              /\ row' = [row EXCEPT ![i].secret = s]
                              /\ Tell(r, i, s)
      BY <1>3 DEF UpdateClient
    <2> HIDE DEF i
    <2>2. PICK m \in IF req[r].op = "rotate" THEN {s, None}
                    ELSE IF r \in stale THEN {None} ELSE {told[i]} :
             told' = [told EXCEPT ![i] = m]
      BY <2>1 DEF Tell
    <2>3. /\ req' = [req EXCEPT ![r] = Free]
          /\ stale' = (IF req[r].op = "rotate" THEN stale \cup Copied(i) ELSE stale) \ {r}
      BY <1>1, <2>1, TellFacts
    <2> DEFINE y == [row[i] EXCEPT !.secret = s]
    <2>4. row' = [row EXCEPT ![i] = y]
      BY <2>1
    <2>5. row[i] \in [live : {TRUE}, owner : Tenancy, secret : Secret]
      BY <1>1, <1>3, ClientFacts
    <2>6. y.secret = s
      BY <2>5
    <2>7. ASSUME m # None
          PROVE  /\ s = m
                 /\ \A q \in Request \ {r} :
                       Holds(req[q], i) /\ q \notin stale' => req[q].copy.secret = m
      <3>1. CASE req[r].op = "rotate"
        <4>1. \A q \in Request \ {r} : Holds(req[q], i) => q \in stale'
          BY <2>3, <3>1 DEF Copied, Holds
        <4> QED
          BY <2>2, <2>7, <3>1, <4>1
      <3>2. CASE req[r].op = "update"
        <4>1. m = told[i] /\ r \notin stale /\ s = req[r].copy.secret /\ stale' = stale \ {r}
          BY <2>1, <2>2, <2>3, <2>7, <3>2 DEF NewSecret
        <4>2. Holds(req[r], i)
          BY <1>1, <3>2 DEF Holds, i
        <4> QED
          BY <1>1, <1>3, <2>7, <4>1, <4>2 DEF SecretInv
      <3> QED
        BY <1>1, <3>1, <3>2
    <2>8. stale \ {r} \subseteq stale'
      BY <2>3
    <2> HIDE DEF y, i
    <2> QED
      BY <1>1, <2>2, <2>3, <2>4, <2>6, <2>7, <2>8, FreeHoldsNothing, SecretsWritten
  <1> QED
    BY <1>2, <1>3

LEMMA SecretsDeleted ==
    ASSUME AdminInv, SecretInv, NEW r \in Request, DeleteClient(r)
    PROVE  SecretInv'
  <1>1. /\ req[r].id \in Row /\ req' = [req EXCEPT ![r] = Free]
        /\ row' = [row EXCEPT ![req[r].id] = NoClient]
        /\ told' = [told EXCEPT ![req[r].id] = None]
        /\ stale' = stale \ {r}
    BY Written DEF DeleteClient, End
  <1> QED
    BY <1>1, FreeHoldsNothing, SecretsWritten

LEMMA SecretsCreated ==
    ASSUME AdminInv, SecretInv, NEW r \in Request, NEW who \in Caller, NEW owner \in Tenancy,
           CreateClient(r, who, owner)
    PROVE  SecretInv'
  <1> DEFINE z(i) == [Free EXCEPT !.pc = "answer", !.who = who, !.seen = {i}]
  <1>1. PICK i \in Row \ used, s \in Secret :
          /\ row' = [row EXCEPT ![i] = [live |-> TRUE, owner |-> owner, secret |-> s]]
          /\ \/ told' = [told EXCEPT ![i] = s] /\ req' = [req EXCEPT ![r] = z(i)]
             \/ told' = [told EXCEPT ![i] = None] /\ UNCHANGED req
    BY DEF CreateClient
  <1>2. /\ stale' = stale /\ told \in [Row -> Secret \cup {None}]
        /\ req \in [Request -> RequestRecord]
        /\ row \in [Row -> ClientRecord]
    BY DEF CreateClient, AdminInv, TypeOK, RequestRecord
  <1> DEFINE y == [live |-> TRUE, owner |-> owner, secret |-> s]
  <1>3. y.secret = s
    OBVIOUS
  <1>4. \A q \in Request : ~Holds(req[q], i)
    BY AdminAssumption DEF AdminInv, Sound, Holds
  <1>5. row' = [row EXCEPT ![i] = y]
    BY <1>1
  <1> HIDE DEF y
  <1>6. CASE told' = [told EXCEPT ![i] = s] /\ req' = [req EXCEPT ![r] = z(i)]
    <2> DEFINE x == z(i)
    <2>1. \A j \in Row : ~Holds(x, j)
      BY DEF Holds, Free
    <2>2. req' = [req EXCEPT ![r] = x]
      BY <1>6
    <2> HIDE DEF x
    <2> QED
      BY <1>2, <1>3, <1>4, <1>5, <1>6, <2>1, <2>2, SecretsWritten
  <1>7. CASE told' = [told EXCEPT ![i] = None] /\ UNCHANGED req
    <2>1. req' = [req EXCEPT ![r] = req[r]] /\ \A j \in Row : ~Holds(req[r], j)
      BY <1>2, <1>7 DEF CreateClient, Holds
    <2> QED
      BY <1>2, <1>5, <1>7, <2>1, SecretsWritten
  <1> QED
    BY <1>1, <1>6, <1>7

LEMMA SecretsStep == AdminInv /\ SecretInv /\ [Next]_vars => SecretInv'
  <1> SUFFICES ASSUME AdminInv, SecretInv, [Next]_vars PROVE SecretInv'
    OBVIOUS
  <1>1. CASE UNCHANGED vars
    BY <1>1 DEF SecretInv, vars, history
  <1>2. ASSUME NEW r \in Request, Step(r) PROVE SecretInv'
    <2> DEFINE Quietly(x) == req' = [req EXCEPT ![r] = x] /\ UNCHANGED <<row, told, stale>>
    <2>1. ASSUME NEW who \in Caller, NEW op \in Op, NEW i \in Row, Start(r, who, op, i)
          PROVE  SecretInv'
      <3> DEFINE x == [Free EXCEPT !.pc = "read", !.who = who, !.op = op, !.id = i]
      <3>1. Quietly(x) /\ \A j \in Row : ~Holds(x, j)
        BY <2>1 DEF Start, Holds, Free, history
      <3> QED
        BY <3>1, SecretsQuiet
    <2>2. ASSUME NEW who \in Caller, ListClients(r, who) PROVE SecretInv'
      <3> DEFINE found == {i \in Row : row[i].live /\ InScope(who, row[i].owner)}
                 x == [Free EXCEPT !.pc = "answer", !.who = who, !.seen = found]
      <3>1. Quietly(x) /\ x.pc = "answer"
        BY <2>2 DEF ListClients, Free, history
      <3> HIDE DEF x
      <3> QED
        BY <3>1, SecretsQuiet DEF Holds
    <2>3. CASE GetClientByID(r)
      <3> DEFINE i == req[r].id
                 x == [req[r] EXCEPT !.pc = "decide", !.copy = row[i]]
      <3>1. req[r] \in RequestRecord
        BY DEF AdminInv, TypeOK, RequestRecord
      <3>2. CASE ~row[i].live
        BY <2>3, <3>2, SecretsEnd DEF GetClientByID
      <3>3. CASE row[i].live
        <4>1. Quietly(x)
          BY <2>3, <3>3, <3>1 DEF GetClientByID, AdminInv, TypeOK
        <4>2. x.copy = row[x.id]
          BY <3>1 DEF RequestRecord
        <4> HIDE DEF x
        <4>3. \A j \in Row : Holds(x, j) => x.copy = row[j]
          BY <4>2 DEF Holds
        <4> QED
          BY <4>1, <4>3, SecretsQuiet
      <3> QED
        BY <3>2, <3>3
    <2>4. CASE Decide(r)
      <3> DEFINE x == [req[r] EXCEPT !.pc = "write"]
                 a == [Free EXCEPT !.pc = "answer", !.who = req[r].who, !.seen = {req[r].id} \cap Row]
      <3>1. req[r] \in RequestRecord /\ req[r].pc = "decide"
        BY <2>4 DEF AdminInv, TypeOK, RequestRecord, Decide
      <3>2. Quietly(a) \/ Quietly(x) \/ (End(r) /\ UNCHANGED <<row, told>>)
        BY <2>4, <3>1 DEF Decide, Answer, AdminInv, TypeOK
      <3>3. a.pc = "answer"
        BY DEF Free
      <3>4. x.copy = req[r].copy /\ x.id = req[r].id /\ x.op = req[r].op
        BY <3>1 DEF RequestRecord
      <3> HIDE DEF x, a
      <3>5. \A j \in Row : /\ ~Holds(a, j)
                           /\ Holds(x, j) => Holds(req[r], j) /\ x.copy = req[r].copy
        BY <3>1, <3>3, <3>4 DEF Holds
      <3>6. CASE Quietly(a)
        BY <3>5, <3>6, SecretsQuiet
      <3>7. CASE Quietly(x)
        BY <3>5, <3>7, SecretsQuiet
      <3> QED
        BY <3>2, <3>6, <3>7, SecretsEnd
    <2>5. CASE GetFails(r)
      <3> DEFINE x == [req[r] EXCEPT !.pc = "decide", !.id = None]
      <3>1. req \in [Request -> RequestRecord] /\ req[r] \in RequestRecord
        BY DEF AdminInv, TypeOK, RequestRecord
      <3>2. Quietly(x)
        BY <2>5, <3>1 DEF GetFails, history
      <3>3. x.id = None
        BY <3>1 DEF RequestRecord
      <3> HIDE DEF x
      <3>4. \A j \in Row : ~Holds(x, j)
        BY <3>3, AdminAssumption DEF Holds
      <3> QED
        BY <3>2, <3>4, SecretsQuiet
    <2>6. CASE Finish(r)
      BY <2>6, SecretsEnd DEF Finish
    <2>7. CASE UpdateClient(r)
      BY <2>7, SecretsUpdated
    <2>8. CASE DeleteClient(r)
      BY <2>8, SecretsDeleted
    <2> QED
      BY <1>2, <2>1, <2>2, <2>3, <2>4, <2>5, <2>6, <2>7, <2>8, SecretsCreated, RouteSteps DEF Step
  <1> QED
    BY <1>1, <1>2 DEF Next

\* The secret that the caller of the last creation or rotation to take effect was
\* told is the one in the row, for any number of concurrent requests, lost answers
\* and failed reads, until an update that had read the row before it writes
\* (UpdateClient).
THEOREM ReturnedSecretsStay == Spec => []ReturnedSecretStored
  <1>1. Init => SecretInv
    BY DEF Init, SecretInv, NoClient
  <1>2. SecretInv => ReturnedSecretStored
    BY DEF SecretInv, ReturnedSecretStored
  <1>3. Spec => []SecretInv
    BY <1>1, AdminInvHolds, SecretsStep, PTL DEF Spec
  <1> QED
    BY <1>2, <1>3, PTL
===============================================================================
