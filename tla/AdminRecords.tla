----------------------------- MODULE AdminRecords -----------------------------
(***************************************************************************)
(* The SAML service providers and identity policies kept by the global      *)
(* admin routes (internal/handlers/admin.go, internal/store/store.go).      *)
(*                                                                         *)
(* Both are rows that PUT changes in two statements: the handler reads the  *)
(* row, lays the fields of the request over it and writes all of it back.   *)
(* A field is Blank when it is empty once trimmed; only the fields that a   *)
(* create insists on are kept.  An update takes acs_endpoints that trimming *)
(* empties for left out (Absent); only a list under the key acs is refused. *)
(***************************************************************************)
EXTENDS Naturals, FiniteSets

CONSTANTS
    Provider,  \* ids of rows of saml_service_providers, random and used once
    Pol,       \* ids of rows of identity_policies
    Value,     \* what a field can hold besides nothing
    Request,   \* concurrent requests
    Blank,
    Absent,    \* a field that the body of a request leaves out
    None

ASSUME RecordsAssumption ==
    /\ Provider \cap Pol = {}
    /\ Blank \notin Value /\ Absent \notin Value \cup {Blank}
    /\ None \notin Provider \cup Pol

VARIABLES
    row,    \* row[i]: the fields of row i, or NoRow
    req,
    born,   \* history: ids that have been inserted
    dead    \* history: ids that have been deleted

vars == <<row, req, born, dead>>

Id == Provider \cup Pol
Fields(i) == IF i \in Provider THEN {"entityId", "acs", "binding"} ELSE {"name", "targetType"}
Rows(i) == [Fields(i) -> Value \cup {Blank}]
Patches(i) == [Fields(i) -> Value \cup {Blank, Absent}]
NoRow == [none |-> Blank]
Exists(i) == row[i] # NoRow
Free == [pc |-> "idle", id |-> None, val |-> NoRow]

Init ==
    /\ row = [i \in Id |-> NoRow]
    /\ req = [r \in Request |-> Free]
    /\ born = {}
    /\ dead = {}

At(r, pc, table) == req[r].pc = pc /\ req[r].id \in table
End(r) == req' = [req EXCEPT ![r] = Free]

\* The unique index of saml_service_providers; each statement is atomic.
EntityFree(i, v) == \A j \in Provider \ {i} : Exists(j) => row[j]["entityId"] # v["entityId"]

(***************************************************************************)
(* POST: one insert, of a body that has every field.                        *)
(***************************************************************************)
Complete(v) == \A f \in DOMAIN v : v[f] # Blank

Insert(i, v) ==
    /\ i \notin born
    /\ row' = [row EXCEPT ![i] = v]
    /\ born' = born \cup {i}
    /\ UNCHANGED <<req, dead>>

CreateServiceProvider(i, v) == EntityFree(i, v) /\ Insert(i, v)
CreatePolicy(i, v) == Insert(i, v)

createServiceProvider(i, v) == Complete(v) /\ CreateServiceProvider(i, v)
createPolicy(i, v) == Complete(v) /\ CreatePolicy(i, v)

(***************************************************************************)
(* PUT: read, lay the body over the copy, write.                            *)
(***************************************************************************)
Read(r, i) ==
    /\ req[r].pc = "idle"
    /\ Exists(i)
    /\ req' = [req EXCEPT ![r] = [pc |-> "patch", id |-> i, val |-> row[i]]]
    /\ UNCHANGED <<row, born, dead>>

GetServiceProvider(r, i) == i \in Provider /\ Read(r, i)
GetPolicy(r, i) == i \in Pol /\ Read(r, i)

Laid(v, patch) == [f \in DOMAIN v |-> IF patch[f] = Absent THEN v[f] ELSE patch[f]]

Overlay(r, patch) ==
    /\ req' = [req EXCEPT ![r] = [pc |-> "write", id |-> req[r].id, val |-> Laid(req[r].val, patch)]]
    /\ UNCHANGED <<row, born, dead>>

\* Mutant: an empty list of endpoints is stored.
AnyPatch(r, patch) ==
    /\ At(r, "patch", Provider)
    /\ Overlay(r, patch)

\* acs_endpoints_required: a list acs that is empty after trimming ends the request.
updateServiceProvider(r, patch) ==
    /\ At(r, "patch", Provider)
    /\ patch["acs"] # Blank
    /\ Overlay(r, patch)

\* Nothing is checked, and a field of blanks is stored as the empty string.
updatePolicy(r, patch) ==
    /\ At(r, "patch", Pol)
    /\ Overlay(r, patch)

\* All columns are written; an update of a row that is gone changes nothing.
Write(r) ==
    /\ row' = IF Exists(req[r].id) THEN [row EXCEPT ![req[r].id] = req[r].val] ELSE row
    /\ End(r)
    /\ UNCHANGED <<born, dead>>

\* Mutant: the row is written whether or not it is still there.
Upsert(r) ==
    /\ At(r, "write", Provider)
    /\ EntityFree(req[r].id, req[r].val)
    /\ row' = [row EXCEPT ![req[r].id] = req[r].val]
    /\ End(r)
    /\ UNCHANGED <<born, dead>>

UpdateServiceProvider(r) ==
    /\ At(r, "write", Provider)
    /\ EntityFree(req[r].id, req[r].val)
    /\ Write(r)

UpdatePolicy(r) ==
    /\ At(r, "write", Pol)
    /\ Write(r)

\* Refused, by a check or by the database, or the client is gone.
GiveUp(r) ==
    /\ req[r].pc # "idle"
    /\ End(r)
    /\ UNCHANGED <<row, born, dead>>

Delete(i) ==
    /\ Exists(i)
    /\ row' = [row EXCEPT ![i] = NoRow]
    /\ dead' = dead \cup {i}
    /\ UNCHANGED <<req, born>>

DeleteServiceProvider(i) == i \in Provider /\ Delete(i)
DeletePolicy(i) == i \in Pol /\ Delete(i)

\* DELETE looks at nothing but the id.
deleteServiceProvider(i) == DeleteServiceProvider(i)
deletePolicy(i) == DeletePolicy(i)

Next ==
    \/ \E i \in Provider :
          \/ \E v \in Rows(i) : createServiceProvider(i, v)
          \/ deleteServiceProvider(i)
          \/ \E r \in Request : GetServiceProvider(r, i)
    \/ \E i \in Pol :
          \/ \E v \in Rows(i) : createPolicy(i, v)
          \/ deletePolicy(i)
          \/ \E r \in Request : GetPolicy(r, i)
    \/ \E r \in Request :
          \/ \E i \in Provider : \E p \in Patches(i) : updateServiceProvider(r, p)
          \/ \E i \in Pol : \E p \in Patches(i) : updatePolicy(r, p)
          \/ UpdateServiceProvider(r) \/ UpdatePolicy(r) \/ GiveUp(r)

Spec == Init /\ [][Next]_vars

-----------------------------------------------------------------------------
\* Rows and copies have the fields of their table, and a row exists exactly when
\* it has been inserted and not deleted: an update that overlaps a delete does
\* not bring the row back (RowsAffected in UpdateServiceProvider, UpdatePolicy).
TypeOK ==
    /\ born \subseteq Id /\ dead \subseteq born
    /\ \A i \in Id : IF i \in born \ dead THEN row[i] \in Rows(i) ELSE row[i] = NoRow
    /\ \A r \in Request :
          \/ req[r] = Free
          \/ /\ req[r].pc \in {"patch", "write"}
             /\ req[r].id \in born
             /\ req[r].val \in Rows(req[r].id)

\* Every service provider can be reached: however updates overlap, a stored row
\* has an endpoint.
EndpointsKept == \A i \in Provider : Exists(i) => row[i]["acs"] # Blank
=============================================================================
