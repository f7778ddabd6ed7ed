--------------------------- MODULE SigningKeysProofs ---------------------------
(***************************************************************************)
(* Two components of which each has names of its own.  KeysAgree for any    *)
(* number of processes and keys, and, in the second part, the remote        *)
(* authorizer that may stand before the handlers (Authorizer).              *)
(*                                                                         *)
(* KeysAgree alone is not inductive: a process about to insert could bring  *)
(* a key that is already stored.  KeyInv adds where the keys of the starts  *)
(* come from, that a start which found no valid row is alone in that        *)
(* (FirstAlone), and that one valid row at most exists until the history    *)
(* says otherwise.  The keys that sessions and tokens name were those of running *)
(* processes, so they have valid rows as well (TokensStored), and one valid *)
(* row at most means that they are the same (TokensReadable).               *)
(***************************************************************************)
EXTENDS SigningKeys, Authorizer, FiniteSetTheorems, TLAPS

\* Creation times are numbers because finitely many keys have been generated.
FiniteRows == IsFiniteSet(generated)

\* A key that is about to be inserted has no row yet, and one process has it.
InsertsFresh ==
    \A p \in Process : proc[p].pc = "insert" =>
        /\ proc[p].key \in generated \ Stored
        /\ \A q \in Process : proc[q].pc = "insert" /\ proc[q].key = proc[p].key => p = q

\* The keys in use have rows, which are valid until one is invalidated.
UsedStored ==
    \A p \in Process : proc[p].pc = "up" =>
        /\ proc[p].key \in Stored
        /\ rotated \/ proc[p].key \in Active

\* Between the check and the insert of a start the table has no valid row, and no
\* other process is there.
FirstAlone ==
    contested \/ rotated \/ \A p \in Process : First(p) =>
        Active = {} /\ \A q \in Process : First(q) => p = q

OneActive == contested \/ rotated \/ \A j, k \in Active : j = k

\* So have the keys that sessions and tokens name.
Kept(k) == k \in Stored /\ (rotated \/ k \in Active)
TokensStored ==
    /\ \A g \in Grant : session[g] # None => Kept(session[g])
    /\ \A t \in Token : tok[t] # Unsigned => Kept(tok[t].kid) /\ Kept(tok[t].key)

KeyInv == TypeOK /\ FiniteRows /\ InsertsFresh /\ UsedStored /\ TokensStored
          /\ FirstAlone /\ OneActive

-----------------------------------------------------------------------------
\* No key has been generated at first, and no process runs.
LEMMA InitInv == Init => KeyInv
<1> SUFFICES ASSUME Init PROVE KeyInv
  OBVIOUS
<1>1. Stored = {} /\ Active = {}
  BY DEF Init, Stored, Active
<1>2. TypeOK
  BY <1>1 DEF Init, TypeOK, Down, Unsigned
<1>3. FiniteRows
  BY FS_EmptySet DEF Init, FiniteRows
<1>4. InsertsFresh /\ UsedStored /\ TokensStored /\ FirstAlone /\ OneActive
  BY <1>1 DEF Init, InsertsFresh, UsedStored, TokensStored, FirstAlone, First, OneActive, Down
<1> QED BY <1>2, <1>3, <1>4 DEF KeyInv

\* The invariant gives the property: a single valid row is the newest one.
LEMMA InvAgrees == KeyInv => KeysAgree
<1> SUFFICES ASSUME KeyInv, NEW p \in Process, proc[p].pc = "up"
             PROVE  /\ Published(p) \subseteq Stored
                    /\ contested \/ rotated \/ Newest(proc[p].key)
  BY DEF KeysAgree
<1>1. proc[p].key \in Stored
  BY DEF KeyInv, UsedStored
<1>2. Published(p) \subseteq Stored
  BY <1>1 DEF Published
<1>3. ASSUME ~contested, ~rotated PROVE Newest(proc[p].key)
  <2>1. proc[p].key \in Active
    BY <1>3 DEF KeyInv, UsedStored
  <2>2. \A j \in Active : j = proc[p].key
    BY <1>3, <2>1 DEF KeyInv, OneActive
  <2>3. rows[proc[p].key] \in Nat
    BY <2>1 DEF KeyInv, TypeOK, Active, Stored
  <2> QED BY <2>1, <2>2, <2>3 DEF Newest
<1> QED BY <1>2, <1>3

\* What a new row does to the table.
LEMMA InsertRow ==
    ASSUME KeyInv, NEW k \in Key, k \notin Stored,
           NEW secret \in Secrets \cup {None}, AddRow(k, secret)
    PROVE  /\ rows' \in [Key -> Nat] /\ sealed' \in [Key -> Secrets \cup {None}]
           /\ invalid' = invalid
           /\ Stored' = Stored \cup {k}
           /\ Active' = Active \cup {k}
<1>1. k \notin invalid
  BY DEF KeyInv, TypeOK
<1>2. IsFiniteSet(Stored)
  BY FS_Subset DEF KeyInv, FiniteRows, TypeOK
<1>3. Cardinality(Stored) \in Nat
  BY <1>2, FS_CardinalityType
<1> DEFINE n == Cardinality(Stored) + 1
<1>4. n \in Nat /\ n > 0 /\ rows' = [rows EXCEPT ![k] = n]
  BY <1>3 DEF AddRow
<1> HIDE DEF n
<1>5. rows \in [Key -> Nat] /\ sealed \in [Key -> Secrets \cup {None}]
  BY DEF KeyInv, TypeOK
<1>6. rows' \in [Key -> Nat] /\ rows'[k] = n /\ \A j \in Key \ {k} : rows'[j] = rows[j]
  BY <1>4, <1>5
<1>7. Stored' = Stored \cup {k}
  BY <1>4, <1>6 DEF Stored
<1>8. invalid' = invalid /\ sealed' \in [Key -> Secrets \cup {None}]
  BY <1>5 DEF AddRow
<1>9. Active' = Active \cup {k}
  BY <1>1, <1>7, <1>8 DEF Active
<1> QED BY <1>6, <1>7, <1>8, <1>9

\* While one valid row at most exists, all the keys in use are that one.
LEMMA InvReads == KeyInv => TokensReadable
<1> SUFFICES ASSUME KeyInv, NEW t \in Token, tok[t] # Unsigned, ~contested, ~rotated
             PROVE  /\ tok[t].kid = tok[t].key
                    /\ \A p \in Process : proc[p].pc = "up" => verifyJWT(p, t)
  BY DEF TokensReadable
<1>1. tok[t].kid \in Active /\ tok[t].key \in Active
  BY DEF KeyInv, TokensStored, Kept
<1>2. \A p \in Process : proc[p].pc = "up" => proc[p].key \in Active
  BY DEF KeyInv, UsedStored
<1>3. \A j, k \in Active : j = k
  BY DEF KeyInv, OneActive
<1> QED BY <1>1, <1>2, <1>3 DEF verifyJWT

\* A step that takes no row away and issues nothing keeps the issued tokens' rows.
LEMMA TokensStay ==
    ASSUME TokensStored, UNCHANGED issued, Stored \subseteq Stored',
           rotated' \/ (rotated' = rotated /\ Active \subseteq Active')
    PROVE  TokensStored'
BY DEF TokensStored, Kept, issued

\* Signing: the key is that of a running process, the id its own or the session's.
LEMMA SignKeeps ==
    ASSUME KeyInv, NEW p \in Process, NEW t \in Token, NEW kid \in Key, Kept(kid), Sign(p, t, kid)
    PROVE  KeyInv'
<1> USE DEF KeyInv
<1>1. /\ proc[p].pc = "up" /\ tok[t] = Unsigned
      /\ tok' = [tok EXCEPT ![t] = [kid |-> kid, key |-> proc[p].key]]
      /\ UNCHANGED <<rows, sealed, invalid, proc, generated, session, contested, rotated>>
  BY DEF Sign, table, history
<1>2. Stored' = Stored /\ Active' = Active
  BY <1>1 DEF Stored, Active
<1>3. proc[p].key \in Key /\ Kept(proc[p].key)
  BY <1>1 DEF UsedStored, TypeOK, Kept, Stored
<1>4. TypeOK'
  BY <1>1, <1>2, <1>3 DEF TypeOK
<1>5. \A s \in Token : tok'[s] = tok[s] \/ tok'[s] = [kid |-> kid, key |-> proc[p].key]
  BY <1>1 DEF TypeOK
<1>6. TokensStored'
  BY <1>1, <1>2, <1>3, <1>5 DEF TokensStored, Kept
<1>7. FiniteRows' /\ InsertsFresh' /\ UsedStored' /\ FirstAlone' /\ OneActive'
  BY <1>1, <1>2 DEF FiniteRows, InsertsFresh, UsedStored, FirstAlone, First, OneActive
<1> QED BY <1>4, <1>6, <1>7

\* Every step keeps the invariant: one case per action.
LEMMA StepInv == KeyInv /\ [Next]_vars => KeyInv'
<1> SUFFICES ASSUME KeyInv, [Next]_vars PROVE KeyInv'
  OBVIOUS
<1> USE DEF KeyInv
<1>a. ASSUME UNCHANGED table PROVE Stored' = Stored /\ Active' = Active
  BY <1>a DEF table, Stored, Active
<1> USE DEF table, history
<1>1. ASSUME NEW p \in Process, Start(p) PROVE KeyInv'
  <2>1. Stored' = Stored /\ Active' = Active
    BY <1>1, <1>a DEF Start
  <2>2. TokensStored'
    BY <1>1, <2>1, TokensStay DEF Start
  <2> QED BY <1>1, <2>1, <2>2 DEF issued, Start, Goto, TypeOK, FiniteRows, InsertsFresh, UsedStored, FirstAlone,
         First, OneActive
<1>2. ASSUME NEW p \in Process, ActiveKeys(p) PROVE KeyInv'
  <2>1. Stored' = Stored /\ Active' = Active /\ UNCHANGED <<table, generated, issued, rotated>>
    BY <1>2, <1>a DEF ActiveKeys
  <2>2. TokensStored'
    BY <2>1, TokensStay
  <2>3. CASE /\ Active = {} /\ Goto(p, "generate", None)
             /\ contested' = (contested \/ \E q \in Process : First(q))
    <3>1. TypeOK' /\ FiniteRows' /\ InsertsFresh' /\ UsedStored' /\ OneActive'
      BY <2>1, <2>3 DEF issued, Goto, TypeOK, FiniteRows, InsertsFresh, UsedStored, OneActive
    <3>2. FirstAlone'
      BY <2>1, <2>3 DEF Goto, TypeOK, FirstAlone, First
    <3> QED BY <2>2, <3>1, <3>2
  <2>4. ASSUME NEW k \in Key, Newest(k), UNCHANGED contested,
               Goto(p, "up", k) \/ Goto(p, "down", None)
        PROVE  KeyInv'
    <3>1. k \in Active /\ k \in Stored /\ k # None
      BY <2>4, KeyAssumption DEF Newest, Active
    <3>2. TypeOK'
      BY <2>1, <2>4, <3>1 DEF issued, Goto, TypeOK
    <3>3. FiniteRows' /\ InsertsFresh' /\ UsedStored' /\ FirstAlone' /\ OneActive'
      BY SMTT(60), <2>1, <2>4, <3>1 DEF Goto, TypeOK, FiniteRows, InsertsFresh, UsedStored, FirstAlone,
         First, OneActive
    <3> QED BY <2>2, <3>2, <3>3
  <2> QED BY <1>2, <2>3, <2>4 DEF ActiveKeys
<1>3. ASSUME NEW p \in Process, GenerateKey(p) PROVE KeyInv'
  <2>1. Stored' = Stored /\ Active' = Active
    BY <1>3, <1>a DEF GenerateKey
  <2>2. PICK k \in Key \ generated : Shape[k] = "pkcs1" /\ generated' = generated \cup {k} /\ Goto(p, "insert", k)
    BY <1>3 DEF GenerateKey
  <2>3. k # None /\ k \notin Stored
    BY <2>2, KeyAssumption DEF TypeOK
  <2>4. FiniteRows'
    BY <2>2, FS_AddElement DEF FiniteRows
  <2>5. TypeOK'
    BY <1>3, <2>1, <2>2, <2>3 DEF GenerateKey, Goto, TypeOK, issued
  <2>6. InsertsFresh'
    BY <2>1, <2>2, <2>3 DEF Goto, TypeOK, InsertsFresh
  <2>7. UsedStored' /\ FirstAlone' /\ OneActive'
    BY <1>3, <2>1, <2>2 DEF GenerateKey, Goto, TypeOK, UsedStored, FirstAlone,
         First, OneActive
  <2>8. TokensStored'
    BY <1>3, <2>1, TokensStay DEF GenerateKey
  <2> QED BY <2>4, <2>5, <2>6, <2>7, <2>8
<1>4. ASSUME NEW p \in Process, InsertKey(p) \/ InsertLost(p) PROVE KeyInv'
  <2> DEFINE k == proc[p].key
  <2>1. /\ proc[p].pc = "insert" /\ AddRow(k, Encrypt(p))
        /\ UNCHANGED <<generated, issued, contested, rotated>>
        /\ Goto(p, "up", k) \/ proc' = [proc EXCEPT ![p] = Down]
    BY <1>4 DEF InsertKey, InsertLost
  <2>3. k \in generated /\ k \in Key /\ k # None /\ k \notin Stored
    BY <2>1, KeyAssumption DEF InsertsFresh, TypeOK
  <2>e. Encrypt(p) \in Secrets \cup {None}
    BY DEF Encrypt, Secrets
  <2>2. /\ rows' \in [Key -> Nat] /\ sealed' \in [Key -> Secrets \cup {None}]
        /\ invalid' = invalid
        /\ Stored' = Stored \cup {k} /\ Active' = Active \cup {k}
    BY <2>1, <2>3, <2>e, InsertRow
  <2>4. TypeOK'
    BY <2>1, <2>2, <2>3 DEF TypeOK, Goto, Down, issued
  <2>5. FiniteRows'
    BY <2>1 DEF FiniteRows
  <2>6. InsertsFresh'
    BY SMTT(60), <2>1, <2>2, <2>3 DEF InsertsFresh, TypeOK, Goto, Down
  <2>7. UsedStored'
    <3>1. \A q \in Process : proc'[q].pc = "up" => proc'[q] = proc[q] \/ proc'[q].key = k
      BY <2>1 DEF Goto, Down, TypeOK
    <3> QED BY <2>1, <2>2, <3>1 DEF UsedStored
  <2>8. FirstAlone' /\ OneActive'
    <3>1. ~First(p)' /\ \A q \in Process \ {p} : First(q)' <=> First(q)
      BY <2>1 DEF First, Goto, Down, TypeOK
    <3>2. First(p)
      BY <2>1 DEF First
    <3>3. contested \/ rotated \/ (Active = {} /\ \A q \in Process : First(q) => p = q)
      BY <3>2 DEF FirstAlone
    <3> QED BY <2>1, <2>2, <3>1, <3>3 DEF FirstAlone, OneActive
  <2>9. TokensStored'
    BY <2>1, <2>2, TokensStay
  <2> QED BY <2>4, <2>5, <2>6, <2>7, <2>8, <2>9
<1>11. ASSUME NEW k \in Key, NEW secret \in Secrets \cup {None}, ImportKey(k, secret)
       PROVE  KeyInv'
  <2>1. /\ k \notin generated /\ generated' = generated \cup {k} /\ AddRow(k, secret)
        /\ contested' = (contested \/ Active # {} \/ \E q \in Process : First(q))
        /\ UNCHANGED <<proc, issued, rotated>>
    BY <1>11 DEF ImportKey
  <2>2. /\ rows' \in [Key -> Nat] /\ sealed' \in [Key -> Secrets \cup {None}]
        /\ invalid' = invalid
        /\ Stored' = Stored \cup {k} /\ Active' = Active \cup {k}
    BY <2>1, InsertRow DEF TypeOK
  <2>3. TypeOK'
    BY <2>1, <2>2 DEF TypeOK, issued
  <2>4. FiniteRows'
    BY <2>1, FS_AddElement DEF FiniteRows
  <2>5. InsertsFresh' /\ UsedStored'
    BY <2>1, <2>2 DEF InsertsFresh, UsedStored
  <2>6. FirstAlone' /\ OneActive'
    BY <2>1, <2>2 DEF FirstAlone, First, OneActive
  <2>7. TokensStored'
    BY <2>1, <2>2, TokensStay
  <2> QED BY <2>3, <2>4, <2>5, <2>6, <2>7
<1>5. ASSUME NEW p \in Process, Crash(p) PROVE KeyInv'
  <2>1. Stored' = Stored /\ Active' = Active
    BY <1>5, <1>a DEF Crash
  <2>2. TokensStored'
    BY <1>5, <2>1, TokensStay DEF Crash
  <2> QED BY <1>5, <2>1, <2>2 DEF issued, Crash, Down, TypeOK, FiniteRows, InsertsFresh, UsedStored, FirstAlone,
         First, OneActive
<1>6. ASSUME NEW k \in Key, Invalidate(k) PROVE KeyInv'
  <2>1. Stored' = Stored
    BY <1>6 DEF Invalidate, Stored
  <2>2. k \in Stored
    BY <1>6 DEF Invalidate, Active
  <2>3. TokensStored'
    BY <1>6, <2>1, TokensStay DEF Invalidate
  <2> QED BY <1>6, <2>1, <2>2, <2>3 DEF issued, Invalidate, TypeOK, FiniteRows, InsertsFresh, UsedStored, FirstAlone,
         First, OneActive
<1>7. ASSUME UNCHANGED vars PROVE KeyInv'
  <2>1. Stored' = Stored /\ Active' = Active
    BY <1>7, <1>a DEF vars
  <2>2. TokensStored'
    BY <1>7, <2>1, TokensStay DEF vars
  <2> QED BY <1>7, <2>1, <2>2 DEF issued, vars, TypeOK, FiniteRows, InsertsFresh, UsedStored, FirstAlone,
         First, OneActive
<1>8. ASSUME NEW p \in Process, NEW g \in Grant, newFositeSession(p, g) PROVE KeyInv'
  <2>1. Stored' = Stored /\ Active' = Active
    BY <1>8, <1>a DEF newFositeSession
  <2>2. proc[p].key \in Key /\ Kept(proc[p].key)
    BY <1>8 DEF newFositeSession, UsedStored, TypeOK, Kept, Stored
  <2>3. \A h \in Grant : session'[h] \in {session[h], proc[p].key}
    BY <1>8 DEF newFositeSession, TypeOK
  <2>4. TypeOK'
    BY <1>8, <2>1, <2>2 DEF newFositeSession, TypeOK
  <2>5. TokensStored'
    BY <1>8, <2>1, <2>2, <2>3 DEF newFositeSession, TokensStored, Kept
  <2> QED BY <1>8, <2>1, <2>4, <2>5 DEF newFositeSession, FiniteRows, InsertsFresh, UsedStored,
                                        FirstAlone, First, OneActive
<1>9. ASSUME NEW p \in Process, NEW g \in Grant, NEW t \in Token, NewAccessResponse(p, g, t)
      PROVE  KeyInv'
  <2>1. session[g] \in Key /\ Kept(session[g])
    BY <1>9 DEF NewAccessResponse, TypeOK, TokensStored
  <2> QED BY <1>9, <2>1, SignKeeps DEF NewAccessResponse
<1>10. ASSUME NEW p \in Process, NEW t \in Token, signJWT(p, t) PROVE KeyInv'
  <2>1. proc[p].key \in Key /\ Kept(proc[p].key)
    BY <1>10 DEF signJWT, Sign, UsedStored, TypeOK, Kept, Stored
  <2> QED BY <1>10, <2>1, SignKeeps DEF signJWT
<1> QED BY <1>1, <1>2, <1>3, <1>4, <1>5, <1>6, <1>7, <1>8, <1>9, <1>10, <1>11 DEF Next

-----------------------------------------------------------------------------
\* The inductive invariant holds throughout.
THEOREM KeyInvHolds == Spec => []KeyInv
<1> QED BY InitInv, StepInv, PTL DEF Spec

\* The key table and the processes are always well typed (loadSigningKey).
THEOREM KeysTypeCorrect == Spec => []TypeOK
<1>1. KeyInv => TypeOK
  BY DEF KeyInv
<1> QED BY KeyInvHolds, <1>1, PTL

\* However many processes start, stop and fail on one table, a running process
\* signs with a stored key that the next start finds, until a row is invalidated
\* or two first starts overlap (loadSigningKey, JWKS).
THEOREM RunningKeysAgree == Spec => []KeysAgree
<1> QED BY KeyInvHolds, InvAgrees, PTL

\* Every token is verified by every running process and found by the key id in its
\* header, wherever that id was taken from and whoever restarted in between, with
\* the exemptions of RunningKeysAgree (newFositeSession, verifyJWT).
THEOREM TokensStayReadable == Spec => []TokensReadable
<1> QED BY KeyInvHolds, InvReads, PTL
-----------------------------------------------------------------------------
(***************************************************************************)
(* The remote authorizer that may stand before the handlers (Authorizer),   *)
(* for any number of handlers and questions and any lifetimes.              *)
(*                                                                         *)
(* TokenAlive and AnswerRecent say nothing of the steps that lead to a      *)
(* call.  RemoteInv adds the deadlines: a token is signed while its fetch   *)
(* runs, so the client believes in it one timeout too long at most, and a   *)
(* call that starts with Margin left ends before its token does.  An answer *)
(* is dated by the time after which the PDP may have changed its mind,      *)
(* from the reply into the cache and out of it.                             *)
(***************************************************************************)
Val == Answer \cup {"none", "refused", "error"}
AskPc == Waiting \cup {"idle", "cache", "lock", "done"}
AskRecord == [pc : AskPc, key : Question \cup {Nil}, val : Val, exp : Int, due : Int]
EntryRecord == [val : Answer \cup {"none"}, exp : Int]
TokenRecord == [exp : Int, believed : Int]
Fetching(x) == x.pc \in {"fetch", "minted"}

\* An answer v to the question q was the PDP's at time n or later, if the truths t
\* have changed at the times s.
Since(v, q, n, t, s) == v \in Answer /\ v # t[q] => s[q] >= n

\* What a handler in the state x knows at time n: until when its call runs, what the
\* token it sends is good for, and how old the answer is that it has.
Knows(x, n, t, s) ==
    /\ x.pc # "idle" => x.key \in Question
    /\ x.val # "refused"
    /\ x.pc = "fetch" => n <= x.due /\ x.due <= n + Timeout
    /\ x.pc = "minted" => n <= x.due /\ x.due <= (x.exp - TokenTTL) + Timeout
    /\ x.pc = "call" => n <= x.due /\ x.due <= x.exp /\ x.due <= n + Timeout
    /\ x.pc = "reply" => /\ n <= x.due /\ x.due <= n + Timeout
                         /\ Since(x.val, x.key, x.due - Timeout, t, s)
    /\ x.pc = "done" => Since(x.val, x.key, n - (CacheTTL + Timeout), t, s)

\* A cache entry e for the question q.
EntryKept(e, q, n, t, s) ==
    /\ e.exp <= n + CacheTTL
    /\ Since(e.val, q, e.exp - (CacheTTL + Timeout), t, s)

\* The client believes in a token one timeout too long at most.
Trusted(x) == x.believed <= x.exp + Timeout

RemoteInv ==
    /\ AuthorizerTypeOK
    /\ Trusted(token)
    /\ \A q \in Question : EntryKept(cache[q], q, now, truth, since)
    /\ \A r \in Request : Knows(req[r], now, truth, since)

LEMMA RemoteTypes ==
    ASSUME RemoteInv
    PROVE  /\ now \in Int /\ truth \in [Question -> Answer]
           /\ since \in [Question -> Int] /\ cache \in [Question -> EntryRecord]
           /\ token \in TokenRecord /\ holder \in Request \cup {Nil}
           /\ req \in [Request -> AskRecord]
           /\ \A r \in Request : Fetching(req[r]) <=> holder = r
  BY DEF RemoteInv, AuthorizerTypeOK, EntryRecord, TokenRecord, AskRecord, AskPc, Val, Fetching

\* A handler r goes on as x; the mutex is passed between it and nobody else.
LEMMA MoveStep ==
    ASSUME RemoteInv, NEW r \in Request, NEW x \in AskRecord,
           req' = [req EXCEPT ![r] = x], Knows(x, now, truth, since),
           UNCHANGED <<now, truth, since>>,
           holder' \in Request \cup {Nil},
           Fetching(x) <=> holder' = r,
           \A q \in Request \ {r} : holder' = q <=> holder = q,
           cache' \in [Question -> EntryRecord],
           \A q \in Question : EntryKept(cache'[q], q, now, truth, since),
           token' \in TokenRecord, Trusted(token')
    PROVE  RemoteInv'
<1>1. /\ req'[r] = x /\ req' \in [Request -> AskRecord]
      /\ \A q \in Request \ {r} : req'[q] = req[q]
  BY RemoteTypes
<1>2. \A q \in Request : Fetching(req'[q]) <=> holder' = q
  BY <1>1, RemoteTypes
<1>3. \A q \in Request : Knows(req'[q], now, truth, since)
  BY <1>1 DEF RemoteInv
<1>4. AuthorizerTypeOK'
  <2>1. /\ now \in 0..MaxTime /\ truth \in [Question -> Answer]
        /\ since \in [Question -> Int]
    BY DEF RemoteInv, AuthorizerTypeOK
  <2> QED BY <1>1, <1>2, <2>1
          DEF AuthorizerTypeOK, Answer, Waiting,
              EntryRecord, TokenRecord, AskRecord, AskPc, Val, Fetching
<1>5. \A q \in Request : Knows(req[q], now, truth, since)'
  BY <1>3 DEF Knows, Since
<1>6. \A q \in Question : EntryKept(cache[q], q, now, truth, since)'
  OBVIOUS
<1>7. Trusted(token)'
  BY DEF Trusted
<1> QED BY <1>4, <1>5, <1>6, <1>7 DEF RemoteInv

\* The steps that touch neither cache, token nor mutex.
LEMMA AloneStep ==
    ASSUME RemoteInv, NEW r \in Request, NEW x \in AskRecord,
           req' = [req EXCEPT ![r] = x], Knows(x, now, truth, since),
           Fetching(x) <=> Fetching(req[r]),
           UNCHANGED <<now, truth, since, cache, token, holder>>
    PROVE  RemoteInv'
<1>1. /\ holder' \in Request \cup {Nil}
      /\ Fetching(x) <=> holder' = r
      /\ \A q \in Request \ {r} : holder' = q <=> holder = q
  BY RemoteTypes
<1>2. cache' \in [Question -> EntryRecord] /\ token' \in TokenRecord
  BY RemoteTypes
<1>3. Trusted(token') /\ \A q \in Question : EntryKept(cache'[q], q, now, truth, since)
  BY DEF RemoteInv
<1> QED BY <1>1, <1>2, <1>3, MoveStep

LEMMA Pcs == {"idle", "cache", "lock", "done", "fetch", "minted", "call", "reply"} \subseteq AskPc
  BY DEF AskPc, Waiting

LEMMA RemoteInit ==
    ASSUME AuthorizerInit
    PROVE  RemoteInv
<1>1. \A r \in Request : req[r] = Free /\ req[r].pc = "idle" /\ req[r].val = "none"
  BY DEF AuthorizerInit, Free
<1>2. LongAgo \in Int /\ LongAgo <= CacheTTL
  BY AuthorizerAssumption DEF LongAgo
<1>3. AuthorizerTypeOK
  BY <1>1, <1>2, AuthorizerAssumption DEF AuthorizerInit, AuthorizerTypeOK, Free, NoEntry, Answer
<1>4. Trusted(token)
  BY <1>2, AuthorizerAssumption DEF AuthorizerInit, Trusted
<1>5. \A q \in Question : EntryKept(cache[q], q, now, truth, since)
  BY <1>2, AuthorizerAssumption DEF AuthorizerInit, EntryKept, Since, NoEntry, Answer
<1>6. \A r \in Request : Knows(req[r], now, truth, since)
  BY <1>1 DEF Knows
<1> QED BY <1>3, <1>4, <1>5, <1>6 DEF RemoteInv

LEMMA AskStep ==
    ASSUME RemoteInv, NEW r \in Request, NEW k \in Question,
           Ask(r, k)
    PROVE  RemoteInv'
<1> DEFINE x == [Free EXCEPT !.pc = "cache", !.key = k]
<1>1. /\ req[r].pc = "idle" /\ req' = [req EXCEPT ![r] = x]
      /\ UNCHANGED <<now, truth, since, cache, token, holder>>
  BY DEF Ask, At
<1>2. /\ x \in AskRecord /\ x.pc = "cache" /\ x.key = k /\ x.val = "none"
  <2>1. Free \in AskRecord
    BY Pcs DEF AskRecord, Val, Free
  <2>2. Free.val = "none"
    BY DEF Free
  <2>3. PICK f \in AskRecord : f = Free
    BY <2>1
  <2> QED BY <2>2, <2>3, Pcs DEF AskRecord
<1> HIDE DEF x
<1>3. Knows(x, now, truth, since)
  BY <1>2 DEF Knows
<1>4. Fetching(x) <=> Fetching(req[r])
  BY <1>1, <1>2 DEF Fetching
<1> QED BY <1>1, <1>2, <1>3, <1>4, AloneStep

\* A handler is done with val, which is no older than it may be.
LEMMA DoneRecord ==
    ASSUME RemoteInv, NEW r \in Request, NEW val \in Val \ {"refused"},
           req[r].pc # "idle", Done(r, val),
           Since(val, req[r].key, now - (CacheTTL + Timeout), truth, since)
    PROVE  \E x \in AskRecord : /\ req' = [req EXCEPT ![r] = x]
                                /\ Knows(x, now, truth, since)
                                /\ x.pc = "done" /\ ~Fetching(x)
<1>1. PICK y \in AskRecord : y = req[r]
  BY RemoteTypes
<1> DEFINE x == [y EXCEPT !.pc = "done", !.val = val]
<1>2. x \in AskRecord /\ x.pc = "done" /\ x.val = val /\ x.key = y.key
  BY DEF AskRecord, AskPc
<1>3. req' = [req EXCEPT ![r] = x]
  BY <1>1, RemoteTypes DEF Done
<1>4. y.key \in Question
  BY <1>1 DEF RemoteInv, Knows
<1> HIDE DEF x
<1>5. Knows(x, now, truth, since)
  BY <1>1, <1>2, <1>4 DEF Knows
<1> QED BY <1>2, <1>3, <1>5 DEF Fetching

LEMMA GetCachedStep ==
    ASSUME RemoteInv, NEW r \in Request, getCached(r)
    PROVE  RemoteInv'
<1>1. /\ req[r].pc = "cache" /\ UNCHANGED <<now, truth, since, cache, token, holder>>
      /\ req[r].key \in Question
  BY DEF getCached, At, RemoteInv, Knows
<1>2. CASE Hit(req[r].key)
  <2>1. PICK q \in Question, v \in Answer \cup {"none"} :
            q = req[r].key /\ v = cache[req[r].key].val
    BY <1>1, RemoteTypes DEF EntryRecord
  <2>2. v # "none" /\ now <= cache[q].exp /\ Done(r, v)
    BY <1>2, <2>1 DEF getCached, Hit
  <2>3. Since(v, q, cache[q].exp - (CacheTTL + Timeout), truth, since)
    BY <2>1 DEF RemoteInv, EntryKept
  <2>4. now \in Int /\ cache[q].exp \in Int /\ since[q] \in Int
    BY RemoteTypes DEF EntryRecord
  <2>5. Since(v, q, now - (CacheTTL + Timeout), truth, since)
    BY <2>2, <2>3, <2>4, AuthorizerAssumption DEF Since
  <2>6. v \in Val \ {"refused"}
    BY <2>2 DEF Val, Answer
  <2>7. PICK x \in AskRecord : /\ req' = [req EXCEPT ![r] = x]
                               /\ Knows(x, now, truth, since) /\ ~Fetching(x)
    BY <1>1, <2>1, <2>2, <2>5, <2>6, DoneRecord
  <2>8. Fetching(x) <=> Fetching(req[r])
    BY <1>1, <2>7 DEF Fetching
  <2> QED BY <1>1, <2>7, <2>8, AloneStep
<1>3. CASE ~Hit(req[r].key)
  <2>1. PICK y \in AskRecord : y = req[r]
    BY RemoteTypes
  <2> DEFINE x == [y EXCEPT !.pc = "lock"]
  <2>2. x \in AskRecord /\ x.pc = "lock" /\ x.key = y.key /\ x.val = y.val
    BY DEF AskRecord, AskPc
  <2>3. req' = [req EXCEPT ![r] = x]
    BY <1>3, <2>1, RemoteTypes DEF getCached
  <2> HIDE DEF x
  <2>4. Knows(x, now, truth, since)
    BY <1>1, <2>1, <2>2 DEF RemoteInv, Knows
  <2>5. Fetching(x) <=> Fetching(req[r])
    BY <1>1, <2>2 DEF Fetching
  <2> QED BY <1>1, <2>2, <2>3, <2>4, <2>5, AloneStep
<1> QED BY <1>2, <1>3

\* A call runs with a token that outlives it.
LEMMA UseTokenStep ==
    ASSUME RemoteInv, NEW r \in Request, UseToken(r)
    PROVE  RemoteInv'
<1>1. /\ req[r].pc = "lock" /\ holder = Nil /\ now < token.believed - Margin
      /\ Call(r, token.exp) /\ UNCHANGED <<now, truth, since, cache, token, holder>>
  BY DEF UseToken, At, Fresh
<1>2. PICK y \in AskRecord, e \in Int : y = req[r] /\ e = token.exp
  BY RemoteTypes DEF TokenRecord
<1>3. now \in Int /\ Timeout \in Nat /\ token.believed \in Int
  BY RemoteTypes, AuthorizerAssumption DEF TokenRecord
<1>4. PICK d \in Int : d = now + Timeout
  BY <1>3
<1> DEFINE x == [y EXCEPT !.pc = "call", !.exp = e, !.due = d]
<1>5. req' = [req EXCEPT ![r] = x]
  BY <1>1, <1>2, <1>4, RemoteTypes DEF Call
<1>6. /\ x \in AskRecord /\ x.pc = "call" /\ x.exp = e /\ x.due = d
      /\ x.key = y.key /\ x.val = y.val
  BY Pcs DEF AskRecord
<1> HIDE DEF x
<1>7. now + Timeout <= e
  BY <1>1, <1>2, <1>3, AuthorizerAssumption DEF RemoteInv, Trusted
<1>8. Knows(x, now, truth, since)
  BY <1>1, <1>2, <1>3, <1>4, <1>6, <1>7 DEF RemoteInv, Knows
<1>9. Fetching(x) <=> Fetching(req[r])
  BY <1>1, <1>6 DEF Fetching
<1> QED BY <1>1, <1>5, <1>6, <1>8, <1>9, AloneStep

LEMMA FetchTokenStep ==
    ASSUME RemoteInv, NEW r \in Request, FetchToken(r)
    PROVE  RemoteInv'
<1>1. /\ req[r].pc = "lock" /\ holder = Nil /\ holder' = r
      /\ UNCHANGED <<now, truth, since, cache, token>>
  BY DEF FetchToken, At
<1>2. PICK y \in AskRecord : y = req[r]
  BY RemoteTypes
<1>3. now \in Int /\ Timeout \in Nat
  BY RemoteTypes, AuthorizerAssumption
<1>10. PICK d \in Int : d = now + Timeout
  BY <1>3
<1> DEFINE x == [y EXCEPT !.pc = "fetch", !.due = d]
<1>4. /\ x \in AskRecord /\ x.pc = "fetch" /\ x.due = d
      /\ x.key = y.key /\ x.val = y.val
  BY Pcs DEF AskRecord
<1>5. req' = [req EXCEPT ![r] = x]
  BY <1>2, <1>10, RemoteTypes DEF FetchToken
<1> HIDE DEF x
<1>6. Knows(x, now, truth, since)
  BY <1>1, <1>2, <1>3, <1>4, <1>10 DEF RemoteInv, Knows
<1>7. Fetching(x) /\ Nil \notin Request
  BY <1>4, AuthorizerAssumption DEF Fetching
<1>8. cache' \in [Question -> EntryRecord] /\ token' \in TokenRecord
  BY <1>1, RemoteTypes
<1>9. Trusted(token') /\ \A q \in Question : EntryKept(cache'[q], q, now, truth, since)
  BY <1>1 DEF RemoteInv
<1> QED BY <1>1, <1>4, <1>5, <1>6, <1>7, <1>8, <1>9, MoveStep

LEMMA MintStep ==
    ASSUME RemoteInv, NEW r \in Request, Mint(r)
    PROVE  RemoteInv'
<1>1. req[r].pc = "fetch" /\ UNCHANGED <<now, truth, since, cache, token, holder>>
  BY DEF Mint, At
<1>2. PICK y \in AskRecord : y = req[r]
  BY RemoteTypes
<1>3. now \in Int /\ Timeout \in Nat /\ TokenTTL \in Nat
  BY RemoteTypes, AuthorizerAssumption
<1>10. PICK e \in Int : e = now + TokenTTL
  BY <1>3
<1> DEFINE x == [y EXCEPT !.pc = "minted", !.exp = e]
<1>4. /\ x \in AskRecord /\ x.pc = "minted" /\ x.exp = e
      /\ x.due = y.due /\ x.key = y.key /\ x.val = y.val
  BY Pcs DEF AskRecord
<1>5. req' = [req EXCEPT ![r] = x]
  BY <1>2, <1>10, RemoteTypes DEF Mint
<1> HIDE DEF x
<1>6. y.due \in Int
  BY DEF AskRecord
<1>7. Knows(x, now, truth, since)
  BY <1>1, <1>2, <1>3, <1>4, <1>6, <1>10 DEF RemoteInv, Knows
<1>8. Fetching(x) <=> Fetching(req[r])
  BY <1>1, <1>4 DEF Fetching
<1> QED BY <1>1, <1>4, <1>5, <1>7, <1>8, AloneStep

\* The client counts the lifetime from the arrival of the token, one timeout after it
\* was signed at the latest.
LEMMA ReceiveTokenStep ==
    ASSUME RemoteInv, NEW r \in Request, ReceiveToken(r)
    PROVE  RemoteInv'
<1>1. /\ req[r].pc = "minted" /\ holder' = Nil /\ UNCHANGED <<now, truth, since, cache>>
      /\ token' = [exp |-> req[r].exp, believed |-> now + TokenTTL]
      /\ Call(r, req[r].exp)
  BY DEF ReceiveToken, At
<1>2. PICK y \in AskRecord : y = req[r]
  BY RemoteTypes
<1>3. now \in Int /\ Timeout \in Nat /\ TokenTTL \in Nat /\ TokenTTL >= 2 * Timeout
  BY RemoteTypes, AuthorizerAssumption
<1>4. y.exp \in Int /\ y.due \in Int
  BY DEF AskRecord
<1>5. now <= y.due /\ y.due <= (y.exp - TokenTTL) + Timeout
  BY <1>1, <1>2 DEF RemoteInv, Knows
<1>13. PICK d \in Int, e \in Int : d = now + Timeout /\ e = y.exp
  BY <1>3, <1>4
<1> DEFINE x == [y EXCEPT !.pc = "call", !.exp = e, !.due = d]
<1>6. /\ x \in AskRecord /\ x.pc = "call" /\ x.exp = e /\ x.due = d
      /\ x.key = y.key /\ x.val = y.val
  BY Pcs DEF AskRecord
<1>7. req' = [req EXCEPT ![r] = x]
  BY <1>1, <1>2, <1>13, RemoteTypes DEF Call
<1> HIDE DEF x
<1>8. Knows(x, now, truth, since)
  <2>1. x.due <= x.exp /\ now <= x.due /\ x.due <= now + Timeout
    BY <1>3, <1>4, <1>5, <1>6, <1>13
  <2>2. x.key \in Question /\ x.val # "refused"
    BY <1>1, <1>2, <1>6 DEF RemoteInv, Knows
  <2> QED BY <1>6, <2>1, <2>2 DEF Knows
<1>9. token' \in TokenRecord /\ Trusted(token')
  BY <1>1, <1>2, <1>3, <1>4, <1>5 DEF TokenRecord, Trusted
<1>10. holder = r /\ Nil \notin Request /\ ~Fetching(x)
  BY <1>1, <1>6, RemoteTypes, AuthorizerAssumption DEF Fetching
<1>11. cache' \in [Question -> EntryRecord]
  BY <1>1, RemoteTypes
<1>12. \A q \in Question : EntryKept(cache'[q], q, now, truth, since)
  BY <1>1 DEF RemoteInv
<1> QED BY <1>1, <1>6, <1>7, <1>8, <1>9, <1>10, <1>11, <1>12, MoveStep

LEMMA FetchFailsStep ==
    ASSUME RemoteInv, NEW r \in Request, FetchFails(r)
    PROVE  RemoteInv'
<1>1. /\ req[r].pc \in {"fetch", "minted"} /\ holder' = Nil /\ Done(r, "error")
      /\ UNCHANGED <<now, truth, since, cache, token>>
  BY DEF FetchFails, At
<1>2. "error" \in Val \ {"refused"} /\ "error" \notin Answer
  BY DEF Val, Answer
<1>3. PICK x \in AskRecord : /\ req' = [req EXCEPT ![r] = x]
                             /\ Knows(x, now, truth, since) /\ ~Fetching(x)
  BY <1>1, <1>2, DoneRecord DEF Since
<1>4. holder = r /\ Nil \notin Request
  BY <1>1, RemoteTypes, AuthorizerAssumption DEF Fetching
<1>5. cache' \in [Question -> EntryRecord] /\ token' \in TokenRecord
  BY <1>1, RemoteTypes
<1>6. Trusted(token') /\ \A q \in Question : EntryKept(cache'[q], q, now, truth, since)
  BY <1>1 DEF RemoteInv
<1> QED BY <1>1, <1>3, <1>4, <1>5, <1>6, MoveStep

\* The PDP gets the token before it expires, and its answer is true when it is given.
LEMMA DecisionStep ==
    ASSUME RemoteInv, NEW r \in Request, Decide(r)
    PROVE  RemoteInv'
<1>1. req[r].pc = "call" /\ UNCHANGED <<now, truth, since, cache, token, holder>>
  BY DEF Decide, At
<1>2. PICK y \in AskRecord : y = req[r]
  BY RemoteTypes
<1>3. now \in Int /\ y.due \in Int /\ y.exp \in Int
  BY RemoteTypes DEF AskRecord
<1>4. now <= y.due /\ y.due <= y.exp /\ y.due <= now + Timeout /\ y.key \in Question
  BY <1>1, <1>2 DEF RemoteInv, Knows
<1>5. PICK v \in Answer : v = truth[y.key]
  BY <1>4, RemoteTypes
<1> DEFINE x == [y EXCEPT !.pc = "reply", !.val = v]
<1>6. req' = [req EXCEPT ![r] = x]
  <2>1. (IF now <= req[r].exp THEN truth[req[r].key] ELSE "refused") = v
    BY <1>2, <1>3, <1>4, <1>5
  <2> QED BY <1>2, <2>1, RemoteTypes DEF Decide
<1>7. v \in Val /\ v # "refused"
  BY DEF Val, Answer
<1>8. /\ x \in AskRecord /\ x.pc = "reply" /\ x.val = v
      /\ x.due = y.due /\ x.key = y.key
  BY <1>7, Pcs DEF AskRecord
<1> HIDE DEF x
<1>9. Knows(x, now, truth, since)
  BY <1>4, <1>5, <1>7, <1>8 DEF Knows, Since
<1>10. Fetching(x) <=> Fetching(req[r])
  BY <1>1, <1>8 DEF Fetching
<1> QED BY <1>1, <1>6, <1>8, <1>9, <1>10, AloneStep

\* An answer that comes back was true when the call began or later.
LEMMA DeliverStep ==
    ASSUME RemoteInv, NEW r \in Request, Deliver(r)
    PROVE  RemoteInv'
<1>1. req[r].pc = "reply" /\ UNCHANGED <<now, truth, since, token, holder>>
  BY DEF Deliver, At
<1>2. PICK y \in AskRecord : y = req[r]
  BY RemoteTypes
<1>3. PICK q \in Question, v \in Val, d \in Int : q = y.key /\ v = y.val /\ d = y.due
  <2>1. y.key \in Question
    BY <1>1, <1>2 DEF RemoteInv, Knows
  <2> QED BY <2>1 DEF AskRecord
<1>4. v # "refused" /\ now <= d /\ Since(v, q, d - Timeout, truth, since)
  BY <1>1, <1>2, <1>3 DEF RemoteInv, Knows
<1>5. now \in Int /\ since[q] \in Int /\ CacheTTL \in Nat /\ Timeout \in Nat
  BY RemoteTypes, AuthorizerAssumption
<1>6. ~Fetching(req[r])
  BY <1>1 DEF Fetching
<1>7. CASE v \in Answer
  <2>1. cache' = putCached(q, v) /\ Done(r, v)
    BY <1>2, <1>3, <1>7 DEF Deliver
  <2>2. Since(v, q, now - (CacheTTL + Timeout), truth, since)
    BY <1>4, <1>5 DEF Since
  <2>3. PICK x \in AskRecord : /\ req' = [req EXCEPT ![r] = x]
                               /\ Knows(x, now, truth, since) /\ ~Fetching(x)
    BY <1>1, <1>2, <1>3, <1>4, <2>1, <2>2, DoneRecord
  <2>11. PICK n \in Int : n = now + CacheTTL
    BY <1>5
  <2> DEFINE e == [val |-> v, exp |-> n]
  <2>4. e \in EntryRecord /\ e.val = v /\ e.exp = n /\ e = [val |-> v, exp |-> now + CacheTTL]
    BY <1>7, <2>11 DEF EntryRecord
  <2> HIDE DEF e
  <2>5. cache' = cache \/ cache' = [cache EXCEPT ![q] = e]
    BY <2>1, <2>4 DEF putCached
  <2>6. EntryKept(e, q, now, truth, since)
    BY <1>4, <1>5, <2>4, <2>11 DEF EntryKept, Since
  <2>7. /\ cache' \in [Question -> EntryRecord]
        /\ \A p \in Question : cache'[p] = cache[p] \/ (p = q /\ cache'[p] = e)
    BY <2>4, <2>5, RemoteTypes
  <2>8. \A p \in Question : EntryKept(cache'[p], p, now, truth, since)
    BY <2>6, <2>7 DEF RemoteInv
  <2>9. Trusted(token') /\ token' \in TokenRecord /\ holder' \in Request \cup {Nil}
    BY <1>1, RemoteTypes DEF RemoteInv
  <2>10. Fetching(x) <=> holder' = r
    BY <1>1, <1>6, <2>3, RemoteTypes
  <2> QED BY <1>1, <2>3, <2>7, <2>8, <2>9, <2>10, MoveStep
<1>8. CASE v \notin Answer
  <2>1. cache' = cache /\ Done(r, "error")
    BY <1>2, <1>3, <1>8 DEF Deliver
  <2>2. "error" \in Val \ {"refused"} /\ "error" \notin Answer
    BY DEF Val, Answer
  <2>3. PICK x \in AskRecord : /\ req' = [req EXCEPT ![r] = x]
                               /\ Knows(x, now, truth, since) /\ ~Fetching(x)
    BY <1>1, <2>1, <2>2, DoneRecord DEF Since
  <2>4. Fetching(x) <=> Fetching(req[r])
    BY <1>6, <2>3
  <2> QED BY <1>1, <2>1, <2>3, <2>4, AloneStep
<1> QED BY <1>7, <1>8

LEMMA CallFailsStep ==
    ASSUME RemoteInv, NEW r \in Request, CallFails(r)
    PROVE  RemoteInv'
<1>1. /\ req[r].pc \in {"call", "reply"} /\ Done(r, "error")
      /\ UNCHANGED <<now, truth, since, cache, token, holder>>
  BY DEF CallFails, At
<1>2. "error" \in Val \ {"refused"} /\ "error" \notin Answer
  BY DEF Val, Answer
<1>3. PICK x \in AskRecord : /\ req' = [req EXCEPT ![r] = x]
                             /\ Knows(x, now, truth, since) /\ ~Fetching(x)
  BY <1>1, <1>2, DoneRecord DEF Since
<1>4. Fetching(x) <=> Fetching(req[r])
  BY <1>1, <1>3 DEF Fetching
<1> QED BY <1>1, <1>3, <1>4, AloneStep

LEMMA RespondStep ==
    ASSUME RemoteInv, NEW r \in Request, Respond(r)
    PROVE  RemoteInv'
<1>1. /\ req[r].pc = "done" /\ req' = [req EXCEPT ![r] = Free]
      /\ UNCHANGED <<now, truth, since, cache, token, holder>>
  BY DEF Respond, At
<1>2. Free \in AskRecord
  BY Pcs DEF AskRecord, Val, Free
<1>3. Free.pc = "idle" /\ Free.val = "none"
  BY DEF Free
<1>4. Knows(Free, now, truth, since)
  BY <1>3 DEF Knows
<1>5. Fetching(Free) <=> Fetching(req[r])
  BY <1>1, <1>3 DEF Fetching
<1>6. PICK x \in AskRecord : x = Free
  BY <1>2
<1> QED BY <1>1, <1>4, <1>5, <1>6, AloneStep

\* An answer that was given before the PDP changed its mind is outdated from now on.
LEMMA ChangeStep ==
    ASSUME RemoteInv, NEW k \in Question, Change(k)
    PROVE  RemoteInv'
<1>1. PICK val \in Answer : truth' = [truth EXCEPT ![k] = val]
  BY DEF Change
<1>2. since' = [since EXCEPT ![k] = now] /\ UNCHANGED <<now, cache, token, holder, req>>
  BY DEF Change
<1>3. now \in Int /\ CacheTTL \in Nat /\ Timeout \in Nat
  BY RemoteTypes, AuthorizerAssumption
<1>4. /\ truth' \in [Question -> Answer] /\ since' \in [Question -> Int]
      /\ since'[k] = now
      /\ \A q \in Question \ {k} : truth'[q] = truth[q] /\ since'[q] = since[q]
  BY <1>1, <1>2, <1>3, RemoteTypes
<1>5. ASSUME NEW q \in Question, NEW n \in Int, n <= now, NEW v, Since(v, q, n, truth, since)
      PROVE  Since(v, q, n, truth', since')
  BY <1>4, <1>5 DEF Since
<1>6. \A q \in Question : EntryKept(cache[q], q, now, truth', since')
  <2> TAKE q \in Question
  <2>1. PICK e \in EntryRecord : e = cache[q]
    BY RemoteTypes
  <2>2. EntryKept(e, q, now, truth, since)
    BY <2>1 DEF RemoteInv
  <2>3. e.exp \in Int
    BY DEF EntryRecord
  <2>4. e.exp - (CacheTTL + Timeout) \in Int /\ e.exp - (CacheTTL + Timeout) <= now
    BY <1>3, <2>2, <2>3 DEF EntryKept
  <2> QED BY <1>5, <2>1, <2>2, <2>4 DEF EntryKept
<1>7. \A r \in Request : Knows(req[r], now, truth', since')
  <2> TAKE r \in Request
  <2>1. PICK x \in AskRecord : x = req[r]
    BY RemoteTypes
  <2>2. Knows(x, now, truth, since)
    BY <2>1 DEF RemoteInv
  <2>3. x.pc = "reply" => Since(x.val, x.key, x.due - Timeout, truth', since')
    <3> SUFFICES ASSUME x.pc = "reply" PROVE Since(x.val, x.key, x.due - Timeout, truth', since')
      OBVIOUS
    <3>1. x.due \in Int
      BY DEF AskRecord
    <3>2. x.key \in Question /\ x.due <= now + Timeout /\ Since(x.val, x.key, x.due - Timeout, truth, since)
      BY <2>2 DEF Knows
    <3>3. x.due - Timeout \in Int /\ x.due - Timeout <= now
      BY <1>3, <3>1, <3>2
    <3> QED BY <1>5, <3>2, <3>3
  <2>4. x.pc = "done" => Since(x.val, x.key, now - (CacheTTL + Timeout), truth', since')
    <3>1. now - (CacheTTL + Timeout) \in Int /\ now - (CacheTTL + Timeout) <= now
      BY <1>3
    <3> QED BY <1>5, <2>2, <3>1 DEF Knows
  <2> QED BY <2>1, <2>2, <2>3, <2>4 DEF Knows
<1>8. AuthorizerTypeOK'
  BY <1>2, <1>4 DEF RemoteInv, AuthorizerTypeOK
<1>9. Trusted(token)' /\ \A q \in Question : EntryKept(cache[q], q, now, truth, since)'
  BY <1>2, <1>6 DEF RemoteInv, Trusted, EntryKept, Since
<1>10. \A r \in Request : Knows(req[r], now, truth, since)'
  BY <1>2, <1>7 DEF Knows, Since
<1> QED BY <1>8, <1>9, <1>10 DEF RemoteInv

\* Time does not pass a deadline, nor while an answer is handed on.
LEMMA TickStep ==
    ASSUME RemoteInv, Tick
    PROVE  RemoteInv'
<1>1. /\ now < MaxTime /\ now' = now + 1
      /\ UNCHANGED <<truth, since, cache, token, holder, req>>
  BY DEF Tick
<1>2. /\ now \in Int /\ CacheTTL \in Nat /\ Timeout \in Nat
      /\ now \in 0..MaxTime /\ MaxTime \in Nat
  BY AuthorizerAssumption DEF RemoteInv, AuthorizerTypeOK
<1>3. PICK n \in Int : n = now' /\ n = now + 1
  BY <1>1, <1>2
<1>4. n \in 0..MaxTime
  BY <1>1, <1>2, <1>3
<1>5. AuthorizerTypeOK'
  BY <1>1, <1>3, <1>4 DEF RemoteInv, AuthorizerTypeOK
<1>6. \A q \in Question : EntryKept(cache[q], q, n, truth, since)
  <2> TAKE q \in Question
  <2>1. cache[q].exp \in Int
    BY RemoteTypes DEF EntryRecord
  <2>2. EntryKept(cache[q], q, now, truth, since)
    BY DEF RemoteInv
  <2> QED BY <1>2, <1>3, <2>1, <2>2 DEF EntryKept
<1>7. \A r \in Request : Knows(req[r], n, truth, since)
  <2> TAKE r \in Request
  <2>1. PICK x \in AskRecord : x = req[r]
    BY RemoteTypes
  <2>2. Knows(x, now, truth, since) /\ x.due \in Int
    BY <2>1 DEF RemoteInv, AskRecord
  <2>3. /\ x.pc \in Waiting \cup {"idle", "lock"}
        /\ x.pc \in Waiting => now < x.due
    BY <2>1 DEF Tick
  <2> QED BY <1>2, <1>3, <2>1, <2>2, <2>3 DEF Knows, Waiting
<1>8. Trusted(token)' /\ \A q \in Question : EntryKept(cache[q], q, now, truth, since)'
  BY <1>1, <1>3, <1>6 DEF RemoteInv, Trusted, EntryKept, Since
<1>9. \A r \in Request : Knows(req[r], now, truth, since)'
  BY <1>1, <1>3, <1>7 DEF Knows, Since
<1> QED BY <1>5, <1>8, <1>9 DEF RemoteInv

LEMMA RemoteStep ==
    ASSUME RemoteInv, [AuthorizerNext]_(authorizerVars)
    PROVE  RemoteInv'
<1>1. CASE UNCHANGED authorizerVars
  <2>1. UNCHANGED <<now, truth, since, cache, token, holder, req>>
    BY <1>1 DEF authorizerVars
  <2>2. AuthorizerTypeOK'
    BY <2>1 DEF RemoteInv, AuthorizerTypeOK
  <2> QED BY <2>1, <2>2 DEF RemoteInv, Trusted, EntryKept, Knows, Since
<1>2. ASSUME NEW r \in Request, Step(r) PROVE RemoteInv'
  BY <1>2, GetCachedStep, FetchFailsStep, MintStep, ReceiveTokenStep, DecisionStep,
     DeliverStep, CallFailsStep, RespondStep DEF Step
<1>3. ASSUME NEW r \in Request, get(r) PROVE RemoteInv'
  BY <1>3, UseTokenStep, FetchTokenStep DEF get
<1> QED BY <1>1, <1>2, <1>3, ChangeStep, AskStep, TickStep DEF AuthorizerNext

LEMMA RemoteSays ==
    ASSUME RemoteInv
    PROVE  AnswerRecent /\ TokenAlive
<1>1. TokenAlive
  BY DEF RemoteInv, Knows, TokenAlive
<1>2. ASSUME NEW r \in Request, req[r].pc = "done", req[r].val \in Answer,
             req[r].val # truth[req[r].key]
      PROVE  now - since[req[r].key] <= CacheTTL + Timeout
  <2>1. /\ req[r].key \in Question
        /\ Since(req[r].val, req[r].key, now - (CacheTTL + Timeout), truth, since)
    BY <1>2 DEF RemoteInv, Knows
  <2>2. PICK s \in Int : s = since[req[r].key]
    BY <2>1, RemoteTypes
  <2>3. now \in Int /\ CacheTTL \in Nat /\ Timeout \in Nat
    BY RemoteTypes, AuthorizerAssumption
  <2>4. s >= now - (CacheTTL + Timeout)
    BY <1>2, <2>1, <2>2 DEF Since
  <2> QED BY <2>2, <2>3, <2>4
<1>3. AnswerRecent
  BY <1>2 DEF AnswerRecent
<1> QED BY <1>1, <1>3

\* The invariant that carries the others: the deadlines of the calls and the expiry of
\* the token fit together, and no answer is older than its place allows.
THEOREM RemoteInvHolds == AuthorizerSpec => []RemoteInv
<1>1. AuthorizerInit => RemoteInv
  BY RemoteInit
<1>2. RemoteInv /\ [AuthorizerNext]_(authorizerVars) => RemoteInv'
  BY RemoteStep
<1> QED BY <1>1, <1>2, PTL DEF AuthorizerSpec

\* Clock, cache, token and handlers keep their types, and the mutex is held by the one
\* handler that fetches a token (tokenSource.get).
THEOREM RemoteTypeCorrect == AuthorizerSpec => []AuthorizerTypeOK
<1>1. RemoteInv => AuthorizerTypeOK
  BY DEF RemoteInv
<1> QED BY <1>1, RemoteInvHolds, PTL

\* For any number of handlers, questions and failures, an answer is at most as old as
\* the cache's lifetime and one HTTP timeout (Authorize, Scope, putCachedDecision).
THEOREM AnswersStayRecent == AuthorizerSpec => []AnswerRecent
<1>1. RemoteInv => AnswerRecent
  BY RemoteSays
<1> QED BY <1>1, RemoteInvHolds, PTL

\* A margin of two timeouts is enough: no service token expires before it reaches the
\* PDP (tokenSource.get).
THEOREM TokensArriveAlive == AuthorizerSpec => []TokenAlive
<1>1. RemoteInv => TokenAlive
  BY RemoteSays
<1> QED BY <1>1, RemoteInvHolds, PTL
================================================================================
