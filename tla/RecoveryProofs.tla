---------------------------- MODULE RecoveryProofs ----------------------------
(***************************************************************************)
(* Whom the requests act for, for any number of accounts, addresses, links, *)
(* interactions and concurrent requests.                                    *)
(*                                                                         *)
(* OnlyEntitled speaks of the requests that act.  The invariant adds whom   *)
(* each artifact names (Owned) and what each request has been told (Knows). *)
(* Last, reset links keep the promise of OneTimeGrant, and without a failed *)
(* call every link that was used is deleted.                                *)
(***************************************************************************)
EXTENDS Recovery, TLAPS

RequestRecord == [pc : Pc, by : User \cup {None}, sub : User \cup {None},
                  key : Key \cup {None}, addr : Address \cup {None}, late : BOOLEAN]

StoreTypes ==
    /\ usable \subseteq User /\ flagged \subseteq User
    /\ open \subseteq Page
    /\ art \in [Key -> User \cup {None}]
    /\ minted \subseteq Link
    /\ inbox \in [User -> SUBSET Link]
    /\ faults \in 0 .. MaxFaults
    /\ proved \subseteq Page \X User
    /\ uses \in [Link -> 0 .. 2]
    /\ spent \subseteq Link

\* A link names the person that was sent it, and a pending change somebody whose
\* flagged password was accepted at the interaction.
Owned ==
    /\ \A p \in User : \A l \in inbox[p] : l \in minted /\ art[l] \in {None, p}
    /\ \A g \in Page : art[g] = None \/ <<g, art[g]>> \in proved

\* Whether person p may present key k, with the mail b.
Holds(p, k, b) == k \in b[p] \/ k \in Page

\* What a request x has established about the artifacts a, the links m minted,
\* the mail b and the flagged passwords v that were accepted.
Knows(x, a, m, b, v) ==
    /\ x.pc \in {"find", "verify", "store", "mail"} => x.sub \in User /\ x.addr \in Address
    /\ x.pc \in {"store", "mail"} => Holder[x.addr] = x.sub
    /\ x.pc = "mail" => x.key \in m /\ a[x.key] \in {None, x.sub}
    /\ x.pc \in {"auth", "account", "accountFlagged", "pending"} =>
          x.by \in User /\ x.sub = x.by /\ x.key \in Page
    /\ x.pc \in {"accountFlagged", "pending"} => <<x.key, x.sub>> \in v
    /\ x.pc \in {"set", "delete", "session"} => x.sub = x.by \/ <<x.key, x.sub>> \in v
    /\ x.pc \in {"get", "set", "delete"} =>
          x.by \in User /\ x.key \in Key /\ Holds(x.by, x.key, b)

RecoveryInv ==
    /\ StoreTypes /\ Owned
    /\ req \in [Request -> RequestRecord]
    /\ \A r \in Request : Knows(req[r], art, minted, inbox, proved)

\* c, n, d, w may come after a, m, b, v: a link that was minted names whom it named,
\* or nobody, and no link and no accepted password is forgotten.
Follows(c, n, d, w, a, m, b, v) ==
    /\ \A l \in m : c[l] \in {None, a[l]}
    /\ m \subseteq n
    /\ \A p \in User : b[p] \subseteq d[p]
    /\ v \subseteq w

-----------------------------------------------------------------------------
(***************************************************************************)
(* Requests.                                                                *)
(***************************************************************************)
LEMMA FreeKnows == Free \in RequestRecord /\ \A a, m, b, v : Knows(Free, a, m, b, v)
BY DEF Free, RequestRecord, Knows, Pc

LEMMA KnowsKept ==
    ASSUME NEW x, NEW a, NEW m, NEW b, NEW v, NEW c, NEW n, NEW d, NEW w,
           Knows(x, a, m, b, v), Follows(c, n, d, w, a, m, b, v)
    PROVE  Knows(x, c, n, d, w)
<1>1. x.pc = "mail" => x.key \in n /\ c[x.key] \in {None, x.sub}
  BY DEF Knows, Follows
<1>2. x.pc \in {"get", "set", "delete"} => x.key \in Key /\ Holds(x.by, x.key, d)
  <2>1. x.pc \in {"get", "set", "delete"} => x.by \in User /\ x.key \in Key /\ Holds(x.by, x.key, b)
    BY DEF Knows
  <2> QED BY <2>1 DEF Holds, Follows
<1>3. v \subseteq w
  BY DEF Follows
<1> QED BY <1>1, <1>2, <1>3 DEF Knows

\* What the invariant says of the request of a step.
LEMMA RequestFacts ==
    ASSUME RecoveryInv, NEW r \in Request
    PROVE  /\ req[r] \in RequestRecord
           /\ Knows(req[r], art, minted, inbox, proved)
           /\ req \in [Request -> RequestRecord]
BY DEF RecoveryInv

\* A step of request r that leaves x behind.
LEMMA StepKeeps ==
    ASSUME RecoveryInv, NEW r \in Request, NEW x \in RequestRecord,
           req' = [req EXCEPT ![r] = x],
           StoreTypes', Owned',
           Knows(x, art', minted', inbox', proved'),
           Follows(art', minted', inbox', proved', art, minted, inbox, proved)
    PROVE  RecoveryInv'
<1>1. req' \in [Request -> RequestRecord]
  BY RequestFacts
<1>2. ASSUME NEW q \in Request PROVE Knows(req'[q], art', minted', inbox', proved')
  <2>1. CASE q = r
    BY <2>1, RequestFacts
  <2>2. CASE q # r
    <3>1. req'[q] = req[q] /\ Knows(req[q], art, minted, inbox, proved)
      BY <2>2, RequestFacts
    <3> QED BY <3>1, KnowsKept
  <2> QED BY <2>1, <2>2
<1> QED BY <1>1, <1>2 DEF RecoveryInv

LEMMA NothingFollows == \A a, m, b, v : Follows(a, m, b, v, a, m, b, v)
BY DEF Follows

\* A step of request r that changes nothing else, save for the count of faults.
LEMMA QuietStep ==
    ASSUME RecoveryInv, NEW r \in Request, NEW x \in RequestRecord,
           req' = [req EXCEPT ![r] = x], Knows(x, art, minted, inbox, proved),
           UNCHANGED <<env, art, minted, inbox, faults, history>>
    PROVE  RecoveryInv'
<1>1. StoreTypes' /\ Owned'
  BY DEF RecoveryInv, StoreTypes, Owned, env, history
<1>2. /\ Knows(x, art', minted', inbox', proved')
      /\ Follows(art', minted', inbox', proved', art, minted, inbox, proved)
  BY NothingFollows DEF history
<1> QED BY <1>1, <1>2, StepKeeps

LEMMA EndStep ==
    ASSUME RecoveryInv, NEW r \in Request, End(r),
           UNCHANGED <<env, art, minted, inbox, faults, history>>
    PROVE  RecoveryInv'
BY FreeKnows, QuietStep DEF End

\* Moving on to pc, with what was known already.
LEMMA GotoStep ==
    ASSUME RecoveryInv, NEW r \in Request, NEW pc \in Pc, Goto(r, pc),
           \A x \in RequestRecord :
               /\ x.pc = pc /\ x.by = req[r].by /\ x.sub = req[r].sub
               /\ x.key = req[r].key /\ x.addr = req[r].addr
               => Knows(x, art, minted, inbox, proved),
           UNCHANGED <<env, art, minted, inbox, faults, history>>
    PROVE  RecoveryInv'
<1> DEFINE x == [req[r] EXCEPT !.pc = pc]
<1>1. /\ x \in RequestRecord /\ x.pc = pc /\ x.by = req[r].by /\ x.sub = req[r].sub
      /\ x.key = req[r].key /\ x.addr = req[r].addr
  BY RequestFacts DEF RequestRecord
<1>2. req' = [req EXCEPT ![r] = x]
  BY RequestFacts DEF Goto
<1> HIDE DEF x
<1> QED BY <1>1, <1>2, QuietStep

-----------------------------------------------------------------------------
(***************************************************************************)
(* The request for a link.                                                  *)
(***************************************************************************)
LEMMA ForgotSubmitStep ==
    ASSUME RecoveryInv, NEW r \in Request, NEW u \in User, NEW a \in Address,
           ForgotSubmit(r, u, a)
    PROVE  RecoveryInv'
<1> DEFINE x == [Free EXCEPT !.pc = "find", !.sub = u, !.addr = a]
<1>1. x.pc = "find" /\ x.sub = u /\ x.addr = a /\ x \in RequestRecord
  BY DEF Free, RequestRecord, Pc
<1>2. /\ req' = [req EXCEPT ![r] = x]
      /\ UNCHANGED <<env, art, minted, inbox, faults, history>>
  BY DEF ForgotSubmit
<1> HIDE DEF x
<1>3. Knows(x, art, minted, inbox, proved)
  BY <1>1 DEF Knows
<1> QED BY <1>1, <1>2, <1>3, QuietStep

LEMMA FindByLoginStep ==
    ASSUME RecoveryInv, NEW r \in Request, FindByLogin(r)
    PROVE  RecoveryInv'
<1>1. req[r].pc = "find" /\ UNCHANGED <<env, art, minted, inbox, faults, history>>
  BY DEF FindByLogin
<1>2. CASE Usable(req[r].sub)
  <2>1. Goto(r, "verify")
    BY <1>2 DEF FindByLogin
  <2>2. "verify" \in Pc
    BY DEF Pc
  <2> QED BY <1>1, <2>1, <2>2, RequestFacts, GotoStep DEF Knows
<1>3. CASE ~Usable(req[r].sub)
  BY <1>1, <1>3, EndStep DEF FindByLogin
<1> QED BY <1>2, <1>3

\* An address that matches is read by the owner of the account.
LEMMA Destination ==
    ASSUME NEW u \in User, NEW a \in Address, destinationMatches(RecoveryDestinations(u), a)
    PROVE  Holder[a] = u
<1> DEFINE hashed == {[Address |-> None, Hash |-> sha256(b)] : b \in {contact_email[u]} \ {None}}
           plain == {[Address |-> b, Hash |-> None] : b \in {recoveryEmail[u]} \ {None}}
<1>1. PICK d \in hashed \cup plain :
          (d.Address # None /\ d.Address = a) \/ (d.Hash # None /\ d.Hash = sha256(a))
  BY DEF destinationMatches, RecoveryDestinations
<1>2. CASE d \in hashed
  <2>1. PICK b \in {contact_email[u]} \ {None} : d = [Address |-> None, Hash |-> sha256(b)]
    BY <1>2
  <2>2. sha256(b) = sha256(a)
    BY <1>1, <2>1
  <2>3. b = a
    BY <2>2 DEF sha256
  <2> QED BY <2>1, <2>3, RecoveryAssumption
<1>3. CASE d \in plain
  <2>1. PICK b \in {recoveryEmail[u]} \ {None} : d = [Address |-> b, Hash |-> None]
    BY <1>3
  <2>2. b = a
    BY <1>1, <2>1
  <2> QED BY <2>1, <2>2, RecoveryAssumption
<1> QED BY <1>1, <1>2, <1>3

LEMMA VerifyDestinationStep ==
    ASSUME RecoveryInv, NEW r \in Request, VerifyDestination(r)
    PROVE  RecoveryInv'
<1>1. req[r].pc = "verify" /\ UNCHANGED <<env, art, minted, inbox, faults, history>>
  BY DEF VerifyDestination
<1>2. req[r].sub \in User /\ req[r].addr \in Address
  BY <1>1, RequestFacts DEF Knows
<1>3. CASE destinationMatches(RecoveryDestinations(req[r].sub), req[r].addr)
  <2>1. Goto(r, "store") /\ "store" \in Pc
    BY <1>3 DEF VerifyDestination, Pc
  <2>2. Holder[req[r].addr] = req[r].sub
    BY <1>2, <1>3, Destination
  <2> QED BY <1>1, <1>2, <2>1, <2>2, GotoStep DEF Knows
<1>4. CASE ~destinationMatches(RecoveryDestinations(req[r].sub), req[r].addr)
  BY <1>1, <1>4, EndStep DEF VerifyDestination
<1> QED BY <1>3, <1>4

LEMMA StoreLinkStep ==
    ASSUME RecoveryInv, NEW r \in Request, StoreLink(r)
    PROVE  RecoveryInv'
<1>1. PICK l \in Link \ minted :
          /\ minted' = minted \cup {l}
          /\ art' = [art EXCEPT ![l] = req[r].sub]
          /\ req' = [req EXCEPT ![r].pc = "mail", ![r].key = l]
  BY DEF StoreLink
<1>2. req[r].pc = "store" /\ UNCHANGED <<env, inbox, faults, history>>
  BY DEF StoreLink
<1> DEFINE x == [req[r] EXCEPT !.pc = "mail", !.key = l]
<1>3. /\ x \in RequestRecord /\ x.pc = "mail" /\ x.key = l /\ x.sub = req[r].sub
      /\ x.by = req[r].by /\ x.addr = req[r].addr
  BY RequestFacts DEF RequestRecord, Pc, Key
<1>4. req' = [req EXCEPT ![r] = x]
  BY <1>1, RequestFacts
<1> HIDE DEF x
<1>5. /\ req[r].sub \in User /\ req[r].addr \in Address
      /\ Holder[req[r].addr] = req[r].sub
  BY <1>2, RequestFacts DEF Knows
<1>6. /\ \A k \in Key : art'[k] = IF k = l THEN req[r].sub ELSE art[k]
      /\ art' \in [Key -> User \cup {None}]
  BY <1>1, <1>5 DEF RecoveryInv, StoreTypes, Key
<1>7. StoreTypes'
  BY <1>1, <1>2, <1>6 DEF RecoveryInv, StoreTypes, env, history
<1>8. Owned'
  <2>1. ASSUME NEW p \in User, NEW k \in inbox[p]
        PROVE  k \in minted' /\ art'[k] \in {None, p}
    <3>1. k \in minted /\ art[k] \in {None, p} /\ k \in Key
      BY DEF RecoveryInv, StoreTypes, Owned, Key
    <3> QED BY <1>1, <1>6, <3>1
  <2>2. ASSUME NEW g \in Page PROVE art'[g] = None \/ <<g, art'[g]>> \in proved
    BY <1>1, <1>6, RecoveryAssumption DEF RecoveryInv, Owned, Key
  <2> QED BY <1>2, <2>1, <2>2 DEF Owned, history
<1>9. Follows(art', minted', inbox', proved', art, minted, inbox, proved)
  BY <1>1, <1>2, <1>6 DEF Follows, RecoveryInv, StoreTypes, Key, history
<1>10. Knows(x, art', minted', inbox', proved')
  BY <1>1, <1>3, <1>5, <1>6 DEF Knows, Key
<1> QED BY <1>3, <1>4, <1>7, <1>8, <1>9, <1>10, StepKeeps

LEMMA SendPasswordResetStep ==
    ASSUME RecoveryInv, NEW r \in Request, SendPasswordReset(r)
    PROVE  RecoveryInv'
<1> DEFINE h == Holder[req[r].addr]
           l == req[r].key
<1>1. /\ req[r].pc = "mail" /\ inbox' = [inbox EXCEPT ![h] = @ \cup {l}]
      /\ req' = [req EXCEPT ![r] = Free] /\ UNCHANGED <<env, art, minted, faults, history>>
  BY DEF SendPasswordReset, End
<1>2. h = req[r].sub /\ h \in User /\ l \in minted /\ art[l] \in {None, h}
  BY <1>1, RequestFacts DEF Knows
<1> HIDE DEF h, l
<1>3. /\ \A p \in User : inbox'[p] = IF p = h THEN inbox[p] \cup {l} ELSE inbox[p]
      /\ inbox' \in [User -> SUBSET Link]
  BY ZenonT(60), <1>1, <1>2 DEF RecoveryInv, StoreTypes
<1>4. StoreTypes'
  BY <1>1, <1>3 DEF RecoveryInv, StoreTypes, env, history
<1>5. Owned'
  BY <1>1, <1>2, <1>3 DEF RecoveryInv, Owned, history
<1>6. Follows(art', minted', inbox', proved', art, minted, inbox, proved)
  BY <1>1, <1>3 DEF Follows, history
<1> QED BY <1>1, <1>4, <1>5, <1>6, FreeKnows, StepKeeps

-----------------------------------------------------------------------------
(***************************************************************************)
(* Sign-in with a flagged password.                                         *)
(***************************************************************************)
LEMMA LoginStep ==
    ASSUME RecoveryInv, NEW r \in Request, NEW p \in User, NEW g \in Page, Login(r, p, g)
    PROVE  RecoveryInv'
<1> DEFINE x == [Free EXCEPT !.pc = "auth", !.by = p, !.sub = p, !.key = g]
<1>1. x.pc = "auth" /\ x.by = p /\ x.sub = p /\ x.key = g /\ x \in RequestRecord
  BY DEF Free, RequestRecord, Pc, Key
<1>2. /\ req' = [req EXCEPT ![r] = x]
      /\ UNCHANGED <<env, art, minted, inbox, faults, history>>
  BY DEF Login
<1> HIDE DEF x
<1>3. Knows(x, art, minted, inbox, proved)
  BY <1>1 DEF Knows
<1> QED BY <1>1, <1>2, <1>3, QuietStep

LEMMA AuthenticateStep ==
    ASSUME RecoveryInv, NEW r \in Request, Authenticate(r)
    PROVE  RecoveryInv'
<1>1. req[r].pc = "auth" /\ UNCHANGED <<env, art, minted, inbox, faults, uses, spent>>
  BY DEF Authenticate
<1>2. req[r].by \in User /\ req[r].sub = req[r].by /\ req[r].key \in Page
  BY <1>1, RequestFacts DEF Knows
<1>3. CASE Goto(r, "account") /\ UNCHANGED proved
  BY <1>1, <1>2, <1>3, GotoStep DEF Knows, Pc, history
<1>4. CASE Goto(r, "accountFlagged") /\ proved' = proved \cup {<<req[r].key, req[r].sub>>}
  <2> DEFINE x == [req[r] EXCEPT !.pc = "accountFlagged"]
  <2>1. /\ x \in RequestRecord /\ x.pc = "accountFlagged" /\ x.sub = req[r].sub
        /\ x.by = req[r].by /\ x.key = req[r].key
    BY RequestFacts DEF RequestRecord, Pc
  <2>2. req' = [req EXCEPT ![r] = x]
    BY <1>4, RequestFacts DEF Goto
  <2> HIDE DEF x
  <2>3. StoreTypes' /\ Owned'
    BY <1>1, <1>2, <1>4 DEF RecoveryInv, StoreTypes, Owned, env
  <2>4. Follows(art', minted', inbox', proved', art, minted, inbox, proved)
    BY <1>1, <1>4 DEF Follows, RecoveryInv, StoreTypes
  <2>5. Knows(x, art', minted', inbox', proved')
    BY <1>2, <1>4, <2>1 DEF Knows
  <2> QED BY <2>1, <2>2, <2>3, <2>4, <2>5, StepKeeps
<1> QED BY <1>3, <1>4 DEF Authenticate

LEMMA FetchAccountStep ==
    ASSUME RecoveryInv, NEW r \in Request, FetchAccount(r)
    PROVE  RecoveryInv'
<1>1. /\ req[r].pc \in {"account", "accountFlagged"}
      /\ UNCHANGED <<env, art, minted, inbox, faults, history>>
  BY DEF FetchAccount
<1>2. CASE End(r)
  BY <1>1, <1>2, EndStep
<1>3. /\ req[r].by \in User /\ req[r].sub = req[r].by /\ req[r].key \in Page
      /\ req[r].pc = "accountFlagged" => <<req[r].key, req[r].sub>> \in proved
  BY <1>1, RequestFacts DEF Knows
<1>4. CASE Goto(r, "session")
  BY <1>1, <1>3, <1>4, GotoStep DEF Knows, Pc
<1>5. CASE Goto(r, "pending") /\ req[r].pc = "accountFlagged"
  BY <1>1, <1>3, <1>5, GotoStep DEF Knows, Pc
<1> QED BY <1>1, <1>2, <1>4, <1>5 DEF FetchAccount

LEMMA PutPendingStep ==
    ASSUME RecoveryInv, NEW r \in Request, PutPending(r)
    PROVE  RecoveryInv'
<1> DEFINE g == req[r].key
           u == req[r].sub
<1>1. /\ req[r].pc = "pending" /\ art' = [art EXCEPT ![g] = u]
      /\ req' = [req EXCEPT ![r] = Free] /\ UNCHANGED <<env, minted, inbox, faults, history>>
  BY DEF PutPending, End
<1>2. g \in Page /\ <<g, u>> \in proved /\ u \in User /\ proved' = proved
  BY <1>1, RequestFacts DEF Knows, history
<1> HIDE DEF g, u
<1>3. /\ \A k \in Key : art'[k] = IF k = g THEN u ELSE art[k]
      /\ art' \in [Key -> User \cup {None}]
  BY <1>1, <1>2 DEF RecoveryInv, StoreTypes, Key
<1>4. StoreTypes'
  BY <1>1, <1>3 DEF RecoveryInv, StoreTypes, env, history
<1>5. \A l \in Link : art'[l] = art[l]
  BY <1>2, <1>3, RecoveryAssumption DEF Key
<1>6. Owned'
  <2>1. \A p \in User : \A l \in inbox'[p] : l \in minted' /\ art'[l] \in {None, p}
    BY <1>1, <1>5 DEF RecoveryInv, StoreTypes, Owned
  <2>2. \A k \in Page : art'[k] = None \/ <<k, art'[k]>> \in proved'
    BY <1>2, <1>3 DEF RecoveryInv, Owned, Key
  <2> QED BY <2>1, <2>2 DEF Owned
<1>7. Follows(art', minted', inbox', proved', art, minted, inbox, proved)
  BY <1>1, <1>2, <1>5 DEF Follows, RecoveryInv, StoreTypes
<1> QED BY <1>1, <1>4, <1>6, <1>7, FreeKnows, StepKeeps

-----------------------------------------------------------------------------
(***************************************************************************)
(* The use of a link or of a pending change.                                *)
(***************************************************************************)
LEMMA SubmitPasswordStep ==
    ASSUME RecoveryInv, NEW r \in Request, NEW p \in User, NEW k \in Key,
           SubmitPassword(r, p, k), Holds(p, k, inbox)
    PROVE  RecoveryInv'
<1> DEFINE late == k \in spent
           x == [Free EXCEPT !.pc = "get", !.by = p, !.key = k, !.late = late]
<1>1. late \in BOOLEAN
  OBVIOUS
<1>2. /\ req' = [req EXCEPT ![r] = x]
      /\ UNCHANGED <<env, art, minted, inbox, faults, history>>
  BY DEF SubmitPassword
<1> HIDE DEF late
<1>3. x.pc = "get" /\ x.by = p /\ x.key = k /\ x \in RequestRecord
  BY <1>1 DEF Free, RequestRecord, Pc
<1> HIDE DEF x
<1>4. Knows(x, art, minted, inbox, proved)
  BY <1>3 DEF Knows
<1> QED BY <1>2, <1>3, <1>4, QuietStep

\* Whoever presents a key is named by its artifact, or a flagged password of the
\* account that it names was accepted there.
LEMMA HolderNamed ==
    ASSUME RecoveryInv, NEW p \in User, NEW k \in Key, Holds(p, k, inbox)
    PROVE  art[k] \in {None, p} \/ <<k, art[k]>> \in proved
BY DEF RecoveryInv, Owned, Holds

LEMMA GetArtifactStep ==
    ASSUME RecoveryInv, NEW r \in Request, GetArtifact(r)
    PROVE  RecoveryInv'
<1> DEFINE u == art[req[r].key]
           x == [req[r] EXCEPT !.pc = "set", !.sub = u]
<1>1. req[r].pc = "get" /\ UNCHANGED <<env, art, minted, inbox, faults, history>>
  BY DEF GetArtifact
<1>2. req[r].by \in User /\ req[r].key \in Key /\ Holds(req[r].by, req[r].key, inbox)
  BY <1>1, RequestFacts DEF Knows
<1>3. u \in User \cup {None} /\ (u \in {None, req[r].by} \/ <<req[r].key, u>> \in proved)
  BY <1>2, HolderNamed DEF RecoveryInv, StoreTypes
<1>4. CASE u = None
  BY <1>1, <1>4, EndStep DEF GetArtifact
<1>5. CASE u # None
  <2>1. req' = [req EXCEPT ![r].pc = "set", ![r].sub = u]
    BY <1>5 DEF GetArtifact
  <2>2. req' = [req EXCEPT ![r] = x]
    BY <2>1, RequestFacts
  <2>3. /\ x \in RequestRecord /\ x.pc = "set" /\ x.sub = u /\ x.by = req[r].by
        /\ x.key = req[r].key
    BY <1>2, <1>3, RequestFacts DEF RequestRecord, Pc
  <2> HIDE DEF x
  <2>4. Knows(x, art, minted, inbox, proved)
    BY <1>2, <1>3, <1>5, <2>3 DEF Knows
  <2> QED BY <1>1, <2>2, <2>3, <2>4, QuietStep
<1> QED BY <1>4, <1>5

LEMMA SetPasswordStep ==
    ASSUME RecoveryInv, NEW r \in Request, SetPassword(r)
    PROVE  RecoveryInv'
<1>1. /\ req[r].pc = "set"
      /\ uses' = [l \in Link |-> IF l = req[r].key /\ uses[l] < 2 THEN uses[l] + 1 ELSE uses[l]]
      /\ UNCHANGED <<usable, open, art, minted, inbox, proved, spent>>
  BY DEF SetPassword
<1>2. flagged' \subseteq flagged /\ faults' \in 0 .. MaxFaults
  <2>1. flagged' \subseteq flagged
    BY DEF SetPassword
  <2>2. faults' = faults \/ (faults < MaxFaults /\ faults' = faults + 1)
    BY DEF SetPassword, Fault
  <2>3. faults \in 0 .. MaxFaults
    BY DEF RecoveryInv, StoreTypes
  <2> QED BY <2>1, <2>2, <2>3, RecoveryAssumption
<1>4. uses' \in [Link -> 0 .. 2]
  BY <1>1 DEF RecoveryInv, StoreTypes
<1>5. StoreTypes'
  BY <1>1, <1>2, <1>4 DEF RecoveryInv, StoreTypes
<1>7. Owned' /\ Follows(art', minted', inbox', proved', art, minted, inbox, proved)
  BY <1>1, NothingFollows DEF RecoveryInv, Owned
<1>8. CASE End(r)
  BY <1>5, <1>7, <1>8, FreeKnows, StepKeeps DEF End
<1>9. CASE Goto(r, "delete")
  <2> DEFINE x == [req[r] EXCEPT !.pc = "delete"]
  <2>1. /\ x \in RequestRecord /\ x.pc = "delete" /\ x.sub = req[r].sub
        /\ x.by = req[r].by /\ x.key = req[r].key
    BY RequestFacts DEF RequestRecord, Pc
  <2>2. req' = [req EXCEPT ![r] = x]
    BY <1>9, RequestFacts DEF Goto
  <2> HIDE DEF x
  <2>3. Knows(x, art', minted', inbox', proved')
    BY <1>1, <2>1, RequestFacts DEF Knows
  <2> QED BY <1>5, <1>7, <2>1, <2>2, <2>3, StepKeeps
<1> QED BY <1>8, <1>9 DEF SetPassword

\* An artifact that goes takes nothing from what the others say.
LEMMA ArtifactGone ==
    ASSUME RecoveryInv, NEW k \in Key, art' = [art EXCEPT ![k] = None] \/ art' = art,
           UNCHANGED <<minted, inbox, proved>>
    PROVE  /\ art' \in [Key -> User \cup {None}] /\ Owned'
           /\ Follows(art', minted', inbox', proved', art, minted, inbox, proved)
<1>1. /\ \A q \in Key : art'[q] \in {None, art[q]}
      /\ art' \in [Key -> User \cup {None}]
  BY DEF RecoveryInv, StoreTypes
<1>2. /\ \A p \in User : inbox[p] \subseteq Key
      /\ minted \subseteq Key /\ Page \subseteq Key
  BY DEF RecoveryInv, StoreTypes, Key
<1>3. Owned'
  BY <1>1, <1>2 DEF RecoveryInv, Owned
<1>4. Follows(art', minted', inbox', proved', art, minted, inbox, proved)
  BY <1>1, <1>2 DEF Follows
<1> QED BY <1>1, <1>3, <1>4

LEMMA DeleteArtifactStep ==
    ASSUME RecoveryInv, NEW r \in Request, DeleteArtifact(r)
    PROVE  RecoveryInv'
<1> DEFINE x == [req[r] EXCEPT !.pc = "session"]
<1>1. /\ req[r].pc = "delete" /\ Goto(r, "session")
      /\ UNCHANGED <<env, minted, inbox, proved, uses>>
  BY DEF DeleteArtifact
<1>2. art' = [art EXCEPT ![req[r].key] = None] \/ art' = art
  BY DEF DeleteArtifact
<1>3. spent' \subseteq Link
  BY DEF DeleteArtifact, RecoveryInv, StoreTypes
<1>4. faults' \in 0 .. MaxFaults
  <2>1. faults' = faults \/ (faults < MaxFaults /\ faults' = faults + 1)
    BY DEF DeleteArtifact, Fault
  <2>2. faults \in 0 .. MaxFaults
    BY DEF RecoveryInv, StoreTypes
  <2> QED BY <2>1, <2>2, RecoveryAssumption
<1>5. /\ req[r].key \in Key
      /\ req[r].sub = req[r].by \/ <<req[r].key, req[r].sub>> \in proved
  BY <1>1, RequestFacts DEF Knows
<1>6. /\ art' \in [Key -> User \cup {None}] /\ Owned'
      /\ Follows(art', minted', inbox', proved', art, minted, inbox, proved)
  BY <1>1, <1>2, <1>5, ArtifactGone
<1>7. StoreTypes'
  BY <1>1, <1>3, <1>4, <1>6 DEF RecoveryInv, StoreTypes, env
<1>8. /\ x \in RequestRecord /\ x.pc = "session" /\ x.sub = req[r].sub /\ x.by = req[r].by
      /\ x.key = req[r].key
  BY RequestFacts DEF RequestRecord, Pc
<1>9. req' = [req EXCEPT ![r] = x]
  BY <1>1, RequestFacts DEF Goto
<1> HIDE DEF x
<1>10. Knows(x, art', minted', inbox', proved')
  BY <1>1, <1>5, <1>8 DEF Knows
<1> QED BY <1>6, <1>7, <1>8, <1>9, <1>10, StepKeeps

LEMMA startSessionStep ==
    ASSUME RecoveryInv, NEW r \in Request, startSession(r)
    PROVE  RecoveryInv'
BY EndStep DEF startSession

-----------------------------------------------------------------------------
(***************************************************************************)
(* The environment, and the theorems.                                       *)
(***************************************************************************)
LEMMA OtherSteps ==
    ASSUME RecoveryInv,
           \/ \E k \in Key : ExpireArtifact(k)
           \/ \E g \in Page : ExpirePage(g)
           \/ \E u \in User : Disable(u)
           \/ UNCHANGED vars
    PROVE  RecoveryInv'
<1>1. UNCHANGED <<minted, inbox, req, faults, history, flagged>>
  BY DEF ExpireArtifact, ExpirePage, Disable, vars, env
<1>2. usable' \subseteq User /\ open' \subseteq Page
  BY DEF ExpireArtifact, ExpirePage, Disable, vars, env, RecoveryInv, StoreTypes
<1>3. /\ art' \in [Key -> User \cup {None}] /\ Owned'
      /\ Follows(art', minted', inbox', proved', art, minted, inbox, proved)
  <2>1. CASE \E k \in Key : ExpireArtifact(k)
    BY <1>1, <2>1, ArtifactGone DEF ExpireArtifact, history
  <2>2. CASE art' = art
    BY <1>1, <2>2, NothingFollows DEF RecoveryInv, StoreTypes, Owned, history
  <2> QED BY <2>1, <2>2 DEF ExpirePage, Disable, vars
<1>4. StoreTypes'
  BY <1>1, <1>2, <1>3 DEF RecoveryInv, StoreTypes, history
<1>5. \A q \in Request : Knows(req'[q], art', minted', inbox', proved')
  <2> SUFFICES ASSUME NEW q \in Request PROVE Knows(req'[q], art', minted', inbox', proved')
    OBVIOUS
  <2>1. req'[q] = req[q] /\ Knows(req[q], art, minted, inbox, proved)
    BY <1>1, RequestFacts
  <2> QED BY <1>3, <2>1, KnowsKept
<1> QED BY <1>1, <1>3, <1>4, <1>5 DEF RecoveryInv

LEMMA InitHolds == Init => RecoveryInv
<1> SUFFICES ASSUME Init PROVE RecoveryInv
  OBVIOUS
<1>1. StoreTypes
  BY RecoveryAssumption DEF Init, StoreTypes
<1>2. Owned
  BY DEF Init, Owned, Key
<1> QED BY <1>1, <1>2, FreeKnows DEF Init, RecoveryInv

LEMMA RequestStep ==
    ASSUME RecoveryInv, NEW r \in Request, Step(r)
    PROVE  RecoveryInv'
<1>1. ASSUME NEW p \in User, NEW l \in Link, ResetSubmit(r, p, l)
      PROVE  RecoveryInv'
  BY <1>1, SubmitPasswordStep DEF ResetSubmit, Holds, Key
<1>2. ASSUME NEW p \in User, NEW g \in Page, ChangePassword(r, p, g)
      PROVE  RecoveryInv'
  BY <1>2, SubmitPasswordStep DEF ChangePassword, Holds, Key
<1>3. CASE GiveUp(r)
  BY <1>3, EndStep DEF GiveUp
<1> QED
  BY <1>1, <1>2, <1>3, ForgotSubmitStep, LoginStep, FindByLoginStep, VerifyDestinationStep,
     StoreLinkStep, SendPasswordResetStep, AuthenticateStep, FetchAccountStep, PutPendingStep,
     GetArtifactStep, SetPasswordStep, DeleteArtifactStep, startSessionStep DEF Step

LEMMA NextKeeps == RecoveryInv /\ [Next]_vars => RecoveryInv'
BY RequestStep, OtherSteps DEF Next

\* The invariant that carries the others: a link in somebody's mail names that
\* person, a pending change somebody whose flagged password was accepted at the
\* interaction, and requests act for whom they were told.
THEOREM RecoveryInvHolds == Spec => []RecoveryInv
<1>1. Init => RecoveryInv
  BY InitHolds
<1>2. RecoveryInv /\ [Next]_vars => RecoveryInv'
  BY NextKeeps
<1> QED BY <1>1, <1>2, PTL DEF Spec

\* Artifacts, mail and the requests of BeginPasswordReset, FinishLogin,
\* CompletePasswordReset and CompletePasswordChange stay in their types.
THEOREM RecoveryTypeCorrect == Spec => []TypeOK
<1>1. RecoveryInv => TypeOK
  BY DEF RecoveryInv, StoreTypes, RequestRecord, TypeOK
<1> QED BY <1>1, RecoveryInvHolds, PTL

\* Whatever links are mailed, presented twice or lost, CompletePasswordReset acts
\* for the person that was sent the link.  CompletePasswordChange, whoever posts to
\* it, acts for an account whose flagged password FinishLogin saw there before.
THEOREM EntitledOnly == Spec => []OnlyEntitled
<1>1. RecoveryInv => OnlyEntitled
  BY DEF RecoveryInv, Knows, OnlyEntitled, Acting
<1> QED BY <1>1, RecoveryInvHolds, PTL

-----------------------------------------------------------------------------
(***************************************************************************)
(* Reset links keep the promise of OneTimeGrant: every step of a request is *)
(* one of the promise or invisible.                                         *)
(***************************************************************************)
Presents(x) == x.pc \in {"get", "set", "delete", "session"} /\ x.key \in Link
Uses == {Use(r) : r \in Presenting}
Others(r) == {Use(q) : q \in Presenting \ {r}}
PromiseStep == [Promise!Next]_(Promise!vars)

\* A link that was deleted after use has no artifact and never gets one again.
SpentGone == \A l \in spent : l \in minted /\ art[l] = None

\* A request that came late goes no further than the look for the artifact, and
\* only a link that has set a password is deleted after use.
UseOK(x, u, s) ==
    /\ x.late => x.pc = "get" /\ x.key \in s
    /\ x.pc = "delete" /\ x.key \in Link => u[x.key] > 0

LinkInv == SpentGone /\ \A r \in Request : UseOK(req[r], uses, spent)

\* Step of request r, which leaves x behind, with what the history of links says.
Links(r, x) ==
    /\ x \in RequestRecord
    /\ req' = [req EXCEPT ![r] = x]
    /\ UseOK(x, uses', spent')
    /\ SpentGone'
    /\ spent \subseteq spent'
    /\ \A l \in Link : uses[l] > 0 => uses'[l] > 0

LEMMA LinksKept ==
    ASSUME RecoveryInv, LinkInv, NEW r \in Request, NEW x, Links(r, x)
    PROVE  LinkInv'
<1>1. ASSUME NEW q \in Request PROVE UseOK(req'[q], uses', spent')
  <2>1. CASE q = r
    BY <2>1, RequestFacts DEF Links
  <2>2. CASE q # r
    <3>1. req'[q] = req[q] /\ UseOK(req[q], uses, spent)
      BY <2>2, RequestFacts DEF Links, LinkInv
    <3> QED BY <3>1 DEF Links, UseOK
  <2> QED BY <2>1, <2>2
<1> QED BY <1>1 DEF Links, LinkInv

\* What the promise sees of a step of r: the entry of r, and nothing else, may go,
\* come or change.
LEMMA UsesOfStep ==
    ASSUME RecoveryInv, NEW r \in Request, NEW x, Links(r, x)
    PROVE  /\ Presents(req[r]) => Uses = Others(r) \cup {Use(r)}
           /\ ~Presents(req[r]) => Uses = Others(r)
           /\ Presents(x) => Uses' = Others(r) \cup {Use(r)'}
           /\ ~Presents(x) => Uses' = Others(r)
           /\ \A y \in Others(r) : y.by # r
           /\ req'[r] = x
<1>1. req'[r] = x /\ \A q \in Request : q # r => req'[q] = req[q]
  BY RequestFacts DEF Links
<1>2. Presenting' \ {r} = Presenting \ {r}
  BY <1>1 DEF Presenting
<1>3. \A q \in Presenting \ {r} : Use(q)' = Use(q)
  BY <1>1 DEF Use, Presenting
<1>4. Others(r)' = Others(r)
  BY <1>2, <1>3 DEF Others
<1>5. r \in Presenting <=> Presents(req[r])
  BY DEF Presenting, Presents
<1>6. r \in Presenting' <=> Presents(x)
  BY <1>1 DEF Presenting, Presents
<1>7. /\ Presents(req[r]) => Uses = Others(r) \cup {Use(r)}
      /\ ~Presents(req[r]) => Uses = Others(r)
  BY <1>5 DEF Uses, Others
<1>8. /\ Presents(x) => Uses' = Others(r)' \cup {Use(r)'}
      /\ ~Presents(x) => Uses' = Others(r)'
  BY <1>6 DEF Uses, Others
<1>9. \A y \in Others(r) : y.by # r
  BY DEF Others, Use
<1> QED BY <1>1, <1>4, <1>7, <1>8, <1>9

\* A step that the promise does not see, save perhaps that a link is minted.
LEMMA HiddenStep ==
    ASSUME RecoveryInv, NEW r \in Request, NEW x, Links(r, x),
           \/ ~Presents(req[r]) /\ ~Presents(x)
           \/ Presents(req[r]) /\ Presents(x) /\ Use(r)' = Use(r),
           uses' = uses, spent' = spent,
           minted' = minted \/ \E l \in Link \ minted : minted' = minted \cup {l}
    PROVE  PromiseStep
<1>1. Uses' = Uses
  <2>1. CASE ~Presents(req[r]) /\ ~Presents(x)
    BY <2>1, UsesOfStep, Zenon
  <2>2. CASE Presents(req[r]) /\ Presents(x) /\ Use(r)' = Use(r)
    BY <2>2, UsesOfStep, Zenon
  <2> QED BY <2>1, <2>2
<1>s. Served' = Served
  BY DEF Served
<1>2. CASE minted' = minted
  BY <1>1, <1>s, <1>2 DEF PromiseStep, Promise!vars, Uses
<1>3. CASE \E l \in Link \ minted : minted' = minted \cup {l}
  BY <1>1, <1>s, <1>3 DEF PromiseStep, Promise!Next, Promise!Issue, Uses
<1> QED BY <1>2, <1>3

\* A request that presents a link and ends without having set a password, or
\* after it has been paid.
LEMMA LeavesStep ==
    ASSUME RecoveryInv, NEW r \in Request, NEW x, Links(r, x),
           Presents(req[r]), ~Presents(x), UNCHANGED <<uses, spent, minted>>
    PROVE  PromiseStep
<1>1. Use(r) \in Uses /\ Uses' = Uses \ {Use(r)}
  BY UsesOfStep DEF Use
<1>s. Served' = Served
  BY DEF Served
<1>2. Promise!Leave(Use(r))
  BY <1>1, <1>s DEF Promise!Leave, Uses
<1> QED BY <1>1, <1>2 DEF PromiseStep, Promise!Next, Uses

\* A request that begins with a link it was sent.
LEMMA PresentsStep ==
    ASSUME RecoveryInv, NEW r \in Request, NEW x, Links(r, x), NEW l \in minted,
           ~Presents(req[r]), Presents(x), x.key = l, x.pc = "get", x.late = (l \in spent),
           UNCHANGED <<uses, spent, minted>>
    PROVE  PromiseStep
<1>1. Use(r)' = [by |-> r, on |-> l, late |-> l \in spent, paid |-> FALSE]
  <2>1. Use(r)' = [by |-> r, on |-> l, late |-> x.late, paid |-> FALSE]
    <3>1. req'[r] = x
      BY UsesOfStep
    <3>2. (x.pc \in {"delete", "session"}) = FALSE
      OBVIOUS
    <3> QED BY <3>1, <3>2, Zenon DEF Use
  <2> QED BY <2>1, Zenon
<1>2. Uses' = Uses \cup {[by |-> r, on |-> l, late |-> l \in spent, paid |-> FALSE]}
  <2>1. Uses' = Others(r) \cup {Use(r)'} /\ Uses = Others(r)
    BY UsesOfStep DEF Use
  <2> QED BY <1>1, <2>1
<1>3. r \notin {y.by : y \in Uses}
  BY UsesOfStep
<1>s. Served' = Served
  BY DEF Served
<1>4. Promise!Present(r, l)
  BY <1>2, <1>3, <1>s DEF Promise!Present, Uses
<1> QED BY <1>4 DEF PromiseStep, Promise!Next

\* A request whose link sets a password, with or without an answer.
LEMMA PaysStep ==
    ASSUME RecoveryInv, NEW r \in Request, NEW x, Links(r, x),
           Presents(req[r]), ~req[r].late, req[r].pc = "set",
           \/ ~Presents(x)
           \/ Presents(x) /\ x.pc = "delete" /\ x.key = req[r].key /\ x.late = req[r].late,
           Served' = Served \cup {req[r].key}, UNCHANGED <<spent, minted>>
    PROVE  PromiseStep
<1> DEFINE y == Use(r)
           z == Promise!Paid(y)
<1>1. /\ y \in Uses /\ ~y.late /\ ~y.paid /\ y.on = req[r].key /\ y.by = r
      /\ Uses \ {y} = Others(r)
  <2>1. ~y.late /\ ~y.paid /\ y.on = req[r].key /\ y.by = r
    BY DEF Use
  <2>2. Uses = Others(r) \cup {y} /\ \A o \in Others(r) : o.by # r
    BY UsesOfStep DEF Use
  <2> HIDE DEF y
  <2> QED BY <2>1, <2>2
<1>2. req[r].late = FALSE
  BY RequestFacts DEF RequestRecord
<1>3. Presents(x) => Use(r)' = z
  <2>1. Presents(x) => Use(r)' = [by |-> r, on |-> req[r].key, late |-> FALSE, paid |-> TRUE]
    BY <1>2, UsesOfStep DEF Use
  <2> QED BY <1>1, <2>1 DEF Promise!Paid
<1> HIDE DEF y, z
<1>4. Uses' \in {Uses \ {y}, (Uses \ {y}) \cup {z}}
  BY <1>1, <1>3, UsesOfStep
<1>5. Promise!Pay(y)
  BY <1>1, <1>4 DEF Promise!Pay, z, Uses
<1> QED BY <1>1, <1>5 DEF PromiseStep, Promise!Next, Uses

\* A link that has set a password is deleted.
LEMMA ClosesStep ==
    ASSUME RecoveryInv, NEW r \in Request, NEW x, Links(r, x),
           Presents(req[r]), Presents(x), Use(r)' = Use(r),
           req[r].key \in Served, spent' = spent \cup {req[r].key}, UNCHANGED <<uses, minted>>
    PROVE  PromiseStep
<1>1. Uses' = Uses
  BY UsesOfStep, Zenon
<1>s. Served' = Served
  BY DEF Served
<1>2. CASE req[r].key \in spent
  <2>1. spent' = spent
    BY <1>2
  <2> QED BY <1>1, <1>s, <2>1 DEF PromiseStep, Promise!vars, Uses
<1>3. CASE req[r].key \notin spent
  <2>1. Promise!Close(req[r].key)
    BY <1>1, <1>s DEF Promise!Close, Uses
  <2> QED BY <1>3, <2>1 DEF PromiseStep, Promise!Next
<1> QED BY <1>2, <1>3

LEMMA FreeUse == ~Presents(Free) /\ \A u, s : UseOK(Free, u, s)
BY DEF Free, Presents, UseOK

LEMMA StillGone == SpentGone /\ UNCHANGED <<art, minted, spent>> => SpentGone'
BY DEF SpentGone

\* A step of a request that does not touch the history of links.
LEMMA HiddenLink ==
    ASSUME RecoveryInv, LinkInv, NEW r \in Request, NEW x \in RequestRecord,
           req' = [req EXCEPT ![r] = x], UseOK(x, uses, spent), SpentGone',
           \/ ~Presents(req[r]) /\ ~Presents(x)
           \/ Presents(req[r]) /\ Presents(x) /\ Use(r)' = Use(r),
           UNCHANGED <<uses, spent>>,
           minted' = minted \/ \E l \in Link \ minted : minted' = minted \cup {l}
    PROVE  PromiseStep /\ LinkInv'
<1>1. Links(r, x)
  BY DEF Links
<1> QED BY <1>1, HiddenStep, LinksKept

LEMMA EndLink ==
    ASSUME RecoveryInv, LinkInv, NEW r \in Request, End(r), SpentGone',
           UNCHANGED <<minted, uses, spent>>
    PROVE  PromiseStep /\ LinkInv'
<1>1. Free \in RequestRecord /\ req' = [req EXCEPT ![r] = Free]
  BY FreeKnows DEF End
<1>2. Links(r, Free)
  BY <1>1, FreeUse DEF Links
<1> HIDE DEF Free
<1>3. CASE Presents(req[r])
  BY <1>2, <1>3, FreeUse, LeavesStep, LinksKept
<1>4. CASE ~Presents(req[r])
  BY <1>1, <1>2, <1>4, FreeUse, HiddenStep, LinksKept
<1> QED BY <1>3, <1>4

\* Before a link is presented nothing is late.
Early == {"idle", "find", "verify", "store", "mail", "auth", "account", "accountFlagged",
          "pending"}

LEMMA EarlyFacts ==
    ASSUME RecoveryInv, LinkInv, NEW r \in Request
    PROVE  /\ req[r].pc \in Early => ~Presents(req[r])
           /\ req[r].pc # "get" => ~req[r].late
<1>1. UseOK(req[r], uses, spent)
  BY DEF LinkInv
<1> QED BY <1>1 DEF UseOK, Early, Presents

\* An early request that becomes x, which is early too or keeps to an interaction.
LEMMA EarlyStep ==
    ASSUME RecoveryInv, LinkInv, NEW r \in Request, NEW x \in RequestRecord,
           req[r].pc \in Early, req' = [req EXCEPT ![r] = x], x.late = FALSE,
           x.pc \in Early \/ (x.pc = "session" /\ x.key \in Page),
           SpentGone', UNCHANGED <<uses, spent>>,
           minted' = minted \/ \E l \in Link \ minted : minted' = minted \cup {l}
    PROVE  PromiseStep /\ LinkInv'
<1>1. ~Presents(x) /\ UseOK(x, uses, spent)
  BY RecoveryAssumption DEF Presents, UseOK, Early
<1> QED BY <1>1, EarlyFacts, HiddenLink

LEMMA EarlyGoto ==
    ASSUME RecoveryInv, LinkInv, NEW r \in Request, NEW pc \in Early \cup {"session"},
           Goto(r, pc), req[r].pc \in Early,
           pc = "session" => req[r].key \in Page,
           UNCHANGED <<art, minted, uses, spent>>
    PROVE  PromiseStep /\ LinkInv'
<1> DEFINE x == [req[r] EXCEPT !.pc = pc]
<1>1. /\ x \in RequestRecord /\ x.pc = pc /\ x.late = req[r].late /\ x.key = req[r].key
  BY RequestFacts DEF RequestRecord, Early, Pc
<1>2. req' = [req EXCEPT ![r] = x]
  BY RequestFacts DEF Goto
<1> HIDE DEF x
<1>3. x.late = FALSE
  BY <1>1, EarlyFacts DEF Early, RequestRecord
<1>4. SpentGone' /\ UNCHANGED <<minted, uses, spent>>
  BY StillGone DEF LinkInv
<1> QED BY <1>1, <1>2, <1>3, <1>4, EarlyStep

-----------------------------------------------------------------------------
(***************************************************************************)
(* Step by step.                                                            *)
(***************************************************************************)
LEMMA ForgotSubmitLink ==
    ASSUME RecoveryInv, LinkInv, NEW r \in Request, NEW u \in User, NEW a \in Address,
           ForgotSubmit(r, u, a)
    PROVE  PromiseStep /\ LinkInv'
<1> DEFINE x == [Free EXCEPT !.pc = "find", !.sub = u, !.addr = a]
<1>1. x.pc \in Early /\ x.late = FALSE /\ x \in RequestRecord
  BY DEF Free, RequestRecord, Pc, Early
<1>2. /\ req' = [req EXCEPT ![r] = x] /\ req[r].pc \in Early
      /\ UNCHANGED <<env, art, minted, inbox, faults, history>>
  BY DEF ForgotSubmit, Early
<1> HIDE DEF x
<1>3. SpentGone' /\ UNCHANGED <<minted, uses, spent>>
  BY <1>2, StillGone DEF LinkInv, history
<1> QED BY <1>1, <1>2, <1>3, EarlyStep

LEMMA LoginLink ==
    ASSUME RecoveryInv, LinkInv, NEW r \in Request, NEW p \in User, NEW g \in Page,
           Login(r, p, g)
    PROVE  PromiseStep /\ LinkInv'
<1> DEFINE x == [Free EXCEPT !.pc = "auth", !.by = p, !.sub = p, !.key = g]
<1>1. x.pc \in Early /\ x.late = FALSE /\ x \in RequestRecord
  BY DEF Free, RequestRecord, Pc, Early, Key
<1>2. /\ req' = [req EXCEPT ![r] = x] /\ req[r].pc \in Early
      /\ UNCHANGED <<env, art, minted, inbox, faults, history>>
  BY DEF Login, Early
<1> HIDE DEF x
<1>3. SpentGone' /\ UNCHANGED <<minted, uses, spent>>
  BY <1>2, StillGone DEF LinkInv, history
<1> QED BY <1>1, <1>2, <1>3, EarlyStep

LEMMA FindByLoginLink ==
    ASSUME RecoveryInv, LinkInv, NEW r \in Request, FindByLogin(r)
    PROVE  PromiseStep /\ LinkInv'
<1>1. /\ req[r].pc \in Early /\ "verify" \in Early
      /\ UNCHANGED <<env, art, minted, inbox, faults, history>>
  BY DEF FindByLogin, Early
<1>2. SpentGone' /\ UNCHANGED <<minted, uses, spent>>
  BY <1>1, StillGone DEF LinkInv, history
<1>3. Goto(r, "verify") \/ End(r)
  BY DEF FindByLogin
<1> QED BY <1>1, <1>2, <1>3, EarlyGoto, EndLink

LEMMA VerifyDestinationLink ==
    ASSUME RecoveryInv, LinkInv, NEW r \in Request, VerifyDestination(r)
    PROVE  PromiseStep /\ LinkInv'
<1>1. /\ req[r].pc \in Early /\ "store" \in Early
      /\ UNCHANGED <<env, art, minted, inbox, faults, history>>
  BY DEF VerifyDestination, Early
<1>2. SpentGone' /\ UNCHANGED <<minted, uses, spent>>
  BY <1>1, StillGone DEF LinkInv, history
<1>3. Goto(r, "store") \/ End(r)
  BY DEF VerifyDestination
<1> QED BY <1>1, <1>2, <1>3, EarlyGoto, EndLink

\* The new link was never minted, so it was never deleted after use.
LEMMA StoreLinkLink ==
    ASSUME RecoveryInv, LinkInv, NEW r \in Request, StoreLink(r)
    PROVE  PromiseStep /\ LinkInv'
<1>1. PICK l \in Link \ minted :
          /\ minted' = minted \cup {l}
          /\ art' = [art EXCEPT ![l] = req[r].sub]
          /\ req' = [req EXCEPT ![r].pc = "mail", ![r].key = l]
  BY DEF StoreLink
<1>2. req[r].pc \in Early /\ req[r].pc # "get" /\ UNCHANGED <<uses, spent>>
  BY DEF StoreLink, history, Early
<1> DEFINE x == [req[r] EXCEPT !.pc = "mail", !.key = l]
<1>3. x \in RequestRecord /\ x.pc \in Early /\ x.late = req[r].late
  BY RequestFacts DEF RequestRecord, Pc, Key, Early
<1>4. req' = [req EXCEPT ![r] = x]
  BY <1>1, RequestFacts
<1> HIDE DEF x
<1>5. x.late = FALSE
  BY <1>2, <1>3, EarlyFacts DEF RequestRecord
<1>6. SpentGone'
  BY <1>1, <1>2 DEF LinkInv, SpentGone, RecoveryInv, StoreTypes, Key
<1> QED BY <1>1, <1>2, <1>3, <1>4, <1>5, <1>6, EarlyStep

LEMMA SendPasswordResetLink ==
    ASSUME RecoveryInv, LinkInv, NEW r \in Request, SendPasswordReset(r)
    PROVE  PromiseStep /\ LinkInv'
<1>1. End(r) /\ SpentGone' /\ UNCHANGED <<minted, uses, spent>>
  BY StillGone DEF SendPasswordReset, LinkInv, history
<1> QED BY <1>1, EndLink

LEMMA AuthenticateLink ==
    ASSUME RecoveryInv, LinkInv, NEW r \in Request, Authenticate(r)
    PROVE  PromiseStep /\ LinkInv'
<1>1. PICK pc \in {"account", "accountFlagged"} : Goto(r, pc)
  BY DEF Authenticate
<1>2. /\ req[r].pc \in Early /\ pc \in Early /\ pc # "session"
      /\ UNCHANGED <<art, minted, uses, spent>>
  BY DEF Authenticate, Early
<1> QED BY <1>1, <1>2, EarlyGoto

LEMMA FetchAccountLink ==
    ASSUME RecoveryInv, LinkInv, NEW r \in Request, FetchAccount(r)
    PROVE  PromiseStep /\ LinkInv'
<1>1. /\ req[r].pc \in {"account", "accountFlagged"}
      /\ UNCHANGED <<env, art, minted, inbox, faults, history>>
  BY DEF FetchAccount
<1>2. req[r].key \in Page /\ req[r].pc \in Early /\ "pending" \in Early
  BY <1>1, RequestFacts DEF Knows, Early
<1>3. SpentGone' /\ UNCHANGED <<minted, uses, spent>>
  BY <1>1, StillGone DEF LinkInv, history
<1>4. Goto(r, "session") \/ Goto(r, "pending") \/ End(r)
  BY DEF FetchAccount
<1> QED BY <1>1, <1>2, <1>3, <1>4, EarlyGoto, EndLink

LEMMA PutPendingLink ==
    ASSUME RecoveryInv, LinkInv, NEW r \in Request, PutPending(r)
    PROVE  PromiseStep /\ LinkInv'
<1>1. /\ req[r].pc = "pending" /\ art' = [art EXCEPT ![req[r].key] = req[r].sub]
      /\ End(r) /\ UNCHANGED <<minted, uses, spent>>
  BY DEF PutPending, history
<1>2. req[r].key \notin Link
  BY <1>1, RequestFacts, RecoveryAssumption DEF Knows
<1>3. SpentGone'
  BY <1>1, <1>2 DEF LinkInv, SpentGone, RecoveryInv, StoreTypes, Key
<1> QED BY <1>1, <1>3, EndLink

\* What SubmitPassword leaves behind.
LEMMA SubmitFacts ==
    ASSUME NEW r \in Request, NEW p \in User, NEW k \in Key, SubmitPassword(r, p, k)
    PROVE  \E x \in RequestRecord :
              /\ x.pc = "get" /\ x.key = k /\ x.late = (k \in spent)
              /\ req' = [req EXCEPT ![r] = x]
<1> DEFINE late == k \in spent
           x == [Free EXCEPT !.pc = "get", !.by = p, !.key = k, !.late = late]
<1>1. late \in BOOLEAN
  OBVIOUS
<1>2. req' = [req EXCEPT ![r] = x]
  BY DEF SubmitPassword
<1>3. late = (k \in spent)
  OBVIOUS
<1> HIDE DEF late
<1>4. x.pc = "get" /\ x.key = k /\ x.late = late /\ x \in RequestRecord
  BY <1>1 DEF Free, RequestRecord, Pc
<1> HIDE DEF x
<1>5. x.late = (k \in spent)
  BY <1>3, <1>4, Zenon
<1> QED BY <1>2, <1>4, <1>5, Zenon

LEMMA ResetSubmitLink ==
    ASSUME RecoveryInv, LinkInv, NEW r \in Request, NEW p \in User, NEW l \in Link,
           ResetSubmit(r, p, l)
    PROVE  PromiseStep /\ LinkInv'
<1>1. /\ l \in inbox[p] /\ SubmitPassword(r, p, l) /\ l \in Key /\ req[r].pc \in Early
      /\ SpentGone' /\ UNCHANGED <<minted, uses, spent>>
  BY StillGone DEF ResetSubmit, SubmitPassword, LinkInv, Key, Early, history
<1>2. PICK x \in RequestRecord : /\ x.pc = "get" /\ x.key = l /\ x.late = (l \in spent)
                                 /\ req' = [req EXCEPT ![r] = x]
  BY <1>1, SubmitFacts
<1>3. l \in minted
  BY <1>1 DEF RecoveryInv, Owned
<1>4. Presents(x) /\ UseOK(x, uses, spent)
  BY <1>2 DEF Presents, UseOK
<1>5. Links(r, x)
  BY <1>1, <1>2, <1>4 DEF Links
<1> QED BY <1>1, <1>2, <1>3, <1>4, <1>5, EarlyFacts, PresentsStep, LinksKept

LEMMA ChangePasswordLink ==
    ASSUME RecoveryInv, LinkInv, NEW r \in Request, NEW p \in User, NEW g \in Page,
           ChangePassword(r, p, g)
    PROVE  PromiseStep /\ LinkInv'
<1>1. /\ SubmitPassword(r, p, g) /\ g \in Key /\ req[r].pc \in Early
      /\ SpentGone' /\ UNCHANGED <<minted, uses, spent>>
  BY StillGone DEF ChangePassword, SubmitPassword, LinkInv, Key, Early, history
<1>2. PICK x \in RequestRecord : /\ x.pc = "get" /\ x.key = g /\ x.late = (g \in spent)
                                 /\ req' = [req EXCEPT ![r] = x]
  BY <1>1, SubmitFacts
<1>3. g \notin Link /\ g \notin spent
  BY RecoveryAssumption DEF RecoveryInv, StoreTypes
<1>4. ~Presents(x) /\ UseOK(x, uses, spent)
  BY <1>2, <1>3 DEF Presents, UseOK
<1> QED BY <1>1, <1>2, <1>4, EarlyFacts, HiddenLink

\* A request that came late finds no artifact.
LEMMA GetArtifactLink ==
    ASSUME RecoveryInv, LinkInv, NEW r \in Request, GetArtifact(r)
    PROVE  PromiseStep /\ LinkInv'
<1> DEFINE u == art[req[r].key]
           x == [req[r] EXCEPT !.pc = "set", !.sub = u]
<1>1. req[r].pc = "get" /\ SpentGone' /\ UNCHANGED <<minted, uses, spent>>
  BY StillGone DEF GetArtifact, LinkInv, history
<1>2. /\ req[r].key \in Key /\ u \in User \cup {None}
      /\ UseOK(req[r], uses, spent)
  BY <1>1, RequestFacts DEF Knows, RecoveryInv, StoreTypes, LinkInv
<1>3. CASE u = None
  BY <1>1, <1>3, EndLink DEF GetArtifact
<1>4. CASE u # None
  <2>1. req' = [req EXCEPT ![r].pc = "set", ![r].sub = u]
    BY <1>4 DEF GetArtifact
  <2>2. req' = [req EXCEPT ![r] = x] /\ req'[r] = x
    BY <2>1, RequestFacts
  <2>3. x \in RequestRecord /\ x.pc = "set" /\ x.key = req[r].key /\ x.late = req[r].late
    BY <1>2, RequestFacts DEF RequestRecord, Pc
  <2>4. ~req[r].late
    BY <1>2, <1>4 DEF UseOK, LinkInv, SpentGone
  <2> HIDE DEF x, u
  <2>5. UseOK(x, uses, spent)
    BY <2>3, <2>4 DEF UseOK
  <2>6. Presents(x) <=> Presents(req[r])
    BY <1>1, <2>3 DEF Presents
  <2>7. Use(r)' = Use(r)
    BY <1>1, <2>2, <2>3 DEF Use
  <2> QED BY <1>1, <2>2, <2>3, <2>5, <2>6, <2>7, HiddenLink
<1> QED BY <1>3, <1>4

\* The password set with a link is what the link pays; a pending change pays none.
LEMMA SetPasswordLink ==
    ASSUME RecoveryInv, LinkInv, NEW r \in Request, SetPassword(r)
    PROVE  PromiseStep /\ LinkInv'
<1> DEFINE k == req[r].key
           y == [req[r] EXCEPT !.pc = "delete"]
<1>1. /\ req[r].pc = "set"
      /\ uses' = [l \in Link |-> IF l = k /\ uses[l] < 2 THEN uses[l] + 1 ELSE uses[l]]
      /\ SpentGone' /\ UNCHANGED <<minted, spent>>
  BY StillGone DEF SetPassword, LinkInv
<1>2. /\ k \in Key /\ ~req[r].late /\ uses \in [Link -> 0 .. 2]
  BY <1>1, RequestFacts, EarlyFacts DEF Knows, RecoveryInv, StoreTypes
<1>3. PICK x \in {Free, y} : req' = [req EXCEPT ![r] = x]
  <2>1. Goto(r, "delete") \/ End(r)
    BY DEF SetPassword
  <2> QED BY <2>1, RequestFacts DEF Goto, End
<1>4. /\ y \in RequestRecord /\ y.pc = "delete" /\ y.key = k /\ y.late = req[r].late
  BY RequestFacts DEF RequestRecord, Pc
<1> HIDE DEF y, k
<1>5. \A l \in Link : uses'[l] > 0 <=> uses[l] > 0 \/ l = k
  BY <1>1, <1>2
<1>6. /\ x \in RequestRecord
      /\ x = Free \/ (x.pc = "delete" /\ x.key = k /\ x.late = req[r].late)
  BY <1>3, <1>4, FreeKnows
<1>7. Links(r, x)
  <2>1. UseOK(x, uses', spent')
    BY <1>2, <1>5, <1>6, FreeUse DEF UseOK
  <2> QED BY <1>1, <1>3, <1>5, <1>6, <2>1 DEF Links
<1>8. CASE k \in Link
  <2>1. Presents(req[r])
    BY <1>1, <1>8 DEF Presents, k
  <2>2. \/ ~Presents(x)
        \/ Presents(x) /\ x.pc = "delete" /\ x.key = req[r].key /\ x.late = req[r].late
    BY <1>6, FreeUse DEF k
  <2>3. Served' = Served \cup {req[r].key}
    BY <1>5, <1>8 DEF Served, k
  <2> QED BY <1>1, <1>2, <1>7, <2>1, <2>2, <2>3, PaysStep, LinksKept
<1>9. CASE k \notin Link
  <2>1. uses' = uses
    BY <1>1, <1>2, <1>9
  <2>2. ~Presents(req[r]) /\ ~Presents(x)
    BY <1>6, <1>9, FreeUse DEF Presents, k
  <2> QED BY <1>1, <1>7, <2>1, <2>2, HiddenStep, LinksKept
<1> QED BY <1>8, <1>9

\* A link deleted after use was in somebody's mail, so it was minted.
LEMMA DeleteArtifactLink ==
    ASSUME RecoveryInv, LinkInv, NEW r \in Request, DeleteArtifact(r)
    PROVE  PromiseStep /\ LinkInv'
<1> DEFINE k == req[r].key
           x == [req[r] EXCEPT !.pc = "session"]
<1>1. req[r].pc = "delete" /\ UNCHANGED <<minted, uses>>
  BY DEF DeleteArtifact
<1>2. req' = [req EXCEPT ![r] = x] /\ req'[r] = x
  BY RequestFacts DEF DeleteArtifact, Goto
<1>3. x \in RequestRecord /\ x.pc = "session" /\ x.key = k /\ x.late = req[r].late
  BY RequestFacts DEF RequestRecord, Pc
<1>4. \/ art' = [art EXCEPT ![k] = None] /\ spent' = spent \cup ({k} \cap Link)
      \/ UNCHANGED <<art, spent>>
  BY DEF DeleteArtifact
<1>5. /\ k \in Key /\ req[r].by \in User /\ Holds(req[r].by, k, inbox) /\ ~req[r].late
      /\ UseOK(req[r], uses, spent)
  BY <1>1, RequestFacts, EarlyFacts DEF Knows, LinkInv
<1>6. Use(r)' = Use(r)
  BY <1>1, <1>2, <1>3 DEF Use
<1> HIDE DEF x
<1>7. k \in Link => k \in minted /\ k \in Served
  <2>1. k \in Link => k \in inbox[req[r].by]
    BY <1>5, RecoveryAssumption DEF Holds
  <2>2. k \in Link => uses[k] > 0
    BY <1>1, <1>5 DEF UseOK
  <2> QED BY <1>5, <2>1, <2>2 DEF RecoveryInv, Owned, Served
<1>8. SpentGone'
  <2>1. \A l \in spent : l \in minted /\ l \in Key /\ art[l] = None
    BY DEF LinkInv, SpentGone, RecoveryInv, StoreTypes, Key
  <2>2. art \in [Key -> User \cup {None}]
    BY DEF RecoveryInv, StoreTypes
  <2>3. CASE UNCHANGED <<art, spent>>
    BY <1>1, <2>1, <2>3 DEF SpentGone
  <2>4. CASE art' = [art EXCEPT ![k] = None] /\ spent' = spent \cup ({k} \cap Link)
    <3> HIDE DEF k
    <3>1. \A l \in Key : art'[l] = IF l = k THEN None ELSE art[l]
      BY <2>2, <2>4
    <3> QED BY <1>1, <1>5, <1>7, <2>1, <2>4, <3>1 DEF SpentGone
  <2> QED BY <1>4, <2>3, <2>4
<1>9. Links(r, x)
  <2>1. UseOK(x, uses', spent')
    BY <1>3, <1>5 DEF UseOK
  <2>2. spent \subseteq spent'
    BY <1>4
  <2> QED BY <1>1, <1>2, <1>3, <1>8, <2>1, <2>2 DEF Links
<1>10. Presents(x) <=> Presents(req[r])
  BY <1>1, <1>3 DEF Presents
<1>11. CASE spent' = spent
  BY <1>1, <1>6, <1>9, <1>10, <1>11, HiddenStep, LinksKept
<1>12. CASE spent' # spent
  <2>1. k \in Link /\ spent' = spent \cup {k}
    BY <1>4, <1>12
  <2>2. Presents(req[r])
    BY <1>1, <2>1 DEF Presents
  <2> QED BY <1>1, <1>6, <1>7, <1>9, <1>10, <2>1, <2>2, ClosesStep, LinksKept
<1> QED BY <1>11, <1>12

LEMMA RequestLink ==
    ASSUME RecoveryInv, LinkInv, NEW r \in Request, Step(r)
    PROVE  PromiseStep /\ LinkInv'
<1>1. CASE startSession(r)
  <2>1. End(r) /\ SpentGone' /\ UNCHANGED <<minted, uses, spent>>
    BY <1>1, StillGone DEF startSession, LinkInv, history
  <2> QED BY <2>1, EndLink
<1>2. CASE GiveUp(r)
  <2>1. End(r) /\ SpentGone' /\ UNCHANGED <<minted, uses, spent>>
    BY <1>2, StillGone DEF GiveUp, LinkInv, history
  <2> QED BY <2>1, EndLink
<1> QED
  BY <1>1, <1>2, ForgotSubmitLink, LoginLink, ResetSubmitLink, ChangePasswordLink,
     FindByLoginLink, VerifyDestinationLink, StoreLinkLink, SendPasswordResetLink,
     AuthenticateLink, FetchAccountLink, PutPendingLink, GetArtifactLink, SetPasswordLink,
     DeleteArtifactLink DEF Step

LEMMA OtherLink ==
    ASSUME RecoveryInv, LinkInv, UNCHANGED <<minted, req, uses, spent>>,
           \A k \in Key : art'[k] = art[k] \/ art'[k] = None
    PROVE  PromiseStep /\ LinkInv'
<1>1. Uses' = Uses /\ Served' = Served
  BY DEF Uses, Use, Presenting, Served
<1>2. PromiseStep
  BY <1>1 DEF PromiseStep, Promise!vars, Uses
<1>3. LinkInv'
  BY DEF LinkInv, SpentGone, UseOK, RecoveryInv, StoreTypes, Key
<1> QED BY <1>2, <1>3

LEMMA NextPromises ==
    ASSUME RecoveryInv, LinkInv, [Next]_vars
    PROVE  PromiseStep /\ LinkInv'
<1>1. CASE \E r \in Request : Step(r)
  BY <1>1, RequestLink
<1>2. ASSUME NEW k \in Key, ExpireArtifact(k) PROVE PromiseStep /\ LinkInv'
  BY <1>2, OtherLink DEF ExpireArtifact, history, RecoveryInv, StoreTypes
<1>3. ASSUME NEW g \in Page, ExpirePage(g) PROVE PromiseStep /\ LinkInv'
  BY <1>3, OtherLink DEF ExpirePage, history
<1>4. ASSUME NEW u \in User, Disable(u) PROVE PromiseStep /\ LinkInv'
  BY <1>4, OtherLink DEF Disable, history
<1>5. CASE UNCHANGED vars
  BY <1>5, OtherLink DEF vars, history
<1> QED BY <1>1, <1>2, <1>3, <1>4, <1>5 DEF Next

LEMMA LinkInvHolds == Spec => []LinkInv
<1>1. Init => LinkInv
  BY DEF Init, LinkInv, SpentGone, UseOK, Free
<1>2. RecoveryInv /\ LinkInv /\ [Next]_vars => LinkInv'
  BY NextPromises
<1> QED BY <1>1, <1>2, RecoveryInvHolds, PTL DEF Spec

\* However many requests present the same link at once, are interrupted or lose
\* their delete, a link handed out by BeginPasswordReset keeps the promise of
\* OneTimeGrant: nobody who submits it after CompletePasswordReset has deleted it
\* sets a password with it.
THEOREM LinksKeepPromise == Spec => LinksOnce
<1>1. Init => Promise!Init
  <2>1. ASSUME Init PROVE Uses = {} /\ Served = {} /\ minted = {} /\ spent = {}
    BY <2>1 DEF Init, Uses, Presenting, Served, Free
  <2> QED BY <2>1 DEF Promise!Init, Uses
<1>2. RecoveryInv /\ LinkInv /\ [Next]_vars => [Promise!Next]_(Promise!vars)
  BY NextPromises DEF PromiseStep
<1> QED BY <1>1, <1>2, RecoveryInvHolds, LinkInvHolds, PTL DEF Spec, LinksOnce, Promise!Spec

\* A submission that comes after CompletePasswordReset has deleted its link gets no
\* further than the look for it, and the link stays deleted, whatever else overlaps.
THEOREM LateLinksRefused ==
    Spec => [](/\ \A r \in Request : req[r].late => req[r].pc = "get"
               /\ \A l \in spent : art[l] = None)
<1>1. LinkInv => /\ \A r \in Request : req[r].late => req[r].pc = "get"
                 /\ \A l \in spent : art[l] = None
  BY DEF LinkInv, UseOK, SpentGone
<1> QED BY <1>1, LinkInvHolds, PTL

-----------------------------------------------------------------------------
(***************************************************************************)
(* What deletes a link that was used.                                       *)
(***************************************************************************)
Deleting(x, l) == x.pc = "delete" /\ x.key = l

UsedOK == faults = 0 => \A l \in Link : uses[l] > 0 =>
              l \in spent \/ \E r \in Request : Deleting(req[r], l)

\* A step of a request that is not about to delete, and that uses no link.
LEMMA UnusedSteps ==
    ASSUME RecoveryInv, UsedOK, NEW r \in Request, req[r].pc # "delete",
           \A q \in Request \ {r} : req'[q] = req[q],
           faults' = faults, uses' = uses, spent' = spent
    PROVE  UsedOK'
<1> SUFFICES ASSUME faults = 0, NEW l \in Link, uses[l] > 0
             PROVE  l \in spent \/ \E q \in Request : Deleting(req'[q], l)
  BY DEF UsedOK, Deleting
<1>1. l \in spent \/ \E q \in Request : Deleting(req[q], l)
  BY DEF UsedOK
<1>2. ASSUME NEW q \in Request, Deleting(req[q], l) PROVE Deleting(req'[q], l)
  BY <1>2 DEF Deleting
<1> QED BY <1>1, <1>2

LEMMA SetPasswordUses ==
    ASSUME RecoveryInv, UsedOK, NEW r \in Request, SetPassword(r)
    PROVE  UsedOK'
<1>1. /\ req[r].pc = "set" /\ spent' = spent
      /\ uses' = [l \in Link |-> IF l = req[r].key /\ uses[l] < 2 THEN uses[l] + 1 ELSE uses[l]]
      /\ (Goto(r, "delete") /\ faults' = faults) \/ (faults' = faults + 1)
  BY DEF SetPassword, Fault
<1>2. faults \in Nat /\ req \in [Request -> RequestRecord]
  BY RequestFacts, RecoveryAssumption DEF RecoveryInv, StoreTypes
<1>3. CASE faults' = faults + 1
  BY <1>2, <1>3 DEF UsedOK
<1>4. CASE Goto(r, "delete") /\ faults' = faults
  <2>1. /\ req'[r].pc = "delete" /\ req'[r].key = req[r].key
        /\ \A q \in Request \ {r} : req'[q] = req[q]
    BY <1>2, <1>4 DEF Goto, RequestRecord
  <2> SUFFICES ASSUME faults = 0, NEW l \in Link, uses'[l] > 0
               PROVE  l \in spent \/ \E q \in Request : Deleting(req'[q], l)
    BY <1>1, <1>4 DEF UsedOK, Deleting
  <2>2. CASE l = req[r].key
    BY <2>1, <2>2 DEF Deleting
  <2>3. CASE l # req[r].key
    <3>1. uses[l] > 0
      BY <1>1, <2>3
    <3>2. l \in spent \/ \E q \in Request : Deleting(req[q], l)
      BY <3>1 DEF UsedOK
    <3>3. ASSUME NEW q \in Request, Deleting(req[q], l) PROVE Deleting(req'[q], l)
      BY <1>1, <2>1, <3>3 DEF Deleting
    <3> QED BY <3>2, <3>3
  <2> QED BY <2>2, <2>3
<1> QED BY <1>1, <1>3, <1>4

LEMMA DeleteArtifactUses ==
    ASSUME RecoveryInv, UsedOK, NEW r \in Request, DeleteArtifact(r)
    PROVE  UsedOK'
<1>1. /\ req[r].pc = "delete" /\ Goto(r, "session") /\ uses' = uses
      /\ \/ spent' = spent \cup ({req[r].key} \cap Link) /\ faults' = faults
         \/ faults' = faults + 1
  BY DEF DeleteArtifact, Fault
<1>2. faults \in Nat /\ req \in [Request -> RequestRecord]
  BY RequestFacts, RecoveryAssumption DEF RecoveryInv, StoreTypes
<1>3. CASE faults' = faults + 1
  BY <1>2, <1>3 DEF UsedOK
<1>4. CASE spent' = spent \cup ({req[r].key} \cap Link) /\ faults' = faults
  <2>1. \A q \in Request \ {r} : req'[q] = req[q]
    BY <1>1, <1>2 DEF Goto
  <2> SUFFICES ASSUME faults = 0, NEW l \in Link, uses[l] > 0
               PROVE  l \in spent' \/ \E q \in Request : Deleting(req'[q], l)
    BY <1>1, <1>4 DEF UsedOK, Deleting
  <2>2. l \in spent \/ \E q \in Request : Deleting(req[q], l)
    BY DEF UsedOK
  <2>3. ASSUME NEW q \in Request, Deleting(req[q], l), q # r PROVE Deleting(req'[q], l)
    BY <2>1, <2>3 DEF Deleting
  <2>4. Deleting(req[r], l) => l \in spent'
    BY <1>4 DEF Deleting
  <2> QED BY <1>4, <2>2, <2>3, <2>4
<1> QED BY <1>1, <1>3, <1>4

LEMMA StepUses ==
    ASSUME RecoveryInv, UsedOK, NEW r \in Request, Step(r)
    PROVE  UsedOK'
<1>1. req \in [Request -> RequestRecord]
  BY RequestFacts
<1>2. CASE \/ \E u \in User, a \in Address : ForgotSubmit(r, u, a)
           \/ \E p \in User, g \in Page : Login(r, p, g)
           \/ \E p \in User, l \in Link : ResetSubmit(r, p, l)
           \/ \E p \in User, g \in Page : ChangePassword(r, p, g)
  <2>1. /\ req[r].pc = "idle" /\ faults' = faults /\ uses' = uses /\ spent' = spent
        /\ \E x : req' = [req EXCEPT ![r] = x]
    BY <1>2 DEF ForgotSubmit, Login, ResetSubmit, ChangePassword, SubmitPassword, history
  <2>2. \A q \in Request \ {r} : req'[q] = req[q]
    BY <1>1, <2>1
  <2> QED BY <2>1, <2>2, UnusedSteps
<1>3. CASE FindByLogin(r) \/ VerifyDestination(r) \/ Authenticate(r) \/ FetchAccount(r)
  <2>1. /\ req[r].pc # "delete" /\ faults' = faults /\ uses' = uses /\ spent' = spent
        /\ End(r) \/ \E pc \in Pc : Goto(r, pc)
    BY <1>3 DEF FindByLogin, VerifyDestination, Authenticate, FetchAccount, Pc, history
  <2>2. \A q \in Request \ {r} : req'[q] = req[q]
    BY <1>1, <2>1 DEF End, Goto
  <2> QED BY <2>1, <2>2, UnusedSteps
<1>4. CASE SendPasswordReset(r) \/ PutPending(r) \/ startSession(r) \/ GiveUp(r)
  <2>1. req[r].pc # "delete" /\ faults' = faults /\ uses' = uses /\ spent' = spent /\ End(r)
    BY <1>4 DEF SendPasswordReset, PutPending, startSession, GiveUp, history
  <2>2. \A q \in Request \ {r} : req'[q] = req[q]
    BY <1>1, <2>1 DEF End
  <2> QED BY <2>1, <2>2, UnusedSteps
<1>5. CASE StoreLink(r)
  <2>1. req[r].pc # "delete" /\ faults' = faults /\ uses' = uses /\ spent' = spent
    BY <1>5 DEF StoreLink, history
  <2>2. \A q \in Request \ {r} : req'[q] = req[q]
    BY <1>1, <1>5 DEF StoreLink
  <2> QED BY <2>1, <2>2, UnusedSteps
<1>6. CASE GetArtifact(r)
  <2>1. req[r].pc # "delete" /\ faults' = faults /\ uses' = uses /\ spent' = spent
    BY <1>6 DEF GetArtifact, history
  <2>2. \A q \in Request \ {r} : req'[q] = req[q]
    BY <1>1, <1>6 DEF GetArtifact, End
  <2> QED BY <2>1, <2>2, UnusedSteps
<1> QED
  BY <1>2, <1>3, <1>4, <1>5, <1>6, SetPasswordUses, DeleteArtifactUses DEF Step

\* As long as no call has failed, a link that has set a password is deleted, or the
\* request that used it is about to delete it (CompletePasswordReset): only a submission
\* that overlaps the first one can use it again.  After a failed call it may live on.
THEOREM UsedLinksAreDeleted ==
    Spec => [](faults = 0 => \A l \in Link : uses[l] > 0 =>
                  art[l] = None \/ \E r \in Request : Deleting(req[r], l))
<1>1. Init => UsedOK
  BY DEF Init, UsedOK
<1>2. RecoveryInv /\ UsedOK /\ [Next]_vars => UsedOK'
  <2> SUFFICES ASSUME RecoveryInv, UsedOK, [Next]_vars, ~\E r \in Request : Step(r)
               PROVE  UsedOK'
    BY StepUses
  <2>1. UNCHANGED <<faults, uses, spent, req>>
    BY DEF Next, ExpireArtifact, ExpirePage, Disable, vars, history
  <2> QED BY <2>1 DEF UsedOK, Deleting
<1>3. LinkInv /\ UsedOK => (faults = 0 => \A l \in Link : uses[l] > 0 =>
                               art[l] = None \/ \E r \in Request : Deleting(req[r], l))
  BY DEF LinkInv, SpentGone, UsedOK
<1> QED BY <1>1, <1>2, <1>3, RecoveryInvHolds, LinkInvHolds, PTL DEF Spec
=============================================================================
