-------------------------- MODULE AccessTokensProofs --------------------------
(***************************************************************************)
(* Proofs about AccessTokens, for any tokens, scopes, policies and number   *)
(* of concurrent requests: exchanges never add a scope, and what a finished *)
(* revocation has done to a token counts for every later request.           *)
(***************************************************************************)
EXTENDS AccessTokens, TLAPS

TokenRecord == [kind : {"none", "root", "child"}, scope : SUBSET Scope, exp : Nat,
                base : SUBSET Scope]
RequestRecord == [pc : {"idle", "ask", "mark", "known", "accept", "policy", "audit", "session", "put"},
                  op : {"verify", "introspect", "exchange", "revoke"},
                  on : Token \cup {None}, made : Token \cup {None}, late : SUBSET Deed,
                  blind : BOOLEAN]

RecordTypes ==
    /\ now \in 0..MaxTime /\ faults \in 0..MaxFaults
    /\ tok \in [Token -> TokenRecord]
    /\ session \subseteq {t \in Token : tok[t].kind = "root"}
    /\ mark \in [Token -> Nat]
    /\ logged \subseteq {t \in Token : tok[t].kind = "child"}
    /\ revoked \in [Token -> SUBSET Deed]

\* A mark outlives its token, and what a revocation has done to a token stays done.
TokenFacts ==
    \A t \in Token :
        /\ Issued(t) => tok[t].exp <= now + AccessTTL
        /\ mark[t] # 0 => Issued(t) /\ mark[t] > tok[t].exp
        /\ revoked[t] # {} => Issued(t)
        /\ "session" \in revoked[t] => t \notin session
        /\ "mark" \in revoked[t] => mark[t] # 0

RecordsOK == RecordTypes /\ TokenFacts /\ ScopesShrink

\* What a request x knows is true of the tokens k, the sessions s and the marks m.
Working == {"ask", "mark", "known", "accept", "policy", "session", "put"}
Checked == {"known", "accept", "policy"}
Sound(x, k, s, m) ==
    /\ x.pc \in Working => x.on \in Token /\ k[x.on].kind # "none"
    /\ x.pc = "ask" => x.op = "introspect"
    /\ x.pc = "known" => x.op # "introspect" /\ k[x.on].kind = "root"
    /\ x.pc = "put" => x.blind \/ x.on \notin s
    /\ x.late # {} => x.pc \in Working
    /\ "session" \in x.late => x.on \notin s
    /\ "mark" \in x.late => m[x.on] # 0
    /\ x.pc \in Checked /\ "mark" \in x.late =>
          x.blind \/ (x.op = "introspect" /\ "session" \notin x.late)
    /\ x.pc \in {"accept", "policy"} /\ "session" \in x.late =>
          x.op = "introspect" \/ k[x.on].kind = "child"
    /\ x.made # None => k[x.made].kind = "child"

AccessInv ==
    /\ RecordsOK
    /\ req \in [Request -> RequestRecord]
    /\ \A r \in Request : Sound(req[r], tok, session, mark)

\* The records l, e, n that follow k, s, m: an issued token stays as it is and gets
\* no session, and marks are not taken back.
Follows(l, e, n, k, s, m) ==
    /\ \A t \in Token : k[t].kind # "none" => l[t] = k[t] /\ (t \in e => t \in s)
    /\ \A t \in Token : m[t] # 0 => n[t] # 0

-----------------------------------------------------------------------------
(***************************************************************************)
(* Lemmas about requests and the records they rely on.                      *)
(***************************************************************************)
LEMMA FreeSound == Free \in RequestRecord /\ \A k, s, m : Sound(Free, k, s, m)
  BY DEF Free, RequestRecord, Sound, Working, Checked

\* A request that waits for its audit event knows no more than the token made.
LEMMA AuditSound ==
    ASSUME NEW t \in Token \cup {None}, NEW k, NEW s, NEW m,
           t # None => k[t].kind = "child"
    PROVE  /\ [Free EXCEPT !.pc = "audit", !.made = t] \in RequestRecord
           /\ Sound([Free EXCEPT !.pc = "audit", !.made = t], k, s, m)
  BY DEF Free, RequestRecord, Sound, Working, Checked

\* What a request knows stays true while records follow each other.
LEMMA SoundKept ==
    ASSUME NEW x \in RequestRecord, NEW k, NEW s, NEW m, NEW l, NEW e, NEW n,
           Sound(x, k, s, m), Follows(l, e, n, k, s, m)
    PROVE  Sound(x, l, e, n)
  <1>1. x.made \in Token \cup {None}
    BY DEF RequestRecord
  <1>2. x.made # None => l[x.made].kind = "child"
    BY <1>1 DEF Sound, Follows
  <1>3. x.pc \in Working => x.on \in Token /\ k[x.on].kind # "none" /\ l[x.on] = k[x.on]
    BY DEF Sound, Follows
  <1>4. /\ x.pc \in Working /\ x.on \notin s => x.on \notin e
        /\ x.pc \in Working /\ m[x.on] # 0 => n[x.on] # 0
    BY <1>3 DEF Follows
  <1>5. "session" \in x.late \/ "mark" \in x.late => x.pc \in Working
    BY DEF Sound
  <1>6. /\ x.pc = "known" => x.op # "introspect" /\ l[x.on].kind = "root"
        /\ x.pc = "put" => x.blind \/ x.on \notin e
        /\ "session" \in x.late => x.on \notin e
        /\ "mark" \in x.late => n[x.on] # 0
    BY <1>3, <1>4, <1>5 DEF Sound, Working
  <1>7. x.pc \in {"accept", "policy"} /\ "session" \in x.late =>
           x.op = "introspect" \/ l[x.on].kind = "child"
    BY <1>3 DEF Sound, Working
  <1> QED
    BY <1>2, <1>3, <1>6, <1>7 DEF Sound

\* A step that leaves the requests alone.
LEMMA RecordStep ==
    ASSUME AccessInv, RecordsOK', UNCHANGED req,
           Follows(tok', session', mark', tok, session, mark)
    PROVE  AccessInv'
  <1>1. ASSUME NEW q \in Request PROVE Sound(req'[q], tok', session', mark')
    <2>1. req'[q] = req[q] /\ req[q] \in RequestRecord
          /\ Sound(req[q], tok, session, mark)
      BY DEF AccessInv
    <2> QED
      BY <2>1, SoundKept
  <1> QED
    BY <1>1 DEF AccessInv

\* A step of request r that leaves x behind.
LEMMA StepKeeps ==
    ASSUME AccessInv, NEW r \in Request, NEW x \in RequestRecord,
           req' = [req EXCEPT ![r] = x], RecordsOK',
           Sound(x, tok', session', mark'),
           Follows(tok', session', mark', tok, session, mark)
    PROVE  AccessInv'
  <1>1. req \in [Request -> RequestRecord]
    BY DEF AccessInv
  <1>2. req' \in [Request -> RequestRecord]
    BY <1>1
  <1>3. ASSUME NEW q \in Request PROVE Sound(req'[q], tok', session', mark')
    <2>1. CASE q = r
      BY <1>1, <2>1
    <2>2. CASE q # r
      <3>1. req'[q] = req[q] /\ req[q] \in RequestRecord
            /\ Sound(req[q], tok, session, mark)
        BY <1>1, <2>2 DEF AccessInv
      <3> QED
        BY <3>1, SoundKept
    <2> QED
      BY <2>1, <2>2
  <1> QED
    BY <1>2, <1>3 DEF AccessInv

\* A step of request r that leaves the records alone, save for the count of faults.
LEMMA QuietStep ==
    ASSUME AccessInv, NEW r \in Request, NEW x \in RequestRecord,
           req' = [req EXCEPT ![r] = x], Sound(x, tok, session, mark),
           faults' \in 0..MaxFaults, UNCHANGED <<now, records, revoked>>
    PROVE  AccessInv'
  <1>1. RecordsOK'
    BY DEF AccessInv, RecordsOK, RecordTypes, TokenFacts, ScopesShrink, Issued, records
  <1>2. Follows(tok', session', mark', tok, session, mark)
    BY DEF Follows, records
  <1>3. Sound(x, tok', session', mark')
    BY ONLY Sound(x, tok, session, mark), UNCHANGED <<now, records, revoked>>
       DEF records
  <1> QED
    BY <1>1, <1>2, <1>3, StepKeeps

LEMMA FaultType ==
    ASSUME AccessInv
    PROVE  /\ faults \in 0..MaxFaults
           /\ Fault => faults' \in 0..MaxFaults
  BY TokenAssumption DEF AccessInv, RecordsOK, RecordTypes, Fault

\* What the invariant says of the request of a step.
LEMMA RequestFacts ==
    ASSUME AccessInv, NEW r \in Request
    PROVE  /\ req[r] \in RequestRecord
           /\ Sound(req[r], tok, session, mark)
           /\ req \in [Request -> RequestRecord]
  BY DEF AccessInv

-----------------------------------------------------------------------------
(***************************************************************************)
(* Requests that check a token.                                             *)
(***************************************************************************)
LEMMA EndStep ==
    ASSUME AccessInv, NEW r \in Request, End(r),
           faults' \in 0..MaxFaults, UNCHANGED <<now, records, revoked>>
    PROVE  AccessInv'
  BY FreeSound, QuietStep DEF End

LEMMA AuditStep ==
    ASSUME AccessInv, NEW r \in Request, Audit(r, None),
           faults' \in 0..MaxFaults, UNCHANGED <<now, records, revoked>>
    PROVE  AccessInv'
  BY AuditSound, QuietStep DEF Audit

LEMMA RefuseStep ==
    ASSUME AccessInv, NEW r \in Request, Refuse(r),
           faults' \in 0..MaxFaults, UNCHANGED <<now, records, revoked>>
    PROVE  AccessInv'
  BY EndStep, AuditStep DEF Refuse

LEMMA ArriveStep ==
    ASSUME AccessInv, NEW r \in Request, NEW op \in Ops, NEW t \in Token, Arrive(r, op, t)
    PROVE  AccessInv'
  <1> DEFINE x == [Free EXCEPT !.pc = First(op), !.op = op, !.on = t, !.late = Late(op, t)]
  <1>1. /\ Late(op, t) \in SUBSET Deed
        /\ "session" \in Late(op, t) => t \notin session
        /\ "mark" \in Late(op, t) => mark[t] # 0
    BY DEF Late, AccessInv, RecordsOK, RecordTypes, TokenFacts
  <1>2. First(op) \in {"ask", "mark", "session"} /\ (First(op) = "ask" => op = "introspect")
    BY DEF First
  <1>3. /\ x.pc = First(op) /\ x.op = op /\ x.on = t /\ x.late = Late(op, t)
        /\ x.made = None
    BY DEF Free
  <1>4. x \in RequestRecord
    BY <1>1, <1>2, TokenAssumption DEF RequestRecord, Free
  <1>5. Sound(x, tok, session, mark)
    <2>1. tok[t].kind # "none"
      BY DEF Arrive, Issued
    <2> HIDE DEF x
    <2> QED
      BY <1>1, <1>2, <1>3, <2>1 DEF Sound, Working, Checked
  <1>6. req' = [req EXCEPT ![r] = x] /\ UNCHANGED <<now, records, faults, revoked>>
    BY DEF Arrive
  <1> HIDE DEF x
  <1> QED
    BY <1>4, <1>5, <1>6, FaultType, QuietStep

\* The place a token that passes the check of its mark goes on to.
LEMMA PassFacts ==
    ASSUME AccessInv, NEW r \in Request
    PROVE  /\ Passed(r) \in {"policy", "accept"}
           /\ AfterMark(r) \in {"known", "policy", "accept"}
           /\ AfterMark(r) = "known" <=> /\ tok[req[r].on].kind = "root"
                                         /\ req[r].op # "introspect"
  BY DEF Passed, AfterMark

\* Moving on to pc, blindly or not.
LEMMA MoveStep ==
    ASSUME AccessInv, NEW r \in Request, NEW pc \in Working, NEW b \in BOOLEAN,
           req' = [req EXCEPT ![r] = [req[r] EXCEPT !.pc = pc, !.blind = b]],
           req[r].pc \in Working, pc # "ask",
           pc = "known" => req[r].op # "introspect" /\ tok[req[r].on].kind = "root",
           pc = "put" => b \/ req[r].on \notin session,
           pc \in Checked /\ "mark" \in req[r].late =>
              b \/ (req[r].op = "introspect" /\ "session" \notin req[r].late),
           pc \in {"accept", "policy"} /\ "session" \in req[r].late =>
              req[r].op = "introspect" \/ tok[req[r].on].kind = "child",
           faults' \in 0..MaxFaults, UNCHANGED <<now, records, revoked>>
    PROVE  AccessInv'
  <1> DEFINE x == [req[r] EXCEPT !.pc = pc, !.blind = b]
  <1>1. /\ x \in RequestRecord /\ x.pc = pc /\ x.blind = b /\ x.op = req[r].op
        /\ x.on = req[r].on /\ x.late = req[r].late /\ x.made = req[r].made
    BY RequestFacts DEF RequestRecord, Working
  <1> HIDE DEF x
  <1>2. Sound(x, tok, session, mark)
    BY <1>1, RequestFacts DEF Sound
  <1>3. req' = [req EXCEPT ![r] = x]
    BY DEF x
  <1> QED
    BY <1>1, <1>2, <1>3, QuietStep

\* A token that a request found marked on arrival fails the check of its mark until
\* it expires.
LEMMA LateFacts ==
    ASSUME AccessInv, NEW r \in Request, "mark" \in req[r].late,
           Unexpired(req[r].on), ~Marked(req[r].on)
    PROVE  FALSE
  <1> DEFINE t == req[r].on
  <1>1. req[r].pc \in Working
    BY RequestFacts DEF Sound
  <1>2. t \in Token /\ mark[t] # 0
    BY <1>1, RequestFacts DEF Sound
  <1>3. mark[t] > tok[t].exp
    BY <1>2 DEF AccessInv, RecordsOK, TokenFacts
  <1>4. now \in Nat /\ mark[t] \in Nat /\ tok[t].exp \in Nat
    BY <1>2, TokenAssumption DEF AccessInv, RecordsOK, RecordTypes, TokenRecord
  <1> QED
    BY <1>3, <1>4 DEF Unexpired, Marked

LEMMA GotoMove ==
    ASSUME AccessInv, NEW r \in Request, NEW pc, Goto(r, pc)
    PROVE  req' = [req EXCEPT ![r] = [req[r] EXCEPT !.pc = pc, !.blind = req[r].blind]]
  <1>1. [req[r] EXCEPT !.pc = pc] = [req[r] EXCEPT !.pc = pc, !.blind = req[r].blind]
    BY RequestFacts DEF RequestRecord
  <1>2. req' = [req EXCEPT ![r] = [req[r] EXCEPT !.pc = pc]]
    BY DEF Goto
  <1> QED
    BY <1>1, <1>2

LEMMA AskFositeStep ==
    ASSUME AccessInv, NEW r \in Request, AskFosite(r) \/ AskFositeFails(r)
    PROVE  AccessInv'
  <1>1. /\ req[r].pc = "ask" /\ UNCHANGED <<now, records, revoked>>
        /\ faults' \in 0..MaxFaults
    BY FaultType DEF AskFosite, AskFositeFails, At
  <1>2. req[r].op = "introspect" /\ req[r].blind \in BOOLEAN
    BY <1>1, RequestFacts DEF Sound, RequestRecord
  <1>3. \/ Goto(r, "mark")
        \/ Goto(r, "accept") /\ req[r].on \in session
    BY DEF AskFosite, AskFositeFails
  <1>4. CASE Goto(r, "mark")
    <2>1. req' = [req EXCEPT ![r] = [req[r] EXCEPT !.pc = "mark", !.blind = req[r].blind]]
      BY <1>4, GotoMove
    <2> QED
      BY <1>1, <1>2, <2>1, MoveStep DEF Working, Checked
  <1>5. CASE Goto(r, "accept") /\ req[r].on \in session
    <2>1. req' = [req EXCEPT ![r] = [req[r] EXCEPT !.pc = "accept", !.blind = req[r].blind]]
      BY <1>5, GotoMove
    <2>2. "session" \notin req[r].late
      BY <1>5, RequestFacts DEF Sound
    <2> QED
      BY <1>1, <1>2, <2>1, <2>2, MoveStep DEF Working
  <1> QED
    BY <1>3, <1>4, <1>5

\* Past the check of the mark, with an answer or without.
LEMMA PastMark ==
    ASSUME AccessInv, NEW r \in Request, req[r].pc = "mark", NEW b \in BOOLEAN,
           req' = [req EXCEPT ![r] = [req[r] EXCEPT !.pc = AfterMark(r), !.blind = b]],
           "mark" \in req[r].late => b,
           faults' \in 0..MaxFaults, UNCHANGED <<now, records, revoked>>
    PROVE  AccessInv'
  <1>1. /\ AfterMark(r) \in Working /\ AfterMark(r) \notin {"ask", "put"}
        /\ req[r].pc \in Working
    BY PassFacts DEF Working
  <1>2. AfterMark(r) # "known" => req[r].op = "introspect" \/ tok[req[r].on].kind = "child"
    <2>1. req[r].on \in Token /\ tok[req[r].on].kind # "none"
      BY <1>1, RequestFacts DEF Sound
    <2>2. tok[req[r].on].kind \in {"none", "root", "child"}
      BY <2>1 DEF AccessInv, RecordsOK, RecordTypes, TokenRecord
    <2> QED
      BY <2>1, <2>2, PassFacts
  <1> QED
    BY <1>1, <1>2, PassFacts, MoveStep

LEMMA CheckMarkStep ==
    ASSUME AccessInv, NEW r \in Request, CheckMark(r)
    PROVE  AccessInv'
  <1>1. UNCHANGED <<now, records, revoked>> /\ faults' \in 0..MaxFaults
    BY FaultType DEF CheckMark
  <1>2. CASE Unexpired(req[r].on) /\ ~Marked(req[r].on)
    <2>1. Goto(r, AfterMark(r)) /\ req[r].pc = "mark"
      BY <1>2 DEF CheckMark, At
    <2>2. req' = [req EXCEPT ![r] = [req[r] EXCEPT !.pc = AfterMark(r), !.blind = req[r].blind]]
      BY <2>1, GotoMove
    <2>3. "mark" \notin req[r].late
      BY <1>2, LateFacts
    <2>4. req[r].blind \in BOOLEAN
      BY RequestFacts DEF RequestRecord
    <2> QED
      BY <1>1, <2>1, <2>2, <2>3, <2>4, PastMark
  <1>3. CASE ~(Unexpired(req[r].on) /\ ~Marked(req[r].on))
    <2>1. Refuse(r)
      BY <1>3 DEF CheckMark
    <2> QED
      BY <1>1, <2>1, RefuseStep
  <1> QED
    BY <1>2, <1>3

LEMMA CheckMarkFailsStep ==
    ASSUME AccessInv, NEW r \in Request, CheckMarkFails(r)
    PROVE  AccessInv'
  <1>1. /\ req' = [req EXCEPT ![r].pc = AfterMark(r), ![r].blind = TRUE]
        /\ Fault /\ UNCHANGED <<now, records, revoked>> /\ req[r].pc = "mark"
    BY DEF CheckMarkFails, At
  <1>2. req' = [req EXCEPT ![r] = [req[r] EXCEPT !.pc = AfterMark(r), !.blind = TRUE]]
    BY <1>1, RequestFacts
  <1>3. faults' \in 0..MaxFaults
    BY <1>1, FaultType
  <1> QED
    BY <1>1, <1>2, <1>3, PastMark

LEMMA IntrospectTokenStep ==
    ASSUME AccessInv, NEW r \in Request, IntrospectToken(r)
    PROVE  AccessInv'
  <1>1. UNCHANGED <<now, records, revoked>> /\ faults' \in 0..MaxFaults
    BY FaultType DEF IntrospectToken
  <1>2. CASE req[r].on \in session /\ Unexpired(req[r].on)
    <2>1. Goto(r, Passed(r)) /\ req[r].pc = "known"
      BY <1>2 DEF IntrospectToken, At
    <2>2. req' = [req EXCEPT ![r] = [req[r] EXCEPT !.pc = Passed(r), !.blind = req[r].blind]]
      BY <2>1, GotoMove
    <2>3. /\ "session" \notin req[r].late
          /\ "mark" \in req[r].late => req[r].blind
      BY <1>2, <2>1, RequestFacts DEF Sound, Checked
    <2>4. /\ Passed(r) \in Working /\ Passed(r) \notin {"ask", "put", "known"}
          /\ req[r].blind \in BOOLEAN /\ req[r].pc \in Working
      BY <2>1, PassFacts, RequestFacts DEF Working, RequestRecord
    <2> QED
      BY <1>1, <2>2, <2>3, <2>4, MoveStep
  <1>3. CASE ~(req[r].on \in session /\ Unexpired(req[r].on))
    <2>1. Refuse(r)
      BY <1>3 DEF IntrospectToken
    <2> QED
      BY <1>1, <2>1, RefuseStep
  <1> QED
    BY <1>2, <1>3

-----------------------------------------------------------------------------
(***************************************************************************)
(* Steps that change the records.                                           *)
(***************************************************************************)
LEMMA RecordFacts ==
    ASSUME AccessInv
    PROVE  /\ RecordTypes /\ TokenFacts /\ ScopesShrink
           /\ now \in Nat /\ faults \in 0..MaxFaults
           /\ \A t \in Token : tok[t] \in TokenRecord
  BY TokenAssumption DEF AccessInv, RecordsOK, RecordTypes

\* A new token with a full life before it, with or without a session.
LEMMA TokenMade ==
    ASSUME AccessInv, NEW t \in Token, ~Issued(t), NEW y \in TokenRecord,
           y.kind # "none", y.scope \subseteq y.base, y.exp = now + AccessTTL,
           tok' = [tok EXCEPT ![t] = y],
           session' = IF y.kind = "root" THEN session \cup {t} ELSE session,
           UNCHANGED <<now, mark, logged, faults, revoked>>
    PROVE  /\ RecordsOK'
           /\ Follows(tok', session', mark', tok, session, mark)
  <1>1. /\ tok \in [Token -> TokenRecord] /\ mark \in [Token -> Nat]
        /\ tok' \in [Token -> TokenRecord]
        /\ \A u \in Token : tok'[u] = IF u = t THEN y ELSE tok[u]
    BY RecordFacts DEF RecordTypes
  <1>2. tok[t].kind = "none"
    BY DEF Issued
  <1>3. RecordTypes'
    <2>1. session' \subseteq {u \in Token : tok'[u].kind = "root"}
      BY <1>1, <1>2, RecordFacts DEF RecordTypes
    <2>2. logged' \subseteq {u \in Token : tok'[u].kind = "child"}
      BY <1>1, <1>2, RecordFacts DEF RecordTypes
    <2> QED
      BY <1>1, <2>1, <2>2, RecordFacts DEF RecordTypes
  <1>4. TokenFacts'
    <2> SUFFICES ASSUME NEW u \in Token
                 PROVE  /\ Issued(u)' => tok'[u].exp <= now' + AccessTTL
                        /\ mark'[u] # 0 => Issued(u)' /\ mark'[u] > tok'[u].exp
                        /\ revoked'[u] # {} => Issued(u)'
                        /\ "session" \in revoked'[u] => u \notin session'
                        /\ "mark" \in revoked'[u] => mark'[u] # 0
      BY DEF TokenFacts
    <2>1. CASE u = t
      <3>1. mark[t] = 0 /\ revoked[t] = {}
        BY RecordFacts DEF TokenFacts
      <3>2. y.exp <= now + AccessTTL
        BY RecordFacts, TokenAssumption
      <3> QED
        BY <1>1, <2>1, <3>1, <3>2 DEF Issued
    <2>2. CASE u # t
      <3>1. u \in session' <=> u \in session
        BY <2>2
      <3> QED
        BY <1>1, <2>2, <3>1, RecordFacts DEF TokenFacts, Issued
    <2> QED
      BY <2>1, <2>2
  <1>5. ScopesShrink'
    BY <1>1, RecordFacts DEF ScopesShrink
  <1>6. Follows(tok', session', mark', tok, session, mark)
    BY <1>1, <1>2 DEF Follows
  <1> QED
    BY <1>3, <1>4, <1>5, <1>6 DEF RecordsOK

LEMMA IssueStep ==
    ASSUME AccessInv, NEW t \in Token, NEW S \in Grants, Issue(t, S)
    PROVE  AccessInv'
  <1> DEFINE y == [kind |-> "root", scope |-> S, exp |-> now + AccessTTL, base |-> S]
  <1>1. S \in SUBSET Scope /\ now + AccessTTL \in Nat
    BY TokenAssumption, RecordFacts
  <1>2. /\ y \in TokenRecord /\ y.kind = "root" /\ y.scope \subseteq y.base
        /\ y.exp = now + AccessTTL
    BY <1>1 DEF TokenRecord
  <1>3. /\ tok' = [tok EXCEPT ![t] = y] /\ ~Issued(t) /\ session' = session \cup {t}
        /\ UNCHANGED <<now, mark, logged, req, faults, revoked>>
    BY DEF Issue
  <1> HIDE DEF y
  <1>4. /\ RecordsOK'
        /\ Follows(tok', session', mark', tok, session, mark)
    BY <1>2, <1>3, TokenMade
  <1> QED
    BY <1>3, <1>4, RecordStep

LEMMA ExchangeStep ==
    ASSUME AccessInv, NEW r \in Request, NEW t \in Token, NEW a \in Ask, Exchange(r, t, a)
    PROVE  AccessInv'
  <1> DEFINE u == req[r].on
             y == [kind |-> "child", scope |-> requestedScopes(r, a), exp |-> now + AccessTTL,
                   base |-> tok[req[r].on].base \cap tok[req[r].on].scope]
             x == [Free EXCEPT !.pc = "audit", !.made = t]
  <1>1. u \in Token /\ tok[u] \in TokenRecord
    <2>1. req[r].pc \in Working
      BY DEF Exchange, At, Working
    <2> QED
      BY <2>1, RequestFacts, RecordFacts DEF Sound
  <1>2. requestedScopes(r, a) \subseteq tok[u].scope
    BY DEF Exchange, Granted
  <1>3. tok[u].scope \subseteq tok[u].base /\ tok[u].base \in SUBSET Scope
    BY <1>1, RecordFacts DEF ScopesShrink, TokenRecord
  <1>4. now + AccessTTL \in Nat
    BY TokenAssumption, RecordFacts
  <1>5. requestedScopes(r, a) \subseteq tok[u].base \cap tok[u].scope
    BY <1>2, <1>3
  <1>6. /\ y \in TokenRecord /\ y.kind = "child" /\ y.scope \subseteq y.base
        /\ y.exp = now + AccessTTL
    BY <1>3, <1>4, <1>5 DEF TokenRecord
  <1>7. /\ tok' = [tok EXCEPT ![t] = y] /\ ~Issued(t) /\ req' = [req EXCEPT ![r] = x]
        /\ UNCHANGED <<now, session, mark, logged, faults, revoked>>
    BY DEF Exchange, Audit
  <1> HIDE DEF y
  <1>8. /\ RecordsOK'
        /\ Follows(tok', session', mark', tok, session, mark)
    BY <1>6, <1>7, TokenMade
  <1>9. tok'[t].kind = "child"
    BY <1>6, <1>7, RecordFacts DEF RecordTypes
  <1>10. x \in RequestRecord /\ Sound(x, tok', session', mark')
    BY <1>9, AuditSound
  <1> HIDE DEF x
  <1> QED
    BY <1>7, <1>8, <1>10, StepKeeps

\* Changes to sessions, log entries and time that keep the tokens, the
\* marks and the revocations.
LEMMA OthersKept ==
    ASSUME AccessInv, UNCHANGED <<tok, mark, revoked, faults>>,
           session' \subseteq session,
           logged' \subseteq {t \in Token : tok[t].kind = "child"},
           now' \in 0..MaxTime, now <= now'
    PROVE  /\ RecordsOK'
           /\ Follows(tok', session', mark', tok, session, mark)
  <1>1. RecordTypes'
    BY RecordFacts DEF RecordTypes
  <1>2. TokenFacts'
    <2> SUFFICES ASSUME NEW u \in Token
                 PROVE  /\ Issued(u)' => tok'[u].exp <= now' + AccessTTL
                        /\ mark'[u] # 0 => Issued(u)' /\ mark'[u] > tok'[u].exp
                        /\ revoked'[u] # {} => Issued(u)'
                        /\ "session" \in revoked'[u] => u \notin session'
                        /\ "mark" \in revoked'[u] => mark'[u] # 0
      BY DEF TokenFacts
    <2>1. /\ Issued(u) => tok[u].exp <= now + AccessTTL
          /\ mark[u] # 0 => Issued(u) /\ mark[u] > tok[u].exp
          /\ revoked[u] # {} => Issued(u)
          /\ "session" \in revoked[u] => u \notin session
          /\ "mark" \in revoked[u] => mark[u] # 0
      BY RecordFacts DEF TokenFacts
    <2>2. now \in Nat /\ now' \in Nat /\ AccessTTL \in Nat /\ tok[u].exp \in Nat
      BY RecordFacts, TokenAssumption DEF TokenRecord
    <2>3. Issued(u)' <=> Issued(u)
      BY DEF Issued
    <2>4. Issued(u)' => tok'[u].exp <= now' + AccessTTL
      BY <2>1, <2>2, <2>3
    <2> QED
      BY <2>1, <2>3, <2>4
  <1>3. ScopesShrink'
    BY RecordFacts DEF ScopesShrink
  <1>4. Follows(tok', session', mark', tok, session, mark)
    BY DEF Follows
  <1> QED
    BY <1>1, <1>2, <1>3, <1>4 DEF RecordsOK

LEMMA LogTokenExchangeEventStep ==
    ASSUME AccessInv, NEW r \in Request, LogTokenExchangeEvent(r)
    PROVE  AccessInv'
  <1>1. /\ logged' = logged \cup ({req[r].made} \ {None})
        /\ req' = [req EXCEPT ![r] = Free]
        /\ UNCHANGED <<now, tok, session, mark, faults, revoked>>
    BY DEF LogTokenExchangeEvent, End
  <1>2. req[r].made # None => req[r].made \in Token /\ tok[req[r].made].kind = "child"
    BY RequestFacts DEF Sound, RequestRecord
  <1>3. /\ logged' \subseteq {t \in Token : tok[t].kind = "child"}
        /\ session' \subseteq session
        /\ now' \in 0..MaxTime /\ now <= now'
    BY <1>1, <1>2, RecordFacts DEF RecordTypes
  <1>4. /\ RecordsOK'
        /\ Follows(tok', session', mark', tok, session, mark)
    BY <1>1, <1>3, OthersKept
  <1> QED
    BY <1>1, <1>4, FreeSound, StepKeeps

\* Sessions are dropped, or not, by a revocation that leaves x behind.
LEMMA DropStep ==
    ASSUME AccessInv, NEW r \in Request, NEW x \in RequestRecord,
           req' = [req EXCEPT ![r] = x], Sound(x, tok, session', mark),
           session' \subseteq session, faults' \in 0..MaxFaults,
           UNCHANGED <<now, tok, mark, logged, revoked>>
    PROVE  AccessInv'
  <1>1. RecordTypes'
    BY RecordFacts DEF RecordTypes
  <1>2. TokenFacts' /\ ScopesShrink'
    BY RecordFacts DEF TokenFacts, Issued, ScopesShrink
  <1>3. Follows(tok', session', mark', tok, session, mark)
    BY DEF Follows
  <1>4. Sound(x, tok', session', mark')
    BY ONLY Sound(x, tok, session', mark), UNCHANGED <<tok, mark>>
  <1> QED
    BY <1>1, <1>2, <1>3, <1>4, StepKeeps DEF RecordsOK

LEMMA DropSessionStep ==
    ASSUME AccessInv, NEW r \in Request, DropSession(r)
    PROVE  AccessInv'
  <1> DEFINE x == [req[r] EXCEPT !.pc = "put"]
  <1>1. /\ req[r].pc = "session" /\ session' = session \ {req[r].on}
        /\ req' = [req EXCEPT ![r] = x]
        /\ UNCHANGED <<now, tok, mark, logged, faults, revoked>>
    BY DEF DropSession, At, Goto
  <1>2. /\ x \in RequestRecord /\ x.pc = "put" /\ x.op = req[r].op /\ x.on = req[r].on
        /\ x.late = req[r].late /\ x.made = req[r].made
    BY RequestFacts DEF RequestRecord
  <1> HIDE DEF x
  <1>3. Sound(x, tok, session', mark)
    BY <1>1, <1>2, RequestFacts DEF Sound, Working, Checked
  <1>4. session' \subseteq session /\ faults' \in 0..MaxFaults
    BY <1>1, FaultType
  <1> QED
    BY <1>1, <1>2, <1>3, <1>4, DropStep

LEMMA DropSessionMissesStep ==
    ASSUME AccessInv, NEW r \in Request, DropSessionMisses(r)
    PROVE  AccessInv'
  <1>1. /\ req[r].pc = "session" /\ Fault /\ UNCHANGED <<now, records, revoked>>
        /\ req' = [req EXCEPT ![r].pc = "put", ![r].blind = TRUE]
    BY DEF DropSessionMisses, At
  <1>2. req' = [req EXCEPT ![r] = [req[r] EXCEPT !.pc = "put", !.blind = TRUE]]
    BY <1>1, RequestFacts
  <1>3. faults' \in 0..MaxFaults
    BY <1>1, FaultType
  <1> QED
    BY <1>1, <1>2, <1>3, MoveStep DEF Working, Checked

LEMMA DropSessionFailsStep ==
    ASSUME AccessInv, NEW r \in Request, DropSessionFails(r)
    PROVE  AccessInv'
  <1>1. /\ session' \subseteq session /\ req' = [req EXCEPT ![r] = Free] /\ Fault
        /\ UNCHANGED <<now, tok, mark, logged, revoked>>
    BY DEF DropSessionFails, End
  <1> QED
    BY <1>1, FaultType, FreeSound, DropStep

\* The end of a revocation, with a mark or without.
LEMMA RevokedStep ==
    ASSUME AccessInv, NEW r \in Request, req[r].pc = "put", End(r),
           NEW done \in SUBSET {"mark"}, Revoked(r, done),
           mark' \in [Token -> Nat], faults' \in 0..MaxFaults,
           \A t \in Token : t # req[r].on => mark'[t] = mark[t],
           LET t == req[r].on
           IN  \/ mark'[t] = mark[t] /\ done = {}
               \/ mark'[t] = now + RefreshTTL /\ mark'[t] # 0,
           UNCHANGED <<now, tok, session, logged>>
    PROVE  AccessInv'
  <1> DEFINE t == req[r].on
             more == done \cup (IF req[r].blind THEN {} ELSE {"session"})
  <1>1. t \in Token /\ tok[t].kind # "none" /\ (req[r].blind \/ t \notin session)
    BY RequestFacts DEF Sound, Working
  <1>2. now + RefreshTTL > tok[t].exp
    <2>1. tok[t].exp <= now + AccessTTL /\ tok[t].exp \in Nat
      BY <1>1, RecordFacts DEF TokenFacts, Issued, TokenRecord
    <2> QED
      BY <2>1, RecordFacts, TokenAssumption
  <1>3. /\ revoked \in [Token -> SUBSET Deed] /\ more \in SUBSET Deed
        /\ revoked' = [revoked EXCEPT ![t] = @ \cup more]
    <2>1. revoked' = [revoked EXCEPT ![t] = @ \cup done \cup
                         (IF req[r].blind THEN {} ELSE {"session"})]
      BY DEF Revoked
    <2> QED
      BY <1>1, <2>1, RecordFacts DEF RecordTypes, Deed
  <1>4. /\ revoked' \in [Token -> SUBSET Deed] /\ revoked'[t] = revoked[t] \cup more
        /\ \A u \in Token : u # t => revoked'[u] = revoked[u]
    BY <1>1, <1>3
  <1>5. "session" \in more => t \notin session
    BY <1>1
  <1>6. "mark" \in more => mark'[t] # 0
    OBVIOUS
  <1> HIDE DEF more
  <1>7. RecordTypes'
    BY <1>1, <1>4, RecordFacts DEF RecordTypes
  <1>8. TokenFacts'
    <2> SUFFICES ASSUME NEW u \in Token
                 PROVE  /\ Issued(u)' => tok'[u].exp <= now' + AccessTTL
                        /\ mark'[u] # 0 => Issued(u)' /\ mark'[u] > tok'[u].exp
                        /\ revoked'[u] # {} => Issued(u)'
                        /\ "session" \in revoked'[u] => u \notin session'
                        /\ "mark" \in revoked'[u] => mark'[u] # 0
      BY DEF TokenFacts
    <2>1. Issued(u)' <=> Issued(u)
      BY DEF Issued
    <2>2. /\ Issued(u) => tok[u].exp <= now + AccessTTL
          /\ mark[u] # 0 => Issued(u) /\ mark[u] > tok[u].exp
          /\ revoked[u] # {} => Issued(u)
          /\ "session" \in revoked[u] => u \notin session
          /\ "mark" \in revoked[u] => mark[u] # 0
      BY RecordFacts DEF TokenFacts
    <2>3. CASE u = t
      <3>1. Issued(u)
        BY <1>1, <2>3 DEF Issued
      <3>2. mark'[u] # 0 => mark'[u] > tok'[u].exp
        BY <1>2, <2>2, <2>3
      <3>3. mark[u] # 0 => mark'[u] # 0
        BY <2>3
      <3>4. "mark" \in revoked'[u] => mark'[u] # 0
        BY <1>4, <1>6, <2>2, <2>3, <3>3
      <3>5. "session" \in revoked'[u] => u \notin session
        BY <1>4, <1>5, <2>2, <2>3
      <3> QED
        BY <2>1, <2>2, <3>1, <3>2, <3>4, <3>5
    <2>4. CASE u # t
      <3>1. mark'[u] = mark[u] /\ revoked'[u] = revoked[u]
        BY <1>4, <2>4
      <3> QED
        BY <2>1, <2>2, <3>1
    <2> QED
      BY <2>3, <2>4
  <1>9. ScopesShrink'
    BY RecordFacts DEF ScopesShrink
  <1>10. Follows(tok', session', mark', tok, session, mark)
    <2>1. \A u \in Token : mark[u] # 0 => mark'[u] # 0
      OBVIOUS
    <2> QED
      BY <2>1 DEF Follows
  <1> QED
    BY <1>7, <1>8, <1>9, <1>10, FreeSound, StepKeeps DEF RecordsOK, End

LEMMA PutMarkStep ==
    ASSUME AccessInv, NEW r \in Request, PutMark(r)
    PROVE  AccessInv'
  <1> DEFINE t == req[r].on
  <1>1. /\ req[r].pc = "put" /\ End(r) /\ mark' = [mark EXCEPT ![t] = now + RefreshTTL]
        /\ Revoked(r, {"mark"})
        /\ UNCHANGED <<now, tok, session, logged, faults>>
    BY DEF PutMark, At, MarkExpiry
  <1>2. t \in Token
    BY <1>1, RequestFacts DEF Sound, Working
  <1>3. mark \in [Token -> Nat] /\ now + RefreshTTL \in Nat /\ now + RefreshTTL # 0
    BY RecordFacts, TokenAssumption DEF RecordTypes
  <1>4. /\ mark' \in [Token -> Nat] /\ mark'[t] = now + RefreshTTL /\ mark'[t] # 0
        /\ \A u \in Token : u # t => mark'[u] = mark[u]
    BY <1>1, <1>2, <1>3
  <1>5. faults' \in 0..MaxFaults
    BY <1>1, FaultType
  <1> QED
    BY <1>1, <1>4, <1>5, RevokedStep

LEMMA PutMarkFailsStep ==
    ASSUME AccessInv, NEW r \in Request, PutMarkFails(r)
    PROVE  AccessInv'
  <1> DEFINE t == req[r].on
  <1>1. /\ req[r].pc = "put" /\ End(r) /\ Fault
        /\ Revoked(r, {})
        /\ UNCHANGED <<now, tok, session, mark, logged>>
    BY DEF PutMarkFails, At, records
  <1>2. mark' \in [Token -> Nat] /\ faults' \in 0..MaxFaults
    BY <1>1, FaultType, RecordFacts DEF RecordTypes
  <1> QED
    BY <1>1, <1>2, RevokedStep

LEMMA OtherSteps ==
    ASSUME AccessInv, (\E t \in Token : RevokeRefresh(t)) \/ Tick
    PROVE  AccessInv'
  <1>1. UNCHANGED <<tok, mark, logged, req, revoked, faults>> /\ session' \subseteq session
    BY DEF RevokeRefresh, Tick, records
  <1>2. now' \in 0..MaxTime /\ now <= now'
    BY RecordFacts, TokenAssumption DEF RevokeRefresh, Tick, RecordTypes
  <1>3. logged' \subseteq {t \in Token : tok[t].kind = "child"}
    BY <1>1, RecordFacts DEF RecordTypes
  <1>4. RecordsOK' /\ Follows(tok', session', mark', tok, session, mark)
    BY <1>1, <1>2, <1>3, OthersKept
  <1> QED
    BY <1>1, <1>4, RecordStep

-----------------------------------------------------------------------------
(***************************************************************************)
(* The theorems.                                                            *)
(***************************************************************************)
LEMMA InitHolds == Init => AccessInv
  <1> SUFFICES ASSUME Init PROVE AccessInv
    OBVIOUS
  <1>1. \A t \in Token : tok[t] = NoToken /\ mark[t] = 0
    BY DEF Init
  <1>2. NoToken \in TokenRecord /\ NoToken.kind = "none"
        /\ NoToken.scope \subseteq NoToken.base
    BY DEF NoToken, TokenRecord
  <1>3. RecordTypes
    BY <1>2, TokenAssumption DEF Init, RecordTypes
  <1>4. TokenFacts
    BY <1>1, <1>2 DEF Init, TokenFacts, Issued
  <1>5. ScopesShrink
    BY <1>1, <1>2 DEF ScopesShrink
  <1> QED
    BY <1>3, <1>4, <1>5, FreeSound DEF Init, AccessInv, RecordsOK

LEMMA VerifyStep ==
    ASSUME AccessInv, NEW r \in Request, Verify(r)
    PROVE  AccessInv'
  <1>1. CASE Respond(r)
    BY <1>1, EndStep, FaultType DEF Respond
  <1> QED
    BY <1>1, AskFositeStep, CheckMarkStep, CheckMarkFailsStep, IntrospectTokenStep DEF Verify

LEMMA tokenExchangeStep ==
    ASSUME AccessInv, NEW r \in Request, tokenExchange(r)
    PROVE  AccessInv'
  <1>1. CASE ExchangeRefused(r)
    BY <1>1, AuditStep, FaultType DEF ExchangeRefused
  <1>2. CASE ExchangeFails(r)
    BY <1>2, AuditStep, FaultType DEF ExchangeFails
  <1>3. CASE LogTokenExchangeEventFails(r)
    BY <1>3, EndStep, FaultType DEF LogTokenExchangeEventFails
  <1> QED
    BY <1>1, <1>2, <1>3, ExchangeStep, LogTokenExchangeEventStep DEF tokenExchange

LEMMA RevokeStep ==
    ASSUME AccessInv, NEW r \in Request, Revoke(r)
    PROVE  AccessInv'
  BY DropSessionStep, DropSessionMissesStep, DropSessionFailsStep, PutMarkStep, PutMarkFailsStep
     DEF Revoke

LEMMA NextKeeps == AccessInv /\ [Next]_vars => AccessInv'
  <1> SUFFICES ASSUME AccessInv, [Next]_vars PROVE AccessInv'
    OBVIOUS
  <1>1. CASE UNCHANGED vars
    <2>1. /\ RecordsOK'
          /\ Follows(tok', session', mark', tok, session, mark)
      BY <1>1, RecordFacts, OthersKept DEF vars, RecordTypes
    <2> QED
      BY <1>1, <2>1, RecordStep DEF vars
  <1>2. CASE Next
    <2>1. CASE \E t \in Token : RevokeRefresh(t) \/ \E S \in Grants : Issue(t, S)
      BY <2>1, IssueStep, OtherSteps
    <2>2. CASE \E r \in Request, op \in Ops, t \in Token : Arrive(r, op, t)
      BY <2>2, ArriveStep
    <2>3. CASE \E r \in Request : Verify(r) \/ tokenExchange(r) \/ Revoke(r)
      BY <2>3, VerifyStep, tokenExchangeStep, RevokeStep
    <2>4. CASE Tick
      BY <2>4, OtherSteps
    <2> QED
      BY <1>2, <2>1, <2>2, <2>3, <2>4 DEF Next
  <1> QED
    BY <1>1, <1>2

\* The invariant that carries the others: marks outlive tokens, what a finished
\* revocation (Revoke) has done stays done, and every running request is sound with
\* respect to the records as they are now.
THEOREM AccessInvHolds == Spec => []AccessInv
  <1>1. Init => AccessInv
    BY InitHolds
  <1>2. AccessInv /\ [Next]_vars => AccessInv'
    BY NextKeeps
  <1> QED
    BY <1>1, <1>2, PTL DEF Spec

\* The records and requests of VerifyAccessToken, tokenExchange, Introspect and
\* Revoke stay in their types.
THEOREM AccessTypeCorrect == Spec => []TypeOK
  <1>1. AccessInv => TypeOK
    BY DEF AccessInv, RecordsOK, RecordTypes, TokenRecord, RequestRecord, TypeOK
  <1> QED
    BY <1>1, AccessInvHolds, PTL

\* tokenExchange never adds a scope, however long the chain of exchanges and
\* whatever the policies.
THEOREM ChainsShrink == Spec => []ScopesShrink
  <1>1. AccessInv => ScopesShrink
    BY DEF AccessInv, RecordsOK
  <1> QED
    BY <1>1, AccessInvHolds, PTL

\* What a finished Revoke has done to a token counts for every later request: its mark
\* or its dropped session against VerifyAccessToken and tokenExchange, both against
\* Introspect, save for a mark that could not be read.
THEOREM RevokedStayRefused == Spec => []RevokedRefused
  <1>1. AccessInv => RevokedRefused
    <2> SUFFICES ASSUME AccessInv, NEW r \in Request, req[r].pc \in {"accept", "policy"}
                 PROVE  IF req[r].op = "introspect"
                        THEN Against(r) # Deed
                        ELSE /\ "mark" \notin Against(r)
                             /\ tok[req[r].on].kind = "root" => "session" \notin Against(r)
      BY DEF RevokedRefused
    <2>1. Sound(req[r], tok, session, mark)
      BY RequestFacts
    <2> QED
      BY <2>1 DEF Sound, Checked, Against, Deed
  <1> QED
    BY <1>1, AccessInvHolds, PTL
=============================================================================
