------------------------------ MODULE SigningKeys ------------------------------
(***************************************************************************)
(* The RSA key every token is signed with (internal/idp, loadSigningKey).   *)
(* A process takes the newest valid row of jwt_rsa256_keys when it starts,  *)
(* or stores a row of its own when there is none; it keeps that key until   *)
(* it ends.  Several processes may start, end and start again.  The private *)
(* half of a row is sealed with the secret of the process that stored it    *)
(* (internal/secret); rows of the predecessor, or put in by hand, may be    *)
(* sealed with another secret or not at all, and come in several shapes.    *)
(*                                                                         *)
(* The id of the key goes into the header of the tokens in two ways: from   *)
(* the process that signs (clients, exchanges), or from the session of the  *)
(* login, where it was put by the process that issued the code.             *)
(***************************************************************************)
EXTENDS Integers, FiniteSets

CONSTANTS
    Process,
    Key,      \* key pairs, random and generated once
    Grant,    \* logins that end with a code
    Token,    \* signed tokens
    SecretOf, \* SecretOf[p]: the IDP_SECRET_ENCRYPTION_KEY of process p
    Shape,    \* Shape[k]: how the private half of k is written down; "other" when
              \* no parser takes it
    None

Secrets == {SecretOf[p] : p \in Process}

ASSUME KeyAssumption == None \notin Key /\ None \notin Secrets
ASSUME ShapeAssumption == Shape \in [Key -> {"pkcs1", "pkcs8", "jwk", "other"}]

VARIABLES
    rows,       \* rows[k]: when the row of key k was created; 0 without a row
    sealed,     \* sealed[k]: the secret the row of k is sealed with; None in plain text
    invalid,    \* keys whose row has isInvalid set
    proc,       \* proc[p]: where process p is in its life, and its key
    generated,  \* keys generated so far, here or by the predecessor
    session,    \* session[g]: the key id in the fosite session of grant g, or None
    tok,        \* tok[t]: the key id in the header of t and the key that signed it
    contested,  \* history: two starts found no valid row at once, or a row was put
                \* in by hand beside a valid one or during such a start
    rotated     \* history: a row was invalidated

table == <<rows, sealed, invalid>>
issued == <<session, tok>>
history == <<contested, rotated>>
vars == <<table, proc, generated, issued, history>>

Down == [pc |-> "down", key |-> None]
Unsigned == [kid |-> None, key |-> None]

Init ==
    /\ rows = [k \in Key |-> 0]
    /\ sealed = [k \in Key |-> None]
    /\ invalid = {}
    /\ proc = [p \in Process |-> Down]
    /\ generated = {}
    /\ session = [g \in Grant |-> None]
    /\ tok = [t \in Token |-> Unsigned]
    /\ contested = FALSE
    /\ rotated = FALSE

Stored == {k \in Key : rows[k] > 0}
Active == Stored \ invalid
Newest(k) == k \in Active /\ \A j \in Active : rows[j] <= rows[k]
\* Has found no valid row and not yet stored one.
First(p) == proc[p].pc \in {"generate", "insert"}
Goto(p, pc, k) == proc' = [proc EXCEPT ![p] = [pc |-> pc, key |-> k]]

Start(p) ==
    /\ proc[p].pc = "down"
    /\ Goto(p, "load", None)
    /\ UNCHANGED <<table, generated, issued, history>>

\* The secret that a row of p is sealed with.
Encrypt(p) == SecretOf[p]

\* What is not sealed is taken as it is; what is needs the secret it was sealed with.
Decrypt(p, k) == sealed[k] \in {None, SecretOf[p]}

\* A PEM block in one of two encodings, or else a JSON web key; RSA in each case.
parseRSAPrivateKeyDER(k) == Shape[k] \in {"pkcs1", "pkcs8"}
parseRSAJWKPrivateKey(k) == Shape[k] = "jwk"
parseRSAPrivateKey(k) == parseRSAPrivateKeyDER(k) \/ parseRSAJWKPrivateKey(k)
Readable(p, k) == Decrypt(p, k) /\ parseRSAPrivateKey(k)

\* Mutant: a start on an empty table goes on without a key.
StartWithout(p) ==
    /\ proc[p].pc = "load"
    /\ \/ \E k \in Key : Newest(k) /\ Readable(p, k) /\ Goto(p, "up", k)
       \/ (Active = {} \/ \E k \in Key : Newest(k) /\ ~Readable(p, k)) /\ Goto(p, "up", None)
    /\ UNCHANGED <<table, generated, issued, history>>

\* Mutant: a row that cannot be read is taken for no row, and a key generated.
RegenerateUnreadable(p) ==
    /\ proc[p].pc = "load"
    /\ \/ /\ \E k \in Key : Newest(k) /\ Readable(p, k) /\ Goto(p, "up", k)
          /\ UNCHANGED contested
       \/ /\ \A k \in Key : Newest(k) => ~Readable(p, k)
          /\ Goto(p, "generate", None)
          /\ contested' = (contested \/ \E q \in Process : First(q))
    /\ UNCHANGED <<table, generated, issued, rotated>>

\* keys[0] of ActiveKeys, decrypted and parsed.  A row that cannot be read ends the
\* start: no older row is tried, and none is stored in its place.
ActiveKeys(p) ==
    /\ proc[p].pc = "load"
    /\ \/ /\ \E k \in Key :
                /\ Newest(k)
                /\ IF Readable(p, k) THEN Goto(p, "up", k) ELSE Goto(p, "down", None)
          /\ UNCHANGED contested
       \/ /\ Active = {} /\ Goto(p, "generate", None)
          /\ contested' = (contested \/ \E q \in Process : First(q))
    /\ UNCHANGED <<table, generated, issued, rotated>>

GenerateKey(p) ==
    /\ proc[p].pc = "generate"
    /\ \E k \in Key \ generated :
          /\ Shape[k] = "pkcs1"
          /\ generated' = generated \cup {k}
          /\ Goto(p, "insert", k)
    /\ UNCHANGED <<table, issued, history>>

\* Creation times grow with the number of rows, none of which is ever deleted.
AddRow(k, secret) ==
    /\ rows' = [rows EXCEPT ![k] = Cardinality(Stored) + 1]
    /\ sealed' = [sealed EXCEPT ![k] = secret]
    /\ UNCHANGED invalid

\* Mutant: the error of the insert is dropped and the key used nevertheless.
InsertDropped(p) ==
    /\ proc[p].pc = "insert"
    /\ Goto(p, "up", proc[p].key)
    /\ \/ AddRow(proc[p].key, Encrypt(p))
       \/ UNCHANGED table
    /\ UNCHANGED <<generated, issued, history>>

\* The private half is encrypted with the secret of the process.
InsertKey(p) ==
    /\ proc[p].pc = "insert"
    /\ AddRow(proc[p].key, Encrypt(p))
    /\ Goto(p, "up", proc[p].key)
    /\ UNCHANGED <<generated, issued, history>>

\* The insert is committed and its answer lost: the start fails.
InsertLost(p) ==
    /\ proc[p].pc = "insert"
    /\ AddRow(proc[p].key, Encrypt(p))
    /\ proc' = [proc EXCEPT ![p] = Down]
    /\ UNCHANGED <<generated, issued, history>>

\* A row of the predecessor, or of an administrator: any shape, sealed or not.
ImportKey(k, secret) ==
    /\ k \notin generated
    /\ generated' = generated \cup {k}
    /\ AddRow(k, secret)
    /\ contested' = (contested \/ Active # {} \/ \E q \in Process : First(q))
    /\ UNCHANGED <<proc, issued, rotated>>

\* An error of any call of the start, or a crash; the container starts again.
Crash(p) ==
    /\ proc[p].pc # "down"
    /\ proc' = [proc EXCEPT ![p] = Down]
    /\ UNCHANGED <<table, generated, issued, history>>

\* isInvalid is set by hand, in SQL.
Invalidate(k) ==
    /\ k \in Active
    /\ invalid' = invalid \cup {k}
    /\ rotated' = TRUE
    /\ UNCHANGED <<rows, sealed, proc, generated, issued, contested>>

-----------------------------------------------------------------------------
(***************************************************************************)
(* Signing, by a process that is up.                                        *)
(***************************************************************************)
Sign(p, t, kid) ==
    /\ proc[p].pc = "up" /\ tok[t] = Unsigned
    /\ tok' = [tok EXCEPT ![t] = [kid |-> kid, key |-> proc[p].key]]
    /\ UNCHANGED <<table, proc, generated, session, history>>

\* A code is issued; its session carries the headers of all tokens to come.
newFositeSession(p, g) ==
    /\ proc[p].pc = "up" /\ session[g] = None
    /\ session' = [session EXCEPT ![g] = proc[p].key]
    /\ UNCHANGED <<table, proc, generated, tok, history>>

\* A code is redeemed or a refresh token used: fosite signs with the key of the
\* process that answers and takes the header of the stored session.
NewAccessResponse(p, g, t) == session[g] # None /\ Sign(p, t, session[g])

\* client_credentials and token exchange: header and key of the same process.
signJWT(p, t) == Sign(p, t, proc[p].key)

\* The id in the header is not looked at.
verifyJWT(p, t) == proc[p].pc = "up" /\ tok[t].key = proc[p].key

Next ==
    \/ \E p \in Process : \/ Start(p) \/ ActiveKeys(p) \/ GenerateKey(p)
                          \/ InsertKey(p) \/ InsertLost(p) \/ Crash(p)
                          \/ \E g \in Grant : newFositeSession(p, g)
                          \/ \E g \in Grant, t \in Token : NewAccessResponse(p, g, t)
                          \/ \E t \in Token : signJWT(p, t)
    \/ \E k \in Key : \/ Invalidate(k)
                       \/ \E secret \in Secrets \cup {None} : ImportKey(k, secret)

Spec == Init /\ [][Next]_vars

-----------------------------------------------------------------------------
\* What the JWKS document of a process publishes, and what it verifies with.
Published(p) == {proc[p].key} \ {None}

\* Rows, processes, tokens and history keep their types; only generated keys are
\* stored, and a process that serves has a key.
TypeOK ==
    /\ rows \in [Key -> Nat]
    /\ sealed \in [Key -> Secrets \cup {None}]
    /\ invalid \subseteq Stored
    /\ Stored \subseteq generated /\ generated \subseteq Key
    /\ proc \in [Process -> [pc : {"down", "load", "generate", "insert", "up"},
                             key : Key \cup {None}]]
    /\ \A p \in Process : proc[p].key = None <=> proc[p].pc \in {"down", "load", "generate"}
    /\ session \in [Grant -> Key \cup {None}]
    /\ tok \in [Token -> [kid : Key, key : Key] \cup {Unsigned}]
    /\ contested \in BOOLEAN /\ rotated \in BOOLEAN

\* A token signed before a restart is verified after it: a running process signs
\* with a key that has a row, and the next start finds that very row (loadSigningKey).
\* A process with the wrong secret, or a row it cannot read, does not change the key
\* of the others.  Exempt are tables where a row was invalidated, two first starts
\* overlapped, or a row was put in beside a valid one.
KeysAgree ==
    \A p \in Process : proc[p].pc = "up" =>
        /\ Published(p) \subseteq Stored
        /\ contested \/ rotated \/ Newest(proc[p].key)

\* Whoever reads a token with the published keys finds its key by the id in the
\* header, and every process that is up verifies it, although the id comes from a
\* session that outlives the process that wrote it (newFositeSession, verifyJWT):
\* with the exemptions of KeysAgree.
TokensReadable ==
    \A t \in Token : tok[t] = Unsigned \/ contested \/ rotated \/
        /\ tok[t].kid = tok[t].key
        /\ \A p \in Process : proc[p].pc = "up" => verifyJWT(p, t)
=============================================================================
