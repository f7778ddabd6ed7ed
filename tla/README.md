# MuninID in TLA+

MuninID (`src/`) is an OAuth 2 / OpenID Connect identity provider in Go. One
binary serves HTTP; all lasting state is in PostgreSQL (clients, keys, SAML
service providers, policies, the exchange log) and in valkey (sessions,
interactions, consents, codes, tokens, counters, locks, reset links, revocation
marks). Nothing in the program holds a transaction or a lock across two calls to
a store, with one exception, the mutex of the service token. What makes the
program hard is therefore nearly always the same thing: requests interleave
between any two calls, and any of them may stop there.

These modules model the program at that grain. **Each call to valkey, PostgreSQL
or a remote service is one step**; the Go code between two calls belongs to the
step of the earlier one. Requests of the instance run concurrently, and where
the code drops an error the call has a failing twin (`...Fails`).

## 1. Inventory

| Part (source) | State it keeps | Operations | What is hard | Module |
|---|---|---|---|---|
| Token storage (`internal/fositestore`, `internal/kv`) | code, PKCE, OpenID, access and refresh sessions; a reverse index from the fosite request id to its tokens | create, get, delete, invalidate, rotate, revoke by request id | check and write are separate commands; index and sessions drift apart; several deadlines in one session | `TokenStore` |
| Token endpoint (`internal/idp` `/oauth/token`, `/oauth/revoke`) | none of its own | redeem a code, refresh, client credentials, revoke | two requests with one code or refresh token; replay | `TokenStore` |
| Signed access tokens (`internal/idp`) | revocation marks (valkey), `token_exchange_policies`, `token_exchange_events` | `VerifyAccessToken`, `tokenExchange`, `Introspect`, `Revoke` | a JWT outlives its session; three records read one by one; chains of exchanges | `AccessTokens` |
| Claims of tokens (`BuildClaims`, `newFositeSession`, the claims of `tokenExchange`) | the claims in the fosite session and in each token | build, copy, sign again, exchange, exchange for an actor | copies outlive the account; delegation is carried through chains of exchanges | `TokenClaims` |
| Login and lockout (`FinishLogin`, `recordFailure`) | failure counters and locks per address and per username | check the locks, ask the backend, count, lock, reset | attempts in flight when the lock is set; INCR and EXPIRE are two commands | `LoginGuard` |
| Password reset, forced change (`internal/idp`, `internal/handlers/reset.go`, the WildDuck adapter) | reset tokens, pending changes (valkey) | mail a link, use it, sign in with a flagged password, replace it | read, set, delete are three calls; forms that authenticate nobody | `Recovery` |
| Authorization, consent, sessions (`Authorize` ... `Logout`) | interactions, sessions, consents | authorize, login page, consent page, confirm, issue a code, log out | tabs of one browser; copies of a request kept ten minutes | `Consent` |
| Client administration (`internal/handlers/admin.go`, `self.go`, `internal/authz/claims.go`) | `oidc_clients` | create, read, list, update, rotate the secret, delete on three sets of routes | decision on a copy, write by key; whole-row updates | `ClientAdmin` |
| External authorizer (`internal/authz/solutrix.go`) | decision cache, service token, its mutex | `Authorize`, `Scope`, `tokenSource.get` | stale answers; a mutex held across an HTTP call; clocks | `Authorizer` |
| SAML service providers and policies (`internal/handlers/admin.go`, `internal/store`) | two tables | create, update, delete | overlapping whole-row updates; trimming | `AdminRecords` |
| Signing keys (`loadSigningKey`, JWKS, `internal/secret`) | `jwt_rsa256_keys`, one key in memory, key ids in sessions and tokens | start, read, decrypt, generate, insert, sign | several processes start on one table; crash in between; rows sealed with another secret | `SigningKeys` |
| Scope helpers, trusted hosts, middleware that tells callers apart | none | operators on sets | | inside `Consent`, `AccessTokens`, `ClientAdmin` |
| Mail; GUI and OpenAPI; configuration; routing; migrations; deployment | none that changes | | | not modelled, section 7 |

How the parts meet. A browser reaches `Authorize` first; `Consent` ends with the
issue of a code, which is where `TokenStore` begins (`NewAuthorizeResponse`).
`TokenStore` ends with the delivery of tokens, which is where `AccessTokens`
begins (`Issue`). The login page that `Consent` passes through is opened by
`LoginGuard` (may this attempt ask the backend) and `Recovery` (a flagged
password ends in the forced change). `ClientAdmin` narrows or removes the clients
that `Consent` reads (`NarrowClient`), and asks the claims authorizer, in the
same process, or `Authorizer`, over HTTP. `SigningKeys` provides the key that
every token of `AccessTokens` is signed with, `TokenClaims` what it says. A code, a
refresh token and a reset link make the same promise, `OneTimeGrant`, which
`TokenStore` and `Recovery` implement. The parts share stores but no
variables: each module keeps the records its own handlers write and represents
what the others do by an action of its environment, named above.

What makes each part correct:

* token storage: a grant pays out once, a revocation kills what the index can find,
  tokens leave the index by an overlap only, and nothing else kills a token;
* access tokens: what a finished revocation has done counts for every later reader of
  it, a chain of exchanges never adds a scope;
* claims: a token speaks of one account at one moment, and names who really acted;
* lockout: the number of guesses is bounded, and a lock ends;
* recovery: a mailed link and a sign-in act for their own person, a forced change for an
  account whose flagged password was accepted there, and a link works once;
* consent: no code without the consent of its user, and none after logout;
* client administration: tenants are isolated, deleted means deleted, and the secret
  that was handed out stays in force but for a stale update;
* authorizer: answers are recent, its token is alive, and everybody is answered;
* records: no row without an endpoint, and deleted means deleted;
* keys: every running process signs with the key that the next start finds, and
  every token can be read with the published key that its header names.

`PROJECT.json` lists the hazards line by line with the properties that watch them.

## 2. The modules

Each component module declares its parameters as CONSTANTS with a named ASSUME,
its state, one action per step of a handler, `Next`, `Spec`, and its properties
at the end. `MC<Module>` gives TLC the small sets and the symmetry; the
`.cfg` files of the same name give the bounds. Operators named `Mutant: ...` in
their comment are wrong variants of the definition after them: they show that a
property notices the error, and are used by nothing. History variables (marked in
the declarations) are written and never read by the actions.

**TokenStore.** `code`, `pkce`, `oidc`, `tok`, `idx` are the valkey keys with
their deadlines, `denied` the revocation marks, and `req` the requests with the
program counter of their handler. Tokens are named by the request that minted
them. `RedeemGetCode`, `GetPKCERequestSession`, ... `DeleteOpenIDConnectSession`
are the calls fosite makes for a code; `RefreshGet`, `RefreshGetAgain`,
`RotateRefreshToken` those for a refresh token; `putPersisted` and `SAddIndex` are
the two commands of `put`; `RevokeLookup`, `RevokeList`, `RevokeDrop`,
`DenyJTI` are a revocation. `Fail` stops a request between two commands: a kv
error, a cancelled context, a crash. fosite itself is a library: the order of its
calls is taken from how the store is used by it. `overtaken` and `lost` (history) are
the tokens whose index was given a shorter life than theirs, and the living tokens
that went from the index undeleted.

`Promise` at the end maps this state to `OneTimeGrant`: a code is issued once it is
stored, a refresh token once the request that minted it has answered, and both are
closed once they have paid.

**OneTimeGrant.** The abstract specification: grants are issued, presented, paid and
closed; whoever presents a closed grant is late and is never paid. Overlapping
users of one grant may all be paid, which is what the stores really allow.

**AccessTokens.** `tok` holds the signed claims, `session` fosite's sessions,
`mark` the marks of `Revoke`. `AskFosite` is where `Introspect` begins: a live session
is an answer, anything else is left to the mark. `CheckMark` is the check of expiry and
mark in `VerifyAccessToken` and `legacyIntrospect`, `IntrospectToken` the session lookup
after it, `Exchange` and `ExchangeRefused` the decision of `tokenExchange`, for which any
of the policies may be enabled when they are queried, `LogTokenExchangeEvent` its deferred
audit row (the rows of success are kept), `DropSession` and `PutMark` the two halves of
`Revoke`. `CheckMarkFails`, `PutMarkFails`, `LogTokenExchangeEventFails` are the calls
whose error the code drops; in `DropSessionMisses` fosite's index has lost the token
(`lost` in `TokenStore`), and its session stays without an error. `revoked` (history) says
which of its two deeds the finished revocations of a token have done.

**TokenClaims.** `account` is what the backend holds, `session` the claims copied at
the login, `tok` the claims of each token with `act` and `may_act`.
`newFositeSession` copies, `NewAccessResponse` signs the copy again,
`populateClientTokenSession` has no person, `ExchangeAlone` and `ExchangeForActor`
make a token of a token. When a token may be issued is left to `TokenStore` and
`AccessTokens`.

**LoginGuard.** For one username: `fail` and `lock` are the keys of
`IncrTTL` and of the lock, with the remaining life of each, so no clock needs a
bound. `CheckLocked`, `Incr`, `Expire`, `SetLock`, `ResetLoginFailures` are the calls
of one attempt, for the address and then for the username. `guesses[k][i]` is the
number of wrong credentials sent within the last `i` ticks (history).

**Recovery.** `art` are the artifacts that name a user: a reset token
or a pending change. `FindByLogin` ... `SendPasswordReset` is `BeginPasswordReset`,
with the addresses that an account offers (`RecoveryDestinations`) compared as
hashes (`destinationMatches`); `ResetSubmit` and `ChangePassword` present a link or
an interaction, `GetArtifact` ... `startSession` use it; `Authenticate` ...
`PutPending` is the sign-in that leads to a forced change. The id of an interaction is
a bearer id: the handlers of both forms check no cookie and no browser, so in the model
anybody posts to any interaction. `proved` (history) are the interactions at which the
flagged password of an account was accepted, which is all that a forced change can be
held to (`OnlyEntitled`).

**Consent.** `session`, `page`, `consent` are the three kinds of artifact,
`cookie` and `shown` what browsers hold. Requests carry the cookie they were
sent with. A request is `Authorize`, the login page and `RedirectAfterLogin`,
`ConfirmConsent`, or `Logout`; the actions follow their reads and writes.
`trustedFirstPartyClient` goes by the hosts of the redirect and post-logout URIs and the
configured domains, `allowedScopes` by the scopes the client has now.

**ClientAdmin.** `row` is `oidc_clients`. A caller is a route (global, tenant,
self) with the claims that its middleware leaves in the context; each handler of
`admin.go` and of `self.go` is an action that starts a request (`updateClient`,
`selfUpdateClient`, ...). `Permitted`, `InScope`, `MayCreate` are the decisions of
the handlers and of `claims.go`. Reading (`GetClientByID`), deciding (`Decide`) and
writing (`UpdateClient`, `DeleteClient`) are three steps. A creation or a rotation may
take effect and lose its answer (`CreateClient`, `Tell`); `GetFails` is a read with an
error that the routes of `admin.go` do not look at, so that they go on with an empty
client. `told` (history) is the secret that the caller of the last creation or rotation
of a row was told, if it was, and `stale` the updates that read the row before a rotation
and have not written yet. The error of `EncryptSecret` that the handlers drop is left
out because it cannot occur: the key is a SHA-256 sum, 32 bytes, and the random
source of Go does not fail.

**Authorizer.** `cache` is the decision cache, `token` the service token with its
real and its believed expiry, `holder` the mutex of `tokenSource`. Time passes only
during calls and waits. `truth` is what the decision point would answer now.

**AdminRecords.** `row` are both tables. The update reads (`Get...`), lays the
request over the copy (`update...`) and writes (`Update...`). Values are trimmed: a
body of blanks is `Blank`, a field it does not name `Absent`.

**SigningKeys.** `rows`, `sealed` and `invalid` are the table: when a row was made,
with which secret it is sealed, whether `isInvalid` is set. `proc` are the processes
between start and end, each with the secret of its environment. `ActiveKeys` (which
decrypts and parses the newest valid row), `GenerateKey`, `InsertKey` are the steps
of `loadSigningKey`; `InsertLost` is an insert whose answer is lost, `Crash` ends a
process; `ImportKey` and `Invalidate` are the rows of the predecessor and what an
operator does by hand. `session` and `tok` carry the key id: `newFositeSession`
puts it into the session of a login, `NewAccessResponse` signs with the key of the
process and names that of the session, `signJWT` names its own.

**Proofs.** `TokenStoreProofs`, `AccessTokensProofs`, `LoginGuardProofs`,
`RecoveryProofs`, `ConsentProofs`, `ClientAdminProofs`, `AdminRecordsProofs` and
`SigningKeysProofs` each extend the module of their name (section 6). Two extend a
second module as well and have a second part about it: `SigningKeysProofs` extends
`Authorizer`, `AdminRecordsProofs` extends `TokenClaims`. That is why these two call
their specifications `AuthorizerSpec` and `ClaimsSpec`, the names `Spec`, `Init` and
`TypeOK` being those of the other component, and why their constants are `Question`
and `Nil`. The two parts of such a module share no variable and no assumption.

## 3. The runs

| Run | Checks | Instance |
|---|---|---|
| `tokens` | `SpentGrantRejected`, `RevocationKillsFindable`, `LossNeedsOverlap`, `TokenKept`, `GrantsOnce` (refinement) | one family, three overlapping requests of any kind, the access token lives one tick, code and refresh token two, stop after any command |
| `access` | `RevokedRefused`, `ScopesShrink` | three tokens, one from fosite and a chain of up to two exchanges, two requests of any kind, a policy that narrows and one above it that requires an actor, exchanges that ask for less and, with an actor token, for what the chain has lost; tokens count in their second of issue, marks one second longer; one failed call or lost index entry |
| `claims` | `OneAccount`, `DelegationKept` | two users with a login each, two forms of an account (several roles; one role, another customer, not active) between which either may change, four tokens |
| `lockout` | `GuessesBounded`, `LockEnds` (liveness) | two attempts from one address on one username, thresholds 2 and 3, keys live two ticks, one error or cancelled request |
| `lockout_counter` | `CounterExpires`, **violated** | the same |
| `recovery` | `OnlyEntitled`, `LinksOnce` (refinement) | two persons of whom one has a recovery address, one link, one login interaction, two requests, one dropped error or lost answer |
| `recovery_reuse` | `ResetTokenUsedOnce`, **violated** | the same without errors |
| `consent` | `CodeApproved`, `CodeWithinClient`, `PromptHonoured`, `LogoutEndsSession` | two users of one browser, two sessions, one interaction, two requests, one untrusted client that asks for one scope with `prompt=consent` or for two without |
| `clients` | `AnswerScoped`, `ReturnedSecretStored`, `TenantIsolation`, `Lifetime` | two tenants, two rows, two secrets, two requests of every kind of caller, any answer lost |
| `authorizer` | `AnswerRecent`, `TokenAlive`, `Answered` (liveness) | two handlers with one question, cache 2, timeout 1, margin 2, token 4, six time units |
| `records` | `EndpointsKept` | two service providers, one policy, two requests |
| `keys` | `KeysAgree`, `TokensReadable` | three processes, one with another secret; two generated keys and one that no parser takes; one login, one token |

Every passing run also checks the type invariant of its module (`AuthorizerTypeOK` and
`ClaimsTypeOK` in `authorizer` and `claims`, `TypeOK` elsewhere). `TypeOK` of
`AdminRecords` says more than types: a row exists exactly when it was inserted and not
deleted.

**Why these bounds.** Every hazard listed is between two requests, or between a request
and time or a failure; two concurrent requests show it. `tokens` has three, because the
replay of a code meets a redemption and a refresh of its family. `RefreshTTL >
AccessTTL` in both token instances, so that one key expires while the other lives. In
`tokens` the code outlives the access token, so that a redemption may start later than
another request of its family and still index first. In `access` only the order of the
two lifetimes matters, the boundary `exp < now` is met after one tick, and one token of
fosite is enough because two of them share no record. In `claims` four tokens give a
chain of three exchanges, or two with an actor's token of the other user. In `lockout`
the thresholds differ so that the address locks first. In `authorizer` `MaxTime` exceeds
the life of a token plus a call, so it is renewed, and two cache periods pass. In `keys`
two processes share a secret and may overlap, the third finds rows it cannot open. Ids
are random in the code and are used once in the models. `CHECK_DEADLOCK FALSE` stands
where an instance runs out of ids, requests or time. Symmetry is declared on sets whose
elements nothing tells apart, and in no run with a liveness property.

**What the instances leave out.** `access` has no exchange without scopes (it takes
those of the subject token), one token of fosite, and no chain of more than two
exchanges that succeed (`ChainsShrink` and `RevokedStayRefused` are proved for all of
them); `consent` has no trusted client (the theorems of `ConsentProofs` cover them);
`recovery` has no address outside the contact address of an account (the theorems cover
the profile's); `tokens` has one family (revocations go by request id, so families only
share the clock); `lockout` has one username (keys of different names never meet, an
address counter excepted, to which other names only add).

**What the properties say.** `RevokedRefused` says for each reader which deed of a
finished revocation is enough: for `VerifyAccessToken`, and with it for an exchange, the
mark, or of a token with a session the session; for `Introspect` both. A read of the mark
that failed counts as no mark. `ScopesShrink` compares a token with everything before it
in its chain. `OnlyEntitled` gives a link and a sign-in to their person, and a
forced change to whoever posts the interaction, but for an account whose flagged password
was accepted there. `ReturnedSecretStored` holds from the answer of a creation or rotation
until a stale update writes. `RevocationKillsFindable` exempts `lost`, and
`LossNeedsOverlap` says how a token gets there.

## 4. What was found

Two runs end in a violation, each of a sentence in the repository:

* `lockout_counter`: "The failure counter expires after lockFor"
  (`internal/store/store.go:613`). `IncrTTL` sends EXPIRE only after the INCR that
  returned 1, as a second command. If that one is not executed, the counter never
  expires, no later call repairs it, and once the threshold is reached every
  single failure locks the account again.
* `recovery_reuse`: "stores a single-use token" (`internal/idp/provider.go:509`),
  "can only be used once" (`mailer.go:56`). Two overlapping submissions of one link
  both set a password. After the delete has happened no submission does
  (`LinksOnce`).

Observed while modelling, without a run, because the models state the behaviour as
it is and exempt it by name:

* A token indexed between SMEMBERS and DEL of a revocation survives it
  (`lost` in `TokenStore`, exempted in `RevocationKillsFindable`; `LossesNeedOverlap`
  proves that nothing else escapes the index but by a request that began earlier and
  indexes its token later).
* An index entry that was shortened by a late SADD with an older deadline is gone before
  its token is (`overtaken`): a revocation answers 200 and the refresh token goes on.
* A read of a revocation mark that fails counts as "not revoked". For a token with a
  fosite session the session check still refuses it in `VerifyAccessToken`; for an
  exchanged token and for introspection nothing does (`Against` in `AccessTokens`).
* Introspection takes a live session for an answer and reads the mark only without one
  (`internal/idp/provider.go:1155`). A token whose revocation missed the session is
  introspected as active although it is marked; and one whose grant was revoked through
  its refresh token, which has no session and no mark, until it expires.
* An update of a client that overlaps a rotation of its secret restores the old
  secret (`stale` in `ClientAdmin`). A rotation that takes effect while its answer is
  lost leaves a secret in force that nobody was told.
* A read of a client that fails with another error than "not found" is answered by the
  global route with 200 and an empty client (`GetFails`).
* The form of a forced password change, as that of a login, asks for the id of the
  interaction only; no cookie ties it to a browser (`internal/handlers/auth.go:97`).
* A token with no `customer_id` on the tenant routes is filtered by nothing.
* `CompletePasswordReset` does not look at the account again: one that was disabled
  after the mail was sent still gets its password and a session.
* The consent page of one session can be confirmed with another session of the same
  browser, and one interaction can be confirmed several times.
* After a rotation of the signing key a refreshed token names the old key in its
  header, because the id comes from the session of the login. `TokensReadable`
  exempts rotations.
* `act` keeps the first actor through later exchanges without one, and an actor token
  of a client satisfies a policy that requires an actor without being named.
* Claims are as old as the login: a refresh does not ask the backend again.
* The decision cache of the external authorizer never shrinks: entries are replaced,
  not removed (`internal/authz/solutrix.go:231`).
* The insert of an audit event is dropped with its error, whereas `src/README.md:276`
  speaks of every successful or failed attempt.
* A failure of the external authorizer is answered with 500 and not logged;
  `docs/authz-contract.md:118` says deny and log.
* An update can leave `entity_id`, `binding`, `name` and `target_type` blank, which
  a create refuses; blanks under `acs_endpoints` are taken for no endpoints at all.
* Two processes that start on an empty key table keep two keys, and neither
  accepts what the other signs.

## 5. Fairness

Only two specifications need it.

* `LoginGuard`: `WF(Tick)`. Time does not stop. Nothing is assumed of attempts:
  one that hangs for ever may not keep a lock alive, and does not.
* `Authorizer`: `WF(Step(r))` for each handler, because it runs on a goroutine of
  its own and its HTTP client gives up after 5 s, and `SF(get(r))`, because a Go
  mutex in starvation mode goes to the waiter that has waited longest, so a handler
  that finds the mutex free again and again gets it in the end.

## 6. Proofs

TLAPS proves, for any number of requests and any values of the constants that
satisfy the assumptions named:

| Module | Theorems | From |
|---|---|---|
| `TokenStoreProofs` | `TypeCorrect`: `[]TypeOK`; `SpentGrantsStaySpent`: `[]SpentGrantRejected`; `StoreInvInvariant`; `RevocationsKill`: `[]RevocationKillsFindable`; `TokensAreKept`: `[]TokenKept`; `TokensLiveOnce`; `LossesNeedOverlap`: `LossNeedsOverlap`; `StoreKeepsPromise`: `GrantsOnce`, the refinement of `OneTimeGrant` | `TTLAssumption`, `NameAssumption` |
| `AccessTokensProofs` | `AccessTypeCorrect`: `[]TypeOK`; `ChainsShrink`: `[]ScopesShrink`; `RevokedStayRefused`: `[]RevokedRefused` | `TokenAssumption`, of which `RefreshTTL > AccessTTL` carries `RevokedStayRefused` |
| `LoginGuardProofs` | `GuardTypeCorrect`: `[]TypeOK`; `LockoutBounds`: `[]GuessesBounded`; `LocksRunOut`; `CountersExpireUnlessFault` | `GuardAssumption`: finitely many attempts, thresholds above 1 (5 and 20 in the code) |
| `RecoveryProofs` | `RecoveryTypeCorrect`: `[]TypeOK`; `EntitledOnly`: `[]OnlyEntitled`; `LinksKeepPromise`: `LinksOnce`, the refinement of `OneTimeGrant`; `LateLinksRefused`; `UsedLinksAreDeleted` | `RecoveryAssumption` |
| `ConsentProofs` | `ConsentTypeCorrect`: `[]TypeOK`; `CodesAreApproved`: `[]CodeApproved`; `PromptsAreHonoured`: `[]PromptHonoured`; `CodesStayWithinClient`: `[]CodeWithinClient`; `LogoutIsFinal`: `[]LogoutEndsSession` | `ConsentAssumption` |
| `ClientAdminProofs` | `AdminTypeCorrect`, `AnswersAreScoped`: `[]AnswerScoped`; `TenantsAreIsolated`: `TenantIsolation`; `ClientsKeepOwners`: `Lifetime`; `ReturnedSecretsStay`: `[]ReturnedSecretStored` | `AdminAssumption` |
| `AdminRecordsProofs` | `RecordsTypeCorrect`: `[]TypeOK`; `ProvidersKeepEndpoints`: `[]EndpointsKept` | `RecordsAssumption` |
| `SigningKeysProofs` | `KeysTypeCorrect`: `[]TypeOK`; `RunningKeysAgree`: `[]KeysAgree`; `TokensStayReadable`: `[]TokensReadable` | `KeyAssumption`, `ShapeAssumption` |
| `AdminRecordsProofs`, second part | `ClaimsTypeCorrect`: `[]ClaimsTypeOK`; `TokensSayOneAccount`: `[]OneAccount`; `DelegationsKept`: `[]DelegationKept` | `ClaimsAssumption` |
| `SigningKeysProofs`, second part | `RemoteTypeCorrect`: `[]AuthorizerTypeOK`; `AnswersStayRecent`: `[]AnswerRecent`; `TokensArriveAlive`: `[]TokenAlive` | `AuthorizerAssumption`, of which `Margin >= 2 * Timeout` carries the last |

The argument in each:

* **TokenStore, `GrantInv`.** `SpentGrantRejected` says nothing of requests under way.
  `GrantInv` adds which handler a request at a program point can be in (`Coherent`),
  that a redemption past its write has left the code spent (`CodeSpent`), and that a
  paid refresh has deleted the token it presented, whose minter is over, so that its
  key is never written again (`RefreshSpent`). Late requests then find nothing.
* **TokenStore, `StoreInv`.** A revocation works through the reverse index, in two legs
  and from a list it read earlier. `IndexOK`: the index lists only tokens whose keys
  have been written for good, and lives as long as they do, or they are counted as
  `lost`. `DoomOK`: what a revocation without an error has to kill is dead for good,
  or lost, or still listed while the leg that deletes it is ahead. Both hold because a
  step of one request, and the passing of time, drop nothing from the index except by
  deleting it or counting it as lost (`StepKeepsStoreInv`). `KeptOK`: the key of a token
  is as its request wrote it unless somebody removed it.
* **TokenStore, `TokensLiveOnce`**, an action property: a token is not accepted before
  its SET, whose place in the handler no request comes back to (`Born`), and from then
  on nothing makes it accepted again. It needs no more than that the key of an unborn
  token is not set (`Unborn`); a step writes at most the key it is about to mint, or
  deletes (`LivesOn`), time only ends lives, and denials are not taken back.
* **TokenStore, `LossesNeedOverlap`**, about the exemption of `RevocationKillsFindable`: a
  token becomes `lost` only by another request of its family that overlaps its own. One
  that began earlier and indexes later shortens the life of the index (`Overtaken`), or
  a revocation deletes the index with a token that its list does not have (`Missed`).
  `OwnKey`, that a key waiting to be indexed outlives no deadline of its own request,
  rules out that a request loses its own token.
* **TokenStore implements OneTimeGrant.** `Sourced` adds that a redemption is of a
  code that was issued. Every step of a request is shown to be invisible to the
  promise (`GoesOn`, `Unseen`), or a presentation, a payment, a leave or an issue of
  it; time and other requests change nothing the promise sees.
* **AccessTokens, `AccessInv`.** `TokenFacts`: a mark outlives its token, and what a
  finished revocation has done stays done, the session gone and the mark set. `Sound`
  says what each running request knows: a revocation that did not miss the session has
  removed it before it marks; a request that found the token marked on arrival is past
  the check only with a failed read of the mark, or as an introspection that a
  session answered. `Follows` is how records may change under it: issued tokens stay as
  they are and get no session back, and marks are not taken back. Every step is shown to
  keep the records in order and to be followed, so that the requests that did not move
  stay sound (`SoundKept`). `ScopesShrink` is inductive: a new token's history is that of
  its subject and the subject itself.
* **LoginGuard, `GuardInv`.** `GuessesBounded` looks at the guesses only. For each key the
  invariant balances them against what is under way: `Due`, the attempts that have
  guessed and not been counted (or counted as the one that locks, and not locked yet),
  and `Past`, those that have passed the check and not guessed yet. Guesses older
  than the lock are limited by the threshold and the counter, those of the counter's
  own window by its count alone, and while a lock stands the guesses and `Past`
  together stay under the bound (`Room`). An attempt passes from one set to the next,
  and a failure the counter misses is paid for by a fault (`Balance`). `Due` and `Past`
  are counted, so the attempts must be finitely many.
* **LoginGuard, `LocksRunOut`**, the safety core of the liveness property `LockEnds`, as an
  action property: while a key is locked, the attempts that can still lock it
  (`Lockers`) become no more, and each renewal of the lock takes one away. Attempts are
  finitely many, so with time a lock ends; that conclusion itself stays with TLC.
* **LoginGuard, `CountersExpireUnlessFault`**, what is true of `CounterExpires`: while no
  call has failed, a counter without a deadline has an attempt that is about to give it
  one (`Expires`), also when a reset or an expiry comes in between.
* **Recovery, `RecoveryInv`.** `OnlyEntitled` speaks of requests that act; it holds because
  a link names the person it was mailed to and a pending change somebody whose flagged
  password was accepted at its interaction (`Owned`), and because every request between
  two calls knows for whom it acts (`Knows`). Links never change whom they name, and mail
  and accepted passwords are not taken back (`Follows`).
* **Recovery implements OneTimeGrant, `LinkInv`.** A link that is spent is gone from the
  store and stays so (`SpentGone`); a late request is one that has not read yet and
  meets a spent link, and whoever is about to delete a link has set a password with it
  (`UseOK`). Each action presents, pays, closes or leaves a link, or is hidden from the
  promise, as every step about a forced change is (`HiddenStep`). Two theorems say what
  is true of `ResetTokenUsedOnce`: a submission that comes after the delete gets no
  further than the look for the link (`LateLinksRefused`), and while no call has failed
  a used link is deleted or about to be (`UsedOK`, `UsedLinksAreDeleted`). A second
  use therefore overlaps the first, or a call has failed.
* **Consent, `ConsentInv`.** `StoresOK`: a stored grant was approved, an interaction
  keeps the prompt it was asked with, an ended session is gone and stays gone
  because ids are used once. `Knows` and `Follows` as above: approvals grow, scopes of
  clients shrink, ended sessions are not opened again.
* **ClientAdmin, `AdminInv` and `SecretInv`.** The same pattern: what a request knows of
  the row it copied (its owner, while the row exists) stays true because no row changes
  hands and no key is used twice. `SecretInv` adds that the copies which updates hold,
  the stale ones excepted, have the secret that was told last, which is why writing one
  back does no harm; when a stale one is written, nobody counts as told.
* **AdminRecords, `RecordsInv`.** An update writes back what it has read, so the copies
  must have an endpoint as well (`CopiesKept`).
* **SigningKeys, `KeyInv`.** A key that is about to be inserted has no row and one
  process has it; a start that found no valid row is alone in that (`FirstAlone`);
  keys in use, and those that sessions and tokens name, have rows that are valid
  until one is invalidated; and one valid row at most exists until the history says
  otherwise. Creation times come from the cardinality of a finite set.
* **TokenClaims, `ClaimsInv`.** `OneAccount` and `DelegationKept` relate each token to its
  history, and a new token is made from a session or from other tokens. The invariant
  adds that a session is a copy of its owner's account at the login and that a token
  has a root only after it; the copy is made once, so nobody's root changes.
* **Authorizer, `RemoteInv`.** A service token is signed while its fetch runs, so the
  client believes in it at most one timeout too long (`Trusted`); a call that starts
  with `Margin` left, or right after a fetch, is given up before its token expires. An
  answer is dated by the time since which the decision point may have changed its
  mind (`Since`), and each place it passes, the reply, the cache, the handler, adds
  its own delay (`Knows`, `Kept`).

Every invariant and action property that a passing run checks, and both refinements, are
thus theorems. Only model-checked are the two liveness properties, `LockEnds` (of which
`LocksRunOut` is the part that can be proved) and `Answered`. Out of the prover's reach
and left to TLC: liveness under fairness, ENABLED, induction over data, and anything
with a RECURSIVE operator (no module has one). `CounterExpires` and `ResetTokenUsedOnce`
are false (section 4); `CountersExpireUnlessFault`, `LateLinksRefused` and
`UsedLinksAreDeleted` say how far they are true.

## 7. Not modelled

* The paths of `/oauth/token` without fosite (`tokenAuthorizationCode`,
  `tokenRefresh`, `issueTokenResponse`) and the branch of `finishAuthorization` that
  feeds them: the application always configures fosite.
* Client assertion JWTs of fosite's store.
* The splitting of scope and audience strings. The modules use the sets they compute
  (`allowedScopes`, `scopeSubset`, `policyAllowsScopes`).
* Cryptography (ciphers, signatures, hashes: which secret opens which key is in
  `SigningKeys`), message formats (mail, HTML, OpenAPI), configuration, routing,
  migrations, deployment: no state of their own.
* Reads that change nothing and feed no decision (lists of records, discovery).
* The SAML runtime, which the repository does not have yet.

## 8. Plan

Done: the ten component modules with their instances, `OneTimeGrant` and its two
refinements, and the proofs of section 6. Each invariant, action property and
refinement of a passing run is a theorem, and each of the two violated sentences has
theorems beside it that say how far it is true.

Left, most important first:

1. A composition of `TokenStore` and `AccessTokens` over one set of marks and sessions,
   so that a revocation through the refresh token is seen by `VerifyAccessToken`.
2. The paths of `/oauth/token` without fosite, should an installation ever use them.
3. Liveness of redemption, refresh and revocation when nothing fails, with TLC.
