# A formal model of gosso

gosso is a self-hosted OAuth 2.0 / OpenID Connect server in Go over PostgreSQL and
Redis. Almost all of its protocol state (tokens, sessions, codes, consent pages, marks,
locks) lives in Redis keys with TTLs, is shared by all replicas, and is changed by
handlers that make several round trips each. What can go wrong is therefore rarely in one
function: it is in the order in which the steps of several requests reach Redis, in keys
that expire between two steps, and in steps that fail or never happen. These modules
describe exactly that: one action per round trip or Lua script, any number of requests
interleaved, with a clock, lost replies and crashes.

## 1. Inventory

| Part | State it keeps | Operations | Hard behaviour | What makes it correct |
|---|---|---|---|---|
| Refresh tokens (`internal/token/service`, `auth_session.go`, `oauth2_token.go`) | `refresh_token:`, `refresh_token_replay:`, `session_tokens:`, `account_revoked_after:`, `auth_refresh_lock:` | generate, validate, rotate with replay, revoke by token, session, account | two handlers, only one of them locks; the lock expires and is deleted by whoever had it; the reply of the rotation script is lost and the client retries | a token has one successor; a family has one live token; what is revoked stays dead |
| Access tokens and blacklist (`internal/token/service`) | `blacklist:token:`, `account_revoked_after:`; the JWT itself | issue, issue short-lived, validate, revoke one, revoke an account's | keys must outlive tokens that are stored nowhere; clock leeway; slow requests; revocations that arrive out of order | a revoked token is never accepted |
| Sessions (`internal/session/service`, `auth_session_token.go`, `auth_login_helpers.go`, `oauth2_token.go`) | `session:`, `account_sessions:`, a local cache with its sweeper | create with eviction, validate, refresh, update, delete, revoke, revoke all, list | read-modify-write over several commands; index and key have TTLs of their own; every multi-step deletion can stop half-way; code exchanges issue tokens for sessions they do not look at | deleted sessions do not come back; no revoked session keeps its tokens; the index covers what is accepted; the limit holds |
| Authorization codes (`auth_code_service.go`, `oauth2_token.go`) | `auth_code:` | generate, exchange | several exchanges of one code; comparison after deletion; failures after it | a one-time grant; a misused code is burned |
| Consent (`consent_service.go`, `oauth2_authorize.go`) | `consent_state:`, `consent:`, table `oauth2_consents` | authorize, submit, revoke, account clean-up | database and cache are written in two steps; pages of other accounts and sessions; the client changes meanwhile | no scope without consent; the cache follows the database |
| Device codes (`device_code_service.go`, `oauth2_device.go`) | `device_code:`, `user_code:`, `device_code:poll:` | request, approve, deny, poll, claim | polls rewrite the record users decide on; the handler goes by a status read earlier | decisions are final; a one-time grant |
| Login and MFA login (`auth_login.go`, `auth_login_helpers.go`, `auth_lockout.go`) | MFA tokens, `webauthn:mfa_verified:`, attempt counters per user, account and IP | login by password, MFA code, passkey flag or passkey; clear lockouts | validate, verify and blacklist are separate steps; a login takes two requests between which the account changes; counters at their limit | a session needs the second factor of its own account; a proof works once; guesses are bounded |
| Second factors (`mfa_service.go`, `passkey_service.go`, `webauthn_repository_impl.go`) | TOTP secrets, backup codes, passkeys in the database; challenges in Redis | enrol, activate, disable, generate codes, register, delete, verify | enrolments overlap logins and each other; challenges are not bound to the MFA token | as above |
| Passwords (`password_reset_service.go`, `account_service_manage.go`) | credentials and status; reset tokens and cooldowns in Redis; a semaphore of background revocations | request and use a reset link, change, suspend, activate, update a profile, shut down | the token is deleted after the change; the revocation runs in a goroutine that a shutdown cancels; the current password is verified twice | a used link is dead; a change replaces the password that was proved; older sessions are revoked |
| Identities (`verification_service.go`, `social_login_service.go`, `auth_profile.go`, `account_service*.go`) | addresses, federated identities, accounts; codes and cooldowns in Redis | register, send and use codes, change an address, log in through a provider, delete an account | check and write of one transaction are apart under READ COMMITTED, only unique indexes decide; codes are consumed before they are compared | an address is verified only if proved; a provider's login enters only an account that it made or that has proved the address |
| Privileges (`auth_service.go`, `auth_middleware.go`, `admin_controller.go`, `oauth2_token.go`, `oauth2_device.go`, `cmd/gosso/web_modules.go`) | roles and status in the database; role cache in Redis, claims in tokens, the validator's cache per process | token build, OAuth2 grants, admin operations, IsAccountActive | four copies of what the database says, each filled by slow requests after it was invalidated | a role, an account that is gone and a cached verdict run out within a stated time |
| Clients (`internal/oauth2`) | tables | register, change, delete | optimistic locking | a consent never exceeds what the client may ask for |
| OIDC (`internal/oidc`) | none of its own | ID token, userinfo, logout | logout over sessions and tokens | logout ends what it says |
| Audit (`internal/audit`) | a bounded queue | log, flush, stop | back-pressure and shutdown | nothing accepted is lost |
| Redis client, database helpers, middleware, configuration, notification, observability | - | - | - | the environment of the models |

Handlers call services; services call each other through interfaces: a login creates a
session and then a refresh token that names it; a refresh validates token, session and
account, in this order, before it rotates; revoking a session first asks the token service
to revoke the session's tokens; a change of password, a suspension and a deletion end with
`RevokeAllForAccount` of the session service; a login through a provider ends where a
login by password does; the token endpoint and both authorize handlers ask the account
validator. `PROJECT.json` lists every component with its status, and under `hazards` the
places in the code that are hard to test, with the property that watches each.

## 2. Modules

Common conventions. Every Redis command, Lua script or database transaction is one action,
together with the local computation that follows it (Identities, whose subject is how
transactions overlap, splits them into reads and commit). A key is a record with the second in
which it ends; nothing deletes an expired key, it just is not seen. A *call* is the
goroutine of a request: a record with a program counter `pc` named after the next round
trip, and the locals that live across it. Requests that are refused before they write
anything are left out (they change nothing). `Faults` chooses what may go wrong: `"redis"`
lets a command report an error, whether or not it was executed; `"crash"` lets a request
end anywhere. Variables marked *history* record what happened so that properties can speak
of it; no guard of the code's actions reads them (the bounds apart).

**TokenFamily** is what rotation promises: families with one current token, begun, rotated
and ended. **RefreshTokens** is the implementation. `rt`, `replay`, `sessTok`, `revAfter`
and `lock` are the five kinds of keys; `req` holds the requests of both kinds, `"auth"`
(`AuthService.RefreshTokens`, with the lock, the session and the account) and `"oauth"`
(`handleRefreshTokenGrant`, without a lock). `Consume` is `rotateTokenScript`,
`RotateReplyLost` its execution without an answer, `ReplayGet` to `ReplayValidateRevocation`
the retry that finds the successor. `AcquireLock`, `LockTimeout` and `Unlock` are
`withRefreshTokenLock`, whose deferred DEL removes the key no matter whose it is.

**AccessTokens**: claims in `tok`, the blacklist in `black`, account marks in `mark`;
validations (`Parse`, then `Check`) and account revocations (`RevokeAccountTokens` reads the
clock, `SetAccountRevokedAfter` runs the script) are calls of two steps each. A validation
is *doomed* if its token was revoked before it began.

**Sessions**: `sess` and `idx` are the keys, `cache` the local cache with the bytes and the
shared object kept apart, `sweep` the cache cleaner between its Range and its Delete.
Calls are logins (`CreateSession`, `EnforceSessionLimit`, tokens, `UpdateSession`, clean-up),
code exchanges (`AuthorizationCodeGrant`), bearer validations, refreshes,
`forceExpireSession`, `RevokeSession` and `Logout`, `RevokeAllForAccount` and
`ListSessionsByAccount`. `tokens` and `late` stand for the token service: the sessions that
have live refresh tokens, whose correctness is RefreshTokens'. A login and a code exchange
issue a token without looking whether the session is still there; `late` are the sessions
whose tokens came when a deletion of the session had begun or was over. A later
revocation takes them away too, but nothing makes it happen. `unlisted` are the sessions
whose index ran out while their own login or refresh was under way.

**OneTimeGrant** is what a grant promises: agreed to once, taken at most once, paid out at
most once and on the terms agreed to; void for ever otherwise. **AuthCodes** and
**DeviceCodes** both implement it. DeviceCodes has the clock, because the end of the key,
`ExpiresAt`, the rounding of TTL and the poll interval matter to it. `RestTTL` and
`ClaimedTTL` are what the scripts do with the TTL that is left when they write a code back,
down to its last millisecond.

**Consents** is the way from `GET /oauth2/authorize` to the terms of a code, for one client
whose scopes may change at any time: consent rows, their cache with the tombstone, the
consent states, and the pages that were shown. **AuthCodes** extends it to the whole way
from the page to the token response. The last step of a request of Consents, `GenerateCode`,
is there joined with what it calls: `StoreCode` writes the code with the terms, account and
scopes, that the request has `Agreed` on, `StoreCodeFails` is the write that reports an
error. `exch` are the requests at the token endpoint, from `ValidateCode` to `IssueTokens`;
client, redirect URI and PKCE are one Boolean, `match`, since the code treats all mismatches
alike. `receipt` records the terms of the tokens that were given.

**SecondFactors** keeps TOTP secrets, backup codes, passkeys and challenges; its operators
are the operations of `MFAService` and `PasskeyService`. An enrolment is a *setup*: secret
drawn, saved, code verified, activated, each a step of its own. **Logins** extends it with
the four ways to log in. `token` are MFA tokens, `flag` the key by which `MFAComplete`
tells `MFAVerify` that a passkey was verified, `count` the counters, `req` the requests: a
login by password is `LoginByUsernamePassword` to `handleMFARequirement`, and from there
either `createSessionAndTokens` or an MFA token; `VerifyMFALogin` and
`CompleteMFALogin` present one. Enrolments, removals, suspensions and the clearing of
lockouts happen in between, up to `MaxEvents`. A session is a record of how it was opened.

**Passwords**: `password` is a number per account that every change replaces, `sess` and
`access` the sessions and their access tokens, `token`, `cooldown` and `limited` keys, `job`
the slots of `revokeSem`, `life` the server from running over draining and waiting to down.
Requests are logins, `RequestReset`, `VerifyAndReset`, `ChangePassword`,
`AdminChangePassword`, `SuspendAccount`, `ActivateAccount` and `UpdateProfile`.
`RevokeAllForAccount` is here one step with its three ways of failing, of which one, the
index gone and the keys not, leaves *orphans*.

**Identities**: `mail` and `fed` are the rows under the two unique indexes, `code` and
`cooldown` the keys of the verification service. Each transaction is two actions, reads and
commit; the commit fails on a unique index that was taken in between. `fetchUserInfo` is
what a provider may say: any address, vouched for or not. Whom an identity may enter is
`MadeOrProved`: the account that its login made, or one that has proved an address which the
provider gave for it. The code asks no more, and less than its comments say; see
`social_links` below.

**Privileges** has a clock and the four copies: `rcache` (roles), `tok` and `devtok` (claims
of tokens with and without a session), `sess` (sessions), `vcache` with its `cacheSize` and
`lastCleanup` (the validator). A token build of the first party is `CreateSession` or
`CheckAccount`, `RoleCacheGet`, `FetchRoles`, `RoleCacheSet`, `IssueToken`. An OAuth2 grant
goes through the validator, `IsAccountActive` to `CacheStore`, and then reads roles and
permissions from the database, in two queries, and issues a token with them: for the code
and refresh grants a token that names the session, for the device grant one that names
none and that no revocation of sessions touches. The admin operations are `AddRole`,
`RemoveRole`, `DisableAccount`, `EnableAccount` and `DeleteAccount`, each behind `Admitted`,
the middleware, which accepts tokens for a leeway after they expire. This is where accounts,
sessions, tokens and the middleware are put together. Clients are those that may ask for the
admin scope, so that a token's scope is as good as its roles.

How the modules fit: Logins extends SecondFactors and AuthCodes extends Consents, step for
step; apart from that each models the others' parts by what they promise. Logins opens
sessions whose keeping is Sessions'; Sessions calls a token service that is RefreshTokens;
Passwords, Identities and Privileges call `RevokeAllForAccount`, whose steps are in
Sessions: it revokes the sessions of the account, or fails before, after or half-way. What
needs the clock of Sessions, an index that has run out on a session, they leave out.

The `MC*` modules only declare model values and the symmetry sets. `*Proofs` hold theorems.
In the modules, a definition whose name extends another's (`ConsumeUnchecked` next to
`Consume`) is a deliberately wrong variant that a property must catch; nothing else uses it.

### What is abstract
* Randomness: tokens, session IDs, codes and consent IDs are fresh, never guessed.
* Hashing, JSON and JWT signing: a value stands for its hash and its encoding. Where an
  encoding loses something it is modelled: seconds in JWT timestamps and in the account
  mark, text order of `last_active_at`, the cached bytes of a session.
* `IsAccountActive` may answer either way in the handlers of codes; Privileges models it.
* Logins, Passwords and Identities have no clock: a key may expire, a window end and a code
  run out at any moment, which allows everything a clock would.
* Requests come from one IP address, phone numbers are addresses, TOTP codes are right or
  wrong, and a code that was verified is not remembered, by the code or by the model.
* Clock: the seconds of all replicas agree. Redis keys exist up to the end of the second
  they expire in.

## 3. Runs

| Run | Checks | Bounds, and why they suffice |
|---|---|---|
| `refresh_rotation` | TypeOK, SingleSuccessor, OneLivePerFamily, IndexCoversLiveTokens, RevokedFamiliesStayDead, RotationAgreement, ImplementsTokenFamily | 2 requests, 3 tokens, one family, a clock of 2 s with RefreshTTL 2 and all shorter TTLs 1: two requests race, one token of the chain is left for a retry, locks, replay records, marks and the tokens expire. All of them are also proved for all sizes. |
| `refresh_liveness` | EveryRequestAnswered | 2 requests, one of which may die with the lock |
| `access_revocation` | RevokedNeverAccepted | one token of either kind, one validation, two account revocations that overtake each other, a clock beyond every expiry plus buffer; proved for all sizes |
| `sessions_faults` | NoResurrection, NoOrphanTokens | one session of one account, its entry in the local cache, two calls of any kind that may take a second (keys live for one, so they run out under a call), errors and crashes everywhere, both settings of `indexFailClosed`. A second session or account adds no race to properties of one session; a list with two entries to clean up occurs only in wider instances. Proved for all sizes. |
| `sessions_reliable` | IndexCoversSessions, SessionLimit, DeletionRevokesTokens, RevokeAllComplete | two sessions of one account at a limit of one, two calls that may take a second, so that index and keys run out under them; no local cache, which `sessions_faults` has. No errors and crashes: with them all four are false (see Observations; a failed eviction is only logged). Proved for all sizes, durations of requests and sizes of the cache, without faults. |
| `device_codes` | DecisionIsFinal, ImplementsOneTimeGrant | one code, two clients, two users, three calls (two polls and a submission, or two submissions and a poll), faults; Expiry 2, clock to 4, so that codes expire while being claimed and keys outlive `ExpiresAt`. Proved for all sizes. |
| `auth_codes` | TokensConsented, ScopesConsented, MisusedCodeIsBurned, ImplementsOneTimeGrant | two accounts, two scopes, two pages and two authorization requests that race (the second may also go by the consent of the first, or be another account's), two codes, two exchanges that race for one or take one each, faults. Proved for all sizes. |
| `logins` | SecondFactorProven, ProofsUsedOnce, GuessesBounded, DeadTokensStayDead, NoLoginWhileSuspended | two accounts (crossing of factors and challenges), two requests at once and three in all: a login by password that yields an MFA token and two that race with it; one of each factor, one event from elsewhere, an enrolment that overlaps; limits of 2 per user and 3 per IP, both reached, and 3 per account for MFA codes, so that two codes can race (it takes more requests to reach that one; the proof covers it); faults. Proved for all sizes and limits. |
| `passwords` | SpentTokenIsDead, ResetsBounded, ChangeProvesCurrent, RevokedBeforeAnswer, ResetRevokes | one account, one session from before, two links, one slot of the semaphore, so that the second reset revokes synchronously; two requests at once and three in all, two attempts per link, one shutdown, errors everywhere. Proved for all sizes, except ResetRevokes, which is liveness. |
| `identities` | VerifiedMeansProved, CodesUsedOnce, EntersProvedAccounts, DeletedNotEntered, IdentityKept | two of everything, two requests at once and three in all (send, then two that race for the code; register, then two that race for the address), one attempt per code. Proved for all sizes. |
| `privileges` | RoleRunsOut, SuspensionRunsOut, ValidatorLags | two accounts, one of which acts on the other, two requests at once and three in all, a clock of 5 with TTLs of 1 and 2, a leeway of 1 and requests that take up to a second; a cache of one entry, so that it is full. All three bounds are met exactly: with one second less TLC finds a counterexample. Proved for all sizes and lifetimes. |
| `social_links` | LinksVouchedAddress, which is violated | one of everything: the first step a provider's login takes is enough |

`social_links` states what the comments of `createNewUser` and `linkByEmailIfVerified` say
(`social_login_service.go:372-374` and `:511-512`): an identity is linked to an existing
account through an address that its provider has verified. The code links through any
address the provider gives (`:389-393`), also where it reports it as not verified, as it
always does for GitHub (`:330`); what must be verified is the credential of the account.
`EntersProvedAccounts` is what the code does guarantee.

Deadlock checking is off where every resource of the instance is finite and may be used up
(requests served once, tokens, codes, authorization requests); it is on for sessions and
device codes, whose calls are reused.

Every module states a type invariant. All are proved; most runs leave them out in favour of
what can go wrong.

Fairness. `refresh_liveness` and `passwords` use weak fairness of `Step(r)` for each
request, i.e. a goroutine whose next step is possible eventually takes it: Go's scheduler
and the timeouts of the Redis client give that. `passwords` adds the same for the
background revocations (goroutines with a timeout of their own), for `Wait`, which the
shutdown calls when the requests are drained, and for `WaitReturns`, which has a timer.
Crashes, revocations, expiry, shutdowns, the clock and the arrival of requests are not
fair. A request that waits for a lock is answered because `withRefreshTokenLock` gives up at
its deadline, not because the lock is released; the sessions from before a reset go because
the goroutine runs, or are accounted for as *lost* because it failed or was cut off.

`RequestTimeout` in Sessions, AccessTokens and Privileges is the server's
`TimeoutMiddleware`: the context of a request, and with it its Redis commands and queries,
end at that time. The clock does not advance past it while a request is under way.

### Observations

Not properties of the runs, since the code does not have them; each was seen as a
counterexample or while the lines were translated.

* Account mark: `RevokeAccountTokens` gives its mark max(2 x access expiry, 5 minutes).
  Refresh tokens live for days, so one issued before the revocation validates again when
  the mark is gone, unless its session was revoked as well; the comment at
  `token_service_validate.go:106` says it is rejected.
* Retry of `RevokeAllForAccount`: the index is removed in the first script. If deleting the
  session keys then fails, the caller's retry finds an empty index and succeeds, while the
  session is still accepted. `RevokeAllComplete` with Redis errors shows it in one call and
  a retry.
* Index expiry: `ValidateSession` extends the session key, not the index; the EXPIRE that
  follows the write of `RefreshSession` or `UpdateSession` comes too late for an index that
  expired during the request, although it is there "to prevent it from expiring before the
  session" (`session_service.go:260`, `:342`). Nothing lists the session again: it is
  accepted but unknown to listing, the limit and `RevokeAllForAccount`, which "revokes all
  sessions and tokens for the given account" (`session_service_manage.go:62`).
  `IndexCoversSessions` and `RevokeAllComplete` except these sessions (`unlisted`) and no
  others; without the exception TLC refutes both.
* Code exchange after logout: `handleAuthorizationCodeGrant` issues a refresh token for the
  session that authorized the code (`oauth2_token.go:208`) and does not look whether it is
  still there. A code that was given out before the session was revoked, or while
  `RevokeSession` is between the tokens and the key, yields a refresh token of a deleted
  session, and the OAuth2 refresh grant rotates it. `session_service_manage.go:29` revokes
  the tokens first to prevent "orphaned tokens that could still be rotated after session
  deletion". `NoOrphanTokens` and `DeletionRevokesTokens` are about the tokens that were
  there when the deletion began; with `late` counted among `tokens` TLC refutes both.
* Tokens of the device grant name no session: suspending or deleting an account leaves them
  valid until they expire. `SuspensionRunsOut` bounds it, with the verdict that the account
  validator may still have cached when a grant asks.
* Consent cache: a `DeleteConsent` between the two writes of `SaveConsent`, or the
  write-back of a `GetConsent` that missed, leaves the cache with a consent that the
  database does not have, for up to 90 days; `consent_service.go:28` calls the database the
  source of truth.
* Role cache: a token build that read the roles earlier writes them back after `RemoveRole`
  has deleted the key. RoleRunsOut bounds it by two requests, the TTL of the cache and that
  of a token; the comment at the invalidation says that the next token build fetches fresh
  data.
* `UpdateAccount` re-reads `updated_at` in its own transaction and compares it with itself,
  so its optimistic lock never fails; it writes the status the caller read, and so can undo
  a suspension that came between.
* `ResetMFA` says that it removes passkeys, and soft-deletes rows of type webauthn in
  `account_credentials`; passkeys are rows of `webauthn_credentials` and stay.
* `AssignRole` checks the account inside its transaction "to prevent TOCTOU", but without a
  lock under READ COMMITTED: a deletion may commit between the check and the write. The
  role of a deleted account admits nobody.
* The cooldowns of reset and verification mails are read and written in two commands:
  requests under way together each send a mail. A code whose mail fails is rolled back with
  a DEL that may remove a newer code. Each attempt at a reset link renews the TTL of its
  token.
* A token of the same second as an account revocation survives it (`<` on seconds).
* `cacheSize` drifts in the session cache (`RefreshSession` deletes without counting, the
  sweeper counts entries that are gone) and in the validator (two requests that find one
  expired entry, and lookups that both see room): the size may pass its bound by the number
  of concurrent requests, or caching be given up early.
* `RefreshSession` changes the cached object before its write is known to succeed.
* `RevokeConsent` of the admin API insists on a UUID as client ID, `generateClientID`
  makes 48 hexadecimal digits: for such clients `DeleteConsent` is not reachable over HTTP.
* `checkAndUpdatePollRateScript` calls `os.date`, and scripts re-encode `scopes` with
  cjson, which writes an empty array as an object. Both depend on the Redis server and were
  modelled as written; they deserve a test against a real one.
* A script that writes a device code back in the last millisecond of its key (PTTL 0) writes
  it without a TTL. The record then stays in Redis until a claim gives it one; `ExpiresAt`
  still ends its use.
* Two `GenerateBackupCodes` at once may leave both sets of codes live: under READ COMMITTED
  the second does not see the rows that the first inserts while it waits. The code of one
  TOTP enrolment may activate the secret of a later one, which `ActivateTOTP` finds
  afterwards.
* Nothing relates `mfa_verification_ttl` to the access-token expiry; see
  `ShortLivedAssumption` below.

## 4. Proofs

All constants are arbitrary, subject to the named assumptions, which TLC evaluates in the
runs of the same modules.

Each proof follows the same lines: an invariant, `Inv` (`IInv` for refresh tokens, `AInv`
and `PInv` for access tokens and passwords, `ConsentsInv` for consents), that TLC checked on
the instances of section 3 before it was proved; one lemma per action, or per group of
actions that change the same parts, which says that the step keeps it; and the theorems,
which read the properties off it. An action property needs in addition a lemma about one
step from a state that satisfies `Inv`, and a refinement one that maps each action to an
action of the abstract specification or to a stutter.

**RefreshTokensProofs** (`TTLAssumption`: TTLs are positive; `NoValueAssumption`). Theorems
`TypeCorrect`, `RotatedOnce`, `OneUsableToken`, `RotationSafe`, `IndexComplete`,
`RevocationComplete` and `TokensAreFamilies`. The properties are not inductive:
`IInv` adds `StoreInv` (a consumed token's key is gone for good, tokens not yet issued have
no key and no ancestor, a replay record names the successor of the token it is stored
under, a family stays with one session, no key outlives now + RefreshTTL) and `RequestInv`
(the token that a request is going to answer with is the successor of the token it was
given). With them, the rotation script's test of the old key implies that the token has no
successor yet. Steps of requests that do not touch the stores share one lemma. The
refinement takes the live token of a family for its current one: logins and exchanges begin
families, the rotation script, answered or not, rotates one, revocation and the clock end
them, and everything that locks and replay records do is a stutter.

**RevocationProofs** holds the proofs about AccessTokens and Passwords. For AccessTokens
(`DurationAssumption`: leeway + request timeout <= buffer, and twice that <=
MinAccountRevocationTTL; `ShortLivedAssumption`: short-lived tokens do not outlive the mark)
the theorems are `AccessTypeCorrect` and `RevocationEffective`. `AInv` relates expiry times:
a token's exp + grace is covered by a mark set after its iat; a revoked token is in the
blacklist or too old for any validation; the latest revocation answered is covered by a
mark or too old; a doomed validation that is still running is one that the check will
reject. The ratchet in the script is what makes the mark's part inductive.

For Passwords (`PasswordsAssumption`: at least one attempt per link, finitely many requests
at once, which is what the counting needs) they are `PasswordsTypeCorrect`,
`SpentTokensStayDead`, `ResetsStayBounded`, `ChangesProveCurrent` and
`RevocationBeforeAnswer`, for any number of accounts, sessions, links and slots of the
semaphore, with or without errors. None of the four properties is inductive. `PInv` has

* `Tokens` and `Requests`: a spent link is deleted, stays so, and is in the hands only of
  requests that began before;
* `Budget`: the passwords a link has set, plus the requests that passed its counter and may
  still set one, are at most the attempts counted. The bound on passwords set alone says
  nothing about requests under way: the counter stops at the limit *before* the password is
  written;
* `Before`: what a change is about to revoke are sessions of its own account, which stay its
  own whatever logins come between;
* `Revocations`: a session whose key is left but which no index lists is on the list of a
  background revocation, or was lost by a failure. With `Before` it gives the exception in
  `RevokedBeforeAnswer`, and shows that there is no other.

**AuthCodesProofs** holds the proofs about Consents and AuthCodes (`NamesAssumption` and
`CodeAssumption`: no account is `NoAccount`, there are pages and codes; `ConfigAssumption`).

`ConsentsTypeCorrect` and `OnlyApprovedScopes` are about the authorize endpoint alone.
`ScopesConsented` speaks of codes being generated; `ConsentsInv` extends it to everything
scopes are drawn from: `StoresConsented` (rows and cache hold at most what the account
approved) and `CallsConsented` (so do the locals of each request, by its step). That rows and
cache disagree, which they may, does no harm: the invariant bounds each, not one by the
other. A consent that was revoked stays *approved* in this sense; see Observations for how
long it may be used.

`CodesUseConsents`, Spec => ConsentsSpec, is what makes AuthCodes a composition: its steps are
steps of Consents or leave it alone. `CodesTypeCorrect`, `MisuseBurns`, `OnlyApprovedTokens`
and `CodesAreOneTimeGrants` are about the whole. `Inv` adds to `ConsentsInv` `Ownership` (what
an exchange holds is a deleted code, with the terms it was stored with, held by no other
exchange, not paid out and not misused), `Bookkeeping` (the histories agree with the codes)
and `CodesConsented` (the terms of a code are approved by its account), which carries the
consent from the page over the stored code to the tokens. The refinement maps each action to
Agree, Take, HandOut or Void of `OneTimeGrant`, or to a stutter; `StageFrame` says that an
exchange leaves the stages of other codes alone.

**SessionsProofs** (`ConfigAssumption`, `NamesAssumption`: finitely many sessions and
calls). `SessionsTypeCorrect`, `GoneForGood` and `RevokedHaveNoTokens` hold whatever fails.
`DeletedHaveNoTokens`, `LimitHolds`, `IndexIsComplete` and `RevokesAll` have the hypothesis
`Reliable`, no faults, which is how the run checks them; it cannot be dropped, TLC refutes
all four with Redis errors alone and with crashes alone. None has a hypothesis about the
duration of requests. `Inv` says of each call, by its step, what it may rely on (`CallOK`):
the session it is about was created, the keys it has deleted stay gone, the tokens it had
to revoke are revoked, and a login has not issued tokens yet. No two logins are about one
session (`LoginInv`). A code exchange cannot spoil what a call has revoked: from the moment
a session is on the list of a call, or gone, `GenerateRefreshToken` counts its tokens as
`late`. `OrphanInv`: a deleted session with tokens is on the list of a call that will revoke
them. `LimitInv` counts members against the logins still to evict, which needs that
eviction is one script. `IndexInv` is about time: a session that exists, is not `unlisted`
and is not being deleted is `Covered`, its index outlives it or the call that has written it
is about to extend the index, or it is `Idle`, past its idle time with no call left that
could write it, so that it is never accepted again. The exception must be made when the
index runs out, not when the session is written: a session whose index runs out with no
call under way was never going to be accepted again. `CacheInv` says that where the cache is
ahead of Redis, its `RefreshSession` is still to write; without it a validation from the
cache could extend a session past its index.

**DeviceCodesProofs** (`ConfigAssumption`, `NamesAssumption`). Theorems
`DeviceCodesTypeCorrect`, `DecisionsAreFinal`, `DeviceCodesAreOneTimeGrants`. As for
authorization codes: `Ownership` (a poll that is about to issue tokens holds a used code, for
the account that approved, not paid out and held by no other poll) and `Bookkeeping` (what
pages were shown agrees with the status that follows from it). A decision is final because
the scripts of approval and claim compare the status they replace, and a poll's script
writes the status it has read in the same step. What these scripts do to the TTL matters to
it only in that a code they write back is still there (`RestIs`).

**LoginsProofs** (`FactorsAssumption`: backup codes and challenges are different;
`LoginsAssumption`: positive limits, finitely many requests). Theorems `LoginsTypeCorrect`,
`SecondFactorNeeded`, `ProofsOpenOneSession`, `GuessesAreBounded`, `DeadTokensOpenNothing`,
`SuspendedStayOut`. `ReqOK` says what a request knows at each step that nobody can undo:
a token checked stays that account's, a factor verified is of the account it logs in to,
and if a second factor was required since it began, the request is not past the step that
would look. `BudgetInv`: the guesses made in a window and those let through and still to come
are together within the counter and below its limit; guesses alone would not be inductive.
`OnceInv` follows a backup code or challenge: it is unspent, or in the hands of one request,
or in one flag, or used once, and these exclude each other.

**IdentitiesProofs** (`IdentitiesAssumption`). Theorems `IdentitiesTypeCorrect` (which
includes that no two accounts have one address), `VerifiedWasProved`, `CodeAcceptedOnce`,
`EntersOnlyProved`, `DeletedStaysOut`, and the action property `IdentityBoundForGood`. Between
the reads of a transaction and its commit the rows may change, so `ReqOK` keeps to facts
that only grow: which address was proved by whom, which address a provider gave, whom an
identity may enter, who is deleted. `CodesInv` ties a stored code to the mail it went out
with, `BoundInv` says that a bound identity may enter its account; the commits need no
more, since the unique indexes decide the rest.

**PrivilegesProofs** (`PrivilegesAssumption`: positive lifetimes, finitely many accounts).
Theorems `PrivilegesTypeCorrect`, `RoleExpires`, `SuspensionTakesEffect`, and the action
property `ValidatorLagBounded`, for all lifetimes. `Inv` dates every copy, like `AInv`: a
request ends within RequestTimeout of its beginning, what it read was true at some time
since then, or was cached no longer than an entry lives (`ClaimsLag` for roles, `VerdictLag`
for the verdict that a grant relies on), and so a cache entry and a token expire within the
stated time after the role was last held or the account last active. The bounds of the
properties are sums of these and of the parser's leeway. Roles and permissions of a grant
come from two queries; the role is read first, so its age bounds that of the pair.

Only model-checked: `EveryRequestAnswered` and `ResetRevokes`. Liveness under fairness and
ENABLED are beyond the prover, as are induction over data and recursive operators (which no
module uses). Every other property that a run confirms is stated by a theorem.

## 5. Not modelled

* Reads: listings, user information, introspection, audit queries. They change nothing.
* Filters in front of the handlers: CSRF, the Redis rate limiter, client authentication,
  validation of forms. A request they refuse does not arrive.
* OIDC: ID tokens, discovery and JWKS are computed from state that does not change; logout
  calls revocations that Sessions, AccessTokens and RefreshTokens model.
* Client management apart from what Consents needs, the definition of roles and
  permissions, and phone numbers: single statements of the database.
* Passkey sign counters and flags: a login proceeds whatever becomes of them.
* The audit queue: no other part depends on it.
* `BindFederatedIdentity`, `UnbindFederatedIdentity` and `VerifyContactCredential`: no
  handler of the server calls them.
* Rendering, e-mail and SMS, keys, metrics, configuration, migrations, deployment: pure
  input and output, or state that never changes after start.

`PROJECT.json` gives the reason for each component.
