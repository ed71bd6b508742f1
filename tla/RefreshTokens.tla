--------------------------- MODULE RefreshTokens ---------------------------
(***************************************************************************)
(* Refresh-token rotation: TokenService (internal/token/service) and the   *)
(* two request handlers that drive it, AuthService.RefreshTokens           *)
(* (internal/auth/service/auth_session.go, kind "auth") and                *)
(* OAuth2Controller.handleRefreshTokenGrant                                *)
(* (internal/oauth2/controller/oauth2_token.go, kind "oauth").             *)
(*                                                                         *)
(* Every Redis or database round trip of a handler is one action, every    *)
(* Lua script is one atomic action.  A Redis key is its value together     *)
(* with the time at which it expires: it exists while now < keyExp, and    *)
(* DEL sets keyExp to 0.  The clock counts seconds.                        *)
(***************************************************************************)
EXTENDS Naturals, FiniteSets

CONSTANTS
    Token,        \* refresh token strings (a token stands for its hash too)
    Session, NoSession,
    Account,
    Request,      \* concurrent HTTP requests, each served once
    NoToken,
    RefreshTTL,   \* refreshExpiry
    ReplayTTL,    \* refreshTokenReplayTTL
    RevokedTTL,   \* max(2 * accessExpiry, MinAccountRevocationTTL)
    LockTTL,      \* refreshTokenLockTTL
    MaxLogins,    \* bound of the families begun
    MaxTime       \* bound of the clock

ASSUME TTLAssumption ==
    /\ RefreshTTL \in Nat \ {0}
    /\ ReplayTTL \in Nat \ {0}
    /\ RevokedTTL \in Nat \ {0}
    /\ LockTTL \in Nat \ {0}
    /\ MaxLogins \in Nat
    /\ MaxTime \in Nat

ASSUME NoValueAssumption ==
    NoToken \notin Token /\ NoSession \notin Session /\ Account # {}

VARIABLES
    now,
    rt,        \* refresh_token:{hash}
    replay,    \* refresh_token_replay:{hash of the consumed token}
    sessTok,   \* session_tokens:{sid}
    revAfter,  \* account_revoked_after:{account}
    lock,      \* auth_refresh_lock:{hash prefix}, as its keyExp
    req,       \* the requests in flight
    issued,    \* history: the tokens generated so far (random, never repeated)
    parent,    \* history: the token whose rotation stored this one
    root,      \* history: the token that GenerateRefreshToken began the family with
    killed     \* history: the families that were revoked, by their root

stores == <<rt, replay, sessTok>>
history == <<issued, parent, root, killed>>
vars == <<now, stores, revAfter, lock, req, history>>

Kind == {"auth", "oauth"}
PC == {"idle", "lock", "vget", "vrev", "session", "account", "srefresh", "rget",
       "rscript", "rpget", "rpvget", "rpvrev", "mint", "unlock", "done"}

\* domain.RefreshToken; clientID, scope, IP and user agent are copied unchanged
\* by a rotation and only lead to rejections (see Reject).
RefreshToken == [acct: Account, sid: Session \cup {NoSession},
                 created: Nat, expiresAt: Nat, keyExp: Nat]
ReplayRecord == [tok: Token \cup {NoToken}, keyExp: Nat]
SessionIndex == [members: SUBSET Token, keyExp: Nat]
RevocationMark == [at: Nat, keyExp: Nat]
RequestState == [pc: PC, kind: Kind, tok: Token \cup {NoToken},
                 cur: Token \cup {NoToken}, \* whose data the handler holds as oldRT
                 via: {"load", "main"},     \* which call of RotateRefreshToken runs
                 created: Nat,              \* newRT.CreatedAt
                 got: Token \cup {NoToken}] \* the token to answer with

-----------------------------------------------------------------------------
\* What a GET or EXISTS of a key observes.
Live(t) == now < rt[t].keyExp
ReplayLive(t) == now < replay[t].keyExp
Members(s) == IF now < sessTok[s].keyExp THEN sessTok[s].members ELSE {}

\* The account-level check of ValidateRefreshToken.
RevokedByAccount(t) ==
    LET mark == revAfter[rt[t].acct]
    IN  now < mark.keyExp /\ rt[t].created < mark.at

Init ==
    /\ now = 0
    /\ rt = [t \in Token |-> [acct |-> CHOOSE a \in Account : TRUE, sid |-> NoSession,
                              created |-> 0, expiresAt |-> 0, keyExp |-> 0]]
    /\ replay = [t \in Token |-> [tok |-> NoToken, keyExp |-> 0]]
    /\ sessTok = [s \in Session |-> [members |-> {}, keyExp |-> 0]]
    /\ revAfter = [a \in Account |-> [at |-> 0, keyExp |-> 0]]
    /\ lock = [t \in Token |-> 0]
    /\ req = [r \in Request |-> [pc |-> "idle", kind |-> "auth", tok |-> NoToken,
                                 cur |-> NoToken, via |-> "main", created |-> 0,
                                 got |-> NoToken]]
    /\ issued = {}
    /\ parent = [t \in Token |-> NoToken]
    /\ root = [t \in Token |-> NoToken]
    /\ killed = {}

-----------------------------------------------------------------------------
(* The token service, seen from other handlers.                            *)

\* Mutant of AddToIndex: EXPIRE only when the set is created.
AddToIndexKeepTTL(s, add, drop) ==
    IF s = NoSession THEN sessTok
    ELSE [sessTok EXCEPT ![s] = [members |-> (Members(s) \ drop) \cup add,
                keyExp |-> IF Members(s) = {} THEN now + RefreshTTL ELSE @.keyExp]]

\* storeRefreshTokenScript and the SADD/EXPIRE half of rotateTokenScript.
AddToIndex(s, add, drop) ==
    IF s = NoSession THEN sessTok
    ELSE [sessTok EXCEPT ![s] = [members |-> (Members(s) \ drop) \cup add,
                                 keyExp |-> now + RefreshTTL]]

\* GenerateRefreshToken, called by the login, authorization-code and
\* device-code handlers.  The last two do not look at the session first.
GenerateRefreshToken(t, a, s) ==
    /\ t \notin issued
    /\ Cardinality({u \in issued : root[u] = u}) < MaxLogins
    /\ rt' = [rt EXCEPT ![t] = [acct |-> a, sid |-> s, created |-> now,
                                expiresAt |-> now + RefreshTTL,
                                keyExp |-> now + RefreshTTL]]
    /\ sessTok' = AddToIndex(s, {t}, {})
    /\ issued' = issued \cup {t}
    /\ root' = [root EXCEPT ![t] = t]
    /\ UNCHANGED <<now, replay, revAfter, lock, req, parent, killed>>

\* Mutant of RevokeRefreshToken: no check that the token exists.
RevokeRefreshTokenUnchecked(t) ==
    /\ rt' = [rt EXCEPT ![t].keyExp = 0]
    /\ killed' = killed \cup {root[t]}
    /\ UNCHANGED <<now, replay, sessTok, revAfter, lock, req, issued, parent, root>>

\* RevokeRefreshToken: rotateAndDeleteScript.
RevokeRefreshToken(t) ==
    /\ Live(t)
    /\ rt' = [rt EXCEPT ![t].keyExp = 0]
    /\ sessTok' = IF rt[t].sid = NoSession THEN sessTok
                  ELSE [sessTok EXCEPT ![rt[t].sid].members = @ \ {t}]
    /\ killed' = killed \cup {root[t]}
    /\ UNCHANGED <<now, replay, revAfter, lock, req, issued, parent, root>>

\* Mutant of RevokeAllForSession: the index is deleted, the tokens are not.
RevokeAllForSessionIndexOnly(s) ==
    /\ sessTok' = [sessTok EXCEPT ![s] = [members |-> {}, keyExp |-> 0]]
    /\ killed' = killed \cup {root[t] : t \in {u \in issued : rt[u].sid = s}}
    /\ UNCHANGED <<now, rt, replay, revAfter, lock, req, issued, parent, root>>

\* RevokeAllForSession: revokeAllSessionScript.
RevokeAllForSession(s) ==
    /\ rt' = [t \in Token |-> IF t \in Members(s) THEN [rt[t] EXCEPT !.keyExp = 0]
                              ELSE rt[t]]
    /\ sessTok' = [sessTok EXCEPT ![s] = [members |-> {}, keyExp |-> 0]]
    /\ killed' = killed \cup {root[t] : t \in {u \in issued : rt[u].sid = s}}
    /\ UNCHANGED <<now, replay, revAfter, lock, req, issued, parent, root>>

\* RevokeAccountTokens: setAccountRevokedAfterScript ratchets the mark.
RevokeAccountTokens(a) ==
    /\ ~(now < revAfter[a].keyExp /\ now <= revAfter[a].at)
    /\ revAfter' = [revAfter EXCEPT ![a] = [at |-> now, keyExp |-> now + RevokedTTL]]
    /\ UNCHANGED <<now, stores, lock, req, history>>

Tick ==
    /\ now < MaxTime
    /\ now' = now + 1
    /\ UNCHANGED <<stores, revAfter, lock, req, history>>

-----------------------------------------------------------------------------
(* The steps of a request.                                                 *)

At(r, pc) == req[r].pc = pc

\* Only request r moves; Goto keeps what the handler holds.
Goto(r, pc) == req' = [req EXCEPT ![r].pc = pc]

\* withRefreshTokenLock releases the lock after fn; the OAuth2 handler has none.
Finish(r, u) ==
    req' = [req EXCEPT ![r] = [@ EXCEPT !.got = u,
                   !.pc = IF req[r].kind = "auth" THEN "unlock" ELSE "done"]]
Fail(r) == Finish(r, NoToken)

\* What follows a successful RotateRefreshToken: loadRefreshTokenForRefresh takes
\* the replayed token for oldRT, the two main calls answer with it.
Rotated(r, u) ==
    \/ /\ req[r].via = "load"
       /\ req' = [req EXCEPT ![r] = [@ EXCEPT !.got = u, !.cur = u, !.pc = "session"]]
    \/ /\ req[r].via = "main"
       /\ req' = [req EXCEPT ![r] = [@ EXCEPT !.got = u,
                      !.pc = IF req[r].kind = "auth" THEN "unlock" ELSE "mint"]]

Start(r, k, t) ==
    /\ At(r, "idle")
    /\ t \in issued
    /\ req' = [req EXCEPT ![r].pc = IF k = "auth" THEN "lock" ELSE "vget",
                          ![r].kind = k, ![r].tok = t, ![r].cur = t]
    /\ UNCHANGED <<now, stores, revAfter, lock, history>>

\* SetNX of the lock: acquired, or polled until the deadline, or an error after
\* which Redis may or may not hold the key.
AcquireLock(r) ==
    /\ At(r, "lock")
    /\ now >= lock[req[r].tok]
    /\ lock' = [lock EXCEPT ![req[r].tok] = now + LockTTL]
    /\ Goto(r, "vget")
    /\ UNCHANGED <<now, stores, revAfter, history>>

\* Mutant of LockTimeout: polling has no deadline.
LockTimeoutNever(r) == FALSE /\ UNCHANGED vars

LockTimeout(r) ==
    /\ At(r, "lock")
    /\ now < lock[req[r].tok]
    /\ Goto(r, "done")
    /\ UNCHANGED <<now, stores, revAfter, lock, history>>

LockError(r) ==
    /\ At(r, "lock")
    /\ now >= lock[req[r].tok]
    /\ lock' \in {lock, [lock EXCEPT ![req[r].tok] = now + LockTTL]}
    /\ Goto(r, "done")
    /\ UNCHANGED <<now, stores, revAfter, history>>

\* ValidateRefreshToken(t) is a GET of the token, then one of the account mark.
\* A key that is gone sends the auth handler into RotateRefreshToken for a replay.
ValidateGet(r) ==
    /\ At(r, "vget")
    /\ LET t == req[r].tok IN
       \/ /\ Live(t) /\ now <= rt[t].expiresAt
          /\ Goto(r, "vrev")
       \/ /\ Live(t) /\ now > rt[t].expiresAt
          /\ Fail(r)
       \/ /\ ~Live(t) /\ req[r].kind = "auth"
          /\ req' = [req EXCEPT ![r].pc = "rget", ![r].via = "load"]
       \/ /\ ~Live(t) /\ req[r].kind = "oauth"
          /\ Fail(r)
    /\ UNCHANGED <<now, stores, revAfter, lock, history>>

ValidateRevocation(r) ==
    /\ At(r, "vrev")
    /\ \/ /\ RevokedByAccount(req[r].tok)
          /\ Fail(r)
       \/ /\ ~RevokedByAccount(req[r].tok)
          /\ Goto(r, IF req[r].kind = "auth" THEN "session" ELSE "account")
    /\ UNCHANGED <<now, stores, revAfter, lock, history>>

\* IP binding (auth), client binding and requested scope (oauth).
Reject(r) ==
    /\ \/ At(r, "session")
       \/ At(r, "account") /\ req[r].kind = "oauth"
    /\ Fail(r)
    /\ UNCHANGED <<now, stores, revAfter, lock, history>>

\* External: SessionService.ValidateSession and AccountService.FindAccountByID
\* answer either way, except that a token without a session skips the first.
CheckSession(r) ==
    /\ At(r, "session")
    /\ \/ Goto(r, "account")
       \/ rt[req[r].cur].sid # NoSession /\ Fail(r)
    /\ UNCHANGED <<now, stores, revAfter, lock, history>>

CheckAccount(r) ==
    /\ At(r, "account")
    /\ \/ Goto(r, IF req[r].kind = "auth" THEN "srefresh" ELSE "rget")
       \/ Fail(r)
    /\ UNCHANGED <<now, stores, revAfter, lock, history>>

\* SessionService.RefreshSession, then the rotation unless it was replayed.
RefreshSession(r) ==
    /\ At(r, "srefresh")
    /\ \/ req[r].via = "load" /\ Finish(r, req[r].cur)
       \/ req[r].via = "main" /\ Goto(r, "rget")
       \/ rt[req[r].cur].sid # NoSession /\ Fail(r)
    /\ UNCHANGED <<now, stores, revAfter, lock, history>>

\* RotateRefreshToken: GET of the old token, whose data newRT is built from.
RotateGet(r) ==
    /\ At(r, "rget")
    /\ \/ /\ Live(req[r].tok)
          /\ req' = [req EXCEPT ![r].pc = "rscript", ![r].created = now]
       \/ /\ ~Live(req[r].tok)
          /\ Goto(r, "rpget")
    /\ UNCHANGED <<now, stores, revAfter, lock, history>>

\* What a rotation of t into u stores, whatever is true of t.
StoreSuccessor(r, t, u, oldKeyExp, replayed) ==
    /\ u \notin issued
    /\ rt' = [rt EXCEPT ![t].keyExp = oldKeyExp,
                        ![u] = [acct |-> rt[t].acct, sid |-> rt[t].sid,
                                created |-> req[r].created,
                                expiresAt |-> req[r].created + RefreshTTL,
                                keyExp |-> now + RefreshTTL]]
    /\ replay' = [replay EXCEPT ![t] = [tok |-> replayed, keyExp |-> now + ReplayTTL]]
    /\ sessTok' = AddToIndex(rt[t].sid, {u}, {t})
    /\ issued' = issued \cup {u}
    /\ parent' = [parent EXCEPT ![u] = t]
    /\ root' = [root EXCEPT ![u] = root[t]]
    /\ UNCHANGED killed

\* Mutants of Consume: the script does not look whether the old token exists, does
\* not delete it, or records the old token for the replay.
ConsumeUnchecked(r, t, u) == StoreSuccessor(r, t, u, 0, u)
ConsumeKeepOld(r, t, u) == Live(t) /\ StoreSuccessor(r, t, u, rt[t].keyExp, u)
ConsumeReplayOld(r, t, u) == Live(t) /\ StoreSuccessor(r, t, u, 0, t)

\* rotateTokenScript on an old token t that still exists: u replaces it.
Consume(r, t, u) ==
    /\ Live(t)
    /\ u \notin issued
    /\ rt' = [rt EXCEPT ![t].keyExp = 0,
                        ![u] = [acct |-> rt[t].acct, sid |-> rt[t].sid,
                                created |-> req[r].created,
                                expiresAt |-> req[r].created + RefreshTTL,
                                keyExp |-> now + RefreshTTL]]
    /\ replay' = [replay EXCEPT ![t] = [tok |-> u, keyExp |-> now + ReplayTTL]]
    /\ sessTok' = AddToIndex(rt[t].sid, {u}, {t})
    /\ issued' = issued \cup {u}
    /\ parent' = [parent EXCEPT ![u] = t]
    /\ root' = [root EXCEPT ![u] = root[t]]
    /\ UNCHANGED killed

RotateScript(r) ==
    /\ At(r, "rscript")
    /\ LET t == req[r].tok IN
       \/ \E u \in Token : Consume(r, t, u) /\ Rotated(r, u)
       \/ /\ ~Live(t) /\ ReplayLive(t)
          /\ Rotated(r, replay[t].tok)
          /\ UNCHANGED <<stores, history>>
       \/ /\ ~Live(t) /\ ~ReplayLive(t)
          /\ Goto(r, "rpget")
          /\ UNCHANGED <<stores, history>>
    /\ UNCHANGED <<now, revAfter, lock>>

\* The script's answer is lost, whether or not it ran: a nil result is read as
\* "not found", and the replay record is looked up.
RotateReplyLost(r) ==
    /\ At(r, "rscript")
    /\ Goto(r, "rpget")
    /\ \/ \E u \in Token : Consume(r, req[r].tok, u)
       \/ UNCHANGED <<stores, history>>
    /\ UNCHANGED <<now, revAfter, lock>>

\* getRefreshTokenReplay: GET of the replay record, then ValidateRefreshToken of
\* the token it names.
ReplayGet(r) ==
    /\ At(r, "rpget")
    /\ LET t == req[r].tok IN
       \/ /\ ReplayLive(t)
          /\ req' = [req EXCEPT ![r].pc = "rpvget", ![r].got = replay[t].tok]
       \/ ~ReplayLive(t) /\ Fail(r)
    /\ UNCHANGED <<now, stores, revAfter, lock, history>>

ReplayValidateGet(r) ==
    /\ At(r, "rpvget")
    /\ LET u == req[r].got IN
       \/ Live(u) /\ now <= rt[u].expiresAt /\ Goto(r, "rpvrev")
       \/ ~(Live(u) /\ now <= rt[u].expiresAt) /\ Fail(r)
    /\ UNCHANGED <<now, stores, revAfter, lock, history>>

ReplayValidateRevocation(r) ==
    /\ At(r, "rpvrev")
    /\ LET u == req[r].got IN
       \/ ~RevokedByAccount(u) /\ Rotated(r, u)
       \/ RevokedByAccount(u) /\ Fail(r)
    /\ UNCHANGED <<now, stores, revAfter, lock, history>>

\* After its rotation the OAuth2 handler fetches roles and permissions and signs
\* the access token; an error there answers server_error.
Mint(r) ==
    /\ At(r, "mint")
    /\ \/ Finish(r, req[r].got)
       \/ Fail(r)
    /\ UNCHANGED <<now, stores, revAfter, lock, history>>

\* Del of the lock key, by whoever holds it now, unless Redis fails.
Unlock(r) ==
    /\ At(r, "unlock")
    /\ lock' \in {lock, [lock EXCEPT ![req[r].tok] = 0]}
    /\ Goto(r, "done")
    /\ UNCHANGED <<now, stores, revAfter, history>>

\* Any read may fail; the handler then gives up.
ReadError(r) ==
    /\ req[r].pc \in {"vget", "vrev", "session", "account", "srefresh", "rget",
                      "rpget", "rpvget", "rpvrev"}
    /\ Fail(r)
    /\ UNCHANGED <<now, stores, revAfter, lock, history>>

\* The process dies: no answer, and the lock stays until its TTL.
Crash(r) ==
    /\ req[r].pc \notin {"idle", "done"}
    /\ req' = [req EXCEPT ![r].pc = "done", ![r].got = NoToken]
    /\ UNCHANGED <<now, stores, revAfter, lock, history>>

\* One step of the handler itself.
Step(r) ==
    \/ AcquireLock(r) \/ LockTimeout(r) \/ LockError(r)
    \/ ValidateGet(r) \/ ValidateRevocation(r)
    \/ Reject(r) \/ CheckSession(r) \/ CheckAccount(r) \/ RefreshSession(r)
    \/ RotateGet(r) \/ RotateScript(r) \/ RotateReplyLost(r)
    \/ ReplayGet(r) \/ ReplayValidateGet(r) \/ ReplayValidateRevocation(r)
    \/ Mint(r) \/ Unlock(r) \/ ReadError(r)

Environment ==
    \/ \E t \in Token, a \in Account, s \in Session \cup {NoSession} :
           GenerateRefreshToken(t, a, s)
    \/ \E t \in Token : RevokeRefreshToken(t)
    \/ \E s \in Session : RevokeAllForSession(s)
    \/ \E a \in Account : RevokeAccountTokens(a)
    \/ Tick

Next ==
    \/ Environment
    \/ \E r \in Request, k \in Kind, t \in Token : Start(r, k, t)
    \/ \E r \in Request : Step(r) \/ Crash(r)

Spec == Init /\ [][Next]_vars

\* A request that has begun is executed by its goroutine.
FairSpec == Spec /\ \A r \in Request : WF_vars(Step(r))

-----------------------------------------------------------------------------
(* Properties.                                                             *)

\* The Redis keys, the requests in flight and the history have their types.
TypeOK ==
    /\ now \in Nat
    /\ rt \in [Token -> RefreshToken]
    /\ replay \in [Token -> ReplayRecord]
    /\ sessTok \in [Session -> SessionIndex]
    /\ revAfter \in [Account -> RevocationMark]
    /\ lock \in [Token -> Nat]
    /\ req \in [Request -> RequestState]
    /\ issued \subseteq Token
    /\ parent \in [Token -> Token \cup {NoToken}]
    /\ root \in [Token -> Token \cup {NoToken}]
    /\ killed \subseteq Token

\* A token is rotated at most once: whatever the interleaving of concurrent
\* refreshes, expired locks and lost replies, no two stored tokens replace the
\* same one (rotateTokenScript is the only arbiter).
SingleSuccessor ==
    \A t, u \in Token : parent[t] = parent[u] /\ parent[t] # NoToken => t = u

\* Of all the tokens one login or code exchange gave rise to, at most one is
\* accepted at any time.
OneLivePerFamily ==
    \A t, u \in issued : root[t] = root[u] /\ Live(t) /\ Live(u) => t = u

\* Every live token bound to a session is in that session's index, and the index
\* does not expire before it: RevokeAllForSession misses none.
IndexCoversLiveTokens ==
    \A t \in Token : Live(t) /\ rt[t].sid # NoSession =>
        t \in sessTok[rt[t].sid].members /\ rt[t].keyExp <= sessTok[rt[t].sid].keyExp

\* Once a family is revoked, by RevokeRefreshToken or by RevokeAllForSession, no
\* refresh that was under way, retried or replayed brings a token of it back.
RevokedFamiliesStayDead ==
    \A t \in issued : root[t] \in killed => ~Live(t)

\* Requests that present the same token and are answered with a token are
\* answered with the same one, its only successor.
RotationAgreement ==
    \A r, q \in Request :
        (/\ At(r, "done") /\ At(q, "done")
         /\ req[r].tok = req[q].tok
         /\ req[r].got # NoToken /\ req[q].got # NoToken) => req[r].got = req[q].got

\* The live token of the family that began with f.
CurrentOf(f) ==
    IF \E t \in issued : root[t] = f /\ Live(t)
    THEN CHOOSE t \in issued : root[t] = f /\ Live(t)
    ELSE NoToken

Families == INSTANCE TokenFamily WITH cur <- [f \in Token |-> CurrentOf(f)],
                                      used <- issued

\* The Redis implementation, with its retries and replays, implements
\* TokenFamily: rotation, revocation and expiry of single-current families.
ImplementsTokenFamily == Families!Spec

\* Every request is answered, also when it waits for a lock whose holder died.
EveryRequestAnswered ==
    \A r \in Request : At(r, "lock") ~> At(r, "done")
=============================================================================
