------------------------------ MODULE Sessions ------------------------------
(***************************************************************************)
(* User sessions: SessionService (internal/session/service) with the       *)
(* handlers that drive it: login (createSessionAndTokens, completeLogin),  *)
(* the exchange of an authorization code (handleAuthorizationCodeGrant),   *)
(* bearer validation, refresh (refreshTokensLocked), Logout, revocation of *)
(* a session or of a whole account, and the session list.                  *)
(*                                                                         *)
(* Every Redis round trip is one action together with the local steps that *)
(* follow it.  A call is a goroutine that serves one request after the     *)
(* other.  The clock counts seconds and starts at 1; a key written in      *)
(* second t with TTL d is there up to and including second t + d, and DEL  *)
(* sets keyExp to 0.  The local cache is the one of the modelled process.  *)
(***************************************************************************)
EXTENDS Integers, FiniteSets

CONSTANTS
    Session, NoSession,
    Account,
    Call,             \* concurrent requests
    SessionTTL,       \* sessionTTL
    MaxSessionAge,    \* maxSessionAge
    MaxSessions,      \* maxSessions
    CacheMax,         \* sessionCacheMaxSize
    IndexFailClosed,  \* the settings of indexFailClosed: replicas may differ
    RequestTimeout,   \* of TimeoutMiddleware: no request takes longer
    Faults,           \* what may go wrong, of FaultKind
    MaxTime           \* bound of the clock

\* "redis": a command reports an error, executed or not; "crash": a request ends
\* anywhere.
FaultKind == {"redis", "crash"}

ASSUME ConfigAssumption ==
    /\ SessionTTL \in Nat \ {0}
    /\ MaxSessionAge \in Nat \ {0}
    /\ MaxSessions \in Nat \ {0}
    /\ CacheMax \in Nat
    /\ RequestTimeout \in Nat
    /\ MaxTime \in Nat
    /\ IndexFailClosed \subseteq BOOLEAN
    /\ Faults \subseteq FaultKind

ASSUME NamesAssumption ==
    /\ NoSession \notin Session /\ Account # {}
    /\ IsFiniteSet(Session) /\ IsFiniteSet(Call)

VARIABLES
    now,
    sess,       \* session:{id}
    idx,        \* account_sessions:{account}
    cache,      \* sessionCache
    cacheSize,
    sweep,      \* the entries that evictStaleCacheEntries has found stale
    tokens,     \* the sessions with live refresh tokens (TokenService) ...
    late,       \* ... and those whose tokens came while or after they were deleted
    call,       \* the requests under way
    fate,       \* history: how the session's key came to an end
    unlisted    \* history: sessions whose index ran out under a request of theirs

cacheVars == <<cache, cacheSize, sweep>>
vars == <<now, sess, idx, cacheVars, tokens, late, call, fate, unlisted>>

\* domain.Session, with what tells its JSON encodings apart: LastActiveAt.
StoredSession == [acct: Account, created: Nat, active: Nat, keyExp: Nat]
AccountIndex == [members: SUBSET Session, keyExp: Nat]
\* cachedSession: json is the LastActiveAt in the cached bytes, active the one in
\* the object that GetSession hands out by reference.
CachedSession == [on: BOOLEAN, json: Nat, active: Nat, cachedAt: Nat]
Fate == {"none", "expired", "deleted", "revoked"}
PC == {"idle", "evict", "evictTokens", "issue", "update", "updateExpire",
       "cleanGet", "cleanDel", "cleanSRem",
       "refreshGet", "refreshSet", "refreshExpire",
       "forceDel", "forceSRem", "forceTokens",
       "revokeTokens", "revokeDel", "revokeSRem", "logoutTokens",
       "allTokens", "allDel", "listGet", "listNext", "listSRem"}
CallState == [pc: PC, acct: Account, sid: Session \cup {NoSession},
              ids: SUBSET Session,    \* the sessions the call is deleting
              todo: SUBSET Session,   \* those of them whose tokens are still to be revoked
              rest: SUBSET Session,   \* the list: inactive sessions still to be expired
              stale: SUBSET Session,  \* the list: index entries to drop
              logout: BOOLEAN,        \* Logout, not RevokeSession alone
              active: Nat,            \* LastActiveAt of the encoding to be written
              since: Nat,             \* when the request began
              before: SUBSET Session, \* history: what RevokeAllForAccount is to revoke
              ok: BOOLEAN]            \* history: RevokeAllForAccount just answered with success

-----------------------------------------------------------------------------
Exists(s) == now <= sess[s].keyExp
Members(a) == IF now <= idx[a].keyExp THEN idx[a].members ELSE {}

\* isSessionActive, for an object whose LastActiveAt is t.
ActiveAt(s, t) == now <= sess[s].created + MaxSessionAge /\ now <= t + SessionTTL

\* What Redis says: the sessions a validation ought to accept.
Acceptable(s) == Exists(s) /\ ActiveAt(s, sess[s].active)

\* The LastActiveAt that a reader of the key works with.
Hit(s) == cache[s].on /\ cache[s].json = sess[s].active
Seen(s) == IF Hit(s) THEN cache[s].active ELSE sess[s].active

NoCall == [pc |-> "idle", acct |-> CHOOSE a \in Account : TRUE, sid |-> NoSession,
           ids |-> {}, todo |-> {}, rest |-> {}, stale |-> {}, logout |-> FALSE,
           active |-> 0, since |-> 0, before |-> {}, ok |-> FALSE]
NewCall == [NoCall EXCEPT !.since = now]
NotCached == [on |-> FALSE, json |-> 0, active |-> 0, cachedAt |-> 0]

Init ==
    /\ now = 1
    /\ sess = [s \in Session |-> [acct |-> CHOOSE a \in Account : TRUE,
                                  created |-> 0, active |-> 0, keyExp |-> 0]]
    /\ idx = [a \in Account |-> [members |-> {}, keyExp |-> 0]]
    /\ cache = [s \in Session |-> NotCached]
    /\ cacheSize = 0
    /\ sweep = {}
    /\ tokens = {}
    /\ call = [c \in Call |-> NoCall]
    /\ fate = [s \in Session |-> "none"]
    /\ late = {}
    /\ unlisted = {}

-----------------------------------------------------------------------------
(* The steps that calls are made of.                                       *)

At(c, pc) == call[c].pc = pc
Goto(c, pc) == call' = [call EXCEPT ![c].pc = pc]
Return(c, success) ==
    call' = [call EXCEPT ![c] = [NoCall EXCEPT !.ok = success /\ call[c].pc = "allDel"]]
Continue(c, pc, success) == IF pc = "idle" THEN Return(c, success) ELSE Goto(c, pc)
Faulty == "redis" \in Faults

\* cacheStore of an object with LastActiveAt t, just read or written as such:
\* LoadOrStore keeps an entry that is there, also an outdated one.
CacheStore(s, t) ==
    IF cache[s].on \/ cacheSize >= CacheMax THEN UNCHANGED cacheVars
    ELSE /\ cache' = [cache EXCEPT ![s] = [on |-> TRUE, json |-> t, active |-> t,
                                           cachedAt |-> now]]
         /\ cacheSize' = cacheSize + 1
         /\ UNCHANGED sweep

\* LoadAndDelete, which counts.
CacheDrop(S) ==
    /\ cache' = [s \in Session |-> IF s \in S THEN NotCached ELSE cache[s]]
    /\ cacheSize' = cacheSize - Cardinality({s \in S : cache[s].on})
    /\ UNCHANGED sweep

\* DEL of the keys of call c, which goes on at ok, or at err after an error.
Del(c, from, ok, err, mark) ==
    LET S == call[c].ids
        Deleted == [s \in Session |-> IF s \in S THEN [sess[s] EXCEPT !.keyExp = 0] ELSE sess[s]]
        Marked == [s \in Session |-> IF s \in S /\ Exists(s) THEN mark ELSE fate[s]]
    IN  /\ At(c, from)
        /\ \/ sess' = Deleted /\ fate' = Marked /\ Continue(c, ok, TRUE)
           \/ /\ Faulty
              /\ \/ sess' = Deleted /\ fate' = Marked
                 \/ UNCHANGED <<sess, fate>>
              /\ Continue(c, err, FALSE)

\* SREM of S from the account's index; an error is only logged.
SRem(c, S, from, next) ==
    LET a == call[c].acct
    IN  /\ At(c, from)
        /\ \/ idx' = [idx EXCEPT ![a].members = @ \ S]
           \/ Faulty /\ UNCHANGED idx
        /\ Continue(c, next, TRUE)

\* GenerateRefreshToken for session s, which looks at no session: the tokens come
\* late when s is gone, or when a call is about to delete it.
GenerateRefreshToken(s) ==
    IF Exists(s) /\ \A d \in Call : s \notin call[d].ids
    THEN tokens' = tokens \cup {s} /\ UNCHANGED late
    ELSE late' = late \cup {s} /\ UNCHANGED tokens

RevokeAllForSession(s) == tokens' = tokens \ {s} /\ late' = late \ {s}

\* RevokeAllForSession for one of the sessions, in any order, until all were tried.
RevokeTokens(c, from, ok, err) ==
    /\ At(c, from)
    /\ \/ \E s \in call[c].todo :
             \/ /\ RevokeAllForSession(s)
                /\ call' = [call EXCEPT ![c].todo = @ \ {s}]
             \/ /\ Faulty
                /\ RevokeAllForSession(s) \/ UNCHANGED <<tokens, late>>
                /\ \/ err = from /\ call' = [call EXCEPT ![c].todo = @ \ {s}]
                   \/ err # from /\ Continue(c, err, FALSE)
       \/ call[c].todo = {} /\ Continue(c, ok, TRUE) /\ UNCHANGED <<tokens, late>>
    /\ UNCHANGED <<now, sess, idx, cacheVars, fate, unlisted>>

\* Mutant of SetIfExists: a plain SET.
SetAlways(c, s, from, next, t) ==
    /\ At(c, from)
    /\ sess' = [sess EXCEPT ![s].active = t, ![s].keyExp = now + SessionTTL]
    /\ Goto(c, next)
    /\ UNCHANGED <<now, idx, tokens, fate, late, unlisted>>

\* SetIfExists of the object that call c holds.
SetIfExists(c, s, from, next, t) ==
    LET Written == [sess EXCEPT ![s].active = t, ![s].keyExp = now + SessionTTL]
    IN  /\ At(c, from)
        /\ \/ Exists(s) /\ sess' = Written /\ Goto(c, next)
           \/ ~Exists(s) /\ UNCHANGED sess /\ Return(c, FALSE)
           \/ /\ Faulty
              /\ sess' \in IF Exists(s) THEN {sess, Written} ELSE {sess}
              /\ Return(c, FALSE)
        /\ UNCHANGED <<now, idx, tokens, fate, late, unlisted>>

\* EXPIRE of the index: nothing happens to a key that is gone.
ExpireIndex(c, from) ==
    LET a == sess[call[c].sid].acct
    IN  /\ At(c, from)
        /\ \/ idx' = [idx EXCEPT ![a].keyExp = IF Members(a) # {} THEN now + SessionTTL ELSE @]
           \/ Faulty /\ UNCHANGED idx
        /\ Return(c, TRUE)
        /\ UNCHANGED <<now, sess, tokens, fate, late, unlisted>>

-----------------------------------------------------------------------------
(* Login: createSessionAndTokens and completeLogin.                        *)

\* Mutant of CreateSession: EXPIRE only when the index is created.
CreateSessionKeepTTL(c, s, a) ==
    /\ At(c, "idle")
    /\ sess[s].created = 0
    /\ sess' = [sess EXCEPT ![s] = [acct |-> a, created |-> now, active |-> now,
                                    keyExp |-> now + SessionTTL]]
    /\ idx' = [idx EXCEPT ![a] = [members |-> Members(a) \cup {s},
                  keyExp |-> IF Members(a) = {} THEN now + SessionTTL ELSE @.keyExp]]
    /\ call' = [call EXCEPT ![c] = [NewCall EXCEPT !.pc = "evict", !.acct = a, !.sid = s,
                                                   !.active = now]]
    /\ UNCHANGED <<now, cacheVars, tokens, fate, late, unlisted>>

\* CreateSession's createSessionScript; its answer may be lost.
CreateSession(c, s, a) ==
    /\ At(c, "idle")
    /\ sess[s].created = 0
    /\ sess' = [sess EXCEPT ![s] = [acct |-> a, created |-> now, active |-> now,
                                    keyExp |-> now + SessionTTL]]
    /\ idx' = [idx EXCEPT ![a] = [members |-> Members(a) \cup {s},
                                  keyExp |-> now + SessionTTL]]
    /\ \/ call' = [call EXCEPT ![c] = [NewCall EXCEPT !.pc = "evict", !.acct = a, !.sid = s,
                                                     !.active = now]]
       \/ Faulty /\ Return(c, FALSE)
    /\ UNCHANGED <<now, cacheVars, tokens, fate, late, unlisted>>

\* Mutant of EvictedSets: one session too many is kept.
EvictedSetsOneLess(a, protected) ==
    LET live == {s \in Members(a) : Exists(s)}
        others == live \ {protected}
    IN  {E \in SUBSET others : \/ Cardinality(E) + MaxSessions + 1 = Cardinality(live)
                               \/ E = {} /\ Cardinality(live) <= MaxSessions}

\* evictOldestSessionsScript.  last_active_at is compared as text, which orders
\* different seconds and may order the instants of one second either way.
EvictedSets(a, protected) ==
    LET live == {s \in Members(a) : Exists(s)}
        others == live \ {protected}
        excess == Cardinality(live) - MaxSessions
    IN  IF Cardinality(Members(a)) <= MaxSessions \/ Cardinality(live) <= MaxSessions THEN {{}}
        ELSE {E \in SUBSET others :
                 /\ Cardinality(E) = excess
                 /\ \A e \in E, k \in others \ E : sess[e].active <= sess[k].active}

StaleMembers(a) ==
    IF Cardinality(Members(a)) <= MaxSessions THEN {} ELSE {s \in Members(a) : ~Exists(s)}

\* enforceSessionLimit, then the caching of the new session by CreateSession.
EnforceSessionLimit(c) ==
    LET a == call[c].acct
        s == call[c].sid
    IN  /\ At(c, "evict")
        /\ \/ \E E \in EvictedSets(a, s) :
                 /\ sess' = [x \in Session |-> IF x \in E THEN [sess[x] EXCEPT !.keyExp = 0]
                                               ELSE sess[x]]
                 /\ idx' = [idx EXCEPT ![a].members = @ \ (E \cup StaleMembers(a))]
                 /\ fate' = [x \in Session |-> IF x \in E THEN "deleted" ELSE fate[x]]
                 /\ call' = [call EXCEPT ![c] = [@ EXCEPT !.pc = "evictTokens", !.ids = E, !.todo = E]]
                 /\ UNCHANGED cacheVars
           \/ /\ Faulty
              /\ \/ FALSE \in IndexFailClosed /\ Goto(c, "issue") /\ CacheStore(s, call[c].active)
                 \/ TRUE \in IndexFailClosed /\ Return(c, FALSE) /\ UNCHANGED cacheVars
              /\ UNCHANGED <<sess, idx, fate>>
        /\ UNCHANGED <<now, tokens, late, unlisted>>

\* Mutant of RevokeEvictedTokens: the evicted sessions keep their tokens.
RevokeEvictedTokensSkip(c) ==
    /\ At(c, "evictTokens")
    /\ CacheStore(call[c].sid, call[c].active)
    /\ call' = [call EXCEPT ![c].pc = "issue", ![c].ids = {}, ![c].todo = {}]
    /\ UNCHANGED <<now, sess, idx, tokens, fate, late, unlisted>>

RevokeEvictedTokens(c) ==
    \/ /\ call[c].todo # {}
       /\ RevokeTokens(c, "evictTokens", "issue", "evictTokens")
    \/ /\ At(c, "evictTokens")
       /\ call[c].todo = {}
       /\ CacheStore(call[c].sid, call[c].active)
       /\ call' = [call EXCEPT ![c].pc = "issue", ![c].ids = {}]
       /\ UNCHANGED <<now, sess, idx, tokens, fate, late, unlisted>>

\* Claims, access token and refresh token.  Claims need the database, so this step
\* can fail by itself; the session is then deleted again.
IssueTokens(c) ==
    LET s == call[c].sid
    IN  /\ At(c, "issue")
        /\ \/ /\ GenerateRefreshToken(s)
              /\ \/ Goto(c, "update")  \* a login that went through MFA or a passkey
                 \/ Return(c, TRUE)
                 \/ Faulty /\ Goto(c, "cleanGet")
           \/ UNCHANGED <<tokens, late>> /\ Goto(c, "cleanGet")
        /\ UNCHANGED <<now, sess, idx, cacheVars, fate, unlisted>>

\* UpdateSession, on the object that CreateSession put into the cache.
UpdateSession(c) ==
    LET s == call[c].sid
    IN  \/ /\ SetIfExists(c, s, "update", "updateExpire", now)
           /\ cache' = [cache EXCEPT ![s].active = IF cache[s].on THEN now ELSE @]
           /\ UNCHANGED <<cacheSize, sweep>>
        \/ ExpireIndex(c, "updateExpire") /\ CacheDrop({s})

\* DeleteSession, called only to undo a login.
DeleteSession(c) ==
    LET s == call[c].sid
    IN  \/ /\ At(c, "cleanGet")
           /\ \/ /\ Exists(s)
                 /\ CacheStore(s, sess[s].active)
                 /\ call' = [call EXCEPT ![c].pc = "cleanDel", ![c].ids = {s}, ![c].stale = {s}]
              \/ /\ ~Exists(s) \/ Faulty
                 /\ call' = [call EXCEPT ![c].pc = "cleanDel", ![c].ids = {s}]
                 /\ UNCHANGED cacheVars
           /\ UNCHANGED <<now, sess, idx, tokens, fate, late, unlisted>>
        \/ /\ Del(c, "cleanDel", "cleanSRem", "idle", "deleted")
           /\ IF call'[c].pc = "cleanSRem" THEN CacheDrop({s}) ELSE UNCHANGED cacheVars
           /\ UNCHANGED <<now, idx, tokens, late, unlisted>>
        \/ /\ SRem(c, call[c].stale, "cleanSRem", "idle")
           /\ UNCHANGED <<now, sess, cacheVars, tokens, fate, late, unlisted>>

\* handleAuthorizationCodeGrant: the code names the session of the request that
\* authorized it, whose login had answered, and nobody asks whether it is still there.
LoggingIn(c) == call[c].pc \in {"evict", "evictTokens", "issue", "update", "updateExpire",
                                "cleanGet", "cleanDel", "cleanSRem"}
AuthorizationCodeGrant(c, s) ==
    /\ At(c, "idle")
    /\ sess[s].created # 0
    /\ \A d \in Call : LoggingIn(d) => call[d].sid # s
    /\ GenerateRefreshToken(s)
    /\ Return(c, TRUE)
    /\ UNCHANGED <<now, sess, idx, cacheVars, fate, unlisted>>

-----------------------------------------------------------------------------
(* Validation and refresh.                                                 *)

\* Begins forceExpireSession for s.
Expire(c, s, state) ==
    call' = [call EXCEPT ![c] = [state EXCEPT !.pc = "forceDel", !.acct = sess[s].acct,
                                          !.ids = {s}, !.todo = {s}]]

\* ValidateSession: GETEX extends the key, not the index and not LastActiveAt.
\* A bearer request ends with it, refreshTokensLocked goes on.
ValidateSession(c, s) ==
    /\ At(c, "idle")
    /\ Exists(s)
    /\ sess' = [sess EXCEPT ![s].keyExp = now + SessionTTL]
    /\ CacheStore(s, sess[s].active)
    /\ \/ ActiveAt(s, Seen(s)) /\ Return(c, TRUE)
       \/ ActiveAt(s, Seen(s)) /\ call' = [call EXCEPT ![c] = [NewCall EXCEPT !.pc = "refreshGet",
                                                                             !.sid = s]]
       \/ ~ActiveAt(s, Seen(s)) /\ Expire(c, s, NewCall)
       \/ Faulty /\ Return(c, FALSE)
    /\ UNCHANGED <<now, idx, tokens, fate, late, unlisted>>

\* RefreshSession: GetSession, which does not look at the idle time, the age check
\* and UpdateActivity on the object, which is the cached one if the cache has it.
RefreshGet(c) ==
    LET s == call[c].sid
        shared == Hit(s) \/ (~cache[s].on /\ cacheSize < CacheMax)
        tooOld == now > sess[s].created + MaxSessionAge
    IN  /\ At(c, "refreshGet")
        /\ \/ /\ Exists(s) /\ tooOld
              /\ CacheStore(s, sess[s].active)
              /\ Expire(c, s, call[c])
           \/ /\ Exists(s) /\ ~tooOld
              /\ cache' = IF shared
                          THEN [cache EXCEPT ![s] = [on |-> TRUE, json |-> sess[s].active, active |-> now,
                                      cachedAt |-> IF cache[s].on THEN @.cachedAt ELSE now]]
                          ELSE cache
              /\ cacheSize' = IF shared /\ ~cache[s].on THEN cacheSize + 1 ELSE cacheSize
              /\ UNCHANGED sweep
              /\ call' = [call EXCEPT ![c].pc = "refreshSet", ![c].active = now]
           \/ /\ ~Exists(s) \/ Faulty
              /\ Return(c, FALSE)
              /\ UNCHANGED cacheVars
        /\ UNCHANGED <<now, sess, idx, tokens, fate, late, unlisted>>

\* Mutant of RefreshWrite: the index TTL is not refreshed.
RefreshWriteNoExpire(c) ==
    LET s == call[c].sid
    IN  \/ SetIfExists(c, s, "refreshSet", "refreshExpire", call[c].active) /\ UNCHANGED cacheVars
        \/ /\ At(c, "refreshExpire")
           /\ Return(c, TRUE)
           /\ cache' = [cache EXCEPT ![s] = NotCached]
           /\ UNCHANGED <<now, sess, idx, tokens, fate, late, unlisted, cacheSize, sweep>>

\* The write, the index TTL, and sessionCache.Delete, which does not count.
RefreshWrite(c) ==
    LET s == call[c].sid
    IN  \/ SetIfExists(c, s, "refreshSet", "refreshExpire", call[c].active) /\ UNCHANGED cacheVars
        \/ /\ ExpireIndex(c, "refreshExpire")
           /\ cache' = [cache EXCEPT ![s] = NotCached]
           /\ UNCHANGED <<cacheSize, sweep>>

\* Where forceExpireSession returns to: a list goes on with its other sessions.
AfterExpiry(c) == IF call[c].rest \cup call[c].stale = {} THEN "idle" ELSE "listNext"

\* forceExpireSession: no error stops it.
ForceExpireSession(c) ==
    \/ /\ Del(c, "forceDel", "forceSRem", "forceSRem", "deleted")
       /\ UNCHANGED <<now, idx, cacheVars, tokens, late, unlisted>>
    \/ /\ SRem(c, call[c].ids, "forceSRem", "forceTokens")
       /\ CacheDrop(call[c].ids)
       /\ UNCHANGED <<now, sess, tokens, fate, late, unlisted>>
    \/ RevokeTokens(c, "forceTokens", AfterExpiry(c), "forceTokens")

-----------------------------------------------------------------------------
(* Revocation and the session list.                                        *)

\* RevokeSession and Logout begin with GetSession and the ownership check: own tells
\* whether the session is the caller's.
BeginRevoke(c, s, own, logout) ==
    LET r == [NewCall EXCEPT !.acct = sess[s].acct, !.sid = s, !.logout = logout]
    IN  /\ At(c, "idle")
        /\ sess[s].created # 0
        /\ \/ /\ Exists(s) /\ own
              /\ call' = [call EXCEPT ![c] = [r EXCEPT !.pc = "revokeTokens", !.ids = {s}, !.todo = {s}]]
              /\ CacheStore(s, sess[s].active)
           \/ /\ Exists(s) /\ ~own /\ ~logout
              /\ Return(c, FALSE)
              /\ CacheStore(s, sess[s].active)
           \/ /\ ~Exists(s) \/ Faulty
              /\ logout
              /\ call' = [call EXCEPT ![c] = [r EXCEPT !.pc = "logoutTokens", !.todo = {s}]]
              /\ UNCHANGED cacheVars
        /\ UNCHANGED <<now, sess, idx, tokens, fate, late, unlisted>>

\* Mutant of RevokeSession: a failed token revocation is only logged.
RevokeSessionLenient(c) ==
    \/ RevokeTokens(c, "revokeTokens", "revokeDel", "revokeTokens")
    \/ /\ Del(c, "revokeDel", "revokeSRem", "idle", "revoked")
       /\ UNCHANGED <<now, idx, cacheVars, tokens, late, unlisted>>
    \/ /\ SRem(c, call[c].ids, "revokeSRem", "idle")
       /\ UNCHANGED <<now, sess, cacheVars, tokens, fate, late, unlisted>>

\* RevokeSession: the tokens go first, and an error there keeps the session.
RevokeSession(c) ==
    LET end == IF call[c].logout THEN "logoutTokens" ELSE "idle"
    IN  \/ RevokeTokens(c, "revokeTokens", "revokeDel", end)
        \/ /\ Del(c, "revokeDel", "revokeSRem", end, "revoked")
           /\ UNCHANGED <<now, idx, cacheVars, tokens, late, unlisted>>
        \/ /\ SRem(c, call[c].ids, "revokeSRem", end)
           /\ UNCHANGED <<now, sess, cacheVars, tokens, fate, late, unlisted>>

\* Logout revokes the session's tokens once more, whatever RevokeSession said.
LogoutTokens(c) ==
    /\ At(c, "logoutTokens")
    /\ \/ RevokeAllForSession(call[c].sid)
       \/ Faulty /\ UNCHANGED <<tokens, late>>
    /\ Return(c, TRUE)
    /\ UNCHANGED <<now, sess, idx, cacheVars, fate, unlisted>>

\* RevokeAllForAccount: revokeAccountSessionsScript takes the index away first.
RevokeAllForAccount(c, a) ==
    /\ At(c, "idle")
    /\ idx' = [idx EXCEPT ![a] = [members |-> {}, keyExp |-> 0]]
    /\ \/ call' = [call EXCEPT ![c] = [NewCall EXCEPT !.pc = "allTokens", !.acct = a,
                      !.ids = Members(a), !.todo = Members(a),
                      !.before = {s \in Session : Acceptable(s) /\ sess[s].acct = a
                                     /\ s \notin unlisted /\ ~\E d \in Call : s \in call[d].ids}]]
       \/ Faulty /\ Return(c, FALSE)
    /\ UNCHANGED <<now, sess, cacheVars, tokens, fate, late, unlisted>>

RevokeAllKeys(c) ==
    \/ RevokeTokens(c, "allTokens", "allDel", "allTokens")
    \/ /\ Del(c, "allDel", "idle", "idle", "deleted")
       /\ UNCHANGED <<now, idx, cacheVars, tokens, late, unlisted>>

\* ListSessionsByAccount: SMEMBERS ...
ListSessionsByAccount(c, a) ==
    /\ At(c, "idle")
    /\ Members(a) # {}
    /\ call' = [call EXCEPT ![c] = [NewCall EXCEPT !.pc = "listGet", !.acct = a, !.rest = Members(a)]]
    /\ UNCHANGED <<now, sess, idx, cacheVars, tokens, fate, late, unlisted>>

\* ... the pipeline of GETs: an entry without an answer is taken for stale.  The
\* first error decides, so a failed GET goes unnoticed behind a missing key.
ListGet(c) ==
    LET ids == call[c].rest
        gone == {s \in ids : ~Exists(s)}
        Split(failed) ==
            call' = [call EXCEPT ![c].pc = "listNext", ![c].stale = gone \cup failed,
                      ![c].rest = {s \in ids \ (gone \cup failed) : ~ActiveAt(s, sess[s].active)}]
    IN  /\ At(c, "listGet")
        /\ \/ Split({})
           \/ Faulty /\ gone # {} /\ \E F \in SUBSET (ids \ gone) : Split(F)
           \/ Faulty /\ Return(c, FALSE)
        /\ UNCHANGED <<now, sess, idx, cacheVars, tokens, fate, late, unlisted>>

ListNext(c) ==
    \/ /\ At(c, "listNext")
       /\ \/ \E s \in call[c].rest :
                call' = [call EXCEPT ![c].pc = "forceDel", ![c].ids = {s}, ![c].todo = {s},
                                     ![c].rest = @ \ {s}]
          \/ call[c].rest = {} /\ call[c].stale # {} /\ Goto(c, "listSRem")
          \/ call[c].rest = {} /\ call[c].stale = {} /\ Return(c, TRUE)
       /\ UNCHANGED <<now, sess, idx, cacheVars, tokens, fate, late, unlisted>>
    \/ /\ SRem(c, call[c].stale, "listSRem", "idle")
       /\ UNCHANGED <<now, sess, cacheVars, tokens, fate, late, unlisted>>

-----------------------------------------------------------------------------
\* evictStaleCacheEntries, run by the ticker of startCacheCleanup: Range loads the
\* value of an entry, and what it decides on may be gone when it calls Delete and
\* counts.
StaleEntries == {s \in Session : cache[s].on /\ cache[s].cachedAt + 2 * SessionTTL < now}

SweepLoad ==
    /\ sweep = {}
    /\ \E s \in StaleEntries : sweep' = {s}
    /\ UNCHANGED <<now, sess, idx, cache, cacheSize, tokens, call, fate, late, unlisted>>

SweepDelete ==
    /\ sweep # {}
    /\ cache' = [s \in Session |-> IF s \in sweep THEN NotCached ELSE cache[s]]
    /\ cacheSize' = cacheSize - 1
    /\ sweep' = {}
    /\ UNCHANGED <<now, sess, idx, tokens, call, fate, late, unlisted>>

Crash(c) ==
    /\ "crash" \in Faults
    /\ ~At(c, "idle")
    /\ Return(c, FALSE)
    /\ UNCHANGED <<now, sess, idx, cacheVars, tokens, fate, late, unlisted>>

\* The login or the refresh of session s is under way, and may write it back.
Using(c, s) ==
    /\ call[c].sid = s
    /\ call[c].pc \in {"evict", "evictTokens", "issue", "update", "updateExpire",
                       "refreshGet", "refreshSet", "refreshExpire"}

Tick ==
    /\ now < MaxTime
    /\ \A c \in Call : At(c, "idle") \/ now + 1 <= call[c].since + RequestTimeout
    /\ now' = now + 1
    /\ fate' = [s \in Session |-> IF Exists(s) /\ now + 1 > sess[s].keyExp THEN "expired"
                                  ELSE fate[s]]
    /\ unlisted' = unlisted \cup {s \in Session : idx[sess[s].acct].keyExp = now
                                                  /\ \E c \in Call : Using(c, s)}
    /\ UNCHANGED <<sess, idx, cacheVars, tokens, late, call>>

Step(c) ==
    \/ EnforceSessionLimit(c) \/ RevokeEvictedTokens(c) \/ IssueTokens(c)
    \/ UpdateSession(c) \/ DeleteSession(c)
    \/ RefreshGet(c) \/ RefreshWrite(c) \/ ForceExpireSession(c)
    \/ RevokeSession(c) \/ LogoutTokens(c) \/ RevokeAllKeys(c)
    \/ ListGet(c) \/ ListNext(c)

Begin(c) ==
    \/ \E s \in Session, a \in Account : CreateSession(c, s, a)
    \/ \E s \in Session : ValidateSession(c, s) \/ AuthorizationCodeGrant(c, s)
    \/ \E s \in Session, own, l \in BOOLEAN : BeginRevoke(c, s, own, l)
    \/ \E a \in Account : RevokeAllForAccount(c, a) \/ ListSessionsByAccount(c, a)

Next ==
    \/ \E c \in Call : Begin(c) \/ Step(c) \/ Crash(c)
    \/ SweepLoad \/ SweepDelete
    \/ Tick

Spec == Init /\ [][Next]_vars

-----------------------------------------------------------------------------
(* Properties.                                                             *)

\* Redis keys, cache and calls have their types; the counter may leave the naturals.
TypeOK ==
    /\ now \in Nat
    /\ sess \in [Session -> StoredSession]
    /\ idx \in [Account -> AccountIndex]
    /\ cache \in [Session -> CachedSession]
    /\ cacheSize \in Int
    /\ sweep \subseteq Session
    /\ tokens \subseteq Session
    /\ call \in [Call -> CallState]
    /\ fate \in [Session -> Fate]
    /\ late \subseteq Session
    /\ unlisted \subseteq Session

\* A session whose key was deleted, evicted or has expired never exists again: no
\* refresh or update that had read it before writes it back (SetIfExists).
NoResurrection ==
    \A s \in Session : fate[s] # "none" => ~Exists(s)

\* A session that RevokeSession deleted has no refresh tokens left of those it had
\* when its deletion began, whatever fails or crashes on the way.  Tokens that a login
\* or a code exchange gives it meanwhile or later (late) are not asked for.
NoOrphanTokens ==
    \A s \in Session : fate[s] = "revoked" => s \notin tokens

\* When RevokeAllForAccount answers with success, no session that it was to revoke
\* is accepted any longer ("revokes all sessions and tokens for the given account"),
\* except sessions whose index had run out under one of their requests: those it
\* cannot find.  Sessions another call was already deleting are that call's business.
RevokeAllComplete ==
    [][\A c \in Call :
          call[c].pc \in {"allTokens", "allDel"} /\ call'[c].pc = "idle" /\ call'[c].ok =>
              \A s \in call[c].before : ~Acceptable(s)']_vars

\* Every session that a validation accepts is listed in its account's index, unless a
\* call is deleting it or the index ran out while a login or refresh of that session
\* was under way: EXPIRE comes too late for an index that is gone, and nothing lists
\* the session again.
IndexCoversSessions ==
    \A s \in Session : Acceptable(s) =>
        \/ s \in Members(sess[s].acct)
        \/ s \in unlisted
        \/ \E c \in Call : s \in call[c].ids

\* An account never has more sessions than the limit plus the logins that are still
\* to evict.
SessionLimit ==
    \A a \in Account :
        Cardinality(Members(a)) <=
            MaxSessions + Cardinality({c \in Call : At(c, "evict") /\ call[c].acct = a})

\* Once nothing is under way, a deleted session has none of the tokens it had when its
\* deletion began, however it was deleted.
DeletionRevokesTokens ==
    (\A c \in Call : At(c, "idle")) =>
        \A s \in Session : fate[s] \in {"deleted", "revoked"} => s \notin tokens
=============================================================================
