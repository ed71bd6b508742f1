----------------------------- MODULE Privileges -----------------------------
(***************************************************************************)
(* What an account may still do after an administrator has taken its role  *)
(* away, suspended or deleted it.  The other parts do not see the database *)
(* but copies of it: the role cache in Redis, the claims of an access      *)
(* token, the sessions, and the cache of the account validator in front of *)
(* the OAuth2 endpoints, whose grants issue tokens with roles as well.     *)
(* Each copy runs out; the properties bound by when.                       *)
(*                                                                         *)
(* There is one role, admin, which carries the permission to manage users. *)
(* Requests run concurrently; a command to Redis, a query and an atomic    *)
(* update of a map is one action.  Logins, Sessions and Passwords model    *)
(* how a login proves who it is and how sessions are kept: here a login is *)
(* what it reads and writes of roles, sessions and tokens, and an account  *)
(* has its sessions all together or none.                                  *)
(***************************************************************************)
EXTENDS Naturals, FiniteSets, FiniteSetsExt

CONSTANTS
    Account, NoAccount,
    Call,            \* concurrent requests
    RoleTTL,         \* roleCacheTTL
    AccessTTL,       \* access_token_ttl
    Leeway,          \* accessTokenClockSkew of the parser
    ValidatorTTL,    \* account_validator_cache_ttl
    CleanupInterval, \* cacheCleanupInterval
    CacheMax,        \* accountValidatorCacheMaxSize
    RequestTimeout,  \* of TimeoutMiddleware: no request takes longer
    MaxTime,         \* bound of the clock
    MaxRequests      \* bound of the number of requests

ASSUME PrivilegesAssumption ==
    /\ NoAccount \notin Account /\ IsFiniteSet(Account)
    /\ RoleTTL \in Nat \ {0} /\ AccessTTL \in Nat \ {0} /\ ValidatorTTL \in Nat \ {0}
    /\ Leeway \in Nat /\ CleanupInterval \in Nat /\ CacheMax \in Nat /\ RequestTimeout \in Nat
    /\ MaxTime \in Nat /\ MaxRequests \in Nat

VARIABLES
    now,         \* the clock
    status,      \* status of each account
    admins,      \* account_roles: the accounts that have the role
    sess,        \* accounts with sessions that can be refreshed
    tok,         \* tok[a][C]: when the newest access token of a with claims C, of a
                 \* session that exists, expires; 0 when there is none
    devtok,      \* the same of the tokens without a session, of the device grant
    rcache,      \* auth:roles:{account}
    vcache,      \* cache of the account validator
    cacheSize,   \* its cacheSize
    lastCleanup, \* its lastCleanup
    call,        \* the requests under way
    asked,       \* requests so far
    held,        \* history: when each account last had the role
    lastActive   \* history: when each account was last active

store == <<status, admins, sess, tok, devtok, rcache>>
validator == <<vcache, cacheSize, lastCleanup>>
history == <<held, lastActive>>
vars == <<now, store, validator, call, asked, history>>

Owner == Account \cup {NoAccount}
\* The claims that the role stands for: its name, with the scope that goes with it, and
\* its permission.
Grant == {"admin", "admin:users:manage"}
Claims == SUBSET Grant
RoleRecord == [claims: Claims, exp: Nat]
ValidatorResult == [active: BOOLEAN, exp: Nat]
NoRoles == [claims |-> {}, exp |-> 0]
NoResult == [active |-> FALSE, exp |-> 0]

PC == {"idle", "session", "get", "find", "set", "issue",
       "add", "assign", "remove", "unassign", "invalidate",
       "suspend", "activate", "delete", "revoke",
       "lookup", "account", "room", "store", "granted", "permissions", "mint"}
CallState == [pc: PC, acct: Owner,
              checked: BOOLEAN,   \* the account was found active
              alive: BOOLEAN,     \* the session of the request exists
              claims: Claims,     \* the claims that the request has read
              active: BOOLEAN,    \* the status that the request has read
              replacing: BOOLEAN, \* replacing of IsAccountActive
              since: Nat]         \* when the request began
NoCall == [pc |-> "idle", acct |-> NoAccount, checked |-> FALSE, alive |-> FALSE,
           claims |-> {}, active |-> FALSE, replacing |-> FALSE, since |-> 0]

\* Some accounts are administrators, with a session and a fresh token.
Init ==
    /\ now = 0
    /\ status = [a \in Account |-> "active"]
    /\ admins \in SUBSET Account
    /\ sess = admins
    /\ tok = [a \in Account |-> [C \in Claims |->
                 IF a \in admins /\ C = Grant THEN AccessTTL ELSE 0]]
    /\ devtok = [a \in Account |-> [C \in Claims |-> 0]]
    /\ rcache = [a \in Account |-> NoRoles]
    /\ vcache = [a \in Account |-> NoResult]
    /\ cacheSize = 0 /\ lastCleanup = 0
    /\ call = [c \in Call |-> NoCall]
    /\ asked = 0
    /\ held = [a \in Account |-> 0]
    /\ lastActive = [a \in Account |-> 0]

At(c, pc) == call[c].pc = pc
Goto(c, pc) == call' = [call EXCEPT ![c].pc = pc]
Return(c) == call' = [call EXCEPT ![c] = NoCall]

Arrive(c) ==
    /\ At(c, "idle")
    /\ asked < MaxRequests
    /\ asked' = asked + 1
Begun(a, pc) == [NoCall EXCEPT !.pc = pc, !.acct = a, !.since = now]

\* FindByID finds the account, which is not deleted, and it is active.
IsActive(a) == status[a] = "active"

-----------------------------------------------------------------------------
(* Tokens of the first party: login and refresh *)

\* A login has verified its user, found the account active and is about to create its
\* session; a refresh has validated its session.
LoginVerified(c) ==
    \E a \in Account :
        /\ Arrive(c)
        /\ IsActive(a)
        /\ call' = [call EXCEPT ![c] = [Begun(a, "session") EXCEPT !.checked = TRUE]]
        /\ UNCHANGED <<now, store, validator, history>>

RefreshToken(c) ==
    \E a \in Account :
        /\ Arrive(c)
        /\ a \in sess
        /\ call' = [call EXCEPT ![c] = [Begun(a, "get") EXCEPT !.alive = TRUE]]
        /\ UNCHANGED <<now, store, validator, history>>

CreateSession(c) ==
    /\ At(c, "session")
    /\ call' = [call EXCEPT ![c].pc = "get", ![c].alive = TRUE]
    /\ UNCHANGED <<now, store, validator, asked, history>>

\* Mutant: a refresh does not look at the status.
CheckAccountSkipped(c) ==
    /\ call[c].pc \in {"get", "find", "set", "issue"}
    /\ ~call[c].checked
    /\ call' = [call EXCEPT ![c].checked = TRUE]
    /\ UNCHANGED <<now, store, validator, asked, history>>

\* A refresh looks the account up while buildTokenClaims is running; the lookup may fail.
CheckAccount(c) ==
    /\ call[c].pc \in {"get", "find", "set", "issue"}
    /\ ~call[c].checked
    /\ \/ /\ IsActive(call[c].acct)
          /\ call' = [call EXCEPT ![c].checked = TRUE]
       \/ Return(c)
    /\ UNCHANGED <<now, store, validator, asked, history>>

\* fetchRolesCached: a hit gives the claims, a miss or an error goes to the database.
RoleCacheGet(c) ==
    /\ At(c, "get")
    /\ LET e == rcache[call[c].acct] IN
       \/ /\ now < e.exp
          /\ call' = [call EXCEPT ![c].claims = e.claims, ![c].pc = "issue"]
       \/ Goto(c, "find")
    /\ UNCHANGED <<now, store, validator, asked, history>>

FindRolesByAccountID(a) == IF a \in admins THEN Grant ELSE {}

\* The query may fail; the request then fails, and a login deletes the session it created.
FetchRoles(c) ==
    /\ At(c, "find")
    /\ \/ call' = [call EXCEPT ![c].claims = FindRolesByAccountID(call[c].acct), ![c].pc = "set"]
       \/ Return(c)
    /\ UNCHANGED <<now, store, validator, asked, history>>

\* Mutant: the entry is stored without an expiry.
RoleEntryKept(C) == [claims |-> C, exp |-> MaxTime + 1]
RoleEntry(C) == [claims |-> C, exp |-> now + RoleTTL]

\* The entry is written back, or Redis fails, which is ignored.
RoleCacheSet(c) ==
    /\ At(c, "set")
    /\ rcache' \in {rcache, [rcache EXCEPT ![call[c].acct] = RoleEntry(call[c].claims)]}
    /\ Goto(c, "issue")
    /\ UNCHANGED <<now, status, admins, sess, tok, devtok, validator, asked, history>>

\* GenerateAccessToken.  The token of a session that was deleted meanwhile is refused by
\* the middleware, and a refresh does not hand it out.
IssueToken(c) ==
    LET a == call[c].acct IN
    /\ At(c, "issue")
    /\ call[c].checked
    /\ IF call[c].alive
       THEN /\ tok' = [tok EXCEPT ![a][call[c].claims] = now + AccessTTL]
            /\ sess' = sess \cup {a}
       ELSE UNCHANGED <<tok, sess>>
    /\ Return(c)
    /\ UNCHANGED <<now, status, admins, devtok, rcache, validator, asked, history>>

-----------------------------------------------------------------------------
(* The admin API *)

\* The parser accepts an expired token a little longer.  A token that names a session
\* is valid while the session exists.
Unexpired(exp) == exp # 0 /\ now < exp + Leeway
ValidateBearerToken(x, C) == Unexpired(tok[x][C]) \/ Unexpired(devtok[x][C])
AdminRequiredMiddleware(C) == "admin" \in C
RequirePermission(C) == "admin:users:manage" \in C
isSelfAccount(x, a) == x = a

\* A request to manage account a with the token of account x passes the middleware.
Admitted(x, a) ==
    /\ \E C \in Claims :
          ValidateBearerToken(x, C) /\ AdminRequiredMiddleware(C) /\ RequirePermission(C)
    /\ ~isSelfAccount(x, a)

\* The operation that the request of administrator x goes on to.
AdminRequest(c, op) ==
    \E x, a \in Account :
        /\ Arrive(c)
        /\ Admitted(x, a)
        /\ call' = [call EXCEPT ![c] = Begun(a, op)]
        /\ UNCHANGED <<now, store, validator, history>>

AddRole(c) == AdminRequest(c, "add")
RemoveRole(c) == AdminRequest(c, "remove")
DisableAccount(c) == AdminRequest(c, "suspend")
EnableAccount(c) == AdminRequest(c, "activate")
DeleteAccount(c) == AdminRequest(c, "delete")

\* AssignRole reads the account in its transaction, which takes no lock on it, ...
AssignRole(c) ==
    /\ At(c, "add")
    /\ IF IsActive(call[c].acct) THEN Goto(c, "assign") ELSE Return(c)
    /\ UNCHANGED <<now, store, validator, asked, history>>

\* ... and writes the assignment.
AssignRoleToAccount(c) ==
    /\ At(c, "assign")
    /\ admins' = admins \cup {call[c].acct}
    /\ held' = [held EXCEPT ![call[c].acct] = now]
    /\ Goto(c, "invalidate")
    /\ UNCHANGED <<now, status, sess, tok, devtok, rcache, validator, asked, lastActive>>

UnassignRole(c) ==
    /\ At(c, "remove")
    /\ IF IsActive(call[c].acct) THEN Goto(c, "unassign") ELSE Return(c)
    /\ UNCHANGED <<now, store, validator, asked, history>>

\* No row is updated when the account does not have the role.
RemoveRoleFromAccount(c) ==
    LET a == call[c].acct IN
    /\ At(c, "unassign")
    /\ IF a \in admins
       THEN admins' = admins \ {a} /\ Goto(c, "invalidate")
       ELSE UNCHANGED admins /\ Return(c)
    /\ UNCHANGED <<now, status, sess, tok, devtok, rcache, validator, asked, history>>

\* A failure of Redis is logged only.
InvalidateRoleCache(c) ==
    /\ At(c, "invalidate")
    /\ rcache' \in {rcache, [rcache EXCEPT ![call[c].acct] = NoRoles]}
    /\ Return(c)
    /\ UNCHANGED <<now, status, admins, sess, tok, devtok, validator, asked, history>>

\* transitionAccountStatus
Transition(a, from, to) ==
    /\ status[a] = from
    /\ status' = [status EXCEPT ![a] = to]

SuspendAccount(c) ==
    LET a == call[c].acct IN
    /\ At(c, "suspend")
    /\ IF IsActive(a) THEN Transition(a, "active", "suspended") /\ Goto(c, "revoke")
                      ELSE UNCHANGED status /\ Return(c)
    /\ UNCHANGED <<now, admins, sess, tok, devtok, rcache, validator, asked, history>>

ActivateAccount(c) ==
    LET a == call[c].acct IN
    /\ At(c, "activate")
    /\ IF status[a] = "suspended"
       THEN /\ Transition(a, "suspended", "active")
            /\ lastActive' = [lastActive EXCEPT ![a] = now]
       ELSE UNCHANGED <<status, lastActive>>
    /\ Return(c)
    /\ UNCHANGED <<now, admins, sess, tok, devtok, rcache, validator, asked, held>>

SoftDeleteRolesByAccountID(a) == admins' = admins \ {a}
SoftDeleteAccountByID(a) == status' = [status EXCEPT ![a] = "deleted"]

\* Deleting again changes nothing, but revokes again.  The role cache is left alone.
SoftDeleteAccount(c) ==
    LET a == call[c].acct IN
    /\ At(c, "delete")
    /\ IF status[a] = "deleted" THEN UNCHANGED <<status, admins>>
       ELSE SoftDeleteRolesByAccountID(a) /\ SoftDeleteAccountByID(a)
    /\ Goto(c, "revoke")
    /\ UNCHANGED <<now, sess, tok, devtok, rcache, validator, asked, history>>

\* The sessions of the account, also those of the requests under way, are gone.  A token
\* without a session is not touched.
RevokeSessions(c) ==
    LET a == call[c].acct IN
    /\ sess' = sess \ {a}
    /\ tok' = [tok EXCEPT ![a] = [C \in Claims |-> 0]]
    /\ call' = [d \in Call |-> IF d = c THEN NoCall
                              ELSE IF call[d].acct = a THEN [call[d] EXCEPT !.alive = FALSE]
                              ELSE call[d]]

\* Redis may fail; the administrator then gets an error.
RevokeAllForAccount(c) ==
    /\ At(c, "revoke")
    /\ RevokeSessions(c) \/ (Return(c) /\ UNCHANGED <<sess, tok>>)
    /\ UNCHANGED <<now, status, admins, devtok, rcache, validator, asked, history>>

-----------------------------------------------------------------------------
(* The account validator of the OAuth2 endpoints *)

\* A grant on behalf of the account asks IsAccountActive, which first removes the expired
\* entries, once in a while.  The session that its code or refresh token names may exist.
IsAccountActive(c) ==
    \E a \in Account :
        /\ Arrive(c)
        /\ call' = [call EXCEPT ![c] = [Begun(a, "lookup") EXCEPT !.alive = a \in sess]]
        /\ IF now > lastCleanup + CleanupInterval
           THEN LET old == {b \in Account : vcache[b] # NoResult /\ now > vcache[b].exp} IN
                /\ vcache' = [b \in Account |-> IF b \in old THEN NoResult ELSE vcache[b]]
                /\ cacheSize' = cacheSize - Min({cacheSize, Cardinality(old)})
                /\ lastCleanup' = now
           ELSE UNCHANGED validator
        /\ UNCHANGED <<now, store, history>>

Answer(c, active) == IF active THEN Goto(c, "granted") ELSE Return(c)

\* Mutant: the expiry of an entry is not looked at.
CacheFreshAny(a) == vcache[a] # NoResult
CacheFresh(a) == now < vcache[a].exp

\* An expired entry is deleted; the request means to replace it.
CacheLookup(c) ==
    LET a == call[c].acct IN
    /\ At(c, "lookup")
    /\ IF CacheFresh(a)
       THEN Answer(c, vcache[a].active) /\ UNCHANGED vcache
       ELSE /\ vcache' = [vcache EXCEPT ![a] = NoResult]
            /\ call' = [call EXCEPT ![c].pc = "account", ![c].replacing = vcache[a] # NoResult]
    /\ UNCHANGED <<now, store, cacheSize, lastCleanup, asked, history>>

\* A deleted account is not found, which is an answer; an error is none, and not cached.
FindAccountByID(c) ==
    /\ At(c, "account")
    /\ \/ call' = [call EXCEPT ![c].active = IsActive(call[c].acct), ![c].pc = "room"]
       \/ Return(c)
    /\ UNCHANGED <<now, store, validator, asked, history>>

\* There is room for the entry, or it replaces one; if not, the answer is not cached.
CacheRoom(c) ==
    /\ At(c, "room")
    /\ IF call[c].replacing \/ cacheSize < CacheMax THEN Goto(c, "store")
                                                   ELSE Answer(c, call[c].active)
    /\ UNCHANGED <<now, store, validator, asked, history>>

CacheStore(c) ==
    /\ At(c, "store")
    /\ vcache' = [vcache EXCEPT ![call[c].acct] = [active |-> call[c].active, exp |-> now + ValidatorTTL]]
    /\ cacheSize' = IF call[c].replacing THEN cacheSize ELSE cacheSize + 1
    /\ Answer(c, call[c].active)
    /\ UNCHANGED <<now, store, lastCleanup, asked, history>>

-----------------------------------------------------------------------------
(* Tokens of the OAuth2 clients: the code, refresh and device grants *)

RolesOf(a) == FindRolesByAccountID(a) \cap {"admin"}
PermissionsOf(a) == FindRolesByAccountID(a) \ {"admin"}

\* The grant reads the roles from the database.  It ends here when the query fails, or
\* when the rotation of its refresh token or the claim of its device code has failed.
GetAccountRoles(c) ==
    /\ At(c, "granted")
    /\ \/ call' = [call EXCEPT ![c].claims = RolesOf(call[c].acct), ![c].pc = "permissions"]
       \/ Return(c)
    /\ UNCHANGED <<now, store, validator, asked, history>>

\* A second query, which may see other roles, gives the permissions.
GetAccountPermissions(c) ==
    /\ At(c, "permissions")
    /\ \/ call' = [call EXCEPT ![c].claims = @ \cup PermissionsOf(call[c].acct), ![c].pc = "mint"]
       \/ Return(c)
    /\ UNCHANGED <<now, store, validator, asked, history>>

\* The token of a code or refresh grant names the session, which is not looked at: if it
\* is gone, the middleware refuses the token.
GrantSessionToken(c) ==
    LET a == call[c].acct IN
    /\ At(c, "mint")
    /\ tok' = IF call[c].alive THEN [tok EXCEPT ![a][call[c].claims] = now + AccessTTL] ELSE tok
    /\ Return(c)
    /\ UNCHANGED <<now, status, admins, sess, devtok, rcache, validator, asked, history>>

\* That of a device grant names none.
GrantDeviceToken(c) ==
    /\ At(c, "mint")
    /\ devtok' = [devtok EXCEPT ![call[c].acct][call[c].claims] = now + AccessTTL]
    /\ Return(c)
    /\ UNCHANGED <<now, status, admins, sess, tok, rcache, validator, asked, history>>

-----------------------------------------------------------------------------
Tick ==
    /\ now < MaxTime
    /\ \A c \in Call : At(c, "idle") \/ now + 1 <= call[c].since + RequestTimeout
    /\ now' = now + 1
    /\ held' = [a \in Account |-> IF a \in admins THEN now + 1 ELSE held[a]]
    /\ lastActive' = [a \in Account |-> IF IsActive(a) THEN now + 1 ELSE lastActive[a]]
    /\ UNCHANGED <<store, validator, call, asked>>

Next ==
    \/ Tick
    \/ \E c \in Call :
           \/ LoginVerified(c) \/ RefreshToken(c) \/ CreateSession(c) \/ CheckAccount(c)
           \/ RoleCacheGet(c) \/ FetchRoles(c) \/ RoleCacheSet(c) \/ IssueToken(c)
           \/ AddRole(c) \/ RemoveRole(c) \/ DisableAccount(c) \/ EnableAccount(c)
           \/ DeleteAccount(c) \/ AssignRole(c) \/ AssignRoleToAccount(c) \/ UnassignRole(c)
           \/ RemoveRoleFromAccount(c) \/ InvalidateRoleCache(c) \/ SuspendAccount(c)
           \/ ActivateAccount(c) \/ SoftDeleteAccount(c) \/ RevokeAllForAccount(c)
           \/ IsAccountActive(c) \/ CacheLookup(c) \/ FindAccountByID(c) \/ CacheRoom(c)
           \/ CacheStore(c) \/ GetAccountRoles(c) \/ GetAccountPermissions(c)
           \/ GrantSessionToken(c) \/ GrantDeviceToken(c)

Spec == Init /\ [][Next]_vars

-----------------------------------------------------------------------------
(* Properties *)

\* The database, the copies of it and the requests under way have their types.
TypeOK ==
    /\ now \in Nat
    /\ status \in [Account -> {"active", "suspended", "deleted"}]
    /\ admins \subseteq Account
    /\ sess \subseteq Account
    /\ tok \in [Account -> [Claims -> Nat]] /\ devtok \in [Account -> [Claims -> Nat]]
    /\ rcache \in [Account -> RoleRecord]
    /\ vcache \in [Account -> ValidatorResult]
    /\ cacheSize \in Nat /\ lastCleanup \in Nat
    /\ call \in [Call -> CallState]
    /\ asked \in Nat
    /\ held \in [Account -> Nat]
    /\ lastActive \in [Account -> Nat]

\* A role that was taken away runs out: it may be read from the database and be written to
\* the cache after InvalidateRoleCache (one RequestTimeout), be found there before it
\* expires, be put in a token (another RequestTimeout), and open the admin API until the
\* parser no longer accepts that.
RoleRunsOut ==
    \A x, a \in Account : Admitted(x, a) =>
        now <= held[x] + 2 * RequestTimeout + (RoleTTL - 1) + (AccessTTL - 1) + Leeway

\* The admin API is closed to an account that is suspended or deleted, also when its
\* sessions could not be revoked: a slow request may leave its verdict in the validator's
\* cache (one RequestTimeout), a grant find it there and issue a token (another one), and
\* the parser accept that to its end.
SuspensionRunsOut ==
    \A x, a \in Account : Admitted(x, a) =>
        now <= lastActive[x] + 2 * RequestTimeout + (ValidatorTTL - 1) + (AccessTTL - 1) + Leeway

\* IsAccountActive says so no longer than the entry lives that a slow request has stored.
ValidatorLags ==
    [][\A c \in Call : ~At(c, "granted") /\ call'[c].pc = "granted" =>
           now <= lastActive[call[c].acct] + RequestTimeout + (ValidatorTTL - 1)]_vars
=============================================================================
