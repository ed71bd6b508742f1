--------------------------- MODULE SessionsProofs ---------------------------
(***************************************************************************)
(* Proofs about Sessions, for any sessions, accounts, requests, limits and *)
(* lifetimes.  Whatever fails, a session that is gone stays gone, and one  *)
(* that RevokeSession deleted has none of its earlier tokens.  If nothing  *)
(* fails (Reliable), and however long requests take, every deletion takes  *)
(* the earlier tokens with it, the limit of sessions holds, the index of   *)
(* an account covers its sessions but those it ran out on, and revoking    *)
(* all of them misses no other.                                            *)
(*                                                                         *)
(* The invariant says what each request under way may rely on (CallOK),    *)
(* and what relates the keys, the index, the tokens and the cache.         *)
(***************************************************************************)
EXTENDS Sessions, FiniteSetTheorems, TLAPS

Reliable == Faults = {}

\* A session was there, and is not any more; it does not come back.
Gone(s) == sess[s].created # 0 /\ ~Exists(s)

\* The steps of a login until it has issued tokens or given up; the steps that know a
\* session; those with tokens left to revoke; those that have not yet deleted.
LoginPC == {"evict", "evictTokens", "issue", "cleanGet", "cleanDel"}
SidPC == LoginPC \cup {"update", "updateExpire", "cleanSRem", "refreshGet", "refreshSet",
                       "refreshExpire", "revokeTokens", "revokeDel", "revokeSRem", "logoutTokens"}
TodoPC == {"evictTokens", "forceDel", "forceSRem", "forceTokens", "revokeTokens",
           "logoutTokens", "allTokens"}
BeforePC == {"cleanDel", "forceDel", "revokeTokens", "revokeDel", "allTokens", "allDel"}
RevokePC == {"revokeTokens", "revokeDel"} \cup IF Reliable THEN {"allTokens", "allDel"} ELSE {}

\* The steps of a login or a refresh that may still write the session back; those that
\* have written, or hold an object that the cache shares.
UsePC == {"evict", "evictTokens", "issue", "update", "updateExpire",
          "refreshGet", "refreshSet", "refreshExpire"}
WritePC == {"refreshSet", "refreshExpire", "updateExpire"}

\* The sessions that a request is about.
SidOK(q) ==
    /\ q.active <= now
    /\ q.pc \in SidPC => q.sid \in Session /\ sess[q.sid].created # 0
    /\ \A s \in q.ids \cup q.todo \cup q.rest \cup q.stale : sess[s].created # 0

\* Its progress.
WorkOK(q) ==
    /\ q.pc \in {"idle", "evict", "issue"} => q.ids = {}
    /\ q.pc \notin TodoPC => q.todo = {}
    /\ q.pc = "forceDel" => q.ids \subseteq q.todo
    /\ q.pc \in {"evict", "evictTokens", "issue", "cleanGet"} => q.stale = {}
    /\ q.pc \in {"cleanDel", "cleanSRem"} => q.ids = {q.sid} /\ q.stale \subseteq {q.sid}
    /\ q.pc \in {"revokeTokens", "revokeDel", "logoutTokens"} => q.todo \subseteq {q.sid}

\* The tokens it has revoked, or a login has not issued yet.
TokensOK(q) ==
    /\ q.pc \in RevokePC => \A s \in q.ids \ q.todo : s \notin tokens
    /\ Reliable /\ q.pc \in LoginPC => q.sid \notin tokens

\* The keys it has deleted, or found missing.
GoneOK(q) ==
    Reliable => /\ q.pc \notin BeforePC => \A s \in q.ids : Gone(s)
                /\ q.pc # "cleanDel" => \A s \in q.stale : Gone(s)

\* What RevokeAllForAccount is to revoke, it does.
BeforeOK(q) ==
    Reliable /\ q.pc \in {"allTokens", "allDel"} => q.before \subseteq q.ids

CallOK(q) == SidOK(q) /\ WorkOK(q) /\ TokensOK(q) /\ GoneOK(q) /\ BeforeOK(q)
CallsInv == \A c \in Call : CallOK(call[c])

KeysInv ==
    /\ now >= 1
    /\ \A s \in Session :
           /\ sess[s].created = 0 => sess[s].keyExp = 0 /\ fate[s] = "none" /\ s \notin tokens
           /\ fate[s] # "none" => ~Exists(s)
           /\ sess[s].active <= now
    /\ \A a \in Account : \A s \in idx[a].members : sess[s].created # 0

LoginInv ==
    \A c, d \in Call : /\ call[c].pc \in LoginPC /\ call[d].pc \in LoginPC
                       /\ call[c].sid = call[d].sid
                       => c = d

OrphanInv ==
    /\ NoOrphanTokens
    /\ Reliable => \A s \in Session :
           fate[s] \in {"deleted", "revoked"} /\ s \in tokens =>
               \E c \in Call : s \in call[c].todo

Evicting(a) == {c \in Call : At(c, "evict") /\ call[c].acct = a}
LimitInv ==
    Reliable => \A a \in Account : Cardinality(Members(a)) <= MaxSessions + Cardinality(Evicting(a))

\* The index outlives every session in it that is accepted, or is about to be written;
\* the others are idle for good.
Covered(s) ==
    LET a == sess[s].acct
    IN  /\ s \in idx[a].members /\ now <= idx[a].keyExp
        /\ \/ sess[s].active + SessionTTL <= idx[a].keyExp
           \/ \E c \in Call : call[c].pc \in {"refreshExpire", "updateExpire"} /\ call[c].sid = s
Idle(s) ==
    /\ now > sess[s].active + SessionTTL
    /\ \A c \in Call : call[c].pc \in UsePC => call[c].sid # s
IndexInv ==
    Reliable => \A s \in Session :
        /\ Exists(s) /\ s \notin unlisted
        /\ \A c \in Call : s \notin call[c].ids
        => Covered(s) \/ Idle(s)

\* What the cache has of a session, Redis has, or a request has read or written it and
\* will remove it from the cache.
CacheInv ==
    /\ \A s \in Session : cache[s].on => cache[s].json <= cache[s].active /\ cache[s].active <= now
    /\ Reliable => \A s \in Session :
           Exists(s) /\ Hit(s) /\ cache[s].active # sess[s].active =>
               \E c \in Call : call[c].pc \in WritePC /\ call[c].sid = s

Inv == TypeOK /\ KeysInv /\ CallsInv /\ LoginInv /\ OrphanInv /\ LimitInv /\ IndexInv /\ CacheInv

-----------------------------------------------------------------------------
(* Requests.                                                               *)

\* What the proofs use of the assumptions about the constants.
LEMMA Constants ==
    /\ SessionTTL \in Nat \ {0} /\ MaxSessionAge \in Nat \ {0} /\ MaxSessions \in Nat \ {0}
    /\ CacheMax \in Nat /\ RequestTimeout \in Nat
BY ConfigAssumption

USE Constants

\* A request that is not under way relies on nothing.
LEMMA IdleCall ==
    /\ NoCall \in CallState /\ NoCall.pc = "idle" /\ NoCall.ids = {} /\ NoCall.todo = {}
    /\ NoCall.rest = {} /\ NoCall.stale = {} /\ NoCall.active = 0 /\ NoCall.since = 0
    /\ NoCall.before = {}
<1>1. (CHOOSE a \in Account : TRUE) \in Account
    BY NamesAssumption, Zenon
<1>2. PICK a \in Account : a = CHOOSE x \in Account : TRUE
    BY <1>1
<1>3. NoCall = [pc |-> "idle", acct |-> a, sid |-> NoSession,
                ids |-> {}, todo |-> {}, rest |-> {}, stale |-> {}, logout |-> FALSE,
                active |-> 0, since |-> 0, before |-> {}, ok |-> FALSE]
    BY <1>2 DEF NoCall
<1> QED BY <1>3 DEF CallState, PC

\* What the steps of others leave to a request: sessions keep their accounts, and those
\* that are gone stay gone.
Evolves ==
    /\ now' = now
    /\ \A s \in Session : sess[s].created # 0 =>
           /\ sess'[s].created = sess[s].created /\ sess'[s].acct = sess[s].acct
           /\ ~Exists(s) => ~Exists(s)'

\* No tokens are issued to a session that is being deleted, or that a login still owns.
Issues(q) ==
    \A s \in tokens' \ tokens : /\ s \notin q.ids
                                /\ Reliable /\ q.pc \in LoginPC => s # q.sid

\* What a call relies on stays true while keys and tokens change as Evolves and Issues say.
LEMMA CallStays ==
    ASSUME TypeOK, NEW q \in CallState, CallOK(q), Evolves, Issues(q)
    PROVE  CallOK(q)'
<1>1. /\ q.ids \subseteq Session /\ q.todo \subseteq Session
      /\ q.rest \subseteq Session /\ q.stale \subseteq Session
    BY DEF CallState
<1>2. SidOK(q)'
    BY <1>1 DEF CallOK, SidOK, Evolves, SidPC, LoginPC
<1>3. WorkOK(q)'
    BY DEF CallOK, WorkOK, TodoPC
<1>4. TokensOK(q)'
    BY DEF CallOK, TokensOK, Issues, RevokePC, LoginPC, Reliable
<1>5. \A s \in Session : Gone(s) => Gone(s)'
    BY DEF Gone, Evolves
<1>6. GoneOK(q)'
    BY <1>1, <1>5 DEF CallOK, GoneOK, BeforePC, Reliable
<1>7. BeforeOK(q)'
    BY DEF CallOK, BeforeOK, Reliable
<1> QED BY <1>2, <1>3, <1>4, <1>6, <1>7 DEF CallOK

\* One request moves on.
LEMMA OneCallMoves ==
    ASSUME TypeOK, CallsInv, Evolves, NEW c \in Call, NEW n \in CallState,
           call' = [call EXCEPT ![c] = n], CallOK(n)',
           \A d \in Call : d # c => Issues(call[d])
    PROVE  /\ call' \in [Call -> CallState] /\ CallsInv'
           /\ call'[c] = n /\ \A d \in Call : d # c => call'[d] = call[d]
<1>1. call' \in [Call -> CallState] /\ call'[c] = n /\ \A d \in Call : d # c => call'[d] = call[d]
    BY DEF TypeOK
<1>2. ASSUME NEW d \in Call PROVE CallOK(call[d])'
    <2>1. CASE d = c
        <3>1. PICK m : m = call'[d] /\ CallOK(m)'
            BY <1>1, <2>1
        <3> QED BY <3>1 DEF CallOK, SidOK, WorkOK, TokensOK, GoneOK, BeforeOK
    <2>2. CASE d # c
        <3>1. PICK q \in CallState : q = call[d] /\ CallOK(q) /\ Issues(q)
            BY <2>2 DEF TypeOK, CallsInv, Issues
        <3>2. CallOK(q)'
            BY <3>1, CallStays
        <3>3. PICK m : m = call'[d] /\ CallOK(m)'
            BY <1>1, <2>2, <3>1, <3>2
        <3> QED BY <3>3 DEF CallOK, SidOK, WorkOK, TokensOK, GoneOK, BeforeOK
    <2> QED BY <2>1, <2>2
<1> QED BY <1>1, <1>2 DEF CallsInv

\* No two logins have the same session.
LEMMA LoginKept ==
    ASSUME LoginInv, CallsInv, NEW c \in Call, NEW n, call'[c] = n,
           \A d \in Call : d # c => call'[d] = call[d],
           n.pc \in LoginPC => \/ call[c].pc \in LoginPC /\ n.sid = call[c].sid
                               \/ sess[n.sid].created = 0
    PROVE  LoginInv'
<1>1. \A d \in Call : call[d].pc \in LoginPC => sess[call[d].sid].created # 0
    BY DEF CallsInv, CallOK, SidOK, SidPC
<1> QED BY <1>1 DEF LoginInv

-----------------------------------------------------------------------------
(* The limit of sessions.                                                  *)

\* There are finitely many sessions and requests.
LEMMA Finite ==
    ASSUME NEW S, S \subseteq Session \/ S \subseteq Call, NEW T \in SUBSET S
    PROVE  /\ IsFiniteSet(S) /\ Cardinality(S) \in Nat
           /\ IsFiniteSet(T) /\ Cardinality(T) \in Nat /\ Cardinality(T) <= Cardinality(S)
<1>1. IsFiniteSet(S)
    BY NamesAssumption, FS_Subset
<1>2. IsFiniteSet(T) /\ Cardinality(T) <= Cardinality(S)
    BY <1>1, FS_Subset
<1> QED BY <1>1, <1>2, FS_CardinalityType

\* The members of an index are sessions, the logins that evict are calls.
LEMMA SetsOf ==
    ASSUME TypeOK, NEW a \in Account
    PROVE  Members(a) \subseteq Session /\ Evicting(a) \subseteq Call
BY DEF TypeOK, AccountIndex, Members, Evicting

\* Nobody is added, and no login stops evicting.
LEMMA LimitKept ==
    ASSUME TypeOK, LimitInv,
           Reliable => \A a \in Account : /\ Members(a)' \subseteq Members(a)
                                          /\ Evicting(a) \subseteq Evicting(a)' /\ Evicting(a)' \subseteq Call
    PROVE  LimitInv'
<1> SUFFICES ASSUME Reliable, NEW a \in Account
             PROVE  Cardinality(Members(a)') <= MaxSessions + Cardinality(Evicting(a)')
    BY DEF LimitInv, Reliable
<1>1. PICK M, E : M = Members(a) /\ E = Evicting(a)
    OBVIOUS
<1>2. PICK N, F : N = Members(a)' /\ F = Evicting(a)'
    OBVIOUS
<1>3. M \subseteq Session /\ N \in SUBSET M /\ F \subseteq Call /\ E \in SUBSET F
    BY <1>1, <1>2, SetsOf
<1>4. Cardinality(N) <= Cardinality(M) /\ Cardinality(N) \in Nat /\ Cardinality(M) \in Nat
    BY <1>3, Finite
<1>5. Cardinality(E) <= Cardinality(F) /\ Cardinality(E) \in Nat /\ Cardinality(F) \in Nat
    BY <1>3, Finite
<1>6. Cardinality(M) <= MaxSessions + Cardinality(E)
    BY <1>1 DEF LimitInv
<1> QED BY <1>2, <1>4, <1>5, <1>6

\* A login adds its session, and is to evict.
LEMMA LimitCreated ==
    ASSUME TypeOK, LimitInv, NEW a \in Account, NEW s \in Session, NEW c \in Call,
           Members(a)' = Members(a) \cup {s}, Evicting(a)' = Evicting(a) \cup {c},
           c \notin Evicting(a),
           \A b \in Account : b # a => Members(b)' = Members(b) /\ Evicting(b)' = Evicting(b)
    PROVE  LimitInv'
<1> SUFFICES ASSUME Reliable, NEW b \in Account
             PROVE  Cardinality(Members(b)') <= MaxSessions + Cardinality(Evicting(b)')
    BY DEF LimitInv, Reliable
<1>1. PICK M, E : M = Members(b) /\ E = Evicting(b)
    OBVIOUS
<1>2. M \subseteq Session /\ E \subseteq Call
    BY <1>1, SetsOf
<1>3. /\ IsFiniteSet(M) /\ Cardinality(M) \in Nat /\ IsFiniteSet(E) /\ Cardinality(E) \in Nat
    BY <1>2, Finite
<1>4. Cardinality(M) <= MaxSessions + Cardinality(E)
    BY <1>1 DEF LimitInv
<1>5. CASE b # a
    BY <1>1, <1>4, <1>5
<1>6. CASE b = a
    <2>1. Cardinality(M \cup {s}) = IF s \in M THEN Cardinality(M) ELSE Cardinality(M) + 1
        BY <1>3, FS_AddElement, Zenon
    <2>2. Cardinality(E \cup {c}) = IF c \in E THEN Cardinality(E) ELSE Cardinality(E) + 1
        BY <1>3, FS_AddElement, Zenon
    <2>3. c \notin E
        BY <1>1, <1>6
    <2>4. Members(b)' = M \cup {s} /\ Evicting(b)' = E \cup {c}
        BY <1>1, <1>6
    <2>5. Cardinality(M \cup {s}) <= MaxSessions + Cardinality(E \cup {c})
        BY <1>3, <1>4, <2>1, <2>2, <2>3
    <2> QED BY <2>4, <2>5
<1> QED BY <1>5, <1>6

\* A login has evicted.
LEMMA LimitEvicted ==
    ASSUME TypeOK, LimitInv, NEW a \in Account, NEW c \in Call,
           Members(a)' \subseteq Session, Cardinality(Members(a)') <= MaxSessions,
           Evicting(a)' \subseteq Call,
           \A b \in Account : b # a => Members(b)' = Members(b) /\ Evicting(b)' = Evicting(b)
    PROVE  LimitInv'
<1> SUFFICES ASSUME Reliable, NEW b \in Account
             PROVE  Cardinality(Members(b)') <= MaxSessions + Cardinality(Evicting(b)')
    BY DEF LimitInv, Reliable
<1>1. CASE b # a
    BY <1>1 DEF LimitInv
<1>2. CASE b = a
    <2>1. PICK M, E : M = Members(b)' /\ E = Evicting(b)'
        OBVIOUS
    <2>2. Cardinality(M) \in Nat
        BY <1>2, <2>1, Finite
    <2>3. Cardinality(E) \in Nat
        BY <1>2, <2>1, Finite
    <2>4. Cardinality(M) <= MaxSessions
        BY <1>2, <2>1
    <2> QED BY <2>1, <2>2, <2>3, <2>4
<1> QED BY <1>1, <1>2

\* Of the live sessions as many are evicted as there are too many.
LEMMA EvictedEnough ==
    ASSUME TypeOK, NEW a \in Account, NEW s, NEW E \in EvictedSets(a, s)
    PROVE  /\ E \subseteq Members(a)
           /\ Cardinality(Members(a) \ (E \cup StaleMembers(a))) <= MaxSessions
<1> DEFINE M == Members(a)
           live == {x \in Members(a) : Exists(x)}
<1>1. M \subseteq Session /\ live \in SUBSET M
    BY SetsOf
<1>2. IsFiniteSet(M) /\ Cardinality(M) \in Nat /\ IsFiniteSet(live) /\ Cardinality(live) \in Nat
    BY <1>1, Finite
<1>3. CASE Cardinality(M) <= MaxSessions
    <2>1. E = {} /\ StaleMembers(a) = {}
        BY <1>3 DEF EvictedSets, StaleMembers
    <2> QED BY <1>3, <2>1
<1>4. CASE Cardinality(M) > MaxSessions
    <2>1. StaleMembers(a) = {x \in M : ~Exists(x)}
        BY <1>2, <1>4 DEF StaleMembers
    <2>2. M \ (E \cup StaleMembers(a)) = live \ E
        BY <2>1
    <2>3. CASE Cardinality(live) <= MaxSessions
        <3>1. E = {}
            BY <2>3 DEF EvictedSets
        <3>2. live \ E = live
            BY <3>1
        <3>3. Cardinality(live \ E) <= MaxSessions
            BY <2>3, <3>2
        <3> QED BY <2>2, <3>1, <3>3
    <2>4. CASE ~(Cardinality(live) <= MaxSessions)
        <3>1. E \in SUBSET (live \ {s}) /\ Cardinality(E) = Cardinality(live) - MaxSessions
            BY <1>2, <1>4, <2>4 DEF EvictedSets
        <3>2. E \in SUBSET live
            BY <3>1
        <3>3. IsFiniteSet(E)
            BY <1>2, <3>2, FS_Subset
        <3>4. Cardinality(live \ E) = Cardinality(live) - Cardinality(live \cap E)
            BY <1>2, <3>3, FS_Difference
        <3>5. live \cap E = E
            BY <3>2
        <3>6. Cardinality(live \ E) = Cardinality(live) - Cardinality(E)
            BY <3>4, <3>5
        <3> HIDE DEF live, M
        <3>7. Cardinality(live \ E) <= MaxSessions
            BY <1>2, <3>1, <3>6
        <3> QED BY <1>1, <2>2, <3>2, <3>7 DEF M
    <2> QED BY <2>3, <2>4
<1> QED BY <1>2, <1>3, <1>4

-----------------------------------------------------------------------------
(* The index, the cache and the tokens.                                    *)

\* Whoever is covered by the index stays so, and who is idle stays idle.
LEMMA IndexKept ==
    ASSUME TypeOK, IndexInv, now' = now, unlisted' = unlisted,
           Reliable => \A s \in Session : Exists(s)' =>
               /\ Exists(s) /\ sess'[s].acct = sess[s].acct /\ sess'[s].active = sess[s].active
               /\ Covered(s) => /\ s \in idx'[sess[s].acct].members
                                /\ idx'[sess[s].acct].keyExp = idx[sess[s].acct].keyExp
               /\ \A c \in Call : s \in call[c].ids => s \in call'[c].ids
               /\ \A c \in Call :
                      call[c].pc \in {"refreshExpire", "updateExpire"} /\ call[c].sid = s =>
                          call'[c].pc = call[c].pc /\ call'[c].sid = s
               /\ \A c \in Call :
                      call'[c].pc \in UsePC /\ call'[c].sid = s =>
                          call[c].pc \in UsePC /\ call[c].sid = s
    PROVE  IndexInv'
<1> SUFFICES ASSUME Reliable, NEW s \in Session, Exists(s)', s \notin unlisted,
                    \A c \in Call : s \notin call'[c].ids
             PROVE  Covered(s)' \/ Idle(s)'
    BY DEF IndexInv, Reliable
<1>1. Exists(s) /\ sess'[s].acct = sess[s].acct /\ sess'[s].active = sess[s].active
    OBVIOUS
<1>2. CASE Covered(s)
    <2>3. /\ s \in idx'[sess[s].acct].members /\ idx'[sess[s].acct].keyExp = idx[sess[s].acct].keyExp
        BY <1>2
    <2>4. \A c \in Call : call[c].pc \in {"refreshExpire", "updateExpire"} /\ call[c].sid = s =>
              call'[c].pc \in {"refreshExpire", "updateExpire"} /\ call'[c].sid = s
        OBVIOUS
    <2> QED BY <1>1, <1>2, <2>3, <2>4 DEF Covered
<1>3. CASE Idle(s)
    BY <1>1, <1>3 DEF Idle
<1> QED BY <1>1, <1>2, <1>3 DEF IndexInv

\* Entries of the cache are dropped, or hold what was read or written.
CacheStep ==
    /\ cache' \in [Session -> CachedSession] /\ cacheSize' \in Int /\ sweep' \subseteq Session
    /\ \A s \in Session : \/ cache'[s] = cache[s]
                          \/ ~cache'[s].on
                          \/ cache'[s].json = cache'[s].active /\ cache'[s].active <= now

\* The cache stays right when only its own entries change, as CacheStep says.
LEMMA CacheKept ==
    ASSUME TypeOK, CacheInv, CacheStep, now' = now,
           Reliable => \A s \in Session : Exists(s)' =>
               /\ Exists(s) /\ sess'[s].active = sess[s].active
               /\ \A c \in Call : call[c].pc \in WritePC /\ call[c].sid = s /\ cache'[s].on =>
                                      call'[c].pc \in WritePC /\ call'[c].sid = s
    PROVE  CacheInv'
<1>1. ASSUME NEW s \in Session, cache'[s].on
      PROVE  cache'[s].json <= cache'[s].active /\ cache'[s].active <= now'
    <2>1. cache'[s].json \in Nat /\ cache'[s].active \in Nat /\ now \in Nat
        BY DEF CacheStep, CachedSession, TypeOK
    <2> QED BY <1>1, <2>1 DEF CacheStep, CacheInv
<1>2. ASSUME Reliable, NEW s \in Session, Exists(s)', Hit(s)', cache'[s].active # sess'[s].active
      PROVE  \E c \in Call : call'[c].pc \in WritePC /\ call'[c].sid = s
    <2>1. Exists(s) /\ sess'[s].active = sess[s].active
        BY <1>2
    <2>2. cache'[s] = cache[s]
        BY <1>2 DEF CacheStep, Hit
    <2>3. Hit(s) /\ cache[s].active # sess[s].active
        BY <1>2, <2>1, <2>2 DEF Hit
    <2>4. PICK c \in Call : call[c].pc \in WritePC /\ call[c].sid = s
        BY <1>2, <2>1, <2>3 DEF CacheInv
    <2> QED BY <1>2, <2>4 DEF Hit
<1> QED BY <1>1, <1>2 DEF CacheInv, Reliable

\* A step that leaves the cache alone.
LEMMA CacheSame ==
    ASSUME TypeOK, UNCHANGED cacheVars
    PROVE  CacheStep
BY DEF TypeOK, CacheStep, cacheVars

\* A session is stored in the cache.
LEMMA CacheStored ==
    ASSUME TypeOK, NEW s \in Session, NEW t \in Nat, t <= now, CacheStore(s, t)
    PROVE  CacheStep
<1>1. CASE UNCHANGED cacheVars
    BY <1>1, CacheSame
<1>2. CASE ~UNCHANGED cacheVars
    <2>1. PICK n : n = [on |-> TRUE, json |-> t, active |-> t, cachedAt |-> now]
        OBVIOUS
    <2>2. n \in CachedSession /\ n.json = t /\ n.active = t
        BY <2>1 DEF CachedSession, TypeOK
    <2>3. cache' = [cache EXCEPT ![s] = n] /\ cacheSize' = cacheSize + 1 /\ sweep' = sweep
        BY <1>2, <2>1 DEF CacheStore
    <2> QED BY <2>2, <2>3 DEF CacheStep, TypeOK
<1> QED BY <1>1, <1>2

\* Entries are dropped from the cache.
LEMMA CacheDropped ==
    ASSUME TypeOK, NEW S \in SUBSET Session, CacheDrop(S)
    PROVE  CacheStep
<1>1. Cardinality({s \in S : cache[s].on}) \in Nat
    BY Finite
<1>2. NotCached \in CachedSession /\ ~NotCached.on
    BY DEF NotCached, CachedSession
<1> QED BY <1>1, <1>2 DEF CacheStep, TypeOK, CacheDrop

\* Sessions are deleted only of which the tokens are gone, or still to be revoked.
LEMMA OrphanKept ==
    ASSUME OrphanInv,
           \A s \in Session : fate'[s] = "revoked" /\ s \in tokens' =>
               fate[s] = "revoked" /\ s \in tokens,
           Reliable => \A s \in Session :
               fate'[s] \in {"deleted", "revoked"} /\ s \in tokens' =>
                   \/ \E c \in Call : s \in call'[c].todo
                   \/ /\ fate[s] \in {"deleted", "revoked"} /\ s \in tokens
                      /\ \A c \in Call : s \in call[c].todo => s \in call'[c].todo
    PROVE  OrphanInv'
<1>1. NoOrphanTokens'
    BY DEF NoOrphanTokens, OrphanInv
<1>2. ASSUME Reliable, NEW s \in Session, fate'[s] \in {"deleted", "revoked"}, s \in tokens'
      PROVE  \E c \in Call : s \in call'[c].todo
    BY <1>2 DEF OrphanInv
<1> QED BY <1>1, <1>2 DEF OrphanInv, Reliable

-----------------------------------------------------------------------------
(* Steps that only move a request.                                         *)

\* The state that the steps start from.
LEMMA Types ==
    ASSUME Inv
    PROVE  /\ TypeOK /\ KeysInv /\ CallsInv /\ LoginInv /\ OrphanInv /\ LimitInv /\ IndexInv
           /\ CacheInv
           /\ now \in Nat /\ sess \in [Session -> StoredSession] /\ call \in [Call -> CallState]
           /\ idx \in [Account -> AccountIndex] /\ fate \in [Session -> Fate]
           /\ tokens \subseteq Session /\ late \subseteq Session /\ unlisted \subseteq Session
           /\ \A c \in Call : CallOK(call[c])
BY DEF Inv, TypeOK, CallsInv

\* Keys are deleted, ...
SessStep ==
    /\ sess' \in [Session -> StoredSession] /\ fate' \in [Session -> Fate]
    /\ \A s \in Session :
           \/ sess'[s] = sess[s] /\ fate'[s] = fate[s]
           \/ /\ sess[s].created # 0 /\ sess'[s].created = sess[s].created
              /\ sess'[s].acct = sess[s].acct /\ sess'[s].active = sess[s].active
              /\ sess'[s].keyExp = 0

\* ... and sessions that are not there are taken from the index.
IdxStep ==
    /\ idx' \in [Account -> AccountIndex]
    /\ \A a \in Account : /\ idx'[a].keyExp = idx[a].keyExp /\ idx'[a].members \subseteq idx[a].members
                          /\ Reliable => \A s \in idx[a].members \ idx'[a].members : ~Exists(s)'

\* A step that leaves the session keys alone.
LEMMA SessSame ==
    ASSUME Inv, UNCHANGED <<sess, fate>>
    PROVE  SessStep
BY Types DEF SessStep

\* A step that leaves the index alone.
LEMMA IdxSame ==
    ASSUME Inv, UNCHANGED idx
    PROVE  IdxStep
BY Types DEF IdxStep

\* A step of a call that deletes, revokes or shortens, but creates and issues nothing.
LEMMA ShrinkStep ==
    ASSUME Inv, NEW c \in Call, NEW n \in CallState, call' = [call EXCEPT ![c] = n], CallOK(n)',
           UNCHANGED <<now, unlisted>>, late' \subseteq Session, tokens' \subseteq tokens, SessStep, IdxStep,
           cache' \in [Session -> CachedSession], cacheSize' \in Int, sweep' \subseteq Session,
           CacheInv', OrphanInv', LimitInv',
           n.pc \in UsePC => call[c].pc \in UsePC /\ n.sid = call[c].sid,
           n.pc \in LoginPC => call[c].pc \in LoginPC /\ n.sid = call[c].sid,
           Reliable => \A s \in call[c].ids : s \in n.ids \/ ~Exists(s)',
           Reliable => call[c].pc \notin {"refreshExpire", "updateExpire"}
    PROVE  Inv'
<1>0. now >= 1 /\ now \in Nat
    BY Types DEF KeysInv
<1>1. ASSUME NEW s \in Session
      PROVE  /\ sess'[s].created = sess[s].created /\ sess'[s].acct = sess[s].acct
             /\ sess'[s].active = sess[s].active /\ (Exists(s)' => Exists(s))
    <2>1. CASE sess'[s] = sess[s]
        BY <2>1 DEF Exists
    <2>2. CASE sess'[s] # sess[s]
        BY <1>0, <2>2 DEF Exists, SessStep
    <2> QED BY <2>1, <2>2
<1>2. Evolves
    BY <1>1 DEF Evolves
<1>3. /\ call' \in [Call -> CallState] /\ CallsInv'
      /\ call'[c] = n /\ \A d \in Call : d # c => call'[d] = call[d]
    BY <1>2, Types, OneCallMoves DEF Issues
<1>4. TypeOK'
    BY <1>3, Types DEF TypeOK, SessStep, IdxStep
<1>5. KeysInv'
    <2>1. ASSUME NEW s \in Session
          PROVE  /\ sess'[s].created = 0 => sess'[s].keyExp = 0 /\ fate'[s] = "none" /\ s \notin tokens'
                 /\ fate'[s] # "none" => ~Exists(s)'
                 /\ sess'[s].active <= now'
        <3>1. CASE sess'[s] = sess[s] /\ fate'[s] = fate[s]
            BY <3>1, Types DEF KeysInv, Exists
        <3>2. CASE ~(sess'[s] = sess[s] /\ fate'[s] = fate[s])
            <4>1. sess[s].created # 0 /\ sess'[s].created # 0 /\ sess'[s].keyExp = 0
                BY <3>2 DEF SessStep
            <4>2. sess'[s].active <= now'
                BY <1>1, Types DEF KeysInv
            <4> QED BY <1>0, <4>1, <4>2 DEF Exists
        <3> QED BY <3>1, <3>2
    <2>2. \A a \in Account : \A s \in idx'[a].members : s \in idx[a].members /\ s \in Session
        BY <1>4 DEF IdxStep, TypeOK, AccountIndex
    <2>3. \A a \in Account : \A s \in idx'[a].members : sess'[s].created # 0
        BY <1>1, <2>2, Types DEF KeysInv
    <2> QED BY <1>0, <2>1, <2>3 DEF KeysInv
<1>6. LoginInv'
    BY <1>3, Types, LoginKept
<1>7. IndexInv'
    <2>1. ASSUME Reliable, NEW s \in Session, Exists(s)', NEW d \in Call
          PROVE  /\ s \in call[d].ids => s \in call'[d].ids
                 /\ call[d].pc \in {"refreshExpire", "updateExpire"} /\ call[d].sid = s =>
                          call'[d].pc = call[d].pc /\ call'[d].sid = s
                 /\ call'[d].pc \in UsePC /\ call'[d].sid = s =>
                          call[d].pc \in UsePC /\ call[d].sid = s
        BY <1>3, <2>1
    <2>2. ASSUME Reliable, NEW s \in Session, Exists(s)', Covered(s)
          PROVE  /\ s \in idx'[sess[s].acct].members
                 /\ idx'[sess[s].acct].keyExp = idx[sess[s].acct].keyExp
        <3>1. PICK a \in Account : a = sess[s].acct
            BY Types DEF StoredSession
        <3>2. s \in idx[a].members
            BY <2>2, <3>1 DEF Covered
        <3> QED BY <2>2, <3>1, <3>2 DEF IdxStep, Reliable
    <2> QED BY <1>1, <2>1, <2>2, Types, IndexKept
<1> QED BY <1>3, <1>4, <1>5, <1>6, <1>7 DEF Inv

\* A step that keeps the keys.
LEMMA LocalStep ==
    ASSUME Inv, NEW c \in Call, NEW n \in CallState, call' = [call EXCEPT ![c] = n], CallOK(n)',
           UNCHANGED <<now, sess, fate, unlisted>>, late' \subseteq Session, tokens' \subseteq tokens, IdxStep,
           cache' \in [Session -> CachedSession], cacheSize' \in Int, sweep' \subseteq Session, CacheInv',
           n.pc \in UsePC => call[c].pc \in UsePC /\ n.sid = call[c].sid,
           n.pc \in LoginPC => call[c].pc \in LoginPC /\ n.sid = call[c].sid,
           Reliable => \A s \in call[c].todo : s \in n.todo \/ s \notin tokens',
           Reliable => \A s \in call[c].ids : s \in n.ids \/ ~Exists(s),
           Reliable => call[c].pc \notin {"evict", "refreshExpire", "updateExpire"}
    PROVE  Inv'
<1>1. /\ call' \in [Call -> CallState]
      /\ call'[c] = n /\ \A d \in Call : d # c => call'[d] = call[d]
    BY Types
<1>2. OrphanInv'
    <2>1. ASSUME Reliable, NEW s \in tokens', NEW d \in Call, s \in call[d].todo
          PROVE  s \in call'[d].todo
        BY <1>1, <2>1
    <2> QED BY <2>1, Types, OrphanKept
<1>3. LimitInv'
    <2>1. \A a \in Account : Members(a)' \subseteq Members(a)
        BY DEF Members, IdxStep
    <2>2. Reliable => \A a \in Account : Evicting(a) \subseteq Evicting(a)'
        BY <1>1 DEF Evicting, At
    <2>3. \A a \in Account : Evicting(a)' \subseteq Call
        BY DEF Evicting
    <2> QED BY <2>1, <2>2, <2>3, Types, LimitKept
<1>4. \A s \in Session : Exists(s)' = Exists(s)
    BY DEF Exists
<1>5. call[c].ids \subseteq Session
    BY Types DEF CallState
<1>6. Reliable => \A s \in call[c].ids : s \in n.ids \/ ~Exists(s)'
    BY <1>4, <1>5
<1> QED BY <1>2, <1>3, <1>6, SessSame, ShrinkStep

\* A request has answered.
LEMMA IdleOK ==
    ASSUME NEW n, n.pc = "idle", n.ids = {}, n.todo = {}, n.rest = {}, n.stale = {}, n.active = 0,
           now \in Nat, now' \in Nat
    PROVE  CallOK(n) /\ CallOK(n)'
<1>1. "idle" \notin SidPC /\ "idle" \notin LoginPC /\ "idle" \notin RevokePC
    BY DEF SidPC, LoginPC, RevokePC
<1> QED BY <1>1 DEF CallOK, SidOK, WorkOK, TokensOK, GoneOK, BeforeOK

\* The record of a call that returns.
LEMMA ReturnIs ==
    ASSUME Inv, NEW c \in Call, NEW success \in BOOLEAN, Return(c, success)
    PROVE  \E n \in CallState :
               /\ call' = [call EXCEPT ![c] = n]
               /\ n.pc = "idle" /\ n.ids = {} /\ n.todo = {} /\ n.rest = {} /\ n.stale = {}
               /\ n.active = 0
               /\ n.ok => success /\ call[c].pc = "allDel"
<1>1. PICK ok \in BOOLEAN : ok = (success /\ call[c].pc = "allDel")
    OBVIOUS
<1>2. PICK n : n = [NoCall EXCEPT !.ok = ok]
    OBVIOUS
<1>3. /\ n \in CallState /\ n.pc = "idle" /\ n.ids = {} /\ n.todo = {} /\ n.rest = {} /\ n.stale = {}
      /\ n.active = 0 /\ n.ok = ok
    BY <1>2, IdleCall DEF CallState
<1>4. call' = [call EXCEPT ![c] = n]
    BY <1>1, <1>2 DEF Return
<1> QED BY <1>1, <1>3, <1>4

\* A step that moves a request, and keeps the cache in order.
LEMMA PlainStep ==
    ASSUME Inv, NEW c \in Call, NEW n \in CallState, call' = [call EXCEPT ![c] = n], CallOK(n)',
           UNCHANGED <<now, sess, fate, unlisted>>, late' \subseteq Session, tokens' \subseteq tokens, IdxStep, CacheStep,
           n.pc \in UsePC => call[c].pc \in UsePC /\ n.sid = call[c].sid,
           n.pc \in LoginPC => call[c].pc \in LoginPC /\ n.sid = call[c].sid,
           Reliable => \A s \in call[c].todo : s \in n.todo \/ s \notin tokens',
           Reliable => \A s \in call[c].ids : s \in n.ids \/ ~Exists(s),
           Reliable => call[c].pc \notin {"evict", "refreshExpire", "updateExpire"},
           Reliable /\ call[c].pc = "refreshSet" => ~Exists(call[c].sid)
    PROVE  Inv'
<1>1. call'[c] = n /\ \A d \in Call : d # c => call'[d] = call[d]
    BY Types
<1>2. ASSUME Reliable, NEW s \in Session, Exists(s)'
      PROVE  /\ Exists(s) /\ sess'[s].active = sess[s].active
             /\ \A d \in Call : call[d].pc \in WritePC /\ call[d].sid = s =>
                                    call'[d].pc \in WritePC /\ call'[d].sid = s
    BY <1>1, <1>2 DEF Exists, WritePC
<1>3. CacheInv'
    BY <1>2, Types, CacheKept
<1> QED BY <1>3, Types, LocalStep DEF CacheStep

\* A call may return once it has nothing left to do.
LEMMA ReturnStep ==
    ASSUME Inv, NEW c \in Call, NEW success \in BOOLEAN, Return(c, success),
           UNCHANGED <<now, sess, fate, unlisted>>, late' \subseteq Session, tokens' \subseteq tokens, IdxStep, CacheStep,
           Reliable => call[c].todo \cap tokens' = {},
           Reliable => \A s \in call[c].ids : ~Exists(s),
           Reliable => call[c].pc \notin {"evict", "refreshExpire", "updateExpire"},
           Reliable /\ call[c].pc = "refreshSet" => ~Exists(call[c].sid)
    PROVE  Inv'
<1>1. PICK n \in CallState :
               /\ call' = [call EXCEPT ![c] = n]
               /\ n.pc = "idle" /\ n.ids = {} /\ n.todo = {} /\ n.rest = {} /\ n.stale = {}
               /\ n.active = 0
    BY ReturnIs
<1>2. CallOK(n)'
    BY <1>1, Types, IdleOK
<1>3. n.pc \notin LoginPC /\ n.pc \notin UsePC
    BY <1>1 DEF LoginPC, UsePC
<1> QED BY <1>1, <1>2, <1>3, PlainStep

\* What going on to the next step leaves alone.
Same(n, q) ==
    /\ n.acct = q.acct /\ n.sid = q.sid /\ n.ids = q.ids /\ n.todo = q.todo /\ n.rest = q.rest
    /\ n.stale = q.stale /\ n.logout = q.logout /\ n.active = q.active /\ n.since = q.since
    /\ n.before = q.before

\* Goto changes the step of a call and nothing else that matters.
LEMMA GotoIs ==
    ASSUME Inv, NEW c \in Call, NEW p \in PC, Goto(c, p)
    PROVE  \E n \in CallState : call' = [call EXCEPT ![c] = n] /\ n.pc = p /\ Same(n, call[c])
<1>1. PICK q \in CallState : q = call[c]
    BY Types
<1>2. PICK n : n = [q EXCEPT !.pc = p]
    OBVIOUS
<1>3. n \in CallState /\ n.pc = p /\ Same(n, q)
    BY <1>2 DEF CallState, Same
<1>4. call' = [call EXCEPT ![c] = n]
    BY <1>1, <1>2, Types DEF Goto
<1> QED BY <1>1, <1>3, <1>4

\* Nothing but tokens changes: what a request may rely on stays.
LEMMA StaysLocal ==
    ASSUME Inv, NEW n \in CallState, CallOK(n), UNCHANGED <<now, sess, unlisted>>, late' \subseteq Session, tokens' \subseteq tokens
    PROVE  CallOK(n)'
<1>1. Evolves /\ Issues(n)
    BY DEF Evolves, Issues, Exists
<1> QED BY <1>1, Types, CallStays

\* A request ends anywhere.
LEMMA CrashInv ==
    ASSUME Inv, NEW c \in Call, Crash(c)
    PROVE  Inv'
<1>1. ~Reliable
    BY DEF Crash, Reliable
<1> QED BY <1>1, Types, CacheSame, IdxSame, ReturnStep DEF Crash

\* Sessions that are there have been created.
LEMMA ThereCreated ==
    ASSUME Inv, NEW s \in Session
    PROVE  /\ Exists(s) => sess[s].created # 0
           /\ sess[s].active \in Nat /\ sess[s].active <= now /\ sess[s].acct \in Account
           /\ sess[s].created \in Nat /\ sess[s].keyExp \in Nat
<1>1. sess[s] \in StoredSession /\ now >= 1 /\ now \in Nat
    BY Types DEF KeysInv
<1>2. sess[s].created = 0 => sess[s].keyExp = 0
    BY Types DEF KeysInv
<1> QED BY <1>1, <1>2, Types DEF StoredSession, Exists, KeysInv

\* The index lists only sessions that were created.
LEMMA MembersCreated ==
    ASSUME Inv, NEW a \in Account
    PROVE  Members(a) \in SUBSET Session /\ \A s \in Members(a) : sess[s].created # 0
<1>1. Members(a) \subseteq idx[a].members
    BY DEF Members
<1>2. \A s \in idx[a].members : sess[s].created # 0
    BY Types DEF KeysInv
<1> QED BY <1>1, <1>2, Types, SetsOf

\* What a request begins with.
LEMMA NewCallIs ==
    ASSUME Inv
    PROVE  /\ NewCall \in CallState /\ NewCall.since = now /\ NewCall.ids = {} /\ NewCall.todo = {}
           /\ NewCall.rest = {} /\ NewCall.stale = {} /\ NewCall.active = 0 /\ NewCall.before = {}
BY Types, IdleCall DEF NewCall, CallState

\* An idle call has nothing to do.
LEMMA IdleIs ==
    ASSUME Inv, NEW c \in Call, At(c, "idle")
    PROVE  call[c].pc = "idle" /\ call[c].ids = {} /\ call[c].todo = {}
BY Types DEF At, CallOK, WorkOK, TodoPC

\* The session list begins.
LEMMA ListBeginInv ==
    ASSUME Inv, NEW c \in Call, NEW a \in Account, ListSessionsByAccount(c, a)
    PROVE  Inv'
<1>1. /\ At(c, "idle") /\ UNCHANGED <<now, sess, idx, cacheVars, tokens, fate, unlisted>> /\ late' \subseteq Session
    BY Types DEF ListSessionsByAccount
<1>2. PICK m \in CallState : /\ m = NewCall /\ m.since = now /\ m.ids = {} /\ m.todo = {}
                             /\ m.rest = {} /\ m.stale = {} /\ m.active = 0 /\ m.before = {}
    BY NewCallIs
<1>3. PICK R \in SUBSET Session : R = Members(a) /\ \A s \in R : sess[s].created # 0
    BY MembersCreated
<1>4. PICK n : n = [m EXCEPT !.pc = "listGet", !.acct = a, !.rest = R]
    OBVIOUS
<1>5. /\ n \in CallState /\ n.pc = "listGet" /\ n.rest = R /\ n.since = now /\ n.ids = {}
      /\ n.todo = {} /\ n.stale = {} /\ n.active = 0
    BY <1>2, <1>4 DEF CallState, PC
<1>6. call' = [call EXCEPT ![c] = n]
    BY <1>2, <1>3, <1>4 DEF ListSessionsByAccount
<1>7. "listGet" \notin SidPC \cup LoginPC \cup UsePC \cup RevokePC \cup BeforePC \cup TodoPC
    BY DEF SidPC, LoginPC, RevokePC, BeforePC, TodoPC, UsePC
<1>8. CallOK(n)
    BY <1>3, <1>5, <1>7, Types DEF CallOK, SidOK, WorkOK, TokensOK, GoneOK, BeforeOK
<1>9. CallOK(n)'
    BY <1>1, <1>5, <1>8, StaysLocal
<1> QED BY <1>1, <1>5, <1>6, <1>7, <1>9, IdleIs, Types, CacheSame, IdxSame, PlainStep

\* A request begins.
LEMMA BeginStep ==
    ASSUME Inv, NEW c \in Call, At(c, "idle"), NEW n \in CallState, call' = [call EXCEPT ![c] = n],
           CallOK(n), n.pc \notin LoginPC \cup UsePC, CacheStep,
           UNCHANGED <<now, sess, idx, tokens, fate, unlisted>> /\ late' \subseteq Session
    PROVE  Inv'
<1>1. CallOK(n)'
    BY StaysLocal, Types
<1>2. /\ call[c].pc = "idle" /\ call[c].ids = {} /\ call[c].todo = {}
    BY IdleIs
<1> QED BY <1>1, <1>2, IdxSame, PlainStep

\* RevokeSession and Logout begin.
LEMMA BeginRevokeInv ==
    ASSUME Inv, NEW c \in Call, NEW s \in Session, NEW own \in BOOLEAN, NEW logout \in BOOLEAN,
           BeginRevoke(c, s, own, logout)
    PROVE  Inv'
<1>1. /\ At(c, "idle") /\ UNCHANGED <<now, sess, idx, tokens, fate, unlisted>> /\ late' \subseteq Session /\ sess[s].created # 0
    BY Types DEF BeginRevoke
<1>2. PICK m \in CallState : /\ m = NewCall /\ m.since = now /\ m.ids = {} /\ m.todo = {}
                             /\ m.rest = {} /\ m.stale = {} /\ m.active = 0 /\ m.before = {}
    BY NewCallIs
<1>3. PICK r : r = [m EXCEPT !.acct = sess[s].acct, !.sid = s, !.logout = logout]
    OBVIOUS
<1>4. /\ r \in CallState /\ r.sid = s /\ r.since = now /\ r.ids = {} /\ r.todo = {}
      /\ r.rest = {} /\ r.stale = {} /\ r.active = 0
    BY <1>2, <1>3, ThereCreated DEF CallState
<1>5. CacheStore(s, sess[s].active) => CacheStep
    BY ThereCreated, Types, CacheStored
<1>6. CASE /\ call' = [call EXCEPT ![c] = [r EXCEPT !.pc = "revokeTokens", !.ids = {s}, !.todo = {s}]]
           /\ CacheStore(s, sess[s].active)
    <2>1. PICK n : n = [r EXCEPT !.pc = "revokeTokens", !.ids = {s}, !.todo = {s}]
        OBVIOUS
    <2>2. /\ n \in CallState /\ n.pc = "revokeTokens" /\ n.sid = s /\ n.since = now /\ n.ids = {s}
          /\ n.todo = {s} /\ n.rest = {} /\ n.stale = {} /\ n.active = 0
        BY <1>4, <2>1 DEF CallState, PC
    <2>3. "revokeTokens" \notin LoginPC \cup UsePC /\ "revokeTokens" \in BeforePC /\ "revokeTokens" \in TodoPC
        BY DEF LoginPC, BeforePC, TodoPC, UsePC
    <2>4. CallOK(n)
        BY <1>1, <2>2, <2>3, Types DEF CallOK, SidOK, WorkOK, TokensOK, GoneOK, BeforeOK
    <2> QED BY <1>1, <1>5, <1>6, <2>1, <2>2, <2>3, <2>4, BeginStep
<1>7. CASE Return(c, FALSE) /\ CacheStore(s, sess[s].active)
    BY <1>1, <1>5, <1>7, IdleIs, IdxSame, ReturnStep
<1>8. CASE /\ call' = [call EXCEPT ![c] = [r EXCEPT !.pc = "logoutTokens", !.todo = {s}]]
           /\ UNCHANGED cacheVars
    <2>1. PICK n : n = [r EXCEPT !.pc = "logoutTokens", !.todo = {s}]
        OBVIOUS
    <2>2. /\ n \in CallState /\ n.pc = "logoutTokens" /\ n.sid = s /\ n.since = now /\ n.ids = {}
          /\ n.todo = {s} /\ n.rest = {} /\ n.stale = {} /\ n.active = 0
        BY <1>4, <2>1 DEF CallState, PC
    <2>3. "logoutTokens" \notin LoginPC \cup UsePC /\ "logoutTokens" \notin RevokePC /\ "logoutTokens" \in TodoPC
        BY DEF LoginPC, RevokePC, TodoPC, UsePC
    <2>4. CallOK(n)
        BY <1>1, <2>2, <2>3, Types DEF CallOK, SidOK, WorkOK, TokensOK, GoneOK, BeforeOK
    <2> QED BY <1>1, <1>8, <2>1, <2>2, <2>3, <2>4, Types, CacheSame, BeginStep
<1> QED BY <1>2, <1>3, <1>6, <1>7, <1>8 DEF BeginRevoke

\* Logout revokes the tokens once more.
LEMMA LogoutTokensInv ==
    ASSUME Inv, NEW c \in Call, LogoutTokens(c)
    PROVE  Inv'
<1>1. /\ call[c].pc = "logoutTokens" /\ UNCHANGED <<now, sess, idx, cacheVars, fate, unlisted>> /\ late' \subseteq Session
      /\ Return(c, TRUE) /\ tokens' \subseteq tokens
      /\ Reliable => call[c].sid \notin tokens'
    BY Types DEF LogoutTokens, RevokeAllForSession, At, Reliable, Faulty
<1>2. call[c].todo \subseteq {call[c].sid}
    BY <1>1, Types DEF CallOK, WorkOK
<1>3. Reliable => \A s \in call[c].ids : ~Exists(s)
    BY <1>1, Types DEF CallOK, GoneOK, Gone, BeforePC, Reliable
<1>4. Reliable => call[c].todo \cap tokens' = {}
    BY <1>1, <1>2
<1> QED BY <1>1, <1>3, <1>4, Types, CacheSame, IdxSame, ReturnStep

\* What a request has deleted is not there.
LEMMA IdsGone ==
    ASSUME Inv, NEW c \in Call, call[c].pc \notin BeforePC
    PROVE  Reliable => \A s \in call[c].ids : ~Exists(s)
BY Types DEF CallOK, GoneOK, Gone, Reliable

\* The session list reads the sessions.
LEMMA ListGetInv ==
    ASSUME Inv, NEW c \in Call, ListGet(c)
    PROVE  Inv'
<1>1. /\ call[c].pc = "listGet" /\ UNCHANGED <<now, sess, idx, cacheVars, tokens, fate, unlisted>> /\ late' \subseteq Session
    BY Types DEF ListGet, At
<1>2. PICK q \in CallState : q = call[c] /\ CallOK(q)
    BY Types
<1>3. "listGet" \notin BeforePC /\ "listGet" \notin TodoPC
    BY DEF BeforePC, TodoPC
<1>4. q.todo = {} /\ q.rest \subseteq Session /\ q.pc = "listGet"
    BY <1>1, <1>2, <1>3 DEF CallOK, WorkOK, CallState
<1>5. Reliable => \A s \in call[c].ids : ~Exists(s)
    BY <1>1, <1>3, IdsGone
<1>6. CASE Return(c, FALSE)
    BY <1>1, <1>2, <1>4, <1>5, <1>6, Types, CacheSame, IdxSame, ReturnStep
<1>7. ASSUME NEW F \in SUBSET q.rest, Reliable => F = {},
             call' = [call EXCEPT ![c].pc = "listNext",
                        ![c].stale = {s \in q.rest : ~Exists(s)} \cup F,
                        ![c].rest = {s \in q.rest \ ({s \in q.rest : ~Exists(s)} \cup F) :
                                         ~ActiveAt(s, sess[s].active)}]
      PROVE  Inv'
    <2>1. PICK S : S = {s \in q.rest : ~Exists(s)} \cup F
        OBVIOUS
    <2>2. PICK R : R = {s \in q.rest \ S : ~ActiveAt(s, sess[s].active)}
        OBVIOUS
    <2>3. S \subseteq q.rest /\ R \subseteq q.rest /\ (Reliable => \A s \in S : ~Exists(s))
        BY <1>7, <2>1, <2>2
    <2>4. PICK n : n = [q EXCEPT !.pc = "listNext", !.stale = S, !.rest = R]
        OBVIOUS
    <2>5. /\ n \in CallState /\ n.pc = "listNext" /\ n.stale = S /\ n.rest = R /\ n.ids = q.ids
          /\ n.todo = q.todo /\ n.active = q.active /\ n.since = q.since /\ n.sid = q.sid
        BY <1>4, <2>3, <2>4 DEF CallState, PC
    <2>6. call' = [call EXCEPT ![c] = n]
        BY <1>2, <1>7, <2>1, <2>2, <2>4, Types
    <2>7. "listNext" \notin SidPC \cup LoginPC \cup UsePC \cup RevokePC \cup BeforePC \cup TodoPC
        BY DEF SidPC, LoginPC, RevokePC, BeforePC, TodoPC, UsePC
    <2>8. \A s \in q.rest : sess[s].created # 0
        BY <1>2 DEF CallOK, SidOK
    <2>9. SidOK(n)
        BY <1>2, <2>3, <2>5, <2>7, <2>8 DEF CallOK, SidOK
    <2>10. WorkOK(n) /\ TokensOK(n)
        BY <1>4, <2>5, <2>7 DEF WorkOK, TokensOK
    <2>11. GoneOK(n)
        BY <1>2, <1>3, <1>4, <2>3, <2>5, <2>8 DEF CallOK, GoneOK, Gone
    <2>12. BeforeOK(n)
        BY <1>2, <1>4, <2>5 DEF CallOK, BeforeOK
    <2>13. CallOK(n)'
        BY <1>1, <2>5, <2>9, <2>10, <2>11, <2>12, StaysLocal DEF CallOK
    <2> QED BY <1>1, <1>2, <1>4, <1>5, <2>5, <2>6, <2>7, <2>13, Types, CacheSame, IdxSame, PlainStep
<1>8. CASE ~Return(c, FALSE)
    <2>1. PICK F \in SUBSET q.rest :
              /\ Reliable => F = {}
              /\ call' = [call EXCEPT ![c].pc = "listNext",
                        ![c].stale = {s \in q.rest : ~Exists(s)} \cup F,
                        ![c].rest = {s \in q.rest \ ({s \in q.rest : ~Exists(s)} \cup F) :
                                         ~ActiveAt(s, sess[s].active)}]
        BY <1>2, <1>8 DEF ListGet, Reliable, Faulty
    <2> QED BY <1>7, <2>1
<1> QED BY <1>6, <1>8

\* A request goes on.
LEMMA GotoStep ==
    ASSUME Inv, NEW c \in Call, NEW p \in PC, Goto(c, p),
           \A n \in CallState : n.pc = p /\ Same(n, call[c]) => CallOK(n),
           UNCHANGED <<now, sess, fate, unlisted>>, late' \subseteq Session, tokens' \subseteq tokens, IdxStep, CacheStep,
           p \in LoginPC => call[c].pc \in LoginPC,
           p \in UsePC => call[c].pc \in UsePC,
           Reliable => call[c].pc \notin {"evict", "refreshExpire", "updateExpire"},
           Reliable => call[c].pc # "refreshSet"
    PROVE  Inv'
<1>1. PICK n \in CallState : call' = [call EXCEPT ![c] = n] /\ n.pc = p /\ Same(n, call[c])
    BY GotoIs
<1>2. CallOK(n)'
    BY <1>1, StaysLocal
<1>3. n.ids = call[c].ids /\ n.todo = call[c].todo /\ n.sid = call[c].sid
    BY <1>1 DEF Same
<1> QED BY <1>1, <1>2, <1>3, PlainStep

\* SREM takes sessions from the index that are gone.
LEMMA SRemmed ==
    ASSUME Inv, NEW c \in Call, NEW S, Reliable => \A s \in S : Gone(s), UNCHANGED <<now, sess>>,
           idx' = [idx EXCEPT ![call[c].acct].members = @ \ S] \/ UNCHANGED idx
    PROVE  IdxStep
<1>1. PICK a \in Account : a = call[c].acct
    BY Types DEF CallState
<1>2. CASE UNCHANGED idx
    BY <1>2, IdxSame
<1>3. CASE idx' = [idx EXCEPT ![a].members = @ \ S]
    <2>1. PICK i \in AccountIndex : i = idx[a]
        BY Types
    <2>2. PICK j : j = [i EXCEPT !.members = @ \ S]
        OBVIOUS
    <2>3. j \in AccountIndex /\ j.members = i.members \ S /\ j.keyExp = i.keyExp
        BY <2>2 DEF AccountIndex
    <2>4. idx' = [idx EXCEPT ![a] = j]
        BY <1>3, <2>1, <2>2, Types
    <2>5. Reliable => \A s \in S : ~Exists(s)'
        BY DEF Gone, Exists
    <2> QED BY <2>1, <2>3, <2>4, <2>5, Types DEF IdxStep
<1> QED BY <1>1, <1>2, <1>3

\* The session list goes on to expire a session, or to drop stale entries.
LEMMA ListNextInv ==
    ASSUME Inv, NEW c \in Call, ListNext(c)
    PROVE  Inv'
<1>1. UNCHANGED <<now, sess, cacheVars, tokens, fate, unlisted>> /\ late' \subseteq Session /\ CacheStep
    BY Types, CacheSame DEF ListNext
<1>2. PICK q \in CallState : q = call[c] /\ CallOK(q)
    BY Types
<1>3. /\ \A p \in {"listNext", "listSRem"} : p \notin BeforePC /\ p \notin TodoPC
    BY DEF BeforePC, TodoPC
<1>4. q.pc \in {"listNext", "listSRem"}
    BY <1>2 DEF ListNext, At, SRem
<1>5. q.todo = {}
    BY <1>2, <1>3, <1>4 DEF CallOK, WorkOK
<1>6. Reliable => \A s \in call[c].ids : ~Exists(s)
    BY <1>2, <1>3, <1>4, IdsGone
<1>7. CASE Return(c, TRUE) /\ IdxStep
    BY <1>1, <1>2, <1>4, <1>5, <1>6, <1>7, ReturnStep
<1>8. ASSUME NEW s \in q.rest, UNCHANGED idx, q.pc = "listNext",
             call' = [call EXCEPT ![c].pc = "forceDel", ![c].ids = {s}, ![c].todo = {s},
                                  ![c].rest = @ \ {s}]
      PROVE  Inv'
    <2>1. PICK n : n = [q EXCEPT !.pc = "forceDel", !.ids = {s}, !.todo = {s}, !.rest = @ \ {s}]
        OBVIOUS
    <2>2. /\ n \in CallState /\ n.pc = "forceDel" /\ n.ids = {s} /\ n.todo = {s}
          /\ n.rest = q.rest \ {s} /\ n.stale = q.stale /\ n.active = q.active /\ n.since = q.since
        BY <2>1 DEF CallState, PC
    <2>3. call' = [call EXCEPT ![c] = n]
        BY <1>2, <1>8, <2>1, Types
    <2>4. /\ "forceDel" \notin SidPC \cup LoginPC \cup UsePC \cup RevokePC
          /\ "forceDel" \in BeforePC /\ "forceDel" \in TodoPC
        BY DEF SidPC, LoginPC, RevokePC, BeforePC, TodoPC, UsePC
    <2>5. SidOK(n)
        BY <1>2, <2>2, <2>4 DEF CallOK, SidOK
    <2>6. WorkOK(n) /\ TokensOK(n)
        BY <2>2, <2>4 DEF WorkOK, TokensOK
    <2>7. GoneOK(n) /\ BeforeOK(n)
        BY <1>2, <1>8, <2>2, <2>4 DEF CallOK, GoneOK, BeforeOK
    <2>8. CallOK(n)'
        BY <1>1, <2>2, <2>5, <2>6, <2>7, StaysLocal DEF CallOK
    <2> QED BY <1>1, <1>2, <1>4, <1>5, <1>6, <1>8, <2>2, <2>3, <2>4, <2>8, IdxSame, PlainStep
<1>9. CASE q.pc = "listNext" /\ Goto(c, "listSRem") /\ UNCHANGED idx
    <2>1. /\ "listSRem" \notin SidPC \cup LoginPC \cup UsePC \cup RevokePC \cup BeforePC \cup TodoPC
        BY DEF SidPC, LoginPC, RevokePC, BeforePC, TodoPC, UsePC
    <2>2. ASSUME NEW n \in CallState, n.pc = "listSRem", Same(n, q)
          PROVE  CallOK(n)
        BY <1>2, <1>3, <1>5, <1>9, <2>1, <2>2
           DEF Same, CallOK, SidOK, WorkOK, TokensOK, GoneOK, BeforeOK
    <2>3. "listSRem" \in PC
        BY DEF PC
    <2> QED BY <1>1, <1>2, <1>4, <1>9, <2>1, <2>2, <2>3, IdxSame, GotoStep
<1>10. CASE SRem(c, q.stale, "listSRem", "idle")
    <2>1. Reliable => \A s \in q.stale : Gone(s)
        BY <1>2, <1>10 DEF CallOK, GoneOK, SRem, At
    <2>2. IdxStep
        BY <1>1, <1>10, <2>1, SRemmed DEF SRem
    <2> QED BY <1>7, <1>10, <2>2 DEF SRem, Continue
<1> QED BY <1>2, <1>7, <1>8, <1>9, <1>10, IdxSame DEF ListNext, At

-----------------------------------------------------------------------------
(* Revoking tokens.                                                        *)

RevokingPC == {"evictTokens", "forceTokens", "revokeTokens", "allTokens"}

\* The tokens of one session are revoked, or, except in RevokeSession, may be left.
LEMMA RevokeOne ==
    ASSUME Inv, NEW c \in Call, NEW s \in call[c].todo, call[c].pc \in RevokingPC,
           call' = [call EXCEPT ![c].todo = @ \ {s}],
           \/ tokens' = tokens \ {s}
           \/ Faulty /\ tokens' = tokens /\ call[c].pc # "revokeTokens",
           UNCHANGED <<now, sess, idx, cacheVars, fate, unlisted>> /\ late' \subseteq Session
    PROVE  Inv'
<1>1. PICK q \in CallState : q = call[c] /\ CallOK(q) /\ q.pc \in RevokingPC
    BY Types
<1>2. PICK n : n = [q EXCEPT !.todo = @ \ {s}]
    OBVIOUS
<1>3. /\ n \in CallState /\ n.pc = q.pc /\ n.todo = q.todo \ {s} /\ n.ids = q.ids /\ n.sid = q.sid
      /\ n.rest = q.rest /\ n.stale = q.stale /\ n.active = q.active /\ n.since = q.since
      /\ n.before = q.before
    BY <1>2 DEF CallState
<1>4. call' = [call EXCEPT ![c] = n]
    BY <1>1, <1>2, Types
<1>5. SidOK(n)'
    BY <1>1, <1>3 DEF CallOK, SidOK
<1>6. WorkOK(n)'
    BY <1>1, <1>3 DEF CallOK, WorkOK, TodoPC, RevokingPC
<1>7. GoneOK(n)' /\ BeforeOK(n)'
    BY <1>1, <1>3 DEF CallOK, GoneOK, BeforeOK, Gone, Exists, Reliable
<1>8. q.pc \in RevokePC => tokens' = tokens \ {s}
    BY <1>1 DEF RevokePC, RevokingPC, Reliable, Faulty
<1>9. tokens' \subseteq tokens
    OBVIOUS
<1>10. TokensOK(n)'
    <2>1. ASSUME q.pc \in RevokePC, NEW x \in n.ids \ n.todo
          PROVE  x \notin tokens'
        BY <1>1, <1>3, <1>8, <2>1 DEF CallOK, TokensOK
    <2> QED BY <1>1, <1>3, <1>9, <2>1 DEF CallOK, TokensOK, RevokePC, Reliable
<1>11. CallOK(n)'
    BY <1>5, <1>6, <1>7, <1>10 DEF CallOK
<1>12. Reliable => \A x \in q.todo : x \in n.todo \/ x \notin tokens'
    BY <1>3 DEF Reliable, Faulty
<1>13. q.pc \notin {"evict", "refreshExpire", "updateExpire", "refreshSet"}
    BY <1>1 DEF RevokingPC
<1> QED BY <1>1, <1>3, <1>4, <1>9, <1>11, <1>12, <1>13, Types, CacheSame, IdxSame, PlainStep

\* All have been tried, or RevokeSession gives up.
LEMMA RevokeEnds ==
    ASSUME Inv, NEW c \in Call, NEW from \in RevokingPC, NEW ok, NEW err, RevokeTokens(c, from, ok, err),
           from = "revokeTokens" => err # "revokeTokens"
    PROVE  \/ Inv'
           \/ /\ tokens' \subseteq tokens /\ At(c, from)
              /\ UNCHANGED <<now, sess, idx, fate, unlisted>> /\ late' \subseteq Session /\ CacheStep /\ IdxStep
              /\ \/ call[c].todo = {} /\ Continue(c, ok, TRUE)
                 \/ Faulty /\ err # from /\ Continue(c, err, FALSE)
<1>1. UNCHANGED <<now, sess, idx, cacheVars, fate, unlisted>> /\ late' \subseteq Session /\ At(c, from)
    BY Types DEF RevokeTokens, RevokeAllForSession
<1>2. CacheStep /\ IdxStep
    BY <1>1, Types, CacheSame, IdxSame
<1>3. ASSUME NEW s \in call[c].todo, tokens' = tokens \ {s}, call' = [call EXCEPT ![c].todo = @ \ {s}]
      PROVE  Inv'
    BY <1>1, <1>3, RevokeOne DEF At
<1>4. ASSUME NEW s \in call[c].todo, Faulty, tokens' \in {tokens, tokens \ {s}}, err = from,
             call' = [call EXCEPT ![c].todo = @ \ {s}]
      PROVE  Inv'
    BY <1>1, <1>4, RevokeOne DEF At
<1>5. ASSUME NEW s \in call[c].todo, tokens' \in {tokens, tokens \ {s}}
      PROVE  tokens' \subseteq tokens
    BY <1>5
<1> QED BY <1>1, <1>2, <1>3, <1>4, <1>5 DEF RevokeTokens, RevokeAllForSession

\* forceExpireSession has revoked the tokens.
LEMMA ForceTokensInv ==
    ASSUME Inv, NEW c \in Call, RevokeTokens(c, "forceTokens", AfterExpiry(c), "forceTokens")
    PROVE  Inv'
<1> SUFFICES ASSUME tokens' \subseteq tokens, At(c, "forceTokens"), call[c].todo = {},
                    UNCHANGED <<now, sess, idx, fate, unlisted>>, late' \subseteq Session, CacheStep, IdxStep,
                    Continue(c, AfterExpiry(c), TRUE)
             PROVE  Inv'
    BY RevokeEnds DEF RevokingPC
<1>1. PICK q \in CallState : q = call[c] /\ CallOK(q) /\ q.pc = "forceTokens"
    BY Types DEF At
<1>2. "forceTokens" \notin BeforePC /\ "listNext" \in PC
    BY DEF BeforePC, PC
<1>3. CASE Return(c, TRUE)
    BY <1>1, <1>2, <1>3, IdsGone, ReturnStep
<1>4. CASE Goto(c, "listNext")
    <2>1. "listNext" \notin SidPC \cup LoginPC \cup UsePC \cup RevokePC \cup BeforePC \cup TodoPC
        BY DEF SidPC, LoginPC, RevokePC, BeforePC, TodoPC, UsePC
    <2>2. ASSUME NEW n \in CallState, n.pc = "listNext", Same(n, q)
          PROVE  CallOK(n)
        BY <1>1, <1>2, <2>1, <2>2
           DEF Same, CallOK, SidOK, WorkOK, TokensOK, GoneOK, BeforeOK
    <2> QED BY <1>1, <1>2, <1>4, <2>1, <2>2, GotoStep
<1> QED BY <1>3, <1>4 DEF Continue, AfterExpiry

\* RevokeAllForAccount has revoked the tokens.
LEMMA AllTokensInv ==
    ASSUME Inv, NEW c \in Call, RevokeTokens(c, "allTokens", "allDel", "allTokens")
    PROVE  Inv'
<1> SUFFICES ASSUME tokens' \subseteq tokens, At(c, "allTokens"), call[c].todo = {},
                    UNCHANGED <<now, sess, idx, fate, unlisted>>, late' \subseteq Session, CacheStep, IdxStep,
                    Goto(c, "allDel")
             PROVE  Inv'
    BY RevokeEnds DEF RevokingPC, Continue
<1>1. PICK q \in CallState : q = call[c] /\ CallOK(q) /\ q.pc = "allTokens"
    BY Types DEF At
<1>2. /\ "allDel" \notin SidPC \cup LoginPC \cup UsePC \cup TodoPC /\ "allDel" \in BeforePC /\ "allDel" \in PC
      /\ "allDel" \in RevokePC => "allTokens" \in RevokePC
    BY DEF SidPC, LoginPC, RevokePC, BeforePC, TodoPC, PC, UsePC
<1>3. ASSUME NEW n \in CallState, n.pc = "allDel", Same(n, q)
      PROVE  CallOK(n)
    <2>1. SidOK(n) /\ WorkOK(n)
        BY <1>1, <1>2, <1>3 DEF Same, CallOK, SidOK, WorkOK
    <2>2. TokensOK(n)
        BY <1>1, <1>2, <1>3 DEF Same, CallOK, TokensOK
    <2>3. GoneOK(n) /\ BeforeOK(n)
        BY <1>1, <1>2, <1>3 DEF Same, CallOK, GoneOK, BeforeOK
    <2> QED BY <2>1, <2>2, <2>3 DEF CallOK
<1> QED BY <1>1, <1>2, <1>3, GotoStep

\* RevokeSession has revoked the tokens, or gives up.
LEMMA RevokeTokensInv ==
    ASSUME Inv, NEW c \in Call, NEW end, end = IF call[c].logout THEN "logoutTokens" ELSE "idle",
           RevokeTokens(c, "revokeTokens", "revokeDel", end)
    PROVE  Inv'
<1> SUFFICES ASSUME tokens' \subseteq tokens, At(c, "revokeTokens"),
                    UNCHANGED <<now, sess, idx, fate, unlisted>>, late' \subseteq Session, CacheStep, IdxStep,
                    \/ call[c].todo = {} /\ Goto(c, "revokeDel")
                    \/ Faulty /\ Continue(c, end, FALSE)
             PROVE  Inv'
    BY RevokeEnds DEF RevokingPC, Continue
<1>1. PICK q \in CallState : q = call[c] /\ CallOK(q) /\ q.pc = "revokeTokens"
    BY Types DEF At
<1>2. "revokeTokens" \in SidPC /\ "revokeTokens" \in RevokePC
    BY DEF SidPC, RevokePC
<1>3. CASE q.todo = {} /\ Goto(c, "revokeDel")
    <2>1. /\ "revokeDel" \notin LoginPC \cup UsePC \cup TodoPC /\ "revokeDel" \in SidPC
          /\ "revokeDel" \in BeforePC /\ "revokeDel" \in PC
        BY DEF SidPC, LoginPC, BeforePC, TodoPC, PC, UsePC
    <2>2. ASSUME NEW n \in CallState, n.pc = "revokeDel", Same(n, q)
          PROVE  CallOK(n)
        <3>1. SidOK(n) /\ WorkOK(n)
            BY <1>1, <1>2, <1>3, <2>1, <2>2 DEF Same, CallOK, SidOK, WorkOK
        <3>2. TokensOK(n)
            BY <1>1, <1>2, <2>1, <2>2 DEF Same, CallOK, TokensOK
        <3>3. GoneOK(n) /\ BeforeOK(n)
            BY <1>1, <2>1, <2>2 DEF Same, CallOK, GoneOK, BeforeOK
        <3> QED BY <3>1, <3>2, <3>3 DEF CallOK
    <2> QED BY <1>1, <1>3, <2>1, <2>2, GotoStep
<1>4. CASE Faulty /\ Continue(c, end, FALSE)
    <2>1. ~Reliable
        BY <1>4 DEF Faulty, Reliable
    <2>2. CASE Return(c, FALSE)
        BY <1>1, <2>1, <2>2, ReturnStep
    <2>3. CASE Goto(c, "logoutTokens")
        <3>1. /\ "logoutTokens" \notin LoginPC \cup UsePC \cup RevokePC /\ "logoutTokens" \in TodoPC
              /\ "logoutTokens" \in PC
            BY DEF LoginPC, RevokePC, TodoPC, PC, UsePC
        <3>2. ASSUME NEW n \in CallState, n.pc = "logoutTokens", Same(n, q)
              PROVE  CallOK(n)
            <4>1. SidOK(n) /\ WorkOK(n)
                BY <1>1, <1>2, <3>1, <3>2 DEF Same, CallOK, SidOK, WorkOK
            <4> QED BY <2>1, <3>1, <3>2, <4>1 DEF CallOK, TokensOK, GoneOK, BeforeOK
        <3> QED BY <1>1, <2>1, <2>3, <3>1, <3>2, GotoStep
    <2> QED BY <1>4, <2>2, <2>3 DEF Continue
<1> QED BY <1>1, <1>3, <1>4

\* A login has revoked the tokens of the evicted sessions, and caches its own.
LEMMA RevokeEvictedTokensInv ==
    ASSUME Inv, NEW c \in Call, RevokeEvictedTokens(c)
    PROVE  Inv'
<1>1. CASE call[c].todo # {} /\ RevokeTokens(c, "evictTokens", "issue", "evictTokens")
    BY <1>1, RevokeEnds DEF RevokingPC
<1>2. CASE /\ At(c, "evictTokens") /\ call[c].todo = {} /\ CacheStore(call[c].sid, call[c].active)
           /\ call' = [call EXCEPT ![c].pc = "issue", ![c].ids = {}]
           /\ UNCHANGED <<now, sess, idx, tokens, fate, unlisted>> /\ late' \subseteq Session
    <2>1. PICK q \in CallState : q = call[c] /\ CallOK(q) /\ q.pc = "evictTokens"
        BY <1>2, Types DEF At
    <2>2. /\ {"evictTokens", "issue"} \subseteq LoginPC \cap SidPC \cap UsePC /\ "issue" \in PC
          /\ "evictTokens" \notin BeforePC /\ "issue" \notin RevokePC \cup TodoPC
        BY DEF LoginPC, SidPC, BeforePC, PC, RevokePC, TodoPC, UsePC
    <2>3. q.sid \in Session /\ q.active \in Nat /\ q.active <= now
        BY <2>1, <2>2 DEF CallOK, SidOK, CallState
    <2>4. PICK n : n = [q EXCEPT !.pc = "issue", !.ids = {}]
        OBVIOUS
    <2>5. /\ n \in CallState /\ n.pc = "issue" /\ n.ids = {} /\ n.todo = q.todo /\ n.sid = q.sid
          /\ n.rest = q.rest /\ n.stale = q.stale /\ n.active = q.active /\ n.since = q.since
        BY <2>2, <2>4 DEF CallState
    <2>6. call' = [call EXCEPT ![c] = n]
        BY <1>2, <2>1, <2>4, Types
    <2>7. SidOK(n) /\ WorkOK(n)
        BY <1>2, <2>1, <2>2, <2>5 DEF CallOK, SidOK, WorkOK
    <2>8. TokensOK(n)
        BY <2>1, <2>2, <2>5 DEF CallOK, TokensOK
    <2>9. GoneOK(n) /\ BeforeOK(n)
        BY <2>1, <2>5 DEF CallOK, GoneOK, BeforeOK
    <2>10. CallOK(n)'
        BY <1>2, <2>5, <2>7, <2>8, <2>9, StaysLocal DEF CallOK
    <2>11. CacheStep /\ IdxStep
        BY <1>2, <2>1, <2>3, Types, CacheStored, IdxSame
    <2> QED BY <1>2, <2>1, <2>2, <2>5, <2>6, <2>10, <2>11, IdsGone, PlainStep
<1> QED BY <1>1, <1>2, Types DEF RevokeEvictedTokens

\* No other request is the login of session s.
NoOtherLogin(c, s) == \A d \in Call : d # c /\ call[d].pc \in LoginPC => call[d].sid # s

\* Tokens are issued: early ones, if their session is there and nobody deletes it.
LEMMA TokensIssued ==
    ASSUME Inv, NEW c \in Call, NEW s \in Session, NEW n \in CallState, GenerateRefreshToken(s),
           call' = [call EXCEPT ![c] = n], CallOK(n), sess[s].created # 0,
           NoOtherLogin(c, s),
           UNCHANGED <<now, sess, idx, cacheVars, fate, unlisted>>, call[c].pc \in {"idle", "issue"},
           n.ids = call[c].ids, n.todo = call[c].todo, n.pc \in {"idle", "update", "cleanGet"},
           n.pc = "idle" \/ (call[c].pc = "issue" /\ n.sid = call[c].sid), Reliable => n.pc # "cleanGet"
    PROVE  Inv'
<1>1. Evolves
    BY DEF Evolves, Exists
<1>2. late' \subseteq Session /\ tokens' \subseteq Session
    BY Types DEF GenerateRefreshToken
<1>3. \A x \in tokens' \ tokens : x = s /\ Exists(s) /\ \A d \in Call : s \notin call[d].ids
    BY DEF GenerateRefreshToken
<1>4. ASSUME NEW d \in Call, d # c
      PROVE  Issues(call[d])
    BY <1>3, <1>4 DEF Issues, NoOtherLogin
<1>5. Issues(n)
    <2>1. Reliable => n.pc \notin LoginPC
        BY DEF LoginPC
    <2> QED BY <1>3, <2>1 DEF Issues
<1>6. CallOK(n)'
    BY <1>1, <1>5, Types, CallStays
<1>7. /\ call' \in [Call -> CallState] /\ CallsInv'
      /\ call'[c] = n /\ \A d \in Call : d # c => call'[d] = call[d]
    BY <1>1, <1>4, <1>6, Types, OneCallMoves
<1>8. TypeOK'
    BY <1>2, <1>7, Types DEF TypeOK, cacheVars
<1>9. KeysInv'
    BY <1>3, Types DEF KeysInv, Exists
<1>10. LoginInv'
    BY <1>7, Types, LoginKept DEF LoginPC
<1>11. OrphanInv'
    <2>1. \A x \in tokens' : x \in tokens \/ fate[x] = "none"
        BY <1>3, Types DEF KeysInv
    <2>2. \A d \in Call : call'[d].todo = call[d].todo
        BY <1>7
    <2> QED BY <2>1, <2>2, Types, OrphanKept
<1>12. LimitInv'
    <2>1. \A a \in Account : Members(a)' = Members(a)
        BY DEF Members
    <2>2. \A a \in Account : Evicting(a) \subseteq Evicting(a)'
        BY <1>7 DEF Evicting, At
    <2>3. \A a \in Account : Evicting(a)' \subseteq Call
        BY DEF Evicting
    <2> QED BY <2>1, <2>2, <2>3, Types, LimitKept
<1>13. IndexInv'
    <2>1. \A x \in Session : Exists(x)' = Exists(x)
        BY DEF Exists
    <2>2. \A d \in Call : /\ call'[d].ids = call[d].ids
                          /\ call[d].pc \in {"refreshExpire", "updateExpire"} => call'[d] = call[d]
                          /\ call'[d].pc \in UsePC => call[d].pc \in UsePC /\ call'[d].sid = call[d].sid
        BY <1>7 DEF UsePC
    <2>3. \A x \in Session : Covered(x) => x \in idx[sess[x].acct].members
        BY DEF Covered
    <2> QED BY <2>1, <2>2, <2>3, Types, IndexKept
<1>14. CacheInv'
    <2>1. \A d \in Call : call[d].pc \in WritePC => call'[d] = call[d]
        BY <1>7 DEF WritePC
    <2>2. \A x \in Session : Exists(x)' = Exists(x)
        BY DEF Exists
    <2> QED BY <2>1, <2>2, Types, CacheSame, CacheKept
<1> QED BY <1>7, <1>8, <1>9, <1>10, <1>11, <1>12, <1>13, <1>14 DEF Inv

\* A login issues tokens for its session, or gives up.
LEMMA IssueTokensInv ==
    ASSUME Inv, NEW c \in Call, IssueTokens(c)
    PROVE  Inv'
<1>1. PICK q \in CallState : q = call[c] /\ CallOK(q) /\ q.pc = "issue"
    BY Types DEF IssueTokens, At
<1>2. PICK s : s = q.sid
    OBVIOUS
<1>3. /\ "issue" \in LoginPC /\ "issue" \in SidPC /\ "issue" \notin TodoPC \cup BeforePC
      /\ {"update", "cleanGet"} \subseteq SidPC \cap PC
      /\ "update" \notin LoginPC /\ "cleanGet" \in LoginPC /\ "cleanGet" \notin UsePC
      /\ {"update", "cleanGet"} \cap (RevokePC \cup TodoPC) = {}
    BY DEF LoginPC, SidPC, PC, RevokePC, TodoPC, BeforePC, UsePC
<1>4. s \in Session /\ sess[s].created # 0 /\ q.todo = {} /\ q.stale = {} /\ q.ids = {}
    BY <1>1, <1>2, <1>3 DEF CallOK, SidOK, WorkOK
<1>5. UNCHANGED <<now, sess, idx, cacheVars, fate, unlisted>> /\ CacheStep /\ IdxStep
    BY Types, CacheSame, IdxSame DEF IssueTokens
<1>6. ASSUME NEW n \in CallState, Same(n, q), n.pc \in {"update", "cleanGet"}
      PROVE  CallOK(n)
    <2>1. SidOK(n) /\ WorkOK(n)
        BY <1>1, <1>3, <1>4, <1>6 DEF Same, CallOK, SidOK, WorkOK
    <2>2. TokensOK(n)
        BY <1>1, <1>3, <1>6 DEF Same, CallOK, TokensOK
    <2>3. GoneOK(n) /\ BeforeOK(n)
        BY <1>1, <1>3, <1>6 DEF Same, CallOK, GoneOK, BeforeOK
    <2> QED BY <2>1, <2>2, <2>3 DEF CallOK
<1>7. CASE UNCHANGED <<tokens, late>> /\ Goto(c, "cleanGet")
    BY <1>1, <1>3, <1>5, <1>6, <1>7, Types, GotoStep
<1>8. CASE GenerateRefreshToken(s)
    <2>0. NoOtherLogin(c, s)
        BY <1>1, <1>2, <1>3, Types DEF LoginInv, NoOtherLogin
    <2>1. ASSUME NEW p \in {"update", "cleanGet"}, Goto(c, p), Reliable => p # "cleanGet"
          PROVE  Inv'
        <3>1. PICK n \in CallState : call' = [call EXCEPT ![c] = n] /\ n.pc = p /\ Same(n, q)
            BY <1>1, <1>3, <2>1, GotoIs
        <3>2. CallOK(n) /\ n.ids = q.ids /\ n.todo = q.todo /\ n.sid = s
            BY <1>2, <1>6, <3>1 DEF Same
        <3> QED BY <1>1, <1>2, <1>4, <1>5, <1>8, <2>0, <2>1, <3>1, <3>2, TokensIssued
    <2>2. ASSUME Return(c, TRUE)
          PROVE  Inv'
        <3>1. PICK n \in CallState :
                   /\ call' = [call EXCEPT ![c] = n]
                   /\ n.pc = "idle" /\ n.ids = {} /\ n.todo = {} /\ n.rest = {} /\ n.stale = {}
                   /\ n.active = 0
            BY <2>2, ReturnIs
        <3>2. CallOK(n)
            BY <1>5, <3>1, Types, IdleOK
        <3>3. n.todo = q.todo /\ n.ids = q.ids
            BY <1>4, <3>1
        <3> QED BY <1>1, <1>2, <1>4, <1>5, <1>8, <2>0, <3>1, <3>2, <3>3, TokensIssued
    <2>3. Faulty => ~Reliable
        BY DEF Faulty, Reliable
    <2> QED BY <1>1, <1>2, <1>7, <1>8, <2>1, <2>2, <2>3 DEF IssueTokens
<1> QED BY <1>1, <1>2, <1>7, <1>8 DEF IssueTokens

\* The exchange of a code gives tokens to the session that the code names.
LEMMA AuthorizationCodeGrantInv ==
    ASSUME Inv, NEW c \in Call, NEW s \in Session, AuthorizationCodeGrant(c, s)
    PROVE  Inv'
<1>1. /\ At(c, "idle") /\ sess[s].created # 0 /\ GenerateRefreshToken(s) /\ Return(c, TRUE)
      /\ UNCHANGED <<now, sess, idx, cacheVars, fate, unlisted>>
    BY DEF AuthorizationCodeGrant
<1>2. NoOtherLogin(c, s)
    BY DEF AuthorizationCodeGrant, LoggingIn, LoginPC, NoOtherLogin
<1>3. PICK n \in CallState :
           /\ call' = [call EXCEPT ![c] = n]
           /\ n.pc = "idle" /\ n.ids = {} /\ n.todo = {} /\ n.rest = {} /\ n.stale = {}
           /\ n.active = 0
    BY <1>1, ReturnIs
<1>4. CallOK(n)
    BY <1>1, <1>3, Types, IdleOK
<1>5. call[c].pc = "idle" /\ call[c].ids = {} /\ call[c].todo = {}
    BY <1>1, IdleIs
<1> QED BY <1>1, <1>2, <1>3, <1>4, <1>5, TokensIssued

-----------------------------------------------------------------------------
(* Deleting sessions.                                                      *)

\* What DEL does to the keys of a request, and how it is recorded.
DelKeys(S, mark) ==
    /\ sess' = [s \in Session |-> IF s \in S THEN [sess[s] EXCEPT !.keyExp = 0] ELSE sess[s]]
    /\ fate' = [s \in Session |-> IF s \in S /\ Exists(s) THEN mark ELSE fate[s]]

\* DelKeys makes sessions gone, and touches no other.
LEMMA KeysDeleted ==
    ASSUME Inv, NEW S \in SUBSET Session, \A s \in S : sess[s].created # 0, UNCHANGED now,
           NEW mark \in {"deleted", "revoked"}, DelKeys(S, mark)
    PROVE  SessStep /\ \A s \in S : Gone(s)'
<1>1. ASSUME NEW s \in S
      PROVE  /\ sess'[s] \in StoredSession /\ sess'[s].created = sess[s].created
             /\ sess'[s].acct = sess[s].acct /\ sess'[s].active = sess[s].active
             /\ sess'[s].keyExp = 0
    <2>1. PICK k \in StoredSession : k = sess[s]
        BY Types
    <2>2. sess'[s] = [k EXCEPT !.keyExp = 0]
        BY <2>1 DEF DelKeys
    <2> QED BY <2>1, <2>2 DEF StoredSession
<1>2. ASSUME NEW s \in Session, s \notin S
      PROVE  sess'[s] = sess[s] /\ fate'[s] = fate[s] /\ sess'[s] \in StoredSession
    BY <1>2, Types DEF DelKeys
<1>3. sess' \in [Session -> StoredSession]
    <2>1. PICK f : f = sess'
        OBVIOUS
    <2>2. f = [s \in Session |-> f[s]] /\ \A s \in Session : f[s] \in StoredSession
        BY <1>1, <1>2, <2>1 DEF DelKeys
    <2> QED BY <2>1, <2>2
<1>4. fate' \in [Session -> Fate]
    BY Types DEF DelKeys, Fate
<1>5. SessStep
    BY <1>1, <1>2, <1>3, <1>4 DEF SessStep
<1>6. now >= 1 /\ now \in Nat
    BY Types DEF KeysInv
<1> QED BY <1>1, <1>5, <1>6 DEF Gone, Exists

\* A call deletes session keys: either their tokens are gone or the call has them to revoke.
LEMMA DelStep ==
    ASSUME Inv, NEW c \in Call, NEW n \in CallState, call' = [call EXCEPT ![c] = n], CallOK(n)',
           UNCHANGED <<now, idx, tokens, unlisted>>, late' \subseteq Session, CacheStep, NEW mark \in {"deleted", "revoked"},
           DelKeys(call[c].ids, mark) \/ (Faulty /\ UNCHANGED <<sess, fate>>),
           call[c].pc \in BeforePC, n.pc \notin LoginPC \cup UsePC,
           mark = "revoked" => \A s \in call[c].ids : s \notin tokens,
           Reliable => \A s \in call[c].ids : s \in tokens => s \in n.todo,
           Reliable => call[c].todo \subseteq n.todo
    PROVE  Inv'
<1>1. PICK q \in CallState : q = call[c] /\ CallOK(q)
    BY Types
<1>2. q.ids \in SUBSET Session /\ \A s \in q.ids : sess[s].created # 0
    BY <1>1 DEF CallOK, SidOK, CallState
<1>3. SessStep /\ (Reliable => \A s \in q.ids : Gone(s)')
    <2>1. CASE DelKeys(q.ids, mark)
        BY <1>2, <2>1, KeysDeleted
    <2>2. CASE Faulty /\ UNCHANGED <<sess, fate>>
        BY <2>2, SessSame DEF Faulty, Reliable
    <2> QED BY <1>1, <2>1, <2>2
<1>4. /\ call'[c] = n /\ \A d \in Call : d # c => call'[d] = call[d]
    BY Types
<1>5. \A s \in Session : fate'[s] # fate[s] => s \in q.ids /\ fate'[s] = mark
    BY <1>1, Types DEF DelKeys
<1>6. OrphanInv'
    <2>1. ASSUME NEW s \in Session, fate'[s] = "revoked", s \in tokens'
          PROVE  fate[s] = "revoked" /\ s \in tokens
        BY <1>1, <1>5, <2>1
    <2>2. ASSUME Reliable, NEW s \in Session, fate'[s] \in {"deleted", "revoked"}, s \in tokens'
          PROVE  \/ \E d \in Call : s \in call'[d].todo
                 \/ /\ fate[s] \in {"deleted", "revoked"} /\ s \in tokens
                    /\ \A d \in Call : s \in call[d].todo => s \in call'[d].todo
        <3>1. \A d \in Call : call[d].todo \subseteq call'[d].todo
            BY <1>4, <2>2
        <3>2. CASE s \in q.ids
            BY <1>1, <1>4, <2>2, <3>2
        <3>3. CASE s \notin q.ids
            BY <1>5, <2>2, <3>1, <3>3
        <3> QED BY <3>2, <3>3
    <2> QED BY <2>1, <2>2, Types, OrphanKept
<1>7. "evict" \notin BeforePC /\ "refreshSet" \notin BeforePC
      /\ "refreshExpire" \notin BeforePC /\ "updateExpire" \notin BeforePC
    BY DEF BeforePC
<1>8. LimitInv'
    <2>1. \A a \in Account : Members(a)' = Members(a)
        BY DEF Members
    <2>2. \A a \in Account : Evicting(a) \subseteq Evicting(a)'
        BY <1>4, <1>7 DEF Evicting, At
    <2>3. \A a \in Account : Evicting(a)' \subseteq Call
        BY DEF Evicting
    <2> QED BY <2>1, <2>2, <2>3, Types, LimitKept
<1>9. CacheInv'
    <2>1. ASSUME NEW s \in Session, Exists(s)'
          PROVE  Exists(s) /\ sess'[s].active = sess[s].active
        <3>1. CASE sess'[s] = sess[s]
            BY <2>1, <3>1 DEF Exists
        <3>2. CASE sess'[s] # sess[s]
            <4>1. sess'[s].keyExp = 0 /\ now >= 1 /\ now \in Nat
                BY <1>3, <3>2, Types DEF SessStep, KeysInv
            <4> QED BY <2>1, <4>1 DEF Exists
        <3> QED BY <3>1, <3>2
    <2>2. \A d \in Call : call[d].pc \in WritePC => call'[d] = call[d]
        BY <1>4, <1>7 DEF WritePC
    <2> QED BY <2>1, <2>2, Types, CacheKept
<1>10. Reliable => \A s \in q.ids : ~Exists(s)'
    BY <1>3 DEF Gone, Reliable
<1> QED BY <1>1, <1>3, <1>6, <1>7, <1>8, <1>9, <1>10, IdxSame, ShrinkStep DEF CacheStep

\* A request goes on after the DEL.
LEMMA DelGoto ==
    ASSUME Inv, NEW c \in Call, NEW from \in BeforePC, call[c].pc = from,
           NEW p \in {"cleanSRem", "forceSRem", "revokeSRem"}, Goto(c, p),
           <<from, p>> \in {<<"cleanDel", "cleanSRem">>, <<"forceDel", "forceSRem">>,
                            <<"revokeDel", "revokeSRem">>},
           UNCHANGED <<now, idx, tokens, unlisted>>, late' \subseteq Session, CacheStep, NEW mark \in {"deleted", "revoked"},
           mark = "revoked" => from = "revokeDel",
           DelKeys(call[c].ids, mark) \/ (Faulty /\ UNCHANGED <<sess, fate>>)
    PROVE  Inv'
<1>1. PICK q \in CallState : q = call[c] /\ CallOK(q) /\ q.pc = from
    BY Types
<1>2. PICK n \in CallState : call' = [call EXCEPT ![c] = n] /\ n.pc = p /\ Same(n, q)
    BY <1>1, GotoIs DEF PC
<1>3. /\ n.ids = q.ids /\ n.todo = q.todo /\ n.sid = q.sid /\ n.stale = q.stale /\ n.rest = q.rest
      /\ n.active = q.active /\ n.since = q.since
    BY <1>2 DEF Same
<1>4. q.ids \in SUBSET Session /\ (\A s \in q.ids : sess[s].created # 0) /\ q.stale \subseteq Session
    BY <1>1 DEF CallOK, SidOK, CallState
<1>5. SessStep /\ (Reliable => \A s \in q.ids : Gone(s)')
    <2>1. CASE DelKeys(q.ids, mark)
        BY <1>4, <2>1, KeysDeleted
    <2>2. CASE Faulty /\ UNCHANGED <<sess, fate>>
        BY <2>2, SessSame DEF Faulty, Reliable
    <2> QED BY <1>1, <2>1, <2>2
<1>6. \A s \in Session : sess'[s].created = sess[s].created /\ (Gone(s) => Gone(s)')
    <2>1. now >= 1 /\ now \in Nat
        BY Types DEF KeysInv
    <2> QED BY <1>5, <2>1 DEF SessStep, Gone, Exists
<1>7. SidOK(n)'
    <2>1. q.sid \in Session \cup {NoSession} /\ q.todo \subseteq Session /\ q.rest \subseteq Session
        BY DEF CallState
    <2>2. p \in SidPC => from \in SidPC
        BY DEF SidPC, LoginPC
    <2> QED BY <1>1, <1>2, <1>3, <1>4, <1>6, <2>1, <2>2 DEF CallOK, SidOK
<1>8. WorkOK(n)'
    BY <1>1, <1>2, <1>3 DEF CallOK, WorkOK, TodoPC
<1>9. TokensOK(n)'
    BY <1>2 DEF TokensOK, RevokePC, LoginPC
<1>10. GoneOK(n)'
    <2>1. ASSUME Reliable, NEW s \in q.stale
          PROVE  Gone(s)'
        <3>1. CASE from = "cleanDel"
            BY <1>1, <1>5, <2>1, <3>1 DEF CallOK, WorkOK
        <3>2. CASE from # "cleanDel"
            BY <1>1, <1>4, <1>6, <2>1, <3>2 DEF CallOK, GoneOK
        <3> QED BY <3>1, <3>2
    <2> QED BY <1>3, <1>5, <2>1 DEF GoneOK, Reliable
<1>11. BeforeOK(n)'
    BY <1>1, <1>2, <1>3 DEF CallOK, BeforeOK, Reliable
<1>12. CallOK(n)'
    BY <1>7, <1>8, <1>9, <1>10, <1>11 DEF CallOK
<1>13. from \in {"cleanDel", "revokeDel"} => q.todo = {}
    BY <1>1 DEF CallOK, WorkOK, TodoPC
<1>14. from = "revokeDel" => \A s \in q.ids : s \notin tokens
    BY <1>1, <1>13 DEF CallOK, TokensOK, RevokePC
<1>15. Reliable => \A s \in q.ids : s \in tokens => s \in n.todo
    <2>1. CASE from = "cleanDel"
        BY <1>1, <2>1 DEF CallOK, WorkOK, TokensOK, LoginPC
    <2>2. CASE from = "forceDel"
        BY <1>1, <1>3, <2>2 DEF CallOK, WorkOK
    <2> QED BY <1>14, <2>1, <2>2
<1>16. n.pc \notin LoginPC \cup UsePC
    BY <1>2 DEF LoginPC, UsePC
<1> QED BY <1>1, <1>2, <1>3, <1>12, <1>14, <1>15, <1>16, DelStep

\* A request answers with the DEL.
LEMMA DelReturn ==
    ASSUME Inv, NEW c \in Call, call[c].pc \in BeforePC, NEW success \in BOOLEAN, Return(c, success),
           Reliable => call[c].pc = "allDel",
           UNCHANGED <<now, idx, tokens, unlisted>>, late' \subseteq Session, CacheStep, NEW mark \in {"deleted", "revoked"},
           mark = "revoked" => call[c].pc = "revokeDel",
           DelKeys(call[c].ids, mark) \/ (Faulty /\ UNCHANGED <<sess, fate>>)
    PROVE  Inv'
<1>1. PICK q \in CallState : q = call[c] /\ CallOK(q)
    BY Types
<1>2. PICK n \in CallState :
               /\ call' = [call EXCEPT ![c] = n]
               /\ n.pc = "idle" /\ n.ids = {} /\ n.todo = {} /\ n.rest = {} /\ n.stale = {}
               /\ n.active = 0
    BY ReturnIs
<1>3. CallOK(n)' /\ n.pc \notin LoginPC \cup UsePC
    BY <1>2, Types, IdleOK DEF LoginPC, UsePC
<1>4. q.pc \in {"revokeDel", "allDel"} => q.todo = {}
    BY <1>1 DEF CallOK, WorkOK, TodoPC
<1>5. q.pc = "revokeDel" => \A s \in q.ids : s \notin tokens
    BY <1>1, <1>4 DEF CallOK, TokensOK, RevokePC
<1>6. Reliable => \A s \in q.ids : s \notin tokens
    BY <1>1, <1>4 DEF CallOK, TokensOK, RevokePC
<1> QED BY <1>1, <1>2, <1>3, <1>4, <1>5, <1>6, DelStep

\* DEL, by the step it belongs to.
LEMMA DelIs ==
    ASSUME Inv, NEW c \in Call, NEW from, NEW ok, NEW err, NEW mark, Del(c, from, ok, err, mark)
    PROVE  /\ call[c].pc = from /\ (Reliable => DelKeys(call[c].ids, mark) /\ Continue(c, ok, TRUE))
           /\ DelKeys(call[c].ids, mark) \/ (Faulty /\ UNCHANGED <<sess, fate>>)
           /\ Continue(c, ok, TRUE) \/ (Faulty /\ Continue(c, err, FALSE))
BY DEF Del, DelKeys, Faulty, Reliable, At

\* A step that fails shows that faults are possible.
LEMMA NotReliable ==
    Faulty => ~Reliable
BY DEF Faulty, Reliable

\* DeleteSession.
LEMMA DeleteSessionInv ==
    ASSUME Inv, NEW c \in Call, DeleteSession(c)
    PROVE  Inv'
<1>1. PICK q \in CallState : q = call[c] /\ CallOK(q)
    BY Types
<1>2. PICK s : s = q.sid
    OBVIOUS
<1>3. q.pc \in {"cleanGet", "cleanDel", "cleanSRem"}
    BY <1>1 DEF DeleteSession, At, Del, SRem
<1>4. s \in Session /\ sess[s].created # 0 /\ q.todo = {}
    BY <1>1, <1>2, <1>3 DEF CallOK, SidOK, SidPC, LoginPC, WorkOK, TodoPC
<1>5. ASSUME q.pc = "cleanGet", NEW S \in {{s}, q.stale}, CacheStep,
             UNCHANGED <<now, sess, idx, tokens, fate, unlisted>>, late' \subseteq Session,
             call' = [call EXCEPT ![c] = [q EXCEPT !.pc = "cleanDel", !.ids = {s}, !.stale = S]]
      PROVE  Inv'
    <2>1. q.stale = {}
        BY <1>1, <1>5 DEF CallOK, WorkOK
    <2>2. S \subseteq {s}
        BY <1>5, <2>1
    <2>3. PICK n : n = [q EXCEPT !.pc = "cleanDel", !.ids = {s}, !.stale = S]
        OBVIOUS
    <2>4. /\ n \in CallState /\ n.pc = "cleanDel" /\ n.ids = {s} /\ n.stale = S /\ n.sid = s
          /\ n.todo = {} /\ n.rest = q.rest /\ n.active = q.active /\ n.since = q.since
        BY <1>2, <1>4, <2>2, <2>3 DEF CallState, PC
    <2>5. /\ {"cleanGet", "cleanDel"} \subseteq LoginPC /\ "cleanDel" \in BeforePC
          /\ "cleanDel" \notin RevokePC \cup UsePC /\ "cleanGet" \notin BeforePC
        BY DEF LoginPC, BeforePC, RevokePC, UsePC
    <2>6. SidOK(n) /\ WorkOK(n)
        BY <1>1, <1>4, <2>2, <2>4 DEF CallOK, SidOK, WorkOK
    <2>7. TokensOK(n) /\ GoneOK(n) /\ BeforeOK(n)
        BY <1>1, <1>2, <1>5, <2>4, <2>5 DEF CallOK, TokensOK, GoneOK, BeforeOK
    <2>8. CallOK(n)'
        BY <1>5, <2>4, <2>6, <2>7, StaysLocal DEF CallOK
    <2> QED BY <1>1, <1>2, <1>4, <1>5, <2>3, <2>4, <2>5, <2>8, IdsGone, IdxSame, PlainStep
<1>6. CASE /\ At(c, "cleanGet")
           /\ \/ /\ Exists(s)
                 /\ CacheStore(s, sess[s].active)
                 /\ call' = [call EXCEPT ![c].pc = "cleanDel", ![c].ids = {s}, ![c].stale = {s}]
              \/ /\ ~Exists(s) \/ Faulty
                 /\ call' = [call EXCEPT ![c].pc = "cleanDel", ![c].ids = {s}]
                 /\ UNCHANGED cacheVars
           /\ UNCHANGED <<now, sess, idx, tokens, fate, unlisted>> /\ late' \subseteq Session
    <2>1. CASE /\ CacheStore(s, sess[s].active)
               /\ call' = [call EXCEPT ![c].pc = "cleanDel", ![c].ids = {s}, ![c].stale = {s}]
        <3>1. CacheStep
            BY <1>4, <2>1, ThereCreated, Types, CacheStored
        <3>2. call' = [call EXCEPT ![c] = [q EXCEPT !.pc = "cleanDel", !.ids = {s}, !.stale = {s}]]
            BY <1>1, <2>1, Types
        <3> QED BY <1>1, <1>5, <1>6, <3>1, <3>2 DEF At
    <2>2. CASE /\ call' = [call EXCEPT ![c].pc = "cleanDel", ![c].ids = {s}]
               /\ UNCHANGED cacheVars
        <3>1. CacheStep
            BY <2>2, Types, CacheSame
        <3>2. [q EXCEPT !.pc = "cleanDel", !.ids = {s}, !.stale = q.stale]
              = [q EXCEPT !.pc = "cleanDel", !.ids = {s}]
            BY DEF CallState
        <3>3. call' = [call EXCEPT ![c] = [q EXCEPT !.pc = "cleanDel", !.ids = {s}, !.stale = q.stale]]
            BY <1>1, <2>2, <3>2, Types
        <3> QED BY <1>1, <1>5, <1>6, <3>1, <3>3 DEF At
    <2> QED BY <1>6, <2>1, <2>2
<1>7. CASE /\ Del(c, "cleanDel", "cleanSRem", "idle", "deleted")
           /\ CacheDrop({s}) \/ UNCHANGED cacheVars
           /\ UNCHANGED <<now, idx, tokens, unlisted>> /\ late' \subseteq Session
    <2>1. CacheStep
        BY <1>4, <1>7, Types, CacheSame, CacheDropped
    <2>2. "cleanDel" \in BeforePC
        BY DEF BeforePC
    <2>3. /\ call[c].pc = "cleanDel"
          /\ DelKeys(call[c].ids, "deleted") \/ (Faulty /\ UNCHANGED <<sess, fate>>)
          /\ Continue(c, "cleanSRem", TRUE) \/ (Faulty /\ Continue(c, "idle", FALSE))
        BY <1>7, DelIs
    <2>4. CASE Goto(c, "cleanSRem")
        BY <1>7, <2>1, <2>2, <2>3, <2>4, DelGoto
    <2>5. CASE Faulty /\ Return(c, FALSE)
        BY <1>7, <2>1, <2>2, <2>3, <2>5, NotReliable, DelReturn
    <2> QED BY <2>3, <2>4, <2>5 DEF Continue
<1>8. CASE /\ SRem(c, q.stale, "cleanSRem", "idle")
           /\ UNCHANGED <<now, sess, cacheVars, tokens, fate, unlisted>> /\ late' \subseteq Session
    <2>1. q.pc = "cleanSRem" /\ Return(c, TRUE)
        BY <1>1, <1>8, Types DEF SRem, At, Continue
    <2>2. "cleanSRem" \notin BeforePC
        BY DEF BeforePC
    <2>3. Reliable => \A x \in q.stale : Gone(x)
        BY <1>1, <2>1 DEF CallOK, GoneOK
    <2>4. IdxStep
        BY <1>8, <2>3, SRemmed DEF SRem
    <2> QED BY <1>1, <1>4, <1>8, <2>1, <2>2, <2>4, IdsGone, Types, CacheSame, ReturnStep
<1> QED BY <1>1, <1>2, <1>6, <1>7, <1>8, Types DEF DeleteSession

\* forceExpireSession.
LEMMA ForceExpireSessionInv ==
    ASSUME Inv, NEW c \in Call, ForceExpireSession(c)
    PROVE  Inv'
<1>1. PICK q \in CallState : q = call[c] /\ CallOK(q)
    BY Types
<1>2. CASE /\ Del(c, "forceDel", "forceSRem", "forceSRem", "deleted")
           /\ UNCHANGED <<now, idx, cacheVars, tokens, unlisted>> /\ late' \subseteq Session
    <2>1. "forceDel" \in BeforePC
        BY DEF BeforePC
    <2>2. /\ call[c].pc = "forceDel" /\ Goto(c, "forceSRem")
          /\ DelKeys(call[c].ids, "deleted") \/ (Faulty /\ UNCHANGED <<sess, fate>>)
        BY <1>2, DelIs DEF Continue
    <2> QED BY <1>2, <2>1, <2>2, Types, CacheSame, DelGoto
<1>3. CASE /\ SRem(c, q.ids, "forceSRem", "forceTokens")
           /\ CacheDrop(q.ids)
           /\ UNCHANGED <<now, sess, tokens, fate, unlisted>> /\ late' \subseteq Session
    <2>1. q.pc = "forceSRem" /\ Goto(c, "forceTokens") /\ q.ids \in SUBSET Session
        BY <1>1, <1>3, Types DEF SRem, At, Continue, CallState
    <2>2. /\ "forceSRem" \notin BeforePC /\ "forceTokens" \in PC /\ "forceTokens" \in TodoPC
          /\ "forceTokens" \notin BeforePC \cup SidPC \cup LoginPC \cup RevokePC \cup UsePC
        BY DEF BeforePC, PC, TodoPC, SidPC, LoginPC, RevokePC, UsePC
    <2>3. Reliable => \A s \in q.ids : Gone(s)
        BY <1>1, <2>1, <2>2 DEF CallOK, GoneOK
    <2>4. IdxStep
        BY <1>1, <1>3, <2>3, SRemmed DEF SRem
    <2>5. CacheStep
        BY <1>3, <2>1, Types, CacheDropped
    <2>6. ASSUME NEW n \in CallState, n.pc = "forceTokens", Same(n, q)
          PROVE  CallOK(n)
        <3>1. SidOK(n) /\ WorkOK(n) /\ TokensOK(n)
            BY <1>1, <2>2, <2>6 DEF Same, CallOK, SidOK, WorkOK, TokensOK
        <3>2. GoneOK(n) /\ BeforeOK(n)
            BY <1>1, <2>1, <2>2, <2>6 DEF Same, CallOK, GoneOK, BeforeOK
        <3> QED BY <3>1, <3>2 DEF CallOK
    <2> QED BY <1>1, <1>3, <2>1, <2>2, <2>4, <2>5, <2>6, GotoStep
<1>4. CASE RevokeTokens(c, "forceTokens", AfterExpiry(c), "forceTokens")
    BY <1>4, ForceTokensInv
<1> QED BY <1>1, <1>2, <1>3, <1>4, Types DEF ForceExpireSession

\* Going on to revoke the tokens of Logout once more.
LEMMA LogoutOK ==
    ASSUME Inv, NEW q \in CallState, CallOK(q), NEW n \in CallState, Same(n, q),
           n.pc = "logoutTokens", q.pc \in {"revokeDel", "revokeSRem"}, ~Reliable \/ q.pc = "revokeSRem"
    PROVE  CallOK(n)
<1>1. /\ "logoutTokens" \notin LoginPC \cup RevokePC \cup BeforePC /\ "logoutTokens" \in TodoPC
      /\ {"revokeDel", "revokeSRem"} \subseteq SidPC /\ "revokeSRem" \notin BeforePC
      /\ {"revokeDel", "revokeSRem"} \cap TodoPC = {}
    BY DEF LoginPC, RevokePC, TodoPC, SidPC, BeforePC
<1>2. q.todo = {}
    BY <1>1 DEF CallOK, WorkOK
<1>3. SidOK(n) /\ WorkOK(n) /\ TokensOK(n)
    BY <1>1, <1>2 DEF Same, CallOK, SidOK, WorkOK, TokensOK
<1>4. GoneOK(n)
    BY <1>1 DEF Same, CallOK, GoneOK
<1>5. BeforeOK(n)
    BY DEF Same, CallOK, BeforeOK
<1> QED BY <1>3, <1>4, <1>5 DEF CallOK

\* RevokeSession.
LEMMA RevokeSessionInv ==
    ASSUME Inv, NEW c \in Call, RevokeSession(c)
    PROVE  Inv'
<1>1. PICK q \in CallState : q = call[c] /\ CallOK(q)
    BY Types
<1>2. PICK end : end = IF call[c].logout THEN "logoutTokens" ELSE "idle"
    OBVIOUS
<1>3. CASE RevokeTokens(c, "revokeTokens", "revokeDel", end)
    BY <1>2, <1>3, RevokeTokensInv
<1>4. CASE /\ Del(c, "revokeDel", "revokeSRem", end, "revoked")
           /\ UNCHANGED <<now, idx, cacheVars, tokens, unlisted>> /\ late' \subseteq Session
    <2>1. "revokeDel" \in BeforePC
        BY DEF BeforePC
    <2>2. /\ call[c].pc = "revokeDel" /\ CacheStep
          /\ DelKeys(call[c].ids, "revoked") \/ (Faulty /\ UNCHANGED <<sess, fate>>)
          /\ Continue(c, "revokeSRem", TRUE) \/ (Faulty /\ Continue(c, end, FALSE))
        BY <1>4, DelIs, Types, CacheSame
    <2>3. CASE Goto(c, "revokeSRem")
        BY <1>4, <2>1, <2>2, <2>3, DelGoto
    <2>4. CASE Faulty /\ Return(c, FALSE)
        BY <1>4, <2>1, <2>2, <2>4, NotReliable, DelReturn
    <2>5. CASE Faulty /\ Goto(c, "logoutTokens")
        <3>1. PICK n \in CallState : call' = [call EXCEPT ![c] = n] /\ n.pc = "logoutTokens" /\ Same(n, q)
            BY <1>1, <2>5, GotoIs DEF PC
        <3>2. CallOK(n)
            BY <1>1, <2>2, <2>5, <3>1, NotReliable, LogoutOK
        <3>3. q.ids \in SUBSET Session /\ \A s \in q.ids : sess[s].created # 0
            BY <1>1 DEF CallOK, SidOK, CallState
        <3>4. SessStep
            BY <1>1, <1>4, <2>2, <3>3, KeysDeleted, SessSame
        <3>5. Evolves /\ Issues(n)
            <4>1. now >= 1 /\ now \in Nat
                BY Types DEF KeysInv
            <4>2. \A s \in Session : Exists(s)' => Exists(s)
                BY <1>4, <3>4, <4>1 DEF SessStep, Exists
            <4> QED BY <1>4, <3>4, <4>2 DEF SessStep, Evolves, Issues
        <3>6. CallOK(n)'
            BY <3>2, <3>5, Types, CallStays
        <3>7. n.pc \notin LoginPC \cup UsePC /\ n.todo = q.todo
            BY <3>1 DEF LoginPC, UsePC, Same
        <3>8. \A s \in q.ids : s \notin tokens
            BY <1>1, <2>2 DEF CallOK, TokensOK, RevokePC, WorkOK, TodoPC
        <3> QED BY <1>1, <1>4, <2>1, <2>2, <3>1, <3>6, <3>7, <3>8, DelStep
    <2> QED BY <1>2, <2>2, <2>3, <2>4, <2>5 DEF Continue
<1>5. CASE /\ SRem(c, q.ids, "revokeSRem", end)
           /\ UNCHANGED <<now, sess, cacheVars, tokens, fate, unlisted>> /\ late' \subseteq Session
    <2>1. q.pc = "revokeSRem" /\ CacheStep /\ Continue(c, end, TRUE)
        BY <1>1, <1>5, Types, CacheSame DEF SRem, At
    <2>2. "revokeSRem" \notin BeforePC \cup TodoPC
        BY DEF BeforePC, TodoPC
    <2>3. (Reliable => \A s \in q.ids : Gone(s)) /\ q.todo = {}
        BY <1>1, <2>1, <2>2 DEF CallOK, GoneOK, WorkOK
    <2>4. IdxStep
        BY <1>1, <1>5, <2>3, SRemmed DEF SRem
    <2>5. CASE Return(c, TRUE)
        BY <1>1, <1>5, <2>1, <2>2, <2>3, <2>4, <2>5, IdsGone, ReturnStep
    <2>6. CASE Goto(c, "logoutTokens")
        <3>1. \A n \in CallState : n.pc = "logoutTokens" /\ Same(n, q) => CallOK(n)
            BY <1>1, <2>1, LogoutOK
        <3>2. "logoutTokens" \in PC /\ "logoutTokens" \notin LoginPC \cup UsePC
            BY DEF PC, LoginPC, UsePC
        <3> QED BY <1>1, <1>5, <2>1, <2>4, <2>6, <3>1, <3>2, GotoStep
    <2> QED BY <1>2, <2>1, <2>5, <2>6 DEF Continue
<1> QED BY <1>1, <1>2, <1>3, <1>4, <1>5, Types DEF RevokeSession

\* RevokeAllForAccount, after the index.
LEMMA RevokeAllKeysInv ==
    ASSUME Inv, NEW c \in Call, RevokeAllKeys(c)
    PROVE  Inv'
<1>1. CASE RevokeTokens(c, "allTokens", "allDel", "allTokens")
    BY <1>1, AllTokensInv
<1>2. CASE /\ Del(c, "allDel", "idle", "idle", "deleted")
           /\ UNCHANGED <<now, idx, cacheVars, tokens, unlisted>> /\ late' \subseteq Session
    <2>1. "allDel" \in BeforePC
        BY DEF BeforePC
    <2>2. /\ call[c].pc = "allDel" /\ CacheStep
          /\ DelKeys(call[c].ids, "deleted") \/ (Faulty /\ UNCHANGED <<sess, fate>>)
          /\ Return(c, TRUE) \/ Return(c, FALSE)
        BY <1>2, DelIs, Types, CacheSame DEF Continue
    <2> QED BY <1>2, <2>1, <2>2, DelReturn
<1> QED BY <1>1, <1>2, Types DEF RevokeAllKeys

-----------------------------------------------------------------------------
(* Writing a session and its index.                                        *)

\* What SET does to a key that is there.
Writes(s, t) == sess' = [sess EXCEPT ![s].active = t, ![s].keyExp = now + SessionTTL]

\* The key of a session after refresh or update has written it back.
LEMMA WriteIs ==
    ASSUME Inv, NEW s \in Session, NEW t \in Nat, Writes(s, t)
    PROVE  /\ sess' \in [Session -> StoredSession] /\ \A x \in Session : x # s => sess'[x] = sess[x]
           /\ sess'[s].created = sess[s].created /\ sess'[s].acct = sess[s].acct
           /\ sess'[s].active = t /\ sess'[s].keyExp = now + SessionTTL
<1>1. PICK k \in StoredSession : k = sess[s]
    BY Types
<1>2. PICK e \in Nat : e = now + SessionTTL
    BY Types
<1>3. PICK j : j = [k EXCEPT !.active = t, !.keyExp = e]
    OBVIOUS
<1>4. /\ j \in StoredSession /\ j.created = k.created /\ j.acct = k.acct /\ j.active = t
      /\ j.keyExp = e
    BY <1>3 DEF StoredSession
<1>5. sess' = [sess EXCEPT ![s] = j]
    BY <1>1, <1>2, <1>3, Types DEF Writes
<1> QED BY <1>1, <1>2, <1>4, <1>5, Types

\* Refresh and update write a session back, which keeps the invariant since it still exists.
LEMMA WriteStep ==
    ASSUME Inv, NEW c \in Call, NEW n \in CallState, call' = [call EXCEPT ![c] = n], CallOK(n),
           NEW s \in Session, call[c].sid = s, NEW t \in Nat, t <= now, Exists(s), Writes(s, t),
           UNCHANGED <<now, idx, tokens, fate, unlisted>>, late' \subseteq Session,
           cache' \in [Session -> CachedSession], cacheSize' \in Int, sweep' \subseteq Session, CacheInv',
           Reliable => n.pc \in {"refreshExpire", "updateExpire"} /\ n.sid = s,
           n.pc \notin LoginPC, call[c].pc \in {"refreshSet", "update"}
    PROVE  Inv'
<1>1. PICK q \in CallState : q = call[c] /\ CallOK(q)
    BY Types
<1>2. /\ sess' \in [Session -> StoredSession] /\ (\A x \in Session : x # s => sess'[x] = sess[x])
      /\ sess'[s].created = sess[s].created /\ sess'[s].acct = sess[s].acct
      /\ sess'[s].active = t /\ sess'[s].keyExp = now + SessionTTL
    BY WriteIs
<1>3. sess[s].created # 0 /\ fate[s] = "none"
    BY ThereCreated, Types DEF KeysInv
<1>4. Evolves /\ \A d \in Call : Issues(call[d])
    BY <1>2 DEF Evolves, Exists, Issues
<1>5. CallOK(n)'
    BY <1>4, Types, CallStays DEF Issues
<1>6. /\ call' \in [Call -> CallState] /\ CallsInv'
      /\ call'[c] = n /\ \A d \in Call : d # c => call'[d] = call[d]
    BY <1>4, <1>5, Types, OneCallMoves
<1>7. TypeOK'
    BY <1>2, <1>6, Types DEF TypeOK
<1>8. KeysInv'
    <2>1. ASSUME NEW x \in Session
          PROVE  /\ sess'[x].created = 0 => sess'[x].keyExp = 0 /\ fate'[x] = "none" /\ x \notin tokens'
                 /\ fate'[x] # "none" => ~Exists(x)'
                 /\ sess'[x].active <= now'
        <3>1. CASE x = s
            BY <1>2, <1>3, <3>1
        <3>2. CASE x # s
            BY <1>2, <3>2, Types DEF KeysInv, Exists
        <3> QED BY <3>1, <3>2
    <2>2. \A a \in Account : \A x \in idx'[a].members : x \in Session /\ sess[x].created # 0
        BY Types DEF KeysInv, AccountIndex
    <2>3. \A a \in Account : \A x \in idx'[a].members : sess'[x].created # 0
        BY <1>2, <2>2
    <2>4. now' >= 1
        BY Types DEF KeysInv
    <2> QED BY <2>1, <2>3, <2>4 DEF KeysInv
<1>9. LoginInv'
    BY <1>6, Types, LoginKept
<1>10. q.todo = {} /\ (Reliable => s \notin q.ids)
    BY <1>1 DEF CallOK, WorkOK, TodoPC, GoneOK, Gone, BeforePC, Reliable
<1>11. OrphanInv'
    <2>1. \A d \in Call : call[d].todo \subseteq call'[d].todo
        BY <1>1, <1>6, <1>10
    <2> QED BY <2>1, Types, OrphanKept
<1>12. LimitInv'
    <2>1. \A a \in Account : Members(a)' = Members(a)
        BY DEF Members
    <2>2. \A a \in Account : Evicting(a) \subseteq Evicting(a)'
        BY <1>6 DEF Evicting, At
    <2>3. \A a \in Account : Evicting(a)' \subseteq Call
        BY DEF Evicting
    <2> QED BY <2>1, <2>2, <2>3, Types, LimitKept
<1>13. IndexInv'
    <2> SUFFICES ASSUME Reliable, NEW x \in Session, Exists(x)', x \notin unlisted,
                        \A d \in Call : x \notin call'[d].ids
                 PROVE  Covered(x)' \/ Idle(x)'
        BY DEF IndexInv, Reliable
    <2>1. Exists(x) /\ x \notin call[c].ids
        <3>1. CASE x = s
            BY <1>1, <1>10, <3>1
        <3>2. CASE x # s
            <4>1. Exists(x)
                BY <1>2, <3>2 DEF Exists
            <4> QED BY <1>1, <4>1 DEF CallOK, GoneOK, Gone, BeforePC, Reliable
        <3> QED BY <3>1, <3>2
    <2>2. \A d \in Call : x \notin call[d].ids
        BY <1>6, <2>1
    <2>3. Covered(x) \/ Idle(x)
        BY <2>1, <2>2, Types DEF IndexInv
    <2>4. CASE x = s
        <3>1. ~Idle(s)
            BY DEF Idle, UsePC
        <3> QED BY <1>2, <1>6, <2>3, <2>4, <3>1 DEF Covered
    <2>5. CASE x # s
        <3>1. \A d \in Call : call[d].pc \in {"refreshExpire", "updateExpire"} => call'[d] = call[d]
            BY <1>6
        <3>2. sess'[x] = sess[x]
            BY <1>2, <2>5
        <3>3. \A d \in Call : call'[d].sid = x => call'[d] = call[d]
            BY <1>6, <2>5
        <3> QED BY <2>3, <3>1, <3>2, <3>3 DEF Covered, Idle
    <2> QED BY <2>4, <2>5
<1> QED BY <1>6, <1>7, <1>8, <1>9, <1>11, <1>12, <1>13 DEF Inv

\* What SetIfExists does.
LEMMA SetIs ==
    ASSUME Inv, NEW c \in Call, NEW s \in Session, NEW from, NEW next, NEW t,
           SetIfExists(c, s, from, next, t)
    PROVE  /\ At(c, from) /\ UNCHANGED <<now, idx, tokens, fate, unlisted>> /\ late' \subseteq Session
           /\ \/ Exists(s) /\ Writes(s, t) /\ Goto(c, next)
              \/ Faulty /\ Exists(s) /\ Writes(s, t) /\ Return(c, FALSE)
              \/ (Reliable => ~Exists(s)) /\ UNCHANGED sess /\ Return(c, FALSE)
BY Types DEF SetIfExists, Writes, Faulty, Reliable

\* A request goes on to the index, or has answered.
LEMMA AfterSet ==
    ASSUME Inv, NEW q \in CallState, CallOK(q), NEW n \in CallState,
           q.pc \in {"refreshSet", "update"}, n.pc \in {"refreshExpire", "updateExpire"}, Same(n, q)
    PROVE  CallOK(n) /\ n.sid = q.sid /\ n.pc \notin LoginPC
<1>1. /\ {"refreshSet", "update", "refreshExpire", "updateExpire"} \subseteq SidPC
      /\ {"refreshSet", "update", "refreshExpire", "updateExpire"} \cap (TodoPC \cup BeforePC) = {}
      /\ n.pc \notin LoginPC \cup RevokePC
    BY DEF SidPC, TodoPC, BeforePC, LoginPC, RevokePC
<1>2. SidOK(n) /\ WorkOK(n) /\ TokensOK(n)
    BY <1>1 DEF Same, CallOK, SidOK, WorkOK, TokensOK
<1>3. GoneOK(n) /\ BeforeOK(n)
    BY <1>1 DEF Same, CallOK, GoneOK, BeforeOK
<1> QED BY <1>1, <1>2, <1>3 DEF Same, CallOK

\* The cache follows a write of one session.
LEMMA CacheWritten ==
    ASSUME Inv, NEW s \in Session, now' = now, cache' \in [Session -> CachedSession],
           \A x \in Session : x # s => cache'[x] = cache[x] /\ sess'[x] = sess[x],
           cache'[s].on => cache'[s].json <= cache'[s].active /\ cache'[s].active <= now,
           Reliable /\ Exists(s)' => \E d \in Call : call'[d].pc \in WritePC /\ call'[d].sid = s,
           \A d \in Call : call[d].pc \in WritePC /\ call[d].sid # s => call'[d] = call[d]
    PROVE  CacheInv'
<1>1. ASSUME NEW x \in Session, cache'[x].on
      PROVE  cache'[x].json <= cache'[x].active /\ cache'[x].active <= now'
    BY <1>1, Types DEF CacheInv
<1>2. ASSUME Reliable, NEW x \in Session, Exists(x)', Hit(x)', cache'[x].active # sess'[x].active
      PROVE  \E d \in Call : call'[d].pc \in WritePC /\ call'[d].sid = x
    <2>1. CASE x = s
        BY <1>2, <2>1
    <2>2. CASE x # s
        <3>1. Exists(x) /\ Hit(x) /\ cache[x].active # sess[x].active
            BY <1>2, <2>2 DEF Exists, Hit
        <3>2. PICK d \in Call : call[d].pc \in WritePC /\ call[d].sid = x
            BY <1>2, <3>1, Types DEF CacheInv
        <3> QED BY <2>2, <3>2
    <2> QED BY <2>1, <2>2
<1> QED BY <1>1, <1>2 DEF CacheInv, Reliable

\* EXPIRE of the index: every session in it now ends before it.
LEMMA ExpireStep ==
    ASSUME Inv, NEW c \in Call, NEW from \in {"refreshExpire", "updateExpire"}, ExpireIndex(c, from),
           CacheStep, ~cache'[call[c].sid].on
    PROVE  Inv'
<1>1. PICK q \in CallState : q = call[c] /\ CallOK(q) /\ q.pc = from
    BY Types DEF ExpireIndex, At
<1>2. PICK s \in Session : s = q.sid
    BY <1>1 DEF CallOK, SidOK, SidPC
<1>3. PICK a \in Account : a = sess[s].acct
    BY ThereCreated
<1>4. UNCHANGED <<now, sess, tokens, fate, unlisted>> /\ late' \subseteq Session /\ Return(c, TRUE)
    BY Types DEF ExpireIndex
<1>5. PICK n \in CallState :
               /\ call' = [call EXCEPT ![c] = n]
               /\ n.pc = "idle" /\ n.ids = {} /\ n.todo = {} /\ n.rest = {} /\ n.stale = {}
               /\ n.active = 0
    BY <1>4, ReturnIs
<1>6. Evolves /\ \A d \in Call : Issues(call[d])
    BY <1>4 DEF Evolves, Exists, Issues
<1>7. CallOK(n)' /\ n.pc \notin LoginPC \cup UsePC
    BY <1>4, <1>5, Types, IdleOK DEF LoginPC, UsePC
<1>8. /\ call' \in [Call -> CallState] /\ CallsInv'
      /\ call'[c] = n /\ \A d \in Call : d # c => call'[d] = call[d]
    BY <1>5, <1>6, <1>7, Types, OneCallMoves
<1>9. /\ idx' \in [Account -> AccountIndex] /\ \A b \in Account : idx'[b].members = idx[b].members
      /\ \A b \in Account : b # a \/ Members(b) = {} => idx'[b].keyExp = idx[b].keyExp
      /\ Reliable /\ Members(a) # {} => idx'[a].keyExp = now + SessionTTL
      /\ idx'[a].keyExp \in {idx[a].keyExp, now + SessionTTL}
    <2>1. CASE Faulty /\ UNCHANGED idx
        BY <2>1, Types DEF Faulty, Reliable
    <2>2. CASE idx' = [idx EXCEPT ![a].keyExp = IF Members(a) # {} THEN now + SessionTTL ELSE @]
        <3>1. PICK i \in AccountIndex : i = idx[a]
            BY Types
        <3>2. PICK e \in Nat : e = IF Members(a) # {} THEN now + SessionTTL ELSE i.keyExp
            BY Types DEF AccountIndex
        <3>3. PICK j : j = [i EXCEPT !.keyExp = e]
            OBVIOUS
        <3>4. j \in AccountIndex /\ j.members = i.members /\ j.keyExp = e
            BY <3>3 DEF AccountIndex
        <3>5. idx' = [idx EXCEPT ![a] = j]
            BY <2>2, <3>1, <3>2, <3>3, Types
        <3> QED BY <3>1, <3>2, <3>4, <3>5, Types
    <2> QED BY <1>1, <1>2, <1>3, <2>1, <2>2 DEF ExpireIndex
<1>10. TypeOK'
    BY <1>4, <1>8, <1>9, Types DEF TypeOK, CacheStep
<1>11. KeysInv'
    BY <1>4, <1>9, Types DEF KeysInv, Exists
<1>12. LoginInv'
    BY <1>7, <1>8, Types, LoginKept
<1>13. q.todo = {} /\ (Reliable => \A x \in q.ids : ~Exists(x))
    BY <1>1 DEF CallOK, WorkOK, TodoPC, GoneOK, Gone, BeforePC, Reliable
<1>14. OrphanInv'
    <2>1. \A d \in Call : call[d].todo \subseteq call'[d].todo
        BY <1>1, <1>8, <1>13
    <2> QED BY <1>4, <2>1, Types, OrphanKept
<1>15. LimitInv'
    <2>1. ASSUME NEW b \in Account PROVE Members(b)' \subseteq Members(b)
        <3>1. CASE Members(b) = {}
            BY <1>4, <1>9, <3>1 DEF Members
        <3>2. CASE Members(b) # {}
            BY <1>9, <3>2 DEF Members
        <3> QED BY <3>1, <3>2
    <2>2. \A b \in Account : Evicting(b) \subseteq Evicting(b)'
        BY <1>1, <1>8 DEF Evicting, At
    <2>3. \A b \in Account : Evicting(b)' \subseteq Call
        BY DEF Evicting
    <2> QED BY <2>1, <2>2, <2>3, Types, LimitKept
<1>16. IndexInv'
    <2> SUFFICES ASSUME Reliable, NEW x \in Session, Exists(x)', x \notin unlisted,
                        \A d \in Call : x \notin call'[d].ids
                 PROVE  Covered(x)' \/ Idle(x)'
        BY <1>4 DEF IndexInv, Reliable
    <2>1. Exists(x)
        BY <1>4 DEF Exists
    <2>2. \A d \in Call : x \notin call[d].ids
        BY <1>1, <1>8, <1>13, <2>1
    <2>3. CASE Covered(x)
        <3>1. PICK b \in Account : b = sess[x].acct
            BY ThereCreated
        <3>2. x \in idx[b].members /\ now <= idx[b].keyExp /\ Members(b) # {}
            BY <2>3, <3>1 DEF Covered, Members
        <3>3. CASE b = a
            <4>1. idx'[b].keyExp = now + SessionTTL
                BY <1>9, <3>2, <3>3 DEF Reliable
            <4>2. sess[x].active \in Nat /\ sess[x].active <= now /\ now \in Nat
                BY ThereCreated, Types
            <4> QED BY <1>4, <1>9, <3>1, <3>2, <4>1, <4>2 DEF Covered
        <3>4. CASE b # a
            <4>1. x # s
                BY <1>3, <3>1, <3>4
            <4>2. \A d \in Call : call[d].sid = x => call'[d] = call[d]
                BY <1>1, <1>2, <1>8, <4>1
            <4>3. idx'[b].keyExp = idx[b].keyExp /\ idx'[b].members = idx[b].members
                BY <1>9, <3>4
            <4> QED BY <1>4, <2>3, <3>1, <4>2, <4>3 DEF Covered
        <3> QED BY <3>3, <3>4
    <2>4. CASE Idle(x)
        <3>1. \A d \in Call : call'[d].pc \in UsePC => call'[d] = call[d]
            BY <1>7, <1>8
        <3> QED BY <1>4, <2>4, <3>1 DEF Idle
    <2> QED BY <2>1, <2>2, <2>3, <2>4, Types DEF IndexInv
<1>17. CacheInv'
    <2>1. \A d \in Call : call[d].sid # s => call'[d] = call[d]
        BY <1>1, <1>2, <1>8
    <2>2. \A x \in Session : Exists(x)' = Exists(x)
        BY <1>4 DEF Exists
    <2> QED BY <1>1, <1>2, <1>4, <2>1, <2>2, Types, CacheKept
<1> QED BY <1>8, <1>10, <1>11, <1>12, <1>14, <1>15, <1>16, <1>17 DEF Inv

\* RefreshSession writes back.
LEMMA RefreshWriteInv ==
    ASSUME Inv, NEW c \in Call, RefreshWrite(c)
    PROVE  Inv'
<1>1. PICK q \in CallState : q = call[c] /\ CallOK(q) /\ q.pc \in {"refreshSet", "refreshExpire"}
    BY Types DEF RefreshWrite, SetIfExists, ExpireIndex, At
<1>2. PICK s \in Session : s = q.sid
    BY <1>1 DEF CallOK, SidOK, SidPC
<1>3. CASE SetIfExists(c, s, "refreshSet", "refreshExpire", q.active) /\ UNCHANGED cacheVars
    <2>1. /\ q.pc = "refreshSet" /\ UNCHANGED <<now, idx, tokens, fate, unlisted>> /\ late' \subseteq Session
          /\ \/ Exists(s) /\ Writes(s, q.active) /\ Goto(c, "refreshExpire")
             \/ Faulty /\ Exists(s) /\ Writes(s, q.active) /\ Return(c, FALSE)
             \/ (Reliable => ~Exists(s)) /\ UNCHANGED sess /\ Return(c, FALSE)
        BY <1>1, <1>3, SetIs, Types DEF At
    <2>2. q.active \in Nat /\ q.active <= now
        BY <1>1 DEF CallOK, SidOK, CallState
    <2>3. ASSUME Exists(s), Writes(s, q.active), NEW n \in CallState, CallOK(n), n.pc \notin LoginPC,
                 call' = [call EXCEPT ![c] = n],
                 Reliable => n.pc \in {"refreshExpire", "updateExpire"} /\ n.sid = s
          PROVE  Inv'
        <3>1. \A x \in Session : x # s => sess'[x] = sess[x]
            BY <2>2, <2>3, WriteIs
        <3>2. call'[c] = n /\ (Reliable => n.pc \in WritePC)
            BY <2>3, Types DEF WritePC
        <3>3. \A d \in Call : call[d].pc \in WritePC /\ call[d].sid # s => call'[d] = call[d]
            BY <1>1, <1>2, <2>3, Types
        <3>4. /\ cache' = cache /\ cacheSize' = cacheSize /\ sweep' = sweep
              /\ cache \in [Session -> CachedSession] /\ cacheSize \in Int /\ sweep \subseteq Session
            BY <1>3, Types DEF cacheVars, TypeOK
        <3>5. cache[s].on => cache[s].json <= cache[s].active /\ cache[s].active <= now
            BY Types DEF CacheInv
        <3>6. CacheInv'
            BY <2>1, <2>3, <3>1, <3>2, <3>3, <3>4, <3>5, CacheWritten
        <3> QED BY <1>1, <1>2, <2>1, <2>2, <2>3, <3>4, <3>6, WriteStep
    <2>4. CASE Exists(s) /\ Writes(s, q.active) /\ Goto(c, "refreshExpire")
        <3>1. PICK n \in CallState : call' = [call EXCEPT ![c] = n] /\ n.pc = "refreshExpire" /\ Same(n, q)
            BY <1>1, <2>4, GotoIs DEF PC
        <3>2. CallOK(n) /\ n.sid = s /\ n.pc \notin LoginPC
            BY <1>1, <1>2, <2>1, <3>1, AfterSet
        <3> QED BY <2>3, <2>4, <3>1, <3>2
    <2>5. CASE Faulty /\ Exists(s) /\ Writes(s, q.active) /\ Return(c, FALSE)
        <3>1. PICK n \in CallState :
                   /\ call' = [call EXCEPT ![c] = n]
                   /\ n.pc = "idle" /\ n.ids = {} /\ n.todo = {} /\ n.rest = {} /\ n.stale = {}
                   /\ n.active = 0
            BY <2>5, ReturnIs
        <3>2. CallOK(n) /\ n.pc \notin LoginPC
            BY <2>1, <3>1, Types, IdleOK DEF LoginPC
        <3> QED BY <2>3, <2>5, <3>1, <3>2, NotReliable
    <2>6. CASE (Reliable => ~Exists(s)) /\ UNCHANGED sess /\ Return(c, FALSE)
        <3>1. "refreshSet" \notin BeforePC \cup TodoPC
            BY DEF BeforePC, TodoPC
        <3>2. q.todo = {}
            BY <1>1, <2>1, <3>1 DEF CallOK, WorkOK
        <3>3. Reliable => ~Exists(s)
            BY <2>6 DEF Reliable
        <3> QED BY <1>1, <1>2, <1>3, <2>1, <2>6, <3>1, <3>2, <3>3, IdsGone, Types, CacheSame, IdxSame,
                   ReturnStep
    <2> QED BY <2>1, <2>4, <2>5, <2>6
<1>4. CASE /\ ExpireIndex(c, "refreshExpire") /\ cache' = [cache EXCEPT ![s] = NotCached]
           /\ UNCHANGED <<cacheSize, sweep>>
    <2>1. NotCached \in CachedSession /\ ~NotCached.on
        BY DEF NotCached, CachedSession
    <2>2. CacheStep /\ ~cache'[s].on
        BY <1>4, <2>1, Types DEF CacheStep, TypeOK
    <2> QED BY <1>1, <1>2, <1>4, <2>2, ExpireStep
<1> QED BY <1>1, <1>2, <1>3, <1>4 DEF RefreshWrite

\* UpdateSession.
LEMMA UpdateSessionInv ==
    ASSUME Inv, NEW c \in Call, UpdateSession(c)
    PROVE  Inv'
<1>1. PICK q \in CallState : q = call[c] /\ CallOK(q) /\ q.pc \in {"update", "updateExpire"}
    BY Types DEF UpdateSession, SetIfExists, ExpireIndex, At
<1>2. PICK s \in Session : s = q.sid
    BY <1>1 DEF CallOK, SidOK, SidPC
<1>3. CASE /\ SetIfExists(c, s, "update", "updateExpire", now)
           /\ cache' = [cache EXCEPT ![s].active = IF cache[s].on THEN now ELSE @]
           /\ UNCHANGED <<cacheSize, sweep>>
    <2>1. /\ q.pc = "update" /\ UNCHANGED <<now, idx, tokens, fate, unlisted>> /\ late' \subseteq Session
          /\ \/ Exists(s) /\ Writes(s, now) /\ Goto(c, "updateExpire")
             \/ Faulty /\ Exists(s) /\ Writes(s, now) /\ Return(c, FALSE)
             \/ (Reliable => ~Exists(s)) /\ UNCHANGED sess /\ Return(c, FALSE)
        BY <1>1, <1>3, SetIs, Types DEF At
    <2>2. now \in Nat
        BY Types
    <2>3. /\ cache' \in [Session -> CachedSession] /\ cacheSize' \in Int /\ sweep' \subseteq Session
          /\ \A x \in Session : x # s => cache'[x] = cache[x]
          /\ cache'[s].on => cache'[s].json <= cache'[s].active /\ cache'[s].active <= now
        <3>1. PICK k \in CachedSession : k = cache[s]
            BY Types DEF TypeOK
        <3>2. PICK t \in Nat : t = IF k.on THEN now ELSE k.active
            BY <2>2 DEF CachedSession
        <3>3. PICK j : j = [k EXCEPT !.active = t]
            OBVIOUS
        <3>4. j \in CachedSession /\ j.on = k.on /\ j.active = t /\ j.json = k.json
            BY <3>3 DEF CachedSession
        <3>5. cache' = [cache EXCEPT ![s] = j]
            BY <1>3, <3>1, <3>2, <3>3, Types DEF TypeOK
        <3>6. /\ cache' \in [Session -> CachedSession] /\ cache'[s] = j
              /\ \A x \in Session : x # s => cache'[x] = cache[x]
            BY <3>4, <3>5, Types DEF TypeOK
        <3>7. k.on => k.json <= now
            <4>1. k.on => k.json <= k.active /\ k.active <= now
                BY <3>1, Types DEF CacheInv
            <4>2. k.json \in Nat /\ k.active \in Nat
                BY DEF CachedSession
            <4> QED BY <2>2, <4>1, <4>2
        <3>8. j.on => j.json <= j.active /\ j.active <= now
            BY <2>2, <3>2, <3>4, <3>7
        <3> QED BY <1>3, <3>6, <3>8, Types DEF TypeOK
    <2>4. ASSUME Exists(s), Writes(s, now), NEW n \in CallState, CallOK(n), n.pc \notin LoginPC,
                 call' = [call EXCEPT ![c] = n],
                 Reliable => n.pc \in {"refreshExpire", "updateExpire"} /\ n.sid = s
          PROVE  Inv'
        <3>1. \A x \in Session : x # s => sess'[x] = sess[x]
            BY <2>2, <2>4, WriteIs
        <3>2. call'[c] = n /\ (Reliable => n.pc \in WritePC)
            BY <2>4, Types DEF WritePC
        <3>3. \A d \in Call : call[d].pc \in WritePC /\ call[d].sid # s => call'[d] = call[d]
            BY <1>1, <1>2, <2>4, Types
        <3>4. CacheInv'
            BY <2>1, <2>3, <2>4, <3>1, <3>2, <3>3, CacheWritten
        <3>6. PICK t \in Nat : t = now /\ Writes(s, t)
            BY <2>2, <2>4 DEF Writes
        <3>7. t <= now /\ call[c].sid = s /\ call[c].pc = "update"
            BY <1>1, <1>2, <2>1, <2>2, <3>6
        <3> QED BY <2>1, <2>3, <2>4, <3>4, <3>6, <3>7, WriteStep
    <2>5. CASE Exists(s) /\ Writes(s, now) /\ Goto(c, "updateExpire")
        <3>1. PICK n \in CallState : call' = [call EXCEPT ![c] = n] /\ n.pc = "updateExpire" /\ Same(n, q)
            BY <1>1, <2>5, GotoIs DEF PC
        <3>2. CallOK(n) /\ n.sid = s /\ n.pc \notin LoginPC
            BY <1>1, <1>2, <2>1, <3>1, AfterSet
        <3> QED BY <2>4, <2>5, <3>1, <3>2
    <2>6. ASSUME Return(c, FALSE)
          PROVE  \E n \in CallState : /\ call' = [call EXCEPT ![c] = n] /\ CallOK(n) /\ CallOK(n)'
                                      /\ n.pc \notin LoginPC \cup UsePC
        <3>1. PICK n \in CallState :
                   /\ call' = [call EXCEPT ![c] = n]
                   /\ n.pc = "idle" /\ n.ids = {} /\ n.todo = {} /\ n.rest = {} /\ n.stale = {}
                   /\ n.active = 0
            BY <2>6, ReturnIs
        <3> QED BY <2>1, <2>2, <3>1, IdleOK DEF LoginPC, UsePC
    <2>7. CASE Faulty /\ Exists(s) /\ Writes(s, now) /\ Return(c, FALSE)
        BY <2>4, <2>6, <2>7, NotReliable
    <2>8. CASE (Reliable => ~Exists(s)) /\ UNCHANGED sess /\ Return(c, FALSE)
        <3>1. "update" \notin BeforePC \cup TodoPC
            BY DEF BeforePC, TodoPC
        <3>2. q.todo = {}
            BY <1>1, <2>1, <3>1 DEF CallOK, WorkOK
        <3>3. Reliable => ~Exists(s) /\ ~Exists(s)'
            BY <2>1, <2>8 DEF Reliable, Exists
        <3>4. PICK n \in CallState : /\ call' = [call EXCEPT ![c] = n] /\ CallOK(n)'
                                     /\ n.pc \notin LoginPC \cup UsePC
            BY <2>6, <2>8
        <3>5. \A d \in Call : call[d].pc \in WritePC => call'[d] = call[d]
            BY <1>1, <2>1, <3>4, Types DEF WritePC
        <3>6. CacheInv'
            BY <2>1, <2>3, <2>8, <3>3, <3>5, CacheWritten
        <3> QED BY <1>1, <2>1, <2>3, <2>8, <3>1, <3>2, <3>4, <3>6, IdsGone, IdxSame, LocalStep
    <2> QED BY <2>1, <2>5, <2>7, <2>8
<1>4. CASE ExpireIndex(c, "updateExpire") /\ CacheDrop({s})
    <2>1. ~cache'[s].on
        BY <1>4 DEF CacheDrop, NotCached
    <2> QED BY <1>1, <1>2, <1>4, <2>1, Types, CacheDropped, ExpireStep
<1> QED BY <1>1, <1>2, <1>3, <1>4 DEF UpdateSession

\* A request that finds a session too old or idle expires it.
LEMMA ExpiryOK ==
    ASSUME Inv, NEW s \in Session, sess[s].created # 0, NEW m \in CallState, NEW n,
           n = [m EXCEPT !.pc = "forceDel", !.acct = sess[s].acct, !.ids = {s}, !.todo = {s}],
           m.active <= now,
           \A x \in m.rest \cup m.stale : sess[x].created # 0,
           Reliable => \A x \in m.stale : Gone(x)
    PROVE  /\ n \in CallState /\ CallOK(n) /\ n.pc = "forceDel" /\ n.todo = {s} /\ n.ids = {s}
           /\ n.pc \notin LoginPC \cup UsePC
<1>1. PICK a \in Account : a = sess[s].acct
    BY ThereCreated
<1>2. /\ n \in CallState /\ n.pc = "forceDel" /\ n.ids = {s} /\ n.todo = {s}
      /\ n.rest = m.rest /\ n.stale = m.stale /\ n.active = m.active /\ n.since = m.since
    BY <1>1 DEF CallState, PC
<1>3. /\ "forceDel" \notin SidPC \cup LoginPC \cup RevokePC \cup UsePC
      /\ "forceDel" \in BeforePC /\ "forceDel" \in TodoPC
    BY DEF SidPC, LoginPC, RevokePC, BeforePC, TodoPC, UsePC
<1>4. SidOK(n) /\ WorkOK(n) /\ TokensOK(n)
    BY <1>2, <1>3 DEF SidOK, WorkOK, TokensOK
<1>5. GoneOK(n) /\ BeforeOK(n)
    BY <1>2, <1>3 DEF GoneOK, BeforeOK
<1> QED BY <1>2, <1>3, <1>4, <1>5 DEF CallOK

\* RefreshSession reads.
LEMMA RefreshGetInv ==
    ASSUME Inv, NEW c \in Call, RefreshGet(c)
    PROVE  Inv'
<1>1. PICK q \in CallState : q = call[c] /\ CallOK(q) /\ q.pc = "refreshGet"
    BY Types DEF RefreshGet, At
<1>2. PICK s \in Session : s = q.sid /\ sess[s].created # 0
    BY <1>1 DEF CallOK, SidOK, SidPC
<1>3. UNCHANGED <<now, sess, idx, tokens, fate, unlisted>> /\ late' \subseteq Session /\ IdxStep /\ now \in Nat
    BY Types, IdxSame DEF RefreshGet
<1>4. "refreshGet" \notin BeforePC \cup TodoPC \cup LoginPC /\ "refreshGet" \in UsePC
    BY DEF BeforePC, TodoPC, LoginPC, UsePC
<1>5. q.todo = {} /\ (Reliable => \A x \in q.ids : ~Exists(x))
    BY <1>1, <1>4, IdsGone DEF CallOK, WorkOK
<1>6. CASE CacheStore(s, sess[s].active) /\ Expire(c, s, q)
    <2>1. PICK n : n = [q EXCEPT !.pc = "forceDel", !.acct = sess[s].acct, !.ids = {s}, !.todo = {s}]
        OBVIOUS
    <2>2. call' = [call EXCEPT ![c] = n]
        BY <1>6, <2>1 DEF Expire
    <2>3. /\ q.active <= now
          /\ (\A x \in q.rest \cup q.stale : sess[x].created # 0)
          /\ Reliable => \A x \in q.stale : Gone(x)
        BY <1>1 DEF CallOK, SidOK, GoneOK, BeforeOK
    <2>4. n \in CallState /\ CallOK(n) /\ n.pc \notin LoginPC \cup UsePC
        BY <1>2, <2>1, <2>3, ExpiryOK
    <2>5. CallOK(n)'
        BY <1>3, <2>4, StaysLocal
    <2>6. CacheStep
        BY <1>6, ThereCreated, Types, CacheStored
    <2> QED BY <1>1, <1>3, <1>5, <2>2, <2>4, <2>5, <2>6, PlainStep
<1>7. CASE Return(c, FALSE) /\ UNCHANGED cacheVars
    BY <1>1, <1>3, <1>5, <1>7, Types, CacheSame, ReturnStep
<1>8. ASSUME NEW shared \in BOOLEAN,
             cache' = IF shared
                      THEN [cache EXCEPT ![s] = [on |-> TRUE, json |-> sess[s].active, active |-> now,
                                  cachedAt |-> IF cache[s].on THEN @.cachedAt ELSE now]]
                      ELSE cache,
             cacheSize' = IF shared /\ ~cache[s].on THEN cacheSize + 1 ELSE cacheSize, UNCHANGED sweep,
             call' = [call EXCEPT ![c].pc = "refreshSet", ![c].active = now]
      PROVE  Inv'
    <2>1. PICK n : n = [q EXCEPT !.pc = "refreshSet", !.active = now]
        OBVIOUS
    <2>2. /\ n \in CallState /\ n.pc = "refreshSet" /\ n.active = now /\ n.sid = s /\ n.ids = q.ids
          /\ n.todo = q.todo /\ n.rest = q.rest /\ n.stale = q.stale /\ n.since = q.since
        BY <1>2, <1>3, <2>1 DEF CallState, PC
    <2>3. call' = [call EXCEPT ![c] = n]
        BY <1>1, <1>8, <2>1, Types
    <2>4. "refreshSet" \notin LoginPC \cup RevokePC \cup TodoPC
        BY DEF LoginPC, RevokePC, TodoPC
    <2>5. SidOK(n) /\ WorkOK(n) /\ TokensOK(n)
        BY <1>1, <1>2, <1>3, <1>5, <2>2, <2>4 DEF CallOK, SidOK, WorkOK, TokensOK
    <2>6. GoneOK(n) /\ BeforeOK(n)
        BY <1>1, <1>2, <1>4, <2>2 DEF CallOK, GoneOK, BeforeOK
    <2>7. CallOK(n)'
        BY <1>3, <2>2, <2>5, <2>6, StaysLocal DEF CallOK
    <2>8. /\ cache' \in [Session -> CachedSession] /\ cacheSize' \in Int /\ sweep' \subseteq Session
          /\ \A x \in Session : x # s => cache'[x] = cache[x]
          /\ cache'[s].on => cache'[s].json <= cache'[s].active /\ cache'[s].active <= now
        <3>1. CASE ~shared
            BY <1>8, <3>1, Types DEF TypeOK, CacheInv
        <3>2. CASE shared
            <4>1. PICK t \in Nat : t = IF cache[s].on THEN cache[s].cachedAt ELSE now
                BY <1>3, Types DEF TypeOK, CachedSession
            <4>2. sess[s].active \in Nat /\ sess[s].active <= now
                BY ThereCreated
            <4>3. PICK j : j = [on |-> TRUE, json |-> sess[s].active, active |-> now, cachedAt |-> t]
                OBVIOUS
            <4>4. j \in CachedSession /\ j.json = sess[s].active /\ j.active = now
                BY <1>3, <4>2, <4>3 DEF CachedSession
            <4>5. cache' = [cache EXCEPT ![s] = j]
                BY <1>8, <3>2, <4>1, <4>3
            <4>6. /\ cache' \in [Session -> CachedSession] /\ cache'[s] = j
                  /\ \A x \in Session : x # s => cache'[x] = cache[x]
                BY <4>4, <4>5, Types DEF TypeOK
            <4>7. cacheSize' \in Int /\ sweep' \subseteq Session
                BY <1>8, Types DEF TypeOK
            <4> QED BY <1>3, <4>2, <4>4, <4>6, <4>7
        <3> QED BY <3>1, <3>2
    <2>9. CacheInv'
        <3>1. call'[c] = n /\ \A d \in Call : d # c => call'[d] = call[d]
            BY <2>3, Types
        <3>2. ASSUME Reliable, NEW x \in Session, Exists(x)', Hit(x)', cache'[x].active # sess'[x].active
              PROVE  \E d \in Call : call'[d].pc \in WritePC /\ call'[d].sid = x
            <4>1. CASE x = s
                BY <2>2, <3>1, <4>1 DEF WritePC
            <4>2. CASE x # s
                <5>1. Exists(x) /\ Hit(x) /\ cache[x].active # sess[x].active
                    BY <1>3, <2>8, <3>2, <4>2 DEF Exists, Hit
                <5>2. PICK d \in Call : call[d].pc \in WritePC /\ call[d].sid = x
                    BY <3>2, <5>1, Types DEF CacheInv
                <5> QED BY <1>1, <3>1, <5>2 DEF WritePC
            <4> QED BY <4>1, <4>2
        <3>3. \A x \in Session : cache'[x].on =>
                  cache'[x].json <= cache'[x].active /\ cache'[x].active <= now'
            BY <1>3, <2>8, Types DEF CacheInv
        <3> QED BY <3>2, <3>3 DEF CacheInv, Reliable
    <2> QED BY <1>1, <1>2, <1>3, <1>4, <1>5, <2>2, <2>3, <2>4, <2>7, <2>8, <2>9, LocalStep
<1>9. PICK shared \in BOOLEAN : shared = (Hit(s) \/ (~cache[s].on /\ cacheSize < CacheMax))
    OBVIOUS
<1> QED BY <1>1, <1>2, <1>6, <1>7, <1>8, <1>9 DEF RefreshGet

-----------------------------------------------------------------------------
(* Creating sessions and keeping to the limit.                             *)

\* enforceSessionLimit.
LEMMA EnforceSessionLimitInv ==
    ASSUME Inv, NEW c \in Call, EnforceSessionLimit(c)
    PROVE  Inv'
<1>1. PICK q \in CallState : q = call[c] /\ CallOK(q) /\ q.pc = "evict"
    BY Types DEF EnforceSessionLimit, At
<1>2. PICK a \in Account : a = q.acct
    BY DEF CallState
<1>3. /\ {"evict", "evictTokens", "issue"} \subseteq LoginPC \cap SidPC \cap PC \cap UsePC
      /\ "evict" \notin TodoPC /\ "issue" \notin TodoPC \cup RevokePC
      /\ "evictTokens" \in TodoPC /\ "evictTokens" \notin RevokePC \cup BeforePC
    BY DEF LoginPC, SidPC, PC, TodoPC, RevokePC, BeforePC, UsePC
<1>4. PICK s \in Session : s = q.sid /\ sess[s].created # 0
    BY <1>1, <1>3 DEF CallOK, SidOK
<1>5. q.ids = {} /\ q.todo = {} /\ q.active \in Nat /\ q.active <= now
    BY <1>1, <1>3 DEF CallOK, WorkOK, SidOK, CallState
<1>6. UNCHANGED <<now, tokens, unlisted>> /\ late' \subseteq Session /\ now \in Nat /\ now >= 1
    BY Types DEF EnforceSessionLimit, KeysInv
<1>7. CASE /\ Faulty /\ Goto(c, "issue") /\ CacheStore(s, q.active) /\ UNCHANGED <<sess, idx, fate>>
    <2>1. ASSUME NEW n \in CallState, n.pc = "issue", Same(n, q)
          PROVE  CallOK(n)
        <3>1. SidOK(n) /\ WorkOK(n)
            BY <1>1, <1>3, <1>5, <2>1 DEF Same, CallOK, SidOK, WorkOK
        <3> QED BY <1>3, <1>7, <2>1, <3>1, NotReliable DEF CallOK, TokensOK, GoneOK, BeforeOK
    <2> QED BY <1>1, <1>3, <1>4, <1>5, <1>6, <1>7, <2>1, NotReliable, Types, CacheStored, IdxSame,
               GotoStep
<1>8. CASE Faulty /\ Return(c, FALSE) /\ UNCHANGED cacheVars /\ UNCHANGED <<sess, idx, fate>>
    BY <1>6, <1>8, NotReliable, Types, CacheSame, IdxSame, ReturnStep
<1>9. ASSUME NEW E \in EvictedSets(a, s), UNCHANGED cacheVars,
             sess' = [x \in Session |-> IF x \in E THEN [sess[x] EXCEPT !.keyExp = 0] ELSE sess[x]],
             idx' = [idx EXCEPT ![a].members = @ \ (E \cup StaleMembers(a))],
             fate' = [x \in Session |-> IF x \in E THEN "deleted" ELSE fate[x]],
             call' = [call EXCEPT ![c] = [q EXCEPT !.pc = "evictTokens", !.ids = E, !.todo = E]]
      PROVE  Inv'
    <2>1. /\ E \subseteq Members(a) /\ Cardinality(Members(a) \ (E \cup StaleMembers(a))) <= MaxSessions
        BY Types, EvictedEnough
    <2>2. E \in SUBSET Session /\ (\A x \in E : sess[x].created # 0) /\ Members(a) \subseteq Session
        BY <2>1, MembersCreated
    <2>3. PICK n : n = [q EXCEPT !.pc = "evictTokens", !.ids = E, !.todo = E]
        OBVIOUS
    <2>4. /\ n \in CallState /\ n.pc = "evictTokens" /\ n.ids = E /\ n.todo = E /\ n.sid = s
          /\ n.rest = q.rest /\ n.stale = q.stale /\ n.active = q.active /\ n.since = q.since
        BY <1>3, <1>4, <2>2, <2>3 DEF CallState
    <2>5. call' = [call EXCEPT ![c] = n] /\ call'[c] = n /\ \A d \in Call : d # c => call'[d] = call[d]
        BY <1>9, <2>3, Types
    <2>6. ASSUME NEW x \in E
          PROVE  /\ sess'[x] \in StoredSession /\ sess'[x].created = sess[x].created
                 /\ sess'[x].acct = sess[x].acct /\ sess'[x].active = sess[x].active
                 /\ sess'[x].keyExp = 0
        <3>1. PICK k \in StoredSession : k = sess[x]
            BY <2>2, Types
        <3>2. sess'[x] = [k EXCEPT !.keyExp = 0]
            BY <1>9, <2>2, <3>1
        <3> QED BY <3>1, <3>2 DEF StoredSession
    <2>7. ASSUME NEW x \in Session, x \notin E
          PROVE  sess'[x] = sess[x] /\ fate'[x] = fate[x] /\ sess'[x] \in StoredSession
        BY <1>9, <2>7, Types
    <2>8. SessStep
        <3>1. sess' \in [Session -> StoredSession]
            <4>1. PICK f : f = sess'
                OBVIOUS
            <4>2. f = [x \in Session |-> f[x]] /\ \A x \in Session : f[x] \in StoredSession
                BY <1>9, <2>6, <2>7, <4>1
            <4> QED BY <4>1, <4>2
        <3>2. fate' \in [Session -> Fate]
            BY <1>9, Types DEF Fate
        <3> QED BY <2>2, <2>6, <2>7, <3>1, <3>2 DEF SessStep
    <2>9. \A x \in E : Gone(x)'
        BY <1>6, <2>2, <2>6 DEF Gone, Exists
    <2>10. \A x \in Session : /\ sess'[x].created = sess[x].created /\ sess'[x].active = sess[x].active
                              /\ Exists(x)' => Exists(x)
        BY <1>6, <2>6, <2>7 DEF Exists
    <2>11. IdxStep
        <3>1. PICK i \in AccountIndex : i = idx[a]
            BY Types
        <3>2. PICK j : j = [i EXCEPT !.members = @ \ (E \cup StaleMembers(a))]
            OBVIOUS
        <3>3. j \in AccountIndex /\ j.members = i.members \ (E \cup StaleMembers(a)) /\ j.keyExp = i.keyExp
            BY <3>2 DEF AccountIndex
        <3>4. idx' = [idx EXCEPT ![a] = j]
            BY <1>9, <3>1, <3>2, Types
        <3>5. \A x \in StaleMembers(a) : x \in Session /\ ~Exists(x)
            BY <2>2 DEF StaleMembers
        <3>6. \A x \in E \cup StaleMembers(a) : ~Exists(x)'
            BY <2>9, <2>10, <3>5 DEF Gone
        <3> QED BY <3>1, <3>3, <3>4, <3>6, Types DEF IdxStep
    <2>12. SidOK(n)'
        <3>1. q.rest \subseteq Session /\ q.stale \subseteq Session
            BY DEF CallState
        <3> QED BY <1>1, <1>4, <1>6, <2>2, <2>4, <2>10, <3>1 DEF CallOK, SidOK
    <2>13. WorkOK(n)'
        BY <1>1, <1>3, <2>4 DEF CallOK, WorkOK
    <2>14. TokensOK(n)'
        BY <1>1, <1>3, <1>4, <1>6, <2>4 DEF CallOK, TokensOK, RevokePC, Reliable
    <2>15. GoneOK(n)'
        <3>1. q.stale = {}
            BY <1>1 DEF CallOK, WorkOK
        <3> QED BY <2>4, <2>9, <3>1 DEF GoneOK
    <2>16. BeforeOK(n)'
        BY <1>1, <1>4, <1>6, <2>4, <2>10 DEF CallOK, BeforeOK, Reliable
    <2>17. CallOK(n)'
        BY <2>12, <2>13, <2>14, <2>15, <2>16 DEF CallOK
    <2>18. CacheStep
        BY <1>9, Types, CacheSame
    <2>19. CacheInv'
        <3>1. \A d \in Call : call[d].pc \in WritePC => call'[d] = call[d]
            BY <1>1, <2>5 DEF WritePC
        <3> QED BY <1>6, <2>10, <2>18, <3>1, Types, CacheKept
    <2>20. OrphanInv'
        <3>1. \A d \in Call : call[d].todo \subseteq call'[d].todo
            BY <1>1, <1>5, <2>5
        <3>2. ASSUME NEW x \in Session, x \in E
              PROVE  fate'[x] = "deleted" /\ x \in call'[c].todo
            BY <1>9, <2>4, <2>5, <3>2
        <3> QED BY <1>6, <2>7, <3>1, <3>2, Types, OrphanKept
    <2>21. LimitInv'
        <3>1. Members(a)' = Members(a) \ (E \cup StaleMembers(a))
            <4>1. idx'[a].members = idx[a].members \ (E \cup StaleMembers(a)) /\ idx'[a].keyExp = idx[a].keyExp
                BY <1>9, <2>11, Types DEF IdxStep, AccountIndex
            <4> QED BY <1>6, <4>1 DEF Members
        <3>2. ASSUME NEW b \in Account, b # a
              PROVE  Members(b)' = Members(b) /\ Evicting(b)' = Evicting(b)
            <4>1. idx'[b] = idx[b]
                BY <1>9, <3>2, Types
            <4>2. Evicting(b)' = Evicting(b)
                BY <1>1, <1>2, <2>4, <2>5, <3>2 DEF Evicting, At
            <4> QED BY <1>6, <4>1, <4>2 DEF Members
        <3>3. Evicting(a)' \subseteq Call
            BY DEF Evicting
        <3>4. Members(a)' \subseteq Session /\ Cardinality(Members(a)') <= MaxSessions
            BY <2>1, <2>2, <3>1
        <3> QED BY <3>2, <3>3, <3>4, Types, LimitEvicted
    <2> QED BY <1>1, <1>3, <1>4, <1>5, <1>6, <2>4, <2>5, <2>8, <2>11, <2>17, <2>18, <2>19, <2>20, <2>21,
               ShrinkStep DEF CacheStep
<1> QED BY <1>1, <1>2, <1>4, <1>7, <1>8, <1>9 DEF EnforceSessionLimit

\* CreateSession.
LEMMA CreateSessionInv ==
    ASSUME Inv, NEW c \in Call, NEW s \in Session, NEW a \in Account, CreateSession(c, s, a)
    PROVE  Inv'
<1>1. /\ At(c, "idle") /\ sess[s].created = 0 /\ UNCHANGED <<now, cacheVars, tokens, fate, unlisted>> /\ late' \subseteq Session
      /\ now \in Nat /\ now >= 1
    BY Types DEF CreateSession, KeysInv
<1>2. /\ call[c].pc = "idle" /\ call[c].ids = {} /\ call[c].todo = {}
    BY <1>1, IdleIs
<1>3. s \notin tokens /\ fate[s] = "none"
    BY <1>1, Types DEF KeysInv
<1>4. PICK e \in Nat : e = now + SessionTTL
    BY <1>1
<1>5. /\ sess' \in [Session -> StoredSession] /\ (\A x \in Session : x # s => sess'[x] = sess[x])
      /\ sess'[s].created = now /\ sess'[s].acct = a /\ sess'[s].active = now /\ sess'[s].keyExp = e
    <2>1. PICK j : j = [acct |-> a, created |-> now, active |-> now, keyExp |-> e]
        OBVIOUS
    <2>2. j \in StoredSession /\ j.created = now /\ j.acct = a /\ j.active = now /\ j.keyExp = e
        BY <1>1, <2>1 DEF StoredSession
    <2>3. sess' = [sess EXCEPT ![s] = j]
        BY <1>4, <2>1 DEF CreateSession
    <2> QED BY <2>2, <2>3, Types
<1>6. /\ idx' \in [Account -> AccountIndex] /\ (\A b \in Account : b # a => idx'[b] = idx[b])
      /\ idx'[a].members = Members(a) \cup {s} /\ idx'[a].keyExp = e
    <2>1. PICK j : j = [members |-> Members(a) \cup {s}, keyExp |-> e]
        OBVIOUS
    <2>2. j \in AccountIndex /\ j.members = Members(a) \cup {s} /\ j.keyExp = e
        BY <2>1, MembersCreated DEF AccountIndex
    <2>3. idx' = [idx EXCEPT ![a] = j]
        BY <1>4, <2>1 DEF CreateSession
    <2> QED BY <2>2, <2>3, Types
<1>7. PICK n \in CallState :
         /\ call' = [call EXCEPT ![c] = n] /\ n.ids = {} /\ n.todo = {} /\ CallOK(n)'
         /\ n.pc \in {"evict", "idle"} /\ (n.pc = "evict" => n.sid = s /\ n.acct = a)
         /\ Reliable => n.pc = "evict"
    <2>1. CASE Faulty /\ Return(c, FALSE)
        <3>1. PICK n \in CallState :
                   /\ call' = [call EXCEPT ![c] = n]
                   /\ n.pc = "idle" /\ n.ids = {} /\ n.todo = {} /\ n.rest = {} /\ n.stale = {}
                   /\ n.active = 0
            BY <2>1, ReturnIs
        <3> QED BY <1>1, <2>1, <3>1, NotReliable, IdleOK
    <2>2. CASE call' = [call EXCEPT ![c] = [NewCall EXCEPT !.pc = "evict", !.acct = a, !.sid = s,
                                                           !.active = now]]
        <3>1. PICK m \in CallState : /\ m = NewCall /\ m.since = now /\ m.ids = {} /\ m.todo = {}
                                     /\ m.rest = {} /\ m.stale = {} /\ m.active = 0 /\ m.before = {}
            BY NewCallIs
        <3>2. PICK n : n = [m EXCEPT !.pc = "evict", !.acct = a, !.sid = s, !.active = now]
            OBVIOUS
        <3>3. /\ n \in CallState /\ n.pc = "evict" /\ n.acct = a /\ n.sid = s /\ n.active = now
              /\ n.since = now /\ n.ids = {} /\ n.todo = {} /\ n.rest = {} /\ n.stale = {}
            BY <1>1, <3>1, <3>2 DEF CallState, PC
        <3>4. "evict" \notin RevokePC /\ "evict" \notin TodoPC
            BY DEF RevokePC, TodoPC
        <3>5. SidOK(n)' /\ WorkOK(n)'
            BY <1>1, <1>5, <3>3 DEF SidOK, WorkOK
        <3>6. TokensOK(n)'
            BY <1>1, <1>3, <3>3 DEF TokensOK, RevokePC
        <3>7. GoneOK(n)' /\ BeforeOK(n)'
            BY <1>1, <1>5, <3>3 DEF GoneOK, BeforeOK
        <3> QED BY <2>2, <3>1, <3>2, <3>3, <3>5, <3>6, <3>7 DEF CallOK
    <2> QED BY <2>1, <2>2 DEF CreateSession
<1>8. Evolves /\ \A d \in Call : Issues(call[d])
    BY <1>1, <1>5 DEF Evolves, Exists, Issues
<1>9. /\ call' \in [Call -> CallState] /\ CallsInv'
      /\ call'[c] = n /\ \A d \in Call : d # c => call'[d] = call[d]
    BY <1>7, <1>8, Types, OneCallMoves
<1>10. TypeOK'
    BY <1>1, <1>5, <1>6, <1>9, Types DEF TypeOK, cacheVars
<1>11. KeysInv'
    <2>1. ASSUME NEW x \in Session
          PROVE  /\ sess'[x].created = 0 => sess'[x].keyExp = 0 /\ fate'[x] = "none" /\ x \notin tokens'
                 /\ fate'[x] # "none" => ~Exists(x)'
                 /\ sess'[x].active <= now'
        <3>1. CASE x = s
            BY <1>1, <1>3, <1>5, <3>1
        <3>2. CASE x # s
            BY <1>1, <1>5, <3>2, Types DEF KeysInv, Exists
        <3> QED BY <3>1, <3>2
    <2>2. \A b \in Account : \A x \in idx'[b].members : x \in Session /\ (x = s \/ sess[x].created # 0)
        BY <1>6, MembersCreated, Types DEF KeysInv, AccountIndex
    <2>3. \A b \in Account : \A x \in idx'[b].members : sess'[x].created # 0
        BY <1>1, <1>5, <2>2
    <2> QED BY <1>1, <2>1, <2>3 DEF KeysInv
<1>12. LoginInv'
    BY <1>1, <1>7, <1>9, Types, LoginKept DEF LoginPC
<1>13. OrphanInv'
    <2>1. \A d \in Call : call[d].todo \subseteq call'[d].todo
        BY <1>2, <1>9
    <2> QED BY <1>1, <2>1, Types, OrphanKept
<1>14. LimitInv'
    <2>1. CASE ~Reliable
        BY <2>1 DEF LimitInv, Reliable
    <2>2. CASE n.pc = "evict"
        <3>1. Members(a)' = Members(a) \cup {s}
            BY <1>1, <1>4, <1>6 DEF Members
        <3>2. Evicting(a)' = Evicting(a) \cup {c} /\ c \notin Evicting(a)
            BY <1>2, <1>7, <1>9, <2>2 DEF Evicting, At
        <3>3. ASSUME NEW b \in Account, b # a
              PROVE  Members(b)' = Members(b) /\ Evicting(b)' = Evicting(b)
            <4>1. Members(b)' = Members(b)
                BY <1>1, <1>6, <3>3 DEF Members
            <4>2. Evicting(b)' = Evicting(b)
                BY <1>2, <1>7, <1>9, <2>2, <3>3 DEF Evicting, At
            <4> QED BY <4>1, <4>2
        <3> QED BY <3>1, <3>2, <3>3, Types, LimitCreated
    <2> QED BY <1>7, <2>1, <2>2
<1>15. IndexInv'
    <2> SUFFICES ASSUME Reliable, NEW x \in Session, Exists(x)', x \notin unlisted,
                        \A d \in Call : x \notin call'[d].ids
                 PROVE  Covered(x)' \/ Idle(x)'
        BY <1>1 DEF IndexInv, Reliable
    <2>1. CASE x = s
        BY <1>1, <1>4, <1>5, <1>6, <2>1 DEF Covered
    <2>2. CASE x # s
        <3>1. sess'[x] = sess[x] /\ Exists(x)
            BY <1>1, <1>5, <2>2 DEF Exists
        <3>2. \A d \in Call : x \notin call[d].ids
            BY <1>2, <1>9
        <3>3. CASE Idle(x)
            BY <1>1, <1>7, <1>9, <2>2, <3>1, <3>3 DEF Idle, UsePC
        <3>4. PICK b \in Account : b = sess[x].acct
            BY ThereCreated
        <3>5. CASE Covered(x) /\ b = a
            <4>1. x \in Members(a)
                BY <3>4, <3>5 DEF Covered, Members
            <4>2. sess[x].active \in Nat /\ sess[x].active <= now
                BY ThereCreated
            <4>3. x \in idx'[a].members /\ now <= e /\ sess[x].active + SessionTTL <= e
                BY <1>1, <1>4, <1>6, <4>1, <4>2
            <4> QED BY <1>1, <1>6, <3>1, <3>4, <3>5, <4>3 DEF Covered
        <3>6. CASE Covered(x) /\ b # a
            <4>1. \A d \in Call : call[d].pc \in {"refreshExpire", "updateExpire"} => call'[d] = call[d]
                BY <1>2, <1>9
            <4>2. idx'[b] = idx[b]
                BY <1>6, <3>6
            <4> QED BY <1>1, <3>1, <3>4, <3>6, <4>1, <4>2 DEF Covered
        <3> QED BY <3>1, <3>2, <3>3, <3>5, <3>6, Types DEF IndexInv
    <2> QED BY <2>1, <2>2
<1>16. CacheInv'
    <2>1. \A d \in Call : call[d].pc \in WritePC => call'[d] = call[d]
        BY <1>2, <1>9 DEF WritePC
    <2>2. cache' = cache /\ cache \in [Session -> CachedSession]
        BY <1>1, Types DEF cacheVars, TypeOK
    <2>3. \A x \in Session : cache[x].on => cache[x].json <= cache[x].active /\ cache[x].active <= now
        BY Types DEF CacheInv
    <2>4. cache[s].json \in Nat /\ cache[s].active \in Nat
        BY <2>2 DEF CachedSession
    <2>5. ASSUME Reliable, NEW x \in Session, Exists(x)', Hit(x)', cache'[x].active # sess'[x].active
          PROVE  \E d \in Call : call'[d].pc \in WritePC /\ call'[d].sid = x
        <3>1. x # s
            BY <1>1, <1>5, <2>2, <2>3, <2>4, <2>5 DEF Hit
        <3>2. Exists(x) /\ Hit(x) /\ cache[x].active # sess[x].active
            BY <1>1, <1>5, <2>2, <2>5, <3>1 DEF Exists, Hit
        <3> QED BY <2>1, <2>5, <3>2, Types DEF CacheInv
    <2> QED BY <1>1, <2>2, <2>3, <2>5 DEF CacheInv, Reliable
<1> QED BY <1>9, <1>10, <1>11, <1>12, <1>13, <1>14, <1>15, <1>16 DEF Inv

-----------------------------------------------------------------------------
(* Validation, revoking an account, the clock and the sweep.               *)

\* ValidateSession.
LEMMA ValidateSessionInv ==
    ASSUME Inv, NEW c \in Call, NEW s \in Session, ValidateSession(c, s)
    PROVE  Inv'
<1>1. /\ At(c, "idle") /\ Exists(s) /\ UNCHANGED <<now, idx, tokens, fate, unlisted>> /\ late' \subseteq Session /\ now \in Nat
      /\ CacheStore(s, sess[s].active)
    BY Types DEF ValidateSession
<1>2. /\ call[c].pc = "idle" /\ call[c].ids = {} /\ call[c].todo = {}
    BY <1>1, IdleIs
<1>3. /\ sess' \in [Session -> StoredSession] /\ (\A x \in Session : x # s => sess'[x] = sess[x])
      /\ sess'[s].created = sess[s].created /\ sess'[s].acct = sess[s].acct
      /\ sess'[s].active = sess[s].active
    <2>1. PICK k \in StoredSession : k = sess[s]
        BY Types
    <2>2. PICK e \in Nat : e = now + SessionTTL
        BY <1>1
    <2>3. PICK j : j = [k EXCEPT !.keyExp = e]
        OBVIOUS
    <2>4. j \in StoredSession /\ j.created = k.created /\ j.acct = k.acct /\ j.active = k.active
        BY <2>3 DEF StoredSession
    <2>5. sess' = [sess EXCEPT ![s] = j]
        BY <2>1, <2>2, <2>3, Types DEF ValidateSession
    <2> QED BY <2>1, <2>4, <2>5, Types
<1>4. sess[s].created # 0 /\ fate[s] = "none"
    BY <1>1, ThereCreated, Types DEF KeysInv
<1>5. PICK m \in CallState : /\ m = NewCall /\ m.since = now /\ m.ids = {} /\ m.todo = {}
                             /\ m.rest = {} /\ m.stale = {} /\ m.active = 0 /\ m.before = {}
    BY NewCallIs
<1>6. PICK n \in CallState :
           /\ call' = [call EXCEPT ![c] = n] /\ CallOK(n) /\ n.pc \notin LoginPC
           /\ n.pc \in UsePC => n.sid = s /\ (Reliable => ~Idle(s))
    <2>1. ASSUME NEW success \in BOOLEAN, Return(c, success)
          PROVE  \E n \in CallState : /\ call' = [call EXCEPT ![c] = n] /\ CallOK(n)
                                      /\ n.pc \notin LoginPC \cup UsePC
        <3>1. PICK n \in CallState :
                   /\ call' = [call EXCEPT ![c] = n]
                   /\ n.pc = "idle" /\ n.ids = {} /\ n.todo = {} /\ n.rest = {} /\ n.stale = {}
                   /\ n.active = 0
            BY <2>1, ReturnIs
        <3> QED BY <1>1, <3>1, IdleOK DEF LoginPC, UsePC
    <2>2. CASE Expire(c, s, NewCall)
        <3>1. PICK n : n = [m EXCEPT !.pc = "forceDel", !.acct = sess[s].acct, !.ids = {s}, !.todo = {s}]
            OBVIOUS
        <3>2. call' = [call EXCEPT ![c] = n]
            BY <1>5, <2>2, <3>1 DEF Expire
        <3>3. n \in CallState /\ CallOK(n) /\ n.pc \notin LoginPC \cup UsePC
            <4>1. m.active <= now /\ m.rest \cup m.stale = {}
                BY <1>1, <1>5
            <4> QED BY <1>4, <1>5, <3>1, <4>1, ExpiryOK
        <3> QED BY <3>2, <3>3
    <2>3. CASE /\ ActiveAt(s, Seen(s))
               /\ call' = [call EXCEPT ![c] = [NewCall EXCEPT !.pc = "refreshGet", !.sid = s]]
        <3>1. PICK n : n = [m EXCEPT !.pc = "refreshGet", !.sid = s]
            OBVIOUS
        <3>2. /\ n \in CallState /\ n.pc = "refreshGet" /\ n.sid = s /\ n.since = now /\ n.active = 0
              /\ n.ids = {} /\ n.todo = {} /\ n.rest = {} /\ n.stale = {}
            BY <1>5, <3>1 DEF CallState, PC
        <3>3. Reliable => ~Idle(s)
            <4> SUFFICES ASSUME Reliable, Idle(s) PROVE FALSE
                OBVIOUS
            <4>1. CASE Hit(s) /\ cache[s].active # sess[s].active
                <5>1. PICK d \in Call : call[d].pc \in WritePC /\ call[d].sid = s
                    BY <1>1, <4>1, Types DEF CacheInv
                <5> QED BY <5>1 DEF Idle, WritePC, UsePC
            <4>2. CASE ~(Hit(s) /\ cache[s].active # sess[s].active)
                <5>1. now <= sess[s].active + SessionTTL
                    BY <2>3, <4>2 DEF Seen, ActiveAt
                <5> QED BY <1>1, <5>1, ThereCreated DEF Idle
            <4> QED BY <4>1, <4>2
        <3>4. "refreshGet" \notin LoginPC /\ "refreshGet" \notin RevokePC
            BY DEF LoginPC, RevokePC
        <3>5. SidOK(n) /\ WorkOK(n) /\ TokensOK(n)
            BY <1>1, <1>4, <3>2, <3>4 DEF SidOK, WorkOK, TokensOK
        <3>6. GoneOK(n) /\ BeforeOK(n)
            BY <3>2 DEF GoneOK, BeforeOK
        <3> QED BY <1>5, <2>3, <3>1, <3>2, <3>3, <3>4, <3>5, <3>6 DEF CallOK
    <2> QED BY <2>1, <2>2, <2>3 DEF ValidateSession
<1>7. Evolves /\ Issues(n) /\ \A d \in Call : Issues(call[d])
    BY <1>1, <1>3 DEF Evolves, Exists, Issues
<1>8. CallOK(n)'
    BY <1>6, <1>7, Types, CallStays
<1>9. /\ call' \in [Call -> CallState] /\ CallsInv'
      /\ call'[c] = n /\ \A d \in Call : d # c => call'[d] = call[d]
    BY <1>6, <1>7, <1>8, Types, OneCallMoves
<1>10. CacheStep
    BY <1>1, ThereCreated, Types, CacheStored
<1>11. TypeOK'
    BY <1>1, <1>3, <1>9, <1>10, Types DEF TypeOK, CacheStep
<1>12. \A x \in Session : /\ Exists(x)' => Exists(x)
                          /\ sess'[x].acct = sess[x].acct /\ sess'[x].active = sess[x].active
    BY <1>1, <1>3 DEF Exists
<1>13. KeysInv'
    <2>1. ASSUME NEW x \in Session
          PROVE  /\ sess'[x].created = 0 => sess'[x].keyExp = 0 /\ fate'[x] = "none" /\ x \notin tokens'
                 /\ fate'[x] # "none" => ~Exists(x)'
                 /\ sess'[x].active <= now'
        <3>1. CASE x = s
            BY <1>1, <1>3, <1>4, <3>1, ThereCreated
        <3>2. CASE x # s
            BY <1>1, <1>3, <3>2, Types DEF KeysInv, Exists
        <3> QED BY <3>1, <3>2
    <2>2. \A b \in Account : \A x \in idx'[b].members : x \in Session /\ sess[x].created # 0
        BY <1>1, Types DEF KeysInv, AccountIndex
    <2>3. \A b \in Account : \A x \in idx'[b].members : sess'[x].created # 0
        BY <1>3, <2>2
    <2>4. now' >= 1
        BY <1>1, Types DEF KeysInv
    <2> QED BY <2>1, <2>3, <2>4 DEF KeysInv
<1>14. LoginInv'
    BY <1>6, <1>9, Types, LoginKept
<1>15. OrphanInv'
    <2>1. \A d \in Call : call[d].todo \subseteq call'[d].todo
        BY <1>2, <1>9
    <2> QED BY <1>1, <2>1, Types, OrphanKept
<1>16. LimitInv'
    <2>1. \A a \in Account : Members(a)' = Members(a)
        BY <1>1 DEF Members
    <2>2. \A a \in Account : Evicting(a) \subseteq Evicting(a)'
        BY <1>2, <1>9 DEF Evicting, At
    <2>3. \A a \in Account : Evicting(a)' \subseteq Call
        BY DEF Evicting
    <2> QED BY <2>1, <2>2, <2>3, Types, LimitKept
<1>17. \A d \in Call : /\ call[d].pc \in {"refreshSet", "refreshExpire", "updateExpire"} => call'[d] = call[d]
                       /\ call[d].ids \subseteq call'[d].ids
    BY <1>2, <1>9
<1>18. IndexInv'
    <2> SUFFICES ASSUME Reliable, NEW x \in Session, Exists(x)', x \notin unlisted,
                        \A d \in Call : x \notin call'[d].ids
                 PROVE  Covered(x)' \/ Idle(x)'
        BY <1>1 DEF IndexInv, Reliable
    <2>1. Covered(x) \/ Idle(x)
        BY <1>12, <1>17, Types DEF IndexInv
    <2>2. CASE Covered(x)
        BY <1>1, <1>12, <1>17, <2>2 DEF Covered
    <2>3. CASE Idle(x)
        <3>1. \A d \in Call : call'[d].pc \in UsePC => call'[d].sid # x
            BY <1>6, <1>9, <2>3 DEF Idle
        <3> QED BY <1>1, <1>12, <2>3, <3>1 DEF Idle
    <2> QED BY <2>1, <2>2, <2>3
<1>19. CacheInv'
    BY <1>1, <1>10, <1>12, <1>17, Types, CacheKept DEF WritePC
<1> QED BY <1>9, <1>11, <1>13, <1>14, <1>15, <1>16, <1>18, <1>19 DEF Inv

\* RevokeAllForAccount takes the index.
LEMMA RevokeAllForAccountInv ==
    ASSUME Inv, NEW c \in Call, NEW a \in Account, RevokeAllForAccount(c, a)
    PROVE  Inv'
<1>1. /\ At(c, "idle") /\ UNCHANGED <<now, sess, cacheVars, tokens, fate, unlisted>> /\ late' \subseteq Session /\ now \in Nat /\ now >= 1
    BY Types DEF RevokeAllForAccount, KeysInv
<1>2. /\ call[c].pc = "idle" /\ call[c].ids = {} /\ call[c].todo = {}
    BY <1>1, IdleIs
<1>3. /\ idx' \in [Account -> AccountIndex] /\ (\A b \in Account : b # a => idx'[b] = idx[b])
      /\ idx'[a].members = {}
    <2>1. PICK j : j = [members |-> {}, keyExp |-> 0]
        OBVIOUS
    <2>2. j \in AccountIndex /\ j.members = {}
        BY <2>1 DEF AccountIndex
    <2>3. idx' = [idx EXCEPT ![a] = j]
        BY <2>1 DEF RevokeAllForAccount
    <2> QED BY <2>2, <2>3, Types
<1>4. PICK M \in SUBSET Session : M = Members(a) /\ \A s \in M : sess[s].created # 0
    BY MembersCreated
<1>5. PICK n \in CallState : /\ call' = [call EXCEPT ![c] = n] /\ CallOK(n)
                             /\ n.pc \notin LoginPC \cup UsePC
                             /\ n.pc \in {"idle", "allTokens"} /\ (Reliable => n.ids = M)
    <2>1. CASE Faulty /\ Return(c, FALSE)
        <3>1. PICK n \in CallState :
                   /\ call' = [call EXCEPT ![c] = n]
                   /\ n.pc = "idle" /\ n.ids = {} /\ n.todo = {} /\ n.rest = {} /\ n.stale = {}
                   /\ n.active = 0
            BY <2>1, ReturnIs
        <3> QED BY <1>1, <2>1, <3>1, IdleOK, NotReliable DEF LoginPC, UsePC
    <2>2. CASE ~(Faulty /\ Return(c, FALSE))
        <3>1. PICK m \in CallState : /\ m = NewCall /\ m.since = now /\ m.ids = {} /\ m.todo = {}
                                     /\ m.rest = {} /\ m.stale = {} /\ m.active = 0 /\ m.before = {}
            BY NewCallIs
        <3>2. PICK B \in SUBSET Session : B = {s \in Session : Acceptable(s) /\ sess[s].acct = a
                                                  /\ s \notin unlisted /\ ~\E d \in Call : s \in call[d].ids}
            OBVIOUS
        <3>3. PICK n : n = [m EXCEPT !.pc = "allTokens", !.acct = a, !.ids = M, !.todo = M, !.before = B]
            OBVIOUS
        <3>4. /\ n \in CallState /\ n.pc = "allTokens" /\ n.ids = M /\ n.todo = M /\ n.before = B
              /\ n.since = now /\ n.rest = {} /\ n.stale = {} /\ n.active = 0
            BY <3>1, <3>3 DEF CallState, PC
        <3>5. call' = [call EXCEPT ![c] = n]
            BY <1>4, <2>2, <3>1, <3>2, <3>3 DEF RevokeAllForAccount
        <3>6. /\ "allTokens" \notin SidPC \cup LoginPC \cup UsePC
              /\ "allTokens" \in TodoPC /\ "allTokens" \in BeforePC
            BY DEF SidPC, LoginPC, TodoPC, BeforePC, UsePC
        <3>7. Reliable => B \subseteq M
            <4> SUFFICES ASSUME Reliable, NEW s \in B PROVE s \in M
                OBVIOUS
            <4>1. /\ s \in Session /\ Exists(s) /\ now <= sess[s].active + SessionTTL /\ sess[s].acct = a
                  /\ s \notin unlisted /\ \A d \in Call : s \notin call[d].ids
                BY <3>2 DEF Acceptable, ActiveAt
            <4>2. ~Idle(s)
                BY <1>1, <4>1, ThereCreated DEF Idle
            <4>3. Covered(s)
                BY <4>1, <4>2, Types DEF IndexInv
            <4> QED BY <1>4, <4>1, <4>3 DEF Covered, Members
        <3>8. SidOK(n) /\ WorkOK(n) /\ TokensOK(n)
            BY <1>1, <1>4, <3>4, <3>6 DEF SidOK, WorkOK, TokensOK
        <3>9. GoneOK(n) /\ BeforeOK(n)
            BY <3>4, <3>6, <3>7 DEF GoneOK, BeforeOK
        <3> QED BY <3>4, <3>5, <3>6, <3>8, <3>9 DEF CallOK
    <2> QED BY <2>1, <2>2
<1>6. Evolves /\ \A d \in Call : Issues(call[d])
    BY <1>1 DEF Evolves, Exists, Issues
<1>7. CallOK(n)'
    BY <1>1, <1>5, StaysLocal
<1>8. /\ call' \in [Call -> CallState] /\ CallsInv'
      /\ call'[c] = n /\ \A d \in Call : d # c => call'[d] = call[d]
    BY <1>5, <1>6, <1>7, Types, OneCallMoves
<1>9. TypeOK'
    BY <1>1, <1>3, <1>8, Types DEF TypeOK, cacheVars
<1>10. KeysInv'
    BY <1>1, <1>3, Types DEF KeysInv, Exists
<1>11. LoginInv'
    BY <1>5, <1>8, Types, LoginKept
<1>12. OrphanInv'
    <2>1. \A d \in Call : call[d].todo \subseteq call'[d].todo
        BY <1>2, <1>8
    <2> QED BY <1>1, <2>1, Types, OrphanKept
<1>13. LimitInv'
    <2>1. \A b \in Account : Members(b)' \subseteq Members(b)
        BY <1>1, <1>3 DEF Members
    <2>2. \A b \in Account : Evicting(b) \subseteq Evicting(b)'
        BY <1>2, <1>8 DEF Evicting, At
    <2>3. \A b \in Account : Evicting(b)' \subseteq Call
        BY DEF Evicting
    <2> QED BY <2>1, <2>2, <2>3, Types, LimitKept
<1>14. \A x \in Session : Exists(x)' = Exists(x)
    BY <1>1 DEF Exists
<1>15. \A d \in Call : /\ call[d].pc \in {"refreshSet", "refreshExpire", "updateExpire"} => call'[d] = call[d]
                       /\ call[d].ids \subseteq call'[d].ids
    BY <1>2, <1>8
<1>16. IndexInv'
    <2> SUFFICES ASSUME Reliable, NEW x \in Session, Exists(x)', x \notin unlisted,
                        \A d \in Call : x \notin call'[d].ids
                 PROVE  Covered(x)' \/ Idle(x)'
        BY <1>1 DEF IndexInv, Reliable
    <2>1. CASE Idle(x)
        BY <1>1, <1>5, <1>8, <2>1 DEF Idle
    <2>2. CASE Covered(x)
        <3>1. PICK b \in Account : b = sess[x].acct
            BY ThereCreated
        <3>2. x \in Members(b)
            BY <2>2, <3>1 DEF Covered, Members
        <3>3. b # a
            BY <1>4, <1>5, <1>8, <3>2 DEF Reliable
        <3>4. idx'[b] = idx[b]
            BY <1>3, <3>3
        <3> QED BY <1>1, <1>15, <2>2, <3>1, <3>4 DEF Covered
    <2> QED BY <1>1, <1>14, <1>15, <2>1, <2>2, Types DEF IndexInv
<1>17. CacheInv'
    BY <1>1, <1>14, <1>15, Types, CacheSame, CacheKept DEF WritePC
<1> QED BY <1>8, <1>9, <1>10, <1>11, <1>12, <1>13, <1>16, <1>17 DEF Inv

\* Entries of the cache are dropped, and nothing else happens.
LEMMA SweepInv ==
    ASSUME Inv, SweepLoad \/ SweepDelete
    PROVE  Inv'
<1>1. UNCHANGED <<now, sess, idx, tokens, call, fate, unlisted>> /\ late' \subseteq Session
    BY Types DEF SweepLoad, SweepDelete
<1>2. CacheStep
    <2>1. NotCached \in CachedSession /\ ~NotCached.on
        BY DEF NotCached, CachedSession
    <2>2. CASE SweepLoad
        BY <2>2, Types DEF SweepLoad, StaleEntries, CacheStep, TypeOK
    <2>3. CASE SweepDelete
        <3>1. /\ cache' = [s \in Session |-> IF s \in sweep THEN NotCached ELSE cache[s]]
              /\ cacheSize' = cacheSize - 1 /\ sweep' = {}
            BY <2>3 DEF SweepDelete
        <3> QED BY <2>1, <3>1, Types DEF CacheStep, TypeOK
    <2> QED BY <2>2, <2>3
<1>3. \A x \in Session : Exists(x)' = Exists(x)
    BY <1>1 DEF Exists
<1>4. CacheInv'
    BY <1>1, <1>2, <1>3, Types, CacheKept
<1>5. TypeOK'
    BY <1>1, <1>2, Types DEF TypeOK, CacheStep
<1>6. KeysInv' /\ LoginInv' /\ OrphanInv'
    BY <1>1, Types DEF KeysInv, LoginInv, OrphanInv, NoOrphanTokens, Exists, Reliable
<1>7. CallsInv'
    <2>1. Evolves /\ \A c \in Call : Issues(call[c])
        BY <1>1 DEF Evolves, Issues, Exists
    <2>2. ASSUME NEW c \in Call PROVE CallOK(call[c])'
        <3>1. PICK q \in CallState : q = call[c] /\ CallOK(q) /\ Issues(q)
            BY <2>1, Types DEF Issues
        <3>2. CallOK(q)'
            BY <2>1, <3>1, Types, CallStays
        <3>3. call'[c] = q
            BY <1>1, <3>1
        <3> QED BY <3>2, <3>3 DEF CallOK, SidOK, WorkOK, TokensOK, GoneOK, BeforeOK
    <2> QED BY <2>2 DEF CallsInv
<1>8. LimitInv'
    BY <1>1, Types DEF LimitInv, Members, Evicting, At, Reliable
<1>9. IndexInv'
    <2>1. \A x \in Session : Covered(x) => x \in idx[sess[x].acct].members
        BY DEF Covered
    <2> QED BY <1>1, <1>3, <2>1, Types, IndexKept
<1> QED BY <1>4, <1>5, <1>6, <1>7, <1>8, <1>9 DEF Inv

\* A second passes.
LEMMA TickInv ==
    ASSUME Inv, Tick
    PROVE  Inv'
<1>1. /\ now' = now + 1 /\ now \in Nat /\ now >= 1
      /\ UNCHANGED <<sess, idx, cacheVars, tokens, late, call>>
      /\ unlisted' = unlisted \cup {s \in Session : idx[sess[s].acct].keyExp = now
                                                    /\ \E c \in Call : Using(c, s)}
    BY Types DEF Tick, KeysInv
<1>2. \A s \in Session : fate'[s] = IF Exists(s) /\ now + 1 > sess[s].keyExp THEN "expired" ELSE fate[s]
    BY DEF Tick
<1>3. \A s \in Session : sess[s].keyExp \in Nat /\ sess[s].active \in Nat /\ sess[s].active <= now
    BY ThereCreated
<1>4. \A s \in Session : Exists(s)' => Exists(s)
    BY <1>1, <1>3 DEF Exists
<1>6. TypeOK'
    <2>1. fate' \in [Session -> Fate]
        BY Types DEF Tick, Fate
    <2> QED BY <1>1, <2>1, Types DEF TypeOK, cacheVars
<1>7. KeysInv'
    <2>1. ASSUME NEW s \in Session
          PROVE  /\ sess'[s].created = 0 => sess'[s].keyExp = 0 /\ fate'[s] = "none" /\ s \notin tokens'
                 /\ fate'[s] # "none" => ~Exists(s)'
                 /\ sess'[s].active <= now'
        <3>1. CASE Exists(s) /\ now + 1 > sess[s].keyExp
            <4>1. sess[s].created # 0
                BY <3>1, ThereCreated
            <4>2. ~Exists(s)'
                BY <1>1, <1>3, <3>1 DEF Exists
            <4> QED BY <1>1, <1>3, <4>1, <4>2
        <3>2. CASE ~(Exists(s) /\ now + 1 > sess[s].keyExp)
            BY <1>1, <1>2, <1>3, <1>4, <3>2, Types DEF KeysInv
        <3> QED BY <3>1, <3>2
    <2>2. \A a \in Account : \A s \in idx'[a].members : sess'[s].created # 0
        BY <1>1, Types DEF KeysInv
    <2> QED BY <1>1, <2>1, <2>2 DEF KeysInv
<1>8. CallsInv'
    <2>1. ASSUME NEW c \in Call PROVE CallOK(call[c])'
        <3>1. PICK q \in CallState : q = call[c] /\ CallOK(q)
            BY Types
        <3>2. q.active \in Nat /\ q.ids \subseteq Session /\ q.stale \subseteq Session
            BY DEF CallState
        <3>3. SidOK(q)'
            BY <1>1, <3>1, <3>2 DEF CallOK, SidOK
        <3>4. WorkOK(q)'
            BY <3>1 DEF CallOK, WorkOK
        <3>5. TokensOK(q)'
            BY <1>1, <3>1 DEF CallOK, TokensOK, RevokePC, Reliable
        <3>6. \A s \in Session : Gone(s) => Gone(s)'
            BY <1>1, <1>4 DEF Gone
        <3>7. GoneOK(q)'
            BY <3>1, <3>2, <3>6 DEF CallOK, GoneOK, Reliable
        <3>8. BeforeOK(q)'
            BY <3>1 DEF CallOK, BeforeOK, Reliable
        <3>9. call'[c] = q
            BY <1>1, <3>1
        <3> QED BY <3>3, <3>4, <3>5, <3>7, <3>8, <3>9
                DEF CallOK, SidOK, WorkOK, TokensOK, GoneOK, BeforeOK
    <2> QED BY <2>1 DEF CallsInv
<1>9. LoginInv'
    BY <1>1, Types DEF LoginInv
<1>10. OrphanInv'
    BY <1>1, <1>2, Types, OrphanKept
<1>11. LimitInv'
    <2>1. ASSUME NEW a \in Account PROVE Members(a)' \subseteq Members(a)
        <3>1. idx[a].keyExp \in Nat
            BY Types DEF AccountIndex
        <3> QED BY <1>1, <3>1 DEF Members
    <2>2. \A a \in Account : Evicting(a)' = Evicting(a) /\ Evicting(a)' \subseteq Call
        BY <1>1 DEF Evicting, At
    <2> QED BY <2>1, <2>2, Types, LimitKept
<1>12. IndexInv'
    <2> SUFFICES ASSUME Reliable, NEW s \in Session, Exists(s)', s \notin unlisted',
                        \A c \in Call : s \notin call[c].ids
                 PROVE  Covered(s)' \/ Idle(s)'
        BY <1>1 DEF IndexInv, Reliable
    <2>1. CASE Idle(s)
        BY <1>1, <1>3, <2>1 DEF Idle
    <2>2. CASE Covered(s)
        <3>1. PICK a \in Account : a = sess[s].acct
            BY ThereCreated
        <3>2. s \in idx[a].members /\ idx[a].keyExp \in Nat /\ now <= idx[a].keyExp
            BY <2>2, <3>1, Types DEF Covered, AccountIndex
        <3>3. CASE now + 1 <= idx[a].keyExp
            BY <1>1, <2>2, <3>1, <3>2, <3>3 DEF Covered
        <3>4. CASE idx[a].keyExp = now
            <4>1. \A c \in Call : call[c].pc \in UsePC => call[c].sid # s
                BY <1>1, <3>1, <3>4 DEF Using, UsePC
            <4>2. sess[s].active + SessionTTL <= now
                BY <2>2, <3>1, <3>4, <4>1 DEF Covered, UsePC
            <4> QED BY <1>1, <1>3, <4>1, <4>2 DEF Idle
        <3> QED BY <1>1, <3>2, <3>3, <3>4
    <2> QED BY <1>1, <1>4, <2>1, <2>2, Types DEF IndexInv
<1>13. CacheInv'
    <2>1. cache' = cache
        BY <1>1 DEF cacheVars
    <2>2. ASSUME NEW s \in Session, cache[s].on
          PROVE  cache[s].json <= cache[s].active /\ cache[s].active <= now + 1
        <3>1. cache[s].active \in Nat /\ cache[s].active <= now /\ cache[s].json <= cache[s].active
            BY <2>2, Types DEF CacheInv, TypeOK, CachedSession
        <3> QED BY <1>1, <3>1
    <2> QED BY <1>1, <1>4, <2>1, <2>2, Types DEF CacheInv, Hit, Reliable
<1> QED BY <1>6, <1>7, <1>8, <1>9, <1>10, <1>11, <1>12, <1>13 DEF Inv

-----------------------------------------------------------------------------
(* The invariant.                                                          *)

\* The invariant holds initially.
LEMMA InitInv ==
    Init => Inv
<1> SUFFICES ASSUME Init PROVE Inv
    OBVIOUS
<1>1. PICK a \in Account : a = CHOOSE x \in Account : TRUE
    BY NamesAssumption, Zenon
<1>2. /\ now = 1 /\ cacheSize = 0 /\ sweep = {} /\ tokens = {} /\ late = {} /\ unlisted = {}
      /\ idx = [b \in Account |-> [members |-> {}, keyExp |-> 0]]
      /\ sess = [s \in Session |-> [acct |-> a, created |-> 0, active |-> 0, keyExp |-> 0]]
      /\ cache = [s \in Session |-> NotCached]
      /\ call = [c \in Call |-> NoCall] /\ fate = [s \in Session |-> "none"]
    BY <1>1 DEF Init
<1>3. TypeOK
    BY <1>2, IdleCall DEF TypeOK, NotCached, CachedSession, AccountIndex, StoredSession, Fate
<1>4. \A c \in Call : /\ call[c].pc = "idle" /\ call[c].ids = {} /\ call[c].todo = {}
                      /\ call[c] = NoCall
    BY <1>2, IdleCall
<1>5. KeysInv
    BY <1>2 DEF KeysInv
<1>6. CallsInv
    <2>1. ASSUME NEW c \in Call PROVE CallOK(call[c])
        <3>1. PICK q : q = call[c]
            OBVIOUS
        <3>2. /\ q.pc = "idle" /\ q.ids = {} /\ q.todo = {} /\ q.rest = {} /\ q.stale = {} /\ q.active = 0
            BY <1>4, <3>1, IdleCall
        <3>3. "idle" \notin SidPC /\ "idle" \notin LoginPC /\ "idle" \notin RevokePC
            BY DEF SidPC, LoginPC, RevokePC
        <3>4. CallOK(q)
            BY <1>2, <3>2, <3>3 DEF CallOK, SidOK, WorkOK, TokensOK, GoneOK, BeforeOK
        <3> QED BY <3>1, <3>4
    <2> QED BY <2>1 DEF CallsInv
<1>7. LoginInv /\ OrphanInv
    BY <1>2, <1>4 DEF LoginInv, OrphanInv, NoOrphanTokens, LoginPC
<1>8. LimitInv
    <2> SUFFICES ASSUME NEW b \in Account
                 PROVE  Cardinality(Members(b)) <= MaxSessions + Cardinality(Evicting(b))
        BY DEF LimitInv
    <2>1. Members(b) = {} /\ Evicting(b) \subseteq Call
        BY <1>2 DEF Members, Evicting
    <2>2. Cardinality({}) = 0
        BY FS_EmptySet
    <2>3. PICK E : E = Evicting(b)
        OBVIOUS
    <2>4. Cardinality(E) \in Nat
        BY <2>1, <2>3, Finite
    <2> QED BY <2>1, <2>2, <2>3, <2>4
<1>9. IndexInv /\ CacheInv
    BY <1>2 DEF IndexInv, CacheInv, Exists, NotCached
<1> QED BY <1>3, <1>5, <1>6, <1>7, <1>8, <1>9 DEF Inv

\* The steps of a call keep the invariant.
LEMMA StepInv ==
    ASSUME Inv, NEW c \in Call, Step(c) \/ Begin(c) \/ Crash(c)
    PROVE  Inv'
<1>1. CASE Begin(c)
    BY <1>1, CreateSessionInv, ValidateSessionInv, AuthorizationCodeGrantInv, BeginRevokeInv,
       RevokeAllForAccountInv, ListBeginInv
       DEF Begin
<1>2. CASE Step(c)
    BY <1>2, EnforceSessionLimitInv, RevokeEvictedTokensInv, IssueTokensInv, UpdateSessionInv,
       DeleteSessionInv, RefreshGetInv, RefreshWriteInv, ForceExpireSessionInv, RevokeSessionInv,
       LogoutTokensInv, RevokeAllKeysInv, ListGetInv, ListNextInv
       DEF Step
<1>3. CASE Crash(c)
    BY <1>3, CrashInv
<1> QED BY <1>1, <1>2, <1>3

\* Every step keeps the invariant.
LEMMA NextInv ==
    Inv /\ [Next]_vars => Inv'
<1> SUFFICES ASSUME Inv, [Next]_vars PROVE Inv'
    OBVIOUS
<1>1. CASE Next
    BY <1>1, StepInv, SweepInv, TickInv DEF Next
<1>2. CASE UNCHANGED vars
    <2>1. /\ UNCHANGED <<now, sess, idx, cacheVars, tokens, call, fate, unlisted>> /\ late' \subseteq Session
        BY <1>2, Types DEF vars
    <2>2. UNCHANGED <<cache, cacheSize, sweep>>
        BY <2>1 DEF cacheVars
    <2> QED BY <2>1, <2>2
            DEF Inv, TypeOK, KeysInv, CallsInv, CallOK, SidOK, WorkOK, TokensOK, GoneOK, BeforeOK,
                LoginInv, OrphanInv, NoOrphanTokens, LimitInv, IndexInv, CacheInv, Covered, Idle, Members,
                Evicting, At, Exists, Gone, Hit, Reliable, RevokePC
<1> QED BY <1>1, <1>2

\* The invariant holds in every reachable state.
LEMMA AlwaysInv ==
    Spec => []Inv
BY InitInv, NextInv, PTL DEF Spec

-----------------------------------------------------------------------------
(* Theorems.                                                               *)

\* Redis keys, index, cache and requests keep their types.
THEOREM SessionsTypeCorrect == Spec => []TypeOK
<1>1. Inv => TypeOK
    BY DEF Inv
<1> QED BY <1>1, AlwaysInv, PTL

\* Whatever fails or crashes: a session whose key was deleted, evicted or has expired
\* never exists again, although refresh and update write back what they read before.
THEOREM GoneForGood == Spec => []NoResurrection
<1>1. Inv => NoResurrection
    BY DEF Inv, KeysInv, NoResurrection
<1> QED BY <1>1, AlwaysInv, PTL

\* Whatever fails or crashes: a session that RevokeSession deleted has none of the
\* tokens it had when its deletion began; those that a login or the exchange of a code
\* issued meanwhile or later are kept apart, and may remain.
THEOREM RevokedHaveNoTokens == Spec => []NoOrphanTokens
<1>1. Inv => NoOrphanTokens
    BY DEF Inv, OrphanInv
<1> QED BY <1>1, AlwaysInv, PTL

\* If no command fails and no request ends early, then once nothing is under way no
\* deleted session has any of the tokens it had when its deletion began, whichever path
\* deleted it.
THEOREM DeletedHaveNoTokens == Reliable => (Spec => []DeletionRevokesTokens)
<1> SUFFICES ASSUME Reliable PROVE Spec => []DeletionRevokesTokens
    OBVIOUS
<1>1. Inv => DeletionRevokesTokens
    <2> SUFFICES ASSUME Inv, \A c \in Call : At(c, "idle"), NEW s \in Session,
                        fate[s] \in {"deleted", "revoked"}
                 PROVE  s \notin tokens
        BY DEF DeletionRevokesTokens
    <2>1. \A c \in Call : call[c].todo = {}
        BY IdleIs
    <2> QED BY <2>1, Types DEF OrphanInv
<1> QED BY <1>1, AlwaysInv, PTL

\* If no command fails and no request ends early, an account has no more sessions in its
\* index than the limit and the logins that are still to evict.
THEOREM LimitHolds == Reliable => (Spec => []SessionLimit)
<1> SUFFICES ASSUME Reliable PROVE Spec => []SessionLimit
    OBVIOUS
<1>1. Inv => SessionLimit
    BY DEF Inv, LimitInv, Evicting, SessionLimit
<1> QED BY <1>1, AlwaysInv, PTL

\* If no command fails and no request ends early, then however long requests take the
\* index lists every session that a validation accepts and that no request is deleting,
\* except those whose index ran out under their own login or refresh.
THEOREM IndexIsComplete == Reliable => (Spec => []IndexCoversSessions)
<1> SUFFICES ASSUME Reliable PROVE Spec => []IndexCoversSessions
    OBVIOUS
<1>1. Inv => IndexCoversSessions
    <2> SUFFICES ASSUME Inv, NEW s \in Session, Acceptable(s), s \notin unlisted,
                        \A c \in Call : s \notin call[c].ids
                 PROVE  s \in Members(sess[s].acct)
        BY DEF IndexCoversSessions
    <2>1. ~Idle(s)
        BY Types, ThereCreated DEF Idle, Acceptable, ActiveAt
    <2>2. Covered(s)
        BY <2>1, Types DEF IndexInv, Acceptable
    <2> QED BY <2>2 DEF Covered, Members
<1> QED BY <1>1, AlwaysInv, PTL

\* A request is moved by its own steps only.
LEMMA OthersStay ==
    ASSUME Inv, NEW d \in Call, Step(d) \/ Begin(d) \/ Crash(d), NEW c \in Call, c # d
    PROVE  call'[c] = call[c]
<1>1. CASE Begin(d)
    BY <1>1, Types DEF Begin, CreateSession, ValidateSession, AuthorizationCodeGrant, BeginRevoke,
                       RevokeAllForAccount, ListSessionsByAccount, Return, Expire
<1>2. CASE Crash(d)
    BY <1>2, Types DEF Crash, Return
<1>3. CASE EnforceSessionLimit(d) \/ RevokeEvictedTokens(d) \/ IssueTokens(d)
    BY <1>3, Types DEF EnforceSessionLimit, RevokeEvictedTokens, IssueTokens, RevokeTokens, Continue,
                       Goto, Return
<1>4. CASE UpdateSession(d) \/ DeleteSession(d)
    BY <1>4, Types DEF UpdateSession, DeleteSession, SetIfExists, ExpireIndex, Del, SRem, Continue,
                       Goto, Return
<1>5. CASE RefreshGet(d) \/ RefreshWrite(d)
    BY <1>5, Types DEF RefreshGet, RefreshWrite, SetIfExists, ExpireIndex, Goto, Return, Expire
<1>6. CASE ForceExpireSession(d) \/ RevokeSession(d)
    BY <1>6, Types DEF ForceExpireSession, RevokeSession, Del, SRem, RevokeTokens, Continue, Goto, Return
<1>7. CASE LogoutTokens(d) \/ RevokeAllKeys(d)
    BY <1>7, Types DEF LogoutTokens, RevokeAllKeys, Del, RevokeTokens, Continue, Goto, Return
<1>8. CASE ListGet(d) \/ ListNext(d)
    BY <1>8, Types DEF ListGet, ListNext, SRem, Continue, Goto, Return
<1> QED BY <1>1, <1>2, <1>3, <1>4, <1>5, <1>6, <1>7, <1>8 DEF Step

\* RevokeAllForAccount answers with its DEL.
LEMMA AnswersWithDel ==
    ASSUME Inv, Reliable, [Next]_vars, NEW c \in Call, call[c].pc \in {"allTokens", "allDel"},
           call'[c].pc = "idle"
    PROVE  now' = now /\ DelKeys(call[c].ids, "deleted")
<1>1. call' # call
    OBVIOUS
<1>2. PICK d \in Call : Step(d) \/ Begin(d) \/ Crash(d)
    BY <1>1 DEF Next, SweepLoad, SweepDelete, Tick, vars
<1>3. d = c
    BY <1>2, OthersStay
<1>4. ~Begin(c) /\ ~Crash(c)
    BY DEF Begin, CreateSession, ValidateSession, AuthorizationCodeGrant, BeginRevoke,
           RevokeAllForAccount, ListSessionsByAccount, At, Crash, Reliable
<1>5. ~EnforceSessionLimit(c) /\ ~RevokeEvictedTokens(c) /\ ~IssueTokens(c)
    BY DEF EnforceSessionLimit, RevokeEvictedTokens, IssueTokens, RevokeTokens, At
<1>6. ~UpdateSession(c) /\ ~DeleteSession(c)
    BY DEF UpdateSession, DeleteSession, SetIfExists, ExpireIndex, Del, SRem, At
<1>7. ~RefreshGet(c) /\ ~RefreshWrite(c) /\ ~ForceExpireSession(c)
    BY DEF RefreshGet, RefreshWrite, SetIfExists, ExpireIndex, ForceExpireSession, Del, SRem,
           RevokeTokens, At
<1>8. ~RevokeSession(c) /\ ~LogoutTokens(c) /\ ~ListGet(c) /\ ~ListNext(c)
    BY DEF RevokeSession, LogoutTokens, ListGet, ListNext, Del, SRem, RevokeTokens, At
<1>9. RevokeAllKeys(c)
    BY <1>2, <1>3, <1>4, <1>5, <1>6, <1>7, <1>8 DEF Step
<1>10. ~RevokeTokens(c, "allTokens", "allDel", "allTokens")
    <2> SUFFICES ASSUME RevokeTokens(c, "allTokens", "allDel", "allTokens") PROVE FALSE
        OBVIOUS
    <2>1. PICK q \in CallState : q = call[c] /\ q.pc = "allTokens"
        BY Types DEF RevokeTokens, At
    <2>2. ASSUME NEW s, call' = [call EXCEPT ![c].todo = @ \ {s}]
          PROVE  FALSE
        <3>1. PICK n : n = [q EXCEPT !.todo = @ \ {s}]
            OBVIOUS
        <3>2. n.pc = "allTokens" /\ call'[c] = n
            BY <2>1, <2>2, <3>1, Types DEF CallState
        <3> QED BY <3>2
    <2>3. ASSUME Goto(c, "allDel")
          PROVE  FALSE
        <3>1. PICK n \in CallState : call' = [call EXCEPT ![c] = n] /\ n.pc = "allDel"
            BY <2>3, GotoIs DEF PC
        <3> QED BY <3>1, Types
    <2> QED BY <2>2, <2>3 DEF RevokeTokens, Continue
<1> QED BY <1>9, <1>10, DelIs DEF RevokeAllKeys

\* If no command fails and no request ends early, RevokeAllForAccount answers with success
\* only when no session that it was to revoke is accepted any longer, however long the
\* requests around it take; it cannot find those whose index ran out under them.
THEOREM RevokesAll == Reliable => (Spec => RevokeAllComplete)
<1> SUFFICES ASSUME Reliable PROVE Spec => RevokeAllComplete
    OBVIOUS
<1>1. ASSUME Inv, [Next]_vars, NEW c \in Call, call[c].pc \in {"allTokens", "allDel"},
             call'[c].pc = "idle", NEW s \in call[c].before
      PROVE  ~Acceptable(s)'
    <2>1. PICK q \in CallState : q = call[c] /\ CallOK(q)
        BY <1>1, Types
    <2>2. now' = now /\ DelKeys(q.ids, "deleted") /\ q.before \subseteq q.ids
        BY <1>1, <2>1, AnswersWithDel DEF CallOK, BeforeOK, Reliable
    <2>3. q.ids \in SUBSET Session /\ \A x \in q.ids : sess[x].created # 0
        BY <2>1 DEF CallOK, SidOK, CallState
    <2>4. \A x \in q.ids : Gone(x)'
        BY <1>1, <2>2, <2>3, KeysDeleted
    <2> QED BY <1>1, <2>1, <2>2, <2>4 DEF Gone, Acceptable
<1>2. Inv /\ [Next]_vars =>
          [\A c \in Call :
              call[c].pc \in {"allTokens", "allDel"} /\ call'[c].pc = "idle" /\ call'[c].ok =>
                  \A s \in call[c].before : ~Acceptable(s)']_vars
    BY <1>1
<1> QED BY <1>2, AlwaysInv, PTL DEF Spec, RevokeAllComplete
=============================================================================
