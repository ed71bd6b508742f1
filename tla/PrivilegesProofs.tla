-------------------------- MODULE PrivilegesProofs --------------------------
(***************************************************************************)
(* Proofs about Privileges, for any accounts and requests and any lifetimes*)
(* of the copies: how long a role that was taken away and an account that  *)
(* was suspended or deleted can still be used.                             *)
(*                                                                         *)
(* Each copy was made by a request, and the invariant dates it: what a     *)
(* request has read was true at some time since it began, a request ends   *)
(* within RequestTimeout, and so what it leaves behind expires no later    *)
(* than that, plus the lifetime of the copy, after it was last true.       *)
(***************************************************************************)
EXTENDS Privileges, FiniteSetTheorems, TLAPS

\* How old the claims may be that a request is about to put in a token.
ClaimsLag == RequestTimeout + (RoleTTL - 1)
\* How old the verdict may be that a grant relies on.
VerdictLag == RequestTimeout + (ValidatorTTL - 1)

\* The history: what is true now was last true now.
HistoryInv ==
    \A a \in Account :
        /\ held[a] <= now /\ lastActive[a] <= now
        /\ a \in admins => held[a] = now
        /\ IsActive(a) => lastActive[a] = now

\* What a request knows: it is not late, the account it found active was active since it
\* began, and the claims it has read were the account's, or were cached not long before.
CallOK(x) ==
    x.pc # "idle" =>
        /\ x.acct \in Account
        /\ x.since <= now /\ now <= x.since + RequestTimeout
        /\ x.checked \/ x.active => x.since <= lastActive[x.acct]
        /\ x.pc = "set" /\ x.claims = Grant => x.since <= held[x.acct]
        /\ x.pc = "issue" /\ x.claims = Grant => x.since <= held[x.acct] + ClaimsLag
        /\ x.pc \in {"permissions", "mint"} /\ "admin" \in x.claims => x.since <= held[x.acct]
        /\ x.pc \in {"granted", "permissions", "mint"} =>
               x.since <= lastActive[x.acct] + VerdictLag

CallsInv == \A c \in Call : CallOK(call[c])

\* What the requests have left behind.
CopiesInv ==
    \A a \in Account :
        /\ rcache[a].claims = Grant => rcache[a].exp <= held[a] + RequestTimeout + RoleTTL
        /\ vcache[a].active => vcache[a].exp <= lastActive[a] + RequestTimeout + ValidatorTTL
        /\ \A e \in {tok[a][Grant], devtok[a][Grant]} :
              /\ e <= held[a] + ClaimsLag + RequestTimeout + AccessTTL
              /\ e <= lastActive[a] + VerdictLag + RequestTimeout + AccessTTL

Inv == TypeOK /\ HistoryInv /\ CallsInv /\ CopiesInv

USE PrivilegesAssumption

\* The lags are lengths of time.
LEMMA LagTypes == ClaimsLag \in Nat /\ VerdictLag \in Nat
BY DEF ClaimsLag, VerdictLag

\* An idle request is well typed.
LEMMA DefaultCall == NoCall \in CallState /\ NoCall.pc = "idle"
BY DEF NoCall, CallState, Owner, PC, Claims

\* A request that has just begun on behalf of an account.
LEMMA BegunCall ==
    ASSUME now \in Nat, NEW a \in Account, NEW p \in PC
    PROVE  /\ Begun(a, p) \in CallState
           /\ Begun(a, p).pc = p /\ Begun(a, p).acct = a /\ Begun(a, p).since = now
           /\ ~Begun(a, p).checked /\ ~Begun(a, p).active /\ Begun(a, p).claims = {}
BY DEF Begun, NoCall, CallState, Owner, PC, Claims

\* The claims of the role and no claims are different.
LEMMA GrantClaims == Grant \in Claims /\ {} \in Claims /\ Grant # {}
BY DEF Grant, Claims

\* A step that replaces one request by a well-formed one keeps what is said of them all.
LEMMA OneCallMoves ==
    ASSUME TypeOK, CallsInv, NEW c \in Call, NEW st \in CallState,
           call' = [call EXCEPT ![c] = st], CallOK(st), UNCHANGED <<now, history>>
    PROVE  call' \in [Call -> CallState] /\ CallsInv'
<1>1. call \in [Call -> CallState]
    BY DEF TypeOK
<1>2. ASSUME NEW d \in Call PROVE CallOK(call[d])'
    <2>1. call'[d] = st \/ call'[d] = call[d]
        BY <1>1
    <2> QED BY <2>1 DEF CallsInv, CallOK, history
<1> QED BY <1>1, <1>2 DEF CallsInv

\* Returning is one such step.
LEMMA ReturnMoves ==
    ASSUME TypeOK, CallsInv, NEW c \in Call, Return(c), UNCHANGED <<now, history>>
    PROVE  call' \in [Call -> CallState] /\ CallsInv'
<1>1. CallOK(NoCall)
    BY DefaultCall DEF CallOK
<1> QED BY <1>1, DefaultCall, OneCallMoves DEF Return

\* Going on without having read anything is another, except to the steps that the claims
\* read are for.
LEMMA GotoMoves ==
    ASSUME TypeOK, CallsInv, NEW c \in Call, NEW p \in PC \ {"idle", "set", "issue", "granted", "permissions", "mint"},
           ~At(c, "idle"), Goto(c, p), UNCHANGED <<now, history>>
    PROVE  call' \in [Call -> CallState] /\ CallsInv'
<1> DEFINE st == [call[c] EXCEPT !.pc = p]
<1>1. call[c] \in CallState /\ call \in [Call -> CallState] /\ CallOK(call[c])
    BY DEF TypeOK, CallsInv
<1>2. /\ st \in CallState /\ st.pc = p /\ st.acct = call[c].acct /\ st.since = call[c].since
      /\ st.checked = call[c].checked /\ st.active = call[c].active
    BY <1>1 DEF CallState
<1>3. call' = [call EXCEPT ![c] = st]
    BY <1>1 DEF Goto
<1>4. CallOK(st)
    BY <1>1, <1>2 DEF CallOK, At
<1> HIDE DEF st
<1> QED BY <1>2, <1>3, <1>4, OneCallMoves

\* A new request is in time and knows nothing.
LEMMA BegunMoves ==
    ASSUME TypeOK, CallsInv, NEW c \in Call, NEW a \in Account,
           NEW p \in PC \ {"granted", "permissions", "mint"},
           call' = [call EXCEPT ![c] = Begun(a, p)], UNCHANGED <<now, history>>
    PROVE  call' \in [Call -> CallState] /\ CallsInv'
<1>1. now \in Nat
    BY DEF TypeOK
<1>2. CallOK(Begun(a, p))
    BY <1>1, BegunCall, GrantClaims DEF CallOK
<1> QED BY <1>1, <1>2, BegunCall, OneCallMoves

-----------------------------------------------------------------------------
(* The steps that only move a request.                                     *)

\* The requests alone move: the rest of the invariant does not mention them.
LEMMA OnlyCallsMove ==
    ASSUME Inv, UNCHANGED <<now, store, validator, history>>, asked' \in Nat,
           call' \in [Call -> CallState], CallsInv'
    PROVE  Inv'
BY DEF Inv, TypeOK, HistoryInv, CopiesInv, IsActive, store, validator, history

\* The requests that begin.
LEMMA ArriveInv ==
    ASSUME Inv, NEW c \in Call,
           \/ LoginVerified(c) \/ RefreshToken(c) \/ AddRole(c) \/ RemoveRole(c)
           \/ DisableAccount(c) \/ EnableAccount(c) \/ DeleteAccount(c)
    PROVE  Inv'
<1>1. asked' \in Nat /\ UNCHANGED <<now, store, validator, history>>
    <2>1. Arrive(c) /\ UNCHANGED <<now, store, validator, history>>
        BY Zenon DEF LoginVerified, RefreshToken, AddRole, RemoveRole, DisableAccount,
           EnableAccount, DeleteAccount, AdminRequest
    <2> QED BY <2>1 DEF Arrive, Inv, TypeOK
<1>2. TypeOK /\ CallsInv /\ now \in Nat
    BY DEF Inv, TypeOK
<1>3. CASE LoginVerified(c)
    <2>1. PICK a \in Account :
              /\ IsActive(a)
              /\ call' = [call EXCEPT ![c] =
                             [Begun(a, "session") EXCEPT !.checked = TRUE]]
        BY <1>3 DEF LoginVerified
    <2> DEFINE st == [Begun(a, "session") EXCEPT !.checked = TRUE]
    <2>2. st \in CallState /\ st.pc = "session" /\ st.acct = a /\ st.since = now
        <3>1. "session" \in PC
            BY DEF PC
        <3>2. /\ Begun(a, "session") \in CallState /\ Begun(a, "session").pc = "session"
              /\ Begun(a, "session").acct = a /\ Begun(a, "session").since = now
            BY <1>2, <3>1, BegunCall
        <3> QED BY <3>2 DEF CallState
    <2>3. lastActive[a] = now
        BY <2>1 DEF Inv, HistoryInv
    <2>4. CallOK(st)
        BY <1>2, <2>2, <2>3 DEF CallOK
    <2> HIDE DEF st
    <2>5. call' \in [Call -> CallState] /\ CallsInv'
        BY <1>1, <1>2, <2>1, <2>2, <2>4, OneCallMoves DEF st
    <2> QED BY <1>1, <2>5, OnlyCallsMove
<1>4. CASE RefreshToken(c)
    <2>1. PICK a \in Account :
              call' = [call EXCEPT ![c] = [Begun(a, "get") EXCEPT !.alive = TRUE]]
        BY <1>4 DEF RefreshToken
    <2> DEFINE st == [Begun(a, "get") EXCEPT !.alive = TRUE]
    <2>2. /\ st \in CallState /\ st.pc = "get" /\ st.acct = a /\ st.since = now
          /\ ~st.checked /\ ~st.active
        <3>1. "get" \in PC
            BY DEF PC
        <3>2. /\ Begun(a, "get") \in CallState /\ Begun(a, "get").pc = "get"
              /\ Begun(a, "get").acct = a /\ Begun(a, "get").since = now
              /\ ~Begun(a, "get").checked /\ ~Begun(a, "get").active
            BY <1>2, <3>1, BegunCall
        <3> QED BY <3>2 DEF CallState
    <2>3. CallOK(st)
        BY <1>2, <2>2 DEF CallOK
    <2> HIDE DEF st
    <2>4. call' \in [Call -> CallState] /\ CallsInv'
        BY <1>1, <1>2, <2>1, <2>2, <2>3, OneCallMoves DEF st
    <2> QED BY <1>1, <2>4, OnlyCallsMove
<1>5. CASE \E p \in PC \ {"granted", "permissions", "mint"} : AdminRequest(c, p)
    <2>1. PICK p \in PC \ {"granted", "permissions", "mint"}, a \in Account : call' = [call EXCEPT ![c] = Begun(a, p)]
        BY <1>5 DEF AdminRequest
    <2>2. call' \in [Call -> CallState] /\ CallsInv'
        BY <1>1, <1>2, <2>1, BegunMoves
    <2> QED BY <1>1, <2>2, OnlyCallsMove
<1>6. {"add", "remove", "suspend", "activate", "delete"}
          \subseteq PC \ {"granted", "permissions", "mint"}
    BY DEF PC
<1> QED BY <1>3, <1>4, <1>5, <1>6 DEF AddRole, RemoveRole, DisableAccount, EnableAccount, DeleteAccount

\* The steps of a request that read, and remember what they have read.
LEMMA ReadInv ==
    ASSUME Inv, NEW c \in Call,
           \/ CreateSession(c) \/ CheckAccount(c) \/ RoleCacheGet(c) \/ FetchRoles(c)
           \/ FindAccountByID(c) \/ GetAccountRoles(c) \/ GetAccountPermissions(c)
    PROVE  Inv'
<1>1. asked' \in Nat /\ UNCHANGED <<now, store, validator, history>> /\ ~At(c, "idle")
    BY DEF CreateSession, CheckAccount, RoleCacheGet, FetchRoles, FindAccountByID,
           GetAccountRoles, GetAccountPermissions, At, Inv, TypeOK
<1>2. /\ TypeOK /\ CallsInv /\ now \in Nat /\ call \in [Call -> CallState]
      /\ call[c] \in CallState /\ CallOK(call[c])
    BY DEF Inv, TypeOK, CallsInv
<1>3. /\ call[c].acct \in Account /\ call[c].since \in Nat
      /\ held[call[c].acct] \in Nat /\ lastActive[call[c].acct] \in Nat
      /\ call[c].since <= now
    BY <1>1, <1>2 DEF CallOK, At, CallState, TypeOK
<1>4. ASSUME NEW st \in CallState, call' = [call EXCEPT ![c] = st], CallOK(st)
      PROVE  Inv'
    BY <1>1, <1>2, <1>4, OneCallMoves, OnlyCallsMove
<1>5. CASE Return(c)
    BY <1>1, <1>2, <1>5, ReturnMoves, OnlyCallsMove
<1>6. CASE CreateSession(c)
    <2> DEFINE st == [call[c] EXCEPT !.pc = "get", !.alive = TRUE]
    <2>1. call' = [call EXCEPT ![c] = st]
        BY <1>2, <1>6 DEF CreateSession
    <2>2. /\ st \in CallState /\ st.pc = "get" /\ st.acct = call[c].acct
          /\ st.since = call[c].since /\ st.checked = call[c].checked /\ st.active = call[c].active
        BY <1>2 DEF CallState, PC
    <2>3. CallOK(st)
        BY <1>1, <1>2, <2>2 DEF CallOK, At
    <2> HIDE DEF st
    <2> QED BY <1>4, <2>1, <2>2, <2>3
<1>7. CASE CheckAccount(c) /\ ~Return(c)
    <2> DEFINE st == [call[c] EXCEPT !.checked = TRUE]
    <2>1. call' = [call EXCEPT ![c] = st] /\ IsActive(call[c].acct)
        BY <1>2, <1>7 DEF CheckAccount
    <2>2. /\ st \in CallState /\ st.pc = call[c].pc /\ st.acct = call[c].acct
          /\ st.since = call[c].since /\ st.claims = call[c].claims
        BY <1>2 DEF CallState
    <2>3. lastActive[call[c].acct] = now
        BY <1>3, <2>1 DEF Inv, HistoryInv
    <2>4. CallOK(st)
        BY <1>1, <1>2, <1>3, <1>7, <2>2, <2>3 DEF CallOK, At, CheckAccount
    <2> HIDE DEF st
    <2> QED BY <1>4, <2>1, <2>2, <2>4
<1>8. CASE RoleCacheGet(c)
    <2>1. CASE Goto(c, "find")
        BY <1>1, <1>2, <2>1, GotoMoves, OnlyCallsMove DEF PC
    <2>2. CASE ~Goto(c, "find")
        <3> DEFINE e == rcache[call[c].acct]
                   st == [call[c] EXCEPT !.claims = e.claims, !.pc = "issue"]
        <3>1. call' = [call EXCEPT ![c] = st] /\ now < e.exp
            BY <1>2, <1>8, <2>2 DEF RoleCacheGet
        <3>2. e.claims \in Claims /\ e.exp \in Nat
            BY <1>2, <1>3 DEF TypeOK, RoleRecord
        <3>3. /\ st \in CallState /\ st.pc = "issue" /\ st.acct = call[c].acct
              /\ st.since = call[c].since /\ st.claims = e.claims
              /\ st.checked = call[c].checked /\ st.active = call[c].active
            BY <1>2, <3>2 DEF CallState, PC
        <3>4. e.claims = Grant => e.exp <= held[call[c].acct] + RequestTimeout + RoleTTL
            BY <1>3 DEF Inv, CopiesInv
        <3> HIDE DEF e, st
        <3>5. st.claims = Grant => st.since <= held[st.acct] + ClaimsLag
            BY <1>2, <1>3, <3>1, <3>2, <3>3, <3>4 DEF ClaimsLag
        <3>6. CallOK(st)
            BY <1>1, <1>2, <3>3, <3>5 DEF CallOK, At
        <3> QED BY <1>4, <3>1, <3>3, <3>6
    <2> QED BY <2>1, <2>2
<1>9. CASE FetchRoles(c) /\ ~Return(c)
    <2> DEFINE C == FindRolesByAccountID(call[c].acct)
               st == [call[c] EXCEPT !.claims = C, !.pc = "set"]
    <2>1. call' = [call EXCEPT ![c] = st]
        BY <1>2, <1>9 DEF FetchRoles
    <2>2. C \in Claims /\ (C = Grant => held[call[c].acct] = now)
        BY <1>3, GrantClaims DEF FindRolesByAccountID, Inv, HistoryInv
    <2>3. /\ st \in CallState /\ st.pc = "set" /\ st.acct = call[c].acct
          /\ st.since = call[c].since /\ st.claims = C
          /\ st.checked = call[c].checked /\ st.active = call[c].active
        BY <1>2, <2>2 DEF CallState, PC
    <2> HIDE DEF C, st
    <2>4. CallOK(st)
        BY <1>1, <1>2, <1>3, <2>2, <2>3 DEF CallOK, At
    <2> QED BY <1>4, <2>1, <2>3, <2>4
<1>10. CASE FindAccountByID(c) /\ ~Return(c)
    <2> DEFINE b == IsActive(call[c].acct)
               st == [call[c] EXCEPT !.active = b, !.pc = "room"]
    <2>1. call' = [call EXCEPT ![c] = st]
        BY <1>2, <1>10 DEF FindAccountByID
    <2>2. b \in BOOLEAN /\ (b => lastActive[call[c].acct] = now)
        BY <1>3 DEF IsActive, Inv, HistoryInv
    <2>3. /\ st \in CallState /\ st.pc = "room" /\ st.acct = call[c].acct
          /\ st.since = call[c].since /\ st.checked = call[c].checked /\ st.active = b
        BY <1>2, <2>2 DEF CallState, PC
    <2> HIDE DEF b, st
    <2>4. CallOK(st)
        BY <1>1, <1>2, <1>3, <2>2, <2>3 DEF CallOK, At
    <2> QED BY <1>4, <2>1, <2>3, <2>4
<1>11. CASE GetAccountRoles(c) /\ ~Return(c)
    <2> DEFINE C == RolesOf(call[c].acct)
               st == [call[c] EXCEPT !.claims = C, !.pc = "permissions"]
    <2>1. call' = [call EXCEPT ![c] = st] /\ call[c].pc = "granted"
        BY <1>2, <1>11 DEF GetAccountRoles, At
    <2>2. C \in Claims /\ ("admin" \in C => held[call[c].acct] = now)
        BY <1>3 DEF RolesOf, FindRolesByAccountID, Claims, Inv, HistoryInv
    <2>3. /\ st \in CallState /\ st.pc = "permissions" /\ st.acct = call[c].acct
          /\ st.since = call[c].since /\ st.claims = C
          /\ st.checked = call[c].checked /\ st.active = call[c].active
        BY <1>2, <2>2 DEF CallState, PC
    <2> HIDE DEF C, st
    <2>4. CallOK(st)
        BY <1>1, <1>2, <1>3, <2>1, <2>2, <2>3 DEF CallOK, At
    <2> QED BY <1>4, <2>1, <2>3, <2>4
<1>12. CASE GetAccountPermissions(c) /\ ~Return(c)
    <2> DEFINE P == PermissionsOf(call[c].acct)
               C == call[c].claims \cup P
               st == [call[c] EXCEPT !.claims = C, !.pc = "mint"]
    <2>1. call' = [call EXCEPT ![c] = st] /\ call[c].pc = "permissions"
        BY <1>2, <1>12 DEF GetAccountPermissions, At
    <2>2. C \in Claims
        BY <1>2 DEF PermissionsOf, FindRolesByAccountID, Claims, CallState
    <2>3. /\ st \in CallState /\ st.pc = "mint" /\ st.acct = call[c].acct
          /\ st.since = call[c].since /\ st.claims = C
          /\ st.checked = call[c].checked /\ st.active = call[c].active
        BY <1>2, <2>2 DEF CallState, PC
    <2>4. "admin" \in C => "admin" \in call[c].claims
        BY DEF PermissionsOf
    <2> HIDE DEF C, P, st
    <2>5. CallOK(st)
        BY <1>1, <1>2, <1>3, <2>1, <2>3, <2>4 DEF CallOK, At
    <2> QED BY <1>4, <2>1, <2>3, <2>5
<1> QED BY <1>5, <1>6, <1>7, <1>8, <1>9, <1>10, <1>11, <1>12

\* What every step of a request under way can use.
LEMMA UnderWay ==
    ASSUME Inv, NEW c \in Call, ~At(c, "idle")
    PROVE  /\ call[c] \in CallState /\ call \in [Call -> CallState]
           /\ call[c].acct \in Account /\ call[c].since \in Nat /\ now \in Nat
           /\ call[c].claims \in Claims /\ call[c].active \in BOOLEAN
           /\ held[call[c].acct] \in Nat /\ lastActive[call[c].acct] \in Nat
           /\ call[c].since <= now /\ now <= call[c].since + RequestTimeout
           /\ call[c].checked \/ call[c].active => call[c].since <= lastActive[call[c].acct]
<1>1. TypeOK /\ call \in [Call -> CallState] /\ CallOK(call[c])
    BY DEF Inv, TypeOK, CallsInv
<1>2. call[c] \in CallState
    BY <1>1
<1>3. call[c].acct \in Account
    BY <1>1 DEF CallOK, At
<1> QED BY <1>1, <1>2, <1>3 DEF CallOK, At, CallState, TypeOK

\* An answer moves the request on, when the account was active not long ago.
LEMMA AnswerMoves ==
    ASSUME TypeOK, CallsInv, NEW c \in Call, NEW b \in BOOLEAN, ~At(c, "idle"), Answer(c, b),
           b => now <= lastActive[call[c].acct] + VerdictLag,
           UNCHANGED <<now, history>>
    PROVE  call' \in [Call -> CallState] /\ CallsInv'
<1>1. CASE Return(c)
    BY <1>1, ReturnMoves
<1>2. CASE b /\ Goto(c, "granted")
    <2> DEFINE st == [call[c] EXCEPT !.pc = "granted"]
    <2>1. call[c] \in CallState /\ call \in [Call -> CallState] /\ CallOK(call[c])
        BY DEF TypeOK, CallsInv
    <2>2. /\ st \in CallState /\ st.pc = "granted" /\ st.acct = call[c].acct
          /\ st.since = call[c].since /\ st.checked = call[c].checked
          /\ st.active = call[c].active
        BY <2>1 DEF CallState, PC
    <2>3. call' = [call EXCEPT ![c] = st]
        BY <1>2, <2>1 DEF Goto
    <2>4. /\ call[c].acct \in Account /\ call[c].since \in Nat /\ now \in Nat
          /\ lastActive[call[c].acct] \in Nat /\ call[c].since <= now
        BY <2>1 DEF CallOK, At, CallState, TypeOK
    <2>5. call[c].since <= lastActive[call[c].acct] + VerdictLag
        BY <1>2, <2>4, LagTypes
    <2> HIDE DEF st
    <2>6. CallOK(st)
        BY <2>1, <2>2, <2>5 DEF CallOK, At
    <2> QED BY <2>2, <2>3, <2>6, OneCallMoves
<1> QED BY <1>1, <1>2 DEF Answer

\* The steps that go on, answer or give up without reading anything that is remembered.
LEMMA MoveOnInv ==
    ASSUME Inv, NEW c \in Call,
           AssignRole(c) \/ UnassignRole(c) \/ CacheRoom(c)
    PROVE  Inv'
<1>1. asked' \in Nat /\ UNCHANGED <<now, store, validator, history>> /\ ~At(c, "idle")
    BY DEF AssignRole, UnassignRole, CacheRoom, At, Inv, TypeOK
<1>2. TypeOK /\ CallsInv
    BY DEF Inv
<1>3. CASE Return(c)
    BY <1>1, <1>2, <1>3, ReturnMoves, OnlyCallsMove
<1>4. CASE \E p \in {"assign", "unassign", "store"} : Goto(c, p)
    BY <1>1, <1>2, <1>4, GotoMoves, OnlyCallsMove DEF PC
<1>5. CASE CacheRoom(c) /\ Answer(c, call[c].active)
    <2>1. /\ call[c].active \in BOOLEAN
          /\ call[c].active => now <= lastActive[call[c].acct] + VerdictLag
        <3>1. /\ call[c].since \in Nat /\ now \in Nat /\ lastActive[call[c].acct] \in Nat
              /\ now <= call[c].since + RequestTimeout /\ call[c].active \in BOOLEAN
              /\ call[c].active => call[c].since <= lastActive[call[c].acct]
            BY <1>1, UnderWay
        <3> QED BY <3>1 DEF VerdictLag
    <2>2. call' \in [Call -> CallState] /\ CallsInv'
        BY <1>1, <1>2, <1>5, <2>1, AnswerMoves
    <2> QED BY <1>1, <2>2, OnlyCallsMove
<1> QED BY <1>3, <1>4, <1>5 DEF AssignRole, UnassignRole, CacheRoom

-----------------------------------------------------------------------------
(* The steps that write.                                                   *)

\* The entry that RoleCacheSet writes dates from the request.
LEMMA RoleCacheSetInv ==
    ASSUME Inv, NEW c \in Call, RoleCacheSet(c)
    PROVE  Inv'
<1> DEFINE x == call[c]
           a == x.acct
           st == [call[c] EXCEPT !.pc = "issue"]
<1>1. /\ At(c, "set") /\ ~At(c, "idle")
      /\ UNCHANGED <<now, status, admins, sess, tok, devtok, validator, asked, history>>
    BY DEF RoleCacheSet, At
<1>2. /\ x \in CallState /\ call \in [Call -> CallState] /\ a \in Account /\ x.since \in Nat
      /\ now \in Nat /\ x.claims \in Claims /\ held[a] \in Nat /\ x.since <= now
      /\ now <= x.since + RequestTimeout /\ CallOK(x) /\ TypeOK /\ CallsInv
    BY <1>1, UnderWay DEF Inv, CallsInv
<1>3. x.claims = Grant => x.since <= held[a]
    BY <1>1, <1>2 DEF CallOK, At
<1>4. call' \in [Call -> CallState] /\ CallsInv'
    <2>1. /\ st \in CallState /\ st.pc = "issue" /\ st.acct = a /\ st.since = x.since
          /\ st.claims = x.claims /\ st.checked = x.checked /\ st.active = x.active
        BY <1>2 DEF CallState, PC
    <2>2. call' = [call EXCEPT ![c] = st]
        BY <1>2 DEF RoleCacheSet, Goto
    <2>3. x.since <= held[a] => x.since <= held[a] + ClaimsLag
        BY <1>2 DEF ClaimsLag
    <2>4. CallOK(st)
        BY <1>1, <1>2, <1>3, <2>1, <2>3 DEF CallOK, At
    <2> HIDE DEF st
    <2> QED BY <1>1, <1>2, <2>1, <2>2, <2>4, OneCallMoves
<1>5. CASE rcache' = rcache
    BY <1>1, <1>4, <1>5, OnlyCallsMove DEF store, Inv, TypeOK
<1>6. CASE rcache' = [rcache EXCEPT ![a] = RoleEntry(x.claims)]
    <2> DEFINE e == RoleEntry(x.claims)
    <2>1. e \in RoleRecord /\ e.claims = x.claims /\ e.exp = now + RoleTTL
        BY <1>2 DEF RoleEntry, RoleRecord
    <2> HIDE DEF e
    <2>2. rcache' \in [Account -> RoleRecord]
        BY <1>2, <1>6, <2>1 DEF TypeOK, e
    <2>3. e.claims = Grant => e.exp <= held[a] + RequestTimeout + RoleTTL
        BY <1>2, <1>3, <2>1
    <2>4. \A b \in Account : rcache'[b] = rcache[b] \/ (b = a /\ rcache'[b] = e)
        BY <1>2, <1>6 DEF TypeOK, e
    <2>5. TypeOK'
        BY <1>1, <1>4, <2>2 DEF Inv, TypeOK, validator, history
    <2>6. HistoryInv' /\ CopiesInv'
        BY <1>1, <2>3, <2>4 DEF Inv, HistoryInv, CopiesInv, IsActive, validator, history
    <2> QED BY <1>4, <2>5, <2>6 DEF Inv
<1> QED BY <1>5, <1>6 DEF RoleCacheSet

\* The token that IssueToken hands out dates from the request, and so do its claims.
LEMMA IssueTokenInv ==
    ASSUME Inv, NEW c \in Call, IssueToken(c)
    PROVE  Inv'
<1> DEFINE x == call[c]
           a == x.acct
           C == x.claims
<1>1. /\ At(c, "issue") /\ ~At(c, "idle") /\ x.checked /\ Return(c)
      /\ UNCHANGED <<now, status, admins, devtok, rcache, validator, asked, history>>
    BY DEF IssueToken, At
<1>2. /\ a \in Account /\ x.since \in Nat /\ now \in Nat /\ C \in Claims
      /\ held[a] \in Nat /\ lastActive[a] \in Nat
      /\ now <= x.since + RequestTimeout /\ x.since <= lastActive[a]
      /\ CallOK(x) /\ TypeOK /\ CallsInv
    BY <1>1, UnderWay DEF Inv, CallsInv
<1>3. C = Grant => x.since <= held[a] + ClaimsLag
    BY <1>1, <1>2 DEF CallOK, At
<1>4. call' \in [Call -> CallState] /\ CallsInv'
    BY <1>1, <1>2, ReturnMoves
<1>5. CASE UNCHANGED <<tok, sess>>
    BY <1>1, <1>4, <1>5, OnlyCallsMove DEF store, Inv, TypeOK
<1>6. CASE tok' = [tok EXCEPT ![a][C] = now + AccessTTL] /\ sess' = sess \cup {a}
    <2>1. tok \in [Account -> [Claims -> Nat]]
        BY <1>2 DEF TypeOK
    <2>2. tok' \in [Account -> [Claims -> Nat]]
        BY <1>2, <1>6, <2>1
    <2>3. \A b \in Account : \/ tok'[b][Grant] = tok[b][Grant]
                             \/ b = a /\ C = Grant /\ tok'[b][Grant] = now + AccessTTL
        BY <1>2, <1>6, <2>1, GrantClaims
    <2>4. /\ C = Grant => now + AccessTTL <= held[a] + ClaimsLag + RequestTimeout + AccessTTL
          /\ now + AccessTTL <= lastActive[a] + VerdictLag + RequestTimeout + AccessTTL
        BY <1>2, <1>3, LagTypes
    <2>5. TypeOK'
        BY <1>1, <1>2, <1>4, <1>6, <2>2 DEF TypeOK, validator, history
    <2>6. HistoryInv' /\ CopiesInv'
        BY <1>1, <2>3, <2>4 DEF Inv, HistoryInv, CopiesInv, IsActive, validator, history
    <2> QED BY <1>4, <2>5, <2>6 DEF Inv
<1> QED BY <1>5, <1>6 DEF IssueToken

\* So does the token of a grant, whose verdict may have been cached before.
LEMMA GrantTokenInv ==
    ASSUME Inv, NEW c \in Call, GrantSessionToken(c) \/ GrantDeviceToken(c)
    PROVE  Inv'
<1> DEFINE x == call[c]
           a == x.acct
           C == x.claims
           new == now + AccessTTL
<1>1. /\ At(c, "mint") /\ ~At(c, "idle") /\ Return(c)
      /\ UNCHANGED <<now, status, admins, sess, rcache, validator, asked, history>>
    BY DEF GrantSessionToken, GrantDeviceToken, At
<1>2. /\ a \in Account /\ x.since \in Nat /\ now \in Nat /\ C \in Claims
      /\ held[a] \in Nat /\ lastActive[a] \in Nat
      /\ now <= x.since + RequestTimeout /\ CallOK(x) /\ TypeOK /\ CallsInv
    BY <1>1, UnderWay DEF Inv, CallsInv
<1>3. /\ C = Grant => x.since <= held[a]
      /\ x.since <= lastActive[a] + VerdictLag
    BY <1>1, <1>2 DEF CallOK, At, Grant
<1>4. call' \in [Call -> CallState] /\ CallsInv'
    BY <1>1, <1>2, ReturnMoves
<1>5. /\ C = Grant => new <= held[a] + ClaimsLag + RequestTimeout + AccessTTL
      /\ new <= lastActive[a] + VerdictLag + RequestTimeout + AccessTTL
    BY <1>2, <1>3, LagTypes
<1>6. tok \in [Account -> [Claims -> Nat]] /\ devtok \in [Account -> [Claims -> Nat]]
    BY <1>2 DEF TypeOK
<1>7. \/ tok' = tok /\ devtok' = devtok
      \/ tok' = [tok EXCEPT ![a][C] = new] /\ devtok' = devtok
      \/ tok' = tok /\ devtok' = [devtok EXCEPT ![a][C] = new]
    BY DEF GrantSessionToken, GrantDeviceToken
<1>8. tok' \in [Account -> [Claims -> Nat]] /\ devtok' \in [Account -> [Claims -> Nat]]
    <2>1. new \in Nat
        BY <1>2
    <2> HIDE DEF new
    <2>2. \A f \in [Account -> [Claims -> Nat]] :
              [f EXCEPT ![a][C] = new] \in [Account -> [Claims -> Nat]]
        BY <1>2, <2>1
    <2>3. CASE tok' = tok /\ devtok' = devtok
        BY <1>6, <2>3
    <2>4. CASE tok' = [tok EXCEPT ![a][C] = new] /\ devtok' = devtok
        BY <1>6, <2>2, <2>4
    <2>5. CASE tok' = tok /\ devtok' = [devtok EXCEPT ![a][C] = new]
        BY <1>6, <2>2, <2>5
    <2> QED BY <1>7, <2>3, <2>4, <2>5
<1>9. \A b \in Account :
          /\ \/ tok'[b][Grant] = tok[b][Grant]
             \/ b = a /\ C = Grant /\ tok'[b][Grant] = new
          /\ \/ devtok'[b][Grant] = devtok[b][Grant]
             \/ b = a /\ C = Grant /\ devtok'[b][Grant] = new
    BY <1>2, <1>6, <1>7, GrantClaims
<1> HIDE DEF new
<1>10. TypeOK'
    BY <1>1, <1>2, <1>4, <1>8 DEF TypeOK, validator, history
<1>11. HistoryInv' /\ CopiesInv'
    BY <1>1, <1>5, <1>9 DEF Inv, HistoryInv, CopiesInv, IsActive, validator, history
<1> QED BY <1>4, <1>10, <1>11 DEF Inv

\* The role is given: that only postpones when it was last held.
LEMMA AssignRoleToAccountInv ==
    ASSUME Inv, NEW c \in Call, AssignRoleToAccount(c)
    PROVE  Inv'
<1> DEFINE a == call[c].acct
<1>1. /\ ~At(c, "idle") /\ Goto(c, "invalidate")
      /\ admins' = admins \cup {a} /\ held' = [held EXCEPT ![a] = now]
      /\ UNCHANGED <<now, status, sess, tok, devtok, rcache, validator, asked, lastActive>>
    BY DEF AssignRoleToAccount, At
<1>2. a \in Account /\ call \in [Call -> CallState] /\ call[c] \in CallState
    BY <1>1, UnderWay
<1>3. /\ TypeOK /\ HistoryInv /\ CallsInv /\ CopiesInv /\ now \in Nat
      /\ held \in [Account -> Nat] /\ lastActive \in [Account -> Nat]
    BY DEF Inv, TypeOK
<1>4. /\ held' \in [Account -> Nat]
      /\ \A b \in Account : held[b] <= held'[b] /\ held'[b] <= now
      /\ held'[a] = now /\ \A b \in Account : b # a => held'[b] = held[b]
    BY <1>1, <1>2, <1>3 DEF HistoryInv
<1> DEFINE st == [call[c] EXCEPT !.pc = "invalidate"]
<1>5. /\ st \in CallState /\ st.pc = "invalidate" /\ st.acct = a /\ st.since = call[c].since
      /\ st.checked = call[c].checked /\ st.active = call[c].active
      /\ call' = [call EXCEPT ![c] = st]
    BY <1>1, <1>2 DEF CallState, PC, Goto
<1> HIDE DEF st
<1>6. call' \in [Call -> CallState]
    BY <1>2, <1>5
<1>7. CallsInv'
    <2> SUFFICES ASSUME NEW d \in Call PROVE CallOK(call[d])'
        BY DEF CallsInv
    <2>1. CallOK(call[d]) /\ CallOK(call[c]) /\ call[d] \in CallState
        BY <1>2, <1>3 DEF CallsInv
    <2>2. CASE d = c
        BY <1>1, <1>2, <1>5, <2>1, <2>2 DEF CallOK, At
    <2>3. CASE d # c
        <3>1. call'[d] = call[d]
            BY <1>2, <1>5, <2>3
        <3>2. ASSUME call[d].pc # "idle" PROVE call[d].acct \in Account /\ call[d].since \in Nat
            BY <2>1, <3>2 DEF CallOK, CallState
        <3> QED BY <1>1, <1>3, <1>4, <2>1, <3>1, <3>2, LagTypes DEF CallOK
    <2> QED BY <2>2, <2>3
<1>8. TypeOK'
    BY <1>1, <1>2, <1>3, <1>4, <1>6 DEF TypeOK, validator
<1>9. HistoryInv'
    BY <1>1, <1>2, <1>3, <1>4 DEF HistoryInv, IsActive
<1>10. CopiesInv'
    <2>1. \A b \in Account :
              rcache[b].exp \in Nat /\ tok[b][Grant] \in Nat /\ devtok[b][Grant] \in Nat
        BY <1>3, GrantClaims DEF TypeOK, RoleRecord
    <2> QED BY <1>1, <1>3, <1>4, <2>1, LagTypes DEF CopiesInv, validator
<1> QED BY <1>7, <1>8, <1>9, <1>10 DEF Inv

\* The role or the status is taken away: what was last true stays so.
LEMMA TakenAwayInv ==
    ASSUME Inv, NEW c \in Call,
           RemoveRoleFromAccount(c) \/ SuspendAccount(c) \/ SoftDeleteAccount(c)
    PROVE  Inv'
<1> DEFINE a == call[c].acct
<1>1. /\ ~At(c, "idle") /\ UNCHANGED <<now, sess, tok, devtok, rcache, validator, asked, history>>
      /\ Return(c) \/ \E p \in {"invalidate", "revoke"} : Goto(c, p)
    BY DEF RemoveRoleFromAccount, SuspendAccount, SoftDeleteAccount, At
<1>2. a \in Account
    BY <1>1, UnderWay
<1>3. TypeOK /\ HistoryInv /\ CallsInv /\ CopiesInv
    BY DEF Inv
<1>4. call' \in [Call -> CallState] /\ CallsInv'
    <2>1. CASE Return(c)
        BY <1>1, <1>3, <2>1, ReturnMoves
    <2>2. CASE \E p \in {"invalidate", "revoke"} : Goto(c, p)
        BY <1>1, <1>3, <2>2, GotoMoves DEF PC
    <2> QED BY <1>1, <2>1, <2>2
<1>5. admins' \subseteq admins
    BY DEF RemoveRoleFromAccount, SuspendAccount, SoftDeleteAccount, SoftDeleteRolesByAccountID
<1>6. status' = status \/ \E s \in {"suspended", "deleted"} : status' = [status EXCEPT ![a] = s]
    BY DEF RemoveRoleFromAccount, SuspendAccount, SoftDeleteAccount, Transition,
           SoftDeleteAccountByID
<1>7. /\ status' \in [Account -> {"active", "suspended", "deleted"}]
      /\ \A b \in Account : status'[b] = "active" => status[b] = "active"
    BY <1>2, <1>3, <1>6 DEF TypeOK
<1>8. TypeOK'
    BY <1>1, <1>3, <1>4, <1>5, <1>7 DEF TypeOK, validator, history
<1>9. HistoryInv' /\ CopiesInv'
    BY <1>1, <1>3, <1>5, <1>7 DEF HistoryInv, CopiesInv, IsActive, validator, history
<1> QED BY <1>4, <1>8, <1>9 DEF Inv

\* Removing an entry of the role cache leaves nothing to date.
LEMMA InvalidateRoleCacheInv ==
    ASSUME Inv, NEW c \in Call, InvalidateRoleCache(c)
    PROVE  Inv'
<1> DEFINE a == call[c].acct
<1>1. /\ ~At(c, "idle") /\ Return(c)
      /\ UNCHANGED <<now, status, admins, sess, tok, devtok, validator, asked, history>>
    BY DEF InvalidateRoleCache, At
<1>2. a \in Account /\ TypeOK /\ CallsInv
    BY <1>1, UnderWay DEF Inv
<1>3. call' \in [Call -> CallState] /\ CallsInv'
    BY <1>1, <1>2, ReturnMoves
<1>4. NoRoles \in RoleRecord /\ NoRoles.claims # Grant
    BY GrantClaims DEF NoRoles, RoleRecord
<1>5. \A b \in Account : rcache'[b] \in {rcache[b], NoRoles}
    BY <1>2 DEF InvalidateRoleCache, TypeOK
<1>6. rcache' \in [Account -> RoleRecord]
    BY <1>2, <1>4 DEF InvalidateRoleCache, TypeOK
<1>7. TypeOK'
    BY <1>1, <1>2, <1>3, <1>6 DEF TypeOK, validator, history
<1>8. HistoryInv' /\ CopiesInv'
    BY <1>1, <1>4, <1>5 DEF Inv, HistoryInv, CopiesInv, IsActive, validator, history
<1> QED BY <1>3, <1>7, <1>8 DEF Inv

\* An account is activated again: that only postpones when it was last active.
LEMMA ActivateAccountInv ==
    ASSUME Inv, NEW c \in Call, ActivateAccount(c)
    PROVE  Inv'
<1> DEFINE a == call[c].acct
<1>1. /\ ~At(c, "idle") /\ Return(c)
      /\ UNCHANGED <<now, admins, sess, tok, devtok, rcache, validator, asked, held>>
    BY DEF ActivateAccount, At
<1>2. a \in Account /\ call \in [Call -> CallState]
    BY <1>1, UnderWay
<1>3. /\ TypeOK /\ HistoryInv /\ CallsInv /\ CopiesInv /\ now \in Nat
      /\ held \in [Account -> Nat] /\ lastActive \in [Account -> Nat]
    BY DEF Inv, TypeOK
<1>4. CASE UNCHANGED <<status, lastActive>>
    <2>1. call' \in [Call -> CallState] /\ CallsInv'
        BY <1>1, <1>3, <1>4, ReturnMoves DEF history
    <2> QED BY <1>1, <1>3, <1>4, <2>1, OnlyCallsMove DEF store, history, TypeOK
<1>5. CASE /\ status' = [status EXCEPT ![a] = "active"]
           /\ lastActive' = [lastActive EXCEPT ![a] = now]
    <2>1. /\ lastActive' \in [Account -> Nat]
          /\ \A b \in Account : lastActive[b] <= lastActive'[b] /\ lastActive'[b] <= now
          /\ lastActive'[a] = now /\ \A b \in Account : b # a => lastActive'[b] = lastActive[b]
        BY <1>2, <1>3, <1>5 DEF HistoryInv
    <2>2. call' \in [Call -> CallState]
        BY <1>1, <1>2, DefaultCall DEF Return
    <2>3. CallsInv'
        <3> SUFFICES ASSUME NEW d \in Call PROVE CallOK(call[d])'
            BY DEF CallsInv
        <3>1. CallOK(call[d]) /\ call[d] \in CallState
            BY <1>2, <1>3 DEF CallsInv
        <3>2. call'[d] = NoCall \/ call'[d] = call[d]
            BY <1>1, <1>2 DEF Return
        <3>3. ASSUME call[d].pc # "idle" PROVE call[d].acct \in Account /\ call[d].since \in Nat
            BY <3>1, <3>3 DEF CallOK, CallState
        <3> QED BY <1>1, <1>3, <2>1, <3>1, <3>2, <3>3, DefaultCall, LagTypes DEF CallOK
    <2>4. TypeOK'
        BY <1>1, <1>2, <1>3, <1>5, <2>1, <2>2 DEF TypeOK, validator
    <2>5. HistoryInv'
        BY <1>1, <1>2, <1>3, <1>5, <2>1 DEF HistoryInv, IsActive, TypeOK
    <2>6. CopiesInv'
        <3>1. \A b \in Account :
                  vcache[b].exp \in Nat /\ tok[b][Grant] \in Nat /\ devtok[b][Grant] \in Nat
            BY <1>3, GrantClaims DEF TypeOK, ValidatorResult
        <3> QED BY <1>1, <1>3, <2>1, <3>1, LagTypes DEF CopiesInv, validator
    <2> QED BY <2>3, <2>4, <2>5, <2>6 DEF Inv
<1> QED BY <1>4, <1>5 DEF ActivateAccount, Transition

\* Revoking the sessions of an account removes its tokens.
LEMMA RevokeAllForAccountInv ==
    ASSUME Inv, NEW c \in Call, RevokeAllForAccount(c)
    PROVE  Inv'
<1> DEFINE a == call[c].acct
<1>1. ~At(c, "idle") /\ UNCHANGED <<now, status, admins, devtok, rcache, validator, asked, history>>
    BY DEF RevokeAllForAccount, At
<1>2. a \in Account /\ call \in [Call -> CallState] /\ TypeOK /\ CallsInv
    BY <1>1, UnderWay DEF Inv
<1>3. CASE Return(c) /\ UNCHANGED <<sess, tok>>
    <2>1. call' \in [Call -> CallState] /\ CallsInv'
        BY <1>1, <1>2, <1>3, ReturnMoves
    <2> QED BY <1>1, <1>2, <1>3, <2>1, OnlyCallsMove DEF store, TypeOK
<1>4. CASE RevokeSessions(c)
    <2>1. ASSUME NEW d \in Call
          PROVE  call'[d] \in CallState /\ CallOK(call[d])'
        <3>1. call[d] \in CallState /\ CallOK(call[d])
            BY <1>2 DEF CallsInv
        <3>2. CASE call'[d] = NoCall
            BY <3>2, DefaultCall DEF CallOK
        <3>3. CASE call'[d] = call[d]
            BY <1>1, <3>1, <3>3 DEF CallOK, history
        <3>4. CASE call'[d] = [call[d] EXCEPT !.alive = FALSE]
            <4>1. /\ call'[d] \in CallState /\ call'[d].pc = call[d].pc
                  /\ call'[d].acct = call[d].acct /\ call'[d].since = call[d].since
                  /\ call'[d].checked = call[d].checked /\ call'[d].active = call[d].active
                  /\ call'[d].claims = call[d].claims
                BY <3>1, <3>4 DEF CallState
            <4> QED BY <1>1, <3>1, <4>1 DEF CallOK, history
        <3> QED BY <1>4, <3>1, <3>2, <3>3, <3>4 DEF RevokeSessions
    <2>2. call' \in [Call -> CallState] /\ CallsInv'
        BY <1>4, <2>1 DEF RevokeSessions, CallsInv
    <2>3. tok' \in [Account -> [Claims -> Nat]] /\ sess' \subseteq Account
        BY <1>2, <1>4 DEF RevokeSessions, TypeOK
    <2>4. \A b \in Account : tok'[b][Grant] = tok[b][Grant] \/ tok'[b][Grant] = 0
        BY <1>2, <1>4, GrantClaims DEF RevokeSessions, TypeOK
    <2>5. TypeOK'
        BY <1>1, <1>2, <2>2, <2>3 DEF TypeOK, validator, history
    <2>6. HistoryInv'
        BY <1>1 DEF Inv, HistoryInv, IsActive, history
    <2>7. CopiesInv'
        <3>1. \A b \in Account : held[b] \in Nat /\ lastActive[b] \in Nat
            BY <1>2 DEF TypeOK
        <3> QED BY <1>1, <2>4, <3>1, LagTypes DEF Inv, CopiesInv, validator, history
    <2> QED BY <2>2, <2>5, <2>6, <2>7 DEF Inv
<1> QED BY <1>3, <1>4 DEF RevokeAllForAccount

\* Removing expired entries of the validator's cache leaves nothing to date; its size,
\* which may be too small, does not go below zero.
LEMMA IsAccountActiveInv ==
    ASSUME Inv, NEW c \in Call, IsAccountActive(c)
    PROVE  Inv'
<1> DEFINE old == {b \in Account : vcache[b] # NoResult /\ now > vcache[b].exp}
<1>1. TypeOK /\ CallsInv /\ cacheSize \in Nat /\ now \in Nat
    BY DEF Inv, TypeOK
<1>2. PICK a \in Account :
          /\ Arrive(c)
          /\ call' = [call EXCEPT ![c] = [Begun(a, "lookup") EXCEPT !.alive = a \in sess]]
          /\ UNCHANGED <<now, store, history>>
    BY DEF IsAccountActive
<1>3. call' \in [Call -> CallState] /\ CallsInv'
    <2> DEFINE b == a \in sess
               st == [Begun(a, "lookup") EXCEPT !.alive = b]
    <2>1. "lookup" \in PC /\ b \in BOOLEAN
        BY DEF PC
    <2>2. /\ Begun(a, "lookup") \in CallState /\ Begun(a, "lookup").pc = "lookup"
          /\ Begun(a, "lookup").acct = a /\ Begun(a, "lookup").since = now
          /\ ~Begun(a, "lookup").checked /\ ~Begun(a, "lookup").active
        BY <1>1, <2>1, BegunCall
    <2> HIDE DEF b
    <2>3. /\ st \in CallState /\ st.pc = "lookup" /\ st.acct = a /\ st.since = now
          /\ ~st.checked /\ ~st.active
        BY <2>1, <2>2 DEF CallState
    <2>4. CallOK(st)
        BY <1>1, <2>3 DEF CallOK
    <2>5. call' = [call EXCEPT ![c] = st]
        BY <1>2 DEF b
    <2> HIDE DEF st
    <2> QED BY <1>1, <1>2, <2>3, <2>4, <2>5, OneCallMoves
<1>4. asked' \in Nat
    BY <1>1, <1>2 DEF Arrive, TypeOK
<1>5. CASE UNCHANGED validator
    BY <1>2, <1>3, <1>4, <1>5, OnlyCallsMove
<1>6. CASE /\ vcache' = [b \in Account |-> IF b \in old THEN NoResult ELSE vcache[b]]
           /\ cacheSize' = cacheSize - Min({cacheSize, Cardinality(old)})
           /\ lastCleanup' = now
    <2>1. Cardinality(old) \in Nat
        BY FS_Subset, FS_CardinalityType
    <2> DEFINE n == Cardinality(old)
               m == Min({cacheSize, n})
    <2> HIDE DEF old
    <2>2. \E x \in {cacheSize, n} : \A y \in {cacheSize, n} : x <= y
        BY <1>1, <2>1
    <2>3. m \in {cacheSize, n} /\ m <= cacheSize
        BY <2>2 DEF Min
    <2>4. cacheSize' \in Nat
        BY <1>1, <1>6, <2>1, <2>3
    <2>5. NoResult \in ValidatorResult /\ ~NoResult.active
        BY DEF NoResult, ValidatorResult
    <2>6. \A b \in Account : vcache'[b] \in {vcache[b], NoResult}
        BY <1>6
    <2>7. vcache' \in [Account -> ValidatorResult]
        BY <1>1, <1>6, <2>5 DEF TypeOK
    <2>8. TypeOK'
        BY <1>1, <1>2, <1>3, <1>4, <1>6, <2>4, <2>7 DEF TypeOK, store, history
    <2>9. HistoryInv' /\ CopiesInv'
        BY <1>2, <2>5, <2>6 DEF Inv, HistoryInv, CopiesInv, IsActive, store, history
    <2> QED BY <1>3, <2>8, <2>9 DEF Inv
<1> QED BY <1>5, <1>6 DEF IsAccountActive

\* Looking an answer up removes at most an entry.
LEMMA CacheLookupInv ==
    ASSUME Inv, NEW c \in Call, CacheLookup(c)
    PROVE  Inv'
<1> DEFINE a == call[c].acct
           b == vcache[a] # NoResult
           st == [call[c] EXCEPT !.pc = "account", !.replacing = b]
<1>1. At(c, "lookup") /\ ~At(c, "idle") /\ UNCHANGED <<now, store, cacheSize, lastCleanup, asked, history>>
    BY DEF CacheLookup, At
<1>2. /\ a \in Account /\ call[c] \in CallState /\ call \in [Call -> CallState]
      /\ TypeOK /\ CallsInv /\ CallOK(call[c])
    BY <1>1, UnderWay DEF Inv, CallsInv
<1>3. CASE CacheFresh(a) /\ Answer(c, vcache[a].active) /\ UNCHANGED vcache
    <2>0. vcache[a].active \in BOOLEAN
          /\ (vcache[a].active => now <= lastActive[a] + VerdictLag)
        BY <1>2, <1>3 DEF Inv, CopiesInv, CacheFresh, TypeOK, ValidatorResult, VerdictLag
    <2>1. call' \in [Call -> CallState] /\ CallsInv'
        BY <1>1, <1>2, <1>3, <2>0, AnswerMoves
    <2> QED BY <1>1, <1>2, <1>3, <2>1, OnlyCallsMove DEF validator, TypeOK
<1>4. CASE /\ vcache' = [vcache EXCEPT ![a] = NoResult]
           /\ call' = [call EXCEPT ![c].pc = "account", ![c].replacing = b]
    <2>1. /\ st \in CallState /\ st.pc = "account" /\ st.acct = a /\ st.since = call[c].since
          /\ st.checked = call[c].checked /\ st.active = call[c].active
        BY <1>2 DEF CallState, PC
    <2>2. call' = [call EXCEPT ![c] = st]
        BY <1>2, <1>4
    <2> HIDE DEF st
    <2>3. CallOK(st)
        BY <1>1, <1>2, <2>1 DEF CallOK, At
    <2>4. call' \in [Call -> CallState] /\ CallsInv'
        BY <1>1, <1>2, <2>1, <2>2, <2>3, OneCallMoves
    <2>5. NoResult \in ValidatorResult /\ ~NoResult.active
        BY DEF NoResult, ValidatorResult
    <2>6. \A x \in Account : vcache'[x] \in {vcache[x], NoResult}
        BY <1>2, <1>4 DEF TypeOK
    <2>7. vcache' \in [Account -> ValidatorResult]
        BY <1>2, <1>4, <2>5 DEF TypeOK
    <2>8. TypeOK'
        BY <1>1, <1>2, <2>4, <2>7 DEF TypeOK, store, history
    <2>9. HistoryInv' /\ CopiesInv'
        BY <1>1, <2>5, <2>6 DEF Inv, HistoryInv, CopiesInv, IsActive, store, history
    <2> QED BY <2>4, <2>8, <2>9 DEF Inv
<1> QED BY <1>3, <1>4 DEF CacheLookup

\* The entry that CacheStore writes dates from the request.
LEMMA CacheStoreInv ==
    ASSUME Inv, NEW c \in Call, CacheStore(c)
    PROVE  Inv'
<1> DEFINE x == call[c]
           a == x.acct
           e == [active |-> x.active, exp |-> now + ValidatorTTL]
<1>1. ~At(c, "idle") /\ Answer(c, x.active) /\ vcache' = [vcache EXCEPT ![a] = e]
      /\ UNCHANGED <<now, store, lastCleanup, asked, history>>
    BY DEF CacheStore, At
<1>2. /\ a \in Account /\ x.since \in Nat /\ now \in Nat /\ x.active \in BOOLEAN
      /\ lastActive[a] \in Nat /\ now <= x.since + RequestTimeout
      /\ x.active => x.since <= lastActive[a]
      /\ TypeOK /\ CallsInv
    BY <1>1, UnderWay DEF Inv
<1>3. call' \in [Call -> CallState] /\ CallsInv'
    <2>1. x.active => now <= lastActive[a] + VerdictLag
        BY <1>2 DEF VerdictLag
    <2> QED BY <1>1, <1>2, <2>1, AnswerMoves
<1>4. cacheSize' \in Nat
    BY <1>2 DEF CacheStore, TypeOK
<1>5. e \in ValidatorResult /\ e.active = x.active /\ e.exp = now + ValidatorTTL
    BY <1>2 DEF ValidatorResult
<1> HIDE DEF e
<1>6. e.active => e.exp <= lastActive[a] + RequestTimeout + ValidatorTTL
    BY <1>2, <1>5
<1>7. /\ vcache' \in [Account -> ValidatorResult]
      /\ \A b \in Account : vcache'[b] = vcache[b] \/ (b = a /\ vcache'[b] = e)
    BY <1>1, <1>2, <1>5 DEF TypeOK
<1>8. TypeOK'
    BY <1>1, <1>2, <1>3, <1>4, <1>7 DEF TypeOK, store, history
<1>9. HistoryInv' /\ CopiesInv'
    BY <1>1, <1>6, <1>7 DEF Inv, HistoryInv, CopiesInv, IsActive, store, history
<1> QED BY <1>3, <1>8, <1>9 DEF Inv

\* Time passes only while every request is in time.
LEMMA TickInv ==
    ASSUME Inv, Tick
    PROVE  Inv'
<1>1. /\ TypeOK /\ HistoryInv /\ CallsInv /\ CopiesInv /\ now \in Nat
      /\ held \in [Account -> Nat] /\ lastActive \in [Account -> Nat]
    BY DEF Inv, TypeOK
<1>2. now' = now + 1 /\ UNCHANGED <<store, validator, call, asked>>
    BY DEF Tick
<1>3. /\ held' \in [Account -> Nat] /\ lastActive' \in [Account -> Nat]
      /\ \A a \in Account : held[a] <= held'[a] /\ lastActive[a] <= lastActive'[a]
    BY <1>1 DEF Tick, HistoryInv
<1>4. TypeOK'
    BY <1>1, <1>2, <1>3 DEF TypeOK, store, validator
<1>5. HistoryInv'
    BY <1>1, <1>2 DEF Tick, HistoryInv, IsActive, store
<1>6. ClaimsLag \in Nat /\ VerdictLag \in Nat
    BY LagTypes
<1>7. CallsInv'
    <2> SUFFICES ASSUME NEW d \in Call, call[d].pc # "idle" PROVE CallOK(call[d])'
        BY <1>2 DEF CallsInv, CallOK
    <2>1. call[d] \in CallState /\ CallOK(call[d]) /\ now + 1 <= call[d].since + RequestTimeout
        BY <1>1 DEF TypeOK, CallsInv, Tick, At
    <2>2. call[d].acct \in Account /\ call[d].since \in Nat
        BY <2>1 DEF CallOK, CallState
    <2> QED BY <1>1, <1>2, <1>3, <1>6, <2>1, <2>2 DEF CallOK
<1>8. CopiesInv'
    <2>1. \A b \in Account : /\ rcache[b].exp \in Nat /\ vcache[b].exp \in Nat
                             /\ tok[b][Grant] \in Nat /\ devtok[b][Grant] \in Nat
        BY <1>1, GrantClaims DEF TypeOK, RoleRecord, ValidatorResult
    <2> QED BY <1>1, <1>2, <1>3, <1>6, <2>1 DEF CopiesInv, store, validator
<1> QED BY <1>4, <1>5, <1>7, <1>8 DEF Inv

-----------------------------------------------------------------------------
(* The theorems.                                                           *)

\* The initial states satisfy the invariant.
LEMMA InitInv == Init => Inv
<1> SUFFICES ASSUME Init PROVE Inv
    OBVIOUS
<1>1. /\ NoRoles \in RoleRecord /\ NoResult \in ValidatorResult
      /\ NoRoles.claims # Grant /\ ~NoResult.active
    BY GrantClaims DEF NoRoles, NoResult, RoleRecord, ValidatorResult
<1>2. /\ tok \in [Account -> [Claims -> Nat]] /\ devtok \in [Account -> [Claims -> Nat]]
      /\ \A a \in Account : tok[a][Grant] \in {0, AccessTTL} /\ devtok[a][Grant] = 0
    BY GrantClaims DEF Init
<1>3. TypeOK
    BY <1>1, <1>2, DefaultCall DEF Init, TypeOK
<1>4. HistoryInv /\ CallsInv
    BY DefaultCall DEF Init, HistoryInv, CallsInv, CallOK
<1>5. CopiesInv
    BY <1>1, <1>2, LagTypes DEF Init, CopiesInv
<1> QED BY <1>3, <1>4, <1>5 DEF Inv

\* The invariant is inductive.
LEMMA NextInv == Inv /\ [Next]_vars => Inv'
<1> SUFFICES ASSUME Inv, [Next]_vars PROVE Inv'
    OBVIOUS
<1>1. CASE UNCHANGED vars
    BY <1>1 DEF vars, store, validator, history, Inv, TypeOK, HistoryInv, CallsInv, CallOK,
                CopiesInv, IsActive
<1> QED BY <1>1, TickInv, ArriveInv, ReadInv, MoveOnInv, RoleCacheSetInv, IssueTokenInv,
           GrantTokenInv, AssignRoleToAccountInv, TakenAwayInv, InvalidateRoleCacheInv, ActivateAccountInv,
           RevokeAllForAccountInv, IsAccountActiveInv, CacheLookupInv, CacheStoreInv
        DEF Next

\* The invariant holds in every reachable state.
LEMMA AlwaysInv == Spec => []Inv
BY InitInv, NextInv, PTL DEF Spec

\* The database, its copies and the requests keep their types; in particular the size
\* that the validator's cache keeps of itself is never negative.
THEOREM PrivilegesTypeCorrect == Spec => []TypeOK
<1>1. Inv => TypeOK
    BY DEF Inv
<1> QED BY <1>1, AlwaysInv, PTL

\* The claims that open the admin API are those of the role, in a token that the parser
\* still accepts.
LEMMA AdmittedByGrant ==
    ASSUME TypeOK, NEW x \in Account, NEW a \in Account, Admitted(x, a)
    PROVE  /\ \E e \in {tok[x][Grant], devtok[x][Grant]} : e \in Nat /\ now < e + Leeway
           /\ now \in Nat /\ held[x] \in Nat /\ lastActive[x] \in Nat
<1>1. PICK C \in Claims : /\ ValidateBearerToken(x, C)
                          /\ "admin" \in C /\ "admin:users:manage" \in C
    BY DEF Admitted, AdminRequiredMiddleware, RequirePermission
<1>2. C = Grant
    BY <1>1 DEF Claims, Grant
<1> QED BY <1>1, <1>2, GrantClaims DEF TypeOK, ValidateBearerToken, Unexpired

\* For all lifetimes: a role that was taken away no longer opens the admin API two request
\* timeouts, one life of a role cache entry, one of an access token and the leeway later.
THEOREM RoleExpires == Spec => []RoleRunsOut
<1>1. ASSUME Inv, NEW x \in Account, NEW a \in Account, Admitted(x, a)
      PROVE  now <= held[x] + 2 * RequestTimeout + (RoleTTL - 1) + (AccessTTL - 1) + Leeway
    <2>1. now \in Nat /\ held[x] \in Nat
        BY <1>1, AdmittedByGrant DEF Inv
    <2>2. PICK e \in {tok[x][Grant], devtok[x][Grant]} : e \in Nat /\ now < e + Leeway
        BY <1>1, AdmittedByGrant DEF Inv
    <2>3. e <= held[x] + ClaimsLag + RequestTimeout + AccessTTL
        BY <1>1, <2>2 DEF Inv, CopiesInv
    <2> QED BY <2>1, <2>2, <2>3 DEF ClaimsLag
<1>2. Inv => RoleRunsOut
    BY <1>1 DEF RoleRunsOut
<1> QED BY <1>2, AlwaysInv, PTL

\* For all lifetimes: the admin API is closed to an account two request timeouts, one life
\* of an entry of the validator's cache, one of an access token and the leeway after it was
\* suspended or deleted, whether or not its sessions could be revoked.
THEOREM SuspensionTakesEffect == Spec => []SuspensionRunsOut
<1>1. ASSUME Inv, NEW x \in Account, NEW a \in Account, Admitted(x, a)
      PROVE  now <= lastActive[x] + 2 * RequestTimeout + (ValidatorTTL - 1) + (AccessTTL - 1)
                        + Leeway
    <2>1. now \in Nat /\ lastActive[x] \in Nat
        BY <1>1, AdmittedByGrant DEF Inv
    <2>2. PICK e \in {tok[x][Grant], devtok[x][Grant]} : e \in Nat /\ now < e + Leeway
        BY <1>1, AdmittedByGrant DEF Inv
    <2>3. e <= lastActive[x] + VerdictLag + RequestTimeout + AccessTTL
        BY <1>1, <2>2 DEF Inv, CopiesInv
    <2> QED BY <2>1, <2>2, <2>3 DEF VerdictLag
<1>2. Inv => SuspensionRunsOut
    BY <1>1 DEF SuspensionRunsOut
<1> QED BY <1>2, AlwaysInv, PTL

\* Only the validator's answers let a request go on as granted.
LEMMA GrantedBy ==
    ASSUME Inv, Next, NEW c \in Call, ~At(c, "granted"), call'[c].pc = "granted"
    PROVE  CacheLookup(c) \/ CacheRoom(c) \/ CacheStore(c)
<1>1. call \in [Call -> CallState] /\ now \in Nat
    BY DEF Inv, TypeOK
<1>2. call'[c] # call[c] /\ call'[c] # NoCall
    BY DefaultCall DEF At
<1>3. ~Tick
    BY <1>2 DEF Tick
<1>4. ASSUME NEW d \in Call, NEW a \in Account, NEW p \in PC \ {"granted"}
      PROVE  /\ call' # [call EXCEPT ![d] = Begun(a, p)]
             /\ call' # [call EXCEPT ![d] = [Begun(a, p) EXCEPT !.alive = TRUE]]
             /\ call' # [call EXCEPT ![d] = [Begun(a, p) EXCEPT !.alive = a \in sess]]
             /\ call' # [call EXCEPT ![d] = [Begun(a, p) EXCEPT !.checked = TRUE]]
    <2>1. Begun(a, p) \in CallState /\ Begun(a, p).pc # "granted"
        BY <1>1, BegunCall
    <2>2. \A st \in CallState : call' = [call EXCEPT ![d] = st] => st.pc = "granted"
        BY <1>1, <1>2 DEF At
    <2> DEFINE b == a \in sess
               s1 == [Begun(a, p) EXCEPT !.alive = TRUE]
               s2 == [Begun(a, p) EXCEPT !.alive = b]
               s3 == [Begun(a, p) EXCEPT !.checked = TRUE]
    <2>3. b \in BOOLEAN
        OBVIOUS
    <2> HIDE DEF b
    <2>4. /\ s1 \in CallState /\ s1.pc = Begun(a, p).pc
          /\ s2 \in CallState /\ s2.pc = Begun(a, p).pc
          /\ s3 \in CallState /\ s3.pc = Begun(a, p).pc
        BY <2>1, <2>3 DEF CallState
    <2> HIDE DEF s1, s2, s3
    <2>5. \A s \in {s1, s2, s3} : call' # [call EXCEPT ![d] = s]
        BY <2>1, <2>2, <2>4
    <2> QED BY <2>1, <2>2, <2>5 DEF s1, s2, s3, b
<1>5. ASSUME NEW d \in Call PROVE ~Return(d)
    BY <1>1, <1>2 DEF Return
<1>6. ASSUME NEW d \in Call, NEW p \in PC \ {"granted"} PROVE ~Goto(d, p)
    BY <1>1 DEF Goto, At, CallState
<1>7. {"session", "get", "lookup", "add", "remove", "suspend", "activate", "delete",
       "find", "issue", "assign", "unassign", "invalidate", "revoke", "store",
       "permissions", "mint"}
          \subseteq PC \ {"granted"}
    BY DEF PC
<1>8. ASSUME NEW d \in Call
      PROVE  /\ ~LoginVerified(d) /\ ~RefreshToken(d) /\ ~AddRole(d) /\ ~RemoveRole(d)
             /\ ~DisableAccount(d) /\ ~EnableAccount(d) /\ ~DeleteAccount(d) /\ ~IsAccountActive(d)
    BY <1>4, <1>7 DEF LoginVerified, RefreshToken, AddRole, RemoveRole, DisableAccount,
       EnableAccount, DeleteAccount, AdminRequest, IsAccountActive
<1>9. ASSUME NEW d \in Call
      PROVE  /\ ~CreateSession(d) /\ ~CheckAccount(d) /\ ~RoleCacheGet(d) /\ ~FetchRoles(d)
             /\ ~FindAccountByID(d) /\ ~GetAccountRoles(d) /\ ~GetAccountPermissions(d)
    BY <1>1, <1>5, <1>6, <1>7 DEF CreateSession, CheckAccount, RoleCacheGet, FetchRoles,
       FindAccountByID, GetAccountRoles, GetAccountPermissions, At, CallState
<1>10. ASSUME NEW d \in Call
       PROVE  /\ ~RoleCacheSet(d) /\ ~IssueToken(d) /\ ~AssignRole(d) /\ ~AssignRoleToAccount(d)
              /\ ~UnassignRole(d) /\ ~RemoveRoleFromAccount(d) /\ ~InvalidateRoleCache(d)
              /\ ~SuspendAccount(d) /\ ~ActivateAccount(d) /\ ~SoftDeleteAccount(d)
              /\ ~GrantSessionToken(d) /\ ~GrantDeviceToken(d)
    BY <1>5, <1>6, <1>7 DEF RoleCacheSet, IssueToken, AssignRole, AssignRoleToAccount,
       UnassignRole, RemoveRoleFromAccount, InvalidateRoleCache, SuspendAccount,
       ActivateAccount, SoftDeleteAccount, GrantSessionToken, GrantDeviceToken
<1>11. ASSUME NEW d \in Call PROVE ~RevokeAllForAccount(d)
    <2>1. RevokeSessions(d) => call'[c] \in {NoCall, call[c], [call[c] EXCEPT !.alive = FALSE]}
        BY DEF RevokeSessions
    <2>2. [call[c] EXCEPT !.alive = FALSE].pc = call[c].pc
        BY <1>1 DEF CallState
    <2> QED BY <1>2, <1>5, <2>1, <2>2 DEF RevokeAllForAccount, At
<1>12. PICK d \in Call : CacheLookup(d) \/ CacheRoom(d) \/ CacheStore(d)
    BY <1>3, <1>8, <1>9, <1>10, <1>11 DEF Next
<1>13. CASE d # c
    <2>1. call'[c] = call[c]
        BY <1>1, <1>12, <1>13 DEF CacheLookup, CacheRoom, CacheStore, Answer, Goto, Return
    <2> QED BY <1>2, <2>1
<1> QED BY <1>12, <1>13

\* For all lifetimes: IsAccountActive lets no request through later than one request
\* timeout and one life of an entry after the account was last active.
THEOREM ValidatorLagBounded == Spec => ValidatorLags
<1> DEFINE Lag(c) == ~At(c, "granted") /\ call'[c].pc = "granted" =>
                         now <= lastActive[call[c].acct] + RequestTimeout + (ValidatorTTL - 1)
<1>1. ASSUME Inv, Next, NEW c \in Call, ~At(c, "granted"), call'[c].pc = "granted"
      PROVE  now <= lastActive[call[c].acct] + RequestTimeout + (ValidatorTTL - 1)
    <2> DEFINE a == call[c].acct
    <2>1. CacheLookup(c) \/ CacheRoom(c) \/ CacheStore(c)
        BY <1>1, GrantedBy
    <2>2. ~At(c, "idle") /\ call \in [Call -> CallState]
        BY <1>1, <2>1 DEF CacheLookup, CacheRoom, CacheStore, At, Inv, TypeOK
    <2>3. /\ a \in Account /\ call[c].since \in Nat /\ now \in Nat /\ lastActive[a] \in Nat
          /\ now <= call[c].since + RequestTimeout
          /\ call[c].active => call[c].since <= lastActive[a]
        BY <1>1, <2>2, UnderWay
    <2>4. ASSUME NEW b, Answer(c, b) PROVE b
        BY <1>1, <2>2, <2>4, DefaultCall DEF Answer, Return
    <2>5. CASE CacheLookup(c)
        <3>1. CASE CacheFresh(a)
            <4>1. vcache[a].active /\ now < vcache[a].exp
                BY <2>4, <2>5, <3>1 DEF CacheLookup, CacheFresh
            <4>2. /\ vcache[a].exp \in Nat
                  /\ vcache[a].exp <= lastActive[a] + RequestTimeout + ValidatorTTL
                BY <1>1, <2>3, <4>1 DEF Inv, TypeOK, ValidatorResult, CopiesInv
            <4> QED BY <2>3, <4>1, <4>2
        <3>2. CASE ~CacheFresh(a)
            <4>1. call' = [call EXCEPT ![c].pc = "account", ![c].replacing = vcache[a] # NoResult]
                BY <2>5, <3>2 DEF CacheLookup
            <4>2. call[c] \in CallState
                BY <2>2
            <4>3. call'[c] = [call[c] EXCEPT !.pc = "account", !.replacing = vcache[a] # NoResult]
                BY <2>2, <4>1
            <4>4. call'[c].pc = "account"
                BY <4>2, <4>3 DEF CallState
            <4> QED BY <1>1, <4>4
        <3> QED BY <3>1, <3>2
    <2>6. CASE CacheRoom(c) \/ CacheStore(c)
        <3>1. ~Goto(c, "store")
            BY <1>1, <2>2 DEF Goto, CallState
        <3>2. call[c].active
            BY <2>4, <2>6, <3>1 DEF CacheRoom, CacheStore
        <3> QED BY <2>3, <3>2
    <2> QED BY <2>1, <2>5, <2>6
<1>2. Inv /\ [Next]_vars => [\A c \in Call : Lag(c)]_vars
    BY <1>1
<1> QED BY <1>2, AlwaysInv, PTL DEF Spec, ValidatorLags
=============================================================================
