------------------------ MODULE RefreshTokensProofs ------------------------
(***************************************************************************)
(* Proofs about RefreshTokens, for any number of tokens, sessions,         *)
(* accounts and requests, any TTLs and any bound of the clock.             *)
(***************************************************************************)
EXTENDS RefreshTokens, TLAPS

\* What the stores look like: only issued tokens have keys or ancestors, a
\* consumed token's key is gone for good, and a family has one session.
StoreInv ==
    /\ \A t \in Token : t \notin issued => rt[t].keyExp = 0 /\ parent[t] = NoToken
    /\ \A u \in Token : parent[u] # NoToken =>
           parent[u] \in issued /\ rt[parent[u]].keyExp = 0
    /\ \A t \in issued : root[t] \in issued /\ rt[t].sid = rt[root[t]].sid
    /\ \A t \in Token : replay[t].tok # NoToken => parent[replay[t].tok] = t
    /\ \A t \in Token : replay[t].tok = NoToken => replay[t].keyExp = 0
    /\ \A t \in Token : rt[t].keyExp <= now + RefreshTTL
    /\ killed \subseteq issued

\* What a request holds: the token it will answer with replaces the one presented.
RequestInv ==
    \A r \in Request :
        /\ req[r].pc # "idle" => req[r].tok \in Token
        /\ req[r].pc = "idle" => req[r].got = NoToken
        /\ req[r].pc \in {"idle", "lock", "vget", "vrev"} => req[r].via = "main"
        /\ req[r].via = "load" /\ req[r].pc \in {"session", "account", "srefresh"}
               => req[r].cur = req[r].got
        /\ req[r].pc \in {"rpvget", "rpvrev"} => req[r].got # NoToken
        /\ req[r].got # NoToken => parent[req[r].got] = req[r].tok

IInv ==
    /\ TypeOK
    /\ StoreInv
    /\ RequestInv
    /\ SingleSuccessor
    /\ OneLivePerFamily
    /\ IndexCoversLiveTokens
    /\ RevokedFamiliesStayDead

USE TTLAssumption, NoValueAssumption

\* The empty stores satisfy the inductive invariant.
LEMMA InitIInv == Init => IInv
<1> SUFFICES ASSUME Init PROVE IInv
    OBVIOUS
<1>1. TypeOK
    BY DEF Init, TypeOK, RefreshToken, ReplayRecord, SessionIndex, RevocationMark,
           RequestState, PC, Kind
<1>2. StoreInv /\ RequestInv
    BY DEF Init, StoreInv, RequestInv
<1>3. SingleSuccessor /\ OneLivePerFamily /\ IndexCoversLiveTokens /\ RevokedFamiliesStayDead
    BY DEF Init, SingleSuccessor, OneLivePerFamily, IndexCoversLiveTokens,
           RevokedFamiliesStayDead, Live
<1> QED BY <1>1, <1>2, <1>3 DEF IInv

\* The parts of IInv that do not mention req or lock.
SharedInv ==
    /\ StoreInv
    /\ SingleSuccessor
    /\ OneLivePerFamily
    /\ IndexCoversLiveTokens
    /\ RevokedFamiliesStayDead

\* A step that touches neither the stores nor the history keeps what is said of them.
LEMMA SharedUnchanged ==
    ASSUME SharedInv, UNCHANGED <<now, stores, history>>
    PROVE  SharedInv'
BY DEF SharedInv, StoreInv, SingleSuccessor, OneLivePerFamily, IndexCoversLiveTokens,
       RevokedFamiliesStayDead, Live, stores, history

\* The handler steps that leave every key but the lock alone.
QuietStep(r) ==
    \/ AcquireLock(r) \/ LockTimeout(r) \/ LockError(r)
    \/ ValidateGet(r) \/ ValidateRevocation(r)
    \/ Reject(r) \/ CheckSession(r) \/ CheckAccount(r) \/ RefreshSession(r)
    \/ RotateGet(r)
    \/ ReplayGet(r) \/ ReplayValidateGet(r) \/ ReplayValidateRevocation(r)
    \/ Mint(r) \/ Unlock(r) \/ ReadError(r) \/ Crash(r)

\* The frame of the quiet steps, from their UNCHANGED conjuncts.
LEMMA QuietFrame ==
    ASSUME NEW r \in Request, QuietStep(r)
    PROVE  UNCHANGED <<now, stores, revAfter, history>>
BY DEF QuietStep, AcquireLock, LockTimeout, LockError, ValidateGet, ValidateRevocation,
       Reject, CheckSession, CheckAccount, RefreshSession, RotateGet, ReplayGet,
       ReplayValidateGet, ReplayValidateRevocation, Mint, Unlock, ReadError, Crash

\* A step that replaces req[r] by a well-formed state keeps the request part.
LEMMA OneRequestMoves ==
    ASSUME req \in [Request -> RequestState], RequestInv,
           NEW r \in Request, NEW st \in RequestState, req' = [req EXCEPT ![r] = st],
           \A q \in Request : q # r /\ req[q].got # NoToken => parent'[req[q].got] = req[q].tok,
           st.pc # "idle", st.tok \in Token,
           st.pc \in {"lock", "vget", "vrev"} => st.via = "main",
           st.via = "load" /\ st.pc \in {"session", "account", "srefresh"} => st.cur = st.got,
           st.pc \in {"rpvget", "rpvrev"} => st.got # NoToken,
           st.got # NoToken => parent'[st.got] = st.tok
    PROVE  req' \in [Request -> RequestState] /\ RequestInv'
<1>1. req' \in [Request -> RequestState]
    OBVIOUS
<1>2. ASSUME NEW q \in Request
      PROVE  /\ req'[q].pc # "idle" => req'[q].tok \in Token
             /\ req'[q].pc = "idle" => req'[q].got = NoToken
             /\ req'[q].pc \in {"idle", "lock", "vget", "vrev"} => req'[q].via = "main"
             /\ req'[q].via = "load" /\ req'[q].pc \in {"session", "account", "srefresh"}
                    => req'[q].cur = req'[q].got
             /\ req'[q].pc \in {"rpvget", "rpvrev"} => req'[q].got # NoToken
             /\ req'[q].got # NoToken => parent'[req'[q].got] = req'[q].tok
    <2>1. CASE q = r
        <3>1. req'[q] = st
            BY <2>1
        <3> QED BY <3>1
    <2>2. CASE q # r
        <3>1. req'[q] = req[q]
            BY <2>2
        <3> QED BY <3>1, <2>2 DEF RequestInv
    <2> QED BY <2>1, <2>2
<1> QED BY <1>1, <1>2 DEF RequestInv

\* The four ways a handler step writes req[r] keep the request part.
LEMMA GotoMoves ==
    ASSUME TypeOK, RequestInv, NEW r \in Request, NEW p \in PC, Goto(r, p),
           \A q \in Request : req[q].got # NoToken => parent'[req[q].got] = req[q].tok,
           req[r].pc # "idle", p # "idle",
           p \in {"lock", "vget", "vrev"} => req[r].via = "main",
           req[r].via = "load" /\ p \in {"session", "account", "srefresh"}
               => req[r].cur = req[r].got,
           p \in {"rpvget", "rpvrev"} => req[r].got # NoToken
    PROVE  req' \in [Request -> RequestState] /\ RequestInv'
<1> DEFINE st == [req[r] EXCEPT !.pc = p]
<1>1. req \in [Request -> RequestState]
    BY DEF TypeOK
<1>2. st \in RequestState /\ st.pc = p /\ st.tok = req[r].tok /\ st.cur = req[r].cur
          /\ st.via = req[r].via /\ st.got = req[r].got
    BY <1>1 DEF RequestState
<1>3. req' = [req EXCEPT ![r] = st]
    BY <1>1 DEF Goto
<1>4. req[r].tok \in Token
    BY DEF RequestInv
<1> HIDE DEF st
<1> QED BY <1>1, <1>2, <1>3, <1>4, OneRequestMoves

\* Answering, with a successor of the presented token or with an error.
LEMMA FinishMoves ==
    ASSUME TypeOK, RequestInv, NEW r \in Request, NEW u \in Token \cup {NoToken},
           Finish(r, u), parent' = parent, req[r].pc # "idle",
           u # NoToken => parent[u] = req[r].tok
    PROVE  req' \in [Request -> RequestState] /\ RequestInv'
<1> DEFINE p == IF req[r].kind = "auth" THEN "unlock" ELSE "done"
           st == [req[r] EXCEPT !.got = u, !.pc = p]
<1>1. req \in [Request -> RequestState] /\ p \in PC /\ p \in {"unlock", "done"}
    BY DEF TypeOK, PC
<1>2. req' = [req EXCEPT ![r] = st]
    BY <1>1 DEF Finish
<1> HIDE DEF p
<1>3. st \in RequestState /\ st.pc = p /\ st.tok = req[r].tok /\ st.got = u
    <2>1. req[r] \in RequestState
        BY <1>1
    <2>2. st \in RequestState
        BY <1>1, <2>1 DEF RequestState
    <2> QED BY <2>1, <2>2 DEF RequestState
<1>4. /\ req[r].tok \in Token
      /\ \A q \in Request : req[q].got # NoToken => parent'[req[q].got] = req[q].tok
    BY DEF RequestInv
<1> HIDE DEF st
<1> QED BY <1>1, <1>2, <1>3, <1>4, OneRequestMoves

\* Taking over the token of a successful RotateRefreshToken.
LEMMA RotatedMoves ==
    ASSUME TypeOK, RequestInv, NEW r \in Request, NEW u \in Token, Rotated(r, u),
           \A q \in Request : req[q].got # NoToken => parent'[req[q].got] = req[q].tok,
           req[r].pc # "idle", parent'[u] = req[r].tok
    PROVE  req' \in [Request -> RequestState] /\ RequestInv'
<1>1. req \in [Request -> RequestState] /\ req[r].tok \in Token
    BY DEF TypeOK, RequestInv
<1>2. CASE req[r].via = "load"
    <2> DEFINE st == [req[r] EXCEPT !.got = u, !.cur = u, !.pc = "session"]
    <2>1. req[r] \in RequestState /\ u \in Token \cup {NoToken} /\ "session" \in PC
        BY <1>1 DEF PC
    <2>2. st \in RequestState
        BY <2>1 DEF RequestState
    <2>3. st.pc = "session" /\ st.tok = req[r].tok /\ st.got = u /\ st.cur = u
        BY <2>1 DEF RequestState
    <2>4. req' = [req EXCEPT ![r] = st]
        BY <1>1, <1>2 DEF Rotated
    <2> HIDE DEF st
    <2> QED BY <1>1, <2>2, <2>3, <2>4, OneRequestMoves
<1>3. CASE req[r].via = "main"
    <2> DEFINE p == IF req[r].kind = "auth" THEN "unlock" ELSE "mint"
               st == [req[r] EXCEPT !.got = u, !.pc = p]
    <2>1. req[r] \in RequestState /\ u \in Token \cup {NoToken} /\ p \in PC
          /\ p \in {"unlock", "mint"}
        BY <1>1 DEF PC
    <2>2. req' = [req EXCEPT ![r] = st]
        BY <1>1, <1>3 DEF Rotated
    <2> HIDE DEF p
    <2>3. st \in RequestState
        BY <2>1 DEF RequestState
    <2>4. st.pc = p /\ st.tok = req[r].tok /\ st.got = u
        BY <2>1 DEF RequestState
    <2> HIDE DEF st
    <2> QED BY <1>1, <2>1, <2>2, <2>3, <2>4, OneRequestMoves
<1> QED BY <1>1, <1>2, <1>3 DEF RequestState

\* Answering with an error, a special case of Finish.
LEMMA FailMoves ==
    ASSUME TypeOK, RequestInv, NEW r \in Request, Fail(r), parent' = parent,
           req[r].pc # "idle"
    PROVE  req' \in [Request -> RequestState] /\ RequestInv'
BY FinishMoves DEF Fail

\* A replay record that still exists names the token that replaced its key's.
LEMMA ReplayNamesSuccessor ==
    ASSUME TypeOK, StoreInv, NEW t \in Token, ReplayLive(t)
    PROVE  replay[t].tok \in Token /\ parent[replay[t].tok] = t
<1>1. now \in Nat /\ replay[t].tok \in Token \cup {NoToken} /\ replay[t].keyExp \in Nat
    BY DEF TypeOK, ReplayRecord
<1>2. replay[t].keyExp # 0
    BY <1>1 DEF ReplayLive
<1>3. replay[t].tok # NoToken
    BY <1>2 DEF StoreInv
<1>4. replay[t].tok # NoToken => parent[replay[t].tok] = t
    BY Zenon DEF StoreInv
<1> QED BY <1>1, <1>3, <1>4

\* Every quiet step keeps the request part of the invariant, one case per step.
LEMMA QuietMoves ==
    ASSUME IInv, NEW r \in Request, QuietStep(r)
    PROVE  req' \in [Request -> RequestState] /\ RequestInv'
<1> USE DEF At
<1>1. TypeOK /\ StoreInv /\ RequestInv /\ parent' = parent
    BY QuietFrame DEF IInv, history
<1> DEFINE Held == \A q \in Request : req[q].got # NoToken => parent'[req[q].got] = req[q].tok
<1>held. Held
    BY <1>1 DEF RequestInv
<1>2. req \in [Request -> RequestState] /\ replay \in [Token -> ReplayRecord]
    BY <1>1 DEF TypeOK
<1>3. /\ req[r].pc # "idle" => req[r].tok \in Token
      /\ req[r].pc \in {"lock", "vget", "vrev"} => req[r].via = "main"
      /\ req[r].via = "load" /\ req[r].pc \in {"session", "account", "srefresh"}
             => req[r].cur = req[r].got
      /\ req[r].pc \in {"rpvget", "rpvrev"} => req[r].got # NoToken
      /\ req[r].got # NoToken => parent[req[r].got] = req[r].tok
      /\ req[r].got \in Token \cup {NoToken}
      /\ req[r].via \in {"load", "main"} /\ req[r].kind \in Kind
    BY <1>1, <1>2 DEF RequestInv, RequestState
<1>4. CASE AcquireLock(r) \/ LockTimeout(r) \/ LockError(r) \/ Unlock(r)
    <2>1. PICK p \in {"vget", "done"} : Goto(r, p) /\ req[r].pc \in {"lock", "unlock"}
                                       /\ (p = "vget" => req[r].pc = "lock")
        BY <1>4 DEF AcquireLock, LockTimeout, LockError, Unlock
    <2> QED BY <1>1, <1>held, <1>3, <2>1, GotoMoves DEF PC
<1>5. CASE ValidateGet(r)
    <2>1. CASE Goto(r, "vrev")
        BY <1>1, <1>held, <1>3, <1>5, <2>1, GotoMoves DEF ValidateGet, PC
    <2>2. CASE Fail(r)
        BY <1>1, <1>5, <2>2, FailMoves DEF ValidateGet
    <2>3. CASE req' = [req EXCEPT ![r].pc = "rget", ![r].via = "load"]
        <3> DEFINE st == [req[r] EXCEPT !.pc = "rget", !.via = "load"]
        <3>1. st \in RequestState /\ st.pc = "rget" /\ st.tok = req[r].tok /\ st.got = req[r].got
            BY <1>2 DEF RequestState, PC
        <3>2. req' = [req EXCEPT ![r] = st]
            BY <1>2, <2>3
        <3>3. req[r].tok \in Token
            BY <1>3, <1>5 DEF ValidateGet
        <3>4. \A q \in Request : req[q].got # NoToken => parent'[req[q].got] = req[q].tok
            BY <1>1 DEF RequestInv
        <3> HIDE DEF st
        <3> QED BY <1>1, <1>2, <3>1, <3>2, <3>3, <3>4, OneRequestMoves
    <2> QED BY <1>5, <2>1, <2>2, <2>3 DEF ValidateGet
<1>6. CASE ValidateRevocation(r)
    <2>1. CASE Fail(r)
        BY <1>1, <1>6, <2>1, FailMoves DEF ValidateRevocation
    <2>2. CASE ~Fail(r)
        <3>1. PICK p \in {"session", "account"} : Goto(r, p)
            BY <1>6, <2>2 DEF ValidateRevocation
        <3> QED BY <1>1, <1>held, <1>3, <1>6, <3>1, GotoMoves DEF ValidateRevocation, PC
    <2> QED BY <2>1, <2>2
<1>7. CASE Reject(r) \/ ReadError(r)
    BY <1>1, <1>7, FailMoves DEF Reject, ReadError
<1>8. CASE CheckSession(r) \/ CheckAccount(r)
    <2>1. CASE Fail(r)
        BY <1>1, <1>8, <2>1, FailMoves DEF CheckSession, CheckAccount
    <2>2. CASE ~Fail(r)
        <3>1. PICK p \in {"account", "srefresh", "rget"} : Goto(r, p)
            BY <1>8, <2>2 DEF CheckSession, CheckAccount
        <3>2. req[r].pc \in {"session", "account"}
            BY <1>8 DEF CheckSession, CheckAccount
        <3> QED BY <1>1, <1>held, <1>3, <3>1, <3>2, GotoMoves DEF PC
    <2> QED BY <2>1, <2>2
<1>9. CASE RefreshSession(r)
    <2>1. req[r].pc = "srefresh"
        BY <1>9 DEF RefreshSession
    <2>2. CASE Fail(r)
        BY <1>1, <2>1, <2>2, FailMoves
    <2>3. CASE Goto(r, "rget")
        BY <1>1, <1>held, <1>3, <2>1, <2>3, GotoMoves DEF PC
    <2>4. CASE req[r].via = "load" /\ Finish(r, req[r].cur)
        <3>1. req[r].cur = req[r].got
            BY <1>3, <2>1, <2>4
        <3> QED BY <1>1, <1>3, <2>1, <2>4, <3>1, FinishMoves
    <2> QED BY <1>9, <2>2, <2>3, <2>4 DEF RefreshSession
<1>10. CASE RotateGet(r)
    <2>1. CASE Goto(r, "rpget")
        BY <1>1, <1>held, <1>3, <1>10, <2>1, GotoMoves DEF RotateGet, PC
    <2>2. CASE req' = [req EXCEPT ![r].pc = "rscript", ![r].created = now]
        <3> DEFINE st == [req[r] EXCEPT !.pc = "rscript", !.created = now]
        <3>1. st \in RequestState /\ st.pc = "rscript" /\ st.tok = req[r].tok /\ st.got = req[r].got
            <4>1. now \in Nat /\ req[r] \in RequestState /\ "rscript" \in PC
                BY <1>1, <1>2 DEF PC, TypeOK
            <4>2. st \in RequestState
                BY <4>1 DEF RequestState
            <4> QED BY <4>1, <4>2 DEF RequestState
        <3>2. req' = [req EXCEPT ![r] = st]
            BY <1>2, <2>2
        <3>3. req[r].tok \in Token
            BY <1>3, <1>10 DEF RotateGet
        <3>4. \A q \in Request : req[q].got # NoToken => parent'[req[q].got] = req[q].tok
            BY <1>1 DEF RequestInv
        <3> HIDE DEF st
        <3> QED BY <1>1, <1>2, <3>1, <3>2, <3>3, <3>4, OneRequestMoves
    <2> QED BY <1>10, <2>1, <2>2 DEF RotateGet
<1>11. CASE ReplayGet(r)
    <2>1. CASE Fail(r)
        BY <1>1, <1>11, <2>1, FailMoves DEF ReplayGet
    <2>2. CASE /\ ReplayLive(req[r].tok)
               /\ req' = [req EXCEPT ![r].pc = "rpvget", ![r].got = replay[req[r].tok].tok]
        <3> DEFINE u == replay[req[r].tok].tok
                   st == [req[r] EXCEPT !.pc = "rpvget", !.got = u]
        <3>1. req[r].tok \in Token
            BY <1>3, <1>11 DEF ReplayGet
        <3>2. u \in Token /\ (u # NoToken => parent[u] = req[r].tok)
            BY <1>1, <2>2, <3>1, ReplayNamesSuccessor
        <3> HIDE DEF u
        <3>3. st \in RequestState /\ st.pc = "rpvget" /\ st.tok = req[r].tok /\ st.got = u
            BY <1>2, <3>2 DEF RequestState, PC
        <3>4. req' = [req EXCEPT ![r] = st]
            BY <1>2, <2>2 DEF u
        <3>5. \A q \in Request : req[q].got # NoToken => parent'[req[q].got] = req[q].tok
            BY <1>1 DEF RequestInv
        <3> HIDE DEF st
        <3> QED BY <1>1, <1>2, <3>1, <3>2, <3>3, <3>4, <3>5, OneRequestMoves
    <2> QED BY <1>11, <2>1, <2>2 DEF ReplayGet
<1>12. CASE ReplayValidateGet(r)
    <2>1. CASE Fail(r)
        BY <1>1, <1>12, <2>1, FailMoves DEF ReplayValidateGet
    <2>2. CASE Goto(r, "rpvrev")
        BY <1>1, <1>held, <1>3, <1>12, <2>2, GotoMoves DEF ReplayValidateGet, PC
    <2> QED BY <1>12, <2>1, <2>2 DEF ReplayValidateGet
<1>13. CASE ReplayValidateRevocation(r)
    <2>1. CASE Fail(r)
        BY <1>1, <1>13, <2>1, FailMoves DEF ReplayValidateRevocation
    <2>2. CASE Rotated(r, req[r].got)
        <3>1. req[r].got \in Token
            BY <1>3, <1>13 DEF ReplayValidateRevocation
        <3>2. \A q \in Request : req[q].got # NoToken => parent'[req[q].got] = req[q].tok
            BY <1>1 DEF RequestInv
        <3> QED BY <1>1, <1>3, <1>13, <2>2, <3>1, <3>2, RotatedMoves
                DEF ReplayValidateRevocation
    <2> QED BY <1>13, <2>1, <2>2 DEF ReplayValidateRevocation
<1>14. CASE Mint(r)
    <2>1. CASE Fail(r)
        BY <1>1, <1>14, <2>1, FailMoves DEF Mint
    <2>2. CASE Finish(r, req[r].got)
        BY <1>1, <1>3, <1>14, <2>2, FinishMoves DEF Mint
    <2> QED BY <1>14, <2>1, <2>2 DEF Mint
<1>15. CASE Crash(r)
    <2> DEFINE st == [req[r] EXCEPT !.pc = "done", !.got = NoToken]
    <2>1. st \in RequestState /\ st.pc = "done" /\ st.tok = req[r].tok /\ st.got = NoToken
        BY <1>2 DEF RequestState, PC
    <2>2. req' = [req EXCEPT ![r] = st]
        BY <1>2, <1>15 DEF Crash
    <2>3. req[r].tok \in Token
        BY <1>3, <1>15 DEF Crash
    <2>4. \A q \in Request : req[q].got # NoToken => parent'[req[q].got] = req[q].tok
        BY <1>1 DEF RequestInv
    <2> HIDE DEF st
    <2> QED BY <1>1, <1>2, <2>1, <2>2, <2>3, <2>4, OneRequestMoves
<1> QED BY <1>4, <1>5, <1>6, <1>7, <1>8, <1>9, <1>10, <1>11, <1>12, <1>13, <1>14, <1>15
        DEF QuietStep

\* IInv after a step, from its parts.
LEMMA IInvSplit == IInv <=> TypeOK /\ SharedInv /\ RequestInv
BY DEF IInv, SharedInv

\* Every quiet step keeps the whole invariant.
LEMMA QuietIInv ==
    ASSUME IInv, NEW r \in Request, QuietStep(r)
    PROVE  IInv'
<1>1. UNCHANGED <<now, stores, revAfter, history>>
    BY QuietFrame
<1>2. SharedInv'
    BY <1>1, IInvSplit, SharedUnchanged
<1>3. req' \in [Request -> RequestState] /\ RequestInv'
    BY QuietMoves
<1>4. lock' \in [Token -> Nat]
    <2>1. now \in Nat /\ lock \in [Token -> Nat] /\ now + LockTTL \in Nat /\ 0 \in Nat
        BY DEF IInv, TypeOK
    <2>2. \/ lock' = lock
          \/ lock' = [lock EXCEPT ![req[r].tok] = now + LockTTL]
          \/ lock' = [lock EXCEPT ![req[r].tok] = 0]
        BY DEF QuietStep, AcquireLock, LockTimeout, LockError, ValidateGet,
               ValidateRevocation, Reject, CheckSession, CheckAccount, RefreshSession,
               RotateGet, ReplayGet, ReplayValidateGet, ReplayValidateRevocation, Mint,
               Unlock, ReadError, Crash
    <2> QED BY <2>1, <2>2
<1>5. TypeOK'
    BY <1>1, <1>3, <1>4 DEF IInv, TypeOK, stores, history
<1> QED BY <1>2, <1>3, <1>5, IInvSplit DEF IInv, SharedInv

\* A new request keeps the invariant.
LEMMA StartIInv ==
    ASSUME IInv, NEW r \in Request, NEW k \in Kind, NEW t \in Token, Start(r, k, t)
    PROVE  IInv'
<1>1. UNCHANGED <<now, stores, revAfter, lock, history>> /\ req[r].pc = "idle"
    BY DEF Start, At
<1>2. SharedInv'
    BY <1>1, IInvSplit, SharedUnchanged
<1>3. req \in [Request -> RequestState] /\ RequestInv /\ parent' = parent
    BY <1>1 DEF IInv, TypeOK, history
<1>4. req' \in [Request -> RequestState] /\ RequestInv'
    <2> DEFINE p == IF k = "auth" THEN "lock" ELSE "vget"
               st == [req[r] EXCEPT !.pc = p, !.kind = k, !.tok = t, !.cur = t]
    <2>1. p \in PC /\ p \in {"lock", "vget"}
        BY DEF PC
    <2> HIDE DEF p
    <2>2. req[r] \in RequestState /\ req[r].got = NoToken /\ req[r].via = "main"
        BY <1>1, <1>3 DEF RequestInv
    <2>3. st \in RequestState
        BY <2>1, <2>2 DEF RequestState
    <2>4. st.pc = p /\ st.tok = t /\ st.got = NoToken /\ st.via = "main"
        BY <2>2 DEF RequestState
    <2>5. req' = [req EXCEPT ![r] = st]
        BY <1>3 DEF Start, p
    <2>6. \A q \in Request : req[q].got # NoToken => parent'[req[q].got] = req[q].tok
        BY <1>3 DEF RequestInv
    <2> HIDE DEF st
    <2> QED BY <1>3, <2>1, <2>3, <2>4, <2>5, <2>6, OneRequestMoves
<1>5. TypeOK'
    BY <1>1, <1>4 DEF IInv, TypeOK, stores, history
<1> QED BY <1>2, <1>4, <1>5, IInvSplit DEF IInv, SharedInv

\* The tokens the requests hold are not disturbed by a rotation of t into u.
LEMMA ConsumeHeld ==
    ASSUME IInv, NEW r \in Request, NEW t \in Token, NEW u \in Token, Consume(r, t, u)
    PROVE  \A q \in Request : req[q].got # NoToken => parent'[req[q].got] = req[q].tok
<1> SUFFICES ASSUME NEW q \in Request, req[q].got # NoToken
             PROVE  parent'[req[q].got] = req[q].tok
    OBVIOUS
<1>1. /\ req[q].tok \in Token /\ req[q].got \in Token
      /\ parent[req[q].got] = req[q].tok
    BY DEF IInv, TypeOK, RequestState, RequestInv
<1>2. parent[u] = NoToken
    BY DEF IInv, StoreInv, Consume
<1>3. req[q].got # u
    BY <1>1, <1>2
<1> QED BY <1>1, <1>3 DEF Consume, IInv, TypeOK

\* rotateTokenScript keeps the store part: the key step of RotationSafe.
LEMMA ConsumeShared ==
    ASSUME IInv, NEW r \in Request, NEW t \in Token, NEW u \in Token, Consume(r, t, u),
           now' = now
    PROVE  /\ SharedInv'
           /\ rt' \in [Token -> RefreshToken] /\ replay' \in [Token -> ReplayRecord]
           /\ sessTok' \in [Session -> SessionIndex] /\ issued' \subseteq Token
           /\ parent' \in [Token -> Token \cup {NoToken}]
           /\ root' \in [Token -> Token \cup {NoToken}] /\ killed' \subseteq Token
<1> DEFINE new == [acct |-> rt[t].acct, sid |-> rt[t].sid, created |-> req[r].created,
                   expiresAt |-> req[r].created + RefreshTTL, keyExp |-> now + RefreshTTL]
<1>1. /\ TypeOK /\ StoreInv /\ SingleSuccessor /\ OneLivePerFamily
      /\ IndexCoversLiveTokens /\ RevokedFamiliesStayDead
    BY DEF IInv
<1>2. /\ now \in Nat /\ rt \in [Token -> RefreshToken] /\ rt[t] \in RefreshToken
      /\ rt[t].keyExp \in Nat /\ req[r].created \in Nat
      /\ now + RefreshTTL \in Nat /\ req[r].created + RefreshTTL \in Nat
      /\ now + ReplayTTL \in Nat /\ issued \subseteq Token
    BY <1>1 DEF TypeOK, RefreshToken, RequestState
<1>3. t \in issued /\ u \notin issued /\ t # u /\ rt[t].keyExp # 0
    <2>1. rt[t].keyExp # 0
        BY <1>2 DEF Consume, Live
    <2> QED BY <1>1, <2>1 DEF Consume, StoreInv
<1>4. new \in RefreshToken /\ new.sid = rt[t].sid /\ new.keyExp = now + RefreshTTL
    BY <1>2 DEF RefreshToken
<1>5. rt' = [rt EXCEPT ![t].keyExp = 0, ![u] = new]
    BY DEF Consume
<1> HIDE DEF new
<1>6. /\ rt' \in [Token -> RefreshToken]
      /\ rt'[u] = new
      /\ rt'[t].keyExp = 0 /\ rt'[t].sid = rt[t].sid
      /\ \A v \in Token \ {t, u} : rt'[v] = rt[v]
    BY <1>2, <1>3, <1>4, <1>5 DEF RefreshToken
<1>7. /\ issued' = issued \cup {u} /\ killed' = killed
      /\ parent' = [parent EXCEPT ![u] = t] /\ root' = [root EXCEPT ![u] = root[t]]
      /\ replay' = [replay EXCEPT ![t] = [tok |-> u, keyExp |-> now + ReplayTTL]]
    BY DEF Consume
<1>8. /\ parent \in [Token -> Token \cup {NoToken}] /\ root \in [Token -> Token \cup {NoToken}]
      /\ replay \in [Token -> ReplayRecord] /\ sessTok \in [Session -> SessionIndex]
      /\ killed \subseteq Token
    BY <1>1 DEF TypeOK
<1>9. /\ parent'[u] = t /\ root'[u] = root[t]
      /\ \A v \in Token \ {u} : parent'[v] = parent[v] /\ root'[v] = root[v]
      /\ replay'[t].tok = u /\ \A v \in Token \ {t} : replay'[v] = replay[v]
    BY <1>7, <1>8
<1>10. /\ parent' \in [Token -> Token \cup {NoToken}] /\ root' \in [Token -> Token \cup {NoToken}]
       /\ replay' \in [Token -> ReplayRecord] /\ issued' \subseteq Token /\ killed' \subseteq Token
    BY <1>2, <1>7, <1>8 DEF ReplayRecord
<1>11. /\ sessTok' \in [Session -> SessionIndex]
       /\ rt[t].sid \in Session =>
              sessTok'[rt[t].sid] = [members |-> (Members(rt[t].sid) \ {t}) \cup {u},
                                     keyExp |-> now + RefreshTTL]
       /\ \A s \in Session : s # rt[t].sid => sessTok'[s] = sessTok[s]
    <2>1. sessTok' = AddToIndex(rt[t].sid, {u}, {t})
        BY DEF Consume
    <2>2. rt[t].sid \in Session \cup {NoSession}
        BY <1>2 DEF RefreshToken
    <2>3. rt[t].sid \in Session => Members(rt[t].sid) \subseteq Token
        BY <1>8 DEF Members, SessionIndex
    <2> QED BY <1>2, <1>8, <2>1, <2>2, <2>3 DEF AddToIndex, SessionIndex
<1>12. StoreInv'
    <2>1. \A v \in Token : v \notin issued' => rt'[v].keyExp = 0 /\ parent'[v] = NoToken
        BY <1>1, <1>3, <1>6, <1>7, <1>9 DEF StoreInv
    <2>2. ASSUME NEW v \in Token, parent'[v] # NoToken
          PROVE  parent'[v] \in issued' /\ rt'[parent'[v]].keyExp = 0
        <3>1. CASE v = u
            BY <1>3, <1>6, <1>7, <1>9, <3>1
        <3>2. CASE v # u
            <4>1. parent'[v] = parent[v] /\ parent[v] \in issued /\ rt[parent[v]].keyExp = 0
                BY <1>1, <1>9, <2>2, <3>2 DEF StoreInv
            <4> QED BY <1>2, <1>3, <1>6, <1>7, <4>1
        <3> QED BY <3>1, <3>2
    <2>3. ASSUME NEW v \in issued'
          PROVE  root'[v] \in issued' /\ rt'[v].sid = rt'[root'[v]].sid
        <3>1. ASSUME NEW w \in issued
              PROVE  root'[w] = root[w] /\ root[w] \in issued /\ rt'[w].sid = rt[w].sid
                     /\ rt[w].sid = rt[root[w]].sid
            BY <1>1, <1>2, <1>3, <1>6, <1>9 DEF StoreInv
        <3>2. CASE v = u
            BY <1>3, <1>4, <1>6, <1>7, <1>9, <3>1, <3>2
        <3>3. CASE v # u
            BY <1>7, <3>1, <3>3
        <3> QED BY <3>2, <3>3
    <2>4. ASSUME NEW v \in Token
          PROVE  /\ replay'[v].tok # NoToken => parent'[replay'[v].tok] = v
                 /\ replay'[v].tok = NoToken => replay'[v].keyExp = 0
        <3>1. CASE v = t
            BY <1>9, <3>1
        <3>2. CASE v # t
            <4>1. replay'[v] = replay[v] /\ parent[u] = NoToken
                BY <1>1, <1>3, <1>9, <3>2 DEF StoreInv
            <4>2. CASE replay[v].tok # NoToken
                <5>1. replay[v].tok \in Token
                    BY <1>8, <4>2 DEF ReplayRecord
                <5>2. replay[v].tok # NoToken => parent[replay[v].tok] = v
                    BY <1>1, Zenon DEF StoreInv
                <5> QED BY <1>9, <4>1, <4>2, <5>1, <5>2
            <4>3. CASE replay[v].tok = NoToken
                BY <1>1, <4>1, <4>3 DEF StoreInv
            <4> QED BY <4>2, <4>3
        <3> QED BY <3>1, <3>2
    <2>5. \A v \in Token : rt'[v].keyExp <= now' + RefreshTTL
        BY <1>1, <1>2, <1>4, <1>6 DEF StoreInv
    <2>6. killed' \subseteq issued'
        BY <1>1, <1>7 DEF StoreInv
    <2> QED BY <2>1, <2>2, <2>3, <2>4, <2>5, <2>6 DEF StoreInv
<1>13. SingleSuccessor'
    <2>1. \A v \in Token \ {u} : parent[v] # t
        BY <1>1, <1>3 DEF StoreInv
    <2> QED BY <1>1, <1>9, <2>1 DEF SingleSuccessor
<1>14. \A v \in Token : v # u /\ Live(v)' => v # t /\ Live(v)
    BY <1>2, <1>6 DEF Live
<1>15. OneLivePerFamily'
    <2> SUFFICES ASSUME NEW v \in issued', NEW w \in issued', root'[v] = root'[w],
                        Live(v)', Live(w)'
                 PROVE  v = w
        BY DEF OneLivePerFamily
    <2>1. CASE v # u /\ w # u
        BY <1>1, <1>2, <1>7, <1>9, <1>14, <2>1 DEF OneLivePerFamily
    <2>2. ASSUME NEW x \in issued', x # u, Live(x)' PROVE root'[x] # root[t]
        <3>1. x \in issued /\ root'[x] = root[x] /\ Live(x) /\ x # t
            BY <1>2, <1>7, <1>9, <1>14, <2>2
        <3> QED BY <1>1, <1>3, <3>1 DEF OneLivePerFamily, Consume
    <2> QED BY <1>9, <2>1, <2>2
<1>16. IndexCoversLiveTokens'
    <2> SUFFICES ASSUME NEW v \in Token, Live(v)', rt'[v].sid # NoSession
                 PROVE  /\ v \in sessTok'[rt'[v].sid].members
                        /\ rt'[v].keyExp <= sessTok'[rt'[v].sid].keyExp
        BY DEF IndexCoversLiveTokens
    <2>1. rt'[v].sid \in Session
        BY <1>6 DEF RefreshToken
    <2>2. CASE v = u
        BY <1>2, <1>4, <1>6, <1>11, <2>1, <2>2
    <2>3. CASE v # u
        <3>1. v # t /\ Live(v) /\ rt'[v] = rt[v]
            BY <1>6, <1>14, <2>3
        <3>2. /\ v \in sessTok[rt[v].sid].members /\ rt[v].keyExp <= sessTok[rt[v].sid].keyExp
              /\ rt[v].keyExp \in Nat /\ sessTok[rt[v].sid].keyExp \in Nat
            BY <1>1, <1>2, <1>8, <2>1, <3>1 DEF IndexCoversLiveTokens, RefreshToken, SessionIndex
        <3>3. CASE rt[v].sid # rt[t].sid
            BY <1>11, <2>1, <3>1, <3>2, <3>3
        <3>4. CASE rt[v].sid = rt[t].sid
            <4>1. v \in Members(rt[t].sid)
                BY <1>2, <3>1, <3>2, <3>4 DEF Members, Live
            <4>2. rt[v].keyExp <= now + RefreshTTL
                BY <1>1 DEF StoreInv
            <4> QED BY <1>11, <2>1, <3>1, <3>4, <4>1, <4>2
        <3> QED BY <3>3, <3>4
    <2> QED BY <2>2, <2>3
<1>17. RevokedFamiliesStayDead'
    <2>1. root[t] \notin killed
        BY <1>1, <1>3 DEF RevokedFamiliesStayDead, Consume
    <2> QED BY <1>1, <1>2, <1>7, <1>9, <1>14, <2>1 DEF RevokedFamiliesStayDead
<1> QED BY <1>6, <1>10, <1>11, <1>12, <1>13, <1>15, <1>16, <1>17 DEF SharedInv

\* RotateRefreshToken keeps the invariant, whether its reply arrives or is lost.
LEMMA RotateIInv ==
    ASSUME IInv, NEW r \in Request, RotateScript(r) \/ RotateReplyLost(r)
    PROVE  IInv'
<1> DEFINE t == req[r].tok
<1>1. TypeOK /\ StoreInv /\ RequestInv /\ SharedInv
    BY DEF IInv, SharedInv
<1>2. req[r].pc = "rscript" /\ t \in Token /\ UNCHANGED <<now, revAfter, lock>>
    BY <1>1 DEF RotateScript, RotateReplyLost, At, RequestInv
<1> HIDE DEF t
<1>3. CASE UNCHANGED <<stores, history>>
    <2>1. SharedInv'
        BY <1>1, <1>2, <1>3, SharedUnchanged
    <2>2. \A q \in Request : req[q].got # NoToken => parent'[req[q].got] = req[q].tok
        BY <1>1, <1>3 DEF RequestInv, history
    <2>3. CASE Goto(r, "rpget")
        <3>1. req' \in [Request -> RequestState] /\ RequestInv'
            BY <1>1, <1>2, <2>2, <2>3, GotoMoves DEF PC
        <3>2. TypeOK'
            BY <1>1, <1>2, <1>3, <3>1 DEF TypeOK, stores, history
        <3> QED BY <2>1, <3>1, <3>2 DEF IInv, SharedInv
    <2>4. CASE ReplayLive(t) /\ Rotated(r, replay[t].tok)
        <3>1. replay[t].tok \in Token /\ parent'[replay[t].tok] = t
            BY <1>1, <1>2, <1>3, <2>4, ReplayNamesSuccessor DEF history
        <3>2. req' \in [Request -> RequestState] /\ RequestInv'
            BY <1>1, <1>2, <2>2, <2>4, <3>1, RotatedMoves DEF t
        <3>3. TypeOK'
            BY <1>1, <1>2, <1>3, <3>2 DEF TypeOK, stores, history
        <3> QED BY <2>1, <3>2, <3>3 DEF IInv, SharedInv
    <2>5. CASE \E u \in Token : Consume(r, t, u)
        <3>1. PICK u \in Token : Consume(r, t, u)
            BY <2>5
        <3>2. issued' = issued /\ issued' = issued \cup {u} /\ u \notin issued
            BY <1>3, <3>1 DEF Consume, history
        <3> QED BY <3>2
    <2> QED BY <2>3, <2>4, <2>5 DEF RotateScript, RotateReplyLost, t
<1>4. CASE ~UNCHANGED <<stores, history>>
    <2>1. PICK u \in Token : Consume(r, t, u) /\ (Rotated(r, u) \/ Goto(r, "rpget"))
        BY <1>4 DEF RotateScript, RotateReplyLost, t
    <2>2. \A q \in Request : req[q].got # NoToken => parent'[req[q].got] = req[q].tok
        BY <1>2, <2>1, ConsumeHeld
    <2>3. /\ SharedInv'
          /\ rt' \in [Token -> RefreshToken] /\ replay' \in [Token -> ReplayRecord]
          /\ sessTok' \in [Session -> SessionIndex] /\ issued' \subseteq Token
          /\ parent' \in [Token -> Token \cup {NoToken}]
          /\ root' \in [Token -> Token \cup {NoToken}] /\ killed' \subseteq Token
        BY <1>2, <2>1, ConsumeShared
    <2>4. parent'[u] = req[r].tok
        BY <1>1, <2>1 DEF Consume, TypeOK, t
    <2>5. req' \in [Request -> RequestState] /\ RequestInv'
        <3>1. CASE Rotated(r, u)
            BY <1>1, <1>2, <2>2, <2>4, <3>1, RotatedMoves
        <3>2. CASE Goto(r, "rpget")
            BY <1>1, <1>2, <2>2, <3>2, GotoMoves DEF PC
        <3> QED BY <2>1, <3>1, <3>2
    <2>6. TypeOK'
        BY <1>1, <1>2, <2>3, <2>5 DEF TypeOK
    <2> QED BY <2>3, <2>5, <2>6 DEF IInv, SharedInv
<1> QED BY <1>3, <1>4

\* GenerateRefreshToken keeps the invariant: a new family under a new root.
LEMMA GenerateIInv ==
    ASSUME IInv, NEW t \in Token, NEW a \in Account, NEW s \in Session \cup {NoSession},
           GenerateRefreshToken(t, a, s)
    PROVE  IInv'
<1> DEFINE new == [acct |-> a, sid |-> s, created |-> now, expiresAt |-> now + RefreshTTL,
                   keyExp |-> now + RefreshTTL]
<1>1. /\ TypeOK /\ StoreInv /\ SingleSuccessor /\ OneLivePerFamily
      /\ IndexCoversLiveTokens /\ RevokedFamiliesStayDead /\ RequestInv
    BY DEF IInv
<1>2. /\ now \in Nat /\ now + RefreshTTL \in Nat /\ rt \in [Token -> RefreshToken]
      /\ sessTok \in [Session -> SessionIndex] /\ root \in [Token -> Token \cup {NoToken}]
      /\ issued \subseteq Token
    BY <1>1 DEF TypeOK
<1>3. new \in RefreshToken /\ new.sid = s /\ new.keyExp = now + RefreshTTL
    BY <1>2 DEF RefreshToken
<1>4. /\ t \notin issued /\ rt' = [rt EXCEPT ![t] = new] /\ issued' = issued \cup {t}
      /\ root' = [root EXCEPT ![t] = t]
      /\ UNCHANGED <<now, replay, revAfter, lock, req, parent, killed>>
    BY DEF GenerateRefreshToken
<1> HIDE DEF new
<1>5. /\ rt' \in [Token -> RefreshToken] /\ rt'[t] = new
      /\ \A v \in Token \ {t} : rt'[v] = rt[v]
      /\ root' \in [Token -> Token \cup {NoToken}] /\ root'[t] = t
      /\ \A v \in Token \ {t} : root'[v] = root[v]
    BY <1>2, <1>3, <1>4
<1>6. /\ sessTok' \in [Session -> SessionIndex]
      /\ s \in Session => sessTok'[s] = [members |-> Members(s) \cup {t},
                                         keyExp |-> now + RefreshTTL]
      /\ \A x \in Session : x # s => sessTok'[x] = sessTok[x]
    <2>1. sessTok' = AddToIndex(s, {t}, {})
        BY DEF GenerateRefreshToken
    <2>2. s \in Session => Members(s) \subseteq Token /\ (Members(s) \ {}) = Members(s)
        BY <1>2 DEF Members, SessionIndex
    <2> QED BY <1>2, <2>1, <2>2 DEF AddToIndex, SessionIndex
<1>7. TypeOK'
    BY <1>1, <1>2, <1>4, <1>5, <1>6 DEF TypeOK
<1>8. StoreInv'
    <2>1. \A v \in Token : v \notin issued' => rt'[v].keyExp = 0 /\ parent'[v] = NoToken
        BY <1>1, <1>4, <1>5 DEF StoreInv
    <2>2. \A v \in Token : parent'[v] # NoToken => parent'[v] \in issued' /\ rt'[parent'[v]].keyExp = 0
        BY <1>1, <1>2, <1>4, <1>5 DEF StoreInv
    <2>3. \A v \in issued' : root'[v] \in issued' /\ rt'[v].sid = rt'[root'[v]].sid
        BY <1>1, <1>2, <1>4, <1>5 DEF StoreInv
    <2>4. /\ \A v \in Token : replay'[v].tok # NoToken => parent'[replay'[v].tok] = v
          /\ \A v \in Token : replay'[v].tok = NoToken => replay'[v].keyExp = 0
        BY <1>1, <1>4, Zenon DEF StoreInv
    <2>5. \A v \in Token : rt'[v].keyExp <= now' + RefreshTTL
        BY <1>1, <1>2, <1>3, <1>4, <1>5 DEF StoreInv
    <2>6. killed' \subseteq issued'
        BY <1>1, <1>4 DEF StoreInv
    <2> QED BY <2>1, <2>2, <2>3, <2>4, <2>5, <2>6 DEF StoreInv
<1>9. SingleSuccessor' /\ RequestInv'
    BY <1>1, <1>4 DEF SingleSuccessor, RequestInv
<1>10. \A v \in Token \ {t} : Live(v)' => Live(v)
    BY <1>4, <1>5 DEF Live
<1>11. OneLivePerFamily' /\ RevokedFamiliesStayDead'
    <2>1. \A v \in issued : root'[v] = root[v] /\ root[v] # t /\ v # t
        BY <1>1, <1>2, <1>4, <1>5 DEF StoreInv
    <2>2. OneLivePerFamily'
        BY <1>1, <1>2, <1>4, <1>5, <1>10, <2>1 DEF OneLivePerFamily
    <2>3. t \notin killed'
        BY <1>1, <1>4 DEF StoreInv
    <2> QED BY <1>1, <1>2, <1>4, <1>5, <1>10, <2>1, <2>2, <2>3 DEF RevokedFamiliesStayDead
<1>12. IndexCoversLiveTokens'
    <2> SUFFICES ASSUME NEW v \in Token, Live(v)', rt'[v].sid # NoSession
                 PROVE  /\ v \in sessTok'[rt'[v].sid].members
                        /\ rt'[v].keyExp <= sessTok'[rt'[v].sid].keyExp
        BY DEF IndexCoversLiveTokens
    <2>1. rt'[v].sid \in Session
        BY <1>5 DEF RefreshToken
    <2>2. CASE v = t
        BY <1>2, <1>3, <1>5, <1>6, <2>1, <2>2
    <2>3. CASE v # t
        <3>1. Live(v) /\ rt'[v] = rt[v]
            BY <1>5, <1>10, <2>3
        <3>2. /\ v \in sessTok[rt[v].sid].members /\ rt[v].keyExp <= sessTok[rt[v].sid].keyExp
              /\ rt[v].keyExp \in Nat /\ sessTok[rt[v].sid].keyExp \in Nat
            BY <1>1, <1>2, <2>1, <3>1 DEF IndexCoversLiveTokens, RefreshToken, SessionIndex
        <3>3. CASE rt[v].sid # s
            BY <1>6, <2>1, <3>1, <3>2, <3>3
        <3>4. CASE rt[v].sid = s
            <4>1. v \in Members(s)
                BY <1>2, <3>1, <3>2, <3>4 DEF Members, Live
            <4>2. rt[v].keyExp <= now + RefreshTTL
                BY <1>1 DEF StoreInv
            <4> QED BY <1>6, <2>1, <3>1, <3>4, <4>1, <4>2
        <3> QED BY <3>3, <3>4
    <2> QED BY <2>2, <2>3
<1> QED BY <1>7, <1>8, <1>9, <1>11, <1>12 DEF IInv

\* Revocations only shorten the life of tokens: the parts of SharedInv that a
\* revocation keeps whichever tokens it deletes.
LEMMA RevocationShared ==
    ASSUME IInv, now' = now, replay' = replay, parent' = parent, root' = root,
           issued' = issued, rt' \in [Token -> RefreshToken],
           \A v \in Token : rt'[v].sid = rt[v].sid
                            /\ (rt'[v].keyExp = rt[v].keyExp \/ rt'[v].keyExp = 0),
           killed' \subseteq issued'
    PROVE  StoreInv' /\ SingleSuccessor' /\ OneLivePerFamily'
<1>1. TypeOK /\ StoreInv /\ SingleSuccessor /\ OneLivePerFamily /\ now \in Nat
      /\ issued \subseteq Token
    BY DEF IInv, TypeOK
<1>2. \A v \in Token : Live(v)' => Live(v)
    BY <1>1 DEF Live
<1>3. SingleSuccessor' /\ OneLivePerFamily'
    BY <1>1, <1>2 DEF SingleSuccessor, OneLivePerFamily
<1>4. StoreInv'
    <2>1. \A v \in Token : v \notin issued' => rt'[v].keyExp = 0 /\ parent'[v] = NoToken
        BY <1>1 DEF StoreInv
    <2>2. \A v \in Token : parent'[v] # NoToken => parent'[v] \in issued' /\ rt'[parent'[v]].keyExp = 0
        BY <1>1 DEF StoreInv
    <2>3. \A v \in issued' : root'[v] \in issued' /\ rt'[v].sid = rt'[root'[v]].sid
        BY <1>1 DEF StoreInv
    <2>4. /\ \A v \in Token : replay'[v].tok # NoToken => parent'[replay'[v].tok] = v
          /\ \A v \in Token : replay'[v].tok = NoToken => replay'[v].keyExp = 0
        BY <1>1, Zenon DEF StoreInv
    <2>5. \A v \in Token : rt'[v].keyExp <= now' + RefreshTTL
        BY <1>1 DEF StoreInv
    <2> QED BY <2>1, <2>2, <2>3, <2>4, <2>5 DEF StoreInv
<1> QED BY <1>3, <1>4

\* RevokeRefreshToken keeps the invariant.
LEMMA RevokeIInv ==
    ASSUME IInv, NEW t \in Token, RevokeRefreshToken(t)
    PROVE  IInv'
<1>1. /\ TypeOK /\ StoreInv /\ OneLivePerFamily /\ IndexCoversLiveTokens
      /\ RevokedFamiliesStayDead /\ RequestInv
    BY DEF IInv
<1>2. /\ Live(t) /\ rt' = [rt EXCEPT ![t].keyExp = 0] /\ killed' = killed \cup {root[t]}
      /\ UNCHANGED <<now, replay, revAfter, lock, req, issued, parent, root>>
    BY DEF RevokeRefreshToken
<1>3. /\ now \in Nat /\ rt \in [Token -> RefreshToken] /\ rt[t].keyExp \in Nat
      /\ sessTok \in [Session -> SessionIndex] /\ issued \subseteq Token
      /\ rt[t].sid \in Session \cup {NoSession}
    BY <1>1 DEF TypeOK, RefreshToken
<1>4. t \in issued /\ root[t] \in issued
    BY <1>1, <1>2, <1>3 DEF StoreInv, Live
<1>5. /\ rt' \in [Token -> RefreshToken] /\ rt'[t].keyExp = 0 /\ rt'[t].sid = rt[t].sid
      /\ \A v \in Token \ {t} : rt'[v] = rt[v]
    BY <1>2, <1>3 DEF RefreshToken
<1>6. StoreInv' /\ SingleSuccessor' /\ OneLivePerFamily'
    <2>1. killed' \subseteq issued'
        BY <1>1, <1>2, <1>4 DEF StoreInv
    <2>2. \A v \in Token : rt'[v].sid = rt[v].sid
                            /\ (rt'[v].keyExp = rt[v].keyExp \/ rt'[v].keyExp = 0)
        BY <1>5
    <2> QED BY <1>2, <1>5, <2>1, <2>2, RevocationShared
<1>7. /\ sessTok' \in [Session -> SessionIndex]
      /\ \A x \in Session : /\ sessTok[x].members \ {t} \subseteq sessTok'[x].members
                            /\ sessTok'[x].keyExp = sessTok[x].keyExp
    <2>1. CASE rt[t].sid = NoSession
        BY <1>3, <2>1 DEF RevokeRefreshToken
    <2>2. CASE rt[t].sid \in Session
        <3>1. sessTok' = [sessTok EXCEPT ![rt[t].sid].members = @ \ {t}]
            BY <2>2 DEF RevokeRefreshToken
        <3> QED BY <1>3, <2>2, <3>1 DEF SessionIndex
    <2> QED BY <1>3, <2>1, <2>2
<1>8. \A v \in Token : Live(v)' => v # t /\ Live(v) /\ rt'[v] = rt[v]
    BY <1>2, <1>3, <1>5 DEF Live
<1>9. IndexCoversLiveTokens'
    <2> SUFFICES ASSUME NEW v \in Token, Live(v)', rt'[v].sid # NoSession
                 PROVE  /\ v \in sessTok'[rt'[v].sid].members
                        /\ rt'[v].keyExp <= sessTok'[rt'[v].sid].keyExp
        BY DEF IndexCoversLiveTokens
    <2>1. rt'[v].sid \in Session /\ v # t /\ Live(v) /\ rt'[v] = rt[v]
        BY <1>5, <1>8 DEF RefreshToken
    <2> QED BY <1>1, <1>7, <2>1 DEF IndexCoversLiveTokens
<1>10. RevokedFamiliesStayDead'
    BY <1>1, <1>2, <1>3, <1>4, <1>8 DEF RevokedFamiliesStayDead, OneLivePerFamily
<1>11. TypeOK' /\ RequestInv'
    <2>1. killed' \subseteq Token
        BY <1>1, <1>2, <1>3, <1>4 DEF TypeOK
    <2> QED BY <1>1, <1>2, <1>5, <1>7, <2>1 DEF TypeOK, RequestInv
<1> QED BY <1>6, <1>9, <1>10, <1>11 DEF IInv

\* RevokeAllForSession keeps the invariant: the index names every live token.
LEMMA RevokeAllIInv ==
    ASSUME IInv, NEW s \in Session, RevokeAllForSession(s)
    PROVE  IInv'
<1>1. /\ TypeOK /\ StoreInv /\ IndexCoversLiveTokens /\ RevokedFamiliesStayDead /\ RequestInv
    BY DEF IInv
<1>2. /\ rt' = [t \in Token |-> IF t \in Members(s) THEN [rt[t] EXCEPT !.keyExp = 0] ELSE rt[t]]
      /\ sessTok' = [sessTok EXCEPT ![s] = [members |-> {}, keyExp |-> 0]]
      /\ killed' = killed \cup {root[t] : t \in {u \in issued : rt[u].sid = s}}
      /\ UNCHANGED <<now, replay, revAfter, lock, req, issued, parent, root>>
    BY DEF RevokeAllForSession
<1>3. /\ now \in Nat /\ rt \in [Token -> RefreshToken] /\ issued \subseteq Token
      /\ sessTok \in [Session -> SessionIndex]
    BY <1>1 DEF TypeOK
<1>4. \A v \in Token : /\ rt'[v] \in RefreshToken /\ rt'[v].sid = rt[v].sid
                       /\ v \in Members(s) => rt'[v].keyExp = 0
                       /\ v \notin Members(s) => rt'[v] = rt[v]
    BY <1>2, <1>3 DEF RefreshToken
<1>5. rt' \in [Token -> RefreshToken]
    BY <1>2, <1>4
<1>6. \A v \in issued : root[v] \in killed' /\ root[v] \notin killed => rt[v].sid = s
    BY <1>1, <1>2 DEF StoreInv
<1>7. killed' \subseteq issued' /\ killed' \subseteq Token
    BY <1>1, <1>2, <1>3 DEF StoreInv
<1>8. StoreInv' /\ SingleSuccessor' /\ OneLivePerFamily'
    <2>1. \A v \in Token : rt'[v].sid = rt[v].sid
                            /\ (rt'[v].keyExp = rt[v].keyExp \/ rt'[v].keyExp = 0)
        BY <1>4
    <2> QED BY <1>2, <1>5, <1>7, <2>1, RevocationShared
<1>9. \A v \in Token : Live(v)' => v \notin Members(s) /\ Live(v) /\ rt'[v] = rt[v]
    BY <1>2, <1>3, <1>4 DEF Live
<1>10. \A v \in Token : Live(v) /\ rt[v].sid = s => v \in Members(s)
    <2> SUFFICES ASSUME NEW v \in Token, Live(v), rt[v].sid = s
                 PROVE  v \in Members(s)
        OBVIOUS
    <2>1. v \in sessTok[s].members /\ rt[v].keyExp <= sessTok[s].keyExp
        BY <1>1 DEF IndexCoversLiveTokens
    <2>2. rt[v].keyExp \in Nat /\ sessTok[s].keyExp \in Nat
        BY <1>3 DEF RefreshToken, SessionIndex
    <2> QED BY <1>3, <2>1, <2>2 DEF Live, Members
<1>11. sessTok' \in [Session -> SessionIndex] /\ \A x \in Session \ {s} : sessTok'[x] = sessTok[x]
    BY <1>2, <1>3 DEF SessionIndex
<1>12. IndexCoversLiveTokens'
    <2> SUFFICES ASSUME NEW v \in Token, Live(v)', rt'[v].sid # NoSession
                 PROVE  /\ v \in sessTok'[rt'[v].sid].members
                        /\ rt'[v].keyExp <= sessTok'[rt'[v].sid].keyExp
        BY DEF IndexCoversLiveTokens
    <2>1. Live(v) /\ rt'[v] = rt[v] /\ rt[v].sid \in Session \ {s}
        BY <1>3, <1>9, <1>10 DEF RefreshToken
    <2> QED BY <1>1, <1>11, <2>1 DEF IndexCoversLiveTokens
<1>13. RevokedFamiliesStayDead'
    <2> SUFFICES ASSUME NEW v \in issued, root[v] \in killed', Live(v)' PROVE FALSE
        BY <1>2 DEF RevokedFamiliesStayDead
    <2>1. Live(v) /\ v \notin Members(s) /\ v \in Token
        BY <1>3, <1>9
    <2>2. root[v] \notin killed
        BY <1>1, <2>1 DEF RevokedFamiliesStayDead
    <2> QED BY <1>6, <1>10, <2>1, <2>2
<1>14. TypeOK' /\ RequestInv'
    BY <1>1, <1>2, <1>5, <1>7, <1>11 DEF TypeOK, RequestInv
<1> QED BY <1>8, <1>12, <1>13, <1>14 DEF IInv

\* RevokeAccountTokens touches only the account mark.
LEMMA MarkIInv ==
    ASSUME IInv, NEW a \in Account, RevokeAccountTokens(a)
    PROVE  IInv'
<1>1. UNCHANGED <<now, stores, history>> /\ UNCHANGED <<lock, req>>
    BY DEF RevokeAccountTokens
<1>2. SharedInv' /\ RequestInv'
    BY <1>1, SharedUnchanged DEF IInv, SharedInv, RequestInv, history
<1>3. revAfter' \in [Account -> RevocationMark]
    <2>1. revAfter' = [revAfter EXCEPT ![a] = [at |-> now, keyExp |-> now + RevokedTTL]]
        BY DEF RevokeAccountTokens
    <2>2. now \in Nat /\ now + RevokedTTL \in Nat /\ revAfter \in [Account -> RevocationMark]
        BY DEF IInv, TypeOK
    <2> QED BY <2>1, <2>2 DEF RevocationMark
<1>4. TypeOK'
    BY <1>1, <1>3 DEF IInv, TypeOK, stores, history
<1> QED BY <1>2, <1>4 DEF IInv, SharedInv

\* Time only lets keys expire.
LEMMA TickIInv ==
    ASSUME IInv, Tick
    PROVE  IInv'
<1>1. now' = now + 1 /\ now \in Nat /\ UNCHANGED <<stores, revAfter, lock, req, history>>
    BY DEF Tick, IInv, TypeOK
<1>2. TypeOK' /\ RequestInv'
    BY <1>1 DEF IInv, TypeOK, RequestInv, stores, history
<1>3. rt \in [Token -> RefreshToken] /\ issued \subseteq Token
    BY DEF IInv, TypeOK
<1>4. \A v \in Token : rt[v].keyExp \in Nat
    BY <1>3 DEF RefreshToken
<1>5. \A v \in Token : Live(v)' => Live(v)
    BY <1>1, <1>4 DEF Live, stores
<1>6. StoreInv'
    <2>1. \A v \in Token : rt'[v].keyExp <= now' + RefreshTTL
        BY <1>1, <1>4 DEF IInv, StoreInv, stores
    <2> QED BY <1>1, <2>1, Zenon DEF IInv, StoreInv, stores, history
<1>7. SingleSuccessor' /\ OneLivePerFamily' /\ IndexCoversLiveTokens' /\ RevokedFamiliesStayDead'
    BY <1>1, <1>3, <1>5 DEF IInv, SingleSuccessor, OneLivePerFamily, IndexCoversLiveTokens,
       RevokedFamiliesStayDead, stores, history
<1> QED BY <1>2, <1>6, <1>7 DEF IInv

\* IInv is inductive.
LEMMA NextIInv == IInv /\ [Next]_vars => IInv'
<1> SUFFICES ASSUME IInv, [Next]_vars PROVE IInv'
    OBVIOUS
<1>1. CASE Environment
    BY <1>1, GenerateIInv, RevokeIInv, RevokeAllIInv, MarkIInv, TickIInv DEF Environment
<1>2. CASE \E r \in Request, k \in Kind, t \in Token : Start(r, k, t)
    BY <1>2, StartIInv
<1>3. CASE \E r \in Request : Step(r) \/ Crash(r)
    <2>1. PICK r \in Request : QuietStep(r) \/ RotateScript(r) \/ RotateReplyLost(r)
        BY <1>3 DEF Step, QuietStep
    <2> QED BY <2>1, QuietIInv, RotateIInv
<1>4. CASE UNCHANGED vars
    <2>1. SharedInv'
        BY <1>4, SharedUnchanged DEF vars, IInv, SharedInv
    <2>2. TypeOK' /\ RequestInv'
        BY <1>4 DEF vars, stores, history, IInv, TypeOK, RequestInv
    <2> QED BY <2>1, <2>2 DEF IInv, SharedInv
<1> QED BY <1>1, <1>2, <1>3, <1>4 DEF Next

\* RotationAgreement is a consequence: a token's answerer holds its only successor.
LEMMA AgreementFromIInv == IInv => RotationAgreement
<1> SUFFICES ASSUME IInv, NEW r \in Request, NEW q \in Request,
                    req[r].tok = req[q].tok, req[r].pc = "done",
                    req[r].got # NoToken, req[q].got # NoToken
             PROVE  req[r].got = req[q].got
    BY DEF RotationAgreement, At
<1>1. /\ req[r].got \in Token /\ req[q].got \in Token /\ req[r].tok \in Token
      /\ parent[req[r].got] = req[r].tok /\ parent[req[q].got] = req[q].tok
    BY DEF IInv, TypeOK, RequestState, RequestInv
<1> QED BY <1>1 DEF IInv, SingleSuccessor

\* IInv holds in every reachable state of the refresh flow.
LEMMA AlwaysIInv == Spec => []IInv
BY InitIInv, NextIInv, PTL DEF Spec

\* The variables keep their types in every reachable state of the refresh flow.
THEOREM TypeCorrect == Spec => []TypeOK
<1>1. IInv => TypeOK
    BY DEF IInv
<1> QED BY <1>1, AlwaysIInv, PTL

\* However the refresh handlers of both endpoints interleave, whichever locks
\* expire and whichever replies are lost, a refresh token is rotated at most once.
THEOREM RotatedOnce == Spec => []SingleSuccessor
<1>1. IInv => SingleSuccessor
    BY DEF IInv
<1> QED BY <1>1, AlwaysIInv, PTL

\* A login or a code exchange has at most one usable refresh token at any time.
THEOREM OneUsableToken == Spec => []OneLivePerFamily
<1>1. IInv => OneLivePerFamily
    BY DEF IInv
<1> QED BY <1>1, AlwaysIInv, PTL

\* Clients that retry a refresh with the same token never end up with different
\* successors of it.
THEOREM RotationSafe == Spec => []RotationAgreement
<1> QED BY AgreementFromIInv, AlwaysIInv, PTL

\* RevokeAllForSession always sees every live token of its session.
THEOREM IndexComplete == Spec => []IndexCoversLiveTokens
<1>1. IInv => IndexCoversLiveTokens
    BY DEF IInv
<1> QED BY <1>1, AlwaysIInv, PTL

\* A family revoked by RevokeRefreshToken or RevokeAllForSession is never brought
\* back by a refresh that was in flight.
THEOREM RevocationComplete == Spec => []RevokedFamiliesStayDead
<1>1. IInv => RevokedFamiliesStayDead
    BY DEF IInv
<1> QED BY <1>1, AlwaysIInv, PTL

-----------------------------------------------------------------------------
(* The refinement of TokenFamily.                                          *)

\* What CurrentOf picks: the one live token of the family, if there is one.
CurrentExact ==
    \A f \in Token :
        /\ CurrentOf(f) \in Token \cup {NoToken}
        /\ \A t \in Token : CurrentOf(f) = t <=> t \in issued /\ root[t] = f /\ Live(t)

\* A family has at most one live token, so CurrentOf is determined by it.
LEMMA CurrentUnique == IInv => CurrentExact
<1> SUFFICES ASSUME IInv, NEW f \in Token
             PROVE  /\ CurrentOf(f) \in Token \cup {NoToken}
                    /\ \A t \in Token : CurrentOf(f) = t <=> t \in issued /\ root[t] = f /\ Live(t)
    BY DEF CurrentExact
<1>1. issued \subseteq Token /\ OneLivePerFamily
    BY DEF IInv, TypeOK
<1>2. CASE \E t \in issued : root[t] = f /\ Live(t)
    <2>1. CurrentOf(f) = CHOOSE t \in issued : root[t] = f /\ Live(t)
        BY <1>2 DEF CurrentOf
    <2>2. CurrentOf(f) \in issued /\ root[CurrentOf(f)] = f /\ Live(CurrentOf(f))
        BY <1>2, <2>1, Zenon
    <2> QED BY <1>1, <2>2 DEF OneLivePerFamily
<1>3. CASE ~\E t \in issued : root[t] = f /\ Live(t)
    BY <1>3 DEF CurrentOf
<1> QED BY <1>2, <1>3

\* The current tokens after a step, from which tokens it leaves live.
LEMMA CurrentNext == IInv' => CurrentExact'
BY CurrentUnique, PTL

\* No token, no family.
LEMMA InitFamilies == Init => Families!Init
BY DEF Init, Families!Init, CurrentOf

\* Every step begins, rotates or ends families, or leaves them alone.
LEMMA StepFamilies ==
    ASSUME IInv, IInv', [Next]_vars
    PROVE  [Families!Next]_(<<[f \in Token |-> CurrentOf(f)], issued>>)
<1> DEFINE cur == [f \in Token |-> CurrentOf(f)]
<1>1. CurrentExact /\ CurrentExact' /\ TypeOK /\ TypeOK' /\ StoreInv /\ StoreInv'
    BY CurrentUnique, CurrentNext DEF IInv
<1>2. /\ issued \subseteq Token /\ issued' \subseteq Token /\ now \in Nat
      /\ rt \in [Token -> RefreshToken] /\ root \in [Token -> Token \cup {NoToken}]
      /\ \A t \in Token : rt[t].keyExp \in Nat
    BY <1>1 DEF TypeOK, RefreshToken
\* A step that issues no token and revives none ends the families it leaves without one.
<1>3. ASSUME issued' = issued, root' = root, \A t \in Token : Live(t)' => Live(t)
      PROVE  \E F \in SUBSET Token : Families!End(F)
    <2> DEFINE F == {f \in Token : cur[f] # NoToken /\ cur'[f] = NoToken}
    <2>1. \A f \in F : cur[f] # NoToken
        OBVIOUS
    <2>2. \A f \in Token : f \notin F => cur'[f] = cur[f]
        BY <1>1, <1>3 DEF CurrentExact
    <2>3. cur' = [f \in Token |-> IF f \in F THEN NoToken ELSE cur[f]]
        BY <2>2
    <2> QED BY <1>3, <2>1, <2>3 DEF Families!End, Families!Current
<1>4. ASSUME NEW t \in Token, NEW a \in Account, NEW s \in Session \cup {NoSession},
             GenerateRefreshToken(t, a, s)
      PROVE  Families!Begin(t)
    <2>1. /\ t \notin issued /\ issued' = issued \cup {t} /\ now' = now
          /\ root'[t] = t /\ rt'[t].keyExp = now + RefreshTTL
          /\ \A v \in Token \ {t} : rt'[v] = rt[v] /\ root'[v] = root[v]
        BY <1>4, <1>2 DEF GenerateRefreshToken
    <2>2. Live(t)' /\ \A v \in Token \ {t} : Live(v)' = Live(v)
        BY <1>2, <2>1 DEF Live
    <2>3. cur'[t] = t
        BY <1>1, <2>1, <2>2 DEF CurrentExact
    <2>4. \A f \in Token \ {t} : cur'[f] = cur[f]
        BY <1>1, <2>1, <2>2 DEF CurrentExact
    <2>5. cur' = [cur EXCEPT ![t] = t]
        BY <2>3, <2>4
    <2> QED BY <2>1, <2>5 DEF Families!Begin
<1>5. ASSUME NEW r \in Request, NEW t \in Token, NEW u \in Token, Consume(r, t, u), now' = now
      PROVE  root[t] \in Token /\ Families!Rotate(root[t], u)
    <2>1. /\ Live(t) /\ u \notin issued /\ issued' = issued \cup {u}
          /\ root' = [root EXCEPT ![u] = root[t]]
        BY <1>5 DEF Consume
    <2>2. t \in issued /\ root[t] \in Token /\ t # u
        BY <1>1, <1>2, <2>1 DEF StoreInv, Live
    <2>3. /\ rt'[u].keyExp = now + RefreshTTL /\ rt'[t].keyExp = 0
          /\ \A v \in Token \ {t, u} : rt'[v] = rt[v]
        BY <1>5, <1>2, <2>2 DEF Consume, RefreshToken
    <2>4. /\ root'[u] = root[t] /\ \A v \in Token \ {u} : root'[v] = root[v]
          /\ Live(u)' /\ ~Live(t)' /\ \A v \in Token \ {t, u} : Live(v)' = Live(v)
        BY <1>2, <1>5, <2>1, <2>3 DEF Live
    <2>5. cur[root[t]] = t /\ cur'[root[t]] = u
        BY <1>1, <2>1, <2>2, <2>4 DEF CurrentExact
    <2>6. \A f \in Token \ {root[t]} : cur'[f] = cur[f]
        BY <1>1, <2>1, <2>2, <2>4 DEF CurrentExact
    <2>7. cur' = [cur EXCEPT ![root[t]] = u]
        BY <2>2, <2>5, <2>6
    <2> QED BY <2>1, <2>2, <2>5, <2>7 DEF Families!Rotate, Families!Current
<1>6. ASSUME UNCHANGED <<now, rt, history>> PROVE UNCHANGED <<cur, issued>>
    <2>1. \A f \in Token : CurrentOf(f)' = CurrentOf(f)
        BY <1>6 DEF CurrentOf, Live, history
    <2> QED BY <1>6, <2>1 DEF history
<1>7. ASSUME Environment PROVE Families!Next
    <2>1. ASSUME NEW t \in Token, NEW a \in Account, NEW s \in Session \cup {NoSession},
                 GenerateRefreshToken(t, a, s)
          PROVE  Families!Next
        BY <1>4, <2>1 DEF Families!Next
    <2>2. ASSUME NEW t \in Token, RevokeRefreshToken(t) PROVE Families!Next
        <3>1. \A v \in Token : Live(v)' => Live(v)
            BY <1>2, <2>2 DEF RevokeRefreshToken, Live, RefreshToken
        <3> QED BY <1>3, <2>2, <3>1 DEF RevokeRefreshToken, Families!Next
    <2>3. ASSUME NEW s \in Session, RevokeAllForSession(s) PROVE Families!Next
        <3>1. \A v \in Token : Live(v)' => Live(v)
            BY <1>2, <2>3 DEF RevokeAllForSession, Live, RefreshToken
        <3> QED BY <1>3, <2>3, <3>1 DEF RevokeAllForSession, Families!Next
    <2>4. ASSUME NEW a \in Account, RevokeAccountTokens(a) PROVE Families!Next
        BY <1>3, <2>4 DEF RevokeAccountTokens, Live, stores, history, Families!Next
    <2>5. ASSUME Tick PROVE Families!Next
        BY <1>2, <1>3, <2>5 DEF Tick, Live, stores, history, Families!Next
    <2> QED BY <1>7, <2>1, <2>2, <2>3, <2>4, <2>5 DEF Environment
<1>8. ASSUME NEW r \in Request, RotateScript(r) \/ RotateReplyLost(r)
      PROVE  Families!Next \/ UNCHANGED <<cur, issued>>
    <2>1. now' = now /\ req[r].tok \in Token
        BY <1>8 DEF RotateScript, RotateReplyLost, At, IInv, RequestInv
    <2>2. CASE UNCHANGED <<stores, history>>
        BY <1>6, <2>1, <2>2 DEF stores
    <2>3. CASE \E u \in Token : Consume(r, req[r].tok, u)
        BY <1>5, <2>1, <2>3 DEF Families!Next
    <2> QED BY <1>8, <2>2, <2>3 DEF RotateScript, RotateReplyLost
<1>9. ASSUME NEW r \in Request, Step(r) \/ Crash(r)
      PROVE  Families!Next \/ UNCHANGED <<cur, issued>>
    <2>1. QuietStep(r) \/ RotateScript(r) \/ RotateReplyLost(r)
        BY <1>9 DEF Step, QuietStep
    <2>2. CASE QuietStep(r)
        BY <1>6, <2>2, QuietFrame DEF stores
    <2> QED BY <1>8, <2>1, <2>2
<1>10. ASSUME NEW r \in Request, NEW k \in Kind, NEW t \in Token, Start(r, k, t)
       PROVE  UNCHANGED <<cur, issued>>
    BY <1>6, <1>10 DEF Start, stores
<1>11. CASE UNCHANGED vars
    BY <1>6, <1>11 DEF vars, stores
<1> QED BY <1>7, <1>9, <1>10, <1>11 DEF Next

\* Refresh tokens in Redis, with their locks, retries and replays, implement TokenFamily:
\* families that begin once, move from one current token to the next and end for good.
THEOREM TokensAreFamilies == Spec => ImplementsTokenFamily
<1>1. IInv /\ IInv' /\ [Next]_vars
      => [Families!Next]_(<<[f \in Token |-> CurrentOf(f)], issued>>)
    BY StepFamilies
<1> QED
    BY AlwaysIInv, InitFamilies, <1>1, PTL DEF Spec, ImplementsTokenFamily, Families!Spec
=============================================================================
