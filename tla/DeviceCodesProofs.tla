-------------------------- MODULE DeviceCodesProofs --------------------------
(***************************************************************************)
(* Proofs about DeviceCodes, for any codes, clients, accounts, requests    *)
(* and faults, and any lifetimes: type correctness, that a decision is     *)
(* final, and that device codes implement OneTimeGrant.  The inductive     *)
(* invariant says that a poll about to give tokens holds a used code that  *)
(* no other poll holds, that has not been paid out, and whose account is   *)
(* the one that approved; and that the pages shown agree with the status.  *)
(***************************************************************************)
EXTENDS DeviceCodes, TLAPS

\* The poll that issues tokens for code k.
Issues(c, k) == At(c, "issue") /\ call[c].code = k

Ownership ==
    /\ \A c \in Call : At(c, "issue") =>
         /\ dc[call[c].code].status = "used"
         /\ call[c].acct = dc[call[c].code].acct
         /\ receipt[call[c].code] = <<>>
    /\ \A c, d \in Call : At(c, "issue") /\ At(d, "issue") /\ call[c].code = call[d].code
                          => c = d
    /\ \A c \in Call : At(c, "authorize") => call[c].acct \in Account

Bookkeeping ==
    /\ now <= Never
    /\ \A k \in Code :
        /\ receipt[k] # <<>> => dc[k].status = "used"
        /\ dc[k].status \in {"authorized", "used"} => dc[k].acct \in Account
        /\ dc[k].status \in {"none", "pending"} => dc[k].acct = NoAccount
        /\ "denied" \in told[k] => dc[k].status = "denied"
        /\ "granted" \in told[k] => dc[k].status \in {"authorized", "used"}

Inv == TypeOK /\ Ownership /\ Bookkeeping

USE ConfigAssumption, NamesAssumption DEF At

\* An idle call is well typed.
LEMMA DefaultCall == NoCall \in CallState /\ NoCall.pc = "idle"
BY DEF NoCall, CallState, PC, Status

\* No code has been asked for: nothing is held and nothing was shown.
LEMMA InitInv == Init => Inv
<1> SUFFICES ASSUME Init PROVE Inv
  OBVIOUS
<1>1. TypeOK
  BY DefaultCall DEF Init, TypeOK, DeviceCode, Status
<1>2. now <= Never
  BY DEF Init, Never
<1>3. Ownership /\ Bookkeeping
  BY <1>2, DefaultCall DEF Init, Ownership, Bookkeeping
<1> QED BY <1>1, <1>3 DEF Inv

-----------------------------------------------------------------------------
(* How a step may move a request.                                          *)

\* A request that ends, or goes on to anything but giving tokens, keeps what is said of
\* the requests.
LEMMA OneCallMoves ==
  ASSUME Inv, NEW c \in Call, NEW st \in CallState, call' = [call EXCEPT ![c] = st],
         st.pc # "issue", st.pc = "authorize" => st.acct \in Account,
         \A d \in Call : d # c /\ At(d, "issue") =>
             /\ dc'[call[d].code].status = "used"
             /\ dc'[call[d].code].acct = dc[call[d].code].acct
             /\ receipt'[call[d].code] = <<>>
  PROVE  call' \in [Call -> CallState] /\ Ownership'
<1>1. call \in [Call -> CallState]
  BY DEF Inv, TypeOK
<1>2. call'[c] = st /\ \A d \in Call : d # c => call'[d] = call[d]
  BY <1>1
<1> QED BY <1>1, <1>2 DEF Inv, Ownership

\* Codes are written back with another lifetime at most.
SameCodes ==
  /\ dc' \in [Code -> DeviceCode]
  /\ \A k \in Code : dc'[k].status = dc[k].status /\ dc'[k].acct = dc[k].acct

\* A step that moves one request on without giving tokens and without changing a code.
LEMMA RequestMoves ==
  ASSUME Inv, NEW c \in Call, NEW st \in CallState, call' = [call EXCEPT ![c] = st],
         st.pc # "issue", st.pc = "authorize" => st.acct \in Account,
         UNCHANGED <<now, told, receipt>>, SameCodes, lastPoll' \in [Code -> Nat]
  PROVE  Inv'
<1>1. \A d \in Call : At(d, "issue") => call[d].code \in Code
  BY DEF Inv, TypeOK, CallState
<1>2. call' \in [Call -> CallState] /\ Ownership'
  <2>1. \A d \in Call : d # c /\ At(d, "issue") =>
             /\ dc'[call[d].code].status = "used"
             /\ dc'[call[d].code].acct = dc[call[d].code].acct
             /\ receipt'[call[d].code] = <<>>
    BY <1>1 DEF Inv, Ownership, SameCodes
  <2> QED BY <2>1, OneCallMoves
<1>3. TypeOK' /\ Bookkeeping'
  BY <1>2 DEF Inv, TypeOK, Bookkeeping, SameCodes
<1> QED BY <1>2, <1>3 DEF Inv

\* What is left of a code's lifetime keeps it alive.
LEMMA RestIs ==
  ASSUME Inv, NEW k \in Code, Exists(k), NEW e \in RestTTL(k)
  PROVE  e \in Nat /\ now <= e
<1>1. dc[k].keyExp \in Nat /\ now \in Nat /\ now <= dc[k].keyExp
  BY DEF Inv, TypeOK, DeviceCode, Exists
<1>2. CASE e = dc[k].keyExp
  BY <1>1, <1>2
<1>3. CASE e = Never
  BY <1>3 DEF Inv, Bookkeeping, Never
<1> QED BY <1>2, <1>3 DEF RestTTL

\* The decision of a user: only a pending code is decided, and no poll holds it.
LEMMA DecideInv ==
  ASSUME Inv, NEW c \in Call, NEW k \in Code, NEW a \in Account \cup {NoAccount},
         NEW s \in {"authorized", "denied"}, NEW page \in {"granted", "denied"},
         Decide(c, k, a, s, page), s = "authorized" => a \in Account /\ page = "granted",
         s = "denied" => page = "denied"
  PROVE  Inv'
<1>1. Return(c) /\ UNCHANGED <<now, lastPoll, receipt>>
  BY DEF Decide
<1>2. CASE UNCHANGED <<dc, told>>
  BY <1>1, <1>2, DefaultCall, RequestMoves DEF Return, Inv, TypeOK, SameCodes
<1>3. ASSUME Pending(k), NEW e \in RestTTL(k), dc' = [dc EXCEPT ![k] = Decided(k, a, s, e)],
             told' = [told EXCEPT ![k] = @ \cup {page}] \/ UNCHANGED told
      PROVE  Inv'
  <2>0. dc \in [Code -> DeviceCode] /\ told \in [Code -> SUBSET {"granted", "denied"}]
        /\ dc[k].status = "pending"
    BY <1>3 DEF Inv, TypeOK, Pending
  <2>1. /\ Decided(k, a, s, e) \in DeviceCode
        /\ Decided(k, a, s, e).status = s /\ Decided(k, a, s, e).acct = a
    <3>1. e \in Nat
      BY <1>3, RestIs DEF Pending
    <3> QED BY <2>0, <3>1 DEF Decided, DeviceCode, Status
  <2>2. /\ dc' \in [Code -> DeviceCode] /\ dc'[k].status = s /\ dc'[k].acct = a
        /\ \A j \in Code : j # k => dc'[j] = dc[j]
    BY <1>3, <2>0, <2>1
  <2>3. /\ told' \in [Code -> SUBSET {"granted", "denied"}]
        /\ told'[k] \subseteq told[k] \cup {page}
        /\ \A j \in Code : j # k => told'[j] = told[j]
    BY <1>3, <2>0
  <2>4. \A d \in Call : At(d, "issue") => call[d].code \in Code \ {k}
    BY <2>0 DEF Inv, TypeOK, CallState, Ownership
  <2>5. call' \in [Call -> CallState] /\ Ownership'
    <3>1. \A d \in Call : d # c /\ At(d, "issue") =>
             /\ dc'[call[d].code].status = "used"
             /\ dc'[call[d].code].acct = dc[call[d].code].acct
             /\ receipt'[call[d].code] = <<>>
      BY <1>1, <2>2, <2>4 DEF Inv, Ownership
    <3> QED BY <1>1, <3>1, DefaultCall, OneCallMoves DEF Return
  <2>6. TypeOK'
    BY <1>1, <2>2, <2>3, <2>5 DEF Inv, TypeOK
  <2>7. told[k] = {}
    BY <2>0 DEF Inv, Bookkeeping
  <2>8. Bookkeeping'
    BY <1>1, <2>0, <2>2, <2>3, <2>7 DEF Inv, Bookkeeping
  <2> QED BY <2>5, <2>6, <2>8 DEF Inv
<1> QED BY <1>2, <1>3 DEF Decide

\* A poll claims an authorized code, which is then its own.
LEMMA ClaimInv ==
  ASSUME Inv, NEW c \in Call, ClaimAuthorizedDeviceCode(c)
  PROVE  Inv'
<1> DEFINE k == call[c].code
<1>1. At(c, "claim") /\ UNCHANGED <<now, lastPoll, told, receipt>>
  BY DEF ClaimAuthorizedDeviceCode
<1>2. /\ call \in [Call -> CallState] /\ call[c] \in CallState /\ k \in Code
      /\ dc \in [Code -> DeviceCode] /\ now \in Nat
  BY DEF Inv, TypeOK, CallState
<1>3. CASE UNCHANGED dc /\ Return(c)
  BY <1>1, <1>3, DefaultCall, RequestMoves DEF Return, Inv, TypeOK, SameCodes
<1>4. CASE /\ Claimable(k, call[c].client)
           /\ \E e \in {dc[k].keyExp, now + UsedTTL} :
                  dc' = [dc EXCEPT ![k].status = "used", ![k].keyExp = e]
           /\ \/ call' = [call EXCEPT ![c].pc = "issue", ![c].acct = dc[k].acct]
              \/ Return(c)
  <2>0. dc[k] \in DeviceCode /\ dc[k].status = "authorized" /\ dc[k].acct \in Account
    BY <1>2, <1>4 DEF Claimable, Inv, Bookkeeping
  <2>1. /\ dc' \in [Code -> DeviceCode] /\ dc'[k].status = "used" /\ dc'[k].acct = dc[k].acct
        /\ \A j \in Code : j # k => dc'[j] = dc[j]
    BY <1>2, <1>4, <2>0 DEF DeviceCode, Status
  <2>2. \A d \in Call : At(d, "issue") => call[d].code \in Code \ {k}
    BY <2>0 DEF Inv, TypeOK, CallState, Ownership
  <2>3. receipt[k] = <<>>
    BY <1>2, <2>0 DEF Inv, Bookkeeping
  <2>4. call' \in [Call -> CallState] /\ Ownership'
    <3>1. CASE Return(c)
      <4>1. \A d \in Call : d # c /\ At(d, "issue") =>
               /\ dc'[call[d].code].status = "used"
               /\ dc'[call[d].code].acct = dc[call[d].code].acct
               /\ receipt'[call[d].code] = <<>>
        BY <1>1, <2>1, <2>2 DEF Inv, Ownership
      <4> QED BY <3>1, <4>1, DefaultCall, OneCallMoves DEF Return
    <3>2. CASE call' = [call EXCEPT ![c].pc = "issue", ![c].acct = dc[k].acct]
      <4>1. /\ call' \in [Call -> CallState]
            /\ call'[c].pc = "issue" /\ call'[c].acct = dc[k].acct /\ call'[c].code = k
            /\ \A d \in Call : d # c => call'[d] = call[d]
        BY <1>2, <2>0, <3>2 DEF CallState, PC
      <4> HIDE DEF k
      <4> QED BY <1>1, <2>1, <2>2, <2>3, <4>1 DEF Inv, Ownership
    <3> QED BY <1>4, <3>1, <3>2
  <2>5. TypeOK'
    BY <1>1, <2>1, <2>4 DEF Inv, TypeOK
  <2>6. Bookkeeping'
    BY <1>1, <2>0, <2>1 DEF Inv, Bookkeeping
  <2> QED BY <2>4, <2>5, <2>6 DEF Inv
<1>5. ClaimedTTL(k) \subseteq {dc[k].keyExp, now + UsedTTL}
  BY DEF ClaimedTTL
<1> QED BY <1>3, <1>4, <1>5 DEF ClaimAuthorizedDeviceCode

\* The poll gives the tokens for the code it holds, or fails to.
LEMMA IssueInv ==
  ASSUME Inv, NEW c \in Call, IssueTokens(c)
  PROVE  Inv'
<1> DEFINE k == call[c].code
<1>1. At(c, "issue") /\ Return(c) /\ UNCHANGED <<now, dc, lastPoll, told>>
  BY DEF IssueTokens
<1>2. CASE UNCHANGED receipt
  BY <1>1, <1>2, DefaultCall, RequestMoves DEF Return, Inv, TypeOK, SameCodes
<1>3. CASE receipt' = [receipt EXCEPT ![k] = Append(@, call[c].acct)]
  <2>1. /\ k \in Code /\ dc[k].status = "used" /\ call[c].acct = dc[k].acct
        /\ dc[k].acct \in Account /\ receipt \in [Code -> Seq(Account)]
    BY <1>1 DEF Inv, TypeOK, CallState, Ownership, Bookkeeping
  <2>2. receipt' \in [Code -> Seq(Account)]
    <3>1. Append(receipt[k], call[c].acct) \in Seq(Account)
      BY <2>1
    <3> QED BY <1>3, <2>1, <3>1
  <2>3. \A d \in Call : d # c /\ At(d, "issue") => call[d].code \in Code \ {k}
    BY <1>1 DEF Inv, TypeOK, CallState, Ownership
  <2>4. call' \in [Call -> CallState] /\ Ownership'
    <3>1. \A d \in Call : d # c /\ At(d, "issue") =>
             /\ dc'[call[d].code].status = "used"
             /\ dc'[call[d].code].acct = dc[call[d].code].acct
             /\ receipt'[call[d].code] = <<>>
      BY <1>1, <1>3, <2>1, <2>3 DEF Inv, Ownership
    <3> QED BY <1>1, <3>1, DefaultCall, OneCallMoves DEF Return
  <2>5. TypeOK'
    BY <1>1, <2>2, <2>4 DEF Inv, TypeOK
  <2>6. Bookkeeping'
    BY <1>1, <1>3, <2>1 DEF Inv, Bookkeeping
  <2> QED BY <2>4, <2>5, <2>6 DEF Inv
<1> QED BY <1>2, <1>3 DEF IssueTokens

\* The steps that write nothing but the request, and the poll script, which writes the
\* code back with what is left of its lifetime.
LEMMA QuietInv ==
  ASSUME Inv, NEW c \in Call,
         \/ \E k \in Code, cl \in Client : GetDeviceCode(c, k, cl)
         \/ \E k \in Code, a \in Account, b \in BOOLEAN : DeviceUserSubmit(c, k, a, b)
         \/ CheckAndUpdatePollRate(c) \/ IsAccountActive(c) \/ Crash(c)
  PROVE  /\ Inv' /\ UNCHANGED <<now, told, receipt>> /\ SameCodes
         /\ \A k \in Code : dc'[k] = dc[k] \/ (Exists(k) /\ Exists(k)')
<1>1. /\ call \in [Call -> CallState] /\ call[c] \in CallState /\ dc \in [Code -> DeviceCode]
      /\ lastPoll \in [Code -> Nat] /\ now \in Nat
  BY DEF Inv, TypeOK
<1>2. /\ UNCHANGED <<now, told, receipt>> /\ SameCodes /\ lastPoll' \in [Code -> Nat]
      /\ \A k \in Code : dc'[k] = dc[k] \/ (Exists(k) /\ Exists(k)')
  <2>1. CASE CheckAndUpdatePollRate(c)
    <3>1. call[c].since \in Nat /\ call[c].code \in Code
      BY <1>1 DEF CallState
    <3>2. SameCodes /\ \A k \in Code : dc'[k] = dc[k] \/ (Exists(k) /\ Exists(k)')
      <4>1. PICK k \in Code : k = call[c].code
        BY <3>1
      <4>2. CASE UNCHANGED dc
        BY <1>1, <4>2 DEF SameCodes
      <4>3. ASSUME Exists(k), NEW e \in RestTTL(k),
                   dc' = [dc EXCEPT ![k] = Touched(k, call[c].saw, e)]
            PROVE  SameCodes /\ \A j \in Code : dc'[j] = dc[j] \/ (Exists(j) /\ Exists(j)')
        <5>1. PICK d \in DeviceCode : d = dc[k]
          BY <1>1
        <5>2. PICK n : n = [d EXCEPT !.keyExp = e]
          OBVIOUS
        <5>3. e \in Nat /\ now <= e
          BY <4>3, RestIs
        <5>4. n \in DeviceCode /\ n.status = d.status /\ n.acct = d.acct /\ n.keyExp = e
          BY <5>2, <5>3 DEF DeviceCode
        <5>5. dc' = [dc EXCEPT ![k] = n]
          BY <4>3, <5>1, <5>2 DEF Touched
        <5>6. dc' \in [Code -> DeviceCode] /\ dc'[k] = n /\ \A j \in Code : j # k => dc'[j] = dc[j]
          BY <1>1, <5>4, <5>5
        <5>7. now' = now
          BY <2>1 DEF CheckAndUpdatePollRate
        <5> QED BY <4>3, <5>1, <5>3, <5>4, <5>6, <5>7 DEF SameCodes, Exists
      <4> QED BY <2>1, <4>1, <4>2, <4>3 DEF CheckAndUpdatePollRate
    <3>3. lastPoll' \in [Code -> Nat]
      BY <1>1, <2>1, <3>1 DEF CheckAndUpdatePollRate
    <3> QED BY <2>1, <3>2, <3>3 DEF CheckAndUpdatePollRate
  <2>2. CASE ~CheckAndUpdatePollRate(c)
    BY <1>1, <2>2 DEF GetDeviceCode, DeviceUserSubmit, IsAccountActive, Crash, SameCodes
  <2> QED BY <2>1, <2>2
<1>3. ASSUME NEW st \in CallState, call' = [call EXCEPT ![c] = st], st.pc # "issue",
             st.pc = "authorize" => st.acct \in Account
      PROVE  Inv'
  BY <1>2, <1>3, RequestMoves
<1>4. ASSUME NEW k \in Code, NEW cl \in Client, GetDeviceCode(c, k, cl) PROVE Inv'
  <2> DEFINE st == [pc |-> "rate", code |-> k, acct |-> dc[k].acct, client |-> cl,
                    saw |-> dc[k].status, since |-> now]
  <2>1. st \in CallState /\ st.pc = "rate"
    BY <1>1 DEF CallState, DeviceCode, PC
  <2>2. call' = [call EXCEPT ![c] = st]
    BY <1>4 DEF GetDeviceCode
  <2> HIDE DEF st
  <2> QED BY <1>3, <2>1, <2>2
<1>5. ASSUME NEW k \in Code, NEW a \in Account, NEW b \in BOOLEAN, DeviceUserSubmit(c, k, a, b)
      PROVE  Inv'
  <2> DEFINE p == IF b THEN "authorize" ELSE "deny"
             st == [NoCall EXCEPT !.code = k, !.acct = a, !.pc = p]
  <2>1. p \in PC /\ p # "issue"
    BY DEF PC
  <2> HIDE DEF p
  <2>2. st \in CallState /\ st.pc = p /\ st.acct = a
    BY <2>1, DefaultCall DEF CallState
  <2>3. call' = [call EXCEPT ![c] = st]
    BY <1>5 DEF DeviceUserSubmit, p
  <2> HIDE DEF st
  <2> QED BY <1>3, <2>1, <2>2, <2>3
<1>6. CASE Return(c)
  BY <1>2, <1>3, <1>6, DefaultCall DEF Return
<1>7. ASSUME NEW p \in {"active", "claim"}, Goto(c, p) PROVE Inv'
  <2> DEFINE st == [call[c] EXCEPT !.pc = p]
  <2>1. st \in CallState /\ st.pc = p
    BY <1>1 DEF CallState, PC
  <2>2. call' = [call EXCEPT ![c] = st]
    BY <1>1, <1>7 DEF Goto
  <2> HIDE DEF st
  <2> QED BY <1>3, <2>1, <2>2
<1>8. CASE CheckAndUpdatePollRate(c) \/ IsAccountActive(c) \/ Crash(c)
  <2>1. Return(c) \/ \E p \in {"active", "claim"} : Goto(c, p)
    BY <1>8 DEF CheckAndUpdatePollRate, IsAccountActive, Crash
  <2> QED BY <1>2, <1>6, <1>7, <2>1
<1> QED BY <1>2, <1>4, <1>5, <1>8

\* Every step keeps the invariant.
LEMMA StepInv == Inv /\ [Next]_vars => Inv'
<1> SUFFICES ASSUME Inv, [Next]_vars PROVE Inv'
  OBVIOUS
<1>1. CASE Tick
  BY <1>1 DEF Tick, Inv, TypeOK, Ownership, Bookkeeping, Never
<1>2. ASSUME NEW k \in Code, NEW cl \in Client, DeviceCodeRequest(k, cl) PROVE Inv'
  <2>1. PICK delay \in {0, 1} :
           dc' = [dc EXCEPT ![k] = [status |-> "pending", client |-> cl, acct |-> NoAccount,
                                    expires |-> now + Expiry, keyExp |-> now + delay + Expiry]]
    BY <1>2 DEF DeviceCodeRequest
  <2>2. dc[k].status = "none" /\ UNCHANGED <<now, lastPoll, call, told, receipt>>
    BY <1>2 DEF DeviceCodeRequest
  <2>3. /\ dc' \in [Code -> DeviceCode] /\ dc'[k].status = "pending" /\ dc'[k].acct = NoAccount
        /\ \A j \in Code : j # k => dc'[j] = dc[j]
    BY <2>1 DEF Inv, TypeOK, DeviceCode, Status
  <2>4. TypeOK'
    BY <2>2, <2>3 DEF Inv, TypeOK
  <2>5. Ownership'
    BY <2>2, <2>3 DEF Inv, Ownership, TypeOK, CallState
  <2>6. Bookkeeping'
    BY <2>2, <2>3 DEF Inv, Bookkeeping
  <2> QED BY <2>4, <2>5, <2>6 DEF Inv
<1>3. ASSUME NEW c \in Call, Poll(c) \/ Submit(c) \/ Crash(c) PROVE Inv'
  <2>1. call[c].code \in Code /\ dc[call[c].code].acct \in Account \cup {NoAccount}
    BY DEF Inv, TypeOK, CallState, DeviceCode
  <2>2. CASE AuthorizeDeviceCode(c)
    <3>1. call[c].acct \in Account
      BY <2>2 DEF AuthorizeDeviceCode, Inv, Ownership
    <3> QED BY <2>1, <2>2, <3>1, DecideInv DEF AuthorizeDeviceCode
  <2>3. CASE DenyDeviceCode(c)
    BY <2>1, <2>3, DecideInv DEF DenyDeviceCode
  <2> QED BY <1>3, <2>2, <2>3, QuietInv, ClaimInv, IssueInv DEF Poll, Submit
<1>4. CASE UNCHANGED vars
  BY <1>4 DEF vars, Inv, TypeOK, Ownership, Bookkeeping
<1> QED BY <1>1, <1>2, <1>3, <1>4 DEF Next

\* The inductive invariant holds in every reachable state.
LEMMA AlwaysInv == Spec => []Inv
BY InitInv, StepInv, PTL DEF Spec

\* The keys, the requests and the histories always have their types.
THEOREM DeviceCodesTypeCorrect == Spec => []TypeOK
<1>1. Inv => TypeOK
  BY DEF Inv
<1> QED BY <1>1, AlwaysInv, PTL

\* Whoever was shown that a code is denied can rely on it, and a confirmed approval is
\* never taken back, whichever polls and submissions race.
THEOREM DecisionsAreFinal == Spec => []DecisionIsFinal
<1>1. Inv => DecisionIsFinal
  BY DEF Inv, Ownership, Bookkeeping, DecisionIsFinal
<1> QED BY <1>1, AlwaysInv, PTL

-----------------------------------------------------------------------------
(* The refinement of OneTimeGrant.                                         *)

\* A code whose key is gone.
Lapsed(k) == dc[k].status # "none" /\ now > dc[k].keyExp

\* The stage of a code, by cases that exclude each other.
LEMMA StageIs ==
  ASSUME Inv, NEW k \in Code
  PROVE  /\ receipt[k] # <<>> => Stage(k) = "spent"
         /\ receipt[k] = <<>> /\ (\E c \in Call : Issues(c, k)) => Stage(k) = "taken"
         /\ (receipt[k] = <<>> /\ ~(\E c \in Call : Issues(c, k))
                /\ (dc[k].status \in {"used", "denied"} \/ Lapsed(k))) => Stage(k) = "void"
         /\ dc[k].status = "authorized" /\ ~Lapsed(k) => Stage(k) = "agreed"
         /\ dc[k].status \in {"none", "pending"} /\ ~Lapsed(k) => Stage(k) = "proposed"
<1>1. dc[k].status \notin {"used"} => receipt[k] = <<>> /\ ~(\E c \in Call : Issues(c, k))
  BY DEF Inv, Ownership, Bookkeeping, Issues
<1> QED BY <1>1 DEF Stage, Lapsed, Issues

\* A code that a step does not write, hold or pay out stays where it is.
LEMMA StageFrame ==
  ASSUME NEW k \in Code, now' = now, dc'[k] = dc[k], receipt'[k] = receipt[k],
         (\E c \in Call : Issues(c, k))' <=> \E c \in Call : Issues(c, k)
  PROVE  Stage(k)' = Stage(k)
BY DEF Stage, Issues

\* Before any code is asked for every code maps to a grant that is only proposed.
LEMMA InitRefines == Init => Grants!Init
BY DefaultCall DEF Init, Grants!Init, Stage

\* Every step of the device codes maps to a step of OneTimeGrant or leaves the grants alone.
LEMMA StepRefines ==
  ASSUME Inv, Inv', [Next]_vars
  PROVE  [Grants!Next]_(<<[k \in Code |-> Stage(k)], [k \in Code |-> dc[k].acct], receipt>>)
<1> DEFINE stage == [k \in Code |-> Stage(k)]
           terms == [k \in Code |-> dc[k].acct]
<1>0. /\ call \in [Call -> CallState] /\ dc \in [Code -> DeviceCode] /\ now \in Nat
      /\ receipt \in [Code -> Seq(Account)] /\ call' \in [Call -> CallState]
  BY DEF Inv, TypeOK
\* A code that is void afterwards, alone of all codes, has been voided.
<1>1. ASSUME NEW k \in Code, stage[k] # "spent", stage'[k] = "void",
             \A j \in Code : j # k => stage'[j] = stage[j], terms' = terms, receipt' = receipt
      PROVE  Grants!Next
  <2>1. stage' = [j \in Code |-> IF j \in {k} THEN "void" ELSE stage[j]]
    BY <1>1
  <2>2. Grants!Void({k})
    BY <1>1, <2>1 DEF Grants!Void
  <2> QED BY <2>2 DEF Grants!Next
\* Which codes are held after a request that holds none, or holds k, has returned.
<1>2. ASSUME NEW c \in Call, Return(c), NEW j \in Code, ~Issues(c, j)
      PROVE  (\E d \in Call : Issues(d, j))' <=> \E d \in Call : Issues(d, j)
  BY <1>0, <1>2, DefaultCall DEF Return, Issues
<1>3. CASE Tick
  <2>1. now' = now + 1 /\ UNCHANGED <<dc, call, receipt>>
    BY <1>3 DEF Tick
  <2>2. \A k \in Code : Stage(k)' = Stage(k) \/ (Stage(k)' = "void" /\ Stage(k) # "spent")
    <3>1. \A k \in Code : dc[k].keyExp \in Nat
      BY <1>0 DEF DeviceCode
    <3> QED BY <1>0, <2>1, <3>1 DEF Stage
  <2> DEFINE G == {k \in Code : Stage(k)' # Stage(k)}
  <2>3. stage' = [k \in Code |-> IF k \in G THEN "void" ELSE stage[k]]
    BY <2>2
  <2>4. \A k \in G : stage[k] # "spent"
    BY <2>2
  <2>5. Grants!Void(G)
    BY <2>1, <2>3, <2>4 DEF Grants!Void
  <2> HIDE DEF G
  <2> QED BY <2>5 DEF Grants!Next, G
<1>4. ASSUME NEW k \in Code, NEW cl \in Client, DeviceCodeRequest(k, cl)
      PROVE  UNCHANGED <<stage, terms, receipt>>
  <2>1. PICK delay \in {0, 1} :
           dc' = [dc EXCEPT ![k] = [status |-> "pending", client |-> cl, acct |-> NoAccount,
                                    expires |-> now + Expiry, keyExp |-> now + delay + Expiry]]
    BY <1>4 DEF DeviceCodeRequest
  <2>2. dc[k].status = "none" /\ UNCHANGED <<now, call, receipt>>
    BY <1>4 DEF DeviceCodeRequest
  <2>3. /\ dc'[k].status = "pending" /\ dc'[k].acct = NoAccount
        /\ dc'[k].keyExp = now + delay + Expiry
        /\ \A j \in Code : j # k => dc'[j] = dc[j]
    BY <1>0, <2>1
  <2>4. dc[k].acct = NoAccount /\ receipt[k] = <<>> /\ ~\E c \in Call : Issues(c, k)
    BY <2>2 DEF Inv, Ownership, Bookkeeping, Issues
  <2>5. stage'[k] = stage[k]
    <3>1. ~(now > dc'[k].keyExp)
      BY <1>0, <2>3
    <3> QED BY <2>2, <2>3, <2>4, <3>1 DEF Stage, Issues
  <2>6. \A j \in Code : j # k => stage'[j] = stage[j]
    BY <2>2, <2>3, StageFrame DEF Issues
  <2>7. terms' = terms
    BY <2>3, <2>4
  <2> QED BY <2>2, <2>5, <2>6, <2>7
\* A user's decision: an approval is the agreement, a denial voids the code.
<1>5. ASSUME NEW c \in Call, AuthorizeDeviceCode(c) \/ DenyDeviceCode(c)
      PROVE  Grants!Next \/ UNCHANGED <<stage, terms, receipt>>
  <2>0. PICK k \in Code : k = call[c].code
    BY <1>0 DEF CallState
  <2>1. /\ Return(c) /\ UNCHANGED <<now, receipt>> /\ \A j \in Code : ~Issues(c, j)
    BY <1>5 DEF AuthorizeDeviceCode, DenyDeviceCode, Decide, Issues
  <2>2. CASE UNCHANGED dc
    <3>1. \A j \in Code : stage'[j] = stage[j]
      BY <1>2, <2>1, <2>2, StageFrame
    <3> QED BY <2>1, <2>2, <3>1
  <2>3. CASE ~UNCHANGED dc
    <3>1. /\ Pending(k)
          /\ \/ /\ At(c, "authorize")
                /\ \E e \in RestTTL(k) :
                       dc' = [dc EXCEPT ![k] = Decided(k, call[c].acct, "authorized", e)]
             \/ /\ At(c, "deny")
                /\ \E e \in RestTTL(k) :
                       dc' = [dc EXCEPT ![k] = Decided(k, dc[k].acct, "denied", e)]
      BY <1>5, <2>0, <2>3 DEF AuthorizeDeviceCode, DenyDeviceCode, Decide
    <3>2. dc[k].status = "pending" /\ ~Lapsed(k) /\ dc[k] \in DeviceCode /\ dc[k].keyExp \in Nat
      BY <1>0, <3>1 DEF Pending, Exists, Lapsed, DeviceCode
    <3>3. stage[k] = "proposed" /\ receipt[k] = <<>> /\ ~\E d \in Call : Issues(d, k)
      BY <3>2, StageIs DEF Inv, Ownership, Bookkeeping, Issues
    <3>4. ~(\E d \in Call : Issues(d, k))'
      BY <1>2, <2>1, <3>3
    <3>5. ASSUME At(c, "authorize"), NEW e \in RestTTL(k),
                 dc' = [dc EXCEPT ![k] = Decided(k, call[c].acct, "authorized", e)]
          PROVE  Grants!Next
      <4>1. call[c].acct \in Account
        BY <3>5 DEF Inv, Ownership
      <4>2. /\ dc'[k].status = "authorized" /\ dc'[k].acct = call[c].acct
            /\ dc'[k].keyExp = e /\ e \in Nat /\ now <= e
            /\ \A j \in Code : j # k => dc'[j] = dc[j]
        BY <1>0, <3>1, <3>2, <3>5, <4>1, RestIs DEF Decided, DeviceCode, Pending
      <4>3. stage'[k] = "agreed"
        BY <1>0, <2>1, <3>3, <3>4, <4>2 DEF Stage, Issues
      <4>4. \A j \in Code : j # k => stage'[j] = stage[j]
        BY <1>2, <2>1, <4>2, StageFrame
      <4>5. stage' = [stage EXCEPT ![k] = "agreed"] /\ terms' = [terms EXCEPT ![k] = call[c].acct]
        BY <4>2, <4>3, <4>4
      <4>6. PICK a \in Account : a = call[c].acct
        BY <4>1
      <4>7. Grants!Agree(k, a)
        BY <2>1, <3>3, <4>5, <4>6 DEF Grants!Agree
      <4> QED BY <4>7 DEF Grants!Next
    <3>6. ASSUME NEW e \in RestTTL(k), dc' = [dc EXCEPT ![k] = Decided(k, dc[k].acct, "denied", e)]
          PROVE  Grants!Next
      <4>1. /\ dc'[k].status = "denied" /\ dc'[k].acct = dc[k].acct
            /\ \A j \in Code : j # k => dc'[j] = dc[j]
        BY <1>0, <3>2, <3>6 DEF Decided, DeviceCode
      <4>2. stage'[k] = "void"
        BY <2>1, <3>3, <3>4, <4>1 DEF Stage, Issues
      <4>3. \A j \in Code : j # k => stage'[j] = stage[j]
        BY <1>2, <2>1, <4>1, StageFrame
      <4>4. terms' = terms
        BY <4>1
      <4> QED BY <1>1, <2>1, <3>3, <4>2, <4>3, <4>4
    <3> QED BY <3>1, <3>5, <3>6
  <2> QED BY <2>2, <2>3
\* The claim takes the code, or, when its reply is lost, voids it.
<1>6. ASSUME NEW c \in Call, ClaimAuthorizedDeviceCode(c)
      PROVE  Grants!Next \/ UNCHANGED <<stage, terms, receipt>>
  <2>0. PICK k \in Code : k = call[c].code
    BY <1>0 DEF CallState
  <2>1. At(c, "claim") /\ UNCHANGED <<now, receipt>> /\ \A j \in Code : ~Issues(c, j)
    BY <1>6 DEF ClaimAuthorizedDeviceCode, Issues
  <2>2. CASE UNCHANGED dc /\ Return(c)
    <3>1. \A j \in Code : stage'[j] = stage[j]
      BY <1>2, <2>1, <2>2, StageFrame
    <3> QED BY <2>1, <2>2, <3>1
  <2>3. CASE /\ Claimable(k, call[c].client)
             /\ \E e \in {dc[k].keyExp, now + UsedTTL} :
                    dc' = [dc EXCEPT ![k].status = "used", ![k].keyExp = e]
             /\ \/ call' = [call EXCEPT ![c].pc = "issue", ![c].acct = dc[k].acct]
                \/ Return(c)
    <3>1. dc[k].status = "authorized" /\ ~Lapsed(k) /\ dc[k] \in DeviceCode
      BY <1>0, <2>3 DEF Claimable, Exists, Lapsed, DeviceCode
    <3>2. stage[k] = "agreed" /\ receipt[k] = <<>> /\ ~\E d \in Call : Issues(d, k)
      BY <3>1, StageIs DEF Inv, Ownership, Bookkeeping, Issues
    <3>3. /\ dc'[k].status = "used" /\ dc'[k].acct = dc[k].acct
          /\ \A j \in Code : j # k => dc'[j] = dc[j]
      BY <1>0, <2>3, <3>1 DEF DeviceCode
    <3>4. terms' = terms
      BY <3>3
    <3>5. CASE Return(c)
      <4>1. stage'[k] = "void"
        BY <1>2, <2>1, <3>2, <3>3, <3>5 DEF Stage, Issues
      <4>2. \A j \in Code : j # k => stage'[j] = stage[j]
        BY <1>2, <2>1, <3>3, <3>5, StageFrame
      <4> QED BY <1>1, <2>1, <3>2, <3>4, <4>1, <4>2
    <3>6. CASE call' = [call EXCEPT ![c].pc = "issue", ![c].acct = dc[k].acct]
      <4>1. /\ call'[c].pc = "issue" /\ call'[c].code = k
            /\ \A d \in Call : d # c => call'[d] = call[d]
        BY <1>0, <2>0, <3>6 DEF CallState
      <4>2. stage'[k] = "taken"
        BY <2>1, <3>2, <4>1 DEF Stage
      <4>3. \A j \in Code : j # k =>
               ((\E d \in Call : Issues(d, j))' <=> \E d \in Call : Issues(d, j))
        BY <2>1, <4>1 DEF Issues
      <4>4. \A j \in Code : j # k => stage'[j] = stage[j]
        BY <2>1, <3>3, <4>3, StageFrame
      <4>5. stage' = [stage EXCEPT ![k] = "taken"]
        BY <4>2, <4>4
      <4>6. Grants!Take(k)
        BY <2>1, <3>2, <3>4, <4>5 DEF Grants!Take
      <4> QED BY <4>6 DEF Grants!Next
    <3> QED BY <2>3, <3>5, <3>6
  <2>4. ClaimedTTL(k) \subseteq {dc[k].keyExp, now + UsedTTL}
    BY DEF ClaimedTTL
  <2> QED BY <1>6, <2>0, <2>2, <2>3, <2>4 DEF ClaimAuthorizedDeviceCode
\* The request that holds a code hands out its tokens, or ends and voids it.
<1>7. ASSUME NEW c \in Call, IssueTokens(c) \/ (Crash(c) /\ At(c, "issue"))
      PROVE  Grants!Next
  <2>0. PICK k \in Code : k = call[c].code
    BY <1>0 DEF CallState
  <2>1. At(c, "issue") /\ Return(c) /\ UNCHANGED <<now, dc>>
    BY <1>7 DEF IssueTokens, Crash
  <2>2. /\ dc[k].status = "used" /\ call[c].acct = dc[k].acct /\ receipt[k] = <<>>
        /\ \A d \in Call : d # c => ~Issues(d, k)
    BY <2>0, <2>1 DEF Inv, Ownership, Issues
  <2>3. stage[k] = "taken"
    BY <2>0, <2>1, <2>2, StageIs DEF Issues
  <2>4. \A j \in Code : j # k =>
           ((\E d \in Call : Issues(d, j))' <=> \E d \in Call : Issues(d, j))
    <3>1. \A j \in Code : j # k => ~Issues(c, j)
      BY <2>0 DEF Issues
    <3> QED BY <1>2, <2>1, <3>1
  <2>5. ~(\E d \in Call : Issues(d, k))'
    BY <1>0, <2>1, <2>2, DefaultCall DEF Return, Issues
  <2>6. CASE UNCHANGED receipt
    <3>1. stage'[k] = "void"
      BY <2>1, <2>2, <2>5, <2>6 DEF Stage, Issues
    <3>2. \A j \in Code : j # k => stage'[j] = stage[j]
      BY <2>1, <2>4, <2>6, StageFrame
    <3> QED BY <1>1, <2>1, <2>3, <2>6, <3>1, <3>2
  <2>7. CASE receipt' = [receipt EXCEPT ![k] = Append(@, call[c].acct)]
    <3>1. Append(<<>>, call[c].acct) = <<call[c].acct>>
      OBVIOUS
    <3>2. /\ receipt' = [receipt EXCEPT ![k] = <<terms[k]>>]
          /\ receipt'[k] = <<terms[k]>> /\ \A j \in Code : j # k => receipt'[j] = receipt[j]
      BY <1>0, <2>2, <2>7, <3>1
    <3>3. stage'[k] = "spent"
      BY <3>2 DEF Stage
    <3>4. \A j \in Code : j # k => stage'[j] = stage[j]
      BY <2>1, <2>4, <3>2, StageFrame
    <3>5. stage' = [stage EXCEPT ![k] = "spent"] /\ terms' = terms
      BY <2>1, <3>3, <3>4
    <3>6. Grants!HandOut(k)
      BY <2>3, <3>2, <3>5 DEF Grants!HandOut
    <3> QED BY <3>6 DEF Grants!Next
  <2> QED BY <1>7, <2>0, <2>6, <2>7 DEF IssueTokens, Crash
\* The other steps of a request, which does not hold a code before or after.
<1>8. ASSUME NEW c \in Call, ~At(c, "issue"),
             \/ \E k \in Code, cl \in Client : GetDeviceCode(c, k, cl)
             \/ \E k \in Code, a \in Account, b \in BOOLEAN : DeviceUserSubmit(c, k, a, b)
             \/ CheckAndUpdatePollRate(c) \/ IsAccountActive(c) \/ Crash(c)
      PROVE  UNCHANGED <<stage, terms, receipt>>
  <2>1. /\ UNCHANGED <<now, receipt>> /\ SameCodes
        /\ \A k \in Code : dc'[k] = dc[k] \/ (Exists(k) /\ Exists(k)')
    BY <1>8, QuietInv
  <2> DEFINE Silent == call'[c].pc # "issue" /\ \A d \in Call : d # c => call'[d] = call[d]
  <2>2. Silent
    <3>1. ASSUME NEW k \in Code, NEW cl \in Client, GetDeviceCode(c, k, cl) PROVE  Silent
      BY <1>0, <3>1 DEF GetDeviceCode
    <3>2. ASSUME NEW k \in Code, NEW a \in Account, NEW b \in BOOLEAN, DeviceUserSubmit(c, k, a, b)
          PROVE  Silent
      <4> DEFINE p == IF b THEN "authorize" ELSE "deny"
                 st == [NoCall EXCEPT !.code = k, !.acct = a, !.pc = p]
      <4>1. call' = [call EXCEPT ![c] = st]
        BY <3>2 DEF DeviceUserSubmit
      <4>2. st.pc # "issue"
        BY DEF NoCall
      <4> HIDE DEF st
      <4> QED BY <1>0, <4>1, <4>2
    <3>3. CASE Return(c)
      BY <1>0, <3>3, DefaultCall DEF Return
    <3>4. ASSUME NEW p \in {"active", "claim"}, Goto(c, p) PROVE  Silent
      BY <1>0, <3>4 DEF Goto, CallState
    <3>5. CASE CheckAndUpdatePollRate(c) \/ IsAccountActive(c) \/ Crash(c)
      <4>1. Return(c) \/ \E p \in {"active", "claim"} : Goto(c, p)
        BY <3>5 DEF CheckAndUpdatePollRate, IsAccountActive, Crash
      <4> QED BY <3>3, <3>4, <4>1
    <3> QED BY <1>8, <3>1, <3>2, <3>5
  <2>3. \A j \in Code : (\E d \in Call : Issues(d, j))' <=> \E d \in Call : Issues(d, j)
    BY <1>8, <2>2 DEF Issues
  <2>4. \A j \in Code : stage'[j] = stage[j]
    <3>1. ASSUME NEW j \in Code, Exists(j), Exists(j)' PROVE Stage(j)' = Stage(j)
      <4>1. dc[j].keyExp \in Nat /\ dc'[j].keyExp \in Nat
        BY <1>0, <2>1 DEF SameCodes, DeviceCode
      <4>2. now <= dc[j].keyExp /\ now' <= dc'[j].keyExp /\ dc'[j].status = dc[j].status
        BY <2>1, <3>1 DEF Exists, SameCodes
      <4> QED BY <1>0, <2>1, <2>3, <4>1, <4>2 DEF Stage, Issues
    <3> QED BY <2>1, <2>3, <3>1, StageFrame
  <2>5. terms' = terms
    BY <2>1 DEF SameCodes
  <2> QED BY <2>1, <2>4, <2>5
<1>9. CASE UNCHANGED vars
  BY <1>9 DEF vars, Stage
<1>10. ASSUME NEW c \in Call, Poll(c) \/ Submit(c) \/ Crash(c)
       PROVE  Grants!Next \/ UNCHANGED <<stage, terms, receipt>>
  <2>1. CASE At(c, "issue")
    BY <1>10, <2>1, <1>7 DEF Poll, Submit, Crash, GetDeviceCode, DeviceUserSubmit,
       CheckAndUpdatePollRate, IsAccountActive, ClaimAuthorizedDeviceCode,
       AuthorizeDeviceCode, DenyDeviceCode
  <2>2. CASE ~At(c, "issue")
    BY <1>10, <2>2, <1>5, <1>6, <1>7, <1>8 DEF Poll, Submit
  <2> QED BY <2>1, <2>2
<1> QED BY <1>3, <1>4, <1>9, <1>10 DEF Next

\* Device codes implement OneTimeGrant: one user agrees once, one poll takes the code, and
\* tokens are given at most once, for the account that approved.
THEOREM DeviceCodesAreOneTimeGrants == Spec => ImplementsOneTimeGrant
<1>1. Inv /\ Inv' /\ [Next]_vars
      => [Grants!Next]_(<<[k \in Code |-> Stage(k)], [k \in Code |-> dc[k].acct], receipt>>)
  BY StepRefines
<1> QED
  BY AlwaysInv, InitRefines, <1>1, PTL DEF Spec, ImplementsOneTimeGrant, Grants!Spec
=============================================================================
