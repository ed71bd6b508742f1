-------------------------- MODULE IdentitiesProofs --------------------------
(***************************************************************************)
(* Proofs about Identities, for any accounts, addresses, codes, identities *)
(* and requests, with or without faults: an address is verified only if it *)
(* was proved, a code is accepted once, a login through a provider enters  *)
(* no account that it did not make and that has not proved the address,    *)
(* and no deleted one, and a bound identity is kept.                       *)
(*                                                                         *)
(* Between the check and the write of a request anything may happen to the *)
(* database, so the invariant says what each request knows that cannot be  *)
(* undone: which address it has proved, which address the provider named,  *)
(* whom the identity may enter, and who was deleted before it began.       *)
(***************************************************************************)
EXTENDS Identities, TLAPS

\* What a request knows at each of its steps.
ReqOK(q) ==
    /\ q.dead \subseteq {a \in Account : status[a] = "deleted"}
    /\ q.pc \in {"cooldown", "store", "setcool", "send", "rollback"} =>
           q.email \in Email /\ q.acct \in Account
    /\ q.pc \in {"verify", "mark", "change", "update"} => <<q.email, q.acct>> \in proved
    /\ q.pc \in {"link", "relink", "create"} =>
           /\ q.id \in Identity
           /\ q.email # NoEmail => <<q.id, q.email>> \in told
           /\ q.vouched \/ q.pc # "create" => q.email # NoEmail
    /\ q.pc \in {"bind", "login", "session"} =>
           q.id \in Identity /\ q.acct \in Account /\ MadeOrProved(q.id, q.acct)
    /\ q.pc = "session" => q.acct \notin q.dead

ReqsInv == \A r \in Req : ReqOK(req[r])

\* A stored code was mailed to its address for its account; a code not yet drawn was not
\* accepted.
CodesInv ==
    /\ \A e \in Email : code[e].id # NoCode => mailed[code[e].id] = <<e, code[e].acct>>
    /\ \A c \in Code : mailed[c][1] = NoEmail => accepted[c] = 0

\* An identity is bound to an account that it may enter.
BoundInv == \A i \in Identity : fed[i] # NoAccount => MadeOrProved(i, fed[i])

Inv ==
    /\ TypeOK
    /\ VerifiedMeansProved
    /\ CodesInv /\ CodesUsedOnce
    /\ BoundInv
    /\ ReqsInv
    /\ bad = {}

USE IdentitiesAssumption

-----------------------------------------------------------------------------
(* Lemmas about requests and about addresses.                              *)

\* An idle request is well formed.
LEMMA IdleReq == NoReq \in ReqState /\ NoReq.pc = "idle" /\ NoReq.dead = {}
BY DEF NoReq, ReqState, PC, Owner, Address

\* A request that has just begun knows who is deleted.
LEMMA BegunReq ==
    ASSUME NEW p \in PC
    PROVE  /\ Begun(p) \in ReqState /\ Begun(p).pc = p
           /\ Begun(p).dead = {a \in Account : status[a] = "deleted"}
           /\ Begun(p).acct = NoAccount /\ Begun(p).email = NoEmail /\ Begun(p).id = NoIdentity
           /\ ~Begun(p).vouched
BY DEF Begun, NoReq, ReqState, PC, Owner, Address

\* What requests know is never undone.
Grows ==
    /\ proved \subseteq proved' /\ told \subseteq told' /\ made \subseteq made'
    /\ \A a \in Account : status[a] = "deleted" => status'[a] = "deleted"

\* Who may enter may still enter.
LEMMA MadeOrProvedGrows ==
    ASSUME Grows, NEW i, NEW a, MadeOrProved(i, a)
    PROVE  MadeOrProved(i, a)'
BY DEF Grows, MadeOrProved

\* What one request knows stays true.
LEMMA ReqStays ==
    ASSUME Grows, NEW q, ReqOK(q)
    PROVE  ReqOK(q)'
<1>1. MadeOrProved(q.id, q.acct) => MadeOrProved(q.id, q.acct)'
    BY MadeOrProvedGrows
<1>2. q.dead \subseteq {a \in Account : status'[a] = "deleted"}
    BY DEF ReqOK, Grows
<1> QED BY <1>1, <1>2 DEF ReqOK, Grows

\* A step that replaces one request by a well-formed one keeps what is said of them all.
LEMMA OneReqMoves ==
    ASSUME req \in [Req -> ReqState], ReqsInv, Grows, NEW r \in Req, NEW st \in ReqState,
           req' = [req EXCEPT ![r] = st], ReqOK(st)'
    PROVE  req' \in [Req -> ReqState] /\ ReqsInv'
<1>1. ASSUME NEW s \in Req PROVE ReqOK(req[s])'
    <2>1. CASE s = r
        <3>1. req'[s] = st
            BY <2>1
        <3> QED BY <3>1 DEF ReqOK, MadeOrProved
    <2>2. CASE s # r
        <3>1. PICK q : q = req[s]
            OBVIOUS
        <3>2. req'[s] = q
            BY <2>2, <3>1
        <3>3. ReqOK(q)'
            BY <3>1, ReqStays DEF ReqsInv
        <3> QED BY <3>2, <3>3 DEF ReqOK, MadeOrProved
    <2> QED BY <2>1, <2>2
<1> QED BY <1>1 DEF ReqsInv

\* Returning is such a step.
LEMMA ReturnMoves ==
    ASSUME req \in [Req -> ReqState], ReqsInv, Grows, NEW r \in Req, Return(r)
    PROVE  req' \in [Req -> ReqState] /\ ReqsInv'
<1>1. ReqOK(NoReq)'
    BY IdleReq DEF ReqOK
<1> QED BY <1>1, IdleReq, OneReqMoves DEF Return

\* What going on to another step leaves alone.
LEMMA GotoFields ==
    ASSUME NEW q \in ReqState, NEW p \in PC
    PROVE  /\ [q EXCEPT !.pc = p] \in ReqState
           /\ [q EXCEPT !.pc = p].pc = p /\ [q EXCEPT !.pc = p].email = q.email
           /\ [q EXCEPT !.pc = p].acct = q.acct /\ [q EXCEPT !.pc = p].id = q.id
           /\ [q EXCEPT !.pc = p].vouched = q.vouched /\ [q EXCEPT !.pc = p].dead = q.dead
BY DEF ReqState

\* Going on to another step is such a step, too.
LEMMA GotoMoves ==
    ASSUME req \in [Req -> ReqState], ReqsInv, Grows, NEW r \in Req, NEW p \in PC, Goto(r, p),
           ReqOK([req[r] EXCEPT !.pc = p])
    PROVE  req' \in [Req -> ReqState] /\ ReqsInv'
<1>1. [req[r] EXCEPT !.pc = p] \in ReqState
    BY GotoFields
<1>2. req' = [req EXCEPT ![r] = [req[r] EXCEPT !.pc = p]]
    BY DEF Goto
<1>3. PICK st \in ReqState : ReqOK(st) /\ req' = [req EXCEPT ![r] = st]
    BY <1>1, <1>2
<1>4. ReqOK(st)'
    BY <1>3, ReqStays
<1> QED BY <1>3, <1>4, OneReqMoves

\* No request moves.
LEMMA NoReqMoves ==
    ASSUME req \in [Req -> ReqState], ReqsInv, Grows, req' = req
    PROVE  req' \in [Req -> ReqState] /\ ReqsInv'
<1>1. ASSUME NEW s \in Req PROVE ReqOK(req[s])'
    <2>1. PICK q : q = req[s]
        OBVIOUS
    <2>2. ReqOK(q)'
        BY <2>1, ReqStays DEF ReqsInv
    <2> QED BY <2>1, <2>2 DEF ReqOK, MadeOrProved
<1> QED BY <1>1 DEF ReqsInv

\* OwnerOf finds the account of an address, if it has one.
LEMMA OwnerFound ==
    ASSUME TypeOK, NEW e \in Email
    PROVE  /\ OwnerOf(e) \in Owner
           /\ OwnerOf(e) # NoAccount => OwnerOf(e) \in Account /\ mail[OwnerOf(e)].email = e
           /\ \A a \in Account : mail[a].email = e => OwnerOf(e) = a
<1>1. \A a, b \in Account : mail[a].email = e /\ mail[b].email = e => a = b
    BY DEF TypeOK
<1>2. CASE \E a \in Account : mail[a].email = e
    <2>1. OwnerOf(e) = CHOOSE a \in Account : mail[a].email = e
        BY <1>2 DEF OwnerOf
    <2>2. OwnerOf(e) \in Account /\ mail[OwnerOf(e)].email = e
        BY <1>2, <2>1, Zenon
    <2> QED BY <1>1, <2>2 DEF Owner
<1>3. CASE ~\E a \in Account : mail[a].email = e
    BY <1>3 DEF OwnerOf, Owner
<1> QED BY <1>2, <1>3

\* Writing an address that is nobody else's keeps addresses apart.
LEMMA MailWritten ==
    ASSUME TypeOK, NEW a \in Account, NEW m \in Mail, mail' = [mail EXCEPT ![a] = m],
           m.email # NoEmail => \A b \in Account \ {a} : mail[b].email # m.email
    PROVE  /\ mail' \in [Account -> Mail]
           /\ \A x, y \in Account : mail'[x].email = mail'[y].email
                                    => x = y \/ mail'[x].email = NoEmail
           /\ mail'[a] = m /\ \A b \in Account : b # a => mail'[b] = mail[b]
<1>1. mail \in [Account -> Mail]
    BY DEF TypeOK
<1>2. mail'[a] = m /\ \A b \in Account : b # a => mail'[b] = mail[b]
    BY <1>1
<1> QED BY <1>1, <1>2 DEF TypeOK

-----------------------------------------------------------------------------
(* The steps that only move a request.                                     *)

\* The rest of the invariant does not mention the requests.
LEMMA QuietKeeps ==
    ASSUME Inv, UNCHANGED <<store, codes, history>>, asked' \in Nat,
           req' \in [Req -> ReqState], ReqsInv'
    PROVE  Inv'
<1>1. TypeOK'
    BY DEF Inv, TypeOK, store, codes, history
<1> QED BY <1>1 DEF Inv, VerifiedMeansProved, CodesInv, CodesUsedOnce, BoundInv, MadeOrProved,
               store, codes, history

\* One request moves to what it may know, and nothing else happens.
LEMMA QuietMoves ==
    ASSUME Inv, UNCHANGED <<store, codes, history>>, asked' \in Nat, NEW r \in Req,
           NEW st \in ReqState, req' = [req EXCEPT ![r] = st], ReqOK(st)
    PROVE  Inv'
<1>1. Grows
    BY DEF Grows, store, history
<1>2. ReqOK(st)'
    BY <1>1, ReqStays
<1>3. req' \in [Req -> ReqState] /\ ReqsInv'
    BY <1>1, <1>2, OneReqMoves DEF Inv, TypeOK
<1> QED BY <1>3, QuietKeeps

\* One request returns, and nothing else happens.
LEMMA QuietReturn ==
    ASSUME Inv, UNCHANGED <<store, codes, history>>, asked' \in Nat, NEW r \in Req, Return(r)
    PROVE  Inv'
<1>1. ReqOK(NoReq)
    BY IdleReq DEF ReqOK
<1> QED BY <1>1, IdleReq, QuietMoves DEF Return

\* A request for a new account, or for a code, begins.
LEMMA AskInv ==
    ASSUME Inv, NEW r \in Req,
           AdminCreateAccount(r) \/ SendVerification(r) \/ RequestEmailChange(r)
    PROVE  Inv'
<1>1. Arrive(r) /\ UNCHANGED <<store, codes, history>>
    BY Zenon DEF AdminCreateAccount, RegisterAccount, SendVerification, RequestEmailChange,
       Authenticated
<1>2. asked' \in Nat /\ live \subseteq Account
    BY <1>1 DEF Arrive, Inv, TypeOK
<1>3. CASE Answer(r, NoReq)
    BY <1>1, <1>2, <1>3, QuietReturn DEF Answer, Return
<1>4. ASSUME NEW e \in Address, Answer(r, [Begun("register") EXCEPT !.email = e]) PROVE Inv'
    <2> DEFINE st == [Begun("register") EXCEPT !.email = e]
    <2>1. "register" \in PC
        BY DEF PC
    <2>2. /\ st \in ReqState /\ st.pc = "register"
          /\ st.dead = {a \in Account : status[a] = "deleted"}
        BY <2>1, BegunReq DEF ReqState
    <2>3. ReqOK(st)
        BY <2>2 DEF ReqOK
    <2> HIDE DEF st
    <2> QED BY <1>1, <1>2, <1>4, <2>2, <2>3, QuietMoves DEF Answer, st
<1>5. ASSUME NEW a \in Account, NEW e \in Email,
             Answer(r, [Begun("cooldown") EXCEPT !.acct = a, !.email = e])
      PROVE  Inv'
    <2> DEFINE st == [Begun("cooldown") EXCEPT !.acct = a, !.email = e]
    <2>1. /\ Begun("cooldown") \in ReqState /\ Begun("cooldown").pc = "cooldown"
          /\ Begun("cooldown").dead = {b \in Account : status[b] = "deleted"}
        BY BegunReq DEF PC
    <2>2. /\ st \in ReqState /\ st.pc = "cooldown" /\ st.acct = a /\ st.email = e
          /\ st.dead = {b \in Account : status[b] = "deleted"}
        BY <2>1 DEF ReqState, Owner, Address
    <2>3. ReqOK(st)
        BY <2>2 DEF ReqOK
    <2> HIDE DEF st
    <2> QED BY <1>1, <1>2, <1>5, <2>2, <2>3, QuietMoves DEF Answer, st
<1>6. CASE AdminCreateAccount(r)
    BY <1>3, <1>4, <1>6 DEF AdminCreateAccount, RegisterAccount
<1>7. CASE SendVerification(r) \/ RequestEmailChange(r)
    BY <1>3, <1>5, <1>7 DEF SendVerification, RequestEmailChange
<1> QED BY <1>6, <1>7

\* The steps that read and decide.
LEMMA ReadInv ==
    ASSUME Inv, NEW r \in Req,
           \/ SendCode(r) \/ SendVerificationCode(r) \/ ConfirmVerificationCredential(r)
           \/ UpdateEmail(r) \/ linkByEmailIfVerified(r) \/ loginExistingUser(r) \/ Fail(r)
    PROVE  Inv'
<1> DEFINE q == req[r]
<1>1. UNCHANGED <<store, codes, asked, history>>
    BY DEF SendCode, SendVerificationCode, ConfirmVerificationCredential, UpdateEmail,
           linkByEmailIfVerified, loginExistingUser, Fail
<1>2. TypeOK /\ asked' \in Nat /\ req \in [Req -> ReqState] /\ q \in ReqState /\ ReqOK(q)
    BY <1>1 DEF Inv, TypeOK, ReqsInv
<1>3. ASSUME NEW st \in ReqState, req' = [req EXCEPT ![r] = st], ReqOK(st)
      PROVE  Inv'
    BY <1>1, <1>2, <1>3, QuietMoves
<1>4. CASE Return(r)
    BY <1>1, <1>2, <1>4, QuietReturn
<1>5. ASSUME NEW p \in PC, Goto(r, p), ReqOK([q EXCEPT !.pc = p]) PROVE Inv'
    <2> DEFINE st == [q EXCEPT !.pc = p]
    <2>1. st \in ReqState
        BY <1>2 DEF ReqState
    <2>2. req' = [req EXCEPT ![r] = st]
        BY <1>2, <1>5 DEF Goto
    <2> HIDE DEF st
    <2> QED BY <1>3, <1>5, <2>1, <2>2 DEF st
\* The fields that Goto leaves alone.
<1>6. ASSUME NEW p \in PC
      PROVE  /\ [q EXCEPT !.pc = p].pc = p /\ [q EXCEPT !.pc = p].email = q.email
             /\ [q EXCEPT !.pc = p].acct = q.acct /\ [q EXCEPT !.pc = p].id = q.id
             /\ [q EXCEPT !.pc = p].vouched = q.vouched /\ [q EXCEPT !.pc = p].dead = q.dead
    BY <1>2 DEF ReqState
<1>7. CASE (SendCode(r) /\ Goto(r, "store")) \/ (SendVerificationCode(r) /\ Goto(r, "rollback"))
    <2>1. q.email \in Email /\ q.acct \in Account
        BY <1>2, <1>7 DEF SendCode, SendVerificationCode, At, ReqOK
    <2>2. "store" \in PC /\ "rollback" \in PC
        BY DEF PC
    <2>3. ReqOK([q EXCEPT !.pc = "store"]) /\ ReqOK([q EXCEPT !.pc = "rollback"])
        BY <1>2, <1>6, <2>1, <2>2 DEF ReqOK
    <2> QED BY <1>5, <1>7, <2>2, <2>3
<1>8. CASE ConfirmVerificationCredential(r) /\ ~Return(r)
    <2> DEFINE st == [q EXCEPT !.pc = "mark", !.acct = OwnerOf(q.email)]
    <2>1. /\ req' = [req EXCEPT ![r] = st] /\ OwnerOf(q.email) = q.acct
          /\ <<q.email, q.acct>> \in proved
        BY <1>2, <1>8 DEF ConfirmVerificationCredential, Owns, Answer, At, ReqOK
    <2>2. /\ st \in ReqState /\ st.pc = "mark" /\ st.acct = q.acct /\ st.email = q.email
          /\ st.dead = q.dead
        BY <1>2, <2>1 DEF ReqState, PC
    <2>3. ReqOK(st)
        BY <1>2, <2>1, <2>2 DEF ReqOK
    <2> HIDE DEF st
    <2> QED BY <1>3, <2>1, <2>2, <2>3
<1>9. CASE UpdateEmail(r) /\ ~Return(r)
    <2> DEFINE h == mail[q.acct].email # NoEmail
               st == [q EXCEPT !.pc = "update", !.had = h]
    <2>1. req' = [req EXCEPT ![r] = st] /\ <<q.email, q.acct>> \in proved
        BY <1>2, <1>9 DEF UpdateEmail, Answer, At, ReqOK
    <2>2. /\ st \in ReqState /\ st.pc = "update" /\ st.acct = q.acct /\ st.email = q.email
          /\ st.dead = q.dead
        BY <1>2 DEF ReqState, PC
    <2>3. ReqOK(st)
        BY <1>2, <2>1, <2>2 DEF ReqOK
    <2> HIDE DEF st
    <2> QED BY <1>3, <2>1, <2>2, <2>3
<1>10. CASE linkByEmailIfVerified(r) /\ ~Return(r)
    <2> DEFINE e == q.email
    <2>1. q.id \in Identity /\ e \in Email /\ <<q.id, e>> \in told
        BY <1>2, <1>10 DEF linkByEmailIfVerified, At, ReqOK, ReqState, Address
    <2>2. CASE ~Linkable(e)
        <3>1. Goto(r, "create")
            BY <1>10, <2>2 DEF linkByEmailIfVerified
        <3>2. "create" \in PC /\ e # NoEmail
            BY <2>1 DEF PC
        <3>3. ReqOK([q EXCEPT !.pc = "create"])
            BY <1>2, <1>6, <2>1, <3>2 DEF ReqOK
        <3> QED BY <1>5, <3>1, <3>2, <3>3
    <2>3. CASE Linkable(e)
        <3> DEFINE a == OwnerOf(e)
                   st == [q EXCEPT !.pc = "bind", !.acct = a]
        <3>1. req' = [req EXCEPT ![r] = st]
            BY <1>10, <2>3 DEF linkByEmailIfVerified, Answer
        <3>2. a \in Account /\ mail[a].email = e /\ mail[a].verified
            BY <1>2, <2>1, <2>3, OwnerFound DEF Linkable
        <3>3. <<e, a>> \in proved
            BY <3>2 DEF Inv, VerifiedMeansProved
        <3>4. MadeOrProved(q.id, a)
            BY <2>1, <3>3 DEF MadeOrProved
        <3> HIDE DEF a
        <3>5. /\ st \in ReqState /\ st.pc = "bind" /\ st.acct = a /\ st.id = q.id
              /\ st.dead = q.dead
            BY <1>2, <3>2 DEF ReqState, PC, Owner
        <3>6. ReqOK(st)
            BY <1>2, <2>1, <3>2, <3>4, <3>5 DEF ReqOK
        <3> HIDE DEF st
        <3> QED BY <1>3, <3>1, <3>5, <3>6
    <2> QED BY <2>2, <2>3
<1>11. CASE loginExistingUser(r) /\ ~Return(r)
    <2>1. /\ Goto(r, "session") /\ status[q.acct] = "active"
          /\ q.id \in Identity /\ q.acct \in Account /\ MadeOrProved(q.id, q.acct)
        BY <1>2, <1>11 DEF loginExistingUser, IsActive, At, ReqOK
    <2>2. "session" \in PC /\ q.acct \notin q.dead
        BY <1>2, <2>1 DEF PC, ReqOK
    <2>3. ReqOK([q EXCEPT !.pc = "session"])
        BY <1>2, <1>6, <2>1, <2>2 DEF ReqOK
    <2> QED BY <1>5, <2>1, <2>2, <2>3
<1> QED BY <1>4, <1>7, <1>8, <1>9, <1>10, <1>11 DEF SendCode, SendVerificationCode, Fail

-----------------------------------------------------------------------------
(* The steps that write.                                                   *)

\* A step that writes no history, for which each part of the invariant is at hand.
LEMMA Assembled ==
    ASSUME Inv, TypeOK', VerifiedMeansProved', ReqsInv', UNCHANGED <<fed, code, history>>
    PROVE  Inv'
BY DEF Inv, CodesInv, CodesUsedOnce, BoundInv, MadeOrProved, history

\* A new account, whose address is nobody's.
LEMMA NewAccount ==
    ASSUME Inv, NEW e \in Address, NEW a \in Account, NEW v \in BOOLEAN,
           ~checkCredentialExistsTx(e), status[a] = "none",
           status' = [status EXCEPT ![a] = "active"],
           mail' = [mail EXCEPT ![a] = [email |-> e, verified |-> v]],
           proved \subseteq proved', v => <<e, a>> \in proved'
    PROVE  /\ status' \in [Account -> {"none", "active", "deleted"}]
           /\ \A b \in Account : status[b] = "deleted" => status'[b] = "deleted"
           /\ mail' \in [Account -> Mail]
           /\ \A x, y \in Account : mail'[x].email = mail'[y].email
                                    => x = y \/ mail'[x].email = NoEmail
           /\ VerifiedMeansProved'
<1> DEFINE m == [email |-> e, verified |-> v]
<1>1. TypeOK /\ VerifiedMeansProved /\ status \in [Account -> {"none", "active", "deleted"}]
    BY DEF Inv, TypeOK
<1>2. m \in Mail /\ m.email = e /\ m.verified = v
    BY DEF Mail
<1> HIDE DEF m
<1>3. m.email # NoEmail => \A b \in Account \ {a} : mail[b].email # m.email
    <2>1. ASSUME e \in Email PROVE \A b \in Account : mail[b].email # e
        BY <1>1, <2>1, OwnerFound DEF checkCredentialExistsTx
    <2> QED BY <1>2, <2>1 DEF Address
<1>4. /\ mail' \in [Account -> Mail]
      /\ \A x, y \in Account : mail'[x].email = mail'[y].email
                               => x = y \/ mail'[x].email = NoEmail
      /\ mail'[a] = m /\ \A b \in Account : b # a => mail'[b] = mail[b]
    BY <1>1, <1>2, <1>3, MailWritten DEF m
<1>5. VerifiedMeansProved'
    BY <1>1, <1>2, <1>4 DEF VerifiedMeansProved
<1> QED BY <1>1, <1>4, <1>5

\* Registration commits.
LEMMA RegisterCommitInv ==
    ASSUME Inv, NEW r \in Req, RegisterCommit(r)
    PROVE  Inv'
<1> DEFINE e == req[r].email
<1>1. /\ TypeOK /\ req \in [Req -> ReqState] /\ ReqsInv /\ VerifiedMeansProved
      /\ e \in Address
    BY DEF Inv, TypeOK, ReqState
<1>2. Return(r) /\ UNCHANGED <<fed, live, codes, asked, history>>
    BY DEF RegisterCommit
<1>3. CASE UNCHANGED <<status, mail>>
    BY <1>1, <1>2, <1>3, QuietReturn DEF store, TypeOK
<1>4. CASE ~checkCredentialExistsTx(e) /\ CreateAccount(e, FALSE)
    <2>1. PICK a \in Account :
              /\ status[a] = "none" /\ status' = [status EXCEPT ![a] = "active"]
              /\ mail' = [mail EXCEPT ![a] = [email |-> e, verified |-> FALSE]]
        BY <1>4 DEF CreateAccount
    <2>2. proved' = proved
        BY <1>2 DEF history
    <2>3. /\ status' \in [Account -> {"none", "active", "deleted"}]
          /\ \A b \in Account : status[b] = "deleted" => status'[b] = "deleted"
          /\ mail' \in [Account -> Mail]
          /\ \A x, y \in Account : mail'[x].email = mail'[y].email
                                   => x = y \/ mail'[x].email = NoEmail
          /\ VerifiedMeansProved'
        BY <1>1, <1>4, <2>1, <2>2, NewAccount
    <2>4. Grows
        BY <1>2, <2>3 DEF Grows, history
    <2>5. req' \in [Req -> ReqState] /\ ReqsInv'
        BY <1>1, <1>2, <2>4, ReturnMoves
    <2>6. TypeOK'
        BY <1>1, <1>2, <2>3, <2>5 DEF TypeOK, codes, history
    <2> QED BY <1>2, <2>3, <2>5, <2>6, Assembled DEF codes
<1> QED BY <1>3, <1>4 DEF RegisterCommit

\* A password login, the cooldowns and the revocation of sessions touch nothing that the
\* invariant is about.
LEMMA ElsewhereInv ==
    ASSUME Inv,
           \/ \E a \in Account : Login(a)
           \/ \E e \in Email : CooldownExpires(e)
           \/ \E r \in Req : SetCooldown(r) \/ RevokeAllForAccount(r)
    PROVE  Inv'
<1>1. UNCHANGED <<status, mail, fed, code, asked, history>>
    BY DEF Login, CooldownExpires, SetCooldown, RevokeAllForAccount, store, codes
<1>2. TypeOK /\ req \in [Req -> ReqState] /\ ReqsInv
    BY DEF Inv, TypeOK
<1>3. Grows
    BY <1>1 DEF Grows, history
<1>4. req' \in [Req -> ReqState] /\ ReqsInv'
    <2>1. CASE req' = req
        BY <1>2, <1>3, <2>1, NoReqMoves
    <2>2. ASSUME NEW r \in Req, Return(r) PROVE req' \in [Req -> ReqState] /\ ReqsInv'
        BY <1>2, <1>3, <2>2, ReturnMoves
    <2>3. ASSUME NEW r \in Req, SetCooldown(r) PROVE req' \in [Req -> ReqState] /\ ReqsInv'
        <3>1. Goto(r, "send") /\ At(r, "setcool")
            BY <2>3 DEF SetCooldown
        <3>2. "send" \in PC /\ req[r] \in ReqState /\ ReqOK(req[r])
            BY <1>2 DEF PC, ReqsInv
        <3>3. ReqOK([req[r] EXCEPT !.pc = "send"])
            BY <3>1, <3>2, GotoFields DEF ReqOK, At
        <3> QED BY <1>2, <1>3, <3>1, <3>2, <3>3, GotoMoves
    <2> QED BY <2>1, <2>2, <2>3 DEF Login, CooldownExpires, RevokeAllForAccount
<1>5. live' \subseteq Account
    BY <1>2 DEF Login, CooldownExpires, SetCooldown, RevokeAllForAccount, TypeOK, store
<1>6. cooldown' \subseteq Email
    <2>1. ASSUME NEW r \in Req, SetCooldown(r) PROVE cooldown' \subseteq Email
        <3>1. req[r].email \in Email
            BY <2>1 DEF SetCooldown, At, Inv, ReqsInv, ReqOK
        <3> QED BY <1>2, <2>1, <3>1 DEF SetCooldown, TypeOK
    <2> QED BY <1>2, <2>1 DEF Login, CooldownExpires, RevokeAllForAccount, TypeOK, codes
<1>7. TypeOK'
    BY <1>1, <1>2, <1>4, <1>5, <1>6 DEF TypeOK, history
<1>8. VerifiedMeansProved'
    BY <1>1 DEF Inv, VerifiedMeansProved, history
<1> QED BY <1>1, <1>4, <1>7, <1>8, Assembled

\* A code is drawn and stored: it was drawn never before.
LEMMA StoreCodeInv ==
    ASSUME Inv, NEW r \in Req, StoreCode(r)
    PROVE  Inv'
<1> DEFINE q == req[r]
<1>1. /\ TypeOK /\ req \in [Req -> ReqState] /\ ReqsInv /\ q \in ReqState /\ ReqOK(q)
      /\ code \in [Email -> CodeData] /\ mailed \in [Code -> Address \X Owner]
      /\ accepted \in [Code -> Nat]
    BY DEF Inv, TypeOK, ReqsInv
<1>2. /\ At(r, "store") /\ Goto(r, "setcool")
      /\ UNCHANGED <<store, cooldown, asked, proved, accepted, made, told, bad>>
    BY DEF StoreCode
<1>3. q.email \in Email /\ q.acct \in Account
    BY <1>1, <1>2 DEF At, ReqOK
<1>4. PICK c \in Code :
          /\ mailed[c][1] = NoEmail
          /\ code' = [code EXCEPT ![q.email] = [id |-> c, acct |-> q.acct, attempts |-> 0]]
          /\ mailed' = [mailed EXCEPT ![c] = <<q.email, q.acct>>]
    <2> DEFINE fresh == {x \in Code : mailed[x][1] = NoEmail}
               c == CHOOSE x \in fresh : TRUE
    <2>1. /\ fresh # {}
          /\ code' = [code EXCEPT ![q.email] = [id |-> c, acct |-> q.acct, attempts |-> 0]]
          /\ mailed' = [mailed EXCEPT ![c] = <<q.email, q.acct>>]
        BY Zenon DEF StoreCode
    <2>2. c \in fresh
        <3> HIDE DEF fresh
        <3> QED BY <2>1, Zenon
    <2>3. c \in Code /\ mailed[c][1] = NoEmail
        BY <2>2
    <2> HIDE DEF c
    <2> QED BY <2>1, <2>3
<1> DEFINE d == [id |-> c, acct |-> q.acct, attempts |-> 0]
<1>5. d \in CodeData /\ d.id = c /\ d.acct = q.acct
    BY <1>3 DEF CodeData, Owner
<1>6. /\ code' \in [Email -> CodeData] /\ code'[q.email] = d
      /\ \A e \in Email : e # q.email => code'[e] = code[e]
    BY <1>1, <1>3, <1>4, <1>5
<1>7. /\ mailed' \in [Code -> Address \X Owner] /\ mailed'[c] = <<q.email, q.acct>>
      /\ \A x \in Code : x # c => mailed'[x] = mailed[x]
    BY <1>1, <1>3, <1>4 DEF Address, Owner
<1>8. Grows
    BY <1>2 DEF Grows, store
<1>9. req' \in [Req -> ReqState] /\ ReqsInv'
    <2>1. "setcool" \in PC
        BY DEF PC
    <2>2. ReqOK([q EXCEPT !.pc = "setcool"])
        BY <1>1, <1>3, <2>1, GotoFields DEF ReqOK
    <2> QED BY <1>1, <1>2, <1>8, <2>1, <2>2, GotoMoves
<1> HIDE DEF d, q
<1>10. TypeOK'
    BY <1>1, <1>2, <1>6, <1>7, <1>9 DEF TypeOK, store
<1>11. \A e \in Email : e # q.email /\ code[e].id # NoCode =>
           code[e].id # c /\ code[e].id \in Code
    <2>1. \A e \in Email : code[e].id \in Code \cup {NoCode}
        BY <1>1 DEF CodeData
    <2>2. \A e \in Email : code[e].id # NoCode => mailed[code[e].id][1] = e
        BY DEF Inv, CodesInv
    <2> QED BY <1>4, <2>1, <2>2
<1>12. accepted[c] = 0
    BY <1>4 DEF Inv, CodesInv
<1>13. CodesInv' /\ CodesUsedOnce'
    <2>1. \A e \in Email : code'[e].id # NoCode => mailed'[code'[e].id] = <<e, code'[e].acct>>
        BY <1>3, <1>5, <1>6, <1>7, <1>11 DEF Inv, CodesInv
    <2>2. \A x \in Code : mailed'[x][1] = NoEmail => accepted'[x] = 0
        BY <1>2, <1>7, <1>12 DEF Inv, CodesInv
    <2>3. \A e \in Email : code'[e].id # NoCode => accepted'[code'[e].id] = 0
        BY <1>2, <1>5, <1>6, <1>11, <1>12 DEF Inv, CodesUsedOnce
    <2> QED BY <1>2, <2>1, <2>2, <2>3 DEF Inv, CodesInv, CodesUsedOnce
<1>14. VerifiedMeansProved' /\ BoundInv' /\ bad' = {}
    BY <1>2 DEF Inv, VerifiedMeansProved, BoundInv, MadeOrProved, store
<1> QED BY <1>9, <1>10, <1>13, <1>14 DEF Inv

\* Codes are deleted, or wrong guesses counted.
LEMMA CodesKept ==
    ASSUME Inv, code' \in [Email -> CodeData],
           \A e \in Email : code'[e].id # NoCode =>
               code'[e].id = code[e].id /\ code'[e].acct = code[e].acct,
           asked' \in Nat, req' \in [Req -> ReqState], ReqsInv',
           UNCHANGED <<store, cooldown, history>>
    PROVE  Inv'
<1>1. TypeOK'
    BY DEF Inv, TypeOK, store, history
<1>2. CodesInv' /\ CodesUsedOnce'
    BY DEF Inv, CodesInv, CodesUsedOnce, history
<1> QED BY <1>1, <1>2 DEF Inv, VerifiedMeansProved, BoundInv, MadeOrProved, store, history

\* A code is deleted when the mail cannot be sent, or expires.
LEMMA CodeGoneInv ==
    ASSUME Inv, (\E r \in Req : RollbackCode(r)) \/ (\E e \in Email : CodeExpires(e))
    PROVE  Inv'
<1>1. UNCHANGED <<store, cooldown, asked, history>>
    BY DEF RollbackCode, CodeExpires
<1>2. /\ req \in [Req -> ReqState] /\ ReqsInv /\ asked' \in Nat
      /\ code \in [Email -> CodeData] /\ NoData \in CodeData /\ NoData.id = NoCode
    BY <1>1 DEF Inv, TypeOK, CodeData, NoData, Owner
<1>3. Grows
    BY <1>1 DEF Grows, store, history
<1>4. req' \in [Req -> ReqState] /\ ReqsInv'
    BY <1>2, <1>3, ReturnMoves, NoReqMoves DEF RollbackCode, CodeExpires
<1>5. ASSUME NEW e \in Email, code' = [code EXCEPT ![e] = NoData] PROVE Inv'
    <2>1. /\ code' \in [Email -> CodeData] /\ code'[e] = NoData
          /\ \A x \in Email : x # e => code'[x] = code[x]
        BY <1>2, <1>5
    <2> QED BY <1>1, <1>2, <1>4, <2>1, CodesKept
<1>6. CASE code' = code
    BY <1>1, <1>2, <1>4, <1>6, CodesKept
<1>7. ASSUME NEW r \in Req, RollbackCode(r) PROVE Inv'
    <2>1. req[r].email \in Email
        BY <1>2, <1>7 DEF RollbackCode, At, ReqsInv, ReqOK
    <2> QED BY <1>5, <1>6, <1>7, <2>1 DEF RollbackCode
<1> QED BY <1>5, <1>7 DEF CodeExpires

\* A code is presented.
LEMMA VerifyCodeInv ==
    ASSUME Inv, NEW r \in Req, ConfirmVerification(r) \/ ConfirmEmailChange(r)
    PROVE  Inv'
<1>1. PICK p \in {"verify", "change"}, a \in Account, e \in Email, c \in Code \cup {NoCode} :
          VerifyCode(r, a, e, c, p)
    BY DEF ConfirmVerification, ConfirmEmailChange
<1>2. /\ Arrive(r) /\ code' = verifyAndIncrement(e, c)
      /\ UNCHANGED <<store, cooldown, mailed, made, told, bad>>
    BY <1>1 DEF VerifyCode, Authenticated
<1>3. /\ TypeOK /\ req \in [Req -> ReqState] /\ ReqsInv /\ asked' \in Nat
      /\ code \in [Email -> CodeData] /\ accepted \in [Code -> Nat]
      /\ mailed \in [Code -> Address \X Owner] /\ proved \subseteq Email \X Account
      /\ CodesInv /\ CodesUsedOnce
    BY <1>2 DEF Inv, TypeOK, Arrive
<1>4. NoData \in CodeData /\ NoData.id = NoCode
    BY DEF NoData, CodeData, Owner
<1>5. CASE ~Matches(e, c)
    <2>1. Return(r) /\ accepted' = accepted /\ proved' = proved
        BY <1>1, <1>5 DEF VerifyCode, Answer, Return
    <2>2. Grows /\ UNCHANGED history
        BY <1>2, <2>1 DEF Grows, store, history
    <2>3. req' \in [Req -> ReqState] /\ ReqsInv'
        BY <1>3, <2>1, <2>2, ReturnMoves
    <2>4. CASE code' = code
        BY <1>2, <1>3, <2>2, <2>3, <2>4, CodesKept
    <2>5. CASE code' # code
        <3> DEFINE d == [code[e] EXCEPT !.attempts = @ + 1]
        <3>1. code[e].attempts < MaxAttempts /\ code' = [code EXCEPT ![e].attempts = @ + 1]
            BY <1>2, <1>3, <1>5, <2>5 DEF verifyAndIncrement, Matches, CodeData
        <3>2. code' = [code EXCEPT ![e] = d]
            BY <1>3, <3>1
        <3>3. d \in CodeData /\ d.id = code[e].id /\ d.acct = code[e].acct
            BY <1>3, <3>1 DEF CodeData
        <3> HIDE DEF d
        <3>4. /\ code' \in [Email -> CodeData] /\ code'[e] = d
              /\ \A x \in Email : x # e => code'[x] = code[x]
            BY <1>3, <3>2, <3>3
        <3> QED BY <1>2, <1>3, <2>2, <2>3, <3>3, <3>4, CodesKept
    <2> QED BY <2>4, <2>5
<1>6. CASE Matches(e, c)
    <2>1. /\ c \in Code /\ code[e].id = c /\ code[e].id # NoCode
          /\ code' = [code EXCEPT ![e] = NoData] /\ accepted' = [accepted EXCEPT ![c] = @ + 1]
        <3>1. c \in Code /\ code[e].id = c /\ c # NoCode /\ code[e].attempts < MaxAttempts
            BY <1>6 DEF Matches
        <3>2. code[e].attempts \in Nat
            BY <1>3 DEF CodeData
        <3>3. code' = [code EXCEPT ![e] = NoData]
            BY <1>2, <3>1, <3>2 DEF verifyAndIncrement
        <3> QED BY <1>1, <1>6, <3>1, <3>3 DEF VerifyCode
    <2>2. mailed[c] = <<e, code[e].acct>> /\ accepted[c] = 0
        BY <1>3, <2>1 DEF CodesInv, CodesUsedOnce
    <2>3. /\ code' \in [Email -> CodeData] /\ code'[e] = NoData
          /\ \A x \in Email : x # e => code'[x] = code[x]
        BY <1>3, <1>4, <2>1
    <2>4. /\ accepted' \in [Code -> Nat] /\ accepted'[c] = 1
          /\ \A x \in Code : x # c => accepted'[x] = accepted[x]
        BY <1>3, <2>1, <2>2
    <2>5. /\ proved \subseteq proved' /\ proved' \subseteq Email \X Account
          /\ ForAccount(e, a) => <<e, a>> \in proved'
        BY <1>1, <1>3, <1>6, <2>2 DEF VerifyCode, ForAccount
    <2>6. Grows
        BY <1>2, <2>5 DEF Grows, store
    <2>7. req' \in [Req -> ReqState] /\ ReqsInv'
        <3>1. CASE ~ForAccount(e, a)
            BY <1>1, <1>3, <2>6, <3>1, ReturnMoves DEF VerifyCode, Answer, Return
        <3>2. CASE ForAccount(e, a)
            <4>1. p \in PC
                BY DEF PC
            <4>2. /\ Begun(p) \in ReqState /\ Begun(p).pc = p
                  /\ Begun(p).dead = {b \in Account : status[b] = "deleted"}
                BY <4>1, BegunReq
            <4>3. /\ [Begun(p) EXCEPT !.acct = a, !.email = e, !.code = c] \in ReqState
                  /\ req' = [req EXCEPT ![r] = [Begun(p) EXCEPT !.acct = a, !.email = e, !.code = c]]
                BY <1>1, <1>6, <3>2, <4>2 DEF VerifyCode, Answer, ReqState, Owner, Address
            <4>4. PICK st \in ReqState :
                      /\ st.pc = p /\ st.acct = a /\ st.email = e
                      /\ st.dead = {b \in Account : status[b] = "deleted"}
                      /\ req' = [req EXCEPT ![r] = st]
                BY <4>2, <4>3 DEF ReqState
            <4>5. st.dead \subseteq {b \in Account : status'[b] = "deleted"}
                BY <2>6, <4>4 DEF Grows
            <4>6. ReqOK(st)'
                BY <2>5, <3>2, <4>4, <4>5 DEF ReqOK
            <4> QED BY <1>3, <2>6, <4>4, <4>6, OneReqMoves
        <3> QED BY <3>1, <3>2
    <2>8. TypeOK'
        BY <1>2, <1>3, <2>3, <2>4, <2>5, <2>7 DEF TypeOK, store
    <2>9. \A x \in Email : x # e /\ code[x].id # NoCode => code[x].id # c /\ code[x].id \in Code
        <3>1. \A x \in Email : code[x].id \in Code \cup {NoCode}
            BY <1>3 DEF CodeData
        <3>2. \A x \in Email : code[x].id # NoCode => mailed[code[x].id][1] = x
            BY DEF Inv, CodesInv
        <3> QED BY <2>2, <3>1, <3>2
    <2>10. CodesInv'
        <3>1. \A x \in Email : code'[x].id # NoCode => mailed'[code'[x].id] = <<x, code'[x].acct>>
            BY <1>2, <1>3, <1>4, <2>3 DEF CodesInv
        <3>2. mailed[c][1] # NoEmail
            BY <2>2
        <3>3. \A x \in Code : mailed'[x][1] = NoEmail => accepted'[x] = 0
            BY <1>2, <1>3, <2>4, <3>2 DEF CodesInv
        <3> QED BY <3>1, <3>3 DEF CodesInv
    <2>11. CodesUsedOnce'
        <3>1. \A x \in Code : accepted'[x] <= 1
            BY <1>3, <2>1, <2>4 DEF CodesUsedOnce
        <3>2. \A x \in Email : code'[x].id # NoCode => accepted'[code'[x].id] = 0
            BY <1>3, <1>4, <2>3, <2>4, <2>9 DEF CodesUsedOnce
        <3> QED BY <3>1, <3>2 DEF CodesUsedOnce
    <2>12. VerifiedMeansProved' /\ bad' = {}
        BY <1>2, <2>5 DEF Inv, VerifiedMeansProved, store
    <2>13. BoundInv'
        BY <1>2, <2>6, MadeOrProvedGrows DEF Inv, BoundInv, store
    <2> QED BY <2>7, <2>8, <2>10, <2>11, <2>12, <2>13 DEF Inv
<1> QED BY <1>5, <1>6

-----------------------------------------------------------------------------
(* Addresses are confirmed and changed.                                    *)

\* An account is given an address that it has proved, and that is nobody else's.
LEMMA ProvedMailInv ==
    ASSUME Inv, NEW r \in Req, Return(r), NEW a \in Account, NEW e \in Email,
           <<e, a>> \in proved, OwnerOf(e) \in {a, NoAccount},
           mail' = [mail EXCEPT ![a] = [email |-> e, verified |-> TRUE]],
           UNCHANGED <<status, fed, live, codes, asked, history>>
    PROVE  Inv'
<1> DEFINE m == [email |-> e, verified |-> TRUE]
<1>1. TypeOK /\ VerifiedMeansProved /\ req \in [Req -> ReqState] /\ ReqsInv
    BY DEF Inv, TypeOK
<1>2. m \in Mail /\ m.email = e
    BY DEF Mail, Address
<1>3. \A b \in Account \ {a} : mail[b].email # e
    BY <1>1, OwnerFound
<1> HIDE DEF m
<1>4. /\ mail' \in [Account -> Mail]
      /\ \A x, y \in Account : mail'[x].email = mail'[y].email
                               => x = y \/ mail'[x].email = NoEmail
      /\ mail'[a] = m /\ \A b \in Account : b # a => mail'[b] = mail[b]
    BY <1>1, <1>2, <1>3, MailWritten DEF m
<1>5. VerifiedMeansProved'
    BY <1>1, <1>2, <1>4 DEF VerifiedMeansProved, history
<1>6. Grows
    BY DEF Grows, history
<1>7. req' \in [Req -> ReqState] /\ ReqsInv'
    BY <1>1, <1>6, ReturnMoves
<1>8. TypeOK'
    BY <1>1, <1>4, <1>7 DEF TypeOK, codes, history
<1> QED BY <1>5, <1>7, <1>8, Assembled DEF codes

\* The two requests that write an address.
LEMMA WriteMailInv ==
    ASSUME Inv, NEW r \in Req, MarkVerified(r) \/ UpdateEmailCommit(r)
    PROVE  Inv'
<1> DEFINE q == req[r]
           e == q.email
           a == q.acct
<1>1. TypeOK /\ ReqOK(q) /\ asked \in Nat
    BY DEF Inv, TypeOK, ReqsInv
<1>2. Return(r) /\ UNCHANGED <<status, fed, live, codes, asked, history>>
    BY DEF MarkVerified, UpdateEmailCommit
<1>3. <<e, a>> \in proved
    BY <1>1 DEF MarkVerified, UpdateEmailCommit, At, ReqOK
<1>4. e \in Email /\ a \in Account
    BY <1>1, <1>3 DEF TypeOK
<1>5. CASE mail' = mail
    BY <1>1, <1>2, <1>5, QuietReturn DEF store
<1>6. ASSUME mail' # mail
      PROVE  /\ OwnerOf(e) \in {a, NoAccount}
             /\ mail' = [mail EXCEPT ![a] = [email |-> e, verified |-> TRUE]]
    BY <1>6 DEF MarkVerified, UpdateEmailCommit, WriteMail, IsEmailAvailable
<1> HIDE DEF q, e, a
<1> QED BY <1>2, <1>3, <1>4, <1>5, <1>6, ProvedMailInv

-----------------------------------------------------------------------------
(* Logins through a provider.                                              *)

\* The provider has said who it is.
LEMMA CallbackInv ==
    ASSUME Inv, NEW r \in Req, SocialCallback(r)
    PROVE  Inv'
<1>1. PICK u \in fetchUserInfo : HandleCallback(r, u)
    BY DEF SocialCallback
<1>2. /\ u.id \in Identity /\ u.email \in Address /\ u.verified \in BOOLEAN
      /\ u.email = NoEmail => ~u.verified
    BY DEF fetchUserInfo
<1>3. UNCHANGED <<store, codes, mailed, proved, accepted, made, bad>>
    BY <1>1 DEF HandleCallback
<1>4. /\ TypeOK /\ req \in [Req -> ReqState] /\ ReqsInv /\ asked' \in Nat
      /\ told \subseteq Identity \X Email /\ fed \in [Identity -> Owner]
    BY DEF Inv, TypeOK, SocialCallback, Arrive
<1>5. /\ told \subseteq told' /\ told' \subseteq Identity \X Email
      /\ u.email # NoEmail => <<u.id, u.email>> \in told'
    BY <1>1, <1>2, <1>4 DEF HandleCallback, Address
<1>6. Grows
    BY <1>3, <1>5 DEF Grows, store
<1>7. PICK a \in Owner : a = fed[u.id]
    BY <1>2, <1>4
<1>8. a # NoAccount => a \in Account /\ MadeOrProved(u.id, a)'
    BY <1>2, <1>6, <1>7, MadeOrProvedGrows DEF Inv, BoundInv, Owner
<1> DEFINE p == IF a # NoAccount THEN "login" ELSE IF u.email # NoEmail THEN "link" ELSE "create"
           s == [Begun(p) EXCEPT !.acct = a, !.id = u.id, !.email = u.email,
                                 !.vouched = u.verified]
<1>9. p \in PC
    BY DEF PC
<1>10. req' = [req EXCEPT ![r] = s]
    BY <1>1, <1>7 DEF HandleCallback, FindByProvider, Answer
<1>11. PICK pp \in PC : pp = p
    BY <1>9
<1>12. /\ Begun(p) \in ReqState /\ Begun(p).pc = p
       /\ Begun(p).dead = {b \in Account : status[b] = "deleted"}
    BY <1>9, BegunReq
<1> HIDE DEF p
<1>13. /\ s \in ReqState /\ s.pc = p /\ s.acct = a /\ s.id = u.id /\ s.email = u.email
       /\ s.vouched = u.verified /\ s.dead = {b \in Account : status[b] = "deleted"}
    BY <1>2, <1>12 DEF ReqState
<1> HIDE DEF s
<1>14. PICK st \in ReqState :
          /\ st.pc = pp /\ st.acct = a /\ st.id = u.id /\ st.email = u.email
          /\ st.vouched = u.verified /\ st.dead = {b \in Account : status[b] = "deleted"}
          /\ req' = [req EXCEPT ![r] = st]
    BY <1>10, <1>11, <1>13
<1>15. ReqOK(st)'
    <2>1. st.dead \subseteq {b \in Account : status'[b] = "deleted"}
        BY <1>6, <1>14 DEF Grows
    <2>2. \/ pp = "login" /\ a # NoAccount
          \/ pp = "link" /\ u.email # NoEmail
          \/ pp = "create" /\ u.email = NoEmail
        BY <1>11 DEF p
    <2> QED BY <1>2, <1>5, <1>8, <1>14, <2>1, <2>2 DEF ReqOK
<1>16. req' \in [Req -> ReqState] /\ ReqsInv'
    BY <1>4, <1>6, <1>14, <1>15, OneReqMoves
<1>17. TypeOK'
    BY <1>3, <1>4, <1>5, <1>16 DEF TypeOK, store, codes
<1>18. BoundInv'
    BY <1>3, <1>6, MadeOrProvedGrows DEF Inv, BoundInv, store
<1>19. VerifiedMeansProved' /\ CodesInv' /\ CodesUsedOnce' /\ bad' = {}
    BY <1>3 DEF Inv, VerifiedMeansProved, CodesInv, CodesUsedOnce, store, codes
<1> QED BY <1>16, <1>17, <1>18, <1>19 DEF Inv

\* The identity is bound to the account whose address the provider has named.
LEMMA LinkCommitInv ==
    ASSUME Inv, NEW r \in Req, LinkCommit(r)
    PROVE  Inv'
<1> DEFINE q == req[r]
<1>1. /\ TypeOK /\ req \in [Req -> ReqState] /\ ReqsInv /\ q \in ReqState /\ ReqOK(q)
      /\ fed \in [Identity -> Owner]
    BY DEF Inv, TypeOK, ReqsInv
<1>2. /\ At(r, "bind") /\ Goto(r, "login") /\ fed' = CreateFederatedIdentity(r)
      /\ UNCHANGED <<status, mail, live, codes, asked, history>>
    BY DEF LinkCommit
<1>3. q.id \in Identity /\ q.acct \in Account /\ MadeOrProved(q.id, q.acct)
    BY <1>1, <1>2 DEF At, ReqOK
<1>4. Grows
    BY <1>2 DEF Grows, history
<1>5. req' \in [Req -> ReqState] /\ ReqsInv'
    <2>1. "login" \in PC
        BY DEF PC
    <2>2. ReqOK([q EXCEPT !.pc = "login"])
        BY <1>1, <1>3, <2>1, GotoFields DEF ReqOK
    <2> QED BY <1>1, <1>2, <1>4, <2>1, <2>2, GotoMoves
<1>6. /\ fed' \in [Identity -> Owner]
      /\ \A i \in Identity : fed'[i] = fed[i] \/ (i = q.id /\ fed'[i] = q.acct)
    BY <1>1, <1>2, <1>3 DEF CreateFederatedIdentity, FindByProvider, Owner
<1> HIDE DEF q
<1>7. TypeOK'
    BY <1>1, <1>2, <1>5, <1>6 DEF TypeOK, codes, history
<1>8. BoundInv'
    <2>1. ASSUME NEW i \in Identity, fed'[i] # NoAccount PROVE MadeOrProved(i, fed[i])'
        <3>1. PICK b : b = fed'[i]
            OBVIOUS
        <3>2. MadeOrProved(i, b)
            BY <1>3, <1>6, <2>1, <3>1 DEF Inv, BoundInv
        <3>3. MadeOrProved(i, b)'
            BY <1>4, <3>2, MadeOrProvedGrows
        <3> QED BY <3>1, <3>3 DEF MadeOrProved
    <2> QED BY <2>1 DEF BoundInv
<1>9. VerifiedMeansProved' /\ CodesInv' /\ CodesUsedOnce' /\ bad' = {}
    BY <1>2 DEF Inv, VerifiedMeansProved, CodesInv, CodesUsedOnce, codes, history
<1> QED BY <1>5, <1>7, <1>8, <1>9 DEF Inv

\* An account is created for the identity, or somebody was faster.
LEMMA CreateInv ==
    ASSUME Inv, NEW r \in Req, createAccountWithIdentity(r)
    PROVE  Inv'
<1> DEFINE q == req[r]
<1>1. /\ TypeOK /\ req \in [Req -> ReqState] /\ ReqsInv /\ q \in ReqState /\ ReqOK(q)
      /\ fed \in [Identity -> Owner] /\ asked \in Nat
      /\ made \subseteq Identity \X Account /\ proved \subseteq Email \X Account
    BY DEF Inv, TypeOK, ReqsInv
<1>2. At(r, "create") /\ UNCHANGED <<live, codes, asked, mailed, accepted, told, bad>>
    BY DEF createAccountWithIdentity
<1>3. /\ q.id \in Identity /\ q.email \in Address /\ q.vouched \in BOOLEAN
      /\ q.email # NoEmail => <<q.id, q.email>> \in told
      /\ q.vouched => q.email \in Email
    BY <1>1, <1>2 DEF At, ReqOK, ReqState, Address
<1>4. CASE FindByProvider(q.id) # NoAccount \/ checkCredentialExistsTx(q.email)
    <2>1. UNCHANGED <<store, codes, asked, history>>
        BY <1>2, <1>4 DEF createAccountWithIdentity, store, history
    <2>2. CASE q.email = NoEmail
        <3>1. Return(r)
            BY <1>4, <2>2 DEF createAccountWithIdentity
        <3> QED BY <1>1, <2>1, <3>1, QuietReturn
    <2>3. CASE q.email # NoEmail
        <3>1. Goto(r, "relink") /\ "relink" \in PC
            BY <1>4, <2>3 DEF createAccountWithIdentity, PC
        <3>2. ReqOK([q EXCEPT !.pc = "relink"])
            BY <1>1, <1>3, <2>3, <3>1, GotoFields DEF ReqOK
        <3>3. Grows
            BY <2>1 DEF Grows, store, history
        <3>4. req' \in [Req -> ReqState] /\ ReqsInv'
            BY <1>1, <3>1, <3>2, <3>3, GotoMoves
        <3> QED BY <1>1, <2>1, <3>4, QuietKeeps
    <2> QED BY <2>2, <2>3
<1>5. CASE fed[q.id] = NoAccount /\ ~checkCredentialExistsTx(q.email)
    <2>1. PICK a \in Account :
              /\ status[a] = "none"
              /\ status' = [status EXCEPT ![a] = "active"]
              /\ mail' = [mail EXCEPT ![a] = [email |-> q.email, verified |-> q.vouched]]
              /\ fed' = [fed EXCEPT ![q.id] = a]
              /\ made' = made \cup {<<q.id, a>>}
              /\ proved' = IF q.vouched THEN proved \cup {<<q.email, a>>} ELSE proved
              /\ Answer(r, [q EXCEPT !.pc = "session", !.acct = a])
        BY <1>5 DEF createAccountWithIdentity, FindByProvider
    <2>2. /\ proved \subseteq proved' /\ q.vouched => <<q.email, a>> \in proved'
        BY <2>1
    <2>3. /\ proved' \subseteq Email \X Account /\ made' \subseteq Identity \X Account
          /\ proved \subseteq proved' /\ made \subseteq made' /\ <<q.id, a>> \in made'
        BY <1>1, <1>3, <2>1
    <2>4. /\ status' \in [Account -> {"none", "active", "deleted"}]
          /\ \A b \in Account : status[b] = "deleted" => status'[b] = "deleted"
          /\ mail' \in [Account -> Mail]
          /\ \A x, y \in Account : mail'[x].email = mail'[y].email
                                   => x = y \/ mail'[x].email = NoEmail
          /\ VerifiedMeansProved'
        BY <1>3, <1>5, <2>1, <2>2, <2>3, NewAccount
    <2>5. Grows
        BY <1>2, <2>3, <2>4 DEF Grows
    <2>6. /\ fed' \in [Identity -> Owner] /\ fed'[q.id] = a
          /\ \A i \in Identity : i # q.id => fed'[i] = fed[i]
        BY <1>1, <1>3, <2>1 DEF Owner
    <2>7. a \notin q.dead
        BY <1>1, <2>1 DEF ReqOK
    <2>8. req' \in [Req -> ReqState] /\ ReqsInv'
        <3>1. [q EXCEPT !.pc = "session", !.acct = a] \in ReqState
            BY <1>1 DEF ReqState, PC, Owner
        <3>2. PICK st \in ReqState :
                  /\ st.pc = "session" /\ st.acct = a /\ st.id = q.id /\ st.dead = q.dead
                  /\ req' = [req EXCEPT ![r] = st]
            BY <1>1, <2>1, <3>1 DEF ReqState, Answer
        <3>3. st.dead \subseteq {b \in Account : status'[b] = "deleted"}
            BY <1>1, <2>5, <3>2 DEF ReqOK, Grows
        <3>4. ReqOK(st)'
            BY <1>3, <2>3, <2>7, <3>2, <3>3 DEF ReqOK, MadeOrProved
        <3> QED BY <1>1, <2>5, <3>2, <3>4, OneReqMoves
    <2> HIDE DEF q
    <2>9. TypeOK'
        BY <1>1, <1>2, <2>3, <2>4, <2>6, <2>8 DEF TypeOK, codes
    <2>10. BoundInv'
        <3>1. ASSUME NEW i \in Identity, i # q.id, fed'[i] # NoAccount PROVE MadeOrProved(i, fed[i])'
            <4>1. PICK b : b = fed[i] /\ b = fed'[i]
                BY <2>6, <3>1
            <4>2. MadeOrProved(i, b)
                BY <3>1, <4>1 DEF Inv, BoundInv
            <4>3. MadeOrProved(i, b)'
                BY <2>5, <4>2, MadeOrProvedGrows
            <4> QED BY <4>1, <4>3 DEF MadeOrProved
        <3>2. ASSUME NEW i \in Identity, i = q.id PROVE MadeOrProved(i, fed[i])'
            BY <2>3, <2>6, <3>2 DEF MadeOrProved
        <3> QED BY <3>1, <3>2 DEF BoundInv
    <2>11. CodesInv' /\ CodesUsedOnce' /\ bad' = {}
        BY <1>2 DEF Inv, CodesInv, CodesUsedOnce, codes
    <2> QED BY <2>4, <2>8, <2>9, <2>10, <2>11 DEF Inv
<1> QED BY <1>4, <1>5 DEF FindByProvider

\* A login enters.
LEMMA SessionInv ==
    ASSUME Inv, NEW r \in Req, issueSessionAndTokens(r)
    PROVE  Inv'
<1> DEFINE q == req[r]
<1>1. TypeOK /\ req \in [Req -> ReqState] /\ ReqsInv /\ ReqOK(q) /\ bad = {}
    BY DEF Inv, TypeOK, ReqsInv
<1>2. /\ At(r, "session") /\ live' = live \cup {q.acct} /\ Return(r)
      /\ UNCHANGED <<status, mail, fed, codes, asked, mailed, proved, accepted, made, told>>
    BY DEF issueSessionAndTokens
<1>3. q.acct \in Account /\ MadeOrProved(q.id, q.acct) /\ q.acct \notin q.dead
    BY <1>1, <1>2 DEF At, ReqOK
<1>4. bad' = {}
    BY <1>1, <1>3 DEF issueSessionAndTokens
<1>5. Grows
    BY <1>2 DEF Grows
<1>6. req' \in [Req -> ReqState] /\ ReqsInv'
    BY <1>1, <1>2, <1>5, ReturnMoves
<1>7. TypeOK'
    BY <1>1, <1>2, <1>3, <1>4, <1>6 DEF TypeOK, codes
<1>8. VerifiedMeansProved'
    BY <1>2 DEF Inv, VerifiedMeansProved
<1> QED BY <1>1, <1>2, <1>4, <1>6, <1>7, <1>8, Assembled DEF codes, history

-----------------------------------------------------------------------------
(* Deletion.                                                               *)

\* An account is deleted with its address and its identities.
LEMMA DeleteInv ==
    ASSUME Inv, NEW r \in Req, SoftDeleteAccount(r)
    PROVE  Inv'
<1>1. PICK a \in Account :
          /\ Arrive(r)
          /\ IF status[a] = "deleted" THEN UNCHANGED <<status, mail, fed>>
             ELSE /\ SoftDeleteCredentialsByAccount(a)
                  /\ SoftDeleteFederatedIdentitiesByAccountID(a)
                  /\ SoftDeleteAccountByID(a)
          /\ Answer(r, [Begun("revoke") EXCEPT !.acct = a])
          /\ UNCHANGED <<live, codes, history>>
    BY DEF SoftDeleteAccount
<1>2. /\ TypeOK /\ req \in [Req -> ReqState] /\ ReqsInv /\ asked' \in Nat
      /\ status \in [Account -> {"none", "active", "deleted"}] /\ fed \in [Identity -> Owner]
      /\ mail \in [Account -> Mail] /\ VerifiedMeansProved
    BY <1>1 DEF Inv, TypeOK, Arrive
<1>3. /\ status' \in [Account -> {"none", "active", "deleted"}]
      /\ \A b \in Account : status[b] = "deleted" => status'[b] = "deleted"
    BY <1>1, <1>2 DEF SoftDeleteAccountByID
<1>4. /\ fed' \in [Identity -> Owner]
      /\ \A i \in Identity : fed'[i] # NoAccount => fed'[i] = fed[i]
    BY <1>1, <1>2 DEF SoftDeleteFederatedIdentitiesByAccountID, Owner
<1>5. /\ mail' \in [Account -> Mail]
      /\ \A x, y \in Account : mail'[x].email = mail'[y].email
                               => x = y \/ mail'[x].email = NoEmail
      /\ VerifiedMeansProved'
    <2>1. CASE mail' = mail
        BY <1>1, <1>2, <2>1 DEF TypeOK, VerifiedMeansProved, history
    <2>2. CASE mail' = [mail EXCEPT ![a] = NoMail]
        <3>1. NoMail \in Mail /\ NoMail.email = NoEmail /\ ~NoMail.verified
            BY DEF NoMail, Mail, Address
        <3>2. /\ mail' \in [Account -> Mail]
              /\ \A x, y \in Account : mail'[x].email = mail'[y].email
                                       => x = y \/ mail'[x].email = NoEmail
              /\ mail'[a] = NoMail /\ \A b \in Account : b # a => mail'[b] = mail[b]
            BY <1>2, <2>2, <3>1, MailWritten
        <3> QED BY <1>1, <1>2, <3>1, <3>2 DEF VerifiedMeansProved, history
    <2> QED BY <1>1, <2>1, <2>2 DEF SoftDeleteCredentialsByAccount
<1>6. Grows
    BY <1>1, <1>3 DEF Grows, history
<1>7. req' \in [Req -> ReqState] /\ ReqsInv'
    <2>1. /\ Begun("revoke") \in ReqState /\ Begun("revoke").pc = "revoke"
          /\ Begun("revoke").dead = {b \in Account : status[b] = "deleted"}
        BY BegunReq DEF PC
    <2>2. PICK st \in ReqState :
              /\ st.pc = "revoke" /\ st.dead = {b \in Account : status[b] = "deleted"}
              /\ req' = [req EXCEPT ![r] = st]
        BY <1>1, <2>1 DEF Answer, ReqState, Owner
    <2>3. st.dead \subseteq {b \in Account : status'[b] = "deleted"}
        BY <1>3, <2>2
    <2>4. ReqOK(st)'
        BY <2>2, <2>3 DEF ReqOK
    <2> QED BY <1>2, <1>6, <2>2, <2>4, OneReqMoves
<1>8. TypeOK'
    BY <1>1, <1>2, <1>3, <1>4, <1>5, <1>7 DEF TypeOK, codes, history
<1>9. BoundInv'
    BY <1>1, <1>4 DEF Inv, BoundInv, MadeOrProved, history
<1>10. CodesInv' /\ CodesUsedOnce' /\ bad' = {}
    BY <1>1 DEF Inv, CodesInv, CodesUsedOnce, codes, history
<1> QED BY <1>5, <1>7, <1>8, <1>9, <1>10 DEF Inv

-----------------------------------------------------------------------------
(* Theorems                                                                *)

\* The invariant holds initially.
LEMMA InitInv == Init => Inv
<1> SUFFICES ASSUME Init PROVE Inv
    OBVIOUS
<1>1. /\ status \in [Account -> {"none", "active", "deleted"}] /\ mail \in [Account -> Mail]
      /\ live \subseteq Account /\ fed \in [Identity -> Owner] /\ cooldown \subseteq Email
      /\ asked \in Nat /\ bad = {}
    BY DEF Init, Owner
<1>2. \A x, y \in Account : mail[x].email = mail[y].email => x = y \/ mail[x].email = NoEmail
    BY DEF Init
<1>3. /\ code \in [Email -> CodeData] /\ accepted \in [Code -> Nat]
      /\ mailed \in [Code -> Address \X Owner] /\ \A c \in Code : accepted[c] = 0
      /\ \A e \in Email : code[e].id = NoCode
    BY DEF Init, NoData, CodeData, Owner, Address
<1>4. req \in [Req -> ReqState] /\ ReqsInv
    <2>1. ReqOK(NoReq)
        BY IdleReq DEF ReqOK
    <2> QED BY <2>1, IdleReq DEF Init, ReqsInv
<1>5. proved \subseteq Email \X Account /\ VerifiedMeansProved
    <2>1. \A a \in Account : mail[a].verified => mail[a].email \in Email
        BY <1>1 DEF Init, Mail, Address
    <2> QED BY <2>1 DEF Init, VerifiedMeansProved
<1>6. TypeOK
    BY <1>1, <1>2, <1>3, <1>4, <1>5 DEF TypeOK, Init
<1>7. CodesInv /\ CodesUsedOnce /\ BoundInv
    BY <1>3 DEF Init, CodesInv, CodesUsedOnce, BoundInv
<1> QED BY <1>1, <1>4, <1>5, <1>6, <1>7 DEF Inv

\* Every step keeps the invariant.
LEMMA NextInv == Inv /\ [Next]_vars => Inv'
<1> SUFFICES ASSUME Inv, [Next]_vars PROVE Inv'
    OBVIOUS
<1>1. CASE UNCHANGED vars
    <2>1. /\ UNCHANGED <<store, codes, history>> /\ req' = req /\ asked' \in Nat
          /\ req \in [Req -> ReqState] /\ ReqsInv
        BY <1>1 DEF vars, Inv, TypeOK
    <2>2. Grows
        BY <2>1 DEF Grows, store, history
    <2>3. req' \in [Req -> ReqState] /\ ReqsInv'
        BY <2>1, <2>2, NoReqMoves
    <2> QED BY <2>1, <2>3, QuietKeeps
<1>2. ASSUME NEW r \in Req, Arrival(r) PROVE Inv'
    BY <1>2, AskInv, VerifyCodeInv, CallbackInv, DeleteInv DEF Arrival
<1>3. ASSUME NEW r \in Req, Step(r) PROVE Inv'
    BY <1>3, ReadInv, RegisterCommitInv, StoreCodeInv, ElsewhereInv, CodeGoneInv, WriteMailInv,
       LinkCommitInv, CreateInv, SessionInv DEF Step
<1>4. CASE (\E a \in Account : Login(a)) \/ \E e \in Email : CodeExpires(e) \/ CooldownExpires(e)
    BY <1>4, ElsewhereInv, CodeGoneInv
<1> QED BY <1>1, <1>2, <1>3, <1>4 DEF Next

\* The invariant always holds.
LEMMA AlwaysInv == Spec => []Inv
BY InitInv, NextInv, PTL DEF Spec

\* Every variable keeps its type, and no two accounts ever have the same address: the
\* unique index rejects what the check before it has missed.
THEOREM IdentitiesTypeCorrect == Spec => []TypeOK
<1>1. Inv => TypeOK
    BY DEF Inv
<1> QED BY <1>1, AlwaysInv, PTL

\* An address is verified only for an account that has proved it, however registrations,
\* confirmations and changes of address overlap.
THEOREM VerifiedWasProved == Spec => []VerifiedMeansProved
<1>1. Inv => VerifiedMeansProved
    BY DEF Inv
<1> QED BY <1>1, AlwaysInv, PTL

\* No code is accepted twice (verifyAndIncrementScript).
THEOREM CodeAcceptedOnce == Spec => []CodesUsedOnce
<1>1. Inv => CodesUsedOnce
    BY DEF Inv
<1> QED BY <1>1, AlwaysInv, PTL

\* A login through a provider enters only an account that it created, or one that has
\* itself proved an address the provider gave, whether or not the provider vouches for it
\* (HandleCallback to issueSessionAndTokens).
THEOREM EntersOnlyProved == Spec => []EntersProvedAccounts
<1>1. Inv => EntersProvedAccounts
    BY DEF Inv, EntersProvedAccounts
<1> QED BY <1>1, AlwaysInv, PTL

\* No login that began after the deletion of an account enters it (loginExistingUser).
THEOREM DeletedStaysOut == Spec => []DeletedNotEntered
<1>1. Inv => DeletedNotEntered
    BY DEF Inv, DeletedNotEntered
<1> QED BY <1>1, AlwaysInv, PTL

\* A bound identity is only ever unbound, and only with the deletion of its account:
\* neither LinkCommit nor createAccountWithIdentity takes it from its account.
THEOREM IdentityBoundForGood == Spec => IdentityKept
<1> DEFINE Kept == \A i \in Identity : fed[i] # NoAccount /\ fed'[i] # fed[i] =>
                       fed'[i] = NoAccount /\ status'[fed[i]] = "deleted"
<1>1. ASSUME Inv, [Next]_vars PROVE Kept
    <2>1. /\ fed \in [Identity -> Owner]
          /\ status \in [Account -> {"none", "active", "deleted"}]
        BY <1>1 DEF Inv, TypeOK
    <2>2. CASE fed' = fed
        BY <2>2
    <2>3. ASSUME NEW r \in Req, LinkCommit(r) PROVE Kept
        <3>1. req[r].id \in Identity
            BY <1>1, <2>3 DEF Inv, ReqsInv, ReqOK, LinkCommit, At
        <3> QED BY <2>1, <2>3, <3>1 DEF LinkCommit, CreateFederatedIdentity, FindByProvider
    <2>4. ASSUME NEW r \in Req, createAccountWithIdentity(r) PROVE Kept
        <3>1. req[r].id \in Identity
            BY <1>1, <2>4 DEF Inv, ReqsInv, ReqOK, createAccountWithIdentity, At
        <3>2. CASE fed' = fed
            BY <3>2
        <3>3. CASE fed[req[r].id] = NoAccount /\ \E a \in Account : fed' = [fed EXCEPT ![req[r].id] = a]
            BY <2>1, <3>1, <3>3
        <3> QED BY <2>4, <3>2, <3>3 DEF createAccountWithIdentity, FindByProvider
    <2>5. ASSUME NEW r \in Req, SoftDeleteAccount(r) PROVE Kept
        <3>1. PICK a \in Account :
                  \/ fed' = fed
                  \/ /\ fed' = [i \in Identity |-> IF fed[i] = a THEN NoAccount ELSE fed[i]]
                     /\ status' = [status EXCEPT ![a] = "deleted"]
            BY <2>5 DEF SoftDeleteAccount, SoftDeleteFederatedIdentitiesByAccountID,
               SoftDeleteAccountByID
        <3> QED BY <2>1, <3>1
    <2>6. \/ fed' = fed
          \/ \E r \in Req : LinkCommit(r) \/ createAccountWithIdentity(r) \/ SoftDeleteAccount(r)
        <3>1. ASSUME NEW r \in Req, Arrival(r), ~SoftDeleteAccount(r) PROVE fed' = fed
            BY <3>1, Zenon DEF Arrival, AdminCreateAccount, RegisterAccount, SendVerification,
               RequestEmailChange, ConfirmVerification, ConfirmEmailChange, VerifyCode,
               SocialCallback, HandleCallback, store
        <3>2. ASSUME NEW r \in Req, Step(r), ~LinkCommit(r), ~createAccountWithIdentity(r)
              PROVE  fed' = fed
            BY <3>2 DEF Step, RegisterCommit, SendCode, StoreCode, SetCooldown,
               SendVerificationCode, RollbackCode, ConfirmVerificationCredential, MarkVerified,
               UpdateEmail, UpdateEmailCommit, linkByEmailIfVerified, loginExistingUser,
               issueSessionAndTokens, RevokeAllForAccount, Fail, store
        <3>3. CASE (\E a \in Account : Login(a)) \/ \E e \in Email : CodeExpires(e) \/ CooldownExpires(e)
            BY <3>3 DEF Login, CodeExpires, CooldownExpires, store
        <3> QED BY <1>1, <3>1, <3>2, <3>3 DEF Next, vars, store
    <2> QED BY <2>2, <2>3, <2>4, <2>5, <2>6
<1> QED BY <1>1, AlwaysInv, PTL DEF Spec, IdentityKept

=============================================================================
