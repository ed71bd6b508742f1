---------------------------- MODULE LoginsProofs ----------------------------
(***************************************************************************)
(* Proofs about Logins, for any accounts, tokens, codes, passkeys, limits  *)
(* and requests, and for every choice of faults: sessions need a second    *)
(* factor where one is required, each proof opens one session, guesses     *)
(* stay within their limits, and neither a dead token nor a suspended      *)
(* account logs in.                                                        *)
(*                                                                         *)
(* The invariant has three parts.  The first says what a request knows at  *)
(* each step and nobody else can undo (ReqOK).  The second is a budget: a  *)
(* guess that was let through and is still to come is paid for already.    *)
(* The third follows a backup code or an answer to a challenge on its way  *)
(* from the store through a request and a flag to the session.             *)
(***************************************************************************)
EXTENDS Logins, FiniteSetTheorems, TLAPS

\* Rows name an account once they are there.
FactorsInv ==
    /\ \A p \in Passkey : passkey[p].st = "live" => passkey[p].acct \in Account
    /\ \A u \in Setup : setup[u].pc # "idle" => setup[u].acct \in Account

TokensInv ==
    \A t \in Token :
        /\ token[t].st # "none" => token[t].acct \in Account
        /\ flag[t] # NoProof => token[t].st # "none" /\ flag[t].acct = token[t].acct

\* The steps of a request that presents an MFA token, and of those where it is checked.
Presents(q) ==
    \/ q.pc \in {"token", "mfa", "totp", "backup", "flag", "burn", "blacklist", "challenge", "mark"}
    \/ q.pc = "assert" /\ q.kind = "mfa"
    \/ q.pc = "account" /\ q.kind # "passkey"
Checked(q) ==
    \/ q.pc \in {"mfa", "totp", "backup", "flag", "challenge", "mark"}
    \/ q.pc = "assert" /\ q.kind = "mfa"

\* What a request knows at each of its steps.
ReqOK(q) ==
    /\ q.off \cap active = {}
    /\ q.must => /\ q.pc \in {"ip", "password", "status"}
                 /\ totp[q.acct].st = "live"
    /\ q.late => q.pc = "token" /\ token[q.tok].st = "dead"
    /\ q.pc \in {"ip", "password", "status"} => q.kind = "password" /\ q.acct \in Account
    /\ Presents(q) => q.tok \in Issued /\ q.kind \in {"code", "flag", "mfa"}
    /\ Checked(q) => q.acct = token[q.tok].acct
    /\ q.pc \in {"challenge", "assert"} => q.chal \in Challenge
    /\ q.pc \in {"challenge", "mark"} => q.kind = "mfa"
    /\ q.pc \in {"challenge", "assert", "mark"} => q.keys = {}
    /\ q.pc = "mark" => q.proof.id \in Challenge
    /\ q.pc = "assert" => q.kind \in {"mfa", "passkey"}
    /\ q.pc \in {"mark", "account", "blacklist"} => q.proof.acct = q.acct /\ q.acct \in Account
    /\ q.pc \in {"account", "blacklist", "update"} => q.kind # "password"
    /\ q.pc \in {"session", "update", "clear"} =>
           q.acct \in Account /\ (q.kind # "password" => q.proof.acct = q.acct)
    /\ q.pc \in {"status", "blacklist", "session", "update"} => q.acct \notin q.off
    /\ q.kind = "password" => q.proof = NoProof

ReqsInv == \A r \in Req : ReqOK(req[r])

OpenedInv == SecondFactorProven /\ DeadTokensStayDead /\ NoLoginWhileSuspended

\* Guesses made, and guesses let through that are still to come.
Pending(q) == IF q.pc \in {"ip", "password", "token", "mfa", "totp", "flag"} THEN q.keys ELSE {}
Admitted(k) == {r \in Req : k \in Pending(req[r])}
BudgetInv ==
    \A k \in Key : /\ tries[k] + Cardinality(Admitted(k)) <= count[k]
                   /\ tries[k] + Cardinality(Admitted(k)) < Limit(k)

\* A request is on its way to a session with the proof x.
Carries(q, x) ==
    \/ q.pc = "assert" /\ q.chal = x
    \/ q.pc \in {"mark", "account", "blacklist", "session"} /\ q.proof.id = x

Unspent(x) == \/ x \in BackupCode /\ backup[x].st # "gone"
              \/ x \in Challenge /\ challenge[x].st # "gone"

\* A proof is in one place only.
Single(x) ==
    /\ \A r, s \in Req : Carries(req[r], x) /\ Carries(req[s], x) => r = s
    /\ \A t, u \in Token : flag[t].id = x /\ flag[u].id = x => t = u
    /\ \A r \in Req, t \in Token : ~(Carries(req[r], x) /\ flag[t].id = x)
    /\ Unspent(x) => used[x] = 0
    /\ used[x] <= 1
    /\ used[x] = 1 \/ Unspent(x) => /\ \A r \in Req : ~Carries(req[r], x)
                                    /\ \A t \in Token : flag[t].id # x
Proofs == BackupCode \cup Challenge
OnceInv == \A x \in Proofs : Single(x)

Inv ==
    /\ TypeOK
    /\ FactorsInv /\ TokensInv
    /\ ReqsInv
    /\ OpenedInv
    /\ BudgetInv
    /\ OnceInv

\* What the proofs use of the assumptions about the constants.
LEMMA Constants ==
    /\ NoAccount \notin Account
    /\ MaxEnrolments \in Nat \ {0} /\ MaxRequests \in Nat /\ MaxEvents \in Nat
    /\ NoId \notin BackupCode /\ NoId \notin Challenge
BY FactorsAssumption, LoginsAssumption

USE Constants

-----------------------------------------------------------------------------
(* Lemmas about requests.                                                  *)

\* A request that is not under way is well formed, and knows nothing.
LEMMA IdleReq ==
    /\ NoReq \in ReqState /\ NoReq.pc = "idle" /\ NoReq.kind = "password" /\ NoReq.acct = NoAccount
    /\ NoReq.proof = NoProof /\ NoReq.keys = {} /\ NoReq.off = {} /\ ~NoReq.late /\ ~NoReq.must
    /\ Pending(NoReq) = {} /\ \A x : ~Carries(NoReq, x)
<1>1. NoProof \in Proof
    BY DEF NoProof, Proof, Owner
<1>2. PICK p \in Passkey : p = NoReq.key
    <2>1. (CHOOSE p \in Passkey : TRUE) \in Passkey
        BY FactorsAssumption, Zenon
    <2> QED BY <2>1 DEF NoReq
<1>3. /\ NoReq.pc = "idle" /\ NoReq.kind = "password" /\ NoReq.acct = NoAccount
      /\ NoReq.proof = NoProof /\ NoReq.keys = {} /\ NoReq.off = {} /\ NoReq.late = FALSE
      /\ NoReq.must = FALSE
    BY DEF NoReq
<1>4. NoReq \in ReqState
    BY <1>1, <1>2 DEF NoReq, ReqState, PC, Kind, Owner
<1> QED BY <1>3, <1>4 DEF Pending, Carries

\* What requests know is not undone by the steps of others.
TokensGrow ==
    \A t \in Token : token[t].st # "none" =>
        /\ token'[t].st # "none" /\ token'[t].acct = token[t].acct
        /\ token[t].st = "dead" => token'[t].st = "dead"
Grows == UNCHANGED <<active, totp>> /\ TokensGrow

\* What a request knows stays true while tokens only come and die.
LEMMA ReqStays ==
    ASSUME Grows, NEW q, ReqOK(q)
    PROVE  ReqOK(q)'
<1>1. q.tok \in Issued => q.tok \in Token /\ q.tok \in Issued'
                          /\ token'[q.tok].acct = token[q.tok].acct
    BY DEF Issued, Grows, TokensGrow
<1>2. q.late => q.tok \in Issued /\ token'[q.tok].st = "dead"
    BY <1>1 DEF ReqOK, Presents, Grows, TokensGrow, Issued
<1>3. Checked(q) => Presents(q)
    BY DEF Checked, Presents
<1> QED BY <1>1, <1>2, <1>3 DEF ReqOK, Grows

\* An idle request is as it should be.
LEMMA IdleOK == ReqOK(NoReq) /\ ReqOK(NoReq)'
BY IdleReq DEF ReqOK, Presents, Checked

\* One request moves on, to what it may know.
LEMMA OneReqMoves ==
    ASSUME req \in [Req -> ReqState], ReqsInv, Grows, NEW r \in Req, NEW st \in ReqState,
           req' = [req EXCEPT ![r] = st], ReqOK(st)'
    PROVE  /\ req' \in [Req -> ReqState] /\ ReqsInv'
           /\ req'[r] = st /\ \A s \in Req : s # r => req'[s] = req[s]
<1>1. req' \in [Req -> ReqState] /\ req'[r] = st /\ \A s \in Req : s # r => req'[s] = req[s]
    OBVIOUS
<1>2. ASSUME NEW s \in Req PROVE ReqOK(req[s])'
    <2>1. PICK q : q = req[s] /\ ReqOK(q)
        BY DEF ReqsInv
    <2>2. ReqOK(q)'
        BY <2>1, ReqStays
    <2>3. PICK n : n = req'[s] /\ ReqOK(n)'
        BY <1>1, <2>1, <2>2
    <2> QED BY <2>3 DEF ReqOK, Presents, Checked, Issued
<1> QED BY <1>1, <1>2 DEF ReqsInv

\* No request moves.
LEMMA NoReqMoves ==
    ASSUME ReqsInv, Grows, req' = req
    PROVE  ReqsInv'
<1>1. ASSUME NEW s \in Req PROVE ReqOK(req[s])'
    <2>1. PICK q : q = req[s] /\ ReqOK(q)
        BY DEF ReqsInv
    <2>2. ReqOK(q)'
        BY <2>1, ReqStays
    <2> QED BY <2>1, <2>2 DEF ReqOK, Presents, Checked, Issued
<1> QED BY <1>1 DEF ReqsInv

-----------------------------------------------------------------------------
(* Lemmas about the budget.                                                *)

\* There are finitely many requests.
LEMMA RequestsFinite ==
    ASSUME NEW S \in SUBSET Req, NEW T \in SUBSET S
    PROVE  /\ IsFiniteSet(S) /\ Cardinality(S) \in Nat /\ Cardinality(T) \in Nat
           /\ Cardinality(T) <= Cardinality(S)
<1>1. IsFiniteSet(S)
    BY LoginsAssumption, FS_Subset
<1>2. IsFiniteSet(T) /\ Cardinality(T) <= Cardinality(S)
    BY <1>1, FS_Subset
<1> QED BY <1>1, <1>2, FS_CardinalityType

\* Limits are positive.
LEMMA LimitsPositive == \A k \in Key : Limit(k) \in Nat \ {0}
BY LoginsAssumption DEF Limit, Key

\* Nobody is let through.
LEMMA BudgetKept ==
    ASSUME BudgetInv, count \in [Key -> Nat], tries \in [Key -> Nat],
           count' \in [Key -> Nat], \A k \in Key : count[k] <= count'[k], tries' = tries,
           \A k \in Key : Admitted(k)' \subseteq Admitted(k)
    PROVE  BudgetInv'
<1> SUFFICES ASSUME NEW k \in Key
             PROVE  /\ tries'[k] + Cardinality(Admitted(k)') <= count'[k]
                    /\ tries'[k] + Cardinality(Admitted(k)') < Limit(k)
    BY DEF BudgetInv, Limit
<1>1. PICK S \in SUBSET Req : S = Admitted(k)
    BY DEF Admitted
<1>2. PICK T \in SUBSET S : T = Admitted(k)'
    BY <1>1
<1>3. Cardinality(T) <= Cardinality(S) /\ Cardinality(T) \in Nat /\ Cardinality(S) \in Nat
    BY RequestsFinite
<1>4. tries[k] + Cardinality(S) <= count[k] /\ tries[k] + Cardinality(S) < Limit(k)
    BY <1>1 DEF BudgetInv
<1>5. tries[k] \in Nat /\ count[k] \in Nat /\ count'[k] \in Nat /\ Limit(k) \in Nat
      /\ count[k] <= count'[k]
    BY LimitsPositive
<1> QED BY <1>2, <1>3, <1>4, <1>5

\* A window ends: its guesses are forgotten, and nobody is counted in it.
LEMMA BudgetCleared ==
    ASSUME BudgetInv, count \in [Key -> Nat], tries \in [Key -> Nat], NEW k \in Key,
           count' = Cleared(k), tries' = Fresh(k), Admitted(k)' = {},
           \A j \in Key : Admitted(j)' \subseteq Admitted(j)
    PROVE  BudgetInv'
<1> SUFFICES ASSUME NEW j \in Key
             PROVE  /\ tries'[j] + Cardinality(Admitted(j)') <= count'[j]
                    /\ tries'[j] + Cardinality(Admitted(j)') < Limit(j)
    BY DEF BudgetInv, Limit
<1>1. Limit(j) \in Nat \ {0}
    BY LimitsPositive
<1>2. CASE j = k
    <2>1. tries'[j] = 0 /\ count'[j] = 0
        BY <1>2 DEF Cleared, Fresh
    <2>2. Cardinality(Admitted(j)') = 0
        BY <1>2, FS_EmptySet
    <2> QED BY <1>1, <2>1, <2>2
<1>3. CASE j # k
    <2>1. PICK S \in SUBSET Req : S = Admitted(j)
        BY DEF Admitted
    <2>2. PICK T \in SUBSET S : T = Admitted(j)'
        BY <2>1
    <2>3. Cardinality(T) <= Cardinality(S) /\ Cardinality(T) \in Nat /\ Cardinality(S) \in Nat
        BY RequestsFinite
    <2>4. tries[j] + Cardinality(S) <= count[j] /\ tries[j] + Cardinality(S) < Limit(j)
        BY <2>1 DEF BudgetInv
    <2>5. tries'[j] = tries[j] /\ count'[j] = count[j] /\ tries[j] \in Nat /\ count[j] \in Nat
        BY <1>3 DEF Cleared, Fresh
    <2> QED BY <1>1, <2>2, <2>3, <2>4, <2>5
<1> QED BY <1>2, <1>3

\* A request is let through: the counter was below its limit, and has been incremented.
LEMMA BudgetGranted ==
    ASSUME BudgetInv, count \in [Key -> Nat], tries \in [Key -> Nat], NEW k \in Key,
           NEW r \in Req, count' = [count EXCEPT ![k] = Incr(k)], Allowed(k), tries' = tries,
           \A j \in Key : Admitted(j)' \subseteq IF j = k THEN Admitted(j) \cup {r} ELSE Admitted(j)
    PROVE  BudgetInv'
<1> SUFFICES ASSUME NEW j \in Key
             PROVE  /\ tries'[j] + Cardinality(Admitted(j)') <= count'[j]
                    /\ tries'[j] + Cardinality(Admitted(j)') < Limit(j)
    BY DEF BudgetInv, Limit
<1>1. PICK S \in SUBSET Req : S = Admitted(j)
    BY DEF Admitted
<1>2. tries[j] + Cardinality(S) <= count[j] /\ tries[j] + Cardinality(S) < Limit(j)
    BY <1>1 DEF BudgetInv
<1>3. Limit(j) \in Nat /\ tries[j] \in Nat /\ count[j] \in Nat /\ tries'[j] = tries[j]
    BY LimitsPositive
<1>4. CASE j # k
    <2>1. PICK T \in SUBSET S : T = Admitted(j)'
        BY <1>1, <1>4
    <2>2. Cardinality(T) <= Cardinality(S) /\ Cardinality(T) \in Nat /\ Cardinality(S) \in Nat
        BY RequestsFinite
    <2>3. count'[j] = count[j]
        BY <1>4
    <2> QED BY <1>2, <1>3, <2>1, <2>2, <2>3
<1>5. CASE j = k
    <2>1. PICK T \in SUBSET (S \cup {r}) : T = Admitted(j)'
        BY <1>1, <1>5
    <2>2. IsFiniteSet(S) /\ Cardinality(S) \in Nat
        BY RequestsFinite
    <2>3. Cardinality(S \cup {r}) <= Cardinality(S) + 1 /\ Cardinality(S \cup {r}) \in Nat
        <3>1. Cardinality(S \cup {r}) = IF r \in S THEN Cardinality(S) ELSE Cardinality(S) + 1
            BY <2>2, FS_AddElement, Zenon
        <3> QED BY <2>2, <3>1
    <2>4. Cardinality(T) <= Cardinality(S \cup {r}) /\ Cardinality(T) \in Nat
        <3>1. S \cup {r} \in SUBSET Req
            OBVIOUS
        <3> QED BY <3>1, RequestsFinite
    <2>5. count'[j] = count[j] + 1 /\ count[j] + 1 < Limit(j)
        <3>1. count'[j] = Incr(j) /\ Incr(j) < Limit(j)
            BY <1>5 DEF Allowed
        <3> QED BY <1>3, <3>1 DEF Incr
    <2> QED BY <1>2, <1>3, <2>1, <2>2, <2>3, <2>4, <2>5
<1> QED BY <1>4, <1>5

\* A guess that was let through is made.
LEMMA BudgetSpent ==
    ASSUME BudgetInv, count \in [Key -> Nat], tries \in [Key -> Nat], NEW r \in Req,
           count' = count, tries' = Guessed(r), Pending(req[r]) = req[r].keys,
           \A j \in Key : Admitted(j)' \subseteq Admitted(j) \ {r}
    PROVE  BudgetInv'
<1> SUFFICES ASSUME NEW j \in Key
             PROVE  /\ tries'[j] + Cardinality(Admitted(j)') <= count'[j]
                    /\ tries'[j] + Cardinality(Admitted(j)') < Limit(j)
    BY DEF BudgetInv, Limit
<1>1. PICK S \in SUBSET Req : S = Admitted(j)
    BY DEF Admitted
<1>2. tries[j] + Cardinality(S) <= count[j] /\ tries[j] + Cardinality(S) < Limit(j)
    BY <1>1 DEF BudgetInv
<1>3. Limit(j) \in Nat /\ tries[j] \in Nat /\ count[j] \in Nat
    BY LimitsPositive
<1>4. PICK T \in SUBSET (S \ {r}) : T = Admitted(j)'
    BY <1>1
<1>5. IsFiniteSet(S) /\ Cardinality(S) \in Nat
    BY RequestsFinite
<1>6. Cardinality(T) <= Cardinality(S \ {r}) /\ Cardinality(T) \in Nat
    <2>1. S \ {r} \in SUBSET Req
        OBVIOUS
    <2> QED BY <2>1, RequestsFinite
<1>7. CASE r \in S
    <2>1. tries'[j] = tries[j] + 1
        BY <1>1, <1>7 DEF Guessed, Admitted
    <2>2. Cardinality(S \ {r}) = Cardinality(S) - 1
        BY <1>5, <1>7, FS_RemoveElement
    <2> QED BY <1>2, <1>3, <1>4, <1>5, <1>6, <2>1, <2>2
<1>8. CASE r \notin S
    <2>1. tries'[j] = tries[j]
        BY <1>1, <1>8 DEF Guessed, Admitted
    <2>2. Cardinality(S \ {r}) = Cardinality(S)
        BY <1>5, <1>8, FS_RemoveElement
    <2> QED BY <1>2, <1>3, <1>4, <1>5, <1>6, <2>1, <2>2
<1> QED BY <1>7, <1>8

-----------------------------------------------------------------------------
(* Lemmas about proofs on their way.                                       *)

\* No flag stands for a proof without an ID, and nobody carries one.
LEMMA NoIdIsNoProof == NoId \notin Proofs /\ NoProof.id = NoId /\ NoProof \in Proof
BY DEF Proofs, NoProof, Proof, Owner

\* Proofs are dropped, but not made.
LEMMA OnceKept ==
    ASSUME OnceInv, used' = used, \A t \in Token : flag'[t] \in {flag[t], NoProof},
           \A x \in Proofs : Unspent(x)' => Unspent(x),
           \A r \in Req, x \in Proofs : Carries(req'[r], x) => Carries(req[r], x)
    PROVE  OnceInv'
<1> SUFFICES ASSUME NEW x \in Proofs PROVE Single(x)'
    BY DEF OnceInv
<1>1. Single(x)
    BY DEF OnceInv
<1>2. \A t \in Token : flag'[t].id = x => flag[t].id = x
    BY NoIdIsNoProof
<1>3. /\ \A r \in Req : Carries(req'[r], x) => Carries(req[r], x)
      /\ Unspent(x)' => Unspent(x)
    OBVIOUS
<1> QED BY <1>1, <1>2, <1>3 DEF Single, Carries

\* A proof is taken from the store by one request.
LEMMA OnceTaken ==
    ASSUME OnceInv, used' = used, flag' = flag, NEW r \in Req, NEW y \in Proofs,
           Unspent(y), ~Unspent(y)',
           \A x \in Proofs : Unspent(x)' => Unspent(x),
           \A x \in Proofs : Carries(req'[r], x) => x = y,
           \A s \in Req : s # r => req'[s] = req[s]
    PROVE  OnceInv'
<1> SUFFICES ASSUME NEW x \in Proofs PROVE Single(x)'
    BY DEF OnceInv
<1>1. Single(x) /\ Single(y)
    BY DEF OnceInv
<1>2. \A s \in Req : Carries(req'[s], x) => (s = r /\ x = y) \/ Carries(req[s], x)
    BY DEF Carries
<1>3. CASE x = y
    <2>1. /\ \A s \in Req : ~Carries(req[s], x)
          /\ \A t \in Token : flag[t].id # x
          /\ used[x] = 0
        BY <1>1, <1>3 DEF Single
    <2> QED BY <1>2, <1>3, <2>1 DEF Single, Carries
<1>4. CASE x # y
    <2>1. \A s \in Req : Carries(req'[s], x) => Carries(req[s], x)
        BY <1>2, <1>4
    <2>2. Unspent(x)' => Unspent(x)
        OBVIOUS
    <2> QED BY <1>1, <2>1, <2>2 DEF Single, Carries
<1> QED BY <1>3, <1>4

\* A proof goes from a request to a flag.
LEMMA OnceFlagged ==
    ASSUME OnceInv, used' = used, UNCHANGED <<backup, challenge>>, NEW r \in Req,
           NEW u \in Token, NEW y \in Proofs, Carries(req[r], y), flag'[u].id = y,
           \A t \in Token : t # u => flag'[t] = flag[t],
           \A x \in Proofs : ~Carries(req'[r], x),
           \A s \in Req : s # r => req'[s] = req[s]
    PROVE  OnceInv'
<1> SUFFICES ASSUME NEW x \in Proofs PROVE Single(x)'
    BY DEF OnceInv
<1>1. Single(x) /\ Single(y)
    BY DEF OnceInv
<1>2. \A s \in Req : Carries(req'[s], x) => s # r /\ Carries(req[s], x)
    BY DEF Carries
<1>3. Unspent(x)' => Unspent(x)
    BY DEF Unspent
<1>4. CASE x = y
    <2>1. /\ \A s \in Req : ~Carries(req'[s], x)
          /\ \A t \in Token : flag[t].id # x
          /\ ~Unspent(x) /\ used[x] # 1 /\ used[x] <= 1
        BY <1>1, <1>2, <1>4 DEF Single
    <2>2. \A t \in Token : flag'[t].id = x => t = u
        BY <2>1
    <2> QED BY <1>3, <2>1, <2>2 DEF Single, Carries
<1>5. CASE x # y
    <2>1. \A t \in Token : flag'[t].id = x => flag[t].id = x
        BY <1>5
    <2> QED BY <1>1, <1>2, <1>3, <2>1 DEF Single, Carries
<1> QED BY <1>4, <1>5

\* A proof goes from a flag to a request.
LEMMA OnceUnflagged ==
    ASSUME OnceInv, used' = used, UNCHANGED <<backup, challenge>>, NEW r \in Req, NEW u \in Token,
           flag'[u] = NoProof, \A t \in Token : t # u => flag'[t] = flag[t],
           \A x \in Proofs : Carries(req'[r], x) => flag[u].id = x,
           \A s \in Req : s # r => req'[s] = req[s]
    PROVE  OnceInv'
<1> SUFFICES ASSUME NEW x \in Proofs PROVE Single(x)'
    BY DEF OnceInv
<1>1. Single(x)
    BY DEF OnceInv
<1>2. \A t \in Token : flag'[t].id = x => t # u /\ flag[t].id = x
    BY NoIdIsNoProof
<1>3. Unspent(x)' => Unspent(x)
    BY DEF Unspent
<1>4. \A s \in Req : Carries(req'[s], x) =>
          \/ s = r /\ flag[u].id = x
          \/ s # r /\ Carries(req[s], x)
    BY DEF Carries
<1> QED BY <1>1, <1>2, <1>3, <1>4 DEF Single, Carries

\* A proof opens a session.
LEMMA OnceSpent ==
    ASSUME OnceInv, used \in [Proofs -> Nat], UNCHANGED <<flag, backup, challenge>>, NEW r \in Req,
           NEW y, y \in Proofs => Carries(req[r], y),
           used' = [x \in DOMAIN used |-> IF x = y THEN used[x] + 1 ELSE used[x]],
           \A x \in Proofs : ~Carries(req'[r], x),
           \A s \in Req : s # r => req'[s] = req[s]
    PROVE  OnceInv'
<1> SUFFICES ASSUME NEW x \in Proofs PROVE Single(x)'
    BY DEF OnceInv
<1>1. Single(x) /\ used[x] \in Nat
    BY DEF OnceInv
<1>2. \A s \in Req : Carries(req'[s], x) => s # r /\ Carries(req[s], x)
    BY DEF Carries
<1>3. Unspent(x)' => Unspent(x)
    BY DEF Unspent
<1>4. CASE x = y
    <2>1. /\ \A s \in Req : ~Carries(req'[s], x)
          /\ \A t \in Token : flag[t].id # x
          /\ ~Unspent(x) /\ used[x] = 0
        BY <1>1, <1>2, <1>4 DEF Single
    <2>2. used'[x] = 1
        BY <1>4, <2>1
    <2> QED BY <1>3, <2>1, <2>2 DEF Single, Carries
<1>5. CASE x # y
    <2>1. used'[x] = used[x]
        BY <1>5
    <2> QED BY <1>1, <1>2, <1>3, <2>1 DEF Single, Carries
<1> QED BY <1>4, <1>5

-----------------------------------------------------------------------------
(* The steps of requests.                                                  *)

TokensStep ==
    /\ token' \in [Token -> TokenState] /\ TokensGrow
    /\ \A t \in Token : token'[t].st # "none" => token'[t].acct \in Account

\* The parts of the invariant put together.
LEMMA Assembled ==
    ASSUME Inv, req' \in [Req -> ReqState], ReqsInv', BudgetInv', OnceInv', OpenedInv',
           TokensStep, flag' \in [Token -> Proof],
           \A t \in Token : \/ flag'[t] \in {flag[t], NoProof}
                            \/ t \in Issued /\ flag'[t].acct = token[t].acct,
           backup' \in [BackupCode -> Credential], challenge' \in [Challenge -> ChallengeState],
           UNCHANGED <<totp, passkey, setup, active>>,
           count' \in [Key -> Nat], \A k \in Key : count'[k] <= Limit(k), tries' \in [Key -> Nat],
           asked' \in 0..MaxRequests, events' \in 0..MaxEvents, opened' \subseteq Opened,
           used' \in [Proofs -> Nat]
    PROVE  Inv'
<1>1. FactorsOK' /\ FactorsInv'
    BY DEF Inv, TypeOK, FactorsOK, FactorsInv
<1>2. TypeOK'
    <2>1. \A k \in Key : (count[k] <= Limit(k))'
        BY DEF Limit
    <2> QED BY <1>1, <2>1 DEF Inv, TypeOK, TokensStep, Proofs
<1>3. TokensInv'
    <2> SUFFICES ASSUME NEW t \in Token, flag'[t] # NoProof
                 PROVE  token'[t].st # "none" /\ flag'[t].acct = token'[t].acct
        BY DEF TokensInv, TokensStep
    <2>1. token[t].st # "none" /\ flag'[t].acct = token[t].acct
        BY DEF Inv, TokensInv, Issued
    <2> QED BY <2>1 DEF TokensStep, TokensGrow
<1> QED BY <1>1, <1>2, <1>3 DEF Inv

\* The types that the steps start from.
LEMMA Types ==
    ASSUME Inv
    PROVE  /\ req \in [Req -> ReqState] /\ ReqsInv /\ BudgetInv /\ OnceInv /\ OpenedInv
           /\ token \in [Token -> TokenState] /\ flag \in [Token -> Proof]
           /\ \A t \in Token : token[t].st # "none" => token[t].acct \in Account
           /\ count \in [Key -> Nat] /\ \A k \in Key : count[k] <= Limit(k)
           /\ tries \in [Key -> Nat]
           /\ asked \in 0..MaxRequests /\ events \in 0..MaxEvents /\ opened \subseteq Opened
           /\ used \in [Proofs -> Nat] /\ active \subseteq Account
           /\ backup \in [BackupCode -> Credential] /\ challenge \in [Challenge -> ChallengeState]
           /\ totp \in [Account -> TOTP] /\ passkey \in [Passkey -> Credential]
BY DEF Inv, TypeOK, TokensInv, FactorsOK, Proofs

\* A request is well typed and knows what ReqOK says.
LEMMA ReqType ==
    ASSUME Inv, NEW r \in Req
    PROVE  req[r] \in ReqState /\ ReqOK(req[r])
BY Types DEF ReqsInv

\* What is let through, when one request moves.
LEMMA AdmittedMoves ==
    ASSUME NEW r \in Req, NEW st, req'[r] = st, \A s \in Req : s # r => req'[s] = req[s],
           NEW k
    PROVE  Admitted(k)' = (Admitted(k) \ {r}) \cup (IF k \in Pending(st) THEN {r} ELSE {})
BY DEF Admitted, Pending

\* A request moves that neither takes a proof, nor makes a guess, nor is let through.
LEMMA PlainStep ==
    ASSUME Inv, NEW r \in Req, NEW st \in ReqState, req' = [req EXCEPT ![r] = st], ReqOK(st)',
           Pending(st) \subseteq Pending(req[r]),
           \A x \in Proofs : Carries(st, x) => Carries(req[r], x),
           TokensStep, asked' \in 0..MaxRequests,
           flag' \in [Token -> Proof], \A t \in Token : flag'[t] \in {flag[t], NoProof},
           challenge' \in [Challenge -> ChallengeState],
           \A c \in Challenge : challenge[c].st = "gone" => challenge'[c].st = "gone",
           UNCHANGED <<active, count, events, History, totp, backup, passkey, setup>>
    PROVE  Inv'
<1>1. Grows
    BY DEF Grows, TokensStep
<1>2. /\ req' \in [Req -> ReqState] /\ ReqsInv'
      /\ req'[r] = st /\ \A s \in Req : s # r => req'[s] = req[s]
    BY <1>1, Types, OneReqMoves
<1>3. BudgetInv'
    <2>1. \A k \in Key : Admitted(k)' \subseteq Admitted(k)
        BY <1>2, AdmittedMoves DEF Admitted
    <2>2. /\ count' = count /\ tries' = tries /\ count \in [Key -> Nat] /\ tries \in [Key -> Nat]
          /\ BudgetInv
        BY Types DEF History
    <2>3. \A k \in Key : count[k] <= count'[k]
        BY <2>2
    <2> QED BY <2>1, <2>2, <2>3, BudgetKept
<1>4. OnceInv'
    <2>1. \A x \in Proofs : Unspent(x)' => Unspent(x)
        BY DEF Unspent
    <2>2. \A s \in Req, x \in Proofs : Carries(req'[s], x) => Carries(req[s], x)
        BY <1>2
    <2> QED BY <2>1, <2>2, Types, OnceKept DEF History
<1>5. OpenedInv'
    BY Types DEF OpenedInv, SecondFactorProven, DeadTokensStayDead, NoLoginWhileSuspended, History
<1> QED BY <1>2, <1>3, <1>4, <1>5, Types, Assembled DEF History

\* A request answers.
LEMMA ReturnStep ==
    ASSUME Inv, NEW r \in Req, Return(r), TokensStep, asked' \in 0..MaxRequests,
           flag' \in [Token -> Proof], \A t \in Token : flag'[t] \in {flag[t], NoProof},
           challenge' \in [Challenge -> ChallengeState],
           \A c \in Challenge : challenge[c].st = "gone" => challenge'[c].st = "gone",
           UNCHANGED <<active, count, events, History, totp, backup, passkey, setup>>
    PROVE  Inv'
BY IdleReq, IdleOK, PlainStep DEF Return

\* The tokens are left alone, or one is blacklisted.
LEMMA TokensKept ==
    ASSUME Inv, token' = token \/ \E t \in Token : token' = Blacklisted(t)
    PROVE  TokensStep
<1>1. CASE token' = token
    BY <1>1, Types DEF TokensStep, TokensGrow
<1>2. ASSUME NEW t \in Token, token' = Blacklisted(t) PROVE TokensStep
    <2>1. PICK d : d = [token[t] EXCEPT !.st = IF @ = "live" THEN "dead" ELSE @]
        OBVIOUS
    <2>2. token' = [token EXCEPT ![t] = d]
        BY <1>2, <2>1 DEF Blacklisted
    <2>3. /\ d \in TokenState /\ d.acct = token[t].acct
          /\ d.st = IF token[t].st = "live" THEN "dead" ELSE token[t].st
        BY <2>1, Types DEF TokenState
    <2>4. /\ token' \in [Token -> TokenState] /\ token'[t] = d
          /\ \A u \in Token : u # t => token'[u] = token[u]
        BY <2>2, <2>3, Types
    <2> QED BY <2>3, <2>4, Types DEF TokensStep, TokensGrow
<1> QED BY <1>1, <1>2

\* What going on to the next step leaves alone.
Same(st, q) ==
    /\ st.kind = q.kind /\ st.acct = q.acct /\ st.tok = q.tok /\ st.chal = q.chal
    /\ st.proof = q.proof /\ st.late = q.late /\ st.must = q.must /\ st.off = q.off

\* Goto changes the step of a request and nothing else.
LEMMA GotoIs ==
    ASSUME Inv, NEW r \in Req, NEW p \in PC, Goto(r, p)
    PROVE  \E st \in ReqState : /\ req' = [req EXCEPT ![r] = st]
                                /\ st.pc = p /\ st.keys = req[r].keys /\ Same(st, req[r])
<1>1. req' = [req EXCEPT ![r] = [req[r] EXCEPT !.pc = p]]
    BY Types DEF Goto
<1>2. req[r] \in ReqState
    BY Types
<1>3. /\ [req[r] EXCEPT !.pc = p] \in ReqState /\ [req[r] EXCEPT !.pc = p].pc = p
      /\ [req[r] EXCEPT !.pc = p].keys = req[r].keys /\ Same([req[r] EXCEPT !.pc = p], req[r])
    BY <1>2 DEF ReqState, Same
<1> QED BY <1>1, <1>3

\* Crash: the process ends in the middle of a request.
LEMMA CrashInv ==
    ASSUME Inv, NEW r \in Req, Crash(r)
    PROVE  Inv'
BY Types, TokensKept, ReturnStep DEF Crash, factors

\* handleMFARequirement: a login by password alone goes on only if no second factor is
\* required, and then none was required at any time since the request began.
LEMMA HandleMFAInv ==
    ASSUME Inv, NEW r \in Req, handleMFARequirement(r)
    PROVE  Inv'
<1> DEFINE q == req[r]
<1>1. /\ At(r, "status") /\ UNCHANGED <<active, flag, count, asked, events, History, factors>>
    BY DEF handleMFARequirement
<1>2. q \in ReqState /\ ReqOK(q) /\ q.pc = "status" /\ q.acct \in Account
    BY <1>1, ReqType DEF At, ReqOK
<1>3. CASE ~GetMFAStatus(q.acct) /\ Goto(r, "session") /\ UNCHANGED token
    <2>1. PICK st \in ReqState : /\ req' = [req EXCEPT ![r] = st]
                                 /\ st.pc = "session" /\ Same(st, q)
        BY <1>3, GotoIs DEF PC
    <2>2. totp[q.acct].st # "live"
        BY <1>3 DEF GetMFAStatus, FindByAccountAndType
    <2>3. ReqOK(st)
        BY <1>2, <2>1, <2>2 DEF ReqOK, Presents, Checked, Same
    <2>4. TokensStep
        BY <1>3, TokensKept
    <2>5. ReqOK(st)'
        BY <1>1, <2>3, <2>4, ReqStays DEF Grows, TokensStep, factors
    <2>6. st.proof.id = NoId
        BY <1>2, <2>1, NoIdIsNoProof DEF ReqOK, Same
    <2>7. Pending(st) = {} /\ \A x \in Proofs : ~Carries(st, x)
        BY <2>1, <2>6, NoIdIsNoProof DEF Pending, Carries
    <2> QED BY <1>1, <2>1, <2>4, <2>5, <2>7, Types, PlainStep DEF factors
<1>4. CASE Return(r) /\ \E t \in Token :
              /\ token[t].st = "none"
              /\ token' = [token EXCEPT ![t] = [st |-> "live", acct |-> q.acct]]
    <2>1. TokensStep
        BY <1>2, <1>4, Types DEF TokensStep, TokensGrow, TokenState, Owner
    <2> QED BY <1>1, <1>4, <2>1, Types, ReturnStep DEF factors
<1>5. CASE Return(r) /\ UNCHANGED token
    BY <1>1, <1>5, Types, TokensKept, ReturnStep DEF factors
<1> QED BY <1>3, <1>4, <1>5 DEF handleMFARequirement, StatusUnknown

\* What a request with an MFA token begins with.
LEMMA MFARequestIs ==
    ASSUME Inv, NEW t \in Issued, NEW kind \in {"code", "flag", "mfa"}
    PROVE  /\ MFARequest(t, kind) \in ReqState
           /\ MFARequest(t, kind).kind = kind /\ MFARequest(t, kind).tok = t
           /\ (MFARequest(t, kind).late => token[t].st = "dead")
           /\ MFARequest(t, kind).off = {token[t].acct} \ active
           /\ MFARequest(t, kind).proof = NoProof /\ MFARequest(t, kind).keys = {}
           /\ MFARequest(t, kind).must = FALSE
<1>1. t \in Token /\ token[t].acct \in Account
    BY Types DEF Issued
<1> QED BY <1>1, IdleReq DEF MFARequest, ReqState, Kind

\* The token is checked: it is not blacklisted, and it names the account.
LEMMA TokenCheckedInv ==
    ASSUME Inv, NEW r \in Req, NEW q \in ReqState, NEW next \in {"mfa", "challenge"},
           TokenChecked(r, q, next), UNCHANGED <<active, token, flag, count, events, History, factors>>,
           asked' \in 0..MaxRequests, q.tok \in Issued, q.kind \in {"code", "flag", "mfa"},
           q.off \cap active = {}, q.must = FALSE, q.late => token[q.tok].st = "dead",
           next = "challenge" => q.chal \in Challenge /\ q.kind = "mfa" /\ q.keys = {},
           next = "mfa" => q.keys \subseteq Pending(req[r])
    PROVE  Inv'
<1>1. TokensStep
    BY TokensKept
<1>2. CASE Return(r)
    BY <1>1, <1>2, Types, ReturnStep DEF factors
<1>3. CASE ValidMFAToken(q.tok)
           /\ req' = [req EXCEPT ![r] = [q EXCEPT !.pc = next, !.acct = token[q.tok].acct]]
    <2>1. q.tok \in Token /\ token[q.tok].acct \in Account /\ token[q.tok].st = "live"
        BY <1>3, Types DEF Issued, ValidMFAToken
    <2>2. [q EXCEPT !.pc = next, !.acct = token[q.tok].acct] \in ReqState
        BY <2>1 DEF ReqState, PC, Owner
    <2>3. PICK st \in ReqState :
              /\ st.pc = next /\ st.acct = token[q.tok].acct /\ st.kind = q.kind /\ st.tok = q.tok
              /\ st.chal = q.chal /\ st.keys = q.keys /\ st.must = FALSE /\ st.late = q.late
              /\ st.off = q.off
              /\ req' = [req EXCEPT ![r] = st]
        BY <1>3, <2>2 DEF ReqState
    <2>4. ReqOK(st)
        BY <2>1, <2>3 DEF ReqOK, Presents, Checked
    <2>5. ReqOK(st)'
        BY <1>1, <2>4, ReqStays DEF Grows, TokensStep, factors
    <2>6. Pending(st) \subseteq Pending(req[r]) /\ \A x \in Proofs : ~Carries(st, x)
        BY <2>3 DEF Pending, Carries
    <2> QED BY <1>1, <2>3, <2>5, <2>6, Types, PlainStep DEF factors
<1> QED BY <1>2, <1>3 DEF TokenChecked

\* ValidateMFAToken of MFAVerify and of CompletePasskeyMFALogin.
LEMMA ValidateInv ==
    ASSUME Inv, NEW r \in Req, ValidateMFAToken(r)
    PROVE  Inv'
<1>1. /\ TokenChecked(r, req[r], "mfa")
      /\ UNCHANGED <<active, token, flag, count, asked, events, History, factors>>
      /\ req[r].pc = "token" /\ req[r] \in ReqState /\ ReqOK(req[r])
    BY ReqType DEF ValidateMFAToken, At
<1>2. /\ req[r].tok \in Issued /\ req[r].kind \in {"code", "flag", "mfa"}
      /\ req[r].off \cap active = {}
      /\ req[r].late => token[req[r].tok].st = "dead"
    BY <1>1 DEF ReqOK, Presents
<1>3. req[r].must = FALSE
    BY <1>1 DEF ReqOK, ReqState
<1>4. PICK q \in ReqState : q = req[r]
    BY <1>1
<1>5. q.keys \subseteq Pending(req[r])
    BY <1>1, <1>4 DEF Pending
<1>6. "mfa" # "challenge" /\ "mfa" \in {"mfa", "challenge"} /\ asked' \in 0..MaxRequests
    BY <1>1, Types
<1>7. TokenChecked(r, q, "mfa")
    BY <1>1, <1>4 DEF TokenChecked
<1> QED BY <1>1, <1>2, <1>3, <1>4, <1>5, <1>6, <1>7, TokenCheckedInv

\* A request that presents an MFA token with an answer to a challenge begins.
LEMMA MFACompleteInv ==
    ASSUME Inv, NEW r \in Req, MFAComplete(r)
    PROVE  Inv'
<1>1. PICK t \in Issued, c \in Challenge, p \in Passkey :
          TokenChecked(r, [MFARequest(t, "mfa") EXCEPT !.chal = c, !.key = p], "challenge")
    BY DEF MFAComplete
<1>2. /\ UNCHANGED <<active, token, flag, count, events, History, factors>>
      /\ asked' \in 0..MaxRequests
    BY Types DEF MFAComplete, Begin
<1>3. PICK m : m = MFARequest(t, "mfa")
    OBVIOUS
<1>4. /\ m \in ReqState /\ m.kind = "mfa" /\ m.tok = t /\ (m.late => token[t].st = "dead")
      /\ m.off = {token[t].acct} \ active /\ m.must = FALSE /\ m.keys = {}
    BY <1>3, MFARequestIs
<1>5. PICK q : q = [m EXCEPT !.chal = c, !.key = p]
    OBVIOUS
<1>6. /\ q \in ReqState /\ q.kind = "mfa" /\ q.tok = t /\ (q.late => token[t].st = "dead")
      /\ q.chal = c /\ q.off = {token[t].acct} \ active /\ q.must = FALSE /\ q.keys = {}
    BY <1>4, <1>5 DEF ReqState
<1>7. q.off \cap active = {} /\ "challenge" # "mfa"
    BY <1>6
<1>8. TokenChecked(r, q, "challenge")
    BY <1>1, <1>3, <1>5 DEF TokenChecked
<1> QED BY <1>2, <1>6, <1>7, <1>8, TokenCheckedInv

\* The token of a failed verification is blacklisted.
LEMMA BurnInv ==
    ASSUME Inv, NEW r \in Req, BurnMFAToken(r)
    PROVE  Inv'
<1>1. req[r].tok \in Token
    BY ReqType DEF BurnMFAToken, At, ReqOK, Presents, Issued
<1>2. TokensStep
    BY <1>1, TokensKept DEF BurnMFAToken
<1> QED BY <1>2, Types, ReturnStep DEF BurnMFAToken, factors

\* The status of the account is checked after the factors.
LEMMA FindAccountInv ==
    ASSUME Inv, NEW r \in Req, FindAccountByID(r)
    PROVE  Inv'
<1> DEFINE q == req[r]
           p == IF q.kind = "passkey" THEN "session" ELSE "blacklist"
<1>1. /\ q.pc = "account" /\ UNCHANGED <<active, token, flag, count, asked, events, History, factors>>
      /\ q \in ReqState /\ ReqOK(q) /\ TokensStep
    BY ReqType, TokensKept DEF FindAccountByID, At
<1>2. CASE Return(r)
    BY <1>1, <1>2, Types, ReturnStep DEF factors
<1>3. CASE IsActive(q.acct) /\ Goto(r, p)
    <2>1. PICK st \in ReqState : /\ req' = [req EXCEPT ![r] = st]
                                 /\ st.pc = p /\ Same(st, q)
        BY <1>3, GotoIs DEF PC
    <2>2. q.acct \notin q.off
        BY <1>1, <1>3 DEF IsActive, ReqOK
    <2>3. ReqOK(st)
        BY <1>1, <2>1, <2>2 DEF ReqOK, Presents, Checked, Same
    <2>4. ReqOK(st)'
        BY <1>1, <2>3, ReqStays DEF Grows, TokensStep, factors
    <2>5. Pending(st) = {} /\ \A x \in Proofs : Carries(st, x) => Carries(q, x)
        BY <1>1, <2>1 DEF Pending, Carries, Same
    <2> QED BY <1>1, <2>1, <2>4, <2>5, Types, PlainStep DEF factors
<1> QED BY <1>2, <1>3 DEF FindAccountByID

\* The token of a completed verification is blacklisted before the session is opened.
LEMMA BlacklistInv ==
    ASSUME Inv, NEW r \in Req, blacklistMFAToken(r)
    PROVE  Inv'
<1> DEFINE q == req[r]
<1>1. /\ q.pc = "blacklist" /\ UNCHANGED <<active, flag, count, asked, events, History, factors>>
      /\ q \in ReqState /\ ReqOK(q)
    BY ReqType DEF blacklistMFAToken, At
<1>2. q.tok \in Token
    BY <1>1 DEF ReqOK, Presents, Issued
<1>3. TokensStep
    BY <1>2, TokensKept DEF blacklistMFAToken
<1>4. CASE Return(r)
    BY <1>1, <1>3, <1>4, Types, ReturnStep DEF factors
<1>5. CASE Goto(r, "session")
    <2>1. PICK st \in ReqState : /\ req' = [req EXCEPT ![r] = st]
                                 /\ st.pc = "session" /\ Same(st, q)
        BY <1>5, GotoIs DEF PC
    <2>2. ReqOK(st)
        BY <1>1, <2>1 DEF ReqOK, Presents, Checked, Same
    <2>3. ReqOK(st)'
        BY <1>1, <1>3, <2>2, ReqStays DEF Grows, TokensStep, factors
    <2>4. Pending(st) = {} /\ \A x \in Proofs : Carries(st, x) => Carries(q, x)
        BY <1>1, <2>1 DEF Pending, Carries, Same
    <2> QED BY <1>1, <1>3, <2>1, <2>3, <2>4, Types, PlainStep DEF factors
<1> QED BY <1>4, <1>5 DEF blacklistMFAToken

\* An assertion is verified: it proves the account that owns the passkey, and as a second
\* factor only the account of the token.
LEMMA AssertionInv ==
    ASSUME Inv, NEW r \in Req, VerifyAssertion(r)
    PROVE  Inv'
<1> DEFINE q == req[r]
<1>1. /\ q.pc = "assert" /\ q \in ReqState /\ ReqOK(q) /\ TokensStep
      /\ UNCHANGED <<active, token, flag, count, asked, events, History, factors>>
    BY ReqType, TokensKept DEF VerifyAssertion, At
<1>2. CASE Return(r)
    BY <1>1, <1>2, Types, ReturnStep DEF factors
<1>3. CASE ~Return(r)
    <2>1. PICK p \in Passkey : p = q.key
        BY <1>1 DEF ReqState
    <2>2. PICK o : o = passkey[p].acct
        OBVIOUS
    <2>3. PICK f : f = [kind |-> "passkey", acct |-> o, id |-> q.chal]
        OBVIOUS
    <2>4. /\ FindByCredentialID(p) /\ OwnsCredential(p, q.acct)
          /\ req' = [req EXCEPT ![r].proof = f,
                         ![r].acct = IF q.kind = "mfa" THEN @ ELSE o,
                         ![r].pc = IF q.kind = "mfa" THEN "mark" ELSE "account"]
        BY <1>3, <2>1, <2>2, <2>3 DEF VerifyAssertion, FinishLogin
    <2>5. /\ o \in Account /\ q.chal \in Challenge /\ q.kind \in {"mfa", "passkey"}
          /\ q.kind = "mfa" => o = q.acct /\ q.tok \in Issued /\ q.acct = token[q.tok].acct
        <3>1. o \in Account
            BY <2>2, <2>4 DEF FindByCredentialID, Inv, FactorsInv
        <3>2. q.chal \in Challenge /\ q.kind \in {"mfa", "passkey"}
            BY <1>1 DEF ReqOK
        <3>3. ASSUME q.kind = "mfa"
              PROVE  o = q.acct /\ q.tok \in Issued /\ q.acct = token[q.tok].acct
            <4>1. q.tok \in Issued /\ q.acct = token[q.tok].acct
                BY <1>1, <3>3 DEF ReqOK, Presents, Checked
            <4>2. q.acct \in Account
                BY <4>1, Types DEF Issued
            <4> QED BY <2>2, <2>4, <4>1, <4>2 DEF OwnsCredential
        <3> QED BY <3>1, <3>2, <3>3
    <2>6. PICK st : st = [q EXCEPT !.proof = f, !.acct = IF q.kind = "mfa" THEN @ ELSE o,
                                   !.pc = IF q.kind = "mfa" THEN "mark" ELSE "account"]
        OBVIOUS
    <2>7. req' = [req EXCEPT ![r] = st]
        BY <2>4, <2>6, Types
    <2>8. f \in Proof /\ f.acct = o /\ f.id = q.chal
        BY <2>3, <2>5 DEF Proof, Owner
    <2>9. /\ st \in ReqState /\ st.proof = f /\ st.acct = o
          /\ st.pc = IF q.kind = "mfa" THEN "mark" ELSE "account"
          /\ st.kind = q.kind /\ st.tok = q.tok /\ st.late = q.late /\ st.must = q.must
          /\ st.off = q.off /\ st.keys = q.keys
        BY <1>1, <2>5, <2>6, <2>8 DEF ReqState, PC, Owner
    <2>10. ReqOK(st)
        BY <1>1, <2>5, <2>8, <2>9 DEF ReqOK, Presents, Checked
    <2>11. ReqOK(st)'
        BY <1>1, <2>10, ReqStays DEF Grows, TokensStep, factors
    <2>12. Pending(st) = {} /\ \A x \in Proofs : Carries(st, x) => Carries(q, x)
        BY <1>1, <2>8, <2>9 DEF Pending, Carries
    <2> QED BY <1>1, <2>7, <2>9, <2>11, <2>12, Types, PlainStep DEF factors
<1> QED BY <1>2, <1>3

-----------------------------------------------------------------------------
(* Rate limits.                                                            *)

\* A request is counted, and let through or refused.
LEMMA CheckAndIncrInv ==
    ASSUME Inv, NEW r \in Req, NEW q \in ReqState, NEW k \in Key,
           NEW next \in {"ip", "password", "token", "totp", "flag"},
           CheckAndIncr(r, q, k, next), q.keys \subseteq Pending(req[r]),
           \A st \in ReqState : st.pc = next /\ Same(st, q) => ReqOK(st),
           UNCHANGED <<active, token, flag, events, tries, opened, used, factors>>,
           asked' \in 0..MaxRequests
    PROVE  Inv'
<1>1. TokensStep
    BY TokensKept
<1>2. Grows
    BY <1>1 DEF Grows, TokensStep, factors
<1>3. /\ Limit(k) \in Nat \ {0} /\ count[k] \in Nat /\ count[k] <= Limit(k)
    BY Types, LimitsPositive
<1>4. Incr(k) \in Nat /\ count[k] <= Incr(k) /\ Incr(k) <= Limit(k)
    BY <1>3 DEF Incr
<1>5. /\ count' \in [Key -> Nat] /\ \A j \in Key : count[j] <= count'[j] /\ count'[j] <= Limit(j)
    <2>1. CASE count' = count
        BY <2>1, Types, LimitsPositive
    <2>2. CASE count' = [count EXCEPT ![k] = Incr(k)]
        <3>1. count' \in [Key -> Nat] /\ count'[k] = Incr(k) /\ \A j \in Key : j # k => count'[j] = count[j]
            BY <1>4, <2>2, Types
        <3>2. \A j \in Key : count[j] \in Nat /\ count[j] <= Limit(j)
            BY Types
        <3> QED BY <1>4, <3>1, <3>2
    <2> QED BY <2>1, <2>2 DEF CheckAndIncr
<1>6. OpenedInv'
    BY Types DEF OpenedInv, SecondFactorProven, DeadTokensStayDead, NoLoginWhileSuspended
<1>7. \A x \in Proofs : Unspent(x)' => Unspent(x)
    BY DEF Unspent, factors
<1>8. CASE Return(r)
    <2>1. /\ req' \in [Req -> ReqState] /\ ReqsInv'
          /\ req'[r] = NoReq /\ \A s \in Req : s # r => req'[s] = req[s]
        BY <1>2, <1>8, Types, IdleReq, IdleOK, OneReqMoves DEF Return
    <2>2. \A j \in Key : Admitted(j)' \subseteq Admitted(j)
        BY <2>1, AdmittedMoves, IdleReq
    <2>3. BudgetInv'
        BY <1>5, <2>2, Types, BudgetKept
    <2>4. \A s \in Req, x \in Proofs : Carries(req'[s], x) => Carries(req[s], x)
        BY <2>1, IdleReq
    <2>5. OnceInv'
        BY <1>7, <2>4, Types, OnceKept
    <2> QED BY <1>1, <1>5, <1>6, <2>1, <2>3, <2>5, Types, Assembled DEF factors
<1>9. CASE /\ Allowed(k) /\ count' = [count EXCEPT ![k] = Incr(k)]
           /\ req' = [req EXCEPT ![r] = [q EXCEPT !.pc = next, !.keys = @ \cup {k}]]
    <2>1. PICK st : st = [q EXCEPT !.pc = next, !.keys = @ \cup {k}]
        OBVIOUS
    <2>2. st \in ReqState /\ st.pc = next /\ st.keys = q.keys \cup {k} /\ Same(st, q)
        BY <2>1 DEF ReqState, PC, Same
    <2>3. ReqOK(st)'
        BY <1>2, <2>2, ReqStays
    <2>4. /\ req' \in [Req -> ReqState] /\ ReqsInv'
          /\ req'[r] = st /\ \A s \in Req : s # r => req'[s] = req[s]
        BY <1>2, <1>9, <2>1, <2>2, <2>3, Types, OneReqMoves
    <2>5. Pending(st) = q.keys \cup {k} \/ Pending(st) = {}
        BY <2>2 DEF Pending
    <2>6. \A j \in Key : Admitted(j)' \subseteq IF j = k THEN Admitted(j) \cup {r} ELSE Admitted(j)
        <3>1. \A j \in Key : j # k /\ j \in Pending(st) => r \in Admitted(j)
            BY <2>5 DEF Admitted
        <3> QED BY <2>4, <3>1, AdmittedMoves
    <2>7. BudgetInv'
        BY <1>9, <2>6, Types, BudgetGranted
    <2>8. \A s \in Req, x \in Proofs : Carries(req'[s], x) => Carries(req[s], x)
        BY <2>2, <2>4 DEF Carries
    <2>9. OnceInv'
        BY <1>7, <2>8, Types, OnceKept
    <2> QED BY <1>1, <1>5, <1>6, <2>4, <2>7, <2>9, Types, Assembled DEF factors
<1> QED BY <1>8, <1>9 DEF CheckAndIncr, Return

\* The limit per IP, which an allowlisted address has not.
LEMMA CheckIPInv ==
    ASSUME Inv, NEW r \in Req, NEW q \in ReqState, NEW next \in {"password", "token"},
           checkIPRateLimit(r, q, next), q.keys \subseteq Pending(req[r]),
           \A st \in ReqState : st.pc = next /\ Same(st, q) => ReqOK(st),
           UNCHANGED <<active, token, flag, events, tries, opened, used, factors>>,
           asked' \in 0..MaxRequests
    PROVE  Inv'
<1>1. <<"ip", NoAccount>> \in Key
    BY DEF Key
<1>2. CASE CheckAndIncr(r, q, <<"ip", NoAccount>>, next)
    BY <1>1, <1>2, CheckAndIncrInv
<1>3. CASE req' = [req EXCEPT ![r] = [q EXCEPT !.pc = next]] /\ UNCHANGED count
    <2>1. PICK st : st = [q EXCEPT !.pc = next]
        OBVIOUS
    <2>2. st \in ReqState /\ st.pc = next /\ st.keys = q.keys /\ Same(st, q)
        BY <2>1 DEF ReqState, PC, Same
    <2>3. TokensStep
        BY TokensKept
    <2>4. ReqOK(st)'
        BY <2>2, <2>3, ReqStays DEF Grows, TokensStep, factors
    <2>5. Pending(st) = q.keys /\ \A x \in Proofs : ~Carries(st, x)
        BY <2>2 DEF Pending, Carries
    <2> QED BY <1>3, <2>1, <2>2, <2>3, <2>4, <2>5, Types, PlainStep DEF factors, History
<1> QED BY <1>2, <1>3 DEF checkIPRateLimit

\* The four places that count.
LEMMA LoginByPasswordInv ==
    ASSUME Inv, NEW r \in Req, LoginByUsernamePassword(r)
    PROVE  Inv'
<1>1. PICK a \in Account, right \in BOOLEAN :
          CheckAndIncr(r, [NoReq EXCEPT !.acct = a, !.right = right,
                                        !.must = totp[a].st = "live", !.off = {a} \ active],
                       <<"login", a>>, "ip")
    BY DEF LoginByUsernamePassword
<1>2. /\ UNCHANGED <<active, token, flag, events, tries, opened, used, factors>>
      /\ asked' \in 0..MaxRequests
    BY Types DEF LoginByUsernamePassword, Begin
<1>3. PICK must \in BOOLEAN, off \in SUBSET Account :
          must = (totp[a].st = "live") /\ off = {a} \ active
    OBVIOUS
<1>4. PICK q : q = [NoReq EXCEPT !.acct = a, !.right = right, !.must = must, !.off = off]
    OBVIOUS
<1>5. /\ q \in ReqState /\ q.kind = "password" /\ q.acct = a /\ q.must = must /\ q.off = off
      /\ q.keys = {} /\ q.late = FALSE /\ q.proof = NoProof
    BY <1>4, IdleReq DEF ReqState, Owner
<1>6. \A st \in ReqState : st.pc = "ip" /\ Same(st, q) => ReqOK(st)
    BY <1>3, <1>5 DEF ReqOK, Presents, Checked, Same
<1>7. CheckAndIncr(r, q, <<"login", a>>, "ip")
    BY <1>1, <1>3, <1>4 DEF CheckAndIncr
<1>8. <<"login", a>> \in Key
    BY DEF Key
<1> QED BY <1>2, <1>5, <1>6, <1>7, <1>8, CheckAndIncrInv

\* The counter per IP of a login by password.
LEMMA LoginPerIPInv ==
    ASSUME Inv, NEW r \in Req, LoginAttemptsPerIP(r)
    PROVE  Inv'
<1>1. /\ req[r].pc = "ip" /\ req[r] \in ReqState /\ ReqOK(req[r])
      /\ UNCHANGED <<active, token, flag, asked, events, tries, opened, used, factors>>
      /\ checkIPRateLimit(r, req[r], "password")
    BY ReqType DEF LoginAttemptsPerIP, At
<1>2. PICK q \in ReqState : q = req[r]
    BY <1>1
<1>3. q.keys \subseteq Pending(req[r]) /\ asked' \in 0..MaxRequests
    BY <1>1, <1>2, Types DEF Pending
<1>4. \A st \in ReqState : st.pc = "password" /\ Same(st, q) => ReqOK(st)
    BY <1>1, <1>2 DEF ReqOK, Presents, Checked, Same
<1>5. checkIPRateLimit(r, q, "password")
    BY <1>1, <1>2 DEF checkIPRateLimit, CheckAndIncr
<1> QED BY <1>1, <1>3, <1>4, <1>5, CheckIPInv

\* A request that presents an MFA token with a code, or for its flag, begins.
LEMMA VerifyMFALoginInv ==
    ASSUME Inv, NEW r \in Req, VerifyMFALogin(r)
    PROVE  Inv'
<1>0. PICK t \in Issued : \E q \in MFACodes(t) : checkIPRateLimit(r, q, "token")
    BY DEF VerifyMFALogin
<1>1. PICK q \in MFACodes(t) : checkIPRateLimit(r, q, "token")
    BY <1>0
<1>2. /\ UNCHANGED <<active, token, flag, events, tries, opened, used, factors>>
      /\ asked' \in 0..MaxRequests
    BY Types DEF VerifyMFALogin, Begin
<1>3. PICK c, f : c = MFARequest(t, "code") /\ f = MFARequest(t, "flag")
    OBVIOUS
<1>4. /\ c \in ReqState /\ c.kind = "code" /\ c.tok = t /\ (c.late => token[t].st = "dead")
      /\ c.off = {token[t].acct} \ active /\ c.keys = {} /\ c.must = FALSE /\ c.proof = NoProof
    BY <1>3, MFARequestIs
<1>5. /\ f \in ReqState /\ f.kind = "flag" /\ f.tok = t /\ (f.late => token[t].st = "dead")
      /\ f.off = {token[t].acct} \ active /\ f.keys = {} /\ f.must = FALSE /\ f.proof = NoProof
    BY <1>3, MFARequestIs
<1>6. /\ q \in ReqState /\ q.kind \in {"code", "flag"} /\ q.tok = t
      /\ (q.late => token[t].st = "dead") /\ q.proof = NoProof
      /\ q.off = {token[t].acct} \ active /\ q.keys = {} /\ q.must = FALSE
    <2>1. CASE q = f
        BY <1>5, <2>1
    <2>2. ASSUME NEW id \in 0..MaxEnrolments, q = [c EXCEPT !.secret = id]
          PROVE  q \in ReqState /\ Same(q, c) /\ q.keys = c.keys
        BY <1>4, <2>2 DEF ReqState, Same
    <2>3. ASSUME NEW b \in BackupCode, q = [c EXCEPT !.code = b]
          PROVE  q \in ReqState /\ Same(q, c) /\ q.keys = c.keys
        BY <1>4, <2>3 DEF ReqState, Same
    <2> QED BY <1>3, <1>4, <2>1, <2>2, <2>3 DEF MFACodes, Same
<1>7. \A st \in ReqState : st.pc = "token" /\ Same(st, q) => ReqOK(st)
    BY <1>6 DEF ReqOK, Presents, Checked, Same
<1> QED BY <1>1, <1>2, <1>6, <1>7, CheckIPInv

\* The counter per account of MFA codes.
LEMMA CheckMFAInv ==
    ASSUME Inv, NEW r \in Req, checkMFAAccountRateLimit(r)
    PROVE  Inv'
<1>1. /\ req[r].pc = "mfa" /\ req[r] \in ReqState /\ ReqOK(req[r])
      /\ UNCHANGED <<active, token, flag, asked, events, tries, opened, used, factors>>
      /\ CheckAndIncr(r, req[r], <<"mfa", req[r].acct>>,
                      IF req[r].kind = "code" THEN "totp" ELSE "flag")
    BY ReqType DEF checkMFAAccountRateLimit, At
<1>2. PICK q \in ReqState : q = req[r]
    BY <1>1
<1>3. PICK next \in {"totp", "flag"} : next = IF q.kind = "code" THEN "totp" ELSE "flag"
    OBVIOUS
<1>4. q.keys \subseteq Pending(req[r]) /\ asked' \in 0..MaxRequests
    BY <1>1, <1>2, Types DEF Pending
<1>5. q.acct \in Account
    BY <1>1, <1>2, Types DEF ReqOK, Presents, Checked, Issued
<1>6. \A st \in ReqState : st.pc = next /\ Same(st, q) => ReqOK(st)
    BY <1>1, <1>2 DEF ReqOK, Presents, Checked, Same
<1>7. CheckAndIncr(r, q, <<"mfa", q.acct>>, next) /\ <<"mfa", q.acct>> \in Key
    BY <1>1, <1>2, <1>3, <1>5 DEF CheckAndIncr, Key
<1> QED BY <1>1, <1>4, <1>6, <1>7, CheckAndIncrInv

-----------------------------------------------------------------------------
(* Guesses.                                                                *)

\* A request makes the guess that it was let through for.
LEMMA GuessStep ==
    ASSUME Inv, NEW r \in Req, NEW st \in ReqState, req' = [req EXCEPT ![r] = st], ReqOK(st),
           req[r].pc \in {"password", "totp", "flag"}, Pending(st) = {}, tries' = Guessed(r),
           flag' \in [Token -> Proof], \A t \in Token : flag'[t] \in {flag[t], NoProof},
           UNCHANGED <<active, token, count, asked, events, opened, used, factors>>,
           \/ \A x \in Proofs : ~Carries(st, x)
           \/ \E u \in Token : /\ flag' = Taken(u)
                               /\ \A x \in Proofs : Carries(st, x) => flag[u].id = x
    PROVE  Inv'
<1>1. TokensStep
    BY TokensKept
<1>2. Grows
    BY <1>1 DEF Grows, TokensStep, factors
<1>3. ReqOK(st)'
    BY <1>2, ReqStays
<1>4. /\ req' \in [Req -> ReqState] /\ ReqsInv'
      /\ req'[r] = st /\ \A s \in Req : s # r => req'[s] = req[s]
    BY <1>2, <1>3, Types, OneReqMoves
<1>5. BudgetInv'
    <2>1. \A j \in Key : Admitted(j)' \subseteq Admitted(j) \ {r}
        BY <1>4, AdmittedMoves
    <2>2. Pending(req[r]) = req[r].keys
        BY DEF Pending
    <2> QED BY <2>1, <2>2, Types, BudgetSpent
<1>6. tries' \in [Key -> Nat]
    BY Types DEF Guessed
<1>7. OpenedInv'
    BY Types DEF OpenedInv, SecondFactorProven, DeadTokensStayDead, NoLoginWhileSuspended
<1>8. OnceInv'
    <2>1. CASE \A x \in Proofs : ~Carries(st, x)
        <3>1. \A s \in Req, x \in Proofs : Carries(req'[s], x) => Carries(req[s], x)
            BY <1>4, <2>1
        <3>2. \A x \in Proofs : Unspent(x)' => Unspent(x)
            BY DEF Unspent, factors
        <3> QED BY <3>1, <3>2, Types, OnceKept
    <2>2. ASSUME NEW u \in Token, flag' = Taken(u),
                 \A x \in Proofs : Carries(st, x) => flag[u].id = x
          PROVE  OnceInv'
        <3>1. flag'[u] = NoProof /\ \A t \in Token : t # u => flag'[t] = flag[t]
            BY <2>2, Types DEF Taken
        <3>2. \A x \in Proofs : Carries(req'[r], x) => flag[u].id = x
            BY <1>4, <2>2
        <3> QED BY <1>4, <3>1, <3>2, Types, OnceUnflagged DEF factors
    <2> QED BY <2>1, <2>2
<1> QED BY <1>1, <1>4, <1>5, <1>6, <1>7, <1>8, Types, Assembled DEF factors

\* A password is verified.
LEMMA VerifyPasswordInv ==
    ASSUME Inv, NEW r \in Req, VerifyPassword(r)
    PROVE  Inv'
<1> DEFINE q == req[r]
<1>1. /\ q.pc = "password" /\ q \in ReqState /\ ReqOK(q) /\ tries' = Guessed(r)
      /\ UNCHANGED <<active, token, flag, count, asked, events, opened, used, factors>>
    BY ReqType DEF VerifyPassword, At
<1>2. flag' \in [Token -> Proof] /\ \A t \in Token : flag'[t] \in {flag[t], NoProof}
    BY <1>1, Types
<1>3. CASE Return(r)
    BY <1>1, <1>2, <1>3, IdleReq, IdleOK, GuessStep DEF Return
<1>4. CASE IsActive(q.acct) /\ req' = [req EXCEPT ![r].pc = "status", ![r].keys = {}]
    <2>1. PICK st : st = [q EXCEPT !.pc = "status", !.keys = {}]
        OBVIOUS
    <2>2. req' = [req EXCEPT ![r] = st]
        BY <1>4, <2>1, Types
    <2>3. st \in ReqState /\ st.pc = "status" /\ Same(st, q)
        BY <1>1, <2>1 DEF ReqState, PC, Same
    <2>4. ReqOK(st)
        BY <1>1, <1>4, <2>3 DEF ReqOK, Presents, Checked, Same, IsActive
    <2>5. Pending(st) = {} /\ \A x \in Proofs : ~Carries(st, x)
        BY <2>3 DEF Pending, Carries
    <2> QED BY <1>1, <1>2, <2>2, <2>3, <2>4, <2>5, GuessStep
<1> QED BY <1>3, <1>4 DEF VerifyPassword

\* What a request with a token looks like that has proved its second factor.
LEMMA ProvedOK ==
    ASSUME Inv, NEW q \in ReqState, ReqOK(q), q.pc \in {"totp", "backup", "flag"},
           NEW f \in Proof, f.acct = q.acct, NEW st \in ReqState, st.pc = "account",
           st.proof = f, st.kind = q.kind, st.acct = q.acct, st.tok = q.tok, st.late = q.late,
           st.must = q.must, st.off = q.off
    PROVE  ReqOK(st)
<1>1. q.tok \in Issued /\ q.kind \in {"code", "flag", "mfa"} /\ q.acct = token[q.tok].acct
    BY DEF ReqOK, Presents, Checked
<1>2. q.acct \in Account
    BY <1>1, Types DEF Issued
<1> QED BY <1>1, <1>2 DEF ReqOK, Presents, Checked

\* The request after a code was verified, by its fields.
LEMMA AccountNext ==
    ASSUME NEW q \in ReqState, NEW f \in Proof
    PROVE  \E st \in ReqState :
               /\ st = [q EXCEPT !.pc = "account", !.secret = 0, !.code = NoId, !.keys = {},
                                 !.proof = f]
               /\ st.pc = "account" /\ st.proof = f /\ st.kind = q.kind
               /\ st.acct = q.acct /\ st.tok = q.tok /\ st.late = q.late /\ st.must = q.must
               /\ st.off = q.off
<1>1. PICK c : c = [q EXCEPT !.pc = "account", !.keys = {}, !.proof = f]
    OBVIOUS
<1>2. /\ c \in ReqState /\ c.pc = "account" /\ c.proof = f /\ c.kind = q.kind
      /\ c.acct = q.acct /\ c.tok = q.tok /\ c.late = q.late /\ c.must = q.must
      /\ c.off = q.off
    BY <1>1 DEF ReqState, PC
<1>3. PICK st : st = [c EXCEPT !.secret = 0, !.code = NoId]
    OBVIOUS
<1>4. 0 \in 0..MaxEnrolments
    OBVIOUS
<1>5. /\ st \in ReqState /\ st.pc = "account" /\ st.proof = f /\ st.kind = q.kind
      /\ st.acct = q.acct /\ st.tok = q.tok /\ st.late = q.late /\ st.must = q.must
      /\ st.off = q.off
    BY <1>2, <1>3, <1>4 DEF ReqState
<1>6. st = [q EXCEPT !.pc = "account", !.secret = 0, !.code = NoId, !.keys = {}, !.proof = f]
    BY <1>1, <1>3 DEF ReqState
<1> QED BY <1>5, <1>6

\* A verified code leaves a request that knows whom it proves and pays for no more guesses.
LEMMA ProvedIs ==
    ASSUME Inv, NEW r \in Req, req[r].pc \in {"totp", "backup"},
           NEW how \in {"totp", "backup"}, NEW b \in BackupCode \cup {NoId},
           NEW st, st = Proved(r, how, b)
    PROVE  /\ st \in ReqState /\ ReqOK(st)
           /\ st.pc = "account" /\ st.proof.id = b /\ Pending(st) = {}
<1>1. PICK q \in ReqState : q = req[r] /\ ReqOK(q)
    BY ReqType
<1>2. PICK f : f = [kind |-> how, acct |-> q.acct, id |-> b]
    OBVIOUS
<1>3. f \in Proof /\ f.acct = q.acct /\ f.id = b
    BY <1>2 DEF Proof, ReqState
<1>4. f \in Proof
    BY <1>3
<1>5. PICK n \in ReqState :
          /\ n = [q EXCEPT !.pc = "account", !.secret = 0, !.code = NoId, !.keys = {}, !.proof = f]
          /\ n.pc = "account" /\ n.proof = f /\ n.kind = q.kind
          /\ n.acct = q.acct /\ n.tok = q.tok /\ n.late = q.late /\ n.must = q.must
          /\ n.off = q.off
    BY <1>4, AccountNext
<1>6. st = n
    BY <1>1, <1>2, <1>5 DEF Proved
<1>7. ReqOK(st)
    <2>1. q.pc \in {"totp", "backup", "flag"}
        BY <1>1
    <2>2. ReqOK(n)
        BY <1>1, <1>3, <1>4, <1>5, <2>1, ProvedOK
    <2> QED BY <1>6, <2>2
<1>8. Pending(st) = {}
    BY <1>5, <1>6 DEF Pending
<1> QED BY <1>3, <1>5, <1>6, <1>7, <1>8

\* A code is tried as a TOTP code, ...
LEMMA TryTOTPInv ==
    ASSUME Inv, NEW r \in Req, TryTOTP(r)
    PROVE  Inv'
<1> DEFINE q == req[r]
<1>1. /\ q.pc = "totp" /\ q \in ReqState /\ ReqOK(q) /\ tries' = Guessed(r)
      /\ UNCHANGED <<active, token, flag, count, asked, events, opened, used, factors>>
    BY ReqType DEF TryTOTP, At
<1>2. flag' \in [Token -> Proof] /\ \A t \in Token : flag'[t] \in {flag[t], NoProof}
    BY <1>1, Types
<1>3. CASE req' = [req EXCEPT ![r] = Proved(r, "totp", NoId)]
    <2>1. PICK st : st = Proved(r, "totp", NoId)
        OBVIOUS
    <2>2. /\ st \in ReqState /\ ReqOK(st)
          /\ st.pc = "account" /\ st.proof.id = NoId /\ Pending(st) = {}
        BY <1>1, <2>1, ProvedIs
    <2>3. \A x \in Proofs : ~Carries(st, x)
        BY <2>2, NoIdIsNoProof DEF Carries
    <2> QED BY <1>1, <1>2, <1>3, <2>1, <2>2, <2>3, GuessStep
<1>4. CASE req' = [req EXCEPT ![r].pc = "backup", ![r].keys = {}]
    <2>1. PICK st : st = [q EXCEPT !.pc = "backup", !.keys = {}]
        OBVIOUS
    <2>2. req' = [req EXCEPT ![r] = st]
        BY <1>4, <2>1, Types
    <2>3. st \in ReqState /\ st.pc = "backup" /\ Same(st, q)
        BY <1>1, <2>1 DEF ReqState, PC, Same
    <2>4. ReqOK(st)
        BY <1>1, <2>3 DEF ReqOK, Presents, Checked, Same
    <2>5. Pending(st) = {} /\ \A x \in Proofs : ~Carries(st, x)
        BY <2>3 DEF Pending, Carries
    <2> QED BY <1>1, <1>2, <2>2, <2>3, <2>4, <2>5, GuessStep
<1> QED BY <1>3, <1>4 DEF TryTOTP

\* ... and the flag of a passkey is looked for.
LEMMA VerifyFlagInv ==
    ASSUME Inv, NEW r \in Req, verifyPasskeyMFAFlag(r)
    PROVE  Inv'
<1> DEFINE q == req[r]
<1>1. /\ q.pc = "flag" /\ q \in ReqState /\ ReqOK(q) /\ tries' = Guessed(r)
      /\ UNCHANGED <<active, token, count, asked, events, opened, used, factors>>
    BY ReqType DEF verifyPasskeyMFAFlag, At
<1>2. PICK t \in Token : t = q.tok /\ t \in Issued
    BY <1>1 DEF ReqOK, Presents, Issued
<1>3. flag' \in {flag, Taken(t)}
    BY <1>2 DEF verifyPasskeyMFAFlag
<1>4. flag' \in [Token -> Proof] /\ \A u \in Token : flag'[u] \in {flag[u], NoProof}
    BY <1>3, Types, NoIdIsNoProof DEF Taken
<1>5. CASE Return(r)
    BY <1>1, <1>4, <1>5, IdleReq, IdleOK, GuessStep DEF Return
<1>6. CASE Goto(r, "burn")
    <2>1. PICK st \in ReqState : /\ req' = [req EXCEPT ![r] = st]
                                 /\ st.pc = "burn" /\ Same(st, q)
        BY <1>6, GotoIs DEF PC
    <2>2. ReqOK(st)
        BY <1>1, <2>1 DEF ReqOK, Presents, Checked, Same
    <2>3. Pending(st) = {} /\ \A x \in Proofs : ~Carries(st, x)
        BY <2>1 DEF Pending, Carries
    <2> QED BY <1>1, <1>4, <2>1, <2>2, <2>3, GuessStep
<1>7. CASE /\ flag' = Taken(t) /\ flag[t] # NoProof
           /\ req' = [req EXCEPT ![r].pc = "account", ![r].proof = flag[t], ![r].keys = {}]
    <2>1. PICK f \in Proof : f = flag[t]
        BY Types
    <2>2. f.acct = q.acct
        BY <1>1, <1>2, <1>7, <2>1 DEF Inv, TokensInv, ReqOK, Checked
    <2>3. PICK st : st = [q EXCEPT !.pc = "account", !.proof = f, !.keys = {}]
        OBVIOUS
    <2>4. req' = [req EXCEPT ![r] = st]
        BY <1>7, <2>1, <2>3, Types
    <2>5. /\ st \in ReqState /\ st.pc = "account" /\ st.proof = f /\ st.kind = q.kind
          /\ st.acct = q.acct /\ st.tok = q.tok /\ st.late = q.late /\ st.must = q.must
          /\ st.off = q.off
        BY <1>1, <2>3 DEF ReqState, PC
    <2>6. ReqOK(st)
        BY <1>1, <2>2, <2>5, ProvedOK
    <2>7. Pending(st) = {} /\ \A x \in Proofs : Carries(st, x) => flag[t].id = x
        BY <2>1, <2>5 DEF Pending, Carries
    <2> QED BY <1>1, <1>4, <1>7, <2>4, <2>5, <2>6, <2>7, GuessStep
<1> QED BY <1>2, <1>5, <1>6, <1>7 DEF verifyPasskeyMFAFlag

-----------------------------------------------------------------------------
(* Proofs on their way.                                                    *)

\* A request takes a backup code or a challenge: it was there, and is gone.
LEMMA TakeStep ==
    ASSUME Inv, NEW r \in Req, NEW st \in ReqState, req' = [req EXCEPT ![r] = st], ReqOK(st),
           Pending(st) = {}, NEW y \in Proofs, \A x \in Proofs : Carries(st, x) => x = y,
           Unspent(y), ~Unspent(y)', \A x \in Proofs : Unspent(x)' => Unspent(x),
           backup' \in [BackupCode -> Credential], challenge' \in [Challenge -> ChallengeState],
           UNCHANGED <<active, token, flag, count, events, History, totp, passkey, setup>>,
           asked' \in 0..MaxRequests
    PROVE  Inv'
<1>1. TokensStep
    BY TokensKept
<1>2. Grows
    BY <1>1 DEF Grows, TokensStep
<1>3. ReqOK(st)'
    BY <1>2, ReqStays
<1>4. /\ req' \in [Req -> ReqState] /\ ReqsInv'
      /\ req'[r] = st /\ \A s \in Req : s # r => req'[s] = req[s]
    BY <1>2, <1>3, Types, OneReqMoves
<1>5. BudgetInv'
    <2>1. \A k \in Key : Admitted(k)' \subseteq Admitted(k)
        BY <1>4, AdmittedMoves
    <2>2. /\ count' = count /\ tries' = tries /\ count \in [Key -> Nat] /\ tries \in [Key -> Nat]
          /\ BudgetInv
        BY Types DEF History
    <2>3. \A k \in Key : count[k] <= count'[k]
        BY <2>2
    <2> QED BY <2>1, <2>2, <2>3, BudgetKept
<1>6. OnceInv'
    <2>1. \A x \in Proofs : Carries(req'[r], x) => x = y
        BY <1>4
    <2> QED BY <1>4, <2>1, Types, OnceTaken DEF History
<1>7. OpenedInv'
    BY Types DEF OpenedInv, SecondFactorProven, DeadTokensStayDead, NoLoginWhileSuspended, History
<1> QED BY <1>1, <1>4, <1>5, <1>6, <1>7, Types, Assembled DEF History

\* A code is tried as a backup code.
LEMMA TryBackupInv ==
    ASSUME Inv, NEW r \in Req, TryBackupCode(r)
    PROVE  Inv'
<1> DEFINE q == req[r]
<1>1. /\ q.pc = "backup" /\ q \in ReqState /\ ReqOK(q)
      /\ UNCHANGED <<active, token, flag, count, asked, events, History, totp, passkey,
                     challenge, setup>>
    BY ReqType DEF TryBackupCode, At
<1>2. CASE Goto(r, "burn") /\ UNCHANGED backup
    <2>1. PICK st \in ReqState : /\ req' = [req EXCEPT ![r] = st]
                                 /\ st.pc = "burn" /\ Same(st, q)
        BY <1>2, GotoIs DEF PC
    <2>2. ReqOK(st)
        BY <1>1, <2>1 DEF ReqOK, Presents, Checked, Same
    <2>3. TokensStep
        BY <1>1, TokensKept
    <2>4. ReqOK(st)'
        BY <1>1, <2>2, <2>3, ReqStays DEF Grows, TokensStep
    <2>5. Pending(st) = {} /\ \A x \in Proofs : ~Carries(st, x)
        BY <2>1 DEF Pending, Carries
    <2> QED BY <1>1, <1>2, <2>1, <2>3, <2>4, <2>5, Types, PlainStep
<1>3. CASE /\ VerifyBackupCode(q.acct, q.code) /\ UseBackupCode(q.code)
           /\ req' = [req EXCEPT ![r] = Proved(r, "backup", q.code)]
    <2>1. PICK b \in BackupCode : b = q.code /\ backup[b].st = "live"
        BY <1>3 DEF VerifyBackupCode
    <2>2. PICK st : st = Proved(r, "backup", q.code)
        OBVIOUS
    <2>3. st = Proved(r, "backup", b)
        BY <2>1, <2>2
    <2>4. /\ st \in ReqState /\ ReqOK(st)
          /\ st.pc = "account" /\ st.proof.id = b /\ Pending(st) = {}
        BY <1>1, <2>3, ProvedIs
    <2>5. PICK d : d = [backup[b] EXCEPT !.st = "gone"]
        OBVIOUS
    <2>6. backup' = [backup EXCEPT ![b] = d]
        BY <1>3, <2>1, <2>5 DEF UseBackupCode
    <2>7. d \in Credential /\ d.st = "gone"
        BY <2>5, Types DEF Credential
    <2>8. /\ backup' \in [BackupCode -> Credential] /\ backup'[b].st = "gone"
          /\ \A x \in BackupCode : x # b => backup'[x] = backup[x]
        BY <2>6, <2>7, Types
    <2>9. b \in Proofs /\ b \notin Challenge
        BY FactorsAssumption DEF Proofs
    <2>10. Unspent(b) /\ ~Unspent(b)'
        BY <2>1, <2>8, <2>9 DEF Unspent
    <2>11. \A x \in Proofs : Unspent(x)' => Unspent(x)
        BY <1>1, <2>8 DEF Unspent
    <2>12. \A x \in Proofs : Carries(st, x) => x = b
        BY <2>4 DEF Carries
    <2>13. asked' \in 0..MaxRequests /\ challenge' \in [Challenge -> ChallengeState]
        BY <1>1, Types
    <2>14. req' = [req EXCEPT ![r] = st]
        BY <1>3, <2>2
    <2> QED BY <1>1, <2>4, <2>8, <2>9, <2>10, <2>11, <2>12, <2>13, <2>14, TakeStep
<1> QED BY <1>2, <1>3 DEF TryBackupCode

\* A challenge is taken.
LEMMA CompleteInv ==
    ASSUME Inv, NEW r \in Req, NEW q \in ReqState, NEW kind \in {"login", "mfa"},
           completeLoginInternal(r, q, kind), q.chal \in Challenge,
           \A st \in ReqState : st.pc = "assert" /\ st.keys = q.keys /\ Same(st, q) => ReqOK(st),
           UNCHANGED <<active, token, flag, count, events, History, totp, backup, passkey, setup>>,
           asked' \in 0..MaxRequests
    PROVE  Inv'
<1>1. PICK c \in Challenge : c = q.chal
    OBVIOUS
<1>2. TokensStep
    BY TokensKept
<1>3. ASSUME challenge[c].st = "live", TakeChallenge(c)
      PROVE  /\ challenge' \in [Challenge -> ChallengeState] /\ challenge'[c].st = "gone"
             /\ \A x \in Challenge : x # c => challenge'[x] = challenge[x]
    <2>1. PICK d : d = [challenge[c] EXCEPT !.st = "gone"]
        OBVIOUS
    <2>2. challenge' = [challenge EXCEPT ![c] = d]
        BY <1>3, <2>1 DEF TakeChallenge
    <2>3. d \in ChallengeState /\ d.st = "gone"
        BY <2>1, Types DEF ChallengeState
    <2> QED BY <2>2, <2>3, Types
<1>4. CASE Return(r) /\ UNCHANGED challenge
    BY <1>2, <1>4, Types, ReturnStep
<1>5. CASE Return(r) /\ challenge[c].st = "live" /\ TakeChallenge(c)
    BY <1>2, <1>3, <1>5, Types, ReturnStep
<1>6. CASE /\ challenge[c].st = "live" /\ TakeChallenge(c)
           /\ req' = [req EXCEPT ![r] = [q EXCEPT !.pc = "assert"]]
    <2>1. PICK st : st = [q EXCEPT !.pc = "assert"]
        OBVIOUS
    <2>2. st \in ReqState /\ st.pc = "assert" /\ st.keys = q.keys /\ Same(st, q)
        BY <2>1 DEF ReqState, PC, Same
    <2>3. ReqOK(st) /\ st.chal = c
        BY <1>1, <2>2 DEF Same
    <2>4. Pending(st) = {} /\ \A x \in Proofs : Carries(st, x) => x = c
        BY <2>2, <2>3 DEF Pending, Carries
    <2>5. c \in Proofs /\ c \notin BackupCode
        BY FactorsAssumption DEF Proofs
    <2>6. Unspent(c) /\ ~Unspent(c)'
        BY <1>3, <1>6, <2>5 DEF Unspent
    <2>7. \A x \in Proofs : Unspent(x)' => Unspent(x)
        BY <1>3, <1>6 DEF Unspent
    <2> QED BY <1>3, <1>6, <2>1, <2>2, <2>3, <2>4, <2>5, <2>6, <2>7, Types, TakeStep
<1> QED BY <1>1, <1>4, <1>5, <1>6 DEF completeLoginInternal, Takeable, TakeChallenge

\* A login by passkey begins: it takes the challenge.
LEMMA LoginCompleteInv ==
    ASSUME Inv, NEW r \in Req, LoginComplete(r)
    PROVE  Inv'
<1>1. PICK c \in Challenge, p \in Passkey :
          completeLoginInternal(r, [NoReq EXCEPT !.kind = "passkey", !.chal = c,
                                        !.key = p, !.off = Account \ active], "login")
    BY DEF LoginComplete
<1>2. /\ UNCHANGED <<active, token, flag, count, events, History, totp, backup, passkey, setup>>
      /\ asked' \in 0..MaxRequests
    BY Types DEF LoginComplete, Begin
<1>3. PICK off \in SUBSET Account : off = Account \ active
    OBVIOUS
<1>4. PICK q : q = [NoReq EXCEPT !.kind = "passkey", !.chal = c, !.key = p, !.off = off]
    OBVIOUS
<1>5. /\ q \in ReqState /\ q.kind = "passkey" /\ q.chal = c /\ q.off = off /\ q.late = FALSE
      /\ q.must = FALSE /\ q.keys = {}
    BY <1>4, IdleReq DEF ReqState, Kind
<1>6. \A st \in ReqState : st.pc = "assert" /\ st.keys = q.keys /\ Same(st, q) => ReqOK(st)
    BY <1>3, <1>5 DEF ReqOK, Presents, Checked, Same
<1>7. completeLoginInternal(r, q, "login")
    BY <1>1, <1>3, <1>4 DEF completeLoginInternal
<1> QED BY <1>2, <1>5, <1>6, <1>7, CompleteInv

\* The challenge of an MFA login is taken.
LEMMA CompleteMFAInv ==
    ASSUME Inv, NEW r \in Req, CompleteMFALogin(r)
    PROVE  Inv'
<1>1. /\ req[r].pc = "challenge" /\ req[r] \in ReqState /\ ReqOK(req[r])
      /\ completeLoginInternal(r, req[r], "mfa")
      /\ UNCHANGED <<active, token, flag, count, asked, events, History, totp, backup, passkey, setup>>
    BY ReqType DEF CompleteMFALogin, At
<1>2. PICK q \in ReqState : q = req[r]
    BY <1>1
<1>3. q.chal \in Challenge /\ asked' \in 0..MaxRequests
    BY <1>1, <1>2, Types DEF ReqOK
<1>4. \A st \in ReqState : st.pc = "assert" /\ st.keys = q.keys /\ Same(st, q) => ReqOK(st)
    BY <1>1, <1>2 DEF ReqOK, Presents, Checked, Same
<1>5. completeLoginInternal(r, q, "mfa")
    BY <1>1, <1>2 DEF completeLoginInternal
<1> QED BY <1>1, <1>3, <1>4, <1>5, CompleteInv

\* The verified assertion is noted for the token.
LEMMA MarkInv ==
    ASSUME Inv, NEW r \in Req, MarkPasskeyMFAVerified(r)
    PROVE  Inv'
<1> DEFINE q == req[r]
<1>1. /\ q.pc = "mark" /\ q \in ReqState /\ ReqOK(q)
      /\ UNCHANGED <<active, token, count, asked, events, History, factors>>
    BY ReqType DEF MarkPasskeyMFAVerified, At
<1>2. PICK t \in Token : t = q.tok /\ t \in Issued
    BY <1>1 DEF ReqOK, Presents, Issued
<1>3. PICK f \in Proof : f = q.proof
    BY <1>1 DEF ReqState
<1>4. f.acct = token[t].acct
    BY <1>1, <1>2, <1>3 DEF ReqOK, Checked
<1>5. TokensStep
    BY <1>1, TokensKept
<1>6. CASE Return(r) /\ flag' = flag
    BY <1>1, <1>5, <1>6, Types, ReturnStep DEF factors
<1>7. ASSUME NEW st \in ReqState, req' = [req EXCEPT ![r] = st], ReqOK(st), Pending(st) = {},
             flag' = [flag EXCEPT ![t] = f], \A x \in Proofs : ~Carries(st, x)
      PROVE  Inv'
    <2>1. Grows
        BY <1>1, <1>5 DEF Grows, TokensStep, factors
    <2>2. ReqOK(st)'
        BY <1>7, <2>1, ReqStays
    <2>3. /\ req' \in [Req -> ReqState] /\ ReqsInv'
          /\ req'[r] = st /\ \A s \in Req : s # r => req'[s] = req[s]
        BY <1>7, <2>1, <2>2, Types, OneReqMoves
    <2>4. /\ flag' \in [Token -> Proof] /\ flag'[t] = f
          /\ \A u \in Token : u # t => flag'[u] = flag[u]
        BY <1>7, Types
    <2>5. BudgetInv'
        <3>1. \A k \in Key : Admitted(k)' \subseteq Admitted(k)
            BY <1>7, <2>3, AdmittedMoves
        <3>2. /\ count' = count /\ tries' = tries /\ count \in [Key -> Nat] /\ tries \in [Key -> Nat]
              /\ BudgetInv
            BY <1>1, Types DEF History
        <3>3. \A k \in Key : count[k] <= count'[k]
            BY <3>2
        <3> QED BY <3>1, <3>2, <3>3, BudgetKept
    <2>6. OnceInv'
        <3>1. PICK y \in Proofs : y = f.id /\ Carries(req[r], y)
            BY <1>1, <1>3 DEF ReqOK, Carries, Proofs
        <3>2. \A x \in Proofs : ~Carries(req'[r], x)
            BY <1>7, <2>3
        <3> QED BY <1>1, <2>3, <2>4, <3>1, <3>2, Types, OnceFlagged DEF History, factors
    <2>7. OpenedInv'
        BY <1>1, Types DEF OpenedInv, SecondFactorProven, DeadTokensStayDead,
                           NoLoginWhileSuspended, History
    <2> QED BY <1>1, <1>2, <1>4, <1>5, <2>3, <2>4, <2>5, <2>6, <2>7, Types, Assembled
            DEF History, factors
<1>8. CASE Return(r) /\ flag' = [flag EXCEPT ![t] = f]
    BY <1>7, <1>8, IdleReq, IdleOK DEF Return
<1>9. CASE /\ req' = [req EXCEPT ![r].pc = "token", ![r].proof = NoProof]
           /\ flag' = [flag EXCEPT ![t] = f]
    <2>1. PICK st : st = [q EXCEPT !.pc = "token", !.proof = NoProof]
        OBVIOUS
    <2>2. req' = [req EXCEPT ![r] = st]
        BY <1>9, <2>1, Types
    <2>3. /\ st \in ReqState /\ st.pc = "token" /\ st.kind = q.kind /\ st.tok = q.tok
          /\ st.late = q.late /\ st.must = q.must /\ st.off = q.off /\ st.keys = q.keys
        BY <1>1, <2>1, NoIdIsNoProof DEF ReqState, PC
    <2>4. q.keys = {} /\ q.kind = "mfa" /\ ~q.late /\ ~q.must /\ q.off \cap active = {}
        BY <1>1 DEF ReqOK
    <2>5. ReqOK(st)
        BY <1>2, <2>3, <2>4 DEF ReqOK, Presents, Checked
    <2>6. Pending(st) = {} /\ \A x \in Proofs : ~Carries(st, x)
        BY <2>3, <2>4 DEF Pending, Carries
    <2> QED BY <1>7, <1>9, <2>2, <2>3, <2>5, <2>6
<1> QED BY <1>2, <1>3, <1>6, <1>8, <1>9 DEF MarkPasskeyMFAVerified

-----------------------------------------------------------------------------
(* Sessions.                                                               *)

\* How a request opens a session is as it should be.
LEMMA OpenedAsProven ==
    ASSUME Inv, NEW r \in Req, req[r].pc \in {"session", "update"}, NEW verified \in BOOLEAN,
           verified => req[r].kind # "password", opened' = {HowOpened(r, verified)}
    PROVE  OpenedInv' /\ opened' \subseteq Opened
<1>1. PICK q \in ReqState : q = req[r] /\ ReqOK(q)
    BY ReqType
<1>2. PICK s : s = HowOpened(r, verified)
    OBVIOUS
<1>3. /\ q.acct \in Account /\ ~q.must /\ ~q.late /\ q.acct \notin q.off
      /\ q.kind # "password" => q.proof.acct = q.acct
      /\ q.kind = "password" => q.proof = NoProof
    BY <1>1 DEF ReqOK
<1>4. /\ s.acct = q.acct /\ s.by = q.proof.acct /\ s.verified = verified /\ s.late = q.late
      /\ s.must = q.must /\ s.off = (q.acct \in q.off)
    BY <1>1, <1>2 DEF HowOpened
<1>5. s \in Opened
    <2>1. q.proof.acct \in Owner /\ q.late \in BOOLEAN /\ q.must \in BOOLEAN
        BY DEF ReqState, Proof
    <2> QED BY <1>1, <1>2, <1>3, <2>1 DEF HowOpened, Opened
<1>6. IF s.by = NoAccount THEN ~s.must /\ ~s.verified ELSE s.by = s.acct
    <2>1. CASE q.kind = "password"
        BY <1>1, <1>3, <1>4, <2>1 DEF NoProof
    <2>2. CASE q.kind # "password"
        BY <1>3, <1>4, <2>2
    <2> QED BY <2>1, <2>2
<1>7. ~s.late /\ ~s.off
    BY <1>3, <1>4
<1>8. opened' = {s}
    BY <1>2
<1> QED BY <1>5, <1>6, <1>7, <1>8
        DEF OpenedInv, SecondFactorProven, DeadTokensStayDead, NoLoginWhileSuspended

\* A session is opened, which uses the proof up, or is marked as verified.
LEMMA OpenStep ==
    ASSUME Inv, NEW r \in Req, NEW st \in ReqState, req' = [req EXCEPT ![r] = st], ReqOK(st),
           Pending(st) = {}, \A x \in Proofs : ~Carries(st, x),
           OpenedInv', opened' \subseteq Opened,
           \/ UNCHANGED used
           \/ /\ req[r].pc = "session"
              /\ used' = [x \in DOMAIN used |-> IF x = req[r].proof.id THEN used[x] + 1 ELSE used[x]],
           UNCHANGED <<active, token, flag, count, asked, events, tries, factors>>
    PROVE  Inv'
<1>1. TokensStep
    BY TokensKept
<1>2. Grows
    BY <1>1 DEF Grows, TokensStep, factors
<1>3. ReqOK(st)'
    BY <1>2, ReqStays
<1>4. /\ req' \in [Req -> ReqState] /\ ReqsInv'
      /\ req'[r] = st /\ \A s \in Req : s # r => req'[s] = req[s]
    BY <1>2, <1>3, Types, OneReqMoves
<1>5. BudgetInv'
    <2>1. \A k \in Key : Admitted(k)' \subseteq Admitted(k)
        BY <1>4, AdmittedMoves
    <2>2. /\ count \in [Key -> Nat] /\ tries \in [Key -> Nat] /\ BudgetInv
        BY Types
    <2>3. \A k \in Key : count[k] <= count'[k]
        BY <2>2
    <2> QED BY <2>1, <2>2, <2>3, BudgetKept
<1>6. OnceInv' /\ used' \in [Proofs -> Nat]
    <2>1. CASE UNCHANGED used
        <3>1. \A s \in Req, x \in Proofs : Carries(req'[s], x) => Carries(req[s], x)
            BY <1>4
        <3>2. \A x \in Proofs : Unspent(x)' => Unspent(x)
            BY DEF Unspent, factors
        <3> QED BY <2>1, <3>1, <3>2, Types, OnceKept
    <2>2. CASE /\ req[r].pc = "session"
               /\ used' = [x \in DOMAIN used |-> IF x = req[r].proof.id THEN used[x] + 1 ELSE used[x]]
        <3>1. PICK y : y = req[r].proof.id
            OBVIOUS
        <3>2. Carries(req[r], y)
            BY <2>2, <3>1 DEF Carries
        <3>3. used' = [x \in DOMAIN used |-> IF x = y THEN used[x] + 1 ELSE used[x]]
            BY <2>2, <3>1
        <3>4. \A x \in Proofs : ~Carries(req'[r], x)
            BY <1>4
        <3>5. used \in [Proofs -> Nat]
            BY Types
        <3>6. OnceInv'
            BY <1>4, <3>2, <3>3, <3>4, <3>5, Types, OnceSpent DEF factors
        <3> QED BY <3>3, <3>5, <3>6
    <2> QED BY <2>1, <2>2
<1> QED BY <1>1, <1>4, <1>5, <1>6, Types, Assembled DEF factors

\* createSessionAndTokens: the proof is used up here.
LEMMA CreateSessionInv ==
    ASSUME Inv, NEW r \in Req, createSessionAndTokens(r)
    PROVE  Inv'
<1> DEFINE q == req[r]
           p == IF q.kind = "password" THEN "clear" ELSE "update"
<1>1. /\ q.pc = "session" /\ q \in ReqState /\ ReqOK(q)
      /\ UNCHANGED <<active, token, flag, count, asked, events, tries, factors>>
    BY ReqType DEF createSessionAndTokens, At
<1>2. CASE Return(r) /\ UNCHANGED <<opened, used>>
    BY <1>1, <1>2, Types, TokensKept, ReturnStep DEF factors, History
<1>3. CASE /\ opened' = {HowOpened(r, FALSE)} /\ Goto(r, p)
           /\ used' = [x \in DOMAIN used |-> IF x = q.proof.id THEN used[x] + 1 ELSE used[x]]
    <2>1. PICK st \in ReqState : /\ req' = [req EXCEPT ![r] = st]
                                 /\ st.pc = p /\ Same(st, q)
        BY <1>3, GotoIs DEF PC
    <2>2. ReqOK(st)
        BY <1>1, <2>1 DEF ReqOK, Presents, Checked, Same
    <2>3. Pending(st) = {} /\ \A x \in Proofs : ~Carries(st, x)
        BY <2>1 DEF Pending, Carries
    <2>4. OpenedInv' /\ opened' \subseteq Opened
        BY <1>1, <1>3, OpenedAsProven
    <2> QED BY <1>1, <1>3, <2>1, <2>2, <2>3, <2>4, OpenStep
<1> QED BY <1>2, <1>3 DEF createSessionAndTokens

\* UpdateSession marks the session as verified: a second factor was proved.
LEMMA MarkVerifiedInv ==
    ASSUME Inv, NEW r \in Req, markVerified(r)
    PROVE  Inv'
<1> DEFINE q == req[r]
<1>1. /\ q.pc = "update" /\ q \in ReqState /\ ReqOK(q) /\ q.kind # "password"
      /\ UNCHANGED <<active, token, flag, count, asked, events, tries, used, factors>>
    BY ReqType DEF markVerified, At, ReqOK
<1>2. CASE Return(r) /\ UNCHANGED opened
    BY <1>1, <1>2, Types, TokensKept, ReturnStep DEF factors, History
<1>3. CASE opened' = {HowOpened(r, TRUE)} /\ Goto(r, "clear")
    <2>1. PICK st \in ReqState : /\ req' = [req EXCEPT ![r] = st]
                                 /\ st.pc = "clear" /\ Same(st, q)
        BY <1>3, GotoIs DEF PC
    <2>2. ReqOK(st)
        BY <1>1, <2>1 DEF ReqOK, Presents, Checked, Same
    <2>3. Pending(st) = {} /\ \A x \in Proofs : ~Carries(st, x)
        BY <2>1 DEF Pending, Carries
    <2>4. OpenedInv' /\ opened' \subseteq Opened
        BY <1>1, <1>3, OpenedAsProven
    <2> QED BY <1>1, <2>1, <2>2, <2>3, <2>4, OpenStep
<1> QED BY <1>2, <1>3 DEF markVerified

-----------------------------------------------------------------------------
(* Steps that touch every request.                                         *)

\* What a request knows does not depend on the windows that it was let through in, and
\* it may know less.
Relaxed(n, q) ==
    /\ n.pc = q.pc /\ n.kind = q.kind /\ n.acct = q.acct /\ n.tok = q.tok /\ n.chal = q.chal
    /\ n.proof = q.proof /\ n.late = q.late
    /\ n.keys \subseteq q.keys /\ n.off \subseteq q.off /\ (n.must => q.must)

\* A request with fewer counters, suspended accounts and obligations still knows what it needs.
LEMMA RelaxedOK ==
    ASSUME NEW q, NEW n, ReqOK(q), Relaxed(n, q)
    PROVE  /\ ReqOK(n) /\ Pending(n) \subseteq Pending(q)
           /\ \A x : Carries(n, x) => Carries(q, x)
<1>1. ReqOK(n)
    <2>1. /\ n.pc = q.pc /\ n.kind = q.kind /\ n.acct = q.acct /\ n.tok = q.tok /\ n.chal = q.chal
          /\ n.proof = q.proof /\ n.late = q.late
          /\ n.keys \subseteq q.keys /\ n.off \subseteq q.off /\ (n.must => q.must)
        BY DEF Relaxed
    <2>2. (Presents(n) = Presents(q)) /\ (Checked(n) = Checked(q))
        BY <2>1 DEF Presents, Checked
    <2>3. n.off \cap active = {} /\ (q.acct \notin q.off => n.acct \notin n.off)
          /\ (q.keys = {} => n.keys = {})
        BY <2>1 DEF ReqOK
    <2> QED BY <2>1, <2>2, <2>3 DEF ReqOK
<1> QED BY <1>1 DEF Relaxed, Pending, Carries

\* A window ends, and with it the request r answers, or none does.
LEMMA ReleasedStep ==
    ASSUME Inv, NEW k \in Key, NEW base \in [Req -> ReqState],
           \A s \in Req : base[s] \in {req[s], NoReq}, req' = Released(base, k),
           count' = Cleared(k), tries' = Fresh(k), events' \in 0..MaxEvents,
           UNCHANGED <<active, token, flag, asked, opened, used, factors>>
    PROVE  Inv'
<1>1. TokensStep
    BY TokensKept
<1>2. Grows
    BY <1>1 DEF Grows, TokensStep, factors
<1>3. ASSUME NEW s \in Req
      PROVE  /\ req'[s] \in ReqState /\ ReqOK(req[s])' /\ k \notin Pending(req'[s])
             /\ Pending(req'[s]) \subseteq Pending(req[s])
             /\ \A x : Carries(req'[s], x) => Carries(req[s], x)
    <2>1. PICK q \in ReqState : q = base[s]
        OBVIOUS
    <2>2. ReqOK(q) /\ Pending(q) \subseteq Pending(req[s]) /\ \A x : Carries(q, x) => Carries(req[s], x)
        BY <2>1, IdleReq, IdleOK, ReqType
    <2>3. PICK n : n = [q EXCEPT !.keys = @ \ {k}]
        OBVIOUS
    <2>4. n \in ReqState /\ Relaxed(n, q) /\ n.keys = q.keys \ {k}
        BY <2>3 DEF ReqState, Relaxed
    <2>5. req'[s] = n
        BY <2>1, <2>3 DEF Released
    <2>6. ReqOK(n) /\ Pending(n) \subseteq Pending(q) /\ \A x : Carries(n, x) => Carries(q, x)
        BY <2>2, <2>4, RelaxedOK
    <2>7. ReqOK(n)'
        BY <1>2, <2>6, ReqStays
    <2>8. ReqOK(req[s])'
        BY <2>5, <2>7 DEF ReqOK, Presents, Checked, Issued
    <2>9. k \notin Pending(n)
        BY <2>4 DEF Pending
    <2> QED BY <2>2, <2>4, <2>5, <2>6, <2>8, <2>9
<1>4. req' \in [Req -> ReqState] /\ ReqsInv'
    <2>1. DOMAIN req' = Req /\ req' = [s \in Req |-> req'[s]]
        BY DEF Released
    <2> QED BY <1>3, <2>1 DEF ReqsInv
<1>5. BudgetInv'
    <2>1. Admitted(k)' = {} /\ \A j \in Key : Admitted(j)' \subseteq Admitted(j)
        BY <1>3 DEF Admitted, Pending
    <2> QED BY <2>1, Types, BudgetCleared
<1>6. OnceInv'
    <2>1. \A x \in Proofs : Unspent(x)' => Unspent(x)
        BY DEF Unspent, factors
    <2>2. \A s \in Req, x \in Proofs : Carries(req'[s], x) => Carries(req[s], x)
        BY <1>3
    <2> QED BY <2>1, <2>2, Types, OnceKept
<1>7. OpenedInv'
    BY Types DEF OpenedInv, SecondFactorProven, DeadTokensStayDead, NoLoginWhileSuspended
<1>8. /\ count' \in [Key -> Nat] /\ (\A j \in Key : count'[j] <= Limit(j)) /\ tries' \in [Key -> Nat]
    <2>1. \A j \in Key : count[j] <= Limit(j) /\ Limit(j) \in Nat
        BY Types, LimitsPositive
    <2> QED BY <2>1, Types DEF Cleared, Fresh
<1> QED BY <1>1, <1>4, <1>5, <1>6, <1>7, <1>8, Types, Assembled DEF factors

\* A login that succeeds clears the counter of its account.
LEMMA ClearInv ==
    ASSUME Inv, NEW r \in Req, clearLoginRateLimits(r)
    PROVE  Inv'
<1> DEFINE k == <<"login", req[r].acct>>
<1>1. /\ req[r].pc = "clear" /\ ReqOK(req[r])
      /\ UNCHANGED <<active, token, flag, asked, events, opened, used, factors>>
    BY ReqType DEF clearLoginRateLimits, At
<1>2. k \in Key
    BY <1>1 DEF Key, ReqOK
<1>3. CASE Return(r) /\ UNCHANGED <<count, tries>>
    BY <1>1, <1>3, Types, TokensKept, ReturnStep DEF factors, History
<1>4. CASE count' = Cleared(k) /\ tries' = Fresh(k) /\ req' = Released([req EXCEPT ![r] = NoReq], k)
    <2>1. PICK base : base = [req EXCEPT ![r] = NoReq]
        OBVIOUS
    <2>2. base \in [Req -> ReqState] /\ \A s \in Req : base[s] \in {req[s], NoReq}
        BY <2>1, Types, IdleReq
    <2>3. req' = Released(base, k) /\ events' \in 0..MaxEvents
        BY <1>1, <1>4, <2>1, Types
    <2> HIDE DEF k
    <2> QED BY <1>1, <1>2, <1>4, <2>2, <2>3, ReleasedStep
<1> QED BY <1>3, <1>4 DEF clearLoginRateLimits

\* The window of a counter ends, or an administrator clears it.
LEMMA WindowInv ==
    ASSUME Inv, NEW k \in Key, WindowEnds(k)
    PROVE  Inv'
BY Types, ReleasedStep DEF WindowEnds, Event

\* No request moves.
LEMMA QuietStep ==
    ASSUME Inv, req' = req, TokensStep,
           flag' \in [Token -> Proof], \A t \in Token : flag'[t] \in {flag[t], NoProof},
           challenge' \in [Challenge -> ChallengeState],
           \A c \in Challenge : challenge[c].st = "gone" => challenge'[c].st = "gone",
           events' \in 0..MaxEvents,
           UNCHANGED <<active, count, asked, History, totp, backup, passkey, setup>>
    PROVE  Inv'
<1>1. req' \in [Req -> ReqState] /\ ReqsInv'
    BY Types, NoReqMoves DEF Grows, TokensStep
<1>2. BudgetInv'
    <2>1. \A k \in Key : Admitted(k)' \subseteq Admitted(k)
        BY DEF Admitted
    <2>2. /\ count' = count /\ tries' = tries /\ count \in [Key -> Nat] /\ tries \in [Key -> Nat]
          /\ BudgetInv
        BY Types DEF History
    <2>3. \A k \in Key : count[k] <= count'[k]
        BY <2>2
    <2> QED BY <2>1, <2>2, <2>3, BudgetKept
<1>3. OnceInv'
    <2>1. \A x \in Proofs : Unspent(x)' => Unspent(x)
        BY DEF Unspent
    <2> QED BY <2>1, Types, OnceKept DEF History
<1>4. OpenedInv'
    BY Types DEF OpenedInv, SecondFactorProven, DeadTokensStayDead, NoLoginWhileSuspended, History
<1> QED BY <1>1, <1>2, <1>3, <1>4, Types, Assembled DEF History

\* A token expires, ...
LEMMA TokenExpiresInv ==
    ASSUME Inv, NEW t \in Token, TokenExpires(t)
    PROVE  Inv'
<1>1. /\ token[t].st = "live" /\ token' = [token EXCEPT ![t].st = "expired"]
      /\ UNCHANGED <<active, flag, count, req, asked, History, factors>> /\ events' \in 0..MaxEvents
    BY Types DEF TokenExpires, Event
<1>2. TokensStep
    <2>1. PICK d : d = [token[t] EXCEPT !.st = "expired"]
        OBVIOUS
    <2>2. token' = [token EXCEPT ![t] = d]
        BY <1>1, <2>1
    <2>3. d \in TokenState /\ d.acct = token[t].acct /\ d.st = "expired"
        BY <2>1, Types DEF TokenState
    <2>4. /\ token' \in [Token -> TokenState] /\ token'[t] = d
          /\ \A u \in Token : u # t => token'[u] = token[u]
        BY <2>2, <2>3, Types
    <2> QED BY <1>1, <2>3, <2>4, Types DEF TokensStep, TokensGrow
<1> QED BY <1>1, <1>2, Types, QuietStep DEF factors

\* ... and so does a flag.
LEMMA FlagExpiresInv ==
    ASSUME Inv, NEW t \in Token, FlagExpires(t)
    PROVE  Inv'
<1>1. /\ flag' = Taken(t) /\ token' = token /\ events' \in 0..MaxEvents
      /\ UNCHANGED <<active, count, req, asked, History, factors>>
    BY Types DEF FlagExpires, Event
<1>2. flag' \in [Token -> Proof] /\ \A u \in Token : flag'[u] \in {flag[u], NoProof}
    BY <1>1, Types, NoIdIsNoProof DEF Taken
<1> QED BY <1>1, <1>2, Types, TokensKept, QuietStep DEF factors

\* MFABegin stores a challenge for the account of the token.
LEMMA MFABeginInv ==
    ASSUME Inv, NEW t \in Token, NEW c \in Challenge, MFABegin(t, c)
    PROVE  Inv'
<1>1. /\ token[t].st = "live" /\ challenge[c].st = "none" /\ token' = token /\ flag' = flag
      /\ challenge' = [challenge EXCEPT ![c] = [st |-> "live", kind |-> "mfa", acct |-> token[t].acct]]
      /\ UNCHANGED <<active, count, req, asked, events, History, totp, backup, passkey, setup>>
    BY DEF MFABegin, StoreChallenge
<1>2. token[t].acct \in Account
    BY <1>1, Types
<1>3. /\ challenge' \in [Challenge -> ChallengeState]
      /\ \A x \in Challenge : challenge[x].st = "gone" => challenge'[x].st = "gone"
    BY <1>1, <1>2, Types DEF ChallengeState, Owner
<1> QED BY <1>1, <1>3, Types, TokensKept, QuietStep

\* SetStatus: an account that is active again is no longer one that is inactive since.
LEMMA SetStatusInv ==
    ASSUME Inv, NEW a \in Account, SetStatus(a)
    PROVE  Inv'
<1>1. /\ active' \subseteq active \cup {a} /\ active' \subseteq Account
      /\ UNCHANGED <<token, flag, count, asked, History, factors>> /\ events' \in 0..MaxEvents
      /\ req' = [r \in Req |-> [req[r] EXCEPT !.off = @ \ {a}]]
    BY Types DEF SetStatus, Event
<1>2. ASSUME NEW s \in Req
      PROVE  /\ req'[s] \in ReqState /\ ReqOK(req[s])'
             /\ Pending(req'[s]) \subseteq Pending(req[s])
             /\ \A x : Carries(req'[s], x) => Carries(req[s], x)
    <2>1. PICK q \in ReqState : q = req[s] /\ ReqOK(q)
        BY ReqType
    <2>2. PICK n : n = [q EXCEPT !.off = @ \ {a}]
        OBVIOUS
    <2>3. n \in ReqState /\ Relaxed(n, q) /\ n.off = q.off \ {a}
        BY <2>1, <2>2 DEF ReqState, Relaxed
    <2>4. req'[s] = n
        BY <1>1, <2>1, <2>2
    <2>5. ReqOK(n) /\ Pending(n) \subseteq Pending(q) /\ \A x : Carries(n, x) => Carries(q, x)
        BY <2>1, <2>3, RelaxedOK
    <2>6. n.off \cap active' = {}
        BY <1>1, <2>1, <2>3 DEF ReqOK
    <2>7. totp' = totp /\ token' = token /\ Issued' = Issued
        BY <1>1 DEF factors, Issued
    <2>8. ReqOK(req[s])'
        BY <2>4, <2>5, <2>6, <2>7 DEF ReqOK, Presents, Checked
    <2> QED BY <2>1, <2>3, <2>4, <2>5, <2>8
<1>3. req' \in [Req -> ReqState] /\ ReqsInv'
    <2>1. req' = [s \in Req |-> req'[s]]
        BY <1>1
    <2> QED BY <1>2, <2>1 DEF ReqsInv
<1>4. BudgetInv'
    <2>1. \A k \in Key : Admitted(k)' \subseteq Admitted(k)
        BY <1>2 DEF Admitted, Pending
    <2>2. /\ count' = count /\ tries' = tries /\ count \in [Key -> Nat] /\ tries \in [Key -> Nat]
          /\ BudgetInv
        BY <1>1, Types DEF History
    <2>3. \A k \in Key : count[k] <= count'[k]
        BY <2>2
    <2> QED BY <2>1, <2>2, <2>3, BudgetKept
<1>5. OnceInv'
    <2>1. \A x \in Proofs : Unspent(x)' => Unspent(x)
        BY <1>1 DEF Unspent, factors
    <2>2. \A s \in Req, x \in Proofs : Carries(req'[s], x) => Carries(req[s], x)
        BY <1>2
    <2> QED BY <1>1, <2>1, <2>2, Types, OnceKept DEF History
<1>6. OpenedInv'
    BY <1>1, Types DEF OpenedInv, SecondFactorProven, DeadTokensStayDead, NoLoginWhileSuspended, History
<1>7. TypeOK'
    <2>1. FactorsOK'
        BY <1>1 DEF Inv, TypeOK, FactorsOK, factors
    <2>2. \A k \in Key : (count[k] <= Limit(k))'
        BY <1>1, Types DEF Limit
    <2> QED BY <1>1, <1>3, <2>1, <2>2, Types DEF TypeOK, Proofs, History
<1>8. FactorsInv' /\ TokensInv'
    BY <1>1 DEF Inv, FactorsInv, TokensInv, factors
<1> QED BY <1>3, <1>4, <1>5, <1>6, <1>7, <1>8 DEF Inv

-----------------------------------------------------------------------------
(* Changes of the factors.                                                 *)

\* Rows stay well formed, and what is used up or deleted does not come back.
FactorsStep ==
    /\ FactorsOK' /\ FactorsInv'
    /\ \A b \in BackupCode : backup[b].st = "gone" => backup'[b].st = "gone"
    /\ \A c \in Challenge : challenge[c].st = "gone" => challenge'[c].st = "gone"

\* A request to change factors begins, goes on or ends.
LEMMA SetupMoves ==
    ASSUME FactorsOK, FactorsInv, NEW u \in Setup, NEW n \in SetupState,
           setup' = [setup EXCEPT ![u] = n], n.pc # "idle" => n.acct \in Account
    PROVE  /\ setup' \in [Setup -> SetupState]
           /\ \A v \in Setup : setup'[v].pc # "idle" => setup'[v].acct \in Account
<1>1. /\ setup' \in [Setup -> SetupState] /\ setup'[u] = n
      /\ \A v \in Setup : v # u => setup'[v] = setup[v]
    BY DEF FactorsOK
<1> QED BY <1>1 DEF FactorsInv

\* An idle enrolment is well typed.
LEMMA IdleSetup == NoSetup \in SetupState /\ NoSetup.pc = "idle"
<1>1. (CHOOSE p \in Passkey : TRUE) \in Passkey
    BY FactorsAssumption, Zenon
<1>2. PICK p \in Passkey : p = CHOOSE x \in Passkey : TRUE
    BY <1>1
<1> QED BY <1>2 DEF NoSetup, SetupState, Owner

\* An enrolment that ends leaves the others as they are.
LEMMA SetupReturns ==
    ASSUME FactorsOK, FactorsInv, NEW u \in Setup, setup' = [setup EXCEPT ![u] = NoSetup]
    PROVE  /\ setup' \in [Setup -> SetupState]
           /\ \A v \in Setup : setup'[v].pc # "idle" => setup'[v].acct \in Account
BY IdleSetup, SetupMoves

\* One TOTP credential changes.
LEMMA TOTPMoves ==
    ASSUME FactorsOK, NEW a \in Account, NEW st \in {"none", "pending", "live"},
           totp' = [totp EXCEPT ![a].st = st]
    PROVE  totp' \in [Account -> TOTP]
<1>1. totp[a] \in TOTP
    BY DEF FactorsOK
<1>2. PICK n : n = [totp[a] EXCEPT !.st = st]
    OBVIOUS
<1>3. n \in TOTP
    BY <1>1, <1>2 DEF TOTP
<1>4. totp' = [totp EXCEPT ![a] = n]
    BY <1>2
<1> QED BY <1>3, <1>4 DEF FactorsOK

\* The MFA service.
LEMMA EnrollStep ==
    ASSUME FactorsOK, FactorsInv, NEW u \in Setup, NEW a \in Account, EnrollTOTP(u, a)
    PROVE  FactorsStep
<1>1. PICK seen : seen = IF totp[a].st = "pending" THEN totp[a].id ELSE 0
    OBVIOUS
<1>2. seen \in 0..MaxEnrolments
    BY <1>1 DEF FactorsOK, TOTP
<1>3. PICK n : n = [setup[u] EXCEPT !.pc = "enroll", !.acct = a, !.seen = seen]
    OBVIOUS
<1>4. setup[u] \in SetupState
    BY DEF FactorsOK
<1>5. n \in SetupState /\ n.acct = a
    BY <1>2, <1>3, <1>4 DEF SetupState, Owner
<1>6. setup' = [setup EXCEPT ![u] = n]
    BY <1>1, <1>3 DEF EnrollTOTP, FactorsOK
<1>7. /\ setup' \in [Setup -> SetupState]
      /\ \A v \in Setup : setup'[v].pc # "idle" => setup'[v].acct \in Account
    BY <1>5, <1>6, SetupMoves
<1> QED BY <1>7 DEF FactorsStep, FactorsOK, FactorsInv, EnrollTOTP

\* A TOTP code is given to activate an enrolment.
LEMMA ActivateStep ==
    ASSUME FactorsOK, FactorsInv, NEW u \in Setup, NEW a \in Account, NEW id,
           ActivateTOTP(u, a, id)
    PROVE  FactorsStep
<1>1. PICK n : n = [setup[u] EXCEPT !.pc = "activate", !.acct = a]
    OBVIOUS
<1>2. setup[u] \in SetupState
    BY DEF FactorsOK
<1>3. n \in SetupState /\ n.acct = a
    BY <1>1, <1>2 DEF SetupState, Owner
<1>4. setup' = [setup EXCEPT ![u] = n]
    BY <1>1 DEF ActivateTOTP, FactorsOK
<1>5. /\ setup' \in [Setup -> SetupState]
      /\ \A v \in Setup : setup'[v].pc # "idle" => setup'[v].acct \in Account
    BY <1>3, <1>4, SetupMoves
<1> QED BY <1>5 DEF FactorsStep, FactorsOK, FactorsInv, ActivateTOTP

\* A new TOTP secret is saved.
LEMMA SaveStep ==
    ASSUME FactorsOK, FactorsInv, NEW u \in Setup, SaveEnrolment(u)
    PROVE  FactorsStep
<1>1. PICK a \in Account : a = setup[u].acct
    BY DEF FactorsInv, SaveEnrolment
<1>2. PICK id \in Nat : id = totp[a].id /\ id < MaxEnrolments
    BY <1>1 DEF SaveEnrolment, FactorsOK, TOTP
<1>3. totp' \in {totp, [totp EXCEPT ![a] = [st |-> "pending", id |-> id + 1]]}
    <2>1. \/ totp' = totp
          \/ totp' = [totp EXCEPT ![a] = [st |-> "pending", id |-> totp[a].id + 1]]
        BY <1>1 DEF SaveEnrolment, FactorsOK
    <2> QED BY <1>2, <2>1
<1>4. [st |-> "pending", id |-> id + 1] \in TOTP
    BY <1>2 DEF TOTP
<1>5. totp' \in [Account -> TOTP]
    BY <1>3, <1>4 DEF FactorsOK
<1>6. /\ setup' \in [Setup -> SetupState]
      /\ \A v \in Setup : setup'[v].pc # "idle" => setup'[v].acct \in Account
    BY SetupReturns DEF SaveEnrolment
<1> QED BY <1>5, <1>6 DEF FactorsStep, FactorsOK, FactorsInv, SaveEnrolment

\* The pending TOTP secret becomes the live one.
LEMMA VerifyFirstStep ==
    ASSUME FactorsOK, FactorsInv, NEW u \in Setup, VerifyFirstUnverifiedTOTP(u)
    PROVE  FactorsStep
<1>1. PICK a \in Account : a = setup[u].acct
    BY DEF FactorsInv, VerifyFirstUnverifiedTOTP
<1>2. totp' = totp \/ totp' = [totp EXCEPT ![a].st = "live"]
    BY <1>1 DEF VerifyFirstUnverifiedTOTP
<1>3. totp' \in [Account -> TOTP]
    <2>1. CASE totp' = totp
        BY <2>1 DEF FactorsOK
    <2>2. CASE totp' = [totp EXCEPT ![a].st = "live"]
        BY <2>2, TOTPMoves
    <2> QED BY <1>2, <2>1, <2>2
<1>4. /\ setup' \in [Setup -> SetupState]
      /\ \A v \in Setup : setup'[v].pc # "idle" => setup'[v].acct \in Account
    BY SetupReturns DEF VerifyFirstUnverifiedTOTP
<1> QED BY <1>3, <1>4 DEF FactorsStep, FactorsOK, FactorsInv, VerifyFirstUnverifiedTOTP

\* Deleting the rows of an account brings none back.
LEMMA SoftDeleted ==
    ASSUME backup \in [BackupCode -> Credential], NEW a \in Account, NEW rows,
           rows = SoftDeleteByType(backup, a)
    PROVE  /\ rows \in [BackupCode -> Credential]
           /\ \A b \in BackupCode : rows[b].st # backup[b].st => rows[b].st = "gone"
<1>1. ASSUME NEW b \in BackupCode
      PROVE  rows[b] \in Credential /\ (rows[b].st # backup[b].st => rows[b].st = "gone")
    <2>1. PICK q \in Credential : q = backup[b]
        OBVIOUS
    <2>2. PICK n : n = [q EXCEPT !.st = "gone"]
        OBVIOUS
    <2>3. n \in Credential /\ n.st = "gone"
        BY <2>2 DEF Credential
    <2>4. rows[b] \in {q, n}
        BY <2>1, <2>2 DEF SoftDeleteByType
    <2> QED BY <2>1, <2>3, <2>4
<1>2. rows = [b \in BackupCode |-> rows[b]]
    BY DEF SoftDeleteByType
<1> QED BY <1>1, <1>2

\* TOTP and backup codes are removed.
LEMMA DisableStep ==
    ASSUME FactorsOK, FactorsInv, NEW a \in Account, DisableTOTP(a)
    PROVE  FactorsStep
<1>1. totp' \in [Account -> TOTP]
    BY TOTPMoves DEF DisableTOTP
<1>2. /\ backup' \in [BackupCode -> Credential]
      /\ \A b \in BackupCode : backup'[b].st # backup[b].st => backup'[b].st = "gone"
    BY SoftDeleted DEF DisableTOTP, FactorsOK
<1> QED BY <1>1, <1>2 DEF FactorsStep, FactorsOK, FactorsInv, DisableTOTP

\* A new backup code replaces the old ones.
LEMMA GenerateStep ==
    ASSUME FactorsOK, FactorsInv, NEW a \in Account, NEW b \in BackupCode, GenerateBackupCodes(a, b)
    PROVE  FactorsStep
<1>0. PICK deleted : deleted = SoftDeleteByType(backup, a)
    OBVIOUS
<1>1. PICK missed \in SUBSET BackupCode :
        backup' = CreateCredentials([x \in BackupCode |-> IF x \in missed THEN backup[x]
                                                         ELSE deleted[x]], {b}, a)
    BY <1>0 DEF GenerateBackupCodes
<1> DEFINE rows == [x \in BackupCode |-> IF x \in missed THEN backup[x] ELSE deleted[x]]
<1>2. /\ rows \in [BackupCode -> Credential]
      /\ \A x \in BackupCode : rows[x].st # backup[x].st => rows[x].st = "gone"
    <2>1. /\ deleted \in [BackupCode -> Credential]
          /\ \A x \in BackupCode : deleted[x].st # backup[x].st => deleted[x].st = "gone"
        BY <1>0, SoftDeleted DEF FactorsOK
    <2> QED BY <2>1 DEF FactorsOK
<1>3. backup' = [x \in BackupCode |-> IF x \in {b} THEN [st |-> "live", acct |-> a] ELSE rows[x]]
    BY <1>1 DEF CreateCredentials
<1> HIDE DEF rows
<1>4. [st |-> "live", acct |-> a] \in Credential
    BY DEF Credential, Owner
<1>5. backup' \in [BackupCode -> Credential]
    BY <1>2, <1>3, <1>4
<1>6. \A x \in BackupCode : backup[x].st = "gone" => backup'[x].st = "gone"
    BY <1>2, <1>3 DEF GenerateBackupCodes
<1> QED BY <1>5, <1>6 DEF FactorsStep, FactorsOK, FactorsInv, GenerateBackupCodes

\* The passkey service: a challenge is stored once and taken once.
LEMMA StoreStep ==
    ASSUME FactorsOK, FactorsInv, NEW c \in Challenge, NEW kind \in {"reg", "login", "mfa"},
           NEW a \in Owner, StoreChallenge(c, kind, a), UNCHANGED <<totp, backup, passkey, setup>>
    PROVE  FactorsStep
<1>1. [st |-> "live", kind |-> kind, acct |-> a] \in ChallengeState
    BY DEF ChallengeState
<1>2. /\ challenge' \in [Challenge -> ChallengeState]
      /\ \A x \in Challenge : challenge[x].st = "gone" => challenge'[x].st = "gone"
    BY <1>1 DEF StoreChallenge, FactorsOK
<1> QED BY <1>2 DEF FactorsStep, FactorsOK, FactorsInv

\* A challenge that was taken is gone for good.
LEMMA ChallengeTaken ==
    ASSUME FactorsOK, NEW c \in Challenge, TakeChallenge(c)
    PROVE  /\ challenge' \in [Challenge -> ChallengeState]
           /\ \A x \in Challenge : challenge[x].st = "gone" => challenge'[x].st = "gone"
<1>1. PICK d : d = [challenge[c] EXCEPT !.st = "gone"]
    OBVIOUS
<1>2. challenge[c] \in ChallengeState
    BY DEF FactorsOK
<1>3. d \in ChallengeState /\ d.st = "gone"
    BY <1>1, <1>2 DEF ChallengeState
<1>4. challenge' = [challenge EXCEPT ![c] = d]
    BY <1>1 DEF TakeChallenge
<1> QED BY <1>3, <1>4 DEF FactorsOK

\* A challenge expires.
LEMMA ExpireStep ==
    ASSUME FactorsOK, FactorsInv, NEW c \in Challenge, ChallengeExpires(c)
    PROVE  FactorsStep
<1>1. /\ challenge' \in [Challenge -> ChallengeState]
      /\ \A x \in Challenge : challenge[x].st = "gone" => challenge'[x].st = "gone"
    BY ChallengeTaken DEF ChallengeExpires
<1> QED BY <1>1 DEF FactorsStep, FactorsOK, FactorsInv, ChallengeExpires

\* The answer to a registration challenge arrives.
LEMMA RegisterStep ==
    ASSUME FactorsOK, FactorsInv, NEW u \in Setup, NEW a \in Account, NEW c \in Challenge,
           NEW p \in Passkey, CompleteRegistration(u, a, c, p)
    PROVE  FactorsStep
<1>1. /\ challenge' \in [Challenge -> ChallengeState]
      /\ \A x \in Challenge : challenge[x].st = "gone" => challenge'[x].st = "gone"
    BY ChallengeTaken DEF CompleteRegistration
<1>2. PICK n : n = [setup[u] EXCEPT !.pc = "register", !.acct = a, !.key = p]
    OBVIOUS
<1>3. setup[u] \in SetupState
    BY DEF FactorsOK
<1>4. n \in SetupState /\ n.acct = a
    BY <1>2, <1>3 DEF SetupState, Owner
<1>5. setup' = setup \/ setup' = [setup EXCEPT ![u] = n]
    BY <1>2 DEF CompleteRegistration, FactorsOK
<1>6. /\ setup' \in [Setup -> SetupState]
      /\ \A v \in Setup : setup'[v].pc # "idle" => setup'[v].acct \in Account
    <2>1. CASE setup' = setup
        BY <2>1 DEF FactorsOK, FactorsInv
    <2>2. CASE setup' = [setup EXCEPT ![u] = n]
        BY <1>4, <2>2, SetupMoves
    <2> QED BY <1>5, <2>1, <2>2
<1> QED BY <1>1, <1>6 DEF FactorsStep, FactorsOK, FactorsInv, CompleteRegistration

\* The row of a new passkey is written.
LEMMA CreateStep ==
    ASSUME FactorsOK, FactorsInv, NEW u \in Setup, CreateCredential(u)
    PROVE  FactorsStep
<1>1. PICK a \in Account : a = setup[u].acct
    BY DEF FactorsInv, CreateCredential
<1>2. PICK p \in Passkey : p = setup[u].key
    BY DEF FactorsOK, SetupState
<1>3. PICK n : n = [st |-> "live", acct |-> a]
    OBVIOUS
<1>4. n \in Credential /\ n.acct = a
    BY <1>3 DEF Credential, Owner
<1>5. passkey' = passkey \/ passkey' = [passkey EXCEPT ![p] = n]
    BY <1>1, <1>2, <1>3 DEF CreateCredential
<1>6. /\ passkey' \in [Passkey -> Credential]
      /\ \A x \in Passkey : passkey'[x].st = "live" => passkey'[x].acct \in Account
    BY <1>4, <1>5 DEF FactorsOK, FactorsInv
<1>7. /\ setup' \in [Setup -> SetupState]
      /\ \A v \in Setup : setup'[v].pc # "idle" => setup'[v].acct \in Account
    BY SetupReturns DEF CreateCredential
<1> QED BY <1>6, <1>7 DEF FactorsStep, FactorsOK, FactorsInv, CreateCredential

\* A passkey is deleted.
LEMMA DeleteStep ==
    ASSUME FactorsOK, FactorsInv, NEW a, NEW p \in Passkey, DeleteCredential(a, p)
    PROVE  FactorsStep
<1>1. PICK n : n = [passkey[p] EXCEPT !.st = "gone"]
    OBVIOUS
<1>2. passkey[p] \in Credential
    BY DEF FactorsOK
<1>3. n \in Credential /\ n.st = "gone"
    BY <1>1, <1>2 DEF Credential
<1>4. passkey' = [passkey EXCEPT ![p] = n]
    BY <1>1 DEF DeleteCredential, SoftDeleteCredential
<1>5. /\ passkey' \in [Passkey -> Credential]
      /\ \A x \in Passkey : passkey'[x].st = "live" => passkey'[x].acct \in Account
    BY <1>3, <1>4 DEF FactorsOK, FactorsInv
<1> QED BY <1>5 DEF FactorsStep, FactorsOK, FactorsInv, DeleteCredential

\* An enrolment fails or is given up.
LEMMA EndStep ==
    ASSUME FactorsOK, FactorsInv, NEW u \in Setup, SetupEnds(u)
    PROVE  FactorsStep
<1>1. /\ setup' \in [Setup -> SetupState]
      /\ \A v \in Setup : setup'[v].pc # "idle" => setup'[v].acct \in Account
    BY SetupReturns DEF SetupEnds
<1> QED BY <1>1 DEF FactorsStep, FactorsOK, FactorsInv, SetupEnds

\* What users and administrators begin, and what goes on of it.
LEMMA SetupStepStep ==
    ASSUME FactorsOK, FactorsInv, SetupStep
    PROVE  FactorsStep
BY SaveStep, VerifyFirstStep, CreateStep, EndStep, ActivateStep, RegisterStep DEF SetupStep

\* All changes of factors together.
LEMMA SetupEventStep ==
    ASSUME FactorsOK, FactorsInv, SetupEvent
    PROVE  FactorsStep
<1>1. ASSUME NEW u \in Setup, NEW a \in Account, EnrollTOTP(u, a) PROVE FactorsStep
    BY <1>1, EnrollStep
<1>2. ASSUME NEW u \in Setup, NEW a \in Account, NEW id \in 1..MaxEnrolments, ActivateTOTP(u, a, id)
      PROVE FactorsStep
    BY <1>2, ActivateStep
<1>3. ASSUME NEW a \in Account, DisableTOTP(a) \/ AdminResetMFA(a) PROVE FactorsStep
    BY <1>3, DisableStep DEF AdminResetMFA, ResetMFA
<1>4. ASSUME NEW a \in Account, NEW b \in BackupCode, GenerateBackupCodes(a, b) PROVE FactorsStep
    BY <1>4, GenerateStep
<1>5. ASSUME NEW a \in Account, NEW p \in Passkey, DeletePasskey(a, p) PROVE FactorsStep
    BY <1>5, DeleteStep DEF DeletePasskey
<1>6. ASSUME NEW a \in Account, NEW c \in Challenge, BeginRegistration(a, c) PROVE FactorsStep
    BY <1>6, StoreStep DEF BeginRegistration, Owner
<1>7. ASSUME NEW c \in Challenge, LoginBegin(c) PROVE FactorsStep
    <2>1. CASE BeginDiscoverableLogin(c)
        BY <2>1, StoreStep DEF BeginDiscoverableLogin, Owner
    <2>2. ASSUME NEW a \in Account, BeginLogin(a, c) PROVE FactorsStep
        BY <2>2, StoreStep DEF BeginLogin, Owner
    <2> QED BY <1>7, <2>1, <2>2 DEF LoginBegin
<1>8. ASSUME NEW c \in Challenge, ChallengeExpires(c) PROVE FactorsStep
    BY <1>8, ExpireStep
<1> QED BY <1>1, <1>2, <1>3, <1>4, <1>5, <1>6, <1>7, <1>8 DEF SetupEvent

\* A second factor that was required is required no longer when it is gone.
LEMMA ChangeFactorsInv ==
    ASSUME Inv, ChangeFactors
    PROVE  Inv'
<1>1. /\ UNCHANGED <<active, token, flag, count, asked, History>> /\ events' \in 0..MaxEvents
      /\ req' = [r \in Req |-> [req[r] EXCEPT !.must = @ /\ totp'[req[r].acct].st = "live"]]
    BY Types DEF ChangeFactors, Event
<1>2. FactorsStep
    BY SetupStepStep, SetupEventStep DEF ChangeFactors, Inv, TypeOK
<1>3. ASSUME NEW s \in Req
      PROVE  /\ req'[s] \in ReqState /\ ReqOK(req[s])'
             /\ Pending(req'[s]) \subseteq Pending(req[s])
             /\ \A x : Carries(req'[s], x) => Carries(req[s], x)
    <2>1. PICK q \in ReqState : q = req[s] /\ ReqOK(q)
        BY ReqType
    <2>2. PICK must \in BOOLEAN : must = (q.must /\ totp'[q.acct].st = "live")
        OBVIOUS
    <2>3. PICK n : n = [q EXCEPT !.must = must]
        OBVIOUS
    <2>4. n \in ReqState /\ Relaxed(n, q) /\ n.must = must
        BY <2>1, <2>2, <2>3 DEF ReqState, Relaxed
    <2>5. req'[s] = n
        BY <1>1, <2>1, <2>2, <2>3
    <2>6. ReqOK(n) /\ Pending(n) \subseteq Pending(q) /\ \A x : Carries(n, x) => Carries(q, x)
        BY <2>1, <2>4, RelaxedOK
    <2>7. active' = active /\ token' = token /\ Issued' = Issued
        BY <1>1 DEF Issued
    <2>8. n.must => totp'[n.acct].st = "live"
        BY <2>2, <2>4 DEF Relaxed
    <2>9. ReqOK(req[s])'
        BY <2>5, <2>6, <2>7, <2>8 DEF ReqOK, Presents, Checked
    <2> QED BY <2>1, <2>4, <2>5, <2>6, <2>9
<1>4. req' \in [Req -> ReqState] /\ ReqsInv'
    <2>1. req' = [s \in Req |-> req'[s]]
        BY <1>1
    <2> QED BY <1>3, <2>1 DEF ReqsInv
<1>5. BudgetInv'
    <2>1. \A k \in Key : Admitted(k)' \subseteq Admitted(k)
        BY <1>3 DEF Admitted, Pending
    <2>2. /\ count' = count /\ tries' = tries /\ count \in [Key -> Nat] /\ tries \in [Key -> Nat]
          /\ BudgetInv
        BY <1>1, Types DEF History
    <2>3. \A k \in Key : count[k] <= count'[k]
        BY <2>2
    <2> QED BY <2>1, <2>2, <2>3, BudgetKept
<1>6. OnceInv'
    <2>1. \A x \in Proofs : Unspent(x)' => Unspent(x)
        BY <1>2 DEF Unspent, FactorsStep
    <2>2. \A s \in Req, x \in Proofs : Carries(req'[s], x) => Carries(req[s], x)
        BY <1>3
    <2> QED BY <1>1, <2>1, <2>2, Types, OnceKept DEF History
<1>7. OpenedInv'
    BY <1>1, Types DEF OpenedInv, SecondFactorProven, DeadTokensStayDead, NoLoginWhileSuspended, History
<1>8. TypeOK'
    <2>1. \A k \in Key : (count[k] <= Limit(k))'
        BY <1>1, Types DEF Limit
    <2> QED BY <1>1, <1>2, <1>4, <2>1, Types DEF TypeOK, Proofs, History, FactorsStep
<1>9. FactorsInv' /\ TokensInv'
    BY <1>1, <1>2 DEF Inv, FactorsStep, TokensInv
<1> QED BY <1>4, <1>5, <1>6, <1>7, <1>8, <1>9 DEF Inv

-----------------------------------------------------------------------------
(* The invariant.                                                          *)

\* The rows that are there at the start name their owners.
LEMMA RowsInit ==
    ASSUME NEW S, NEW owner \in [S -> Account], NEW L \in SUBSET S, NEW rows,
           rows = Credentials(L, owner)
    PROVE  /\ rows \in [S -> Credential]
           /\ \A x \in S : rows[x].st = "live" => rows[x].acct \in Account
<1>1. NoCredential \in Credential /\ NoCredential.st = "none"
    BY DEF NoCredential, Credential, Owner
<1>2. ASSUME NEW x \in S
      PROVE  [st |-> "live", acct |-> owner[x]] \in Credential /\ owner[x] \in Account
    BY DEF Credential, Owner
<1>3. rows = [x \in S |-> IF x \in L THEN [st |-> "live", acct |-> owner[x]] ELSE NoCredential]
    BY DEF Credentials
<1> QED BY <1>1, <1>2, <1>3

\* The invariant holds initially.
LEMMA InitInv == Init => Inv
<1> SUFFICES ASSUME Init PROVE Inv
    OBVIOUS
<1>1. FactorsOK /\ FactorsInv
    <2>1. totp \in [Account -> TOTP]
        BY DEF Init, FactorsInit, TOTP
    <2>2. backup \in [BackupCode -> Credential]
        BY RowsInit DEF Init, FactorsInit
    <2>3. /\ passkey \in [Passkey -> Credential]
          /\ \A p \in Passkey : passkey[p].st = "live" => passkey[p].acct \in Account
        BY RowsInit DEF Init, FactorsInit
    <2>4. challenge \in [Challenge -> ChallengeState]
        <3>1. NoChallenge \in ChallengeState
            BY DEF NoChallenge, ChallengeState, Owner
        <3> QED BY <3>1 DEF Init, FactorsInit
    <2>5. setup \in [Setup -> SetupState] /\ \A u \in Setup : setup[u].pc = "idle"
        BY IdleSetup DEF Init, FactorsInit
    <2> QED BY <2>1, <2>2, <2>3, <2>4, <2>5 DEF FactorsOK, FactorsInv
<1>2. /\ active \subseteq Account
      /\ token \in [Token -> TokenState] /\ \A t \in Token : token[t].st = "none"
    BY DEF Init, TokenState, Owner
<1>3. flag \in [Token -> Proof] /\ \A t \in Token : flag[t] = NoProof
    BY NoIdIsNoProof DEF Init
<1>4. req \in [Req -> ReqState] /\ \A r \in Req : req[r] = NoReq
    BY IdleReq DEF Init
<1>5. /\ count \in [Key -> Nat] /\ tries \in [Key -> Nat]
      /\ \A k \in Key : count[k] = 0 /\ tries[k] = 0
    BY DEF Init
<1>6. used \in [Proofs -> Nat] /\ \A x \in Proofs : used[x] = 0
    BY DEF Init, Proofs
<1>7. asked \in 0..MaxRequests /\ events \in 0..MaxEvents /\ opened = {}
    BY DEF Init
<1>8. TypeOK
    <2>1. \A k \in Key : count[k] <= Limit(k)
        BY <1>5, LimitsPositive
    <2> QED BY <1>1, <1>2, <1>3, <1>4, <1>5, <1>6, <1>7, <2>1 DEF TypeOK, Proofs
<1>9. TokensInv
    BY <1>2, <1>3 DEF TokensInv
<1>10. ReqsInv
    BY <1>4, IdleOK DEF ReqsInv
<1>11. OpenedInv
    BY <1>7 DEF OpenedInv, SecondFactorProven, DeadTokensStayDead, NoLoginWhileSuspended
<1>12. BudgetInv
    <2>1. \A k \in Key : Admitted(k) = {}
        BY <1>4, IdleReq DEF Admitted
    <2>2. Cardinality({}) = 0
        BY FS_EmptySet
    <2>3. \A k \in Key : Limit(k) \in Nat \ {0}
        BY LimitsPositive
    <2>4. \A k \in Key : tries[k] + Cardinality(Admitted(k)) = 0
        BY <1>5, <2>1, <2>2
    <2> QED BY <1>5, <2>3, <2>4 DEF BudgetInv
<1>13. OnceInv
    <2>1. \A r \in Req, x \in Proofs : ~Carries(req[r], x)
        BY <1>4, IdleReq
    <2>2. \A t \in Token, x \in Proofs : flag[t].id # x
        BY <1>3, NoIdIsNoProof
    <2> QED BY <1>6, <2>1, <2>2 DEF OnceInv, Single
<1> QED BY <1>1, <1>8, <1>9, <1>10, <1>11, <1>12, <1>13 DEF Inv

\* The steps of a request keep the invariant.
LEMMA StepInv ==
    ASSUME Inv, NEW r \in Req, Step(r)
    PROVE  Inv'
<1>1. CASE \/ LoginByUsernamePassword(r) \/ VerifyMFALogin(r) \/ MFAComplete(r) \/ LoginComplete(r)
           \/ LoginAttemptsPerIP(r) \/ checkMFAAccountRateLimit(r)
    BY <1>1, LoginByPasswordInv, VerifyMFALoginInv, MFACompleteInv, LoginCompleteInv,
       LoginPerIPInv, CheckMFAInv
<1>2. CASE \/ VerifyPassword(r) \/ handleMFARequirement(r) \/ ValidateMFAToken(r)
           \/ TryTOTP(r) \/ TryBackupCode(r) \/ verifyPasskeyMFAFlag(r) \/ BurnMFAToken(r)
    BY <1>2, VerifyPasswordInv, HandleMFAInv, ValidateInv, TryTOTPInv, TryBackupInv,
       VerifyFlagInv, BurnInv
<1>3. CASE \/ FindAccountByID(r) \/ blacklistMFAToken(r)
           \/ CompleteMFALogin(r) \/ VerifyAssertion(r) \/ MarkPasskeyMFAVerified(r)
    BY <1>3, FindAccountInv, BlacklistInv, CompleteMFAInv, AssertionInv, MarkInv
<1>4. CASE \/ createSessionAndTokens(r) \/ markVerified(r) \/ clearLoginRateLimits(r) \/ Crash(r)
    BY <1>4, CreateSessionInv, MarkVerifiedInv, ClearInv, CrashInv
<1> QED BY <1>1, <1>2, <1>3, <1>4 DEF Step

\* No request moves when nothing does.
LEMMA StutterInv ==
    ASSUME Inv, UNCHANGED vars
    PROVE  Inv'
BY Types, TokensKept, QuietStep DEF vars, factors, History

\* Every step keeps the invariant.
LEMMA NextInv == Inv /\ [Next]_vars => Inv'
<1> SUFFICES ASSUME Inv, [Next]_vars PROVE Inv'
    OBVIOUS
<1>1. ASSUME NEW r \in Req, Step(r) PROVE Inv'
    BY <1>1, StepInv
<1>2. ASSUME NEW t \in Token, TokenExpires(t) \/ FlagExpires(t) PROVE Inv'
    BY <1>2, TokenExpiresInv, FlagExpiresInv
<1>3. ASSUME NEW t \in Token, NEW c \in Challenge, MFABegin(t, c) PROVE Inv'
    BY <1>3, MFABeginInv
<1>4. ASSUME NEW k \in Key, WindowEnds(k) PROVE Inv'
    BY <1>4, WindowInv
<1>5. ASSUME NEW a \in Account, SetStatus(a) PROVE Inv'
    BY <1>5, SetStatusInv
<1>6. ASSUME NEW a \in Account, ClearLockout(a) PROVE Inv'
    <2>1. <<"login", a>> \in Key
        BY DEF Key
    <2> QED BY <1>6, <2>1, WindowInv DEF ClearLockout
<1>7. CASE ChangeFactors
    BY <1>7, ChangeFactorsInv
<1>8. CASE UNCHANGED vars
    BY <1>8, StutterInv
<1> QED BY <1>1, <1>2, <1>3, <1>4, <1>5, <1>6, <1>7, <1>8 DEF Next

\* The invariant holds in every reachable state.
LEMMA AlwaysInv == Spec => []Inv
BY InitInv, NextInv, PTL DEF Spec

-----------------------------------------------------------------------------
(* The theorems.                                                           *)

\* Every variable of the logins, and every row of a factor, keeps its type, whatever the
\* requests, the faults and the changes of factors.
THEOREM LoginsTypeCorrect == Spec => []TypeOK
<1>1. Inv => TypeOK
    BY DEF Inv
<1> QED BY <1>1, AlwaysInv, PTL

\* A session is opened by a second factor of its own account, or by a password alone only
\* if none was required all through the request, and only the former is marked as verified
\* (handleMFARequirement, VerifyMFALogin, CompletePasskeyMFALogin, completeLogin), also
\* when factors are enrolled or removed while requests are under way.
THEOREM SecondFactorNeeded == Spec => []SecondFactorProven
<1>1. Inv => SecondFactorProven
    BY DEF Inv, OpenedInv
<1> QED BY <1>1, AlwaysInv, PTL

\* A backup code and an answer to a WebAuthn challenge open one session at most, however
\* many requests present them (VerifyBackupCode, the GetDel of challenges and flags).
THEOREM ProofsOpenOneSession == Spec => []ProofsUsedOnce
<1>1. Inv => ProofsUsedOnce
    <2> SUFFICES ASSUME Inv, NEW x \in DOMAIN used PROVE used[x] <= 1
        BY DEF ProofsUsedOnce
    <2>1. x \in Proofs
        BY Types
    <2> QED BY <2>1 DEF Inv, OnceInv, Single
<1> QED BY <1>1, AlwaysInv, PTL

\* Fewer guesses are checked in a window of a counter than its limit says, for any number
\* of concurrent requests: CheckAndIncr counts before the guess, never after it.
THEOREM GuessesAreBounded == Spec => []GuessesBounded
<1>1. Inv => GuessesBounded
    <2> SUFFICES ASSUME Inv, NEW k \in Key PROVE tries[k] < Limit(k)
        BY DEF GuessesBounded
    <2>1. PICK S \in SUBSET Req : S = Admitted(k)
        BY DEF Admitted
    <2>2. Cardinality(S) \in Nat
        BY RequestsFinite
    <2>3. tries[k] \in Nat /\ Limit(k) \in Nat /\ tries[k] + Cardinality(S) < Limit(k)
        BY <2>1, Types, LimitsPositive DEF BudgetInv
    <2> QED BY <2>2, <2>3
<1> QED BY <1>1, AlwaysInv, PTL

\* No request that begins after its MFA token was blacklisted opens a session
\* (blacklistMFAToken, ValidateMFAToken).
THEOREM DeadTokensOpenNothing == Spec => []DeadTokensStayDead
<1>1. Inv => DeadTokensStayDead
    BY DEF Inv, OpenedInv
<1> QED BY <1>1, AlwaysInv, PTL

\* An account that is suspended when a request begins, and stays so, is not logged in to,
\* by password, MFA token or passkey (the status checks of all ways to log in).
THEOREM SuspendedStayOut == Spec => []NoLoginWhileSuspended
<1>1. Inv => NoLoginWhileSuspended
    BY DEF Inv, OpenedInv
<1> QED BY <1>1, AlwaysInv, PTL
=============================================================================
