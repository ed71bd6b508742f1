------------------------------- MODULE Logins -------------------------------
(***************************************************************************)
(* Logging in: by password, by password and a second factor, or by         *)
(* passkey, with the MFA tokens that join the two halves of a login and    *)
(* the counters that limit attempts.  Requests run concurrently; every     *)
(* command to Redis or the database is one action with the local steps     *)
(* that follow it.  What a session and its tokens consist of is the        *)
(* subject of Sessions; here a session only remembers how it was opened.   *)
(*                                                                         *)
(* All requests come from one IP address.  There is no clock: a key or a   *)
(* token may expire, and a rate limit window end, at any moment.           *)
(***************************************************************************)
EXTENDS SecondFactors, FiniteSets

CONSTANTS
    Token,        \* MFA tokens that may be issued
    NoToken,
    NoId,
    Req,          \* concurrent logins
    LoginMax, IPMax, MFAMax,  \* loginMaxAttempts, loginMaxAttemptsPerIP, mfaAccountMaxAttempts
    Allowlisted,  \* whether the IP address is exempt from the limit per IP
    Faults,       \* what may go wrong: "redis", "crash"
    MaxRequests,  \* bound of the number of logins
    MaxEvents     \* bound of the number of events that come from elsewhere

ASSUME LoginsAssumption ==
    /\ NoId \notin BackupCode \cup Challenge
    /\ IsFiniteSet(Req)
    /\ {LoginMax, IPMax, MFAMax} \subseteq Nat \ {0}
    /\ Faults \subseteq {"redis", "crash"}
    /\ MaxRequests \in Nat /\ MaxEvents \in Nat

VARIABLES
    active,   \* accounts that are active
    token,    \* MFA tokens; "dead" is blacklisted
    flag,     \* webauthn:mfa_verified:{jti}, and history: the assertion it stands for
    count,    \* the rate limit counters
    req,      \* the requests under way
    asked,    \* logins so far
    events,   \* events from elsewhere so far
    tries,    \* history: guesses made in the window of each counter
    opened,   \* history: how the last session was opened
    used      \* history: sessions opened by each backup code and challenge

vars == <<active, token, flag, count, req, asked, events, tries, opened, used, factors>>

\* What a request has proved besides a password: by which factor, of whose.
Proof == [kind: {"none", "totp", "backup", "passkey"}, acct: Owner,
          id: BackupCode \cup Challenge \cup {NoId}]
NoProof == [kind |-> "none", acct |-> NoAccount, id |-> NoId]
TokenState == [st: {"none", "live", "dead", "expired"}, acct: Owner]
Key == ({"login", "mfa"} \X Account) \cup {<<"ip", NoAccount>>}
Limit(k) == CASE k[1] = "login" -> LoginMax [] k[1] = "mfa" -> MFAMax [] OTHER -> IPMax
PC == {"idle", "ip", "password", "status", "token", "challenge", "assert",
       "mark", "mfa", "totp", "backup", "flag", "burn", "account",
       "blacklist", "session", "update", "clear"}
\* "code" and "flag" are MFAVerify of type totp and passkey, "mfa" is MFAComplete.
Kind == {"password", "code", "flag", "mfa", "passkey"}
ReqState == [pc: PC, kind: Kind, acct: Owner, tok: Token \cup {NoToken},
             right: BOOLEAN,           \* the password that is presented
             secret: 0..MaxEnrolments, \* the code presented is of this secret, or
             code: BackupCode \cup {NoId}, \* is this backup code
             chal: Challenge \cup {NoId}, key: Passkey,
             proof: Proof,
             keys: SUBSET Key,  \* history: the windows in which the request was let through
             late: BOOLEAN,     \* history: the token was dead when the request began
             must: BOOLEAN,     \* history: a second factor has been required since
             off: SUBSET Account]  \* history: accounts concerned, inactive ever since
NoReq == [pc |-> "idle", kind |-> "password", acct |-> NoAccount, tok |-> NoToken,
          right |-> FALSE, secret |-> 0, code |-> NoId, chal |-> NoId,
          key |-> CHOOSE p \in Passkey : TRUE, proof |-> NoProof,
          keys |-> {}, late |-> FALSE, must |-> FALSE, off |-> {}]
Opened == [acct: Account, by: Owner, verified: BOOLEAN, late: BOOLEAN, must: BOOLEAN,
           off: BOOLEAN]

Init ==
    /\ FactorsInit
    /\ active = Account
    /\ token = [t \in Token |-> [st |-> "none", acct |-> NoAccount]]
    /\ flag = [t \in Token |-> NoProof]
    /\ count = [k \in Key |-> 0]
    /\ req = [r \in Req |-> NoReq]
    /\ asked = 0
    /\ events = 0
    /\ tries = [k \in Key |-> 0]
    /\ opened = {}
    /\ used = [x \in BackupCode \cup Challenge |-> 0]

At(r, pc) == req[r].pc = pc
Goto(r, pc) == req' = [req EXCEPT ![r].pc = pc]
Return(r) == req' = [req EXCEPT ![r] = NoReq]
Faulty == "redis" \in Faults
History == <<tries, opened, used>>
Event == events < MaxEvents /\ events' = events + 1

-----------------------------------------------------------------------------
(* Rate limits *)

\* CheckAndIncr does not count beyond the limit; the attempt that reaches it is refused.
Incr(k) == IF count[k] >= Limit(k) THEN count[k] ELSE count[k] + 1
AllowedTwice(k) == Incr(k) <= Limit(k)
Allowed(k) == Incr(k) < Limit(k)

\* Fail-closed: an error refuses the request, whether it was counted or not.
CheckAndIncr(r, q, k, next) ==
    \/ /\ count' = [count EXCEPT ![k] = Incr(k)]
       /\ req' = [req EXCEPT ![r] = IF Allowed(k)
                                    THEN [q EXCEPT !.pc = next, !.keys = @ \cup {k}]
                                    ELSE NoReq]
    \/ /\ Faulty
       /\ count' \in {count, [count EXCEPT ![k] = Incr(k)]}
       /\ Return(r)

\* A window ends, or its counter is cleared.
Cleared(k) == [count EXCEPT ![k] = 0]
Fresh(k) == [tries EXCEPT ![k] = 0]
Released(q, k) == [r \in Req |-> [q[r] EXCEPT !.keys = @ \ {k}]]

Guessed(r) == [k \in Key |-> IF k \in req[r].keys THEN tries[k] + 1 ELSE tries[k]]

checkIPRateLimit(r, q, next) ==
    IF Allowlisted THEN req' = [req EXCEPT ![r] = [q EXCEPT !.pc = next]] /\ UNCHANGED count
                   ELSE CheckAndIncr(r, q, <<"ip", NoAccount>>, next)

checkMFAAccountRateLimit(r) ==
    /\ At(r, "mfa")
    /\ CheckAndIncr(r, req[r], <<"mfa", req[r].acct>>,
                    IF req[r].kind = "code" THEN "totp" ELSE "flag")
    /\ UNCHANGED <<active, token, flag, asked, events, tries, opened, used, factors>>

-----------------------------------------------------------------------------
(* Login with a password *)

\* A request arrives; the action that follows is its first command.
Begin(r) ==
    /\ At(r, "idle")
    /\ asked < MaxRequests
    /\ asked' = asked + 1

\* The attempts for the username, counted first.
LoginByUsernamePassword(r) ==
    /\ Begin(r)
    /\ \E a \in Account, right \in BOOLEAN :
           CheckAndIncr(r, [NoReq EXCEPT !.acct = a, !.right = right,
                                         !.must = totp[a].st = "live", !.off = {a} \ active],
                        <<"login", a>>, "ip")
    /\ UNCHANGED <<active, token, flag, events, tries, opened, used, factors>>

LoginAttemptsPerIP(r) ==
    /\ At(r, "ip")
    /\ checkIPRateLimit(r, req[r], "password")
    /\ UNCHANGED <<active, token, flag, asked, events, tries, opened, used, factors>>

IsActiveUnchecked(a) == TRUE
IsActive(a) == a \in active

\* FindByUsernameWithPasswordCredential, IsActive and VerifyPassword.
VerifyPassword(r) ==
    /\ At(r, "password")
    /\ tries' = Guessed(r)
    /\ IF IsActive(req[r].acct) /\ req[r].right
       THEN req' = [req EXCEPT ![r].pc = "status", ![r].keys = {}]
       ELSE Return(r)
    /\ UNCHANGED <<active, token, flag, count, asked, events, opened, used, factors>>

\* Fail-closed: a login whose MFA status cannot be read is refused.
StatusIgnored(r) == Goto(r, "session")
StatusUnknown(r) == Return(r)

handleMFARequirement(r) ==
    /\ At(r, "status")
    /\ \/ /\ ~GetMFAStatus(req[r].acct)
          /\ Goto(r, "session")
          /\ UNCHANGED token
       \/ /\ GetMFAStatus(req[r].acct)
          /\ \E t \in Token :
                /\ token[t].st = "none"
                /\ token' = [token EXCEPT ![t] = [st |-> "live", acct |-> req[r].acct]]
          /\ Return(r)
       \/ Faulty /\ StatusUnknown(r) /\ UNCHANGED token
    /\ UNCHANGED <<active, flag, count, asked, events, History, factors>>

-----------------------------------------------------------------------------
(* Login with an MFA token *)

Issued == {t \in Token : token[t].st # "none"}

MFARequest(t, kind) ==
    [NoReq EXCEPT !.kind = kind, !.tok = t, !.late = token[t].st = "dead",
                  !.off = {token[t].acct} \ active]

\* What MFAVerify presents: a code of a secret of the account, or a wrong one; a backup
\* code; or that a passkey has been verified.
MFACodes(t) ==
    {[MFARequest(t, "code") EXCEPT !.secret = id] : id \in 0..MaxEnrolments}
    \cup {[MFARequest(t, "code") EXCEPT !.code = b] : b \in BackupCode}
    \cup {MFARequest(t, "flag")}

VerifyMFALogin(r) ==
    /\ Begin(r)
    /\ \E t \in Issued : \E q \in MFACodes(t) : checkIPRateLimit(r, q, "token")
    /\ UNCHANGED <<active, token, flag, events, tries, opened, used, factors>>

\* MFABegin: between the validation of the token and the store nothing matters to others.
MFABegin(t, c) ==
    /\ token[t].st = "live"
    /\ HasPasskeys(token[t].acct)
    /\ StoreChallenge(c, "mfa", token[t].acct)
    /\ UNCHANGED <<active, token, flag, count, req, asked, events, History,
                   totp, backup, passkey, setup>>

\* Not blacklisted, not expired, and of scope MFA.
ValidMFATokenUnchecked(t) == token[t].st \in {"live", "dead"}
ValidMFAToken(t) == token[t].st = "live"

TokenChecked(r, q, next) ==
    \/ /\ ValidMFAToken(q.tok)
       /\ req' = [req EXCEPT ![r] = [q EXCEPT !.pc = next, !.acct = token[q.tok].acct]]
    \/ (Faulty \/ ~ValidMFAToken(q.tok)) /\ Return(r)

ValidateMFAToken(r) ==
    /\ At(r, "token")
    /\ TokenChecked(r, req[r], "mfa")
    /\ UNCHANGED <<active, token, flag, count, asked, events, History, factors>>

\* MFAComplete: the answer of passkey p to challenge c.  CompletePasskeyMFALogin checks
\* the token again.
MFAComplete(r) ==
    /\ Begin(r)
    /\ \E t \in Issued, c \in Challenge, p \in Passkey :
           /\ challenge[c].st # "none"
           /\ TokenChecked(r, [MFARequest(t, "mfa") EXCEPT !.chal = c, !.key = p], "challenge")
    /\ UNCHANGED <<active, token, flag, count, events, History, factors>>

Proved(r, kind, id) ==
    [req[r] EXCEPT !.pc = "account", !.secret = 0, !.code = NoId, !.keys = {},
                   !.proof = [kind |-> kind, acct |-> req[r].acct, id |-> id]]

TryTOTP(r) ==
    /\ At(r, "totp")
    /\ tries' = Guessed(r)
    /\ IF VerifyTOTP(req[r].acct, req[r].secret)
       THEN req' = [req EXCEPT ![r] = Proved(r, "totp", NoId)]
       ELSE req' = [req EXCEPT ![r].pc = "backup", ![r].keys = {}]
    /\ UNCHANGED <<active, token, flag, count, asked, events, opened, used, factors>>

TryBackupCode(r) ==
    /\ At(r, "backup")
    /\ IF VerifyBackupCode(req[r].acct, req[r].code)
       THEN /\ UseBackupCode(req[r].code)
            /\ req' = [req EXCEPT ![r] = Proved(r, "backup", req[r].code)]
       ELSE Goto(r, "burn") /\ UNCHANGED backup
    /\ UNCHANGED <<active, token, flag, count, asked, events, History, totp, passkey,
                   challenge, setup>>

\* GetDel of the flag; only MFAVerify blacklists the token when there is none.
Taken(t) == [flag EXCEPT ![t] = NoProof]

verifyPasskeyMFAFlag(r) ==
    /\ At(r, "flag")
    /\ tries' = Guessed(r)
    /\ LET t == req[r].tok
           Refuse == IF req[r].kind = "flag" THEN Goto(r, "burn") ELSE Return(r)
       IN  \/ /\ flag' = Taken(t)
              /\ IF flag[t] = NoProof THEN Refuse
                 ELSE req' = [req EXCEPT ![r].pc = "account", ![r].proof = flag[t], ![r].keys = {}]
           \/ /\ Faulty
              /\ flag' \in {flag, Taken(t)}
              /\ Refuse
    /\ UNCHANGED <<active, token, count, asked, events, opened, used, factors>>

Blacklisted(t) == [token EXCEPT ![t].st = IF @ = "live" THEN "dead" ELSE @]

\* The token of a failed verification is blacklisted, best effort.
BurnMFAToken(r) ==
    /\ At(r, "burn")
    /\ \/ token' = Blacklisted(req[r].tok)
       \/ Faulty /\ token' = token
    /\ Return(r)
    /\ UNCHANGED <<active, flag, count, asked, events, History, factors>>

FindAccountByID(r) ==
    /\ At(r, "account")
    /\ IF IsActive(req[r].acct)
       THEN Goto(r, IF req[r].kind = "passkey" THEN "session" ELSE "blacklist")
       ELSE Return(r)
    /\ UNCHANGED <<active, token, flag, count, asked, events, History, factors>>

blacklistMFAToken(r) ==
    /\ At(r, "blacklist")
    /\ \/ token' = Blacklisted(req[r].tok) /\ Goto(r, "session")
       \/ Faulty /\ token' \in {token, Blacklisted(req[r].tok)} /\ Return(r)
    /\ UNCHANGED <<active, flag, count, asked, events, History, factors>>

-----------------------------------------------------------------------------
(* Login with a passkey *)

\* completeLoginInternal: the challenge is taken before the answer to it is looked at.
completeLoginInternal(r, q, kind) ==
    \/ /\ Takeable(q.chal, kind)
       /\ TakeChallenge(q.chal)
       /\ req' = [req EXCEPT ![r] = [q EXCEPT !.pc = "assert"]]
    \/ ~Takeable(q.chal, kind) /\ Return(r) /\ UNCHANGED challenge
    \/ /\ Faulty /\ Takeable(q.chal, kind)
       /\ TakeChallenge(q.chal)
       /\ Return(r)

LoginComplete(r) ==
    /\ Begin(r)
    /\ \E c \in Challenge, p \in Passkey :
           /\ challenge[c].st # "none"
           /\ completeLoginInternal(r, [NoReq EXCEPT !.kind = "passkey", !.chal = c,
                                           !.key = p, !.off = Account \ active], "login")
    /\ UNCHANGED <<active, token, flag, count, events, History, totp, backup, passkey, setup>>

CompleteMFALogin(r) ==
    /\ At(r, "challenge")
    /\ completeLoginInternal(r, req[r], "mfa")
    /\ UNCHANGED <<active, token, flag, count, asked, events, History, totp, backup, passkey, setup>>

VerifyAssertion(r) ==
    /\ At(r, "assert")
    /\ LET p == req[r].key
           proof == [kind |-> "passkey", acct |-> passkey[p].acct, id |-> req[r].chal]
       IN  IF FinishLogin(p, challenge[req[r].chal].acct, req[r].acct)
           THEN req' = [req EXCEPT ![r].proof = proof,
                            ![r].acct = IF req[r].kind = "mfa" THEN @ ELSE passkey[p].acct,
                            ![r].pc = IF req[r].kind = "mfa" THEN "mark" ELSE "account"]
           ELSE Return(r)
    /\ UNCHANGED <<active, token, flag, count, asked, events, History, factors>>

MarkPasskeyMFAVerified(r) ==
    /\ At(r, "mark")
    /\ \/ /\ flag' = [flag EXCEPT ![req[r].tok] = req[r].proof]
          /\ req' = [req EXCEPT ![r].pc = "token", ![r].proof = NoProof]
       \/ /\ Faulty
          /\ flag' \in {flag, [flag EXCEPT ![req[r].tok] = req[r].proof]}
          /\ Return(r)
    /\ UNCHANGED <<active, token, count, asked, events, History, factors>>

-----------------------------------------------------------------------------
(* completeLogin *)

HowOpened(r, verified) ==
    [acct |-> req[r].acct, by |-> req[r].proof.acct, verified |-> verified,
     late |-> req[r].late, must |-> req[r].must, off |-> req[r].acct \in req[r].off]

createSessionAndTokens(r) ==
    /\ At(r, "session")
    /\ \/ /\ opened' = {HowOpened(r, FALSE)}
          /\ used' = [x \in DOMAIN used |-> IF x = req[r].proof.id THEN used[x] + 1
                                                                   ELSE used[x]]
          /\ Goto(r, IF req[r].kind = "password" THEN "clear" ELSE "update")
       \/ Faulty /\ Return(r) /\ UNCHANGED <<opened, used>>
    /\ UNCHANGED <<active, token, flag, count, asked, events, tries, factors>>

\* UpdateSession marks the session as MFA-verified; when that fails the login answers an
\* error although the session exists.
markVerified(r) ==
    /\ At(r, "update")
    /\ \/ opened' = {HowOpened(r, TRUE)} /\ Goto(r, "clear")
       \/ Faulty /\ Return(r) /\ UNCHANGED opened
    /\ UNCHANGED <<active, token, flag, count, asked, events, tries, used, factors>>

\* Only the counter of the account is cleared, and not the one of its MFA codes.
clearLoginRateLimits(r) ==
    /\ At(r, "clear")
    /\ LET k == <<"login", req[r].acct>>
       IN  \/ /\ count' = Cleared(k) /\ tries' = Fresh(k)
              /\ req' = Released([req EXCEPT ![r] = NoReq], k)
           \/ Faulty /\ Return(r) /\ UNCHANGED <<count, tries>>
    /\ UNCHANGED <<active, token, flag, asked, events, opened, used, factors>>

-----------------------------------------------------------------------------
(* The rest of the system *)

WindowEnds(k) ==
    /\ Event
    /\ count[k] > 0
    /\ count' = Cleared(k) /\ tries' = Fresh(k) /\ req' = Released(req, k)
    /\ UNCHANGED <<active, token, flag, asked, opened, used, factors>>

\* An administrator clears the counter of a user, as a password reset does.
ClearLockout(a) == WindowEnds(<<"login", a>>)

TokenExpires(t) ==
    /\ Event
    /\ token[t].st = "live"
    /\ token' = [token EXCEPT ![t].st = "expired"]
    /\ UNCHANGED <<active, flag, count, req, asked, History, factors>>

FlagExpires(t) ==
    /\ Event
    /\ flag[t] # NoProof
    /\ flag' = Taken(t)
    /\ UNCHANGED <<active, token, count, req, asked, History, factors>>

\* An account is suspended, or activated again.
SetStatus(a) ==
    /\ Event
    /\ active' = IF a \in active THEN active \ {a} ELSE active \cup {a}
    /\ req' = [r \in Req |-> [req[r] EXCEPT !.off = @ \ {a}]]
    /\ UNCHANGED <<token, flag, count, asked, History, factors>>

Crash(r) ==
    /\ "crash" \in Faults
    /\ ~At(r, "idle")
    /\ Return(r)
    /\ UNCHANGED <<active, token, flag, count, asked, events, History, factors>>

\* Enrolments and registrations that have begun go on.
SetupStep ==
    \/ \E u \in Setup : \/ SaveEnrolment(u) \/ VerifyFirstUnverifiedTOTP(u)
                        \/ CreateCredential(u) \/ SetupEnds(u)
    \/ \E u \in Setup, a \in Account :
           \/ \E id \in 1..MaxEnrolments : totp[a].st = "pending" /\ ActivateTOTP(u, a, id)
           \/ \E c \in Challenge, p \in Passkey : CompleteRegistration(u, a, c, p)

\* The handlers of the rest: a login is begun with or without naming the account, ...
LoginBegin(c) == BeginDiscoverableLogin(c) \/ \E a \in Account : BeginLogin(a, c)
\* ... a user removes a passkey of his own, an administrator the factors of another.
DeletePasskey(a, p) == DeleteCredential(a, p)
AdminResetMFA(a) == ResetMFA(a)

\* What users and administrators begin at any time.
SetupEvent ==
    \/ \E u \in Setup, a \in Account :
           EnrollTOTP(u, a) \/ \E id \in 1..MaxEnrolments : ActivateTOTP(u, a, id)
    \/ \E a \in Account : \/ DisableTOTP(a) \/ AdminResetMFA(a)
                          \/ \E b \in BackupCode : GenerateBackupCodes(a, b)
                          \/ \E p \in Passkey : DeletePasskey(a, p)
                          \/ \E c \in Challenge : BeginRegistration(a, c)
    \/ \E c \in Challenge : LoginBegin(c) \/ ChallengeExpires(c)

\* A second factor is no longer required of a request when the account loses its own.
ChangeFactors ==
    /\ \/ SetupStep /\ UNCHANGED events
       \/ SetupEvent /\ Event
    /\ req' = [r \in Req |-> [req[r] EXCEPT
                 !.must = @ /\ totp'[req[r].acct].st = "live"]]
    /\ UNCHANGED <<active, token, flag, count, asked, History>>

Step(r) ==
    \/ LoginByUsernamePassword(r) \/ VerifyMFALogin(r) \/ MFAComplete(r) \/ LoginComplete(r)
    \/ LoginAttemptsPerIP(r) \/ checkMFAAccountRateLimit(r)
    \/ VerifyPassword(r) \/ handleMFARequirement(r) \/ ValidateMFAToken(r)
    \/ TryTOTP(r) \/ TryBackupCode(r) \/ verifyPasskeyMFAFlag(r) \/ BurnMFAToken(r)
    \/ FindAccountByID(r) \/ blacklistMFAToken(r)
    \/ CompleteMFALogin(r) \/ VerifyAssertion(r) \/ MarkPasskeyMFAVerified(r)
    \/ createSessionAndTokens(r) \/ markVerified(r) \/ clearLoginRateLimits(r)
    \/ Crash(r)

Next ==
    \/ \E r \in Req : Step(r)
    \/ \E t \in Token : TokenExpires(t) \/ FlagExpires(t) \/ \E c \in Challenge : MFABegin(t, c)
    \/ \E k \in Key : WindowEnds(k)
    \/ \E a \in Account : SetStatus(a) \/ ClearLockout(a)
    \/ ChangeFactors

Spec == Init /\ [][Next]_vars

-----------------------------------------------------------------------------
(* Properties *)

\* Every variable keeps its type.
TypeOK ==
    /\ FactorsOK
    /\ active \subseteq Account
    /\ token \in [Token -> TokenState]
    /\ flag \in [Token -> Proof]
    /\ count \in [Key -> Nat] /\ \A k \in Key : count[k] <= Limit(k)
    /\ req \in [Req -> ReqState]
    /\ asked \in 0..MaxRequests /\ events \in 0..MaxEvents
    /\ tries \in [Key -> Nat]
    /\ opened \subseteq Opened
    /\ used \in [BackupCode \cup Challenge -> Nat]

\* A session is opened by a second factor of its own account, or by a password alone only
\* if the account did not require one all through the request; only the former is marked
\* as MFA-verified (VerifyMFALogin, CompletePasskeyMFALogin, LoginByPasskey, completeLogin).
SecondFactorProven ==
    \A s \in opened : IF s.by = NoAccount THEN ~s.must /\ ~s.verified
                                          ELSE s.by = s.acct

\* A backup code, and an answer to a WebAuthn challenge, open one session at most, however
\* many requests present them (VerifyBackupCode, the GetDel of challenges and flags).
ProofsUsedOnce == \A x \in DOMAIN used : used[x] <= 1

\* In one window of a counter fewer guesses are checked than the limit says: of passwords
\* per user, of codes per account, of both per IP (CheckAndIncr and its callers).
GuessesBounded == \A k \in Key : tries[k] < Limit(k)

\* No request that begins after its MFA token was blacklisted opens a session, whether a
\* wrong code or a login used the token up (blacklistMFAToken, ValidateMFAToken).
DeadTokensStayDead == \A s \in opened : ~s.late

\* An account that is suspended when a request begins, and stays so, is not logged in to
\* (the status checks of all ways to log in).
NoLoginWhileSuspended == \A s \in opened : ~s.off
=============================================================================
