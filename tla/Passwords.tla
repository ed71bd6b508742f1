----------------------------- MODULE Passwords -----------------------------
(***************************************************************************)
(* How the password of an account changes: reset by e-mail, changed by its *)
(* owner or by an administrator, and what a change does to the sessions of *)
(* the account; the status of an account, its profile, and the shutdown of *)
(* the server, which waits for the revocations a reset leaves behind.      *)
(*                                                                         *)
(* Requests run concurrently.  A command to Redis, and the part of a       *)
(* transaction that runs under a row lock, is one action.  A password is a *)
(* number: every change sets a new one.  There is no clock: a key may      *)
(* expire at any moment.  How RevokeAllForAccount works is the subject of  *)
(* Sessions; here it is one step, with the three ways in which it fails.   *)
(***************************************************************************)
EXTENDS Naturals, FiniteSets

CONSTANTS
    Account, NoAccount,
    Session,       \* sessions that may be opened
    Token,         \* reset tokens that may be issued
    NoToken,
    Req,           \* concurrent requests
    Job,           \* the slots of revokeSem
    MaxAttempts,   \* maxAttempts of the reset service
    Faulty,        \* whether Redis, the database and mail may fail
    MaxRequests,   \* bound of the number of requests
    MaxStops       \* bound of the number of shutdowns

ASSUME PasswordsAssumption ==
    /\ NoAccount \notin Account /\ NoToken \notin Token
    /\ MaxAttempts \in Nat \ {0}
    /\ Faulty \in BOOLEAN
    /\ MaxRequests \in Nat /\ MaxStops \in Nat
    /\ IsFiniteSet(Req)

VARIABLES
    active,    \* accounts whose status is active
    password,  \* the password of each account
    sess,      \* sessions; "orphan" is alive but no longer in the index of its account
    access,    \* sessions whose access token is accepted
    token,     \* password_reset:token:{hash}
    cooldown,  \* accounts with a key password_reset:cooldown:{email}
    limited,   \* accounts with failed logins on their counters
    job,       \* the revocation each slot of the semaphore is running
    life,      \* the server: up, draining requests, waiting for jobs, down
    req,       \* the requests under way
    asked, stops, writes,  \* requests, shutdowns and passwords so far
    spent,     \* history: tokens a reset answered with success has used
    sets,      \* history: passwords each token has set
    bad,       \* history: what a request has done that it must not do
    gone,      \* history: sessions a change answered with success had to revoke
    owed,      \* history: sessions a reset answered with success will revoke
    lost       \* history: sessions whose revocation failed or was cut off

store == <<active, password, sess, access, token, cooldown, limited>>
history == <<spent, sets, bad, gone, owed, lost>>
passwordVars == <<store, job, life, req, asked, stops, writes, history>>

Owner == Account \cup {NoAccount}
SessionState == [st: {"none", "indexed", "orphan", "gone"}, acct: Owner]
TokenState == [st: {"none", "live", "gone"}, acct: Owner, attempts: 0..MaxAttempts,
               mailed: BOOLEAN]
JobState == [acct: Owner, taken: BOOLEAN, ids: SUBSET Session]
NoJob == [acct |-> NoAccount, taken |-> FALSE, ids |-> {}]
PC == {"idle", "session", "find", "store", "cool", "send", "active", "commit", "del",
       "limits", "mark", "sync", "status", "verify", "update", "revoke", "reread", "write"}
ReqState == [pc: PC, acct: Owner, tok: Token \cup {NoToken},
             old: Nat,          \* the current password, as the user presents it
             seen: BOOLEAN,     \* the status of the account that a profile update has read
             moved: BOOLEAN,    \* the account was written since UpdateAccount read updated_at
             before: SUBSET Session,  \* history: sessions when the request took effect
             late: BOOLEAN]     \* history: the token was spent when the request began
NoReq == [pc |-> "idle", acct |-> NoAccount, tok |-> NoToken, old |-> 0, seen |-> TRUE,
          moved |-> FALSE, before |-> {}, late |-> FALSE]

NoResetToken == [st |-> "none", acct |-> NoAccount, attempts |-> 0, mailed |-> FALSE]
FirstToken == CHOOSE t \in Token : TRUE

\* When the server starts Redis may hold sessions, and a reset link that was mailed.
PasswordsInit ==
    /\ active = Account
    /\ password = [a \in Account |-> 0]
    /\ \E S \in SUBSET Session : \E f \in [S -> Account] :
           /\ sess = [s \in Session |-> IF s \in S THEN [st |-> "indexed", acct |-> f[s]]
                                                   ELSE [st |-> "none", acct |-> NoAccount]]
           /\ access = S
    /\ \E a \in Owner :
           token = [t \in Token |-> IF a # NoAccount /\ t = FirstToken
                                    THEN [st |-> "live", acct |-> a, attempts |-> 0, mailed |-> TRUE]
                                    ELSE NoResetToken]
    /\ cooldown = {} /\ limited = {}
    /\ job = [j \in Job |-> NoJob]
    /\ life = "up"
    /\ req = [r \in Req |-> NoReq]
    /\ asked = 0 /\ stops = 0 /\ writes = 0
    /\ spent = {} /\ sets = [t \in Token |-> 0] /\ bad = {}
    /\ gone = {} /\ owed = {} /\ lost = {}

At(r, pc) == req[r].pc = pc
Goto(r, pc) == req' = [req EXCEPT ![r].pc = pc]
Return(r) == req' = [req EXCEPT ![r] = NoReq]

\* A request arrives.
Arrive(r) ==
    /\ At(r, "idle")
    /\ life = "up"
    /\ asked < MaxRequests
    /\ asked' = asked + 1
Begun(a, pc) == [NoReq EXCEPT !.acct = a, !.pc = pc]

SessionsOf(a) == {s \in Session : sess[s].acct = a /\ sess[s].st = "indexed"}

-----------------------------------------------------------------------------
(* Sessions *)

\* RevokeAllForAccount takes the sessions it revokes from the index of the account.
RevokeAll(a) ==
    /\ sess' = [s \in Session |-> IF s \in SessionsOf(a) THEN [sess[s] EXCEPT !.st = "gone"]
                                                        ELSE sess[s]]
    /\ access' = access \ SessionsOf(a)

\* It fails before the index is read, or before the sessions are deleted, or answers an
\* error for what it has done.
RevokeAllFails(a) ==
    \/ UNCHANGED <<sess, access>>
    \/ /\ sess' = [s \in Session |-> IF s \in SessionsOf(a)
                                     THEN [sess[s] EXCEPT !.st = "orphan"] ELSE sess[s]]
       /\ access' \in {access, access \ SessionsOf(a)}
    \/ RevokeAll(a)

\* A login reads the account with its password in one query and verifies both.
LoginByUsernamePassword(r) ==
    \E a \in Account : \E old \in {0, password[a]} :
        /\ Arrive(r)
        /\ IF old = password[a] /\ a \in active
           THEN /\ req' = [req EXCEPT ![r] = [Begun(a, "session") EXCEPT !.old = old]]
                /\ UNCHANGED limited
           ELSE /\ limited' = limited \cup {a}
                /\ UNCHANGED req
        /\ UNCHANGED <<active, password, sess, access, token, cooldown>>
        /\ UNCHANGED <<job, life, stops, writes, history>>

createSessionAndTokens(r) ==
    /\ At(r, "session")
    /\ \E s \in Session :
           /\ sess[s].st = "none"
           /\ sess' = [sess EXCEPT ![s] = [st |-> "indexed", acct |-> req[r].acct]]
           /\ access' = access \cup {s}
    /\ limited' = limited \ {req[r].acct}
    /\ Return(r)
    /\ UNCHANGED <<active, password, token, cooldown>>
    /\ UNCHANGED <<job, life, asked, stops, writes, history>>

-----------------------------------------------------------------------------
(* Asking for a reset *)

\* ForgotPassword answers the same whatever RequestReset returns.
RequestReset(r) ==
    \E a \in Account :
        /\ Arrive(r)
        /\ req' = [req EXCEPT ![r] = IF a \in cooldown THEN NoReq ELSE Begun(a, "find")]
        /\ UNCHANGED <<store, job, life, stops, writes, history>>

FindActiveAccount(r) ==
    /\ At(r, "find")
    /\ IF req[r].acct \in active THEN Goto(r, "store") ELSE Return(r)
    /\ UNCHANGED <<store, job, life, asked, stops, writes, history>>

\* A token is random: which of those not used yet does not matter.
StoreToken(r) ==
    LET unused == {t \in Token : token[t].st = "none"}
        t == CHOOSE x \in unused : TRUE
    IN  /\ At(r, "store")
        /\ unused # {}
        /\ token' = [token EXCEPT ![t].st = "live", ![t].acct = req[r].acct]
        /\ req' = [req EXCEPT ![r].tok = t, ![r].pc = "cool"]
        /\ UNCHANGED <<active, password, sess, access, cooldown, limited>>
        /\ UNCHANGED <<job, life, asked, stops, writes, history>>

\* Fail-closed: without the cooldown no mail is sent.
SetCooldown(r) ==
    /\ At(r, "cool")
    /\ cooldown' = cooldown \cup {req[r].acct}
    /\ Goto(r, "send")
    /\ UNCHANGED <<active, password, sess, access, token, limited>>
    /\ UNCHANGED <<job, life, asked, stops, writes, history>>

SendPasswordResetLink(r) ==
    /\ At(r, "send")
    /\ token' = [token EXCEPT ![req[r].tok].mailed = TRUE]
    /\ Return(r)
    /\ UNCHANGED <<active, password, sess, access, cooldown, limited>>
    /\ UNCHANGED <<job, life, asked, stops, writes, history>>

CooldownExpires(a) ==
    /\ a \in cooldown
    /\ cooldown' = cooldown \ {a}
    /\ UNCHANGED <<active, password, sess, access, token, limited>>
    /\ UNCHANGED <<job, life, req, asked, stops, writes, history>>

TokenExpires(t) ==
    /\ token[t].st = "live"
    /\ token' = [token EXCEPT ![t].st = "gone"]
    /\ UNCHANGED <<active, password, sess, access, cooldown, limited>>
    /\ UNCHANGED <<job, life, req, asked, stops, writes, history>>

-----------------------------------------------------------------------------
(* Setting the new password *)

\* One more attempt is counted before anything else is done with the token; at the limit
\* the token is deleted instead.
Exhausted(t) == token[t].attempts >= MaxAttempts

checkAttempts(t) ==
    token' = IF token[t].st = "live" /\ Exhausted(t) THEN [token EXCEPT ![t].st = "gone"]
             ELSE token
checkAndIncrementAttempts(t) ==
    token' = IF token[t].st # "live" THEN token
             ELSE IF Exhausted(t) THEN [token EXCEPT ![t].st = "gone"]
             ELSE [token EXCEPT ![t].attempts = @ + 1]

\* Whoever resets a password has the link from the mail.
VerifyAndReset(r) ==
    \E t \in Token :
        /\ token[t].mailed
        /\ Arrive(r)
        /\ checkAndIncrementAttempts(t)
        /\ req' = [req EXCEPT ![r] = IF token[t].st = "live" /\ ~Exhausted(t)
                                     THEN [Begun(token[t].acct, "active") EXCEPT
                                               !.tok = t, !.late = t \in spent]
                                     ELSE NoReq]
        /\ UNCHANGED <<active, password, sess, access, cooldown, limited>>
        /\ UNCHANGED <<job, life, stops, writes, history>>

\* A reset is refused when the account is no longer active.
MayReset(a) == a \in active

CheckAccountActive(r) ==
    /\ At(r, "active")
    /\ IF MayReset(req[r].acct) THEN Goto(r, "commit") ELSE Return(r)
    /\ UNCHANGED <<store, job, life, asked, stops, writes, history>>

\* The password of account a is replaced; the sessions there are should go.
SetPassword(r, pc) ==
    LET a == req[r].acct
    IN  /\ writes' = writes + 1
        /\ password' = [password EXCEPT ![a] = writes + 1]
        /\ req' = [req EXCEPT ![r].pc = pc, ![r].before = SessionsOf(a)]

ResetCommit(r) ==
    /\ At(r, "commit")
    /\ SetPassword(r, "del")
    /\ sets' = [sets EXCEPT ![req[r].tok] = @ + 1]
    /\ bad' = IF req[r].late THEN bad \cup {"spent"} ELSE bad
    /\ UNCHANGED <<active, sess, access, token, cooldown, limited>>
    /\ UNCHANGED <<job, life, asked, stops, spent, gone, owed, lost>>

\* The token is used up only now.  An error ends the request here, with the password
\* changed and no session revoked.
KeepToken(r) ==
    /\ At(r, "del")
    /\ Goto(r, "limits")
    /\ spent' = spent \cup {req[r].tok}
    /\ UNCHANGED <<store, job, life, asked, stops, writes, sets, bad, gone, owed, lost>>
DelToken(r) ==
    /\ At(r, "del")
    /\ token' = [token EXCEPT ![req[r].tok].st = "gone"]
    /\ \/ Goto(r, "limits") /\ spent' = spent \cup {req[r].tok}
       \/ Faulty /\ Return(r) /\ UNCHANGED spent
    /\ UNCHANGED <<active, password, sess, access, cooldown, limited>>
    /\ UNCHANGED <<job, life, asked, stops, writes, sets, bad, gone, owed, lost>>

\* Errors of the two steps that follow are only logged.
ClearLoginRateLimitsByUsername(r) ==
    /\ At(r, "limits")
    /\ \/ limited' = limited \ {req[r].acct}
       \/ Faulty /\ UNCHANGED limited
    /\ Goto(r, "mark")
    /\ UNCHANGED <<active, password, sess, access, token, cooldown>>
    /\ UNCHANGED <<job, life, asked, stops, writes, history>>

\* The sessions that are to be revoked when a reset answers.
Owed(r) == owed \cup req[r].before

\* Then a goroutine takes over if the semaphore has a free slot.
RevokeIfSlotFree(r) ==
    LET a == req[r].acct
        free == {j \in Job : job[j] = NoJob}
    IN  /\ At(r, "mark")
        /\ \/ access' = {s \in access : sess[s].acct # a}
           \/ Faulty /\ UNCHANGED access
        /\ IF free # {}
           THEN /\ \E j \in free : job' = [job EXCEPT ![j].acct = a]
                /\ owed' = Owed(r)
                /\ Return(r)
           ELSE /\ owed' = Owed(r)
                /\ Return(r)
                /\ UNCHANGED job
        /\ UNCHANGED <<active, password, sess, token, cooldown, limited>>
        /\ UNCHANGED <<life, asked, stops, writes, spent, sets, bad, gone, lost>>
RevokeAfterReset(r) ==
    LET a == req[r].acct
        free == {j \in Job : job[j] = NoJob}
    IN  /\ At(r, "mark")
        /\ \/ access' = {s \in access : sess[s].acct # a}
           \/ Faulty /\ UNCHANGED access
        /\ IF free # {}
           THEN /\ \E j \in free : job' = [job EXCEPT ![j].acct = a]
                /\ owed' = Owed(r)
                /\ Return(r)
           ELSE Goto(r, "sync") /\ UNCHANGED <<job, owed>>
        /\ UNCHANGED <<active, password, sess, token, cooldown, limited>>
        /\ UNCHANGED <<life, asked, stops, writes, spent, sets, bad, gone, lost>>

\* With no slot free the request revokes the sessions itself.
RevokeSynchronously(r) ==
    /\ At(r, "sync")
    /\ \/ RevokeAll(req[r].acct) /\ UNCHANGED lost
       \/ Faulty /\ RevokeAllFails(req[r].acct) /\ lost' = lost \cup SessionsOf(req[r].acct)
    /\ owed' = Owed(r)
    /\ Return(r)
    /\ UNCHANGED <<active, password, token, cooldown, limited>>
    /\ UNCHANGED <<job, life, asked, stops, writes, spent, sets, bad, gone>>

\* The goroutine takes the sessions out of the index,
TakeIndex(j) ==
    LET a == job[j].acct
    IN  /\ a # NoAccount /\ ~job[j].taken
        /\ job' = [job EXCEPT ![j].taken = TRUE, ![j].ids = SessionsOf(a)]
        /\ sess' = [s \in Session |-> IF s \in SessionsOf(a)
                                      THEN [sess[s] EXCEPT !.st = "orphan"] ELSE sess[s]]
        /\ UNCHANGED <<active, password, access, token, cooldown, limited>>
        /\ UNCHANGED <<life, req, asked, stops, writes, history>>

\* revokes their tokens, deletes them and releases its slot.
DeleteSessions(j) ==
    /\ job[j].taken
    /\ job' = [job EXCEPT ![j] = NoJob]
    /\ sess' = [s \in Session |-> IF s \in job[j].ids THEN [sess[s] EXCEPT !.st = "gone"]
                                                       ELSE sess[s]]
    /\ access' = access \ job[j].ids
    /\ UNCHANGED <<active, password, token, cooldown, limited>>
    /\ UNCHANGED <<life, req, asked, stops, writes, history>>

\* The sessions that job j will not revoke any more.
Missed(j) == job[j].ids \cup IF job[j].taken THEN {} ELSE SessionsOf(job[j].acct)

\* An error is only logged; once the server stops the context is cancelled.
BackgroundFails(j) ==
    /\ job[j].acct # NoAccount
    /\ Faulty \/ life = "waiting"
    /\ job' = [job EXCEPT ![j] = NoJob]
    /\ lost' = lost \cup Missed(j)
    /\ UNCHANGED <<store, life, req, asked, stops, writes, spent, sets, bad, gone, owed>>

RevokeInBackground(j) == TakeIndex(j) \/ DeleteSessions(j) \/ BackgroundFails(j)

-----------------------------------------------------------------------------
(* Changing the password *)

FindPasswordCredential(a) == password[a]

\* The current password is verified before the transaction ...
VerifyCurrentPassword(r) ==
    \E a \in Account : \E old \in {0, password[a]} :
        /\ Arrive(r)
        /\ req' = [req EXCEPT ![r] = IF old = FindPasswordCredential(a)
                                     THEN [Begun(a, "status") EXCEPT !.old = old]
                                     ELSE NoReq]
        /\ UNCHANGED <<store, job, life, stops, writes, history>>

ChangePassword(r) ==
    /\ At(r, "status")
    /\ IF req[r].acct \in active THEN Goto(r, "verify") ELSE Return(r)
    /\ UNCHANGED <<store, job, life, asked, stops, writes, history>>

\* ... and again in it, with the row of the password locked.
VerifiedAbove(r) == TRUE
VerifyPassword(r) == req[r].old = FindPasswordCredential(req[r].acct)

ChangeCommit(r) ==
    /\ At(r, "verify")
    /\ IF VerifyPassword(r)
       THEN /\ SetPassword(r, "revoke")
            /\ bad' = IF req[r].old = password[req[r].acct] THEN bad ELSE bad \cup {"unproved"}
       ELSE Return(r) /\ UNCHANGED <<password, writes, bad>>
    /\ UNCHANGED <<active, sess, access, token, cooldown, limited>>
    /\ UNCHANGED <<job, life, asked, stops, spent, sets, gone, owed, lost>>

\* An administrator changes the password of an active account without proving the old one.
AdminChangePassword(r) ==
    \E a \in Account :
        /\ Arrive(r)
        /\ req' = [req EXCEPT ![r] = IF a \in active THEN Begun(a, "update") ELSE NoReq]
        /\ UNCHANGED <<store, job, life, stops, writes, history>>

AdminChangeCommit(r) ==
    /\ At(r, "update")
    /\ SetPassword(r, "revoke")
    /\ UNCHANGED <<active, sess, access, token, cooldown, limited>>
    /\ UNCHANGED <<job, life, asked, stops, history>>

-----------------------------------------------------------------------------
(* Status and profile *)

\* The row of account a is written, under the eyes of an UpdateAccount that has read it.
Moved(a, q) == [r \in Req |-> [q[r] EXCEPT !.moved = @ \/ q[r].acct = a]]

\* transitionAccountStatus only changes the status it expects.
SuspendAccount(r) ==
    \E a \in Account :
        /\ Arrive(r)
        /\ IF a \in active
           THEN /\ active' = active \ {a}
                /\ req' = Moved(a, [req EXCEPT ![r] = [Begun(a, "revoke") EXCEPT
                                                           !.before = SessionsOf(a)]])
           ELSE UNCHANGED <<active, req>>
        /\ UNCHANGED <<password, sess, access, token, cooldown, limited>>
        /\ UNCHANGED <<job, life, stops, writes, history>>

ActivateAccount(r) ==
    \E a \in Account :
        /\ Arrive(r)
        /\ a \notin active
        /\ active' = active \cup {a}
        /\ req' = Moved(a, req)
        /\ UNCHANGED <<password, sess, access, token, cooldown, limited>>
        /\ UNCHANGED <<job, life, stops, writes, history>>

\* Changes of the password by its owner or an administrator, and suspensions, answer
\* success only after the sessions have been revoked.
RevokeLogged(r) ==
    /\ At(r, "revoke")
    /\ RevokeAll(req[r].acct) \/ RevokeAllFails(req[r].acct)
    /\ gone' = gone \cup req[r].before
    /\ Return(r)
    /\ UNCHANGED <<active, password, token, cooldown, limited>>
    /\ UNCHANGED <<job, life, asked, stops, writes, spent, sets, bad, owed, lost>>
RevokeAllForAccount(r) ==
    /\ At(r, "revoke")
    /\ \/ RevokeAll(req[r].acct) /\ gone' = gone \cup req[r].before
          /\ UNCHANGED lost
       \/ Faulty /\ RevokeAllFails(req[r].acct) /\ UNCHANGED gone
          /\ lost' = lost \cup SessionsOf(req[r].acct)
    /\ Return(r)
    /\ UNCHANGED <<active, password, token, cooldown, limited>>
    /\ UNCHANGED <<job, life, asked, stops, writes, spent, sets, bad, owed>>

\* UpdateProfile reads the account, changes the name and hands all of it to UpdateAccount,
UpdateProfile(r) ==
    \E a \in Account :
        /\ Arrive(r)
        /\ req' = [req EXCEPT ![r] = [Begun(a, "reread") EXCEPT !.seen = a \in active]]
        /\ UNCHANGED <<store, job, life, stops, writes, history>>

\* which reads updated_at again and writes the row if nobody has written it since.
UpdateAccount(r) ==
    /\ At(r, "reread")
    /\ req' = [req EXCEPT ![r].pc = "write", ![r].moved = FALSE]
    /\ UNCHANGED <<store, job, life, asked, stops, writes, history>>

UpdateAccountRow(r) ==
    LET a == req[r].acct
    IN  /\ At(r, "write")
        /\ IF req[r].moved THEN UNCHANGED active
           ELSE active' = IF req[r].seen THEN active \cup {a} ELSE active \ {a}
        /\ req' = [(IF req[r].moved THEN req ELSE Moved(a, req)) EXCEPT ![r] = NoReq]
        /\ UNCHANGED <<password, sess, access, token, cooldown, limited>>
        /\ UNCHANGED <<job, life, asked, stops, writes, history>>

-----------------------------------------------------------------------------
(* Errors and shutdown *)

\* Whatever else fails ends the request with an error: the command that was next, or the
\* answer to the one before.
Fail(r) ==
    /\ Faulty
    /\ req[r].pc \notin {"idle", "limits", "mark", "sync", "revoke"}
    /\ Return(r)
    /\ UNCHANGED <<store, job, life, asked, stops, writes, history>>

\* The server takes no more requests and waits, for a time, for those under way.
Shutdown ==
    /\ life = "up"
    /\ stops < MaxStops
    /\ stops' = stops + 1
    /\ life' = "draining"
    /\ UNCHANGED <<store, job, req, asked, writes, history>>

\* Then Wait cancels the context of the goroutines,
Wait ==
    /\ life = "draining"
    /\ life' = "waiting"
    /\ UNCHANGED <<store, job, req, asked, stops, writes, history>>

\* and returns when they have ended, or after waitTimeout; the process exits.  A crash is
\* the shutdown that waits for nothing.
WaitReturns ==
    /\ life = "waiting"
    /\ life' = "down"
    /\ job' = [j \in Job |-> NoJob]
    /\ req' = [r \in Req |-> NoReq]
    /\ lost' = lost \cup UNION {Missed(j) : j \in Job}
    /\ UNCHANGED <<store, asked, stops, writes, spent, sets, bad, gone, owed>>

Start ==
    /\ life = "down"
    /\ life' = "up"
    /\ UNCHANGED <<store, job, req, asked, stops, writes, history>>

\* What a request does once it has arrived.
Step(r) ==
    \/ createSessionAndTokens(r) \/ FindActiveAccount(r) \/ StoreToken(r) \/ SetCooldown(r)
    \/ SendPasswordResetLink(r) \/ CheckAccountActive(r) \/ ResetCommit(r) \/ DelToken(r)
    \/ ClearLoginRateLimitsByUsername(r) \/ RevokeAfterReset(r) \/ RevokeSynchronously(r)
    \/ ChangePassword(r) \/ ChangeCommit(r) \/ AdminChangeCommit(r)
    \/ RevokeAllForAccount(r) \/ UpdateAccount(r) \/ UpdateAccountRow(r) \/ Fail(r)

Arrival(r) ==
    \/ LoginByUsernamePassword(r) \/ RequestReset(r) \/ VerifyAndReset(r)
    \/ VerifyCurrentPassword(r) \/ AdminChangePassword(r) \/ SuspendAccount(r)
    \/ ActivateAccount(r) \/ UpdateProfile(r)

PasswordsNext ==
    \/ \E r \in Req : Arrival(r) \/ Step(r)
    \/ \E j \in Job : RevokeInBackground(j)
    \/ \E a \in Account : CooldownExpires(a)
    \/ \E t \in Token : TokenExpires(t)
    \/ Shutdown \/ Wait \/ WaitReturns \/ Start

PasswordsSpec == PasswordsInit /\ [][PasswordsNext]_passwordVars

\* Goroutines run, and every command they wait for is bounded by a timeout.
FairSpec ==
    /\ PasswordsSpec
    /\ \A r \in Req : WF_passwordVars(Step(r))
    /\ \A j \in Job : WF_passwordVars(RevokeInBackground(j))
    /\ WF_passwordVars(Wait) /\ WF_passwordVars(WaitReturns)

-----------------------------------------------------------------------------
(* Properties *)

\* Every variable keeps its type.
PasswordsTypeOK ==
    /\ active \subseteq Account
    /\ password \in [Account -> Nat]
    /\ sess \in [Session -> SessionState] /\ access \subseteq Session
    /\ token \in [Token -> TokenState]
    /\ cooldown \subseteq Account /\ limited \subseteq Account
    /\ job \in [Job -> JobState]
    /\ life \in {"up", "draining", "waiting", "down"}
    /\ req \in [Req -> ReqState]
    /\ asked \in Nat /\ stops \in Nat /\ writes \in Nat
    /\ spent \subseteq Token /\ sets \in [Token -> Nat]
    /\ bad \subseteq {"spent", "unproved"}
    /\ gone \subseteq Session /\ owed \subseteq Session /\ lost \subseteq Session

\* Once a reset has answered success, no request that begins later sets a password with
\* the same token, whatever the requests that were under way do with it (VerifyAndReset).
SpentTokenIsDead == "spent" \notin bad

\* One link sets the password at most maxAttempts times, also when deleting the token fails
\* again and again or many requests use it at once (checkAndIncrementAttemptsScript).
ResetsBounded == \A t \in Token : sets[t] <= MaxAttempts

\* A user's change replaces exactly the password that the user proved: of two changes from
\* one password one fails, and none undoes a reset or an administrator's change
\* (ChangePassword and its second verification under the row lock).
ChangeProvesCurrent == "unproved" \notin bad

\* A change of password or a suspension that answers success leaves no session from before,
\* except one that a revocation before it has failed to delete, or a goroutine is about to
\* (ChangePassword, AdminChangePassword, SuspendAccount).
RevokedBeforeAnswer ==
    \A s \in gone \ lost : sess[s].st = "gone" \/ \E j \in Job : s \in job[j].ids

\* The sessions from before a reset are revoked in the end, unless the revocation itself
\* failed or the server was stopped before it had run (the goroutine of VerifyAndReset).
ResetRevokes == \A s \in Session : s \in owed ~> (sess[s].st = "gone" \/ s \in lost)
=============================================================================
