----------------------------- MODULE Identities -----------------------------
(***************************************************************************)
(* Whose e-mail address, and whose identity at a provider, is whose: the   *)
(* registration of accounts, the codes that prove an address, the change   *)
(* of an address, the login through a provider with the accounts it        *)
(* creates and the links it makes, and the deletion of accounts.           *)
(*                                                                         *)
(* Requests run concurrently.  A command to Redis is one action.  The      *)
(* database runs READ COMMITTED: what a transaction reads is one action,   *)
(* what it then writes and commits another, and the unique indexes (an     *)
(* address and an identity have one live row) are checked when it writes.  *)
(* An account has at most one address.  There is no clock: keys expire at  *)
(* any moment.                                                             *)
(***************************************************************************)
EXTENDS Naturals, FiniteSets

CONSTANTS
    Account, NoAccount,
    Email, NoEmail,
    Code, NoCode,      \* verification codes that may be drawn
    Identity, NoIdentity,  \* identities: a provider and a user id there
    Req,               \* concurrent requests
    MaxAttempts,       \* maxAttempts of the verification service
    Faulty,            \* whether Redis, the database and mail may fail
    MaxRequests        \* bound of the number of requests

ASSUME IdentitiesAssumption ==
    /\ NoAccount \notin Account /\ NoEmail \notin Email
    /\ NoCode \notin Code /\ NoIdentity \notin Identity
    /\ MaxAttempts \in Nat \ {0}
    /\ Faulty \in BOOLEAN
    /\ MaxRequests \in Nat

VARIABLES
    status,    \* accounts: not created, active, deleted
    mail,      \* the e-mail credential of each account
    fed,       \* federated identities: the account each one is bound to
    live,      \* accounts with sessions
    code,      \* verify:code:email:{address}
    cooldown,  \* verify:cooldown:email:{address}
    req,       \* the requests under way
    asked,     \* requests so far
    mailed,    \* history: to which address, for which account each code was drawn
    proved,    \* history: addresses proved by code, or vouched for by a provider
    accepted,  \* history: how often each code was accepted
    made,      \* history: the accounts that the login of an identity created
    told,      \* history: the addresses that a provider gave for an identity
    bad        \* history: what a request has done that it must not do

store == <<status, mail, fed, live>>
codes == <<code, cooldown>>
history == <<mailed, proved, accepted, made, told, bad>>
vars == <<store, codes, req, asked, history>>

Owner == Account \cup {NoAccount}
Address == Email \cup {NoEmail}
Mail == [email: Address, verified: BOOLEAN]
NoMail == [email |-> NoEmail, verified |-> FALSE]
CodeData == [id: Code \cup {NoCode}, acct: Owner, attempts: 0..MaxAttempts]
NoData == [id |-> NoCode, acct |-> NoAccount, attempts |-> 0]
PC == {"idle", "register", "cooldown", "store", "setcool", "send", "rollback", "verify",
       "mark", "change", "update", "link", "bind", "create", "relink", "login",
       "session", "revoke"}
ReqState == [pc: PC, acct: Owner, email: Address, code: Code \cup {NoCode},
             id: Identity \cup {NoIdentity},
             vouched: BOOLEAN,  \* the provider says that the address is verified
             had: BOOLEAN,      \* the account had an address when UpdateEmail read it
             dead: SUBSET Account]  \* history: accounts deleted before the request began
NoReq == [pc |-> "idle", acct |-> NoAccount, email |-> NoEmail, code |-> NoCode,
          id |-> NoIdentity, vouched |-> FALSE, had |-> FALSE, dead |-> {}]

\* The account whose live credential is the address e.
OwnerOf(e) == IF \E a \in Account : mail[a].email = e
              THEN CHOOSE a \in Account : mail[a].email = e ELSE NoAccount

\* Registration and changes of address ask whether an address is taken.
checkCredentialExistsTx(e) == e # NoEmail /\ OwnerOf(e) # NoAccount
IsEmailAvailable(e) == OwnerOf(e) = NoAccount
ValidateCredentialOwnership(a, e) == mail[a].email = e

\* The account that an identity is bound to.
FindByProvider(i) == fed[i]

\* Some accounts exist and are logged in, some have an address, proved or not.
Init ==
    /\ status \in [Account -> {"none", "active"}]
    /\ mail \in [Account -> Mail]
    /\ \A a \in Account : IF mail[a].email = NoEmail THEN ~mail[a].verified
                         ELSE /\ status[a] = "active"
                              /\ \A b \in Account \ {a} : mail[b].email # mail[a].email
    /\ live = {a \in Account : status[a] = "active"}
    /\ fed = [i \in Identity |-> NoAccount]
    /\ code = [e \in Email |-> NoData]
    /\ cooldown = {}
    /\ req = [r \in Req |-> NoReq]
    /\ asked = 0
    /\ mailed = [c \in Code |-> <<NoEmail, NoAccount>>]
    /\ proved = {<<mail[a].email, a>> : a \in {x \in Account : mail[x].verified}}
    /\ accepted = [c \in Code |-> 0]
    /\ made = {} /\ told = {} /\ bad = {}

At(r, pc) == req[r].pc = pc
Goto(r, pc) == req' = [req EXCEPT ![r].pc = pc]
Return(r) == req' = [req EXCEPT ![r] = NoReq]
Answer(r, q) == req' = [req EXCEPT ![r] = q]
Arrive(r) == At(r, "idle") /\ asked < MaxRequests /\ asked' = asked + 1
Begun(pc) == [NoReq EXCEPT !.pc = pc, !.dead = {a \in Account : status[a] = "deleted"}]

\* A request by a user with a session; the middleware has let it through.
Authenticated(r, a) == Arrive(r) /\ a \in live

-----------------------------------------------------------------------------
(* Registration *)

\* The address is looked up in the transaction that will insert it.
RegisterAccount(r, e) ==
    /\ Answer(r, IF checkCredentialExistsTx(e) THEN NoReq
                 ELSE [Begun("register") EXCEPT !.email = e])
    /\ UNCHANGED <<store, codes, history>>

\* An administrator creates accounts, with an address or a phone number.
AdminCreateAccount(r) == Arrive(r) /\ \E e \in Address : RegisterAccount(r, e)

\* A new account, unless another transaction has inserted the address meanwhile.
CreateAccount(e, verified) ==
    \E a \in Account :
        /\ status[a] = "none"
        /\ status' = [status EXCEPT ![a] = "active"]
        /\ mail' = [mail EXCEPT ![a] = [email |-> e, verified |-> verified]]

RegisterCommit(r) ==
    LET e == req[r].email
    IN  /\ At(r, "register")
        /\ IF checkCredentialExistsTx(e) THEN UNCHANGED <<status, mail>>
                                         ELSE CreateAccount(e, FALSE)
        /\ Return(r)
        /\ UNCHANGED <<fed, live, codes, asked, history>>

\* Logging in by password, the subject of Logins.
Login(a) ==
    /\ status[a] = "active"
    /\ live' = live \cup {a}
    /\ UNCHANGED <<status, mail, fed, codes, req, asked, history>>

-----------------------------------------------------------------------------
(* Verification codes *)

\* A code for the address of the account,
SendVerification(r) ==
    \E a \in Account, e \in Email :
        /\ Authenticated(r, a)
        /\ Answer(r, IF ValidateCredentialOwnership(a, e)
                     THEN [Begun("cooldown") EXCEPT !.acct = a, !.email = e] ELSE NoReq)
        /\ UNCHANGED <<store, codes, history>>

\* or for a new address that is not in use; the password is asked for, too.
RequestEmailChange(r) ==
    \E a \in Account, e \in Email :
        /\ Authenticated(r, a)
        /\ Answer(r, IF IsEmailAvailable(e)
                     THEN [Begun("cooldown") EXCEPT !.acct = a, !.email = e] ELSE NoReq)
        /\ UNCHANGED <<store, codes, history>>

SendCode(r) ==
    /\ At(r, "cooldown")
    /\ IF req[r].email \in cooldown THEN Return(r) ELSE Goto(r, "store")
    /\ UNCHANGED <<store, codes, asked, history>>

\* One key per address: a new code takes the place of the one before.
StoreCode(r) ==
    LET fresh == {c \in Code : mailed[c][1] = NoEmail}
        c == CHOOSE x \in fresh : TRUE
        q == req[r]
    IN  /\ At(r, "store")
        /\ fresh # {}
        /\ code' = [code EXCEPT ![q.email] = [id |-> c, acct |-> q.acct, attempts |-> 0]]
        /\ mailed' = [mailed EXCEPT ![c] = <<q.email, q.acct>>]
        /\ Goto(r, "setcool")
        /\ UNCHANGED <<store, cooldown, asked, proved, accepted, made, told, bad>>

\* Fail-open: without the cooldown the code is sent all the same.
SetCooldown(r) ==
    /\ At(r, "setcool")
    /\ \/ cooldown' = cooldown \cup {req[r].email}
       \/ Faulty /\ UNCHANGED cooldown
    /\ Goto(r, "send")
    /\ UNCHANGED <<store, code, asked, history>>

SendVerificationCode(r) ==
    /\ At(r, "send")
    /\ \/ Return(r)
       \/ Faulty /\ Goto(r, "rollback")
    /\ UNCHANGED <<store, codes, asked, history>>

\* The code of the address is deleted, whoever has stored it last.
RollbackCode(r) ==
    /\ At(r, "rollback")
    /\ \/ code' = [code EXCEPT ![req[r].email] = NoData]
       \/ Faulty /\ UNCHANGED code
    /\ Return(r)
    /\ UNCHANGED <<store, cooldown, asked, history>>

\* A code is accepted once, and not after MaxAttempts wrong ones.
Matches(e, c) == c # NoCode /\ code[e].id = c /\ code[e].attempts < MaxAttempts
CountOnly(e, c) ==
    IF code[e].id = NoCode \/ code[e].attempts >= MaxAttempts \/ code[e].id = c THEN code
    ELSE [code EXCEPT ![e].attempts = @ + 1]
verifyAndIncrement(e, c) ==
    IF code[e].id = NoCode \/ code[e].attempts >= MaxAttempts THEN code
    ELSE IF code[e].id = c THEN [code EXCEPT ![e] = NoData]
    ELSE [code EXCEPT ![e].attempts = @ + 1]

\* The code must have been drawn for the account that presents it; it is used up before
\* that is known.
AnyAccount(e, a) == TRUE
ForAccount(e, a) == code[e].acct = a

\* User a presents code c, or a wrong one, for address e.
VerifyCode(r, a, e, c, pc) ==
    /\ Authenticated(r, a)
    /\ code' = verifyAndIncrement(e, c)
    /\ Answer(r, IF Matches(e, c) /\ ForAccount(e, a)
                 THEN [Begun(pc) EXCEPT !.acct = a, !.email = e, !.code = c] ELSE NoReq)
    /\ accepted' = IF Matches(e, c) THEN [accepted EXCEPT ![c] = @ + 1] ELSE accepted
    /\ proved' = IF Matches(e, c) /\ mailed[c] = <<e, a>> THEN proved \cup {<<e, a>>} ELSE proved
    /\ UNCHANGED <<store, cooldown, mailed, made, told, bad>>

ConfirmVerification(r) ==
    \E a \in Account, e \in Email, c \in Code \cup {NoCode} : VerifyCode(r, a, e, c, "verify")

ConfirmEmailChange(r) ==
    \E a \in Account, e \in Email, c \in Code \cup {NoCode} : VerifyCode(r, a, e, c, "change")

\* The credential must belong to the account.
Owns(a, e) == OwnerOf(e) = a

ConfirmVerificationCredential(r) ==
    /\ At(r, "verify")
    /\ IF Owns(req[r].acct, req[r].email) THEN Answer(r, [req[r] EXCEPT !.pc = "mark",
                                                          !.acct = OwnerOf(req[r].email)])
                                          ELSE Return(r)
    /\ UNCHANGED <<store, codes, asked, history>>

\* UpdateCredential writes the whole row as it was read, if it is not deleted; it fails
\* when the address is another account's by now.
WriteMail(a, e) ==
    IF mail[a].email = NoEmail \/ OwnerOf(e) \notin {a, NoAccount} THEN mail
    ELSE [mail EXCEPT ![a] = [email |-> e, verified |-> TRUE]]

MarkVerified(r) ==
    /\ At(r, "mark")
    /\ mail' = WriteMail(req[r].acct, req[r].email)
    /\ Return(r)
    /\ UNCHANGED <<status, fed, live, codes, asked, history>>

\* UpdateEmail reads who has the address, and the credential of the account,
UpdateEmail(r) ==
    LET q == req[r]
    IN  /\ At(r, "change")
        /\ IF OwnerOf(q.email) \in {q.acct, NoAccount}
           THEN Answer(r, [q EXCEPT !.pc = "update", !.had = mail[q.acct].email # NoEmail])
           ELSE Return(r)
        /\ UNCHANGED <<store, codes, asked, history>>

\* and updates that one or inserts one.
UpdateEmailCommit(r) ==
    LET q == req[r]
    IN  /\ At(r, "update")
        /\ mail' = IF q.had THEN WriteMail(q.acct, q.email)
                   ELSE IF ~IsEmailAvailable(q.email) THEN mail
                   ELSE [mail EXCEPT ![q.acct] = [email |-> q.email, verified |-> TRUE]]
        /\ Return(r)
        /\ UNCHANGED <<status, fed, live, codes, asked, history>>

CodeExpires(e) ==
    /\ code[e].id # NoCode
    /\ code' = [code EXCEPT ![e] = NoData]
    /\ UNCHANGED <<store, cooldown, req, asked, history>>

CooldownExpires(e) ==
    /\ e \in cooldown
    /\ cooldown' = cooldown \ {e}
    /\ UNCHANGED <<store, code, req, asked, history>>

-----------------------------------------------------------------------------
(* Login through a provider *)

\* What a provider says of a user: an identity, perhaps an address, and whether that is
\* verified, which GitHub and WeChat do not say.
fetchUserInfo == {u \in [id: Identity, email: Address, verified: BOOLEAN] :
                      u.email = NoEmail => ~u.verified}

HandleCallback(r, u) ==
    LET a == FindByProvider(u.id)
    IN  /\ told' = IF u.email = NoEmail THEN told ELSE told \cup {<<u.id, u.email>>}
        /\ Answer(r, [Begun(IF a # NoAccount THEN "login"
                            ELSE IF u.email # NoEmail THEN "link" ELSE "create") EXCEPT
                          !.acct = a, !.id = u.id, !.email = u.email, !.vouched = u.verified])
        /\ UNCHANGED <<store, codes, mailed, proved, accepted, made, bad>>

\* The state parameter matches the cookie, and the provider has exchanged the code.
SocialCallback(r) == Arrive(r) /\ \E u \in fetchUserInfo : HandleCallback(r, u)

\* An account is linked only if its own address is verified.
LinkableAny(e) == OwnerOf(e) # NoAccount
Linkable(e) == OwnerOf(e) # NoAccount /\ mail[OwnerOf(e)].verified

linkByEmailIfVerified(r) ==
    LET e == req[r].email
    IN  /\ At(r, "link") \/ At(r, "relink")
        /\ IF Linkable(e) THEN Answer(r, [req[r] EXCEPT !.pc = "bind", !.acct = OwnerOf(e)])
           ELSE IF At(r, "link") THEN Goto(r, "create")
           ELSE Return(r)
        /\ UNCHANGED <<store, codes, asked, history>>

\* When somebody else has bound the identity meanwhile the login goes on all the same.
Rebind(r) == [fed EXCEPT ![req[r].id] = req[r].acct]
CreateFederatedIdentity(r) ==
    IF FindByProvider(req[r].id) = NoAccount THEN [fed EXCEPT ![req[r].id] = req[r].acct] ELSE fed

LinkCommit(r) ==
    /\ At(r, "bind")
    /\ fed' = CreateFederatedIdentity(r)
    /\ Goto(r, "login")
    /\ UNCHANGED <<status, mail, live, codes, asked, history>>

\* Account, address and identity in one transaction; when the address or the identity is
\* taken by now, and there is an address, the link is tried again.
createAccountWithIdentity(r) ==
    LET q == req[r]
    IN  /\ At(r, "create")
        /\ IF FindByProvider(q.id) # NoAccount \/ checkCredentialExistsTx(q.email)
           THEN /\ IF q.email # NoEmail THEN Goto(r, "relink") ELSE Return(r)
                /\ UNCHANGED <<status, mail, fed, proved, made>>
           ELSE \E a \in Account :
                /\ status[a] = "none"
                /\ status' = [status EXCEPT ![a] = "active"]
                /\ mail' = [mail EXCEPT ![a] = [email |-> q.email, verified |-> q.vouched]]
                /\ fed' = [fed EXCEPT ![q.id] = a]
                /\ made' = made \cup {<<q.id, a>>}
                /\ proved' = IF q.vouched THEN proved \cup {<<q.email, a>>} ELSE proved
                /\ Answer(r, [q EXCEPT !.pc = "session", !.acct = a])
        /\ UNCHANGED <<live, codes, asked, mailed, accepted, told, bad>>

IsActiveUnchecked(a) == TRUE
IsActive(a) == status[a] = "active"

loginExistingUser(r) ==
    /\ At(r, "login")
    /\ IF IsActive(req[r].acct) THEN Goto(r, "session") ELSE Return(r)
    /\ UNCHANGED <<store, codes, asked, history>>

\* The account was created by this identity, or has itself proved an address the provider
\* gave; whether the provider has verified that address is not asked.
MadeOrProved(i, a) == <<i, a>> \in made \/ \E e \in Email : <<e, a>> \in proved /\ <<i, e>> \in told

\* A user with a second factor gets an MFA token instead and goes on in Logins: for what is
\* stated here that is the same.
issueSessionAndTokens(r) ==
    LET q == req[r]
    IN  /\ At(r, "session")
        /\ live' = live \cup {q.acct}
        /\ bad' = bad \cup (IF MadeOrProved(q.id, q.acct) THEN {} ELSE {"unproved"})
                      \cup (IF q.acct \in q.dead THEN {"deleted"} ELSE {})
        /\ Return(r)
        /\ UNCHANGED <<status, mail, fed, codes, asked, mailed, proved, accepted, made, told>>

-----------------------------------------------------------------------------
(* Deletion *)

SoftDeleteCredentialsByAccount(a) == mail' = [mail EXCEPT ![a] = NoMail]
SoftDeleteFederatedIdentitiesByAccountID(a) ==
    fed' = [i \in Identity |-> IF fed[i] = a THEN NoAccount ELSE fed[i]]
SoftDeleteAccountByID(a) == status' = [status EXCEPT ![a] = "deleted"]

\* The account and all that belongs to it are deleted in one transaction,
SoftDeleteAccount(r) ==
    \E a \in Account :
        /\ Arrive(r)
        /\ status[a] # "none"
        /\ IF status[a] = "deleted" THEN UNCHANGED <<status, mail, fed>>
           ELSE /\ SoftDeleteCredentialsByAccount(a)
                /\ SoftDeleteFederatedIdentitiesByAccountID(a)
                /\ SoftDeleteAccountByID(a)
        /\ Answer(r, [Begun("revoke") EXCEPT !.acct = a])
        /\ UNCHANGED <<live, codes, history>>

\* then its sessions are revoked.
RevokeAllForAccount(r) ==
    /\ At(r, "revoke")
    /\ \/ live' = live \ {req[r].acct}
       \/ Faulty /\ UNCHANGED live
    /\ Return(r)
    /\ UNCHANGED <<status, mail, fed, codes, asked, history>>

\* Whatever else fails ends the request with an error: the command that was next, or the
\* answer to the one before.
Fail(r) ==
    /\ Faulty
    /\ req[r].pc \notin {"idle", "setcool", "send", "rollback", "revoke"}
    /\ Return(r)
    /\ UNCHANGED <<store, codes, asked, history>>

Arrival(r) ==
    \/ AdminCreateAccount(r) \/ SendVerification(r) \/ RequestEmailChange(r)
    \/ ConfirmVerification(r) \/ ConfirmEmailChange(r) \/ SocialCallback(r)
    \/ SoftDeleteAccount(r)

Step(r) ==
    \/ RegisterCommit(r) \/ SendCode(r) \/ StoreCode(r) \/ SetCooldown(r)
    \/ SendVerificationCode(r) \/ RollbackCode(r)
    \/ ConfirmVerificationCredential(r) \/ MarkVerified(r)
    \/ UpdateEmail(r) \/ UpdateEmailCommit(r)
    \/ linkByEmailIfVerified(r) \/ LinkCommit(r) \/ createAccountWithIdentity(r)
    \/ loginExistingUser(r) \/ issueSessionAndTokens(r) \/ RevokeAllForAccount(r) \/ Fail(r)

Next ==
    \/ \E r \in Req : Arrival(r) \/ Step(r)
    \/ \E a \in Account : Login(a)
    \/ \E e \in Email : CodeExpires(e) \/ CooldownExpires(e)

Spec == Init /\ [][Next]_vars

-----------------------------------------------------------------------------
(* Properties *)

\* Every variable keeps its type; an address belongs to one account.
TypeOK ==
    /\ status \in [Account -> {"none", "active", "deleted"}]
    /\ mail \in [Account -> Mail]
    /\ \A a, b \in Account : mail[a].email = mail[b].email => a = b \/ mail[a].email = NoEmail
    /\ fed \in [Identity -> Owner]
    /\ live \subseteq Account
    /\ code \in [Email -> CodeData]
    /\ cooldown \subseteq Email
    /\ req \in [Req -> ReqState]
    /\ asked \in Nat
    /\ mailed \in [Code -> Address \X Owner]
    /\ proved \subseteq Email \X Account
    /\ accepted \in [Code -> Nat]
    /\ made \subseteq Identity \X Account /\ told \subseteq Identity \X Email
    /\ bad \subseteq {"unproved", "deleted"}

\* An address is verified for an account only if that account presented a code drawn for
\* it and mailed there, or a provider vouched for it when it created the account, however
\* changes of address, registrations and confirmations overlap.
VerifiedMeansProved ==
    \A a \in Account : mail[a].verified => <<mail[a].email, a>> \in proved

\* No code is accepted twice, by a confirmation and a change of address at once neither,
\* and every code that is stored still waits for its first use (verifyAndIncrementScript).
CodesUsedOnce ==
    /\ \A c \in Code : accepted[c] <= 1
    /\ \A e \in Email : code[e].id # NoCode => accepted[code[e].id] = 0

\* A login through a provider enters an account it created itself, or one that has proved,
\* by its own code or at its creation, an address that the provider gave for the identity,
\* vouched for or not: the matched credential must be verified (linkByEmailIfVerified),
\* also when two logins race (createNewUser).
EntersProvedAccounts == "unproved" \notin bad

\* An identity is linked to an existing account only through an address that the provider
\* reports as verified: "If the social provider supplies a verified email, it attempts to
\* link to an existing account" (createNewUser), "only if email is verified, preventing
\* account takeover via an unverified email from a social provider"
\* (linkByEmailIfVerified).  The code does not ask the provider's verdict.
LinksVouchedAddress == \A r \in Req : At(r, "bind") => req[r].vouched

\* No login that began after the deletion of an account enters it (loginExistingUser).
DeletedNotEntered == "deleted" \notin bad

\* A bound identity changes hands only by the deletion of its account.
IdentityKept ==
    [][\A i \in Identity : fed[i] # NoAccount /\ fed'[i] # fed[i] =>
           fed'[i] = NoAccount /\ status'[fed[i]] = "deleted"]_vars
=============================================================================
