---------------------------- MODULE SecondFactors ----------------------------
(***************************************************************************)
(* What an account can prove itself with besides its password: the TOTP    *)
(* credential and the backup codes of MFAService, and the passkeys of      *)
(* PasskeyService with the WebAuthn challenges in Redis.  Logins extends   *)
(* this module with the requests that present them.                        *)
(*                                                                         *)
(* Transactions run READ COMMITTED: one whose statements read first and    *)
(* write later is two actions, and the unique indexes decide when it       *)
(* writes.  The index on (credential_type, identifier) leaves an account   *)
(* at most one TOTP credential that is not deleted, because EnrollTOTP     *)
(* stores the account's ID as the identifier.                              *)
(***************************************************************************)
EXTENDS Naturals

CONSTANTS
    Account, NoAccount,
    Passkey,        \* authenticators
    BackupCode,     \* backup codes that may be generated
    Challenge,      \* WebAuthn request IDs that may be handed out
    Setup,          \* concurrent requests of users that change their factors
    MaxEnrolments   \* bound of TOTP enrolments per account

ASSUME FactorsAssumption ==
    /\ NoAccount \notin Account
    /\ Passkey # {}
    /\ BackupCode \cap Challenge = {}
    /\ MaxEnrolments \in Nat \ {0}

VARIABLES
    totp,       \* each account's TOTP credential, and the number of its secret
    backup,     \* backup code credentials
    passkey,    \* webauthn_credentials, by credential ID
    challenge,  \* webauthn:{reg,login,mfa}:{request ID} in Redis
    setup       \* the requests to change factors that are under way

factors == <<totp, backup, passkey, challenge, setup>>

Owner == Account \cup {NoAccount}
TOTP == [st: {"none", "pending", "live"}, id: 0..MaxEnrolments]
Credential == [st: {"none", "live", "gone"}, acct: Owner]
NoCredential == [st |-> "none", acct |-> NoAccount]
\* A discoverable login is begun for no account.
ChallengeState == [st: {"none", "live", "gone"}, kind: {"none", "reg", "login", "mfa"},
                   acct: Owner]
NoChallenge == [st |-> "none", kind |-> "none", acct |-> NoAccount]
SetupState == [pc: {"idle", "enroll", "activate", "register"}, acct: Owner,
               seen: 0..MaxEnrolments,  \* the unverified secret that was read; 0 is none
               key: Passkey]
NoSetup == [pc |-> "idle", acct |-> NoAccount, seen |-> 0,
            key |-> CHOOSE p \in Passkey : TRUE]

FactorsOK ==
    /\ totp \in [Account -> TOTP]
    /\ backup \in [BackupCode -> Credential]
    /\ passkey \in [Passkey -> Credential]
    /\ challenge \in [Challenge -> ChallengeState]
    /\ setup \in [Setup -> SetupState]

Credentials(used, owner) ==
    [x \in DOMAIN owner |-> IF x \in used THEN [st |-> "live", acct |-> owner[x]]
                                          ELSE NoCredential]

\* Accounts have some of the factors already.
FactorsInit ==
    /\ \E A \in SUBSET Account :
           totp = [a \in Account |-> IF a \in A THEN [st |-> "live", id |-> 1]
                                                ELSE [st |-> "none", id |-> 0]]
    /\ \E owner \in [BackupCode -> Account], B \in SUBSET BackupCode :
           backup = Credentials(B, owner)
    /\ \E owner \in [Passkey -> Account], P \in SUBSET Passkey :
           passkey = Credentials(P, owner)
    /\ challenge = [c \in Challenge |-> NoChallenge]
    /\ setup = [u \in Setup |-> NoSetup]

-----------------------------------------------------------------------------
(* MFAService *)

\* The TOTP credentials of the account: one or none.
FindByAccountAndType(a) == IF totp[a].st = "none" THEN {} ELSE {totp[a]}

\* VerifyTOTP tries the code on the verified credential.
VerifyTOTP(a, id) == [st |-> "live", id |-> id] \in FindByAccountAndType(a)

\* Activation accepts a code of the unverified credential as well.
verifyTOTPIncludeUnverified(a, id) == \E x \in FindByAccountAndType(a) : x.id = id

\* A passkey alone does not require a second factor.
GetMFAStatus(a) == \E x \in FindByAccountAndType(a) : x.st = "live"

\* EnrollTOTP reads the credentials of the account.
EnrollTOTP(u, a) ==
    /\ setup[u].pc = "idle"
    /\ totp[a].id < MaxEnrolments
    /\ setup' = [setup EXCEPT ![u].pc = "enroll", ![u].acct = a,
                     ![u].seen = IF totp[a].st = "pending" THEN totp[a].id ELSE 0]
    /\ UNCHANGED <<totp, backup, passkey, challenge>>

\* The deletion of what was read must find its row, whatever became of it since, and the
\* new row must be the account's only one; otherwise the transaction is rolled back.
SaveEnrolment(u) ==
    /\ setup[u].pc = "enroll"
    /\ LET a == setup[u].acct
           ok == IF setup[u].seen = 0
                 THEN totp[a].st = "none"
                 ELSE totp[a].st # "none" /\ totp[a].id = setup[u].seen
       IN  /\ totp[a].id < MaxEnrolments
           /\ totp' = IF ok THEN [totp EXCEPT ![a] = [st |-> "pending", id |-> @.id + 1]]
                            ELSE totp
    /\ setup' = [setup EXCEPT ![u] = NoSetup]
    /\ UNCHANGED <<backup, passkey, challenge>>

\* ActivateTOTP checks the code against what it reads, ...
ActivateTOTP(u, a, id) ==
    /\ setup[u].pc = "idle"
    /\ verifyTOTPIncludeUnverified(a, id)
    /\ setup' = [setup EXCEPT ![u].pc = "activate", ![u].acct = a]
    /\ UNCHANGED <<totp, backup, passkey, challenge>>

\* ... and verifies the newest unverified credential that it finds afterwards.
VerifyFirstUnverifiedTOTP(u) ==
    /\ setup[u].pc = "activate"
    /\ LET a == setup[u].acct
       IN  totp' = IF totp[a].st = "pending" THEN [totp EXCEPT ![a].st = "live"] ELSE totp
    /\ setup' = [setup EXCEPT ![u] = NoSetup]
    /\ UNCHANGED <<backup, passkey, challenge>>

\* All rows of one account.
SoftDeleteByType(rows, a) ==
    [x \in DOMAIN rows |-> IF rows[x].acct = a /\ rows[x].st = "live"
                           THEN [rows[x] EXCEPT !.st = "gone"] ELSE rows[x]]

\* MFADisable has verified the current password.
DisableTOTP(a) ==
    /\ totp' = [totp EXCEPT ![a].st = "none"]
    /\ backup' = SoftDeleteByType(backup, a)
    /\ UNCHANGED <<passkey, challenge, setup>>

\* The administrator's ResetMFA leaves the passkeys where they are: it looks for them in
\* account_credentials.
ResetMFA(a) == DisableTOTP(a)

\* The batch of rows that belong to account a.
CreateCredentials(rows, B, a) ==
    [x \in DOMAIN rows |-> IF x \in B THEN [st |-> "live", acct |-> a] ELSE rows[x]]

\* New codes replace the old ones in one transaction.  Under READ COMMITTED it misses the
\* codes of a generation that ran at the same time and committed first: both sets stay.
GenerateBackupCodes(a, b) ==
    /\ backup[b].st = "none"
    /\ \E missed \in SUBSET BackupCode :
          LET left == [x \in BackupCode |-> IF x \in missed THEN backup[x]
                                            ELSE SoftDeleteByType(backup, a)[x]]
          IN  backup' = CreateCredentials(left, {b}, a)
    /\ UNCHANGED <<totp, passkey, challenge, setup>>

\* The rows are locked from the comparison to the deletion.
VerifyBackupCode(a, b) == b \in BackupCode /\ backup[b] = [st |-> "live", acct |-> a]
UseBackupCode(b) == backup' = [backup EXCEPT ![b].st = "gone"]

-----------------------------------------------------------------------------
(* PasskeyService *)

HasPasskeys(a) == \E p \in Passkey : passkey[p] = [st |-> "live", acct |-> a]

StoreChallenge(c, kind, a) ==
    /\ challenge[c].st = "none"
    /\ challenge' = [challenge EXCEPT ![c] = [st |-> "live", kind |-> kind, acct |-> a]]

\* GetDel: whoever takes a challenge is the only one.
Takeable(c, kind) == challenge[c].st = "live" /\ challenge[c].kind = kind
TakeChallengeKept(c) == challenge' = challenge
TakeChallenge(c) == challenge' = [challenge EXCEPT ![c].st = "gone"]

BeginRegistration(a, c) ==
    /\ StoreChallenge(c, "reg", a)
    /\ UNCHANGED <<totp, backup, passkey, setup>>

\* A row that is not deleted has the ID of the passkey.
FindByCredentialID(p) == passkey[p].st = "live"
ensureCredentialNotRegistered(p) == ~FindByCredentialID(p)

\* The library refuses a challenge that was made for another user.
CompleteRegistration(u, a, c, p) ==
    /\ setup[u].pc = "idle"
    /\ Takeable(c, "reg")
    /\ TakeChallenge(c)
    /\ setup' = IF challenge[c].acct = a /\ ensureCredentialNotRegistered(p)
                THEN [setup EXCEPT ![u].pc = "register", ![u].acct = a, ![u].key = p]
                ELSE setup
    /\ UNCHANGED <<totp, backup, passkey>>

\* credential_id is unique; a deleted row has given its own up.
CreateCredential(u) ==
    /\ setup[u].pc = "register"
    /\ LET p == setup[u].key
       IN  passkey' = IF FindByCredentialID(p) THEN passkey
                      ELSE [passkey EXCEPT ![p] = [st |-> "live", acct |-> setup[u].acct]]
    /\ setup' = [setup EXCEPT ![u] = NoSetup]
    /\ UNCHANGED <<totp, backup, challenge>>

SoftDeleteCredential(p) == passkey' = [passkey EXCEPT ![p].st = "gone"]

DeleteCredential(a, p) ==
    /\ FindByCredentialID(p) /\ passkey[p].acct = a
    /\ SoftDeleteCredential(p)
    /\ UNCHANGED <<totp, backup, challenge, setup>>

BeginLogin(a, c) ==
    /\ HasPasskeys(a)
    /\ StoreChallenge(c, "login", a)
    /\ UNCHANGED <<totp, backup, passkey, setup>>

BeginDiscoverableLogin(c) ==
    /\ StoreChallenge(c, "login", NoAccount)
    /\ UNCHANGED <<totp, backup, passkey, setup>>

\* The expected account is given when the passkey is a second factor.
OwnsCredential(p, expected) == expected = NoAccount \/ passkey[p].acct = expected

\* An assertion of passkey p over challenge c is verified: the credential is looked up by
\* its ID, and FinishLogin refuses a challenge that was begun for another user.  Of the
\* update that follows only the signature counter and time stamps are seen, by nobody here.
FinishLogin(p, made, expected) ==
    /\ FindByCredentialID(p)
    /\ OwnsCredential(p, expected)
    /\ made \in {NoAccount, passkey[p].acct}

ChallengeExpires(c) ==
    /\ challenge[c].st = "live"
    /\ TakeChallenge(c)
    /\ UNCHANGED <<totp, backup, passkey, setup>>

\* A request to change factors ends anywhere.
SetupEnds(u) ==
    /\ setup[u].pc # "idle"
    /\ setup' = [setup EXCEPT ![u] = NoSetup]
    /\ UNCHANGED <<totp, backup, passkey, challenge>>
=============================================================================
