----------------------------- MODULE DeviceCodes -----------------------------
(***************************************************************************)
(* The device authorization grant (RFC 8628): DeviceCodeService with the   *)
(* handlers DeviceCodeRequest, DeviceUserSubmit and handleDeviceCodeGrant. *)
(*                                                                         *)
(* A device asks for a code and polls the token endpoint with it, while    *)
(* users approve or deny it in a browser, possibly in several tabs.  Every *)
(* Redis command or script is one action with the local steps that follow  *)
(* it; the clock may advance between any two.  A call is a goroutine that  *)
(* serves one request after the other.  A key written in second t with TTL *)
(* d is there up to and including second t + d.  User codes are unique,    *)
(* and stand for their device code.  Requests that are refused before they *)
(* write anything are not shown: they change nothing.                      *)
(***************************************************************************)
EXTENDS Integers, Sequences

CONSTANTS
    Code,        \* device codes
    Client,
    Account, NoAccount,
    Call,        \* concurrent requests
    Expiry,      \* expiry of a code
    Interval,    \* interval between polls
    UsedTTL,     \* 60 s: what the claim script gives a key about to expire
    Faults,      \* what may go wrong, of FaultKind
    MaxTime      \* bound of the clock

\* "redis": a script reports an error, executed or not; "crash": a request ends
\* anywhere.
FaultKind == {"redis", "crash"}

ASSUME ConfigAssumption ==
    /\ Expiry \in Nat \ {0}
    /\ Interval \in Nat \ {0}
    /\ UsedTTL \in Nat \ {0}
    /\ MaxTime \in Nat
    /\ Faults \subseteq FaultKind

ASSUME NamesAssumption == NoAccount \notin Account /\ Client # {} /\ Code # {}

VARIABLES
    now,
    dc,         \* device_code:{hash}, and user_code:{code} with it
    lastPoll,   \* device_code:poll:{hash}; 0 is no key
    call,       \* the requests under way
    told,       \* history: the result pages that users have been shown
    receipt     \* history: the token responses given, by the account they are for

vars == <<now, dc, lastPoll, call, told, receipt>>

Status == {"none", "pending", "authorized", "denied", "used"}
\* domain.DeviceCode; expires is ExpiresAt and the end of the user code's key.
DeviceCode == [status: Status, client: Client, acct: Account \cup {NoAccount},
               expires: Nat, keyExp: Nat]
PC == {"idle", "authorize", "deny", "rate", "active", "claim", "issue"}
CallState == [pc: PC, code: Code,
              acct: Account \cup {NoAccount},  \* who submits, or AccountID as read
              client: Client,
              saw: Status,                     \* the status as read by GetDeviceCode
              since: Nat]                      \* when the code was read

-----------------------------------------------------------------------------
Exists(k) == dc[k].status # "none" /\ now <= dc[k].keyExp
IsExpired(k) == now > dc[k].expires

\* The scripts that write a code back keep what is left of its TTL; PTTL says 0 in the
\* key's last millisecond, and then the key is written without one.
Never == MaxTime + 1
RestTTL(k) == {dc[k].keyExp} \cup (IF now = dc[k].keyExp THEN {Never} ELSE {})

NoCall == [pc |-> "idle", code |-> CHOOSE k \in Code : TRUE, acct |-> NoAccount,
           client |-> CHOOSE cl \in Client : TRUE, saw |-> "none", since |-> 0]

Init ==
    /\ now = 1
    /\ dc = [k \in Code |-> [status |-> "none", client |-> CHOOSE cl \in Client : TRUE,
                             acct |-> NoAccount, expires |-> 0, keyExp |-> 0]]
    /\ lastPoll = [k \in Code |-> 0]
    /\ call = [c \in Call |-> NoCall]
    /\ told = [k \in Code |-> {}]
    /\ receipt = [k \in Code |-> <<>>]

At(c, pc) == call[c].pc = pc
Goto(c, pc) == call' = [call EXCEPT ![c].pc = pc]
Return(c) == call' = [call EXCEPT ![c] = NoCall]

Tick ==
    /\ now < MaxTime
    /\ now' = now + 1
    /\ UNCHANGED <<dc, lastPoll, call, told, receipt>>

-----------------------------------------------------------------------------
(* The device asks for a code.                                             *)

\* ExpiresAt is computed before the script runs, so the keys may outlast it.
DeviceCodeRequest(k, cl) ==
    /\ dc[k].status = "none"
    /\ \E delay \in {0, 1} :
         dc' = [dc EXCEPT ![k] = [status |-> "pending", client |-> cl,
                                  acct |-> NoAccount, expires |-> now + Expiry,
                                  keyExp |-> now + delay + Expiry]]
    /\ UNCHANGED <<now, lastPoll, call, told, receipt>>

-----------------------------------------------------------------------------
(* A user decides.                                                         *)

\* DeviceUserSubmit up to the script: the code exists when it is looked up by its
\* user code; a form with the raw device code is not looked up at all.
DeviceUserSubmit(c, k, a, approved) ==
    /\ At(c, "idle")
    /\ dc[k].status # "none"
    /\ call' = [call EXCEPT ![c] = [NoCall EXCEPT !.code = k, !.acct = a,
                                    !.pc = IF approved THEN "authorize" ELSE "deny"]]
    /\ UNCHANGED <<now, dc, lastPoll, told, receipt>>

\* What the scripts write: the deny script leaves the account alone.
Decided(k, a, status, e) == [dc[k] EXCEPT !.status = status, !.acct = a, !.keyExp = e]
Pending(k) == Exists(k) /\ dc[k].status = "pending"

\* A decision by script: the result page is shown if the script found the code
\* pending and its reply arrived.
Decide(c, k, a, status, page) ==
    /\ \/ /\ Pending(k)
          /\ \E e \in RestTTL(k) : dc' = [dc EXCEPT ![k] = Decided(k, a, status, e)]
          /\ \/ told' = [told EXCEPT ![k] = @ \cup {page}]
             \/ "redis" \in Faults /\ UNCHANGED told
       \/ /\ Pending(k) => "redis" \in Faults
          /\ UNCHANGED <<dc, told>>
    /\ Return(c)
    /\ UNCHANGED <<now, lastPoll, receipt>>

AuthorizeDeviceCode(c) ==
    /\ At(c, "authorize")
    /\ Decide(c, call[c].code, call[c].acct, "authorized", "granted")

DenyDeviceCode(c) ==
    /\ At(c, "deny")
    /\ Decide(c, call[c].code, dc[call[c].code].acct, "denied", "denied")

-----------------------------------------------------------------------------
(* The device polls: handleDeviceCodeGrant.                                *)

GetDeviceCode(c, k, cl) ==
    /\ At(c, "idle")
    /\ Exists(k)
    /\ dc[k].client = cl
    /\ ~IsExpired(k)
    /\ call' = [call EXCEPT ![c] = [pc |-> "rate", code |-> k, acct |-> dc[k].acct,
                                    client |-> cl, saw |-> dc[k].status, since |-> now]]
    /\ UNCHANGED <<now, dc, lastPoll, told, receipt>>

\* What the poll script does to the code: it writes it back, with the TTL left.
TouchedStale(k, saw, e) == [dc[k] EXCEPT !.status = saw, !.keyExp = e]
Touched(k, saw, e) == [dc[k] EXCEPT !.keyExp = e]
TooFast(k, t) == lastPoll[k] > 0 /\ t - lastPoll[k] < Interval

\* The script is given the second in which the handler looked at its clock.  The
\* handler then goes by the status that it read before.
CheckAndUpdatePollRate(c) ==
    LET k == call[c].code
    IN  /\ At(c, "rate")
        /\ \/ /\ \E t \in call[c].since .. now :
                   /\ Exists(k) /\ ~TooFast(k, t)
                   /\ lastPoll' = [lastPoll EXCEPT ![k] = t]
                   /\ \E e \in RestTTL(k) :
                          dc' = [dc EXCEPT ![k] = Touched(k, call[c].saw, e)]
              /\ \/ call[c].saw = "authorized" /\ Goto(c, "active")
                 \/ call[c].saw # "authorized" /\ Return(c)
                 \/ "redis" \in Faults /\ Return(c)
           \/ /\ \/ ~Exists(k) \/ "redis" \in Faults
                 \/ \E t \in call[c].since .. now : TooFast(k, t)
              /\ UNCHANGED <<dc, lastPoll>>
              /\ Return(c)
        /\ UNCHANGED <<now, told, receipt>>

\* IsAccountActive, before the claim.  Its cache and database are not modelled here:
\* either answer may come.
IsAccountActive(c) ==
    /\ At(c, "active")
    /\ Goto(c, "claim") \/ Return(c)
    /\ UNCHANGED <<now, dc, lastPoll, told, receipt>>

ClaimableAgain(k, cl) ==
    Exists(k) /\ dc[k].status \in {"authorized", "used"} /\ dc[k].client = cl
Claimable(k, cl) == Exists(k) /\ dc[k].status = "authorized" /\ dc[k].client = cl

\* TTL is rounded to seconds: in its last second the key may get UsedTTL, and a key
\* without a TTL gets it.
ClaimedTTL(k) ==
    ({dc[k].keyExp} \ {Never}) \cup (IF dc[k].keyExp \in {now, Never} THEN {now + UsedTTL} ELSE {})

ClaimAuthorizedDeviceCode(c) ==
    LET k == call[c].code
    IN  /\ At(c, "claim")
        /\ \/ /\ Claimable(k, call[c].client)
              /\ \E e \in ClaimedTTL(k) :
                   dc' = [dc EXCEPT ![k].status = "used", ![k].keyExp = e]
              /\ \/ call' = [call EXCEPT ![c].pc = "issue", ![c].acct = dc[k].acct]
                 \/ "redis" \in Faults /\ Return(c)
           \/ /\ Claimable(k, call[c].client) => "redis" \in Faults
              /\ UNCHANGED dc
              /\ Return(c)
        /\ UNCHANGED <<now, lastPoll, told, receipt>>

\* Roles, permissions, the tokens and the ID token; each may fail, and the code is
\* used up all the same.
IssueTokens(c) ==
    /\ At(c, "issue")
    /\ \/ receipt' = [receipt EXCEPT ![call[c].code] = Append(@, call[c].acct)]
       \/ UNCHANGED receipt
    /\ Return(c)
    /\ UNCHANGED <<now, dc, lastPoll, told>>

Crash(c) ==
    /\ "crash" \in Faults
    /\ ~At(c, "idle")
    /\ Return(c)
    /\ UNCHANGED <<now, dc, lastPoll, told, receipt>>

-----------------------------------------------------------------------------
Poll(c) ==
    \/ \E k \in Code, cl \in Client : GetDeviceCode(c, k, cl)
    \/ CheckAndUpdatePollRate(c)
    \/ IsAccountActive(c)
    \/ ClaimAuthorizedDeviceCode(c)
    \/ IssueTokens(c)

Submit(c) ==
    \/ \E k \in Code, a \in Account, b \in BOOLEAN : DeviceUserSubmit(c, k, a, b)
    \/ AuthorizeDeviceCode(c)
    \/ DenyDeviceCode(c)

Next ==
    \/ Tick
    \/ \E k \in Code, cl \in Client : DeviceCodeRequest(k, cl)
    \/ \E c \in Call : Poll(c) \/ Submit(c) \/ Crash(c)

Spec == Init /\ [][Next]_vars

-----------------------------------------------------------------------------
\* The types of the Redis keys, of a request's locals and of the histories.
TypeOK ==
    /\ now \in Nat
    /\ dc \in [Code -> DeviceCode]
    /\ lastPoll \in [Code -> Nat]
    /\ call \in [Call -> CallState]
    /\ told \in [Code -> SUBSET {"granted", "denied"}]
    /\ receipt \in [Code -> Seq(Account)]

\* Users are told one thing: whoever was shown "Authorization Denied" can rely on it
\* that no tokens are, or are about to be, given for the code, and a code whose
\* approval was confirmed is never again pending or denied, whichever polls and
\* other submissions (a second tab, a second user) run at the same time.
DecisionIsFinal ==
    \A k \in Code :
      /\ "denied" \in told[k] =>
           /\ dc[k].status = "denied"
           /\ receipt[k] = <<>>
           /\ \A c \in Call : ~(At(c, "issue") /\ call[c].code = k)
      /\ "granted" \in told[k] => dc[k].status \in {"authorized", "used"}

\* A code ends with its key.  A used code is the taker's until its request ends.
Stage(k) ==
    IF receipt[k] # <<>> THEN "spent"
    ELSE IF \E c \in Call : At(c, "issue") /\ call[c].code = k THEN "taken"
    ELSE IF dc[k].status \in {"used", "denied"} THEN "void"
    ELSE IF dc[k].status # "none" /\ now > dc[k].keyExp THEN "void"
    ELSE IF dc[k].status = "authorized" THEN "agreed"
    ELSE "proposed"

Grants == INSTANCE OneTimeGrant WITH
    Grant <- Code, Terms <- Account, NoTerms <- NoAccount,
    stage <- [k \in Code |-> Stage(k)],
    terms <- [k \in Code |-> dc[k].acct]

\* A device code is a grant that one user agrees to once and that is taken once: at
\* most one poll gets tokens, only after an approval, and for the account that
\* approved.
ImplementsOneTimeGrant == Grants!Spec
=============================================================================
