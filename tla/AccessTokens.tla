---------------------------- MODULE AccessTokens ----------------------------
(***************************************************************************)
(* Revocation of access tokens: TokenService.GenerateAccessToken,          *)
(* GenerateShortLivedToken, ValidateAccessTokenWithContext,                *)
(* RevokeAccessToken and RevokeAccountTokens, with the BlacklistService    *)
(* they use (internal/token/service).                                      *)
(*                                                                         *)
(* A JWT carries its own expiry and is not stored: revoking one means that *)
(* a Redis key outlives it.  The clock counts whole seconds, as iat, exp   *)
(* and the account mark do; what happens within a second is ordered by the *)
(* steps.  A key exists while now < keyExp.                                *)
(***************************************************************************)
EXTENDS Naturals

CONSTANTS
    Jti,              \* access tokens, by their jti
    Subject,          \* the accounts, as the claim sub names them
    Validation,       \* concurrent calls of ValidateAccessTokenWithContext
    Revocation,       \* concurrent calls of RevokeAccountTokens
    NoJti,
    AccessExpiry,     \* accessExpiry
    ShortExpiry,      \* what callers of GenerateShortLivedToken ask for
    MaxShortLivedExpiry,
    Leeway,           \* accessTokenClockSkew
    Buffer,           \* RevokeToken's 5 minutes
    MinAccountRevocationTTL,
    RequestTimeout,   \* of TimeoutMiddleware: a later Redis call fails
    MaxTime           \* bound of the clock

\* The TTL that RevokeAccountTokens gives the account mark.
MarkTTL ==
    IF 2 * AccessExpiry < MinAccountRevocationTTL THEN MinAccountRevocationTTL
    ELSE 2 * AccessExpiry

\* What GenerateShortLivedToken clamps a requested lifetime to.
Clamp(d) == IF d > MaxShortLivedExpiry THEN MaxShortLivedExpiry ELSE d

\* 30 s and 10 s against 5 minutes in the code and its configuration.
ASSUME DurationAssumption ==
    /\ {AccessExpiry, ShortExpiry, MaxShortLivedExpiry, Leeway, Buffer,
        MinAccountRevocationTTL, RequestTimeout, MaxTime} \subseteq Nat
    /\ Leeway + RequestTimeout <= Buffer
    /\ 2 * (Leeway + RequestTimeout) <= MinAccountRevocationTTL

\* Nothing in the code relates mfa_verification_ttl to access_token_expiry; the
\* configurations that ship do (5 minutes, 15 minutes).
ASSUME ShortLivedAssumption == Clamp(ShortExpiry) + Leeway + RequestTimeout <= MarkTTL

ASSUME NoJtiAssumption == NoJti \notin Jti /\ Subject # {}

VARIABLES
    now,
    tok,       \* the claims signed into each token
    minted,    \* the tokens that exist
    black,     \* blacklist:token:{jti}, as its keyExp
    mark,      \* account_revoked_after:{account}
    val,       \* the validations under way
    rev,       \* the account revocations under way
    revoked,   \* history: tokens RevokeToken has answered for
    stamp      \* history: the latest timestamp RevokeAccountTokens has answered for

vars == <<now, tok, minted, black, mark, val, rev, revoked, stamp>>

Claims == [acct: Subject, iat: Nat, exp: Nat]
Mark == [at: Nat, keyExp: Nat]
ValState == [pc: {"idle", "check", "accepted", "rejected"}, jti: Jti \cup {NoJti},
             deadline: Nat,
             doomed: BOOLEAN]   \* history: revoked when the validation began
RevState == [pc: {"idle", "script", "done"}, acct: Subject, at: Nat]

Init ==
    /\ now = 0
    /\ tok = [j \in Jti |-> [acct |-> CHOOSE a \in Subject : TRUE, iat |-> 0, exp |-> 0]]
    /\ minted = {}
    /\ black = [j \in Jti |-> 0]
    /\ mark = [a \in Subject |-> [at |-> 0, keyExp |-> 0]]
    /\ val = [v \in Validation |-> [pc |-> "idle", jti |-> NoJti, deadline |-> 0,
                                    doomed |-> FALSE]]
    /\ rev = [c \in Revocation |-> [pc |-> "idle", acct |-> CHOOSE a \in Subject : TRUE,
                                    at |-> 0]]
    /\ revoked = {}
    /\ stamp = [a \in Subject |-> 0]

-----------------------------------------------------------------------------
Sign(j, a, lifetime) ==
    /\ j \notin minted
    /\ tok' = [tok EXCEPT ![j] = [acct |-> a, iat |-> now, exp |-> now + lifetime]]
    /\ minted' = minted \cup {j}
    /\ UNCHANGED <<now, black, mark, val, rev, revoked, stamp>>

GenerateAccessToken(j, a) == Sign(j, a, AccessExpiry)

GenerateShortLivedToken(j, a) == Sign(j, a, Clamp(ShortExpiry))

\* Mutant of RevokeToken: the key lives exactly as long as the JWT.
RevokeTokenNoBuffer(j) ==
    /\ j \in minted
    /\ black' = [black EXCEPT ![j] = tok[j].exp]
    /\ revoked' = revoked \cup {j}
    /\ UNCHANGED <<now, tok, minted, mark, val, rev, stamp>>

\* RevokeToken: SET with the time until exp plus the buffer, unless that is over.  Its
\* callers pass the jti and exp of a token they have parsed, so of one that was signed.
RevokeToken(j) ==
    /\ j \in minted
    /\ black' = IF now < tok[j].exp + Buffer
                THEN [black EXCEPT ![j] = tok[j].exp + Buffer] ELSE black
    /\ revoked' = revoked \cup {j}
    /\ UNCHANGED <<now, tok, minted, mark, val, rev, stamp>>

\* RevokeAccountTokens reads the clock ...
RevokeAccountTokens(c, a) ==
    /\ rev[c].pc = "idle"
    /\ rev' = [rev EXCEPT ![c] = [pc |-> "script", acct |-> a, at |-> now]]
    /\ UNCHANGED <<now, tok, minted, black, mark, val, revoked, stamp>>

\* ... and setAccountRevokedAfterScript runs later, maybe after a younger call's.
SetAccountRevokedAfter(c) ==
    LET a == rev[c].acct
        at == rev[c].at
    IN  /\ rev[c].pc = "script"
        /\ mark' = IF now < mark[a].keyExp /\ at <= mark[a].at THEN mark
                   ELSE [mark EXCEPT ![a] = [at |-> at, keyExp |-> now + MarkTTL]]
        /\ rev' = [rev EXCEPT ![c].pc = "done"]
        /\ stamp' = [stamp EXCEPT ![a] = IF at > @ THEN at ELSE @]
        /\ UNCHANGED <<now, tok, minted, black, val, revoked>>

\* Parsing: signature, issuer and exp with the leeway, at the local clock.
Parse(v, j) ==
    /\ val[v].pc = "idle"
    /\ j \in minted
    /\ val' = [val EXCEPT ![v] =
                  [pc |-> IF now < tok[j].exp + Leeway THEN "check" ELSE "rejected",
                   jti |-> j, deadline |-> now + RequestTimeout,
                   doomed |-> j \in revoked \/ tok[j].iat < stamp[tok[j].acct]]]
    /\ UNCHANGED <<now, tok, minted, black, mark, rev, revoked, stamp>>

\* CheckTokenAndAccountRevocation: one pipeline, then the two comparisons.
Check(v) ==
    LET t == tok[val[v].jti]
        hit == \/ now < black[val[v].jti]
               \/ now < mark[t.acct].keyExp /\ t.iat < mark[t.acct].at
    IN  /\ val[v].pc = "check"
        /\ now <= val[v].deadline
        /\ val' = [val EXCEPT ![v].pc = IF hit THEN "rejected" ELSE "accepted"]
        /\ UNCHANGED <<now, tok, minted, black, mark, rev, revoked, stamp>>

\* Redis fails, or the request's deadline has passed: ErrBlacklistUnavailable.
CheckUnavailable(v) ==
    /\ val[v].pc = "check"
    /\ val' = [val EXCEPT ![v].pc = "rejected"]
    /\ UNCHANGED <<now, tok, minted, black, mark, rev, revoked, stamp>>

Tick ==
    /\ now < MaxTime
    /\ now' = now + 1
    /\ UNCHANGED <<tok, minted, black, mark, val, rev, revoked, stamp>>

Next ==
    \/ \E j \in Jti, a \in Subject : GenerateAccessToken(j, a) \/ GenerateShortLivedToken(j, a)
    \/ \E j \in Jti : RevokeToken(j)
    \/ \E c \in Revocation, a \in Subject : RevokeAccountTokens(c, a)
    \/ \E c \in Revocation : SetAccountRevokedAfter(c)
    \/ \E v \in Validation, j \in Jti : Parse(v, j)
    \/ \E v \in Validation : Check(v) \/ CheckUnavailable(v)
    \/ Tick

Spec == Init /\ [][Next]_vars

-----------------------------------------------------------------------------
(* Properties.                                                             *)

\* Tokens, blacklist, account marks and the calls in flight have their types.
TypeOK ==
    /\ now \in Nat
    /\ tok \in [Jti -> Claims]
    /\ minted \subseteq Jti
    /\ black \in [Jti -> Nat]
    /\ mark \in [Subject -> Mark]
    /\ val \in [Validation -> ValState]
    /\ rev \in [Revocation -> RevState]
    /\ revoked \subseteq minted
    /\ stamp \in [Subject -> Nat]

\* A token that was revoked, by itself (RevokeToken) or with its account in a later
\* second than it was issued in (RevokeAccountTokens), before a validation began is
\* never accepted by it: neither key runs out while the JWT still parses, whatever
\* the order in which concurrent revocations reach Redis.
RevokedNeverAccepted ==
    \A v \in Validation : val[v].pc = "accepted" => ~val[v].doomed
=============================================================================
