-------------------------- MODULE RevocationProofs --------------------------
(***************************************************************************)
(* What is revoked stays out.  AccessTokens: a revoked access token is     *)
(* never accepted, for any number of tokens, accounts and concurrent calls *)
(* and for every access-token expiry, from the assumptions on the          *)
(* durations.  Passwords, which rests on such revocations: a used reset    *)
(* token is dead, a link sets at most maxAttempts passwords, a change      *)
(* proves the current password, and it answers only when the sessions from *)
(* before are revoked, for any number of accounts, sessions, tokens,       *)
(* requests and revocation slots.                                          *)
(*                                                                         *)
(* The invariant AInv ties a revocation to a key that outlives the token;  *)
(* PInv ties every password a token may still set to a counted attempt,    *)
(* and every session outside the index to the job that is to delete it.    *)
(***************************************************************************)
EXTENDS AccessTokens, Passwords, FiniteSetTheorems, TLAPS

-----------------------------------------------------------------------------
(* Access tokens.                                                          *)

\* How long a validation of a token that still parses can go on after exp.
Grace == Leeway + RequestTimeout

\* An account mark outlives every token that is older than the mark.
TokenInv ==
    \A j \in minted : tok[j].iat <= now /\ tok[j].exp + Grace <= tok[j].iat + MarkTTL

\* A revoked token is blacklisted, or too old for any validation.
BlackInv ==
    \A j \in revoked : black[j] >= tok[j].exp + Buffer \/ now >= tok[j].exp + Buffer

\* The latest answered revocation is covered by a mark that exists, or is so old
\* that no token issued before it still parses.
MarkInv ==
    \A a \in Subject :
        /\ mark[a].keyExp = 0 \/ mark[a].keyExp >= mark[a].at + MarkTTL
        /\ \/ stamp[a] = 0
           \/ stamp[a] <= mark[a].at /\ now < mark[a].keyExp
           \/ now >= stamp[a] + MarkTTL

RevInv == \A c \in Revocation : rev[c].pc = "script" => rev[c].at <= now

ValInv ==
    \A v \in Validation :
        /\ val[v].pc = "check" =>
               /\ val[v].jti \in minted
               /\ val[v].deadline < tok[val[v].jti].exp + Grace
               /\ val[v].doomed => \/ val[v].jti \in revoked
                                   \/ tok[val[v].jti].iat < stamp[tok[val[v].jti].acct]
        /\ val[v].pc = "accepted" => ~val[v].doomed

AInv == TypeOK /\ TokenInv /\ BlackInv /\ MarkInv /\ RevInv /\ ValInv

\* The durations: the mark's TTL covers the lifetime of both kinds of tokens.
LEMMA Durations ==
    /\ AccessExpiry \in Nat /\ Clamp(ShortExpiry) \in Nat /\ Leeway \in Nat /\ Buffer \in Nat
    /\ RequestTimeout \in Nat /\ MarkTTL \in Nat /\ Grace \in Nat
    /\ Grace = Leeway + RequestTimeout /\ Grace <= Buffer
    /\ AccessExpiry + Grace <= MarkTTL
    /\ Clamp(ShortExpiry) + Grace <= MarkTTL
<1>1. /\ AccessExpiry \in Nat /\ ShortExpiry \in Nat /\ MaxShortLivedExpiry \in Nat
      /\ Leeway \in Nat /\ Buffer \in Nat /\ RequestTimeout \in Nat
      /\ MinAccountRevocationTTL \in Nat
    BY DurationAssumption
<1>2. Clamp(ShortExpiry) \in Nat /\ MarkTTL \in Nat
    BY <1>1 DEF Clamp, MarkTTL
<1>3. Grace \in Nat /\ Grace <= Buffer /\ Grace = Leeway + RequestTimeout
    BY <1>1, DurationAssumption DEF Grace
<1>4. AccessExpiry + Grace <= MarkTTL
    BY <1>1, DurationAssumption DEF Grace, MarkTTL
<1>5. Clamp(ShortExpiry) + Grace <= MarkTTL
    BY <1>1, <1>2, ShortLivedAssumption DEF Grace
<1> QED BY <1>1, <1>2, <1>3, <1>4, <1>5

\* No token, no revocation, no validation: the invariant holds.
LEMMA InitAInv == Init => AInv
<1> SUFFICES ASSUME Init PROVE AInv
    OBVIOUS
<1>1. TypeOK
    BY NoJtiAssumption DEF Init, TypeOK, Claims, Mark, ValState, RevState
<1>2. TokenInv /\ BlackInv /\ RevInv /\ ValInv
    BY DEF Init, TokenInv, BlackInv, RevInv, ValInv
<1>3. MarkInv
    BY DEF Init, MarkInv
<1> QED BY <1>1, <1>2, <1>3 DEF AInv

\* Signing a token whose lifetime a mark outlasts keeps the invariant.
LEMMA SignAInv ==
    ASSUME AInv, NEW j \in Jti, NEW a \in Subject, NEW d \in Nat, d + Grace <= MarkTTL,
           Sign(j, a, d)
    PROVE  AInv'
<1> DEFINE new == [acct |-> a, iat |-> now, exp |-> now + d]
<1>1. /\ TypeOK /\ TokenInv /\ BlackInv /\ MarkInv /\ RevInv /\ ValInv
      /\ now \in Nat /\ tok \in [Jti -> Claims] /\ minted \subseteq Jti
      /\ revoked \subseteq minted
    BY DEF AInv, TypeOK
<1>2. /\ j \notin minted /\ tok' = [tok EXCEPT ![j] = new] /\ minted' = minted \cup {j}
      /\ UNCHANGED <<now, black, mark, val, rev, revoked, stamp>>
    BY DEF Sign
<1>3. new \in Claims /\ new.iat = now /\ new.exp = now + d
    BY <1>1 DEF Claims
<1> HIDE DEF new
<1>4. /\ tok' \in [Jti -> Claims] /\ tok'[j] = new
      /\ \A i \in minted : tok'[i] = tok[i]
    BY <1>1, <1>2, <1>3
<1>5. TypeOK'
    BY <1>1, <1>2, <1>4 DEF TypeOK
<1>6. TokenInv'
    <2>1. new.exp + Grace <= new.iat + MarkTTL
        BY <1>1, <1>3, Durations
    <2> QED BY <1>1, <1>2, <1>3, <1>4, <2>1 DEF TokenInv
<1>7. BlackInv' /\ MarkInv' /\ RevInv'
    BY <1>1, <1>2, <1>4 DEF BlackInv, MarkInv, RevInv
<1>8. ValInv'
    BY <1>1, <1>2, <1>4 DEF ValInv
<1> QED BY <1>5, <1>6, <1>7, <1>8 DEF AInv

\* RevokeToken leaves a key that outlives the JWT and its leeway.
LEMMA RevokeTokenAInv ==
    ASSUME AInv, NEW j \in Jti, RevokeToken(j)
    PROVE  AInv'
<1>1. /\ TypeOK /\ TokenInv /\ BlackInv /\ MarkInv /\ RevInv /\ ValInv
      /\ now \in Nat /\ black \in [Jti -> Nat] /\ minted \subseteq Jti
      /\ revoked \subseteq minted /\ tok[j].exp \in Nat
    BY DEF AInv, TypeOK, Claims
<1>2. /\ j \in minted /\ revoked' = revoked \cup {j}
      /\ UNCHANGED <<now, tok, minted, mark, val, rev, stamp>>
    BY DEF RevokeToken
<1>3. /\ black' \in [Jti -> Nat]
      /\ \A i \in Jti \ {j} : black'[i] = black[i]
      /\ black'[j] = tok[j].exp + Buffer \/ now >= tok[j].exp + Buffer
    BY <1>1, Durations DEF RevokeToken
<1>4. TypeOK'
    BY <1>1, <1>2, <1>3 DEF TypeOK
<1>5. BlackInv'
    BY <1>1, <1>2, <1>3, Durations DEF BlackInv
<1>6. TokenInv' /\ MarkInv' /\ RevInv' /\ ValInv'
    BY <1>1, <1>2 DEF TokenInv, MarkInv, RevInv, ValInv
<1> QED BY <1>4, <1>5, <1>6 DEF AInv

\* Reading the clock for an account revocation keeps the invariant.
LEMMA CallAInv ==
    ASSUME AInv, NEW c \in Revocation, NEW a \in Subject, RevokeAccountTokens(c, a)
    PROVE  AInv'
<1> DEFINE new == [pc |-> "script", acct |-> a, at |-> now]
<1>1. /\ TypeOK /\ TokenInv /\ BlackInv /\ MarkInv /\ RevInv /\ ValInv
      /\ now \in Nat /\ rev \in [Revocation -> RevState] /\ minted \subseteq Jti
    BY DEF AInv, TypeOK
<1>2. /\ rev' = [rev EXCEPT ![c] = new]
      /\ UNCHANGED <<now, tok, minted, black, mark, val, revoked, stamp>>
    BY DEF RevokeAccountTokens
<1>3. new \in RevState /\ new.at = now
    BY <1>1 DEF RevState
<1> HIDE DEF new
<1>4. rev' \in [Revocation -> RevState] /\ RevInv'
    BY <1>1, <1>2, <1>3 DEF RevInv
<1>5. TypeOK' /\ TokenInv' /\ BlackInv' /\ MarkInv' /\ ValInv'
    BY <1>1, <1>2, <1>4 DEF TypeOK, TokenInv, BlackInv, MarkInv, ValInv
<1> QED BY <1>4, <1>5 DEF AInv

\* setAccountRevokedAfterScript only ratchets: the key step for out-of-order calls.
LEMMA ScriptAInv ==
    ASSUME AInv, NEW c \in Revocation, SetAccountRevokedAfter(c)
    PROVE  AInv'
<1> DEFINE a == rev[c].acct
           at == rev[c].at
           skip == now < mark[a].keyExp /\ at <= mark[a].at
           new == [at |-> at, keyExp |-> now + MarkTTL]
           high == IF at > stamp[a] THEN at ELSE stamp[a]
<1>1. /\ TypeOK /\ TokenInv /\ BlackInv /\ MarkInv /\ RevInv /\ ValInv
      /\ now \in Nat /\ rev \in [Revocation -> RevState] /\ minted \subseteq Jti
      /\ mark \in [Subject -> Mark] /\ stamp \in [Subject -> Nat]
      /\ tok \in [Jti -> Claims]
    BY DEF AInv, TypeOK
<1>2. /\ rev[c].pc = "script" /\ at \in Nat /\ a \in Subject /\ at <= now
     
    BY <1>1 DEF SetAccountRevokedAfter, RevState, RevInv
<1>3. /\ mark' = IF skip THEN mark ELSE [mark EXCEPT ![a] = new]
      /\ rev' = [rev EXCEPT ![c].pc = "done"]
      /\ stamp' = [stamp EXCEPT ![a] = high]
      /\ UNCHANGED <<now, tok, minted, black, val, revoked>>
    BY DEF SetAccountRevokedAfter
<1>4. new \in Mark /\ new.at = at /\ new.keyExp = now + MarkTTL /\ high \in Nat
      /\ high >= at /\ high >= stamp[a] /\ (high = at \/ high = stamp[a])
      /\ mark[a].at \in Nat /\ mark[a].keyExp \in Nat /\ stamp[a] \in Nat
    BY <1>1, <1>2, Durations DEF Mark
<1> HIDE DEF a, at, new, high
<1>5. /\ mark' \in [Subject -> Mark] /\ stamp' \in [Subject -> Nat] /\ stamp'[a] = high
      /\ \A b \in Subject \ {a} : mark'[b] = mark[b] /\ stamp'[b] = stamp[b]
      /\ skip => mark'[a] = mark[a]
      /\ ~skip => mark'[a] = new
    BY <1>1, <1>2, <1>3, <1>4
<1>6. rev' \in [Revocation -> RevState] /\ RevInv'
    BY <1>1, <1>3 DEF RevState, RevInv
<1>7. TypeOK'
    BY <1>1, <1>2, <1>3, <1>5, <1>6 DEF TypeOK
<1>8. MarkInv'
    <2>1. /\ mark'[a].keyExp = 0 \/ mark'[a].keyExp >= mark'[a].at + MarkTTL
          /\ \/ stamp'[a] = 0
             \/ stamp'[a] <= mark'[a].at /\ now < mark'[a].keyExp
             \/ now >= stamp'[a] + MarkTTL
        <3>1. /\ mark[a].keyExp = 0 \/ mark[a].keyExp >= mark[a].at + MarkTTL
              /\ \/ stamp[a] = 0
                 \/ stamp[a] <= mark[a].at /\ now < mark[a].keyExp
                 \/ now >= stamp[a] + MarkTTL
            BY <1>1, <1>2 DEF MarkInv
        <3>2. CASE skip
            BY <1>1, <1>2, <1>4, <1>5, <3>1, <3>2, Durations
        <3>3. CASE ~skip
            BY <1>1, <1>2, <1>4, <1>5, <3>1, <3>3, Durations
        <3> QED BY <3>2, <3>3
    <2> QED BY <1>1, <1>3, <1>5, <2>1 DEF MarkInv
<1>9. ValInv'
    <2>1. \A b \in Subject : stamp'[b] >= stamp[b] /\ stamp[b] \in Nat /\ stamp'[b] \in Nat
        BY <1>1, <1>4, <1>5
    <2>2. \A j \in minted : tok[j].acct \in Subject /\ tok[j].iat \in Nat
        BY <1>1 DEF Claims
    <2>3. \A j \in minted : tok[j].iat < stamp[tok[j].acct] => tok[j].iat < stamp'[tok[j].acct]
        BY <2>1, <2>2
    <2> QED BY <1>1, <1>3, <2>3 DEF ValInv
<1>10. TokenInv' /\ BlackInv'
    BY <1>1, <1>3 DEF TokenInv, BlackInv
<1> QED BY <1>6, <1>7, <1>8, <1>9, <1>10 DEF AInv

\* A validation that begins records whether its token is revoked.
LEMMA ParseAInv ==
    ASSUME AInv, NEW v \in Validation, NEW j \in Jti, Parse(v, j)
    PROVE  AInv'
<1> DEFINE p == IF now < tok[j].exp + Leeway THEN "check" ELSE "rejected"
           new == [pc |-> p, jti |-> j, deadline |-> now + RequestTimeout,
                   doomed |-> j \in revoked \/ tok[j].iat < stamp[tok[j].acct]]
<1>1. /\ TypeOK /\ TokenInv /\ BlackInv /\ MarkInv /\ RevInv /\ ValInv
      /\ now \in Nat /\ val \in [Validation -> ValState] /\ tok[j].exp \in Nat
    BY DEF AInv, TypeOK, Claims
<1>2. /\ val' = [val EXCEPT ![v] = new] /\ j \in minted
      /\ UNCHANGED <<now, tok, minted, black, mark, rev, revoked, stamp>>
    BY DEF Parse
<1>3. p \in {"check", "rejected"} /\ (p = "check" => now < tok[j].exp + Leeway)
    OBVIOUS
<1> HIDE DEF p
<1>4. new \in ValState /\ new.pc = p /\ new.jti = j /\ new.deadline = now + RequestTimeout
      /\ new.doomed = (j \in revoked \/ tok[j].iat < stamp[tok[j].acct])
    BY <1>1, <1>3, Durations DEF ValState
<1> HIDE DEF new
<1>5. val' \in [Validation -> ValState] /\ val'[v] = new
      /\ \A w \in Validation \ {v} : val'[w] = val[w]
    BY <1>1, <1>2, <1>4
<1>6. new.pc = "check" => new.deadline < tok[j].exp + Grace
    BY <1>1, <1>3, <1>4, Durations
<1>7. ValInv'
    <2> SUFFICES ASSUME NEW w \in Validation
                 PROVE  /\ val'[w].pc = "check" =>
                               /\ val'[w].jti \in minted
                               /\ val'[w].deadline < tok[val'[w].jti].exp + Grace
                               /\ val'[w].doomed =>
                                      \/ val'[w].jti \in revoked
                                      \/ tok[val'[w].jti].iat < stamp[tok[val'[w].jti].acct]
                        /\ val'[w].pc = "accepted" => ~val'[w].doomed
        BY <1>2 DEF ValInv
    <2>1. CASE w = v
        BY <1>2, <1>3, <1>4, <1>5, <1>6, <2>1
    <2>2. CASE w # v
        BY <1>1, <1>5, <2>2 DEF ValInv
    <2> QED BY <2>1, <2>2
<1>8. TypeOK' /\ TokenInv' /\ BlackInv' /\ MarkInv' /\ RevInv'
    BY <1>1, <1>2, <1>5 DEF TypeOK, TokenInv, BlackInv, MarkInv, RevInv
<1> QED BY <1>7, <1>8 DEF AInv

\* A validation that ends changes nothing but its own pc.
LEMMA AnswerAInv ==
    ASSUME AInv, NEW v \in Validation, NEW p \in {"accepted", "rejected"},
           val' = [val EXCEPT ![v].pc = p], p = "accepted" => ~val[v].doomed,
           UNCHANGED <<now, tok, minted, black, mark, rev, revoked, stamp>>
    PROVE  AInv'
<1>1. /\ TypeOK /\ TokenInv /\ BlackInv /\ MarkInv /\ RevInv /\ ValInv
      /\ val \in [Validation -> ValState]
    BY DEF AInv, TypeOK
<1>2. val' \in [Validation -> ValState] /\ val'[v].pc = p /\ val'[v].doomed = val[v].doomed
      /\ \A w \in Validation \ {v} : val'[w] = val[w]
    BY <1>1 DEF ValState
<1>3. ValInv'
    BY <1>1, <1>2 DEF ValInv
<1>4. TypeOK' /\ TokenInv' /\ BlackInv' /\ MarkInv' /\ RevInv'
    BY <1>1, <1>2 DEF TypeOK, TokenInv, BlackInv, MarkInv, RevInv
<1> QED BY <1>3, <1>4 DEF AInv

\* The pipeline finds one of the keys while a revoked token still parses.
LEMMA CheckAInv ==
    ASSUME AInv, NEW v \in Validation, Check(v)
    PROVE  AInv'
<1> DEFINE j == val[v].jti
           hit == \/ now < black[j]
                  \/ now < mark[tok[j].acct].keyExp /\ tok[j].iat < mark[tok[j].acct].at
<1>1. /\ TypeOK /\ TokenInv /\ BlackInv /\ MarkInv /\ ValInv
      /\ now \in Nat /\ val \in [Validation -> ValState] /\ minted \subseteq Jti
      /\ black \in [Jti -> Nat] /\ tok \in [Jti -> Claims]
      /\ mark \in [Subject -> Mark] /\ stamp \in [Subject -> Nat]
    BY DEF AInv, TypeOK
<1>2. /\ val[v].pc = "check" /\ now <= val[v].deadline
      /\ val' = [val EXCEPT ![v].pc = IF hit THEN "rejected" ELSE "accepted"]
      /\ UNCHANGED <<now, tok, minted, black, mark, rev, revoked, stamp>>
    BY DEF Check
<1>3. /\ j \in minted /\ j \in Jti /\ val[v].deadline \in Nat
      /\ val[v].deadline < tok[j].exp + Grace
      /\ val[v].doomed => j \in revoked \/ tok[j].iat < stamp[tok[j].acct]
    BY <1>1, <1>2 DEF ValInv, ValState
<1> HIDE DEF j
<1>4. /\ tok[j].exp \in Nat /\ tok[j].iat \in Nat /\ tok[j].acct \in Subject
      /\ black[j] \in Nat /\ stamp[tok[j].acct] \in Nat
      /\ mark[tok[j].acct].at \in Nat /\ mark[tok[j].acct].keyExp \in Nat
    BY <1>1, <1>3 DEF Claims, Mark
<1>5. now < tok[j].exp + Grace /\ now < tok[j].exp + Buffer /\ now < tok[j].iat + MarkTTL
    <2>1. tok[j].exp + Grace <= tok[j].iat + MarkTTL
        BY <1>1, <1>3 DEF TokenInv
    <2> QED BY <1>1, <1>2, <1>3, <1>4, <2>1, Durations
<1>6. j \in revoked => hit
    BY <1>1, <1>4, <1>5, Durations DEF BlackInv
<1>7. tok[j].iat < stamp[tok[j].acct] => hit
    <2>1. \/ stamp[tok[j].acct] = 0
          \/ stamp[tok[j].acct] <= mark[tok[j].acct].at /\ now < mark[tok[j].acct].keyExp
          \/ now >= stamp[tok[j].acct] + MarkTTL
        BY <1>1, <1>4 DEF MarkInv
    <2> QED BY <1>1, <1>4, <1>5, <2>1, Durations
<1>8. val[v].doomed => hit
    BY <1>3, <1>6, <1>7
<1> HIDE DEF hit
<1>9. CASE hit
    BY <1>2, <1>9, AnswerAInv
<1>10. CASE ~hit
    BY <1>2, <1>8, <1>10, AnswerAInv
<1> QED BY <1>9, <1>10

\* Time passes: no key expires while a token it concerns still parses.
LEMMA TickAInv ==
    ASSUME AInv, Tick
    PROVE  AInv'
<1>1. /\ TypeOK /\ TokenInv /\ BlackInv /\ MarkInv /\ RevInv /\ ValInv
      /\ now \in Nat /\ now' = now + 1 /\ revoked \subseteq minted /\ minted \subseteq Jti
      /\ UNCHANGED <<tok, minted, black, mark, val, rev, revoked, stamp>>
    BY DEF AInv, TypeOK, Tick
<1>2. /\ \A i \in Jti : tok[i].exp \in Nat /\ tok[i].iat \in Nat
      /\ \A a \in Subject : mark[a].at \in Nat /\ mark[a].keyExp \in Nat /\ stamp[a] \in Nat
      /\ \A c \in Revocation : rev[c].at \in Nat
    BY <1>1 DEF TypeOK, Claims, Mark, RevState
<1>3. TypeOK' /\ ValInv'
    BY <1>1 DEF TypeOK, ValInv
<1>4. TokenInv' /\ BlackInv' /\ RevInv'
    BY <1>1, <1>2, Durations DEF TokenInv, BlackInv, RevInv
<1>5. MarkInv'
    BY <1>1, <1>2, Durations DEF MarkInv
<1> QED BY <1>3, <1>4, <1>5 DEF AInv

\* AInv is inductive.
LEMMA NextAInv == AInv /\ [Next]_vars => AInv'
<1> SUFFICES ASSUME AInv, [Next]_vars PROVE AInv'
    OBVIOUS
<1>1. ASSUME NEW j \in Jti, NEW a \in Subject,
             GenerateAccessToken(j, a) \/ GenerateShortLivedToken(j, a)
      PROVE  AInv'
    BY <1>1, SignAInv, Durations DEF GenerateAccessToken, GenerateShortLivedToken
<1>2. ASSUME NEW v \in Validation, CheckUnavailable(v) PROVE AInv'
    BY <1>2, AnswerAInv DEF CheckUnavailable
<1>3. CASE UNCHANGED vars
    BY <1>3 DEF vars, AInv, TypeOK, TokenInv, BlackInv, MarkInv, RevInv, ValInv
<1> QED BY <1>1, <1>2, <1>3, RevokeTokenAInv, CallAInv, ScriptAInv, ParseAInv, CheckAInv, TickAInv
        DEF Next

\* The variables keep their types.
THEOREM AccessTypeCorrect == Spec => []TypeOK
<1>1. AInv => TypeOK
    BY DEF AInv
<1> QED BY <1>1, InitAInv, NextAInv, PTL DEF Spec

\* No validation that begins after a token's revocation accepts it, for every
\* access-token expiry: the mark's TTL, max(2 * accessExpiry, 5 minutes), and the
\* blacklist's 5 minute buffer always outlast the leeway and the request timeout.
THEOREM RevocationEffective == Spec => []RevokedNeverAccepted
<1>1. AInv => RevokedNeverAccepted
    BY DEF AInv, ValInv, RevokedNeverAccepted
<1> QED BY <1>1, InitAInv, NextAInv, PTL DEF Spec

-----------------------------------------------------------------------------
(* Passwords.                                                              *)

\* The parts of the invariant, each about few variables.
PlainTypes ==
    /\ active \subseteq Account /\ password \in [Account -> Nat] /\ access \subseteq Session
    /\ cooldown \subseteq Account /\ limited \subseteq Account
    /\ life \in {"up", "draining", "waiting", "down"}
    /\ asked \in Nat /\ stops \in Nat /\ writes \in Nat

\* A request under way has an account, one that works with a reset token has the token,
\* and none began when its token was spent.
SoundReq(q) ==
    /\ q.pc # "idle" => q.acct \in Account
    /\ q.pc \in {"cool", "send", "active", "commit", "del"} => q.tok \in Token
    /\ ~q.late
Requests == req \in [Req -> ReqState] /\ \A r \in Req : SoundReq(req[r])

\* A spent token is deleted and stays so.
Tokens ==
    /\ token \in [Token -> TokenState] /\ spent \subseteq Token /\ sets \in [Token -> Nat]
    /\ \A t \in Token : token[t].st = "live" => token[t].acct \in Account
    /\ \A t \in spent : token[t].st = "gone"

\* The passwords that a token has set, and those that requests under way may still set
\* with it, have been counted as attempts.
Users(t) == {r \in Req : req[r].tok = t /\ req[r].pc \in {"active", "commit"}}
Budget == \A t \in Token : sets[t] + Cardinality(Users(t)) <= token[t].attempts

\* What a change has to revoke are sessions of its account.
Before ==
    \A r \in Req : At(r, "revoke") =>
        \A s \in req[r].before : sess[s].st # "none" /\ sess[s].acct = req[r].acct

\* A session outside the index is in the hands of a job, or was lost.
Revocations ==
    /\ sess \in [Session -> SessionState] /\ job \in [Job -> JobState]
    /\ gone \subseteq Session /\ owed \subseteq Session /\ lost \subseteq Session
    /\ \A j \in Job : ~job[j].taken => job[j].ids = {}
    /\ \A s \in Session : sess[s].st = "orphan" => s \in lost \/ \E j \in Job : s \in job[j].ids
    /\ \A s \in gone : sess[s].st \in {"gone", "orphan"}

PInv == PlainTypes /\ Requests /\ Tokens /\ Budget /\ Before /\ Revocations /\ bad = {}

\* A session that was opened stays with its account.
SessionsStay ==
    \A s \in Session : sess[s].st # "none" => sess'[s].st # "none" /\ sess'[s].acct = sess[s].acct
\* Neither the attempts nor the passwords set are counted up.
CountsStay == sets' = sets /\ \A t \in Token : token'[t].attempts = token[t].attempts

USE DEF At, Goto, Return

\* Sets of requests are finite.
LEMMA FiniteRequests ==
  ASSUME NEW S, S \subseteq Req
  PROVE  IsFiniteSet(S) /\ Cardinality(S) \in Nat
BY PasswordsAssumption, FS_Subset, FS_CardinalityType

\* The request that is not there is well typed.
LEMMA DefaultReq ==
  /\ NoReq \in ReqState /\ SoundReq(NoReq) /\ NoReq.pc = "idle" /\ NoReq.moved = FALSE
  /\ NoJob \in JobState /\ NoJob.ids = {} /\ NoJob.taken = FALSE
  /\ NoResetToken \in TokenState /\ NoResetToken.st = "none" /\ NoResetToken.attempts = 0
BY PasswordsAssumption
   DEF NoReq, ReqState, PC, Owner, SoundReq, NoJob, JobState, NoResetToken, TokenState

\* The budget holds on when no request begins to use a token.
LEMMA BudgetStays ==
  ASSUME Tokens, Budget, CountsStay, \A t \in Token : Users(t)' \subseteq Users(t)
  PROVE  Budget'
<1> SUFFICES ASSUME NEW t \in Token
             PROVE  sets'[t] + Cardinality(Users(t)') <= token'[t].attempts
  BY DEF Budget
<1>1. Users(t) \subseteq Req /\ Users(t)' \subseteq Users(t)
  BY DEF Users
<1>2. /\ IsFiniteSet(Users(t)) /\ Cardinality(Users(t)) \in Nat
      /\ Cardinality(Users(t)') \in Nat
      /\ Cardinality(Users(t)') <= Cardinality(Users(t))
  BY <1>1, FiniteRequests, FS_Subset
<1>3. /\ sets[t] \in Nat /\ token[t].attempts \in Nat
      /\ sets[t] + Cardinality(Users(t)) <= token[t].attempts
  BY PasswordsAssumption DEF Tokens, TokenState, Budget
<1>4. sets'[t] = sets[t] /\ token'[t].attempts = token[t].attempts
  BY DEF CountsStay
<1> HIDE DEF Users
<1> QED BY <1>2, <1>3, <1>4

\* Requests that differ at most in what UpdateAccount has seen.
Alike(p, q) ==
    p.pc = q.pc /\ p.acct = q.acct /\ p.tok = q.tok /\ p.late = q.late /\ p.before = q.before

\* What a step makes of request r is q; of the others it may only spoil UpdateAccount.
LEMMA ReqsUpdate ==
  ASSUME PInv, NEW r \in Req, NEW q \in ReqState, SoundReq(q), req' \in [Req -> ReqState],
         \A d \in Req : Alike(req'[d], IF d = r THEN q ELSE req[d]),
         q.pc \in {"active", "commit"} => At(r, "active") /\ q.tok = req[r].tok,
         q.pc = "revoke" => \A s \in q.before : sess'[s].st # "none" /\ sess'[s].acct = q.acct,
         SessionsStay, CountsStay
  PROVE  Requests' /\ Budget' /\ Before'
<1> USE DEF PInv
<1>0. /\ Alike(req'[r], q)
      /\ \A d \in Req \ {r} : Alike(req'[d], req[d])
  OBVIOUS
<1>1. Requests'
  BY <1>0 DEF Requests, Alike, SoundReq
<1>2. \A t \in Token : Users(t)' \subseteq Users(t)
  BY <1>0 DEF Users, Alike
<1>3. Budget'
  BY <1>2, BudgetStays
<1>4. Before'
  <2> SUFFICES ASSUME NEW d \in Req, req'[d].pc = "revoke", NEW s \in req'[d].before
               PROVE  sess'[s].st # "none" /\ sess'[s].acct = req'[d].acct
    BY DEF Before
  <2>1. CASE d = r
    BY <1>0, <2>1 DEF Alike
  <2>2. CASE d # r
    <3>1. Alike(req'[d], req[d]) /\ s \in Session
      BY <1>0, <2>2 DEF Requests, ReqState
    <3> QED BY <3>1 DEF Before, SessionsStay, Alike
  <2> QED BY <2>1, <2>2
<1> QED BY <1>1, <1>3, <1>4

\* The same when the other requests stay as they are.
LEMMA ReqUpdate ==
  ASSUME PInv, NEW r \in Req, NEW q \in ReqState, req' = [req EXCEPT ![r] = q], SoundReq(q),
         q.pc \in {"active", "commit"} => At(r, "active") /\ q.tok = req[r].tok,
         q.pc = "revoke" => \A s \in q.before : sess'[s].st # "none" /\ sess'[s].acct = q.acct,
         SessionsStay, CountsStay
  PROVE  Requests' /\ Budget' /\ Before'
<1>1. req' \in [Req -> ReqState] /\ \A d \in Req : req'[d] = IF d = r THEN q ELSE req[d]
  BY DEF PInv, Requests
<1>2. \A d \in Req : Alike(req'[d], IF d = r THEN q ELSE req[d])
  BY <1>1 DEF Alike
<1> QED BY <1>1, <1>2, ReqsUpdate

\* A request that ends leaves the other requests as they are.
LEMMA ReturnReq ==
  ASSUME PInv, NEW r \in Req, Return(r), SessionsStay, CountsStay
  PROVE  Requests' /\ Budget' /\ Before'
BY DefaultReq, ReqUpdate

\* A request that goes on to its next step.
LEMMA GotoReq ==
  ASSUME PInv, NEW r \in Req, NEW pc \in PC \ {"idle", "revoke"}, Goto(r, pc), ~At(r, "idle"),
         pc \in {"cool", "send", "active", "commit", "del"} => req[r].tok \in Token,
         pc \in {"active", "commit"} => At(r, "active"),
         SessionsStay, CountsStay
  PROVE  Requests' /\ Budget' /\ Before'
<1> DEFINE q == [req[r] EXCEPT !.pc = pc]
<1>1. /\ q \in ReqState /\ q.pc = pc /\ q.acct = req[r].acct /\ q.tok = req[r].tok
      /\ q.late = req[r].late
  BY DEF PInv, Requests, ReqState
<1>2. req' = [req EXCEPT ![r] = q]
  OBVIOUS
<1>3. SoundReq(req[r])
  BY DEF PInv, Requests
<1> HIDE DEF q
<1>4. SoundReq(q)
  BY <1>1, <1>3 DEF SoundReq
<1> QED BY <1>1, <1>2, <1>4, ReqUpdate

\* What a request that arrives may begin with.
Beginnings(a, pc) ==
    {Begun(a, pc)} \cup {[Begun(a, pc) EXCEPT !.old = n] : n \in Nat}
                  \cup {[Begun(a, pc) EXCEPT !.seen = b] : b \in BOOLEAN}

\* A request that arrives, with what it has found out in its first step.
LEMMA BeginReq ==
  ASSUME PInv, NEW r \in Req, At(r, "idle"), NEW a \in Account,
         NEW pc \in PC \ {"cool", "send", "active", "commit", "del", "revoke"},
         NEW q \in Beginnings(a, pc),
         req' = [req EXCEPT ![r] = q], SessionsStay, CountsStay
  PROVE  Requests' /\ Budget' /\ Before'
<1>1. q \in ReqState /\ q.pc = pc /\ q.acct = a /\ q.late = FALSE
  <2> DEFINE b0 == Begun(a, pc)
  <2>1. b0 \in ReqState /\ b0.pc = pc /\ b0.acct = a /\ b0.late = FALSE
    BY DefaultReq DEF Begun, NoReq, ReqState, Owner
  <2> HIDE DEF b0
  <2>2. CASE q = b0
    BY <2>1, <2>2
  <2>3. ASSUME NEW n \in Nat, q = [b0 EXCEPT !.old = n]
        PROVE  q \in ReqState /\ q.pc = pc /\ q.acct = a /\ q.late = FALSE
    BY <2>1, <2>3 DEF ReqState
  <2>4. ASSUME NEW b \in BOOLEAN, q = [b0 EXCEPT !.seen = b]
        PROVE  q \in ReqState /\ q.pc = pc /\ q.acct = a /\ q.late = FALSE
    BY <2>1, <2>4 DEF ReqState
  <2> QED BY <2>2, <2>3, <2>4 DEF Beginnings, b0
<1>2. SoundReq(q)
  BY <1>1 DEF SoundReq
<1> QED BY <1>1, <1>2, ReqUpdate

\* Nothing else of the invariant depends on what a step leaves alone.
LEMMA Assemble ==
  ASSUME PInv, PlainTypes', Requests', Budget', Before', UNCHANGED <<token, sess, job, history>>
  PROVE  PInv'
<1>1. Tokens' /\ Revocations' /\ bad' = {}
  BY DEF PInv, Tokens, Revocations, history
<1> QED BY <1>1 DEF PInv

\* A step that changes neither sessions nor tokens keeps both.
LEMMA Stays ==
  ASSUME UNCHANGED <<token, sess, sets>>
  PROVE  SessionsStay /\ CountsStay
BY DEF SessionsStay, CountsStay

\* The initial state satisfies the invariant.
LEMMA PasswordsInitInv == PasswordsInit => PInv
<1> SUFFICES ASSUME PasswordsInit PROVE PInv
  OBVIOUS
<1>1. PlainTypes /\ bad = {}
  BY DEF PasswordsInit, PlainTypes
<1>2. Requests
  BY DefaultReq DEF PasswordsInit, Requests
<1>3. Tokens /\ \A t \in Token : token[t].attempts = 0
  <2>1. PICK a \in Owner :
           token = [t \in Token |-> IF a # NoAccount /\ t = FirstToken
                                    THEN [st |-> "live", acct |-> a, attempts |-> 0, mailed |-> TRUE]
                                    ELSE NoResetToken]
    BY DEF PasswordsInit
  <2>2. [st |-> "live", acct |-> a, attempts |-> 0, mailed |-> TRUE] \in TokenState
    BY PasswordsAssumption DEF TokenState
  <2>3. \A t \in Token : /\ token[t] \in TokenState /\ token[t].attempts = 0
                         /\ token[t].st = "live" => token[t].acct \in Account
    BY <2>1, <2>2, DefaultReq DEF Owner
  <2> QED BY <2>1, <2>3 DEF PasswordsInit, Tokens
<1>4. Budget
  <2>1. \A t \in Token : Users(t) = {}
    BY DefaultReq DEF PasswordsInit, Users
  <2>2. \A t \in Token : sets[t] = 0 /\ Cardinality(Users(t)) = 0
    BY <2>1, FS_EmptySet DEF PasswordsInit
  <2> QED BY <1>3, <2>2 DEF Budget
<1>5. Before
  BY DefaultReq DEF PasswordsInit, Before
<1>6. Revocations
  <2>1. PICK S \in SUBSET Session : \E f \in [S -> Account] :
           sess = [s \in Session |-> IF s \in S THEN [st |-> "indexed", acct |-> f[s]]
                                                ELSE [st |-> "none", acct |-> NoAccount]]
    BY DEF PasswordsInit
  <2>2. PICK f \in [S -> Account] :
           sess = [s \in Session |-> IF s \in S THEN [st |-> "indexed", acct |-> f[s]]
                                                ELSE [st |-> "none", acct |-> NoAccount]]
    BY <2>1
  <2>3. sess \in [Session -> SessionState] /\ \A s \in Session : sess[s].st # "orphan"
    BY <2>2 DEF SessionState, Owner
  <2> QED BY <2>3, DefaultReq DEF PasswordsInit, Revocations
<1> QED BY <1>1, <1>2, <1>3, <1>4, <1>5, <1>6 DEF PInv

-----------------------------------------------------------------------------
(* Requests that arrive.                                                   *)

\* A login that reads the account and verifies its password keeps the invariant.
LEMMA LoginPInv ==
  ASSUME PInv, NEW r \in Req, LoginByUsernamePassword(r)
  PROVE  PInv'
<1>1. PICK a \in Account, old \in Nat :
        /\ Arrive(r)
        /\ IF old = password[a] /\ a \in active
           THEN /\ req' = [req EXCEPT ![r] = [Begun(a, "session") EXCEPT !.old = old]]
                /\ UNCHANGED limited
           ELSE /\ limited' = limited \cup {a}
                /\ UNCHANGED req
        /\ UNCHANGED <<active, password, sess, access, token, cooldown>>
        /\ UNCHANGED <<job, life, stops, writes, history>>
  BY DEF LoginByUsernamePassword, PInv, PlainTypes
<1>2. PlainTypes'
  BY <1>1 DEF PInv, PlainTypes, Arrive
<1>3. SessionsStay /\ CountsStay
  BY <1>1, Stays DEF history
<1>4. Requests' /\ Budget' /\ Before'
  <2>1. CASE req' = [req EXCEPT ![r] = [Begun(a, "session") EXCEPT !.old = old]]
    <3>1. [Begun(a, "session") EXCEPT !.old = old] \in Beginnings(a, "session")
      BY DEF Beginnings
    <3> QED BY <1>1, <1>3, <2>1, <3>1, BeginReq DEF Arrive, PC
  <2>2. CASE UNCHANGED req
    BY <1>1, <2>2 DEF PInv, Requests, Budget, Users, Before, history
  <2> QED BY <1>1, <2>1, <2>2
<1> QED BY <1>1, <1>2, <1>4, Assemble

\* A request that only arrives: it begins with q, or is answered at once.
LEMMA ArrivePInv ==
  ASSUME PInv, NEW r \in Req, Arrive(r), NEW a \in Account,
         NEW pc \in PC \ {"cool", "send", "active", "commit", "del", "revoke"},
         NEW q \in Beginnings(a, pc),
         req' = [req EXCEPT ![r] = q] \/ Return(r),
         UNCHANGED <<store, job, life, stops, writes, history>>
  PROVE  PInv'
<1>1. SessionsStay /\ CountsStay
  BY Stays DEF store, history
<1>2. Requests' /\ Budget' /\ Before'
  BY <1>1, BeginReq, ReturnReq DEF Arrive
<1>3. PlainTypes'
  BY DEF PInv, PlainTypes, Arrive, store
<1> QED BY <1>2, <1>3, Assemble DEF store

\* RequestReset keeps the invariant.
LEMMA RequestResetPInv ==
  ASSUME PInv, NEW r \in Req, RequestReset(r)
  PROVE  PInv'
<1>1. PICK a \in Account :
        /\ Arrive(r)
        /\ req' = [req EXCEPT ![r] = IF a \in cooldown THEN NoReq ELSE Begun(a, "find")]
        /\ UNCHANGED <<store, job, life, stops, writes, history>>
  BY DEF RequestReset
<1>2. req' = [req EXCEPT ![r] = Begun(a, "find")] \/ Return(r)
  BY <1>1
<1>3. Begun(a, "find") \in Beginnings(a, "find")
  BY DEF Beginnings
<1> QED BY <1>1, <1>2, <1>3, ArrivePInv DEF PC

\* The first verification of the current password keeps the invariant.
LEMMA VerifyCurrentPInv ==
  ASSUME PInv, NEW r \in Req, VerifyCurrentPassword(r)
  PROVE  PInv'
<1>1. PICK a \in Account, old \in Nat :
        /\ Arrive(r)
        /\ req' = [req EXCEPT ![r] = IF old = FindPasswordCredential(a)
                                     THEN [Begun(a, "status") EXCEPT !.old = old]
                                     ELSE NoReq]
        /\ UNCHANGED <<store, job, life, stops, writes, history>>
  BY DEF VerifyCurrentPassword, PInv, PlainTypes
<1>2. req' = [req EXCEPT ![r] = [Begun(a, "status") EXCEPT !.old = old]] \/ Return(r)
  BY <1>1
<1>3. [Begun(a, "status") EXCEPT !.old = old] \in Beginnings(a, "status")
  BY DEF Beginnings
<1> QED BY <1>1, <1>2, <1>3, ArrivePInv DEF PC

\* AdminChangePassword keeps the invariant.
LEMMA AdminChangePInv ==
  ASSUME PInv, NEW r \in Req, AdminChangePassword(r)
  PROVE  PInv'
<1>1. PICK a \in Account :
        /\ Arrive(r)
        /\ req' = [req EXCEPT ![r] = IF a \in active THEN Begun(a, "update") ELSE NoReq]
        /\ UNCHANGED <<store, job, life, stops, writes, history>>
  BY DEF AdminChangePassword
<1>2. req' = [req EXCEPT ![r] = Begun(a, "update")] \/ Return(r)
  BY <1>1
<1>3. Begun(a, "update") \in Beginnings(a, "update")
  BY DEF Beginnings
<1> QED BY <1>1, <1>2, <1>3, ArrivePInv DEF PC

\* UpdateProfile keeps the invariant.
LEMMA UpdateProfilePInv ==
  ASSUME PInv, NEW r \in Req, UpdateProfile(r)
  PROVE  PInv'
<1>1. PICK a \in Account :
        /\ Arrive(r)
        /\ req' = [req EXCEPT ![r] = [Begun(a, "reread") EXCEPT !.seen = a \in active]]
        /\ UNCHANGED <<store, job, life, stops, writes, history>>
  BY DEF UpdateProfile
<1>2. [Begun(a, "reread") EXCEPT !.seen = a \in active] \in Beginnings(a, "reread")
  <2>1. ASSUME NEW b \in BOOLEAN
        PROVE  [Begun(a, "reread") EXCEPT !.seen = b] \in Beginnings(a, "reread")
    BY DEF Beginnings
  <2>2. (a \in active) \in BOOLEAN
    OBVIOUS
  <2> QED BY <2>1, <2>2, Zenon
<1> QED BY <1>1, <1>2, ArrivePInv DEF PC

\* What a write of an account row does to the requests.
LEMMA MovedReqs ==
  ASSUME NEW a, NEW q \in [Req -> ReqState]
  PROVE  /\ Moved(a, q) \in [Req -> ReqState]
         /\ \A d \in Req : Alike(Moved(a, q)[d], q[d])
BY DEF Moved, ReqState, Alike

\* A suspension has to revoke the sessions that the account has at this moment.
LEMMA SuspendPInv ==
  ASSUME PInv, NEW r \in Req, SuspendAccount(r)
  PROVE  PInv'
<1> DEFINE begun(a) == [Begun(a, "revoke") EXCEPT !.before = SessionsOf(a)]
<1>1. PICK a \in Account :
        /\ Arrive(r)
        /\ IF a \in active
           THEN /\ active' = active \ {a}
                /\ req' = Moved(a, [req EXCEPT ![r] = begun(a)])
           ELSE UNCHANGED <<active, req>>
        /\ UNCHANGED <<password, sess, access, token, cooldown, limited>>
        /\ UNCHANGED <<job, life, stops, writes, history>>
  BY DEF SuspendAccount
<1>2. SessionsStay /\ CountsStay
  BY <1>1, Stays DEF history
<1>3. PlainTypes'
  BY <1>1 DEF PInv, PlainTypes, Arrive
<1>4. Requests' /\ Budget' /\ Before'
  <2>1. CASE req' = Moved(a, [req EXCEPT ![r] = begun(a)])
    <3> DEFINE q == begun(a)
               next == [req EXCEPT ![r] = q]
    <3>1. /\ q \in ReqState /\ q.pc = "revoke" /\ q.acct = a /\ q.late = FALSE
          /\ q.before = SessionsOf(a)
      BY DefaultReq DEF Begun, NoReq, ReqState, Owner, PC, SessionsOf
    <3> HIDE DEF begun
    <3>2. SoundReq(q)
      BY <3>1 DEF SoundReq
    <3>3. next \in [Req -> ReqState] /\ \A d \in Req : next[d] = IF d = r THEN q ELSE req[d]
      BY <3>1 DEF PInv, Requests
    <3> HIDE DEF next
    <3>4. req' \in [Req -> ReqState] /\ \A d \in Req : Alike(req'[d], next[d])
      BY <2>1, <3>3, MovedReqs DEF next
    <3>5. \A d \in Req : Alike(req'[d], IF d = r THEN q ELSE req[d])
      BY <3>3, <3>4
    <3>6. \A s \in q.before : sess'[s].st # "none" /\ sess'[s].acct = q.acct
      BY <1>1, <3>1 DEF SessionsOf
    <3> HIDE DEF q
    <3> QED BY <1>2, <3>1, <3>2, <3>4, <3>5, <3>6, ReqsUpdate
  <2>2. CASE UNCHANGED req
    BY <1>1, <2>2 DEF PInv, Requests, Budget, Users, Before, history
  <2> QED BY <1>1, <2>1, <2>2
<1> QED BY <1>1, <1>3, <1>4, Assemble

\* Rewriting an account row leaves the requests sound.
LEMMA MovedKeeps ==
  ASSUME PInv, NEW a, req' = Moved(a, req), SessionsStay, CountsStay
  PROVE  Requests' /\ Budget' /\ Before'
<1>1. CASE Req = {}
  <2>1. \A t \in Token : Users(t)' \subseteq Users(t)
    BY <1>1 DEF Users
  <2>2. Budget'
    BY <2>1, BudgetStays DEF PInv
  <2>3. req' \in [Req -> ReqState]
    BY MovedReqs DEF PInv, Requests
  <2> QED BY <1>1, <2>2, <2>3 DEF Requests, Before
<1>2. ASSUME NEW r \in Req PROVE Requests' /\ Budget' /\ Before'
  <2>1. /\ req \in [Req -> ReqState] /\ SoundReq(req[r]) /\ req[r] \in ReqState
        /\ req' \in [Req -> ReqState] /\ \A d \in Req : Alike(req'[d], req[d])
    BY MovedReqs DEF PInv, Requests
  <2>2. \A t \in Token : Users(t)' \subseteq Users(t)
    BY <2>1 DEF Users, Alike
  <2>3. Budget'
    BY <2>2, BudgetStays DEF PInv
  <2>4. Requests'
    BY <2>1 DEF PInv, Requests, Alike, SoundReq
  <2>5. Before'
    BY <2>1 DEF PInv, Before, Alike, SessionsStay, ReqState
  <2> QED BY <2>3, <2>4, <2>5
<1> QED BY <1>1, <1>2

\* ActivateAccount keeps the invariant.
LEMMA ActivatePInv ==
  ASSUME PInv, NEW r \in Req, ActivateAccount(r)
  PROVE  PInv'
<1>1. PICK a \in Account :
        /\ Arrive(r)
        /\ active' = active \cup {a}
        /\ req' = Moved(a, req)
        /\ UNCHANGED <<password, sess, access, token, cooldown, limited>>
        /\ UNCHANGED <<job, life, stops, writes, history>>
  BY DEF ActivateAccount
<1>2. SessionsStay /\ CountsStay
  BY <1>1, Stays DEF history
<1>3. Requests' /\ Budget' /\ Before'
  BY <1>1, <1>2, MovedKeeps
<1>4. PlainTypes'
  BY <1>1 DEF PInv, PlainTypes, Arrive
<1> QED BY <1>1, <1>3, <1>4, Assemble

\* Deleting a token loses nothing.
LEMMA TokenGone ==
  ASSUME PInv, NEW t \in Token, token' = [token EXCEPT ![t].st = "gone"],
         sets' = sets, spent' \subseteq spent \cup {t}
  PROVE  Tokens' /\ CountsStay
<1> DEFINE deleted == [token[t] EXCEPT !.st = "gone"]
<1>1. token \in [Token -> TokenState] /\ token[t] \in TokenState
  BY DEF PInv, Tokens
<1>2. /\ deleted \in TokenState /\ deleted.st = "gone"
      /\ deleted.attempts = token[t].attempts
  BY <1>1 DEF TokenState
<1>3. token' = [token EXCEPT ![t] = deleted]
  OBVIOUS
<1> HIDE DEF deleted
<1>4. \A u \in Token : token'[u] = IF u = t THEN deleted ELSE token[u]
  BY <1>1, <1>3
<1> QED BY <1>1, <1>2, <1>3, <1>4 DEF PInv, Tokens, CountsStay

\* One more attempt is counted when a request begins to use a token, before it does so.
LEMMA VerifyAndResetPInv ==
  ASSUME PInv, NEW r \in Req, VerifyAndReset(r)
  PROVE  PInv'
<1> DEFINE begun(t) == [Begun(token[t].acct, "active") EXCEPT !.tok = t, !.late = t \in spent]
<1>1. PICK t \in Token :
        /\ Arrive(r)
        /\ checkAndIncrementAttempts(t)
        /\ req' = [req EXCEPT ![r] = IF token[t].st = "live" /\ ~Exhausted(t)
                                     THEN begun(t) ELSE NoReq]
        /\ UNCHANGED <<active, password, sess, access, cooldown, limited>>
        /\ UNCHANGED <<job, life, stops, writes, history>>
  BY DEF VerifyAndReset
<1>2. PlainTypes'
  BY <1>1 DEF PInv, PlainTypes, Arrive
<1>3. Revocations' /\ bad' = {} /\ SessionsStay
  BY <1>1 DEF PInv, Revocations, history, SessionsStay
<1>4. token[t] \in TokenState /\ token \in [Token -> TokenState]
  BY DEF PInv, Tokens
<1>5. CASE token[t].st = "live" /\ ~Exhausted(t)
  <2> DEFINE n == token[t].attempts
             q == begun(t)
             counted == [token[t] EXCEPT !.attempts = n + 1]
  <2>1. /\ n \in Nat /\ n + 1 \in 0..MaxAttempts
    BY <1>4, <1>5, PasswordsAssumption DEF Exhausted, TokenState
  <2>2. /\ counted \in TokenState /\ counted.attempts = n + 1
        /\ counted.st = token[t].st /\ counted.acct = token[t].acct
    BY <1>4, <2>1 DEF TokenState
  <2>3. token' = [token EXCEPT ![t] = counted]
    BY <1>1, <1>5 DEF checkAndIncrementAttempts
  <2> HIDE DEF counted
  <2>4. \A u \in Token : token'[u] = IF u = t THEN counted ELSE token[u]
    BY <2>3, <1>4
  <2>5. Tokens' /\ t \notin spent
    BY <1>1, <1>4, <1>5, <2>2, <2>3, <2>4 DEF PInv, Tokens, history
  <2>6. token[t].acct \in Account
    BY <1>5 DEF PInv, Tokens
  <2>7. /\ q \in ReqState /\ q.pc = "active" /\ q.acct = token[t].acct /\ q.tok = t
        /\ q.late = FALSE
    <3>1. (t \in spent) = FALSE
      BY <2>5
    <3>2. q = [Begun(token[t].acct, "active") EXCEPT !.tok = t, !.late = FALSE]
      BY <3>1, Zenon
    <3> QED BY <2>6, <3>2, DefaultReq DEF Begun, NoReq, ReqState, Owner, PC
  <2>8. req' = [req EXCEPT ![r] = q]
    BY <1>1, <1>5
  <2> HIDE DEF q, begun
  <2>9. /\ req' \in [Req -> ReqState] /\ At(r, "idle")
        /\ \A d \in Req : req'[d] = IF d = r THEN q ELSE req[d]
    BY <1>1, <2>7, <2>8 DEF PInv, Requests, Arrive
  <2>10. Requests'
    BY <2>6, <2>7, <2>9 DEF PInv, Requests, SoundReq
  <2>11. Before'
    BY <1>1, <2>7, <2>9 DEF PInv, Before
  <2>12. Budget'
    <3> SUFFICES ASSUME NEW u \in Token
                 PROVE  sets'[u] + Cardinality(Users(u)') <= token'[u].attempts
      BY DEF Budget
    <3>1. /\ sets' = sets /\ sets[u] \in Nat /\ token[u].attempts \in Nat
          /\ sets[u] + Cardinality(Users(u)) <= token[u].attempts
          /\ Users(u) \subseteq Req
      BY <1>1, PasswordsAssumption DEF PInv, Tokens, Budget, TokenState, history, Users
    <3>2. CASE u = t
      <4>1. Users(u)' = Users(u) \cup {r} /\ r \notin Users(u)
        BY <2>7, <2>9, <3>2 DEF Users
      <4>2. IsFiniteSet(Users(u)) /\ Cardinality(Users(u)) \in Nat
        BY <3>1, FiniteRequests
      <4>3. Cardinality(Users(u)') = Cardinality(Users(u)) + 1
        BY <4>1, <4>2, FS_AddElement
      <4>4. token'[u].attempts = token[u].attempts + 1
        BY <2>2, <2>4, <3>2
      <4> HIDE DEF Users
      <4> QED BY <3>1, <4>2, <4>3, <4>4
    <3>3. CASE u # t
      <4>1. Users(u)' = Users(u) /\ token'[u] = token[u]
        BY <2>4, <2>7, <2>9, <3>3 DEF Users
      <4> QED BY <3>1, <4>1
    <3> QED BY <3>2, <3>3
  <2> QED BY <1>2, <1>3, <2>5, <2>10, <2>11, <2>12 DEF PInv
<1>6. CASE ~(token[t].st = "live" /\ ~Exhausted(t))
  <2>1. Return(r)
    BY <1>1, <1>6
  <2>2. token' = token \/ token' = [token EXCEPT ![t].st = "gone"]
    BY <1>1, <1>6 DEF checkAndIncrementAttempts
  <2>3. Tokens' /\ CountsStay
    <3>1. CASE token' = token
      BY <1>1, <3>1 DEF PInv, Tokens, CountsStay, history
    <3>2. CASE token' = [token EXCEPT ![t].st = "gone"]
      BY <1>1, <3>2, TokenGone DEF history
    <3> QED BY <2>2, <3>1, <3>2
  <2> QED BY <1>2, <1>3, <2>1, <2>3, ReturnReq DEF PInv
<1> QED BY <1>5, <1>6

\* Every arrival keeps the invariant.
LEMMA ArrivalPInv ==
  ASSUME PInv, NEW r \in Req, Arrival(r)
  PROVE  PInv'
BY LoginPInv, RequestResetPInv, VerifyAndResetPInv, VerifyCurrentPInv, AdminChangePInv,
   SuspendPInv, ActivatePInv, UpdateProfilePInv DEF Arrival

-----------------------------------------------------------------------------
(* Requests under way.                                                     *)

\* Steps that change neither tokens, sessions nor jobs, and send their request on or home.
LEMMA PlainStepPInv ==
  ASSUME PInv, NEW r \in Req,
         FindActiveAccount(r) \/ SetCooldown(r) \/ CheckAccountActive(r)
           \/ ClearLoginRateLimitsByUsername(r) \/ ChangePassword(r) \/ Fail(r)
  PROVE  PInv'
<1>1. UNCHANGED <<token, sess, job, history>> /\ PlainTypes' /\ SessionsStay /\ CountsStay
  <2>1. UNCHANGED <<token, sess, job, history>> /\ ~At(r, "idle")
    BY DEF FindActiveAccount, SetCooldown, CheckAccountActive, ClearLoginRateLimitsByUsername,
           ChangePassword, Fail, store
  <2>2. req[r].acct \in Account
    BY <2>1 DEF PInv, Requests, SoundReq
  <2>3. PlainTypes'
    BY <2>2 DEF PInv, PlainTypes, FindActiveAccount, SetCooldown, CheckAccountActive,
                ClearLoginRateLimitsByUsername, ChangePassword, Fail, store
  <2> QED BY <2>1, <2>3, Stays DEF history
<1>2. Requests' /\ Budget' /\ Before'
  <2>0. SoundReq(req[r])
    BY DEF PInv, Requests
  <2>1. CASE Return(r)
    BY <1>1, <2>1, ReturnReq
  <2>2. CASE At(r, "find") /\ Goto(r, "store")
    BY <1>1, <2>2, GotoReq DEF PC
  <2>3. CASE At(r, "cool") /\ Goto(r, "send")
    BY <1>1, <2>0, <2>3, GotoReq DEF PC, SoundReq
  <2>4. CASE At(r, "active") /\ Goto(r, "commit")
    BY <1>1, <2>0, <2>4, GotoReq DEF PC, SoundReq
  <2>5. CASE At(r, "limits") /\ Goto(r, "mark")
    BY <1>1, <2>5, GotoReq DEF PC
  <2>6. CASE At(r, "status") /\ Goto(r, "verify")
    BY <1>1, <2>6, GotoReq DEF PC
  <2> HIDE DEF At, Goto, Return
  <2> QED BY <2>1, <2>2, <2>3, <2>4, <2>5, <2>6
          DEF FindActiveAccount, SetCooldown, CheckAccountActive,
              ClearLoginRateLimitsByUsername, ChangePassword, Fail
<1> QED BY <1>1, <1>2, Assemble

\* A new session is one that was not there.
LEMMA CreateSessionPInv ==
  ASSUME PInv, NEW r \in Req, createSessionAndTokens(r)
  PROVE  PInv'
<1> DEFINE opened == [st |-> "indexed", acct |-> req[r].acct]
<1>1. PICK s \in Session : /\ sess[s].st = "none"
                           /\ sess' = [sess EXCEPT ![s] = opened]
                           /\ access' = access \cup {s}
  BY DEF createSessionAndTokens
<1>2. opened \in SessionState /\ opened.st = "indexed"
  BY DEF SessionState, PInv, Requests, ReqState
<1> HIDE DEF opened
<1>3. /\ sess' \in [Session -> SessionState]
      /\ \A u \in Session : sess'[u] = IF u = s THEN opened ELSE sess[u]
  BY <1>1, <1>2 DEF PInv, Revocations
<1>4. /\ UNCHANGED <<active, password, token, cooldown>> /\ Return(r)
      /\ UNCHANGED <<job, life, asked, stops, writes, history>>
      /\ limited' = limited \ {req[r].acct}
  BY DEF createSessionAndTokens
<1>5. Revocations' /\ SessionsStay
  BY <1>1, <1>2, <1>3, <1>4 DEF PInv, Revocations, SessionsStay, history
<1>6. Tokens' /\ CountsStay /\ bad' = {}
  BY <1>4 DEF PInv, Tokens, CountsStay, history
<1>7. PlainTypes'
  BY <1>1, <1>4 DEF PInv, PlainTypes
<1> QED BY <1>4, <1>5, <1>6, <1>7, ReturnReq DEF PInv

\* A token is stored under a hash that no token had before.
LEMMA StoreTokenPInv ==
  ASSUME PInv, NEW r \in Req, StoreToken(r)
  PROVE  PInv'
<1> DEFINE unused == {x \in Token : token[x].st = "none"}
           t == CHOOSE x \in unused : TRUE
           q == [req[r] EXCEPT !.tok = t, !.pc = "cool"]
           stored == [token[t] EXCEPT !.st = "live", !.acct = req[r].acct]
<1>1. /\ At(r, "store") /\ unused # {}
      /\ token' = [token EXCEPT ![t].st = "live", ![t].acct = req[r].acct]
      /\ req' = [req EXCEPT ![r].tok = t, ![r].pc = "cool"]
      /\ UNCHANGED <<active, password, sess, access, cooldown, limited>>
      /\ UNCHANGED <<job, life, asked, stops, writes, history>>
  BY DEF StoreToken
<1>2. t \in Token /\ token[t].st = "none"
  <2>1. t \in unused
    BY <1>1
  <2> QED BY <2>1
<1> HIDE DEF t
<1>3. /\ req[r] \in ReqState /\ req[r].acct \in Account /\ req[r].late = FALSE
      /\ token \in [Token -> TokenState] /\ token[t] \in TokenState
  BY <1>1, <1>2 DEF PInv, Requests, SoundReq, ReqState, Tokens
<1>4. /\ q \in ReqState /\ q.pc = "cool" /\ q.tok = t /\ q.acct = req[r].acct /\ q.late = FALSE
      /\ req' = [req EXCEPT ![r] = q]
  BY <1>1, <1>2, <1>3 DEF ReqState, PC
<1>5. /\ stored \in TokenState /\ stored.attempts = token[t].attempts
      /\ stored.acct = req[r].acct /\ token' = [token EXCEPT ![t] = stored]
  BY <1>1, <1>3 DEF TokenState, Owner
<1> HIDE DEF q, stored
<1>6. \A u \in Token : token'[u] = IF u = t THEN stored ELSE token[u]
  BY <1>3, <1>5
<1>7. Tokens' /\ CountsStay
  BY <1>1, <1>2, <1>3, <1>5, <1>6 DEF PInv, Tokens, CountsStay, history
<1>8. Revocations' /\ SessionsStay /\ PlainTypes' /\ bad' = {}
  BY <1>1 DEF PInv, Revocations, SessionsStay, PlainTypes, history
<1>9. SoundReq(q)
  BY <1>2, <1>3, <1>4 DEF SoundReq
<1> QED BY <1>4, <1>7, <1>8, <1>9, ReqUpdate DEF PInv

\* Sending the link marks the token as known to its owner.
LEMMA SendLinkPInv ==
  ASSUME PInv, NEW r \in Req, SendPasswordResetLink(r)
  PROVE  PInv'
<1>1. /\ At(r, "send") /\ Return(r)
      /\ token' = [token EXCEPT ![req[r].tok].mailed = TRUE]
      /\ UNCHANGED <<active, password, sess, access, cooldown, limited>>
      /\ UNCHANGED <<job, life, asked, stops, writes, history>>
  BY DEF SendPasswordResetLink
<1>2. PICK t \in Token : t = req[r].tok
  BY <1>1 DEF PInv, Requests, SoundReq
<1> DEFINE mailed == [token[t] EXCEPT !.mailed = TRUE]
<1>3. /\ token \in [Token -> TokenState] /\ mailed \in TokenState
      /\ mailed.attempts = token[t].attempts /\ mailed.st = token[t].st
      /\ mailed.acct = token[t].acct
  BY DEF PInv, Tokens, TokenState
<1>4. token' = [token EXCEPT ![t] = mailed]
  BY <1>1, <1>2
<1> HIDE DEF mailed
<1>5. \A u \in Token : token'[u] = IF u = t THEN mailed ELSE token[u]
  BY <1>3, <1>4
<1>6. Tokens' /\ CountsStay
  BY <1>1, <1>3, <1>4, <1>5 DEF PInv, Tokens, CountsStay, history
<1>7. Revocations' /\ SessionsStay /\ PlainTypes' /\ bad' = {}
  BY <1>1 DEF PInv, Revocations, SessionsStay, PlainTypes, history
<1> QED BY <1>1, <1>6, <1>7, ReturnReq DEF PInv

\* What a change of the password makes of its request.
LEMMA SetPasswordReq ==
  ASSUME PInv, NEW r \in Req, ~At(r, "idle"), NEW pc \in {"del", "revoke"}, SetPassword(r, pc),
         pc = "del" => req[r].tok \in Token, UNCHANGED sess
  PROVE  /\ writes' \in Nat /\ password' \in [Account -> Nat]
         /\ \E q \in ReqState :
              /\ req' = [req EXCEPT ![r] = q] /\ SoundReq(q) /\ q.pc = pc
              /\ \A s \in q.before : sess'[s].st # "none" /\ sess'[s].acct = q.acct
<1> DEFINE a == req[r].acct
           q == [req[r] EXCEPT !.pc = pc, !.before = SessionsOf(a)]
<1>1. req[r] \in ReqState /\ SoundReq(req[r]) /\ writes \in Nat /\ a \in Account
  BY DEF PInv, Requests, SoundReq, PlainTypes
<1>2. /\ q \in ReqState /\ q.pc = pc /\ q.acct = a /\ q.before = SessionsOf(a)
      /\ q.tok = req[r].tok /\ q.late = req[r].late
  BY <1>1 DEF ReqState, PC, SessionsOf
<1>3. req' = [req EXCEPT ![r] = q]
  BY DEF SetPassword
<1>4. writes' \in Nat /\ password' \in [Account -> Nat]
  BY <1>1 DEF SetPassword, PInv, PlainTypes
<1> HIDE DEF q
<1>5. SoundReq(q)
  BY <1>1, <1>2 DEF SoundReq
<1>6. \A s \in q.before : sess'[s].st # "none" /\ sess'[s].acct = q.acct
  BY <1>2 DEF SessionsOf
<1> QED BY <1>2, <1>3, <1>4, <1>5, <1>6

\* A reset uses one of the attempts that were counted for its token.
LEMMA ResetCommitPInv ==
  ASSUME PInv, NEW r \in Req, ResetCommit(r)
  PROVE  PInv'
<1>1. /\ At(r, "commit") /\ SetPassword(r, "del")
      /\ sets' = [sets EXCEPT ![req[r].tok] = @ + 1]
      /\ UNCHANGED <<active, sess, access, token, cooldown, limited>>
      /\ UNCHANGED <<job, life, asked, stops, spent, gone, owed, lost>>
  BY DEF ResetCommit
<1>2. /\ req[r].late = FALSE /\ req[r].tok \in Token
  BY <1>1 DEF PInv, Requests, SoundReq, ReqState
<1>3. bad' = {}
  BY <1>2 DEF ResetCommit, PInv
<1>4. PICK t \in Token : t = req[r].tok
  BY <1>2
<1>5. /\ writes' \in Nat /\ password' \in [Account -> Nat]
      /\ \E q \in ReqState :
           /\ req' = [req EXCEPT ![r] = q] /\ SoundReq(q) /\ q.pc = "del"
           /\ \A s \in q.before : sess'[s].st # "none" /\ sess'[s].acct = q.acct
  BY <1>1, <1>2, SetPasswordReq
<1>6. PICK q \in ReqState : req' = [req EXCEPT ![r] = q] /\ SoundReq(q) /\ q.pc = "del"
  BY <1>5
<1>7. PlainTypes'
  BY <1>1, <1>5 DEF PInv, PlainTypes
<1>8. Revocations'
  BY <1>1 DEF PInv, Revocations
<1>9. /\ sets \in [Token -> Nat] /\ sets' \in [Token -> Nat]
      /\ \A u \in Token : sets'[u] = IF u = t THEN sets[u] + 1 ELSE sets[u]
  BY <1>1, <1>4 DEF PInv, Tokens
<1>10. Tokens'
  BY <1>1, <1>9 DEF PInv, Tokens
<1>11. req' \in [Req -> ReqState] /\ \A d \in Req : req'[d] = IF d = r THEN q ELSE req[d]
  BY <1>6 DEF PInv, Requests
<1>12. Requests'
  BY <1>6, <1>11 DEF PInv, Requests
<1>13. Before'
  BY <1>1, <1>6, <1>11 DEF PInv, Before
<1>14. Budget'
  <2> SUFFICES ASSUME NEW u \in Token
               PROVE  sets'[u] + Cardinality(Users(u)') <= token'[u].attempts
    BY DEF Budget
  <2>1. /\ sets[u] \in Nat /\ token[u].attempts \in Nat /\ token' = token
        /\ sets[u] + Cardinality(Users(u)) <= token[u].attempts
        /\ Users(u) \subseteq Req
    BY <1>1, PasswordsAssumption DEF PInv, Tokens, Budget, TokenState, Users
  <2>2. IsFiniteSet(Users(u)) /\ Cardinality(Users(u)) \in Nat
    BY <2>1, FiniteRequests
  <2>3. CASE u = t
    <3>1. Users(u)' = Users(u) \ {r} /\ r \in Users(u)
      BY <1>1, <1>4, <1>6, <1>11, <2>3 DEF Users
    <3>2. Cardinality(Users(u)') = Cardinality(Users(u)) - 1
      BY <2>2, <3>1, FS_RemoveElement
    <3> HIDE DEF Users
    <3> QED BY <1>9, <2>1, <2>2, <2>3, <3>2
  <2>4. CASE u # t
    <3>1. Users(u)' = Users(u)
      BY <1>1, <1>4, <1>6, <1>11, <2>4 DEF Users
    <3> QED BY <1>9, <2>1, <2>4, <3>1
  <2> QED BY <2>3, <2>4
<1> QED BY <1>3, <1>7, <1>8, <1>10, <1>12, <1>13, <1>14 DEF PInv

\* A token that a reset answers success for is deleted by then.
LEMMA DelTokenPInv ==
  ASSUME PInv, NEW r \in Req, DelToken(r)
  PROVE  PInv'
<1>1. /\ At(r, "del") /\ token' = [token EXCEPT ![req[r].tok].st = "gone"]
      /\ Goto(r, "limits") \/ Return(r)
      /\ spent' \subseteq spent \cup {req[r].tok}
      /\ UNCHANGED <<active, password, sess, access, cooldown, limited>>
      /\ UNCHANGED <<job, life, asked, stops, writes, sets, bad, gone, owed, lost>>
  BY DEF DelToken
<1>2. req[r].tok \in Token
  BY <1>1 DEF PInv, Requests, SoundReq
<1>3. Tokens' /\ CountsStay
  BY <1>1, <1>2, TokenGone
<1>4. Revocations' /\ SessionsStay /\ PlainTypes' /\ bad' = {}
  BY <1>1 DEF PInv, Revocations, SessionsStay, PlainTypes
<1>5. Requests' /\ Budget' /\ Before'
  <2>1. CASE Goto(r, "limits")
    BY <1>1, <1>3, <1>4, <2>1, GotoReq DEF PC
  <2>2. CASE Return(r)
    BY <1>3, <1>4, <2>2, ReturnReq
  <2> QED BY <1>1, <2>1, <2>2
<1> QED BY <1>3, <1>4, <1>5 DEF PInv

\* A change answers for the password that its user proved.
LEMMA ChangeCommitPInv ==
  ASSUME PInv, NEW r \in Req, ChangeCommit(r) \/ AdminChangeCommit(r)
  PROVE  PInv'
<1>1. /\ ~At(r, "idle")
      /\ UNCHANGED <<active, sess, access, token, cooldown, limited>>
      /\ UNCHANGED <<job, life, asked, stops, spent, sets, gone, owed, lost>>
      /\ SetPassword(r, "revoke") \/ (Return(r) /\ UNCHANGED <<password, writes>>)
  BY DEF ChangeCommit, AdminChangeCommit, history
<1>2. bad' = {}
  BY DEF ChangeCommit, AdminChangeCommit, VerifyPassword, FindPasswordCredential, PInv, history
<1>3. Tokens' /\ CountsStay /\ Revocations' /\ SessionsStay
  BY <1>1 DEF PInv, Tokens, CountsStay, Revocations, SessionsStay
<1>4. Requests' /\ Budget' /\ Before' /\ writes' \in Nat /\ password' \in [Account -> Nat]
  <2>1. CASE SetPassword(r, "revoke")
    <3>1. /\ writes' \in Nat /\ password' \in [Account -> Nat]
          /\ \E q \in ReqState :
               /\ req' = [req EXCEPT ![r] = q] /\ SoundReq(q) /\ q.pc = "revoke"
               /\ \A s \in q.before : sess'[s].st # "none" /\ sess'[s].acct = q.acct
      BY <1>1, <2>1, SetPasswordReq
    <3> QED BY <1>3, <3>1, ReqUpdate
  <2>2. CASE Return(r) /\ UNCHANGED <<password, writes>>
    BY <1>3, <2>2, ReturnReq DEF PInv, PlainTypes
  <2> QED BY <1>1, <2>1, <2>2
<1>5. PlainTypes'
  BY <1>1, <1>4 DEF PInv, PlainTypes
<1> QED BY <1>2, <1>3, <1>4, <1>5 DEF PInv

\* UpdateAccount and its write keep the invariant.
LEMMA UpdateAccountPInv ==
  ASSUME PInv, NEW r \in Req, UpdateAccount(r) \/ UpdateAccountRow(r)
  PROVE  PInv'
<1>1. /\ ~At(r, "idle") /\ UNCHANGED <<password, sess, access, token, cooldown, limited>>
      /\ UNCHANGED <<job, life, asked, stops, writes, history>>
      /\ active' \in {active, active \cup {req[r].acct}, active \ {req[r].acct}}
  BY DEF UpdateAccount, UpdateAccountRow, store
<1>2. req[r].acct \in Account /\ req[r] \in ReqState /\ SoundReq(req[r])
      /\ req \in [Req -> ReqState]
  BY <1>1 DEF PInv, Requests, SoundReq
<1>3. PlainTypes'
  BY <1>1, <1>2 DEF PInv, PlainTypes
<1>4. SessionsStay /\ CountsStay
  BY <1>1, Stays DEF history
<1>5. Requests' /\ Budget' /\ Before'
  <2>1. CASE UpdateAccount(r)
    <3> DEFINE q == [req[r] EXCEPT !.pc = "write", !.moved = FALSE]
    <3>1. /\ q \in ReqState /\ q.pc = "write" /\ q.acct = req[r].acct /\ q.late = req[r].late
          /\ req' = [req EXCEPT ![r] = q]
      BY <1>2, <2>1 DEF UpdateAccount, ReqState, PC
    <3> HIDE DEF q
    <3>2. SoundReq(q)
      BY <1>2, <3>1 DEF SoundReq
    <3> QED BY <1>4, <3>1, <3>2, ReqUpdate
  <2>2. CASE UpdateAccountRow(r)
    <3> DEFINE next == IF req[r].moved THEN req ELSE Moved(req[r].acct, req)
    <3>1. next \in [Req -> ReqState] /\ \A d \in Req : Alike(next[d], req[d])
      BY <1>2, MovedReqs DEF Alike
    <3>2. req' = [next EXCEPT ![r] = NoReq]
      BY <2>2 DEF UpdateAccountRow
    <3> HIDE DEF next
    <3>3. /\ req' \in [Req -> ReqState]
          /\ \A d \in Req : Alike(req'[d], IF d = r THEN NoReq ELSE req[d])
      BY <3>1, <3>2, DefaultReq DEF Alike
    <3> QED BY <1>4, <3>3, DefaultReq, ReqsUpdate
  <2> QED BY <2>1, <2>2
<1> QED BY <1>1, <1>3, <1>5, Assemble

-----------------------------------------------------------------------------
(* Revocations.                                                            *)

\* What RevokeAllForAccount does to the sessions, whether it fails or not.
LEMMA RevokeAllEffect ==
  ASSUME PInv, NEW a, RevokeAll(a) \/ RevokeAllFails(a)
  PROVE  /\ sess' \in [Session -> SessionState] /\ access' \subseteq Session /\ SessionsStay
         /\ \A s \in Session \ SessionsOf(a) : sess'[s] = sess[s]
         /\ \A s \in SessionsOf(a) : sess'[s].st \in {"indexed", "orphan", "gone"}
         /\ RevokeAll(a) => \A s \in SessionsOf(a) : sess'[s].st = "gone"
<1> DEFINE put(x) == [s \in Session |-> IF s \in SessionsOf(a) THEN [sess[s] EXCEPT !.st = x]
                                                              ELSE sess[s]]
<1>1. sess \in [Session -> SessionState] /\ access \subseteq Session
      /\ SessionsOf(a) \subseteq Session /\ \A s \in SessionsOf(a) : sess[s].st = "indexed"
  BY DEF PInv, Revocations, PlainTypes, SessionsOf
<1>2. access' \subseteq Session
  BY <1>1 DEF RevokeAll, RevokeAllFails
<1>3. ASSUME NEW x \in {"gone", "orphan"}, sess' = put(x)
      PROVE  /\ sess' \in [Session -> SessionState]
             /\ \A s \in Session \ SessionsOf(a) : sess'[s] = sess[s]
             /\ \A s \in SessionsOf(a) : sess'[s].st = x /\ sess'[s].acct = sess[s].acct
  BY <1>1, <1>3 DEF SessionState
<1>4. CASE RevokeAll(a)
  <2>1. sess' = put("gone")
    BY <1>4 DEF RevokeAll
  <2> HIDE DEF put
  <2> QED BY <1>1, <1>2, <1>3, <2>1 DEF SessionsStay
<1>5. CASE sess' = put("orphan") /\ ~RevokeAll(a)
  <2> HIDE DEF put
  <2> QED BY <1>1, <1>2, <1>3, <1>5 DEF SessionsStay
<1>6. CASE UNCHANGED sess /\ ~RevokeAll(a)
  BY <1>1, <1>2, <1>6 DEF SessionsStay
<1> QED BY <1>4, <1>5, <1>6 DEF RevokeAllFails

\* A revocation within the request: what it may have dropped from the index is lost.
LEMMA RevokeWithinPInv ==
  ASSUME PInv, NEW r \in Req, NEW a, Return(r),
         \/ RevokeAll(a) /\ UNCHANGED lost
         \/ RevokeAllFails(a) /\ lost' = lost \cup SessionsOf(a),
         owed' \subseteq Session, gone' \subseteq Session,
         \A s \in gone' \ gone : sess'[s].st \in {"gone", "orphan"},
         UNCHANGED <<active, password, token, cooldown, limited>>,
         UNCHANGED <<job, life, asked, stops, writes, spent, sets, bad>>
  PROVE  PInv'
<1>1. /\ sess' \in [Session -> SessionState] /\ access' \subseteq Session /\ SessionsStay
      /\ \A s \in Session \ SessionsOf(a) : sess'[s] = sess[s]
      /\ \A s \in SessionsOf(a) : sess'[s].st \in {"indexed", "orphan", "gone"}
      /\ RevokeAll(a) => \A s \in SessionsOf(a) : sess'[s].st = "gone"
  BY RevokeAllEffect
<1>2. SessionsOf(a) \subseteq Session /\ \A s \in SessionsOf(a) : sess[s].st = "indexed"
  BY DEF SessionsOf
<1>3. Tokens' /\ CountsStay /\ bad' = {}
  BY DEF PInv, Tokens, CountsStay
<1>4. PlainTypes'
  BY <1>1 DEF PInv, PlainTypes
<1>5. Revocations'
  <2>1. lost' \subseteq Session /\ lost \subseteq lost'
    BY <1>2 DEF PInv, Revocations
  <2>2. \A s \in Session : sess'[s].st = "orphan" => s \in lost' \/ \E j \in Job : s \in job'[j].ids
    <3> SUFFICES ASSUME NEW s \in Session, sess'[s].st = "orphan", s \notin lost'
                 PROVE  \E j \in Job : s \in job'[j].ids
      OBVIOUS
    <3>1. s \notin SessionsOf(a)
      BY <1>1
    <3> QED BY <1>1, <2>1, <3>1 DEF PInv, Revocations
  <2>3. \A s \in gone' : sess'[s].st \in {"gone", "orphan"}
    <3> SUFFICES ASSUME NEW s \in gone PROVE sess'[s].st \in {"gone", "orphan"}
      OBVIOUS
    <3>1. s \in Session /\ sess[s].st \in {"gone", "orphan"}
      BY DEF PInv, Revocations
    <3>2. s \notin SessionsOf(a)
      BY <1>2, <3>1
    <3> QED BY <1>1, <3>1, <3>2
  <2> QED BY <1>1, <2>1, <2>2, <2>3 DEF PInv, Revocations
<1> QED BY <1>1, <1>3, <1>4, <1>5, ReturnReq DEF PInv

\* With no slot free, the request of a reset revokes the sessions itself.
LEMMA RevokeSynchronouslyPInv ==
  ASSUME PInv, NEW r \in Req, RevokeSynchronously(r)
  PROVE  PInv'
<1>1. owed' \subseteq Session
  BY DEF RevokeSynchronously, Owed, PInv, Revocations, Requests, ReqState
<1> QED BY <1>1, RevokeWithinPInv DEF RevokeSynchronously, PInv, Revocations

\* A change or a suspension answers success when its sessions are gone.
LEMMA RevokeAllForAccountPInv ==
  ASSUME PInv, NEW r \in Req, RevokeAllForAccount(r)
  PROVE  PInv'
<1> DEFINE a == req[r].acct
<1>1. /\ At(r, "revoke") /\ Return(r)
      /\ \/ RevokeAll(a) /\ UNCHANGED lost /\ gone' = gone \cup req[r].before
         \/ RevokeAllFails(a) /\ lost' = lost \cup SessionsOf(a) /\ gone' = gone
      /\ UNCHANGED <<active, password, token, cooldown, limited>>
      /\ UNCHANGED <<job, life, asked, stops, writes, spent, sets, bad, owed>>
  BY DEF RevokeAllForAccount
<1>2. req[r].before \subseteq Session /\ gone \subseteq Session /\ owed \subseteq Session
  BY DEF PInv, Requests, ReqState, Revocations
<1>3. ASSUME RevokeAll(a), NEW s \in req[r].before PROVE sess'[s].st \in {"gone", "orphan"}
  <2>1. /\ s \in Session /\ sess[s].st # "none" /\ sess[s].acct = a
        /\ sess[s] \in SessionState
    BY <1>1, <1>2 DEF PInv, Before, Revocations
  <2>2. CASE s \in SessionsOf(a)
    BY <1>3, <2>2, RevokeAllEffect
  <2>3. CASE s \notin SessionsOf(a)
    <3>1. sess[s].st \in {"gone", "orphan"}
      BY <2>1, <2>3 DEF SessionsOf, SessionState
    <3>2. sess'[s] = sess[s]
      BY <1>3, <2>1, <2>3, RevokeAllEffect
    <3> QED BY <3>1, <3>2
  <2> QED BY <2>2, <2>3
<1>4. \A s \in gone' \ gone : sess'[s].st \in {"gone", "orphan"}
  BY <1>1, <1>3
<1>5. gone' \subseteq Session /\ owed' \subseteq Session
  BY <1>1, <1>2
<1> HIDE DEF a
<1> QED BY <1>1, <1>4, <1>5, RevokeWithinPInv

\* A reset marks the account and leaves the sessions to a goroutine.
LEMMA RevokeAfterResetPInv ==
  ASSUME PInv, NEW r \in Req, RevokeAfterReset(r)
  PROVE  PInv'
<1> DEFINE free == {j \in Job : job[j] = NoJob}
<1>1. /\ At(r, "mark") /\ access' \subseteq access
      /\ \/ /\ \E j \in free : job' = [job EXCEPT ![j].acct = req[r].acct]
            /\ owed' = Owed(r) /\ Return(r)
         \/ Goto(r, "sync") /\ UNCHANGED <<job, owed>>
      /\ UNCHANGED <<active, password, sess, token, cooldown, limited>>
      /\ UNCHANGED <<life, asked, stops, writes, spent, sets, bad, gone, lost>>
  BY DEF RevokeAfterReset
<1>2. Tokens' /\ CountsStay /\ bad' = {} /\ SessionsStay /\ PlainTypes'
  BY <1>1 DEF PInv, Tokens, CountsStay, SessionsStay, PlainTypes
<1>3. Requests' /\ Budget' /\ Before'
  <2>1. CASE Goto(r, "sync")
    BY <1>1, <1>2, <2>1, GotoReq DEF PC
  <2>2. CASE Return(r)
    BY <1>2, <2>2, ReturnReq
  <2> QED BY <1>1, <2>1, <2>2
<1>4. Revocations'
  <2>1. CASE UNCHANGED <<job, owed>>
    BY <1>1, <2>1 DEF PInv, Revocations
  <2>2. ASSUME NEW j \in free, job' = [job EXCEPT ![j].acct = req[r].acct], owed' = Owed(r)
        PROVE  Revocations'
    <3> DEFINE running == [job[j] EXCEPT !.acct = req[r].acct]
    <3>1. job \in [Job -> JobState] /\ job[j] = NoJob /\ req[r] \in ReqState
      BY DEF PInv, Revocations, Requests
    <3>2. running \in JobState /\ running.ids = {} /\ job' = [job EXCEPT ![j] = running]
      BY <2>2, <3>1, DefaultReq DEF JobState, ReqState
    <3> HIDE DEF running
    <3>3. \A i \in Job : job'[i] = IF i = j THEN running ELSE job[i]
      BY <3>1, <3>2
    <3>4. \A i \in Job : job'[i].ids = job[i].ids /\ (i = j => job'[i].ids = {})
      BY <3>1, <3>2, <3>3, DefaultReq
    <3>5. owed' \subseteq Session
      BY <2>2, <3>1 DEF Owed, PInv, Revocations, ReqState
    <3>6. job' \in [Job -> JobState]
      BY <3>1, <3>2
    <3>7. \A i \in Job : ~job'[i].taken => job'[i].ids = {}
      BY <3>3, <3>4 DEF PInv, Revocations
    <3>8. \A s \in Session : sess[s].st = "orphan" => s \in lost \/ \E i \in Job : s \in job'[i].ids
      BY <3>4 DEF PInv, Revocations
    <3> QED BY <1>1, <3>5, <3>6, <3>7, <3>8 DEF PInv, Revocations
  <2> QED BY <1>1, <2>1, <2>2
<1> QED BY <1>2, <1>3, <1>4 DEF PInv

\* Steps that no request takes leave the requests as they are.
LEMMA OthersKeepReqs ==
  ASSUME PInv, UNCHANGED req, SessionsStay, CountsStay
  PROVE  Requests' /\ Budget' /\ Before'
<1>1. Requests'
  BY DEF PInv, Requests
<1>2. \A t \in Token : Users(t)' \subseteq Users(t)
  BY DEF Users
<1>3. Budget'
  BY <1>2, BudgetStays DEF PInv
<1>4. Before'
  BY DEF PInv, Before, SessionsStay, Requests, ReqState
<1> QED BY <1>1, <1>3, <1>4

\* A job takes into its hands what it takes from the index.
LEMMA TakeIndexPInv ==
  ASSUME PInv, NEW j \in Job, TakeIndex(j)
  PROVE  PInv'
<1> DEFINE a == job[j].acct
           taking == [job[j] EXCEPT !.taken = TRUE, !.ids = SessionsOf(a)]
<1>1. /\ ~job[j].taken
      /\ job' = [job EXCEPT ![j].taken = TRUE, ![j].ids = SessionsOf(a)]
      /\ sess' = [s \in Session |-> IF s \in SessionsOf(a)
                                    THEN [sess[s] EXCEPT !.st = "orphan"] ELSE sess[s]]
      /\ UNCHANGED <<active, password, access, token, cooldown, limited>>
      /\ UNCHANGED <<life, req, asked, stops, writes, history>>
  BY DEF TakeIndex
<1>2. /\ job \in [Job -> JobState] /\ sess \in [Session -> SessionState]
      /\ SessionsOf(a) \subseteq Session /\ \A s \in SessionsOf(a) : sess[s].st = "indexed"
      /\ job[j].ids = {}
  BY <1>1 DEF PInv, Revocations, SessionsOf
<1>3. taking \in JobState /\ taking.taken = TRUE /\ taking.ids = SessionsOf(a)
  BY <1>2 DEF JobState
<1>4. job' = [job EXCEPT ![j] = taking]
  BY <1>1
<1> HIDE DEF taking
<1>5. job' \in [Job -> JobState] /\ \A i \in Job : job'[i] = IF i = j THEN taking ELSE job[i]
  BY <1>2, <1>3, <1>4
<1>6. /\ sess' \in [Session -> SessionState] /\ SessionsStay
      /\ \A s \in Session \ SessionsOf(a) : sess'[s] = sess[s]
  BY <1>1, <1>2 DEF SessionState, SessionsStay
<1>7. Tokens' /\ CountsStay /\ bad' = {} /\ PlainTypes'
  BY <1>1 DEF PInv, Tokens, CountsStay, PlainTypes, history
<1>8. Requests' /\ Budget' /\ Before'
  BY <1>1, <1>6, <1>7, OthersKeepReqs
<1>9. Revocations'
  <2>1. \A i \in Job : ~job'[i].taken => job'[i].ids = {}
    BY <1>3, <1>5 DEF PInv, Revocations
  <2>2. \A s \in Session : sess'[s].st = "orphan" => s \in lost \/ \E i \in Job : s \in job'[i].ids
    <3> SUFFICES ASSUME NEW s \in Session, sess'[s].st = "orphan", s \notin lost
                 PROVE  \E i \in Job : s \in job'[i].ids
      OBVIOUS
    <3>1. CASE s \in SessionsOf(a)
      BY <1>3, <1>5, <3>1
    <3>2. CASE s \notin SessionsOf(a)
      <4>1. PICK i \in Job : s \in job[i].ids
        BY <1>6, <3>2 DEF PInv, Revocations
      <4>2. i # j
        BY <1>2, <4>1
      <4> QED BY <1>5, <4>1, <4>2
    <3> QED BY <3>1, <3>2
  <2>3. \A s \in gone : sess'[s].st \in {"gone", "orphan"}
    BY <1>2, <1>6 DEF PInv, Revocations
  <2> QED BY <1>1, <1>5, <1>6, <2>1, <2>2, <2>3 DEF PInv, Revocations, history
<1> QED BY <1>7, <1>8, <1>9 DEF PInv

\* Jobs that end give up what they hold only when it is deleted or lost.
LEMMA JobEndsPInv ==
  ASSUME PInv, NEW j \in Job, DeleteSessions(j) \/ BackgroundFails(j)
  PROVE  PInv'
<1>1. /\ job' = [job EXCEPT ![j] = NoJob]
      /\ UNCHANGED <<active, password, token, cooldown, limited>>
      /\ UNCHANGED <<life, req, asked, stops, writes, spent, sets, bad, gone, owed>>
      /\ access' \subseteq access
  BY DEF DeleteSessions, BackgroundFails, store, history
<1>2. /\ job \in [Job -> JobState] /\ sess \in [Session -> SessionState]
      /\ job[j].ids \subseteq Session
  BY DEF PInv, Revocations, JobState
<1>3. job' \in [Job -> JobState] /\ \A i \in Job : job'[i] = IF i = j THEN NoJob ELSE job[i]
  BY <1>1, <1>2, DefaultReq
<1>4. Missed(j) \subseteq Session /\ job[j].ids \subseteq Missed(j)
  BY <1>2 DEF Missed, SessionsOf
<1>5. /\ sess' \in [Session -> SessionState] /\ SessionsStay
      /\ lost' \subseteq Session /\ lost \subseteq lost'
      /\ \A s \in Session : sess'[s] = sess[s] \/ sess'[s].st = "gone"
      /\ \A s \in job[j].ids : sess'[s].st = "gone" \/ s \in lost'
  <2>1. CASE DeleteSessions(j)
    BY <1>2, <2>1 DEF DeleteSessions, SessionState, SessionsStay, PInv, Revocations, history
  <2>2. CASE BackgroundFails(j)
    BY <1>2, <1>4, <2>2 DEF BackgroundFails, SessionsStay, PInv, Revocations, store
  <2> QED BY <2>1, <2>2
<1>6. Tokens' /\ CountsStay /\ bad' = {} /\ PlainTypes'
  BY <1>1 DEF PInv, Tokens, CountsStay, PlainTypes
<1>7. Requests' /\ Budget' /\ Before'
  BY <1>1, <1>5, <1>6, OthersKeepReqs
<1>8. Revocations'
  <2>1. \A i \in Job : ~job'[i].taken => job'[i].ids = {}
    BY <1>3, DefaultReq DEF PInv, Revocations
  <2>2. \A s \in Session : sess'[s].st = "orphan" => s \in lost' \/ \E i \in Job : s \in job'[i].ids
    <3> SUFFICES ASSUME NEW s \in Session, sess'[s].st = "orphan", s \notin lost'
                 PROVE  \E i \in Job : s \in job'[i].ids
      OBVIOUS
    <3>1. PICK i \in Job : s \in job[i].ids
      BY <1>5 DEF PInv, Revocations
    <3>2. i # j
      BY <1>5, <3>1
    <3> QED BY <1>3, <3>1, <3>2
  <2>3. \A s \in gone : sess'[s].st \in {"gone", "orphan"}
    BY <1>5 DEF PInv, Revocations
  <2> QED BY <1>1, <1>3, <1>5, <2>1, <2>2, <2>3 DEF PInv, Revocations
<1> QED BY <1>6, <1>7, <1>8 DEF PInv

-----------------------------------------------------------------------------
(* Expiry and shutdown, and the theorems.                                  *)

\* Keys that expire keep the invariant.
LEMMA ExpiryPInv ==
  ASSUME PInv, (\E a \in Account : CooldownExpires(a)) \/ (\E t \in Token : TokenExpires(t))
  PROVE  PInv'
<1>1. ASSUME NEW a \in Account, CooldownExpires(a) PROVE PInv'
  <2>1. SessionsStay /\ CountsStay /\ PlainTypes'
    BY <1>1, Stays DEF CooldownExpires, history, PInv, PlainTypes
  <2>2. Requests' /\ Budget' /\ Before'
    BY <1>1, <2>1, OthersKeepReqs DEF CooldownExpires
  <2> QED BY <1>1, <2>1, <2>2, Assemble DEF CooldownExpires
<1>2. ASSUME NEW t \in Token, TokenExpires(t) PROVE PInv'
  <2>1. /\ token' = [token EXCEPT ![t].st = "gone"]
        /\ UNCHANGED <<active, password, sess, access, cooldown, limited>>
        /\ UNCHANGED <<job, life, req, asked, stops, writes, history>>
    BY <1>2 DEF TokenExpires
  <2>2. Tokens' /\ CountsStay
    BY <2>1, TokenGone DEF history
  <2>3. Revocations' /\ SessionsStay /\ PlainTypes' /\ bad' = {}
    BY <2>1 DEF PInv, Revocations, SessionsStay, PlainTypes, history
  <2> QED BY <2>1, <2>2, <2>3, OthersKeepReqs DEF PInv
<1> QED BY <1>1, <1>2

\* The shutdown drops the requests and counts what the jobs held as lost.
LEMMA ShutdownPInv ==
  ASSUME PInv, Shutdown \/ Wait \/ WaitReturns \/ Start
  PROVE  PInv'
<1>1. CASE Shutdown \/ Wait \/ Start
  <2>1. UNCHANGED <<token, sess, job, history, req>> /\ SessionsStay /\ CountsStay
    BY <1>1, Stays DEF Shutdown, Wait, Start, store, history
  <2>2. PlainTypes'
    BY <1>1 DEF Shutdown, Wait, Start, store, PInv, PlainTypes
  <2>3. Requests' /\ Budget' /\ Before'
    BY <2>1, OthersKeepReqs
  <2> QED BY <2>1, <2>2, <2>3, Assemble
<1>2. CASE WaitReturns
  <2>1. /\ life' = "down" /\ job' = [i \in Job |-> NoJob] /\ req' = [d \in Req |-> NoReq]
        /\ lost' = lost \cup UNION {Missed(j) : j \in Job}
        /\ UNCHANGED <<store, asked, stops, writes, spent, sets, bad, gone, owed>>
    BY <1>2 DEF WaitReturns
  <2>2. Tokens' /\ CountsStay /\ SessionsStay /\ bad' = {} /\ PlainTypes'
    BY <2>1 DEF PInv, Tokens, CountsStay, SessionsStay, PlainTypes, store
  <2>3. Requests' /\ Before'
    BY <2>1, DefaultReq DEF Requests, Before
  <2>4. Budget'
    <3>1. \A t \in Token : Users(t)' \subseteq Users(t)
      BY <2>1, DefaultReq DEF Users
    <3> QED BY <2>2, <3>1, BudgetStays DEF PInv
  <2>5. \A j \in Job : Missed(j) \subseteq Session /\ job[j].ids \subseteq Missed(j)
    BY DEF PInv, Revocations, JobState, Missed, SessionsOf
  <2>6. lost' \subseteq Session /\ lost \subseteq lost' /\ \A j \in Job : job[j].ids \subseteq lost'
    BY <2>1, <2>5 DEF PInv, Revocations
  <2>7. Revocations'
    <3>1. \A s \in Session : sess'[s].st = "orphan" => s \in lost'
      BY <2>1, <2>6 DEF PInv, Revocations, store
    <3> QED BY <2>1, <2>6, <3>1, DefaultReq DEF PInv, Revocations, store
  <2> QED BY <2>2, <2>3, <2>4, <2>7 DEF PInv
<1> QED BY <1>1, <1>2

\* Every step keeps the invariant.
LEMMA NextPInv == PInv /\ [PasswordsNext]_passwordVars => PInv'
<1> SUFFICES ASSUME PInv, [PasswordsNext]_passwordVars PROVE PInv'
  OBVIOUS
<1>1. ASSUME NEW r \in Req, Step(r) PROVE PInv'
  BY <1>1, PlainStepPInv, CreateSessionPInv, StoreTokenPInv, SendLinkPInv, ResetCommitPInv,
     DelTokenPInv, ChangeCommitPInv, UpdateAccountPInv, RevokeSynchronouslyPInv,
     RevokeAllForAccountPInv, RevokeAfterResetPInv DEF Step
<1>2. ASSUME NEW j \in Job, RevokeInBackground(j) PROVE PInv'
  BY <1>2, TakeIndexPInv, JobEndsPInv DEF RevokeInBackground
<1>3. CASE UNCHANGED passwordVars
  <2>1. UNCHANGED <<token, sess, job, history, req>> /\ SessionsStay /\ CountsStay
    BY <1>3, Stays DEF passwordVars, store, history
  <2>2. PlainTypes'
    BY <1>3 DEF passwordVars, store, PInv, PlainTypes
  <2>3. Requests' /\ Budget' /\ Before'
    BY <2>1, OthersKeepReqs
  <2> QED BY <2>1, <2>2, <2>3, Assemble
<1> QED BY <1>1, <1>2, <1>3, ArrivalPInv, ExpiryPInv, ShutdownPInv DEF PasswordsNext

\* The inductive invariant holds in every reachable state.
LEMMA AlwaysPInv == PasswordsSpec => []PInv
BY PasswordsInitInv, NextPInv, PTL DEF PasswordsSpec

\* The variables keep their types.
THEOREM PasswordsTypeCorrect == PasswordsSpec => []PasswordsTypeOK
<1>1. PInv => PasswordsTypeOK
  BY DEF PInv, PlainTypes, Requests, Tokens, Revocations, PasswordsTypeOK
<1> QED BY AlwaysPInv, <1>1, PTL

\* No request that begins after a reset has answered success sets a password with its
\* token: the token is deleted before the answer, and none is stored twice.
THEOREM SpentTokensStayDead == PasswordsSpec => []SpentTokenIsDead
<1>1. PInv => SpentTokenIsDead BY DEF PInv, SpentTokenIsDead
<1> QED BY AlwaysPInv, <1>1, PTL

\* One link sets at most maxAttempts passwords: each is paid for by an attempt counted
\* before, and requests under way hold the attempts that they have not used.
THEOREM ResetsStayBounded == PasswordsSpec => []ResetsBounded
<1>1. PInv => ResetsBounded
  <2> SUFFICES ASSUME PInv, NEW t \in Token PROVE sets[t] <= MaxAttempts
    BY DEF ResetsBounded
  <2>1. Users(t) \subseteq Req
    BY DEF Users
  <2>2. Cardinality(Users(t)) \in Nat
    BY <2>1, FiniteRequests
  <2>3. /\ sets[t] \in Nat /\ token[t].attempts \in 0..MaxAttempts
        /\ sets[t] + Cardinality(Users(t)) <= token[t].attempts
    BY DEF PInv, Tokens, TokenState, Budget
  <2> QED BY <2>2, <2>3, PasswordsAssumption
<1> QED BY AlwaysPInv, <1>1, PTL

\* ChangePassword replaces no other password than the one its user proved.
THEOREM ChangesProveCurrent == PasswordsSpec => []ChangeProvesCurrent
<1>1. PInv => ChangeProvesCurrent BY DEF PInv, ChangeProvesCurrent
<1> QED BY AlwaysPInv, <1>1, PTL

\* A change of password or a suspension that answers success leaves no session from before
\* that is not lost or about to be deleted by a goroutine.
THEOREM RevocationBeforeAnswer == PasswordsSpec => []RevokedBeforeAnswer
<1>1. PInv => RevokedBeforeAnswer
  BY DEF PInv, Revocations, RevokedBeforeAnswer
<1> QED BY AlwaysPInv, <1>1, PTL
=============================================================================
