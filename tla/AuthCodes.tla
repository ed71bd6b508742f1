------------------------------ MODULE AuthCodes ------------------------------
(***************************************************************************)
(* Authorization codes, from the consent of the user to the tokens of the  *)
(* client: AuthCodeService and handleAuthorizationCodeGrant, composed with *)
(* the authorize endpoint of Consents.  A code is stored with the account  *)
(* and the scopes that Consents arrives at, and exchanged for tokens at    *)
(* the token endpoint, where several requests may present it at once, with *)
(* or without the right client, redirect URI and verifier.                 *)
(*                                                                         *)
(* Every Redis command or script is one action with the local steps that   *)
(* follow it.  An exchange is a goroutine that serves one request after    *)
(* the other.  There is no clock: a code may expire at any moment.         *)
(***************************************************************************)
EXTENDS Consents, Sequences

CONSTANTS
    Code,
    Exchange   \* concurrent exchanges

ASSUME CodeAssumption == Code # {}

VARIABLES
    code,      \* auth_code:{hash}
    exch,      \* the exchanges under way
    misused,   \* history: codes presented by the wrong client or without the verifier
    receipt    \* history: the token responses given for a code, by their terms

codeVars == <<code, exch, misused, receipt>>
vars == <<consentVars, codeVars>>

\* What a user agrees to.
Terms == [acct: Account, scopes: SUBSET Scope]
NoTerms == [acct |-> NoAccount, scopes |-> {}]
AuthorizationCode == [state: {"new", "stored", "gone"}, terms: Terms \cup {NoTerms}]
ExchangeState == [pc: {"idle", "active", "issue"}, code: Code,
                  terms: Terms \cup {NoTerms}]

-----------------------------------------------------------------------------
NoExchange == [pc |-> "idle", code |-> CHOOSE k \in Code : TRUE, terms |-> NoTerms]

Init ==
    /\ ConsentsInit
    /\ code = [k \in Code |-> [state |-> "new", terms |-> NoTerms]]
    /\ exch = [x \in Exchange |-> NoExchange]
    /\ misused = {}
    /\ receipt = [k \in Code |-> <<>>]

Idle(x) == exch[x].pc = "idle"
Continue(x, pc) == exch' = [exch EXCEPT ![x].pc = pc]
Finish(x) == exch' = [exch EXCEPT ![x] = NoExchange]

\* The account and the scopes that the handler c passes to GenerateCode.
Agreed(c) == [acct |-> call[c].acct, scopes |-> call[c].scopes]

\* A mutant: the code is stored with every scope of the client.
StoreCodeRegistered(c, k) ==
    /\ GenerateCode(c)
    /\ code[k].state = "new"
    /\ code' = [code EXCEPT ![k] = [state |-> "stored",
                                   terms |-> [Agreed(c) EXCEPT !.scopes = clientScopes]]]
    /\ UNCHANGED <<exch, misused, receipt>>

\* AuthCodeService.GenerateCode, called by Authorize and SubmitConsent.
StoreCode(c, k) ==
    /\ GenerateCode(c)
    /\ code[k].state = "new"
    /\ code' = [code EXCEPT ![k] = [state |-> "stored", terms |-> Agreed(c)]]
    /\ UNCHANGED <<exch, misused, receipt>>

\* A code whose write reports an error is stored or not, and disclosed to nobody: it is
\* as if it were not there.
StoreCodeFails(c) ==
    /\ Faulty
    /\ GenerateCode(c)
    /\ UNCHANGED codeVars

CodeExpires(k) ==
    /\ code[k].state = "stored"
    /\ code' = [code EXCEPT ![k].state = "gone"]
    /\ UNCHANGED <<consentVars, exch, misused, receipt>>

-----------------------------------------------------------------------------
(* handleAuthorizationCodeGrant.                                           *)

\* What the script leaves of the code that it reads.
TakenIfMatch(k, match) == IF match THEN [code[k] EXCEPT !.state = "gone"] ELSE code[k]
TakenKept(k, match) == code[k]
Taken(k, match) == [code[k] EXCEPT !.state = "gone"]

\* ValidateCode: one script reads and deletes the code; only then the client, the
\* redirect URI and the verifier are compared (match).  The script may be executed and
\* yet report an error; where it finds nothing, nothing changes.
ValidateCode(x, k, match) ==
    /\ Idle(x)
    /\ code[k].state = "stored"
    /\ code' = [code EXCEPT ![k] = Taken(k, match)]
    /\ \/ /\ match
          /\ exch' = [exch EXCEPT ![x] = [pc |-> "active", code |-> k, terms |-> code[k].terms]]
       \/ ~match /\ UNCHANGED exch
       \/ Faulty /\ UNCHANGED exch
    /\ misused' = IF match THEN misused ELSE misused \cup {k}
    /\ UNCHANGED <<consentVars, receipt>>

\* Either answer of IsAccountActive may come: its cache and database are not modelled.
IsAccountActive(x) ==
    /\ exch[x].pc = "active"
    /\ Continue(x, "issue") \/ Finish(x)
    /\ UNCHANGED <<consentVars, code, misused, receipt>>

\* Roles, permissions, the tokens and the ID token; each may fail, and the code is gone
\* all the same.
IssueTokens(x) ==
    /\ exch[x].pc = "issue"
    /\ \/ receipt' = [receipt EXCEPT ![exch[x].code] = Append(@, exch[x].terms)]
       \/ UNCHANGED receipt
    /\ Finish(x)
    /\ UNCHANGED <<consentVars, code, misused>>

ExchangeCrash(x) ==
    /\ "crash" \in Faults
    /\ ~Idle(x)
    /\ Finish(x)
    /\ UNCHANGED <<consentVars, code, misused, receipt>>

Exchanging(x) ==
    \/ \E k \in Code, match \in BOOLEAN : ValidateCode(x, k, match)
    \/ IsAccountActive(x)
    \/ IssueTokens(x)
    \/ ExchangeCrash(x)

Next ==
    \/ ConsentStep /\ UNCHANGED codeVars
    \/ \E c \in Call, k \in Code : StoreCode(c, k)
    \/ \E c \in Call : StoreCodeFails(c)
    \/ \E k \in Code : CodeExpires(k)
    \/ \E x \in Exchange : Exchanging(x)

Spec == Init /\ [][Next]_vars

-----------------------------------------------------------------------------
\* The types of the consents, the codes, an exchange's locals and the histories.
TypeOK ==
    /\ ConsentsTypeOK
    /\ code \in [Code -> AuthorizationCode]
    /\ exch \in [Exchange -> ExchangeState]
    /\ misused \subseteq Code
    /\ receipt \in [Code -> Seq(Terms)]

\* A code that was once presented with the wrong client, redirect URI or verifier is
\* burned: no exchange, under way or later, gets tokens for it.
MisusedCodeIsBurned ==
    \A k \in misused :
      /\ receipt[k] = <<>>
      /\ \A x \in Exchange : ~Idle(x) => exch[x].code # k

\* Tokens are given only for scopes that their account approved on a consent page shown
\* to it, from the page over cache, row and code to the token response
\* (SubmitConsent, Authorize, GenerateCode, handleAuthorizationCodeGrant).
TokensConsented ==
    \A k \in Code : \A i \in DOMAIN receipt[k] :
        receipt[k][i].scopes \subseteq consented[receipt[k][i].acct]

Holds(x, k) == ~Idle(x) /\ exch[x].code = k

\* A deleted code belongs to the exchange that read it until that request ends.
Stage(k) ==
    IF code[k].state = "new" THEN "proposed"
    ELSE IF code[k].state = "stored" THEN "agreed"
    ELSE IF receipt[k] # <<>> THEN "spent"
    ELSE IF \E x \in Exchange : Holds(x, k) THEN "taken"
    ELSE "void"

Grants == INSTANCE OneTimeGrant WITH
    Grant <- Code,
    stage <- [k \in Code |-> Stage(k)],
    terms <- [k \in Code |-> code[k].terms]

\* A code is a grant that is agreed to once and taken once: however many exchanges race
\* for it, at most one gets tokens, for the account and the scopes stored with it.
ImplementsOneTimeGrant == Grants!Spec
=============================================================================
