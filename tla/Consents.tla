------------------------------ MODULE Consents ------------------------------
(***************************************************************************)
(* From an authorization request to the terms of an authorization code:    *)
(* the handlers Authorize and SubmitConsent over ConsentService and the    *)
(* consent states in Redis, for one OAuth2 client.  AuthCodes extends this *)
(* module by what becomes of the code.                                     *)
(*                                                                         *)
(* Every command to Redis or the database is one action with the local     *)
(* steps that follow it.  A call is a goroutine that serves one request    *)
(* after the other.  There is no clock: a key may expire at any moment.    *)
(* Requests that are refused before they write anything are not shown, and *)
(* IsAccountActive, which both handlers ask, may answer either way: its    *)
(* cache and database are not modelled here.                               *)
(***************************************************************************)
EXTENDS Naturals

CONSTANTS
    Account, NoAccount,
    Scope,
    Page,     \* consent IDs that may be in use at a time
    Call,     \* concurrent requests
    Faults,   \* what may go wrong, of FaultKind
    MaxAsks   \* bound of the number of authorization requests

\* "redis": a command reports an error, executed or not; "crash": a request ends
\* anywhere.
FaultKind == {"redis", "crash"}

ASSUME ConfigAssumption == Faults \subseteq FaultKind /\ MaxAsks \in Nat
ASSUME NamesAssumption == NoAccount \notin Account /\ Page # {}

VARIABLES
    clientScopes,  \* the scopes the client is registered for; {} once it is deleted
    row,           \* the consent rows of the database; {} is no consent
    cached,        \* consent:{account}|{client} in Redis
    page,          \* consent_state:{id}, and whether its page was rendered
    call,          \* the requests under way
    asks,          \* authorization requests so far
    consented      \* history: the scopes that each account has approved on its pages

consentVars == <<clientScopes, row, cached, page, call, asks, consented>>

\* A cache entry: none, the tombstone, or a consent.
CacheEntry == [kind: {"none", "tombstone", "consent"}, scopes: SUBSET Scope]
NoEntry == [kind |-> "none", scopes |-> {}]
Consent(S) == [kind |-> "consent", scopes |-> S]
Tombstone == [kind |-> "tombstone", scopes |-> {}]
\* A consent state is stored before it is known whether a page will show it.
ConsentState == [state: {"none", "stored", "shown"},
                 acct: Account \cup {NoAccount}, scopes: SUBSET Scope]
NoState == [state |-> "none", acct |-> NoAccount, scopes |-> {}]
PC == {"idle", "consentGet", "consentRow", "consentFill", "saveClient",
       "saveRow", "saveCache", "generate", "deleteCache"}
CallState == [pc: PC, acct: Account \cup {NoAccount},
              asked: SUBSET Scope,   \* the scopes of the form
              valid: SUBSET Scope,   \* the scopes asked for that the client, as read, may have
              scopes: SUBSET Scope,  \* the consent, and then the scopes to grant
              page: Page]

-----------------------------------------------------------------------------
NoCall == [pc |-> "idle", acct |-> NoAccount, asked |-> {}, valid |-> {},
           scopes |-> {}, page |-> CHOOSE p \in Page : TRUE]

ConsentsInit ==
    /\ clientScopes = Scope
    /\ row = [a \in Account |-> {}]
    /\ cached = [a \in Account |-> NoEntry]
    /\ page = [p \in Page |-> NoState]
    /\ call = [c \in Call |-> NoCall]
    /\ asks = 0
    /\ consented = [a \in Account |-> {}]

At(c, pc) == call[c].pc = pc
Goto(c, pc) == call' = [call EXCEPT ![c].pc = pc]
Return(c) == call' = [call EXCEPT ![c] = NoCall]
Faulty == "redis" \in Faults
ValidateScope(S, registered) == S \cap registered

-----------------------------------------------------------------------------
(* Authorize: GET /oauth2/authorize.                                       *)

\* A consent ID is random; one that is forgotten everywhere may stand for a fresh one.
Fresh(p) ==
    /\ page[p].state = "none"
    /\ \A d \in Call : call[d].pc \in {"consentGet", "consentRow", "consentFill"} =>
                       call[d].page # p

\* The client is read, and the consent state stored under an ID that nobody knows yet,
\* before the consent is looked up.
Authorize(c, a, S, p) ==
    /\ At(c, "idle")
    /\ asks < MaxAsks
    /\ asks' = asks + 1
    /\ clientScopes # {}
    /\ Fresh(p)
    /\ \/ /\ page' = [page EXCEPT ![p] = [state |-> "stored", acct |-> a, scopes |-> S]]
          /\ \/ call' = [call EXCEPT ![c] = [NoCall EXCEPT !.pc = "consentGet", !.acct = a,
                                             !.valid = ValidateScope(S, clientScopes),
                                             !.page = p]]
             \/ Faulty /\ UNCHANGED call
       \/ Faulty /\ UNCHANGED <<page, call>>
    /\ UNCHANGED <<clientScopes, row, cached, consented>>

\* renderConsentTemplate: the page names the scopes that the client asked for.  The
\* state may have expired since it was stored.
ShowPage(c) ==
    /\ Return(c)
    /\ page' = [page EXCEPT ![call[c].page].state = IF @ = "stored" THEN "shown" ELSE @]

\* What may be granted without asking: scopes that are asked for, that the client is
\* registered for, and that the user consented to before.
AllowedScopes(valid, S) == valid \cap S

WithConsent(c, S) ==
    LET allowed == AllowedScopes(call[c].valid, S)
    IN  \/ allowed = {} /\ ShowPage(c)
        \/ /\ allowed # {}
           /\ call' = [call EXCEPT ![c] = [NoCall EXCEPT !.pc = "generate", !.scopes = allowed,
                                           !.acct = call[c].acct]]
           /\ UNCHANGED page

\* GetConsent, the cache: a tombstone or an error sends the reader to the database.
GetConsentCached(c) ==
    LET entry == cached[call[c].acct]
    IN  /\ At(c, "consentGet")
        /\ \/ entry.kind = "consent" /\ WithConsent(c, entry.scopes)
           \/ (entry.kind # "consent" \/ Faulty) /\ Goto(c, "consentRow") /\ UNCHANGED page
        /\ UNCHANGED <<clientScopes, row, cached, consented, asks>>

\* GetConsent, the database; without an answer the page is shown.
GetConsentRow(c) ==
    LET S == row[call[c].acct]
    IN  /\ At(c, "consentRow")
        /\ \/ /\ S # {}
              /\ call' = [call EXCEPT ![c].pc = "consentFill", ![c].scopes = S]
              /\ UNCHANGED page
           \/ (S = {} \/ Faulty) /\ ShowPage(c)
        /\ UNCHANGED <<clientScopes, row, cached, consented, asks>>

\* GetConsent, the write back to the cache.
FillConsentCache(c) ==
    /\ At(c, "consentFill")
    /\ \/ cached' = [cached EXCEPT ![call[c].acct] = Consent(call[c].scopes)]
       \/ Faulty /\ UNCHANGED cached
    /\ WithConsent(c, call[c].scopes)
    /\ UNCHANGED <<clientScopes, row, consented, asks>>

-----------------------------------------------------------------------------
(* SubmitConsent: POST /oauth2/authorize, approved.  A refusal leaves the  *)
(* consent state alone and changes nothing.                                *)

\* same: client, redirect URI, session, PKCE, nonce, state and scope are those stored.
SamePageAnyone(p, a, same) == same
SamePage(p, a, same) == same /\ page[p].acct = a

\* What a approves on page p, if it was shown the page.
Approves(a, p) == IF page[p].acct = a THEN page[p].scopes ELSE {}

\* GETDEL takes the consent state before anything is compared.
SubmitConsent(c, p, a, same) ==
    /\ At(c, "idle")
    /\ page[p].state = "shown"
    /\ page' = [page EXCEPT ![p] = NoState]
    /\ \/ /\ SamePage(p, a, same)
          /\ call' = [call EXCEPT ![c] = [NoCall EXCEPT !.pc = "saveClient", !.acct = a,
                                          !.asked = page[p].scopes]]
          /\ consented' = [consented EXCEPT ![a] = @ \cup Approves(a, p)]
       \/ /\ ~SamePage(p, a, same) \/ Faulty
          /\ UNCHANGED <<call, consented>>
    /\ UNCHANGED <<clientScopes, row, cached, asks>>

\* The client is read once more, and with it the scopes it may have; the account may
\* not be active any more.
CheckClient(c) ==
    LET valid == ValidateScope(call[c].asked, clientScopes)
    IN  /\ At(c, "saveClient")
        /\ \/ Return(c)
           \/ /\ valid # {}
              /\ call' = [call EXCEPT ![c].pc = "saveRow", ![c].scopes = valid,
                                       ![c].asked = {}]
        /\ UNCHANGED <<clientScopes, row, cached, page, consented, asks>>

\* SaveConsent: the row is replaced; a transaction that fails, also one that reports
\* failure after its commit, ends the request.  It fails when the client is gone.
UpsertConsent(c) ==
    /\ At(c, "saveRow")
    /\ \/ /\ clientScopes # {}
          /\ row' = [row EXCEPT ![call[c].acct] = call[c].scopes]
          /\ Goto(c, "saveCache") \/ (Faulty /\ Return(c))
       \/ (clientScopes = {} \/ Faulty) /\ Return(c) /\ UNCHANGED row
    /\ UNCHANGED <<clientScopes, cached, page, consented, asks>>

\* The write to the cache, and the one with the fallback TTL; both may fail.
CacheConsent(c) ==
    /\ At(c, "saveCache")
    /\ \/ cached' = [cached EXCEPT ![call[c].acct] = Consent(call[c].scopes)]
       \/ Faulty /\ UNCHANGED cached
    /\ Goto(c, "generate")
    /\ UNCHANGED <<clientScopes, row, page, consented, asks>>

\* GenerateCode with the scopes arrived at, for Authorize and SubmitConsent.
GenerateCode(c) ==
    /\ At(c, "generate")
    /\ Return(c)
    /\ UNCHANGED <<clientScopes, row, cached, page, consented, asks>>

-----------------------------------------------------------------------------
(* DeleteConsent.                                                          *)

SoftDeleteConsent(c, a) ==
    /\ At(c, "idle")
    /\ clientScopes # {} /\ row[a] # {}
    /\ row' = [row EXCEPT ![a] = {}]
    /\ \/ call' = [call EXCEPT ![c] = [NoCall EXCEPT !.pc = "deleteCache", !.acct = a]]
       \/ Faulty /\ UNCHANGED call
    /\ UNCHANGED <<clientScopes, cached, page, consented, asks>>

\* DEL, or else the tombstone, or else neither.
DropCachedConsent(c) ==
    /\ At(c, "deleteCache")
    /\ \/ cached' = [cached EXCEPT ![call[c].acct] = NoEntry]
       \/ Faulty /\ cached' = [cached EXCEPT ![call[c].acct] = Tombstone]
       \/ Faulty /\ UNCHANGED cached
    /\ Return(c)
    /\ UNCHANGED <<clientScopes, row, page, consented, asks>>

-----------------------------------------------------------------------------
(* What happens to the keys and the client, and crashes.                   *)

ConsentStateExpires(p) ==
    /\ page[p] # NoState
    /\ page' = [page EXCEPT ![p] = NoState]
    /\ UNCHANGED <<clientScopes, row, cached, call, consented, asks>>

\* A cache entry expires, or DeleteConsentsByAccount finds and deletes it.
DeleteConsentsByAccount(a) ==
    /\ cached[a] # NoEntry
    /\ cached' = [cached EXCEPT ![a] = NoEntry]
    /\ UNCHANGED <<clientScopes, row, page, call, asks, consented>>

\* UpdateClientByAccountID changes the scopes, DeleteClient ends the client.
ChangeClient(S) ==
    /\ clientScopes # {}
    /\ S # clientScopes
    /\ clientScopes' = S
    /\ UNCHANGED <<row, cached, page, call, asks, consented>>

Crash(c) ==
    /\ "crash" \in Faults
    /\ ~At(c, "idle")
    /\ Return(c)
    /\ UNCHANGED <<clientScopes, row, cached, page, consented, asks>>

-----------------------------------------------------------------------------
Authorizing(c) ==
    \/ \E a \in Account, S \in SUBSET Scope \ {{}}, p \in Page : Authorize(c, a, S, p)
    \/ GetConsentCached(c)
    \/ GetConsentRow(c)
    \/ FillConsentCache(c)

Submitting(c) ==
    \/ \E p \in Page, a \in Account, same \in BOOLEAN : SubmitConsent(c, p, a, same)
    \/ CheckClient(c)
    \/ UpsertConsent(c)
    \/ CacheConsent(c)

Deleting(c) ==
    \/ \E a \in Account : SoftDeleteConsent(c, a)
    \/ DropCachedConsent(c)

ConsentStep ==
    \/ \E c \in Call : Authorizing(c) \/ Submitting(c) \/ Deleting(c) \/ Crash(c)
    \/ \E p \in Page : ConsentStateExpires(p)
    \/ \E a \in Account : DeleteConsentsByAccount(a)
    \/ \E S \in SUBSET Scope : ChangeClient(S)

ConsentsNext == ConsentStep \/ \E c \in Call : GenerateCode(c)

ConsentsSpec == ConsentsInit /\ [][ConsentsNext]_consentVars

-----------------------------------------------------------------------------
\* The types of the keys, rows, a request's locals and the histories.
ConsentsTypeOK ==
    /\ clientScopes \in SUBSET Scope
    /\ row \in [Account -> SUBSET Scope]
    /\ cached \in [Account -> CacheEntry]
    /\ page \in [Page -> ConsentState]
    /\ call \in [Call -> CallState]
    /\ asks \in Nat
    /\ consented \in [Account -> SUBSET Scope]

\* No code carries a scope that its account did not approve on a consent page shown to
\* that account, whatever the cache, the rows, expired pages and the forms of other
\* accounts or sessions contribute.
ScopesConsented ==
    \A c \in Call : At(c, "generate") => call[c].scopes \subseteq consented[call[c].acct]
=============================================================================
