--------------------------- MODULE AuthCodesProofs ---------------------------
(***************************************************************************)
(* Proofs about Consents and AuthCodes, for any sets of accounts, scopes,  *)
(* pages, codes and requests and any faults: type correctness, that a code *)
(* is generated only for scopes that its account approved, that tokens are *)
(* given only for such scopes, that a misused code is burned, and that     *)
(* codes implement OneTimeGrant.                                           *)
(*                                                                         *)
(* For Consents the inductive invariant says that nothing a request may    *)
(* draw scopes from, the rows, the cache and its own locals, holds more    *)
(* for an account than the account has approved.  For AuthCodes it adds    *)
(* that the terms of a code are approved too, and that what an exchange    *)
(* holds is a deleted code, with the terms it was stored with, that no     *)
(* other exchange holds, that has not been paid out and was not misused.   *)
(***************************************************************************)
EXTENDS AuthCodes, TLAPS

StoresConsented ==
    \A a \in Account : row[a] \subseteq consented[a] /\ cached[a].scopes \subseteq consented[a]

CallsConsented ==
    \A c \in Call :
      /\ ~At(c, "idle") => call[c].acct \in Account
      /\ call[c].pc \in {"consentFill", "saveRow", "saveCache", "generate"}
         => call[c].scopes \subseteq consented[call[c].acct]
      /\ At(c, "saveClient") => call[c].asked \subseteq consented[call[c].acct]

ConsentsInv == ConsentsTypeOK /\ StoresConsented /\ CallsConsented

USE DEF At, Goto, Return, ValidateScope

-----------------------------------------------------------------------------
(* Consents.                                                               *)

\* An idle call is well typed.
LEMMA DefaultCall == NoCall \in CallState /\ NoCall.pc = "idle"
BY NamesAssumption DEF NoCall, CallState, PC

\* The values that the cache and the pages are set to are well typed.
LEMMA DefaultEntries ==
  /\ NoEntry \in CacheEntry /\ NoEntry.scopes = {}
  /\ Tombstone \in CacheEntry /\ Tombstone.scopes = {}
  /\ NoState \in ConsentState
  /\ \A S \in SUBSET Scope : Consent(S) \in CacheEntry /\ Consent(S).scopes = S
BY DEF NoEntry, Tombstone, NoState, Consent, CacheEntry, ConsentState

\* The initial state satisfies the invariant.
LEMMA ConsentsInitInv == ConsentsInit => ConsentsInv
BY DefaultCall, DefaultEntries
   DEF ConsentsInit, ConsentsInv, ConsentsTypeOK, StoresConsented, CallsConsented

\* A request that ends keeps what the calls hold, whatever else is approved meanwhile.
LEMMA ReturnKeepsCalls ==
  ASSUME ConsentsTypeOK, CallsConsented, NEW c \in Call, Return(c), UNCHANGED consented
  PROVE  call' \in [Call -> CallState] /\ CallsConsented'
BY DefaultCall DEF ConsentsTypeOK, CallsConsented, CallState

\* Looking at the page: the state may only move from stored to shown.
LEMMA ShowPageKeeps ==
  ASSUME ConsentsTypeOK, CallsConsented, NEW c \in Call, ShowPage(c), UNCHANGED consented
  PROVE  /\ call' \in [Call -> CallState] /\ page' \in [Page -> ConsentState]
         /\ CallsConsented'
<1>1. call' \in [Call -> CallState] /\ CallsConsented'
  BY ReturnKeepsCalls DEF ShowPage
<1>2. page' \in [Page -> ConsentState]
  <2> DEFINE p == call[c].page
             shown == [page[p] EXCEPT !.state = IF @ = "stored" THEN "shown" ELSE @]
  <2>1. shown \in ConsentState
    BY DEF ConsentsTypeOK, CallState, ConsentState
  <2>2. page' = [page EXCEPT ![p] = shown]
    BY DEF ShowPage
  <2> QED BY <2>1, <2>2 DEF ConsentsTypeOK
<1> QED BY <1>1, <1>2

\* Granting on an earlier consent S of the account grants nothing outside S.
LEMMA WithConsentKeeps ==
  ASSUME ConsentsTypeOK, CallsConsented, NEW c \in Call, ~At(c, "idle"),
         NEW S \in SUBSET Scope, S \subseteq consented[call[c].acct],
         WithConsent(c, S), UNCHANGED consented
  PROVE  /\ call' \in [Call -> CallState] /\ page' \in [Page -> ConsentState]
         /\ CallsConsented'
<1> DEFINE allowed == AllowedScopes(call[c].valid, S)
           granting == [NoCall EXCEPT !.pc = "generate", !.scopes = allowed,
                                      !.acct = call[c].acct]
<1>1. CASE ShowPage(c)
  BY <1>1, ShowPageKeeps
<1>2. CASE call' = [call EXCEPT ![c] = granting] /\ UNCHANGED page
  <2>1. /\ granting \in CallState
        /\ granting.pc = "generate" /\ granting.acct = call[c].acct
        /\ granting.scopes = allowed
    BY DefaultCall DEF ConsentsTypeOK, CallState, PC, AllowedScopes
  <2>2. call[c].acct \in Account /\ allowed \subseteq consented[call[c].acct]
    BY DEF CallsConsented, AllowedScopes
  <2> HIDE DEF granting
  <2>3. call' \in [Call -> CallState]
    BY <1>2, <2>1 DEF ConsentsTypeOK
  <2>4. \A d \in Call : call'[d] = IF d = c THEN granting ELSE call[d]
    BY <1>2 DEF ConsentsTypeOK
  <2>5. CallsConsented'
    BY <2>1, <2>2, <2>4 DEF CallsConsented
  <2> QED BY <1>2, <2>3, <2>5 DEF ConsentsTypeOK
<1> QED BY <1>1, <1>2 DEF WithConsent

\* The steps of Authorize keep the invariant.
LEMMA AuthorizingInv ==
  ASSUME ConsentsInv, NEW c \in Call, Authorizing(c)
  PROVE  ConsentsInv'
<1> USE DEF ConsentsInv
<1>1. ASSUME NEW a \in Account, NEW S \in SUBSET Scope, NEW p \in Page, Authorize(c, a, S, p)
      PROVE  ConsentsInv'
  <2> DEFINE asking == [NoCall EXCEPT !.pc = "consentGet", !.acct = a,
                                      !.valid = ValidateScope(S, clientScopes), !.page = p]
  <2>1. asking \in CallState /\ asking.pc = "consentGet" /\ asking.acct = a
    BY DefaultCall DEF ConsentsTypeOK, CallState, PC
  <2> HIDE DEF asking
  <2>2. call' = [call EXCEPT ![c] = asking] \/ UNCHANGED call
    BY <1>1 DEF Authorize, asking
  <2>3. call' \in [Call -> CallState] /\ CallsConsented'
    BY <1>1, <2>1, <2>2 DEF Authorize, ConsentsTypeOK, CallsConsented
  <2>4. page' \in [Page -> ConsentState]
    BY <1>1 DEF Authorize, ConsentsTypeOK, ConsentState
  <2>5. asks' \in Nat
    BY <1>1 DEF Authorize, ConsentsTypeOK
  <2> QED BY <1>1, <2>3, <2>4, <2>5 DEF Authorize, ConsentsTypeOK, StoresConsented
<1>2. CASE GetConsentCached(c)
  <2> DEFINE entry == cached[call[c].acct]
  <2>0. /\ ~At(c, "idle") /\ UNCHANGED <<clientScopes, row, cached, consented, asks>>
        /\ call[c].acct \in Account
        /\ entry.scopes \in SUBSET Scope /\ entry.scopes \subseteq consented[call[c].acct]
    BY <1>2 DEF GetConsentCached, ConsentsTypeOK, CacheEntry, StoresConsented, CallsConsented
  <2>1. /\ call' \in [Call -> CallState] /\ page' \in [Page -> ConsentState]
        /\ CallsConsented'
    <3>1. CASE WithConsent(c, entry.scopes)
      BY <2>0, <3>1, WithConsentKeeps
    <3>2. CASE Goto(c, "consentRow") /\ UNCHANGED page
      BY <2>0, <3>2 DEF ConsentsTypeOK, CallState, PC, CallsConsented
    <3> QED BY <1>2, <3>1, <3>2 DEF GetConsentCached
  <2> QED BY <2>0, <2>1 DEF ConsentsTypeOK, StoresConsented
<1>3. CASE GetConsentRow(c)
  <2> DEFINE S == row[call[c].acct]
  <2>0. /\ ~At(c, "idle") /\ UNCHANGED <<clientScopes, row, cached, consented, asks>>
        /\ call[c].acct \in Account
        /\ S \in SUBSET Scope /\ S \subseteq consented[call[c].acct]
    BY <1>3 DEF GetConsentRow, ConsentsTypeOK, StoresConsented, CallsConsented
  <2>1. /\ call' \in [Call -> CallState] /\ page' \in [Page -> ConsentState]
        /\ CallsConsented'
    <3>1. CASE ShowPage(c)
      BY <2>0, <3>1, ShowPageKeeps
    <3>2. CASE call' = [call EXCEPT ![c].pc = "consentFill", ![c].scopes = S] /\ UNCHANGED page
      <4> DEFINE found == [call[c] EXCEPT !.pc = "consentFill", !.scopes = S]
      <4>1. /\ found \in CallState
            /\ found.pc = "consentFill" /\ found.scopes = S /\ found.acct = call[c].acct
        BY <2>0 DEF ConsentsTypeOK, CallState, PC
      <4>2. call' = [call EXCEPT ![c] = found]
        BY <3>2
      <4> HIDE DEF S, found
      <4> QED BY <2>0, <3>2, <4>1, <4>2 DEF ConsentsTypeOK, CallsConsented, S
    <3> QED BY <1>3, <3>1, <3>2 DEF GetConsentRow
  <2> QED BY <2>0, <2>1 DEF ConsentsTypeOK, StoresConsented
<1>4. CASE FillConsentCache(c)
  <2>0. /\ ~At(c, "idle") /\ UNCHANGED <<clientScopes, row, consented, asks>>
        /\ call[c].acct \in Account /\ WithConsent(c, call[c].scopes)
        /\ call[c].scopes \in SUBSET Scope /\ call[c].scopes \subseteq consented[call[c].acct]
    BY <1>4 DEF FillConsentCache, ConsentsTypeOK, CallState, CallsConsented
  <2>1. /\ call' \in [Call -> CallState] /\ page' \in [Page -> ConsentState]
        /\ CallsConsented'
    BY <2>0, WithConsentKeeps
  <2>2. cached' \in [Account -> CacheEntry] /\ StoresConsented'
    BY <1>4, <2>0, DefaultEntries DEF FillConsentCache, ConsentsTypeOK, StoresConsented
  <2> QED BY <2>0, <2>1, <2>2 DEF ConsentsTypeOK
<1> QED BY <1>1, <1>2, <1>3, <1>4 DEF Authorizing

\* The steps of SubmitConsent keep the invariant: what is approved is on the page that the
\* account was shown, and only this is saved and granted.
LEMMA SubmittingInv ==
  ASSUME ConsentsInv, NEW c \in Call, Submitting(c)
  PROVE  ConsentsInv'
<1> USE DEF ConsentsInv
<1>1. ASSUME NEW p \in Page, NEW a \in Account, NEW same \in BOOLEAN,
             SubmitConsent(c, p, a, same)
      PROVE  ConsentsInv'
  <2> DEFINE S == page[p].scopes
             saving == [NoCall EXCEPT !.pc = "saveClient", !.acct = a, !.asked = S]
  <2>0. S \in SUBSET Scope /\ page' \in [Page -> ConsentState]
    BY <1>1, DefaultEntries DEF SubmitConsent, ConsentsTypeOK, ConsentState
  <2>1. saving \in CallState /\ saving.pc = "saveClient" /\ saving.acct = a /\ saving.asked = S
    BY <2>0, DefaultCall DEF CallState, PC
  <2> HIDE DEF S, saving
  <2>2. CASE UNCHANGED <<call, consented>>
    BY <1>1, <2>0, <2>2 DEF SubmitConsent, ConsentsTypeOK, StoresConsented, CallsConsented
  <2>3. CASE /\ SamePage(p, a, same)
             /\ call' = [call EXCEPT ![c] = saving]
             /\ consented' = [consented EXCEPT ![a] = @ \cup Approves(a, p)]
    <3>1. consented' = [consented EXCEPT ![a] = @ \cup S]
      BY <2>3 DEF SamePage, Approves, S
    <3>2. /\ consented' \in [Account -> SUBSET Scope]
          /\ \A b \in Account : consented[b] \subseteq consented'[b]
          /\ S \subseteq consented'[a]
      BY <2>0, <3>1 DEF ConsentsTypeOK
    <3>3. /\ call' \in [Call -> CallState]
          /\ \A d \in Call : call'[d] = IF d = c THEN saving ELSE call[d]
      BY <2>1, <2>3 DEF ConsentsTypeOK
    <3>4. CallsConsented'
      BY <2>1, <3>2, <3>3 DEF CallsConsented
    <3>5. StoresConsented'
      BY <1>1, <3>2 DEF SubmitConsent, StoresConsented
    <3> QED BY <1>1, <2>0, <3>2, <3>3, <3>4, <3>5 DEF SubmitConsent, ConsentsTypeOK
  <2> QED BY <1>1, <2>2, <2>3 DEF SubmitConsent, S, saving
<1>2. CASE CheckClient(c)
  <2> DEFINE valid == ValidateScope(call[c].asked, clientScopes)
             saving == [call[c] EXCEPT !.pc = "saveRow", !.scopes = valid, !.asked = {}]
  <2>0. /\ call[c].acct \in Account
        /\ valid \in SUBSET Scope /\ valid \subseteq consented[call[c].acct]
    BY <1>2 DEF CheckClient, ConsentsTypeOK, CallState, CallsConsented
  <2>1. call' \in [Call -> CallState] /\ CallsConsented'
    <3>1. CASE Return(c)
      BY <1>2, <3>1, ReturnKeepsCalls DEF CheckClient
    <3>2. CASE call' = [call EXCEPT ![c] = saving]
      <4>1. /\ saving \in CallState
            /\ saving.pc = "saveRow" /\ saving.scopes = valid /\ saving.acct = call[c].acct
        BY <2>0 DEF ConsentsTypeOK, CallState, PC
      <4> HIDE DEF valid, saving
      <4> QED BY <1>2, <2>0, <3>2, <4>1 DEF CheckClient, ConsentsTypeOK, CallsConsented
    <3> QED BY <1>2, <3>1, <3>2 DEF CheckClient
  <2> QED BY <1>2, <2>1 DEF CheckClient, ConsentsTypeOK, StoresConsented
<1>3. CASE UpsertConsent(c)
  <2>1. call' \in [Call -> CallState] /\ CallsConsented'
    <3>1. CASE Return(c)
      BY <1>3, <3>1, ReturnKeepsCalls DEF UpsertConsent
    <3>2. CASE Goto(c, "saveCache")
      BY <1>3, <3>2 DEF UpsertConsent, ConsentsTypeOK, CallState, PC, CallsConsented
    <3> QED BY <1>3, <3>1, <3>2 DEF UpsertConsent
  <2>2. row' \in [Account -> SUBSET Scope] /\ StoresConsented'
    BY <1>3 DEF UpsertConsent, ConsentsTypeOK, CallState, StoresConsented, CallsConsented
  <2> QED BY <1>3, <2>1, <2>2 DEF UpsertConsent, ConsentsTypeOK
<1>4. CASE CacheConsent(c)
  <2>0. /\ call[c].acct \in Account /\ call[c].scopes \in SUBSET Scope
        /\ call[c].scopes \subseteq consented[call[c].acct]
    BY <1>4 DEF CacheConsent, ConsentsTypeOK, CallState, CallsConsented
  <2>1. call' \in [Call -> CallState] /\ CallsConsented'
    BY <1>4 DEF CacheConsent, ConsentsTypeOK, CallState, PC, CallsConsented
  <2>2. cached' \in [Account -> CacheEntry] /\ StoresConsented'
    BY <1>4, <2>0, DefaultEntries DEF CacheConsent, ConsentsTypeOK, StoresConsented
  <2> QED BY <1>4, <2>1, <2>2 DEF CacheConsent, ConsentsTypeOK
<1> QED BY <1>1, <1>2, <1>3, <1>4 DEF Submitting

\* The steps of DeleteConsent keep the invariant.
LEMMA DeletingInv ==
  ASSUME ConsentsInv, NEW c \in Call, Deleting(c)
  PROVE  ConsentsInv'
<1> USE DEF ConsentsInv
<1>1. ASSUME NEW a \in Account, SoftDeleteConsent(c, a) PROVE ConsentsInv'
  <2> DEFINE deleting == [NoCall EXCEPT !.pc = "deleteCache", !.acct = a]
  <2>1. deleting \in CallState /\ deleting.pc = "deleteCache" /\ deleting.acct = a
    BY DefaultCall DEF CallState, PC
  <2> HIDE DEF deleting
  <2>2. call' = [call EXCEPT ![c] = deleting] \/ UNCHANGED call
    BY <1>1 DEF SoftDeleteConsent, deleting
  <2>3. call' \in [Call -> CallState] /\ CallsConsented'
    BY <1>1, <2>1, <2>2 DEF SoftDeleteConsent, ConsentsTypeOK, CallsConsented
  <2>4. row' \in [Account -> SUBSET Scope] /\ StoresConsented'
    BY <1>1 DEF SoftDeleteConsent, ConsentsTypeOK, StoresConsented
  <2> QED BY <1>1, <2>3, <2>4 DEF SoftDeleteConsent, ConsentsTypeOK
<1>2. CASE DropCachedConsent(c)
  <2>1. call' \in [Call -> CallState] /\ CallsConsented'
    BY <1>2, ReturnKeepsCalls DEF DropCachedConsent
  <2>2. cached' \in [Account -> CacheEntry] /\ StoresConsented'
    BY <1>2, DefaultEntries DEF DropCachedConsent, ConsentsTypeOK, StoresConsented
  <2> QED BY <1>2, <2>1, <2>2 DEF DropCachedConsent, ConsentsTypeOK
<1> QED BY <1>1, <1>2 DEF Deleting

\* Every step of Consents other than the generation of a code keeps the invariant.
LEMMA ConsentStepInv == ConsentsInv /\ ConsentStep => ConsentsInv'
<1> SUFFICES ASSUME ConsentsInv, ConsentStep PROVE ConsentsInv'
  OBVIOUS
<1>1. ASSUME NEW c \in Call, Crash(c) PROVE ConsentsInv'
  <2>1. call' \in [Call -> CallState] /\ CallsConsented'
    BY <1>1, ReturnKeepsCalls DEF Crash, ConsentsInv
  <2> QED BY <1>1, <2>1 DEF Crash, ConsentsInv, ConsentsTypeOK, StoresConsented
<1>2. ASSUME NEW p \in Page, ConsentStateExpires(p) PROVE ConsentsInv'
  BY <1>2, DefaultEntries
     DEF ConsentStateExpires, ConsentsInv, ConsentsTypeOK, StoresConsented, CallsConsented
<1>3. ASSUME NEW a \in Account, DeleteConsentsByAccount(a) PROVE ConsentsInv'
  BY <1>3, DefaultEntries
     DEF DeleteConsentsByAccount, ConsentsInv, ConsentsTypeOK, StoresConsented, CallsConsented
<1>4. ASSUME NEW S \in SUBSET Scope, ChangeClient(S) PROVE ConsentsInv'
  BY <1>4 DEF ChangeClient, ConsentsInv, ConsentsTypeOK, StoresConsented, CallsConsented
<1> QED
  BY <1>1, <1>2, <1>3, <1>4, AuthorizingInv, SubmittingInv, DeletingInv DEF ConsentStep

\* The generation of a code keeps the invariant.
LEMMA GenerateCodeInv ==
  ASSUME ConsentsInv, NEW c \in Call, GenerateCode(c)
  PROVE  ConsentsInv'
<1>1. call' \in [Call -> CallState] /\ CallsConsented'
  BY ReturnKeepsCalls DEF GenerateCode, ConsentsInv
<1> QED BY <1>1 DEF GenerateCode, ConsentsInv, ConsentsTypeOK, StoresConsented

\* A step that leaves the consents alone keeps the invariant.
LEMMA ConsentsStutter == ConsentsInv /\ UNCHANGED consentVars => ConsentsInv'
BY DEF consentVars, ConsentsInv, ConsentsTypeOK, StoresConsented, CallsConsented

\* The inductive invariant of Consents holds in every reachable state.
LEMMA ConsentsAlwaysInv == ConsentsSpec => []ConsentsInv
<1>1. ConsentsInv /\ [ConsentsNext]_consentVars => ConsentsInv'
  BY ConsentStepInv, GenerateCodeInv, ConsentsStutter DEF ConsentsNext
<1> QED BY ConsentsInitInv, <1>1, PTL DEF ConsentsSpec

\* The keys, rows and requests of the authorize endpoint always have their types.
THEOREM ConsentsTypeCorrect == ConsentsSpec => []ConsentsTypeOK
<1>1. ConsentsInv => ConsentsTypeOK BY DEF ConsentsInv
<1> QED BY ConsentsAlwaysInv, <1>1, PTL

\* Authorize and SubmitConsent pass to GenerateCode only scopes that the account has
\* approved on a consent page shown to it.
THEOREM OnlyApprovedScopes == ConsentsSpec => []ScopesConsented
<1>1. ConsentsInv => ScopesConsented
  BY DEF ConsentsInv, CallsConsented, ScopesConsented
<1> QED BY ConsentsAlwaysInv, <1>1, PTL

-----------------------------------------------------------------------------
(* Codes and exchanges.                                                    *)

Ownership ==
    /\ \A x \in Exchange : ~Idle(x) =>
         /\ code[exch[x].code].state = "gone"
         /\ exch[x].terms = code[exch[x].code].terms
         /\ exch[x].terms \in Terms
         /\ receipt[exch[x].code] = <<>>
         /\ exch[x].code \notin misused
    /\ \A x, y \in Exchange : ~Idle(x) /\ ~Idle(y) /\ exch[x].code = exch[y].code => x = y

Bookkeeping ==
    /\ \A k \in Code : code[k].state = "stored" => code[k].terms \in Terms
    /\ \A k \in Code : code[k].state = "new" => code[k].terms = NoTerms
    /\ \A k \in Code : receipt[k] # <<>> =>
         code[k].state = "gone" /\ code[k].terms \in Terms /\ receipt[k] = <<code[k].terms>>
    /\ \A k \in misused : code[k].state = "gone" /\ receipt[k] = <<>>

\* The terms of a code are approved by its account.
CodesConsented ==
    \A k \in Code : code[k].terms \in Terms
                    => code[k].terms.scopes \subseteq consented[code[k].terms.acct]

CodesTypeOK ==
    /\ code \in [Code -> AuthorizationCode]
    /\ exch \in [Exchange -> ExchangeState]
    /\ misused \subseteq Code
    /\ receipt \in [Code -> Seq(Terms)]

CodesInv == CodesTypeOK /\ Ownership /\ Bookkeeping
Inv == ConsentsInv /\ CodesInv /\ CodesConsented

USE DEF Idle, Continue, Finish

\* An idle exchange is well typed.
LEMMA DefaultExchange == NoExchange \in ExchangeState /\ NoExchange.pc = "idle"
BY CodeAssumption DEF NoExchange, ExchangeState

\* No terms are not the terms of an account.
LEMMA NoTermsAreNone == NoTerms \notin Terms
BY NamesAssumption DEF NoTerms, Terms

\* The initial state satisfies the invariant.
LEMMA InitInv == Init => Inv
BY ConsentsInitInv, DefaultExchange, NoTermsAreNone
   DEF Init, Inv, CodesInv, CodesTypeOK, Ownership, Bookkeeping, CodesConsented,
       AuthorizationCode

\* What a handler passes to GenerateCode are terms that the account has approved.
LEMMA AgreedTerms ==
  ASSUME ConsentsInv, NEW c \in Call, At(c, "generate")
  PROVE  Agreed(c) \in Terms /\ Agreed(c).scopes \subseteq consented[Agreed(c).acct]
<1>1. call[c].acct \in Account /\ call[c].scopes \in SUBSET Scope
  BY DEF ConsentsInv, ConsentsTypeOK, CallsConsented, CallState
<1> QED BY <1>1 DEF Agreed, Terms, ConsentsInv, CallsConsented

\* Storing a code keeps what is known of codes and exchanges.
LEMMA StoreCodeInv ==
  ASSUME Inv, NEW c \in Call, NEW k \in Code, StoreCode(c, k)
  PROVE  CodesInv' /\ CodesConsented'
<1> DEFINE new == [state |-> "stored", terms |-> Agreed(c)]
<1>0. /\ Agreed(c) \in Terms /\ Agreed(c).scopes \subseteq consented[Agreed(c).acct]
      /\ consented' = consented /\ UNCHANGED <<exch, misused, receipt>>
      /\ code[k].state = "new" /\ code' = [code EXCEPT ![k] = new]
  BY AgreedTerms DEF StoreCode, GenerateCode, Inv
<1>1. new \in AuthorizationCode /\ new.state = "stored" /\ new.terms = Agreed(c)
  BY <1>0 DEF AuthorizationCode
<1> HIDE DEF new
<1>2. CodesTypeOK'
  BY <1>0, <1>1 DEF Inv, CodesInv, CodesTypeOK
<1>3. \A j \in Code : code'[j] = IF j = k THEN new ELSE code[j]
  BY <1>0 DEF Inv, CodesInv, CodesTypeOK
<1>4. Ownership'
  BY <1>0, <1>1, <1>3 DEF Inv, CodesInv, CodesTypeOK, Ownership, ExchangeState
<1>5. Bookkeeping'
  BY <1>0, <1>1, <1>3 DEF Inv, CodesInv, CodesTypeOK, Bookkeeping
<1>6. CodesConsented'
  BY <1>0, <1>1, <1>3 DEF Inv, CodesConsented
<1> QED BY <1>2, <1>4, <1>5, <1>6 DEF CodesInv

\* Neither expiry nor an exchange changes the terms of a code.
LEMMA TermsKept ==
  ASSUME Inv, \A k \in Code : code'[k].terms = code[k].terms, UNCHANGED consentVars
  PROVE  CodesConsented'
BY DEF Inv, CodesConsented, consentVars

\* A code that expires keeps what is known of codes and exchanges.
LEMMA CodeExpiresInv ==
  ASSUME Inv, NEW k \in Code, CodeExpires(k)
  PROVE  CodesInv' /\ CodesConsented'
<1> USE DEF Inv, CodesInv
<1>1. CodesTypeOK'
  BY DEF CodeExpires, CodesTypeOK, AuthorizationCode
<1>2. Ownership'
  BY DEF CodeExpires, CodesTypeOK, AuthorizationCode, Ownership, ExchangeState
<1>3. Bookkeeping'
  BY DEF CodeExpires, CodesTypeOK, AuthorizationCode, Bookkeeping
<1>4. CodesConsented'
  BY TermsKept DEF CodeExpires, CodesTypeOK, AuthorizationCode
<1> QED BY <1>1, <1>2, <1>3, <1>4

\* The script of ValidateCode gives the code to at most one exchange, and burns it.
LEMMA ValidateCodeInv ==
  ASSUME Inv, NEW x \in Exchange, NEW k \in Code, NEW m \in BOOLEAN, ValidateCode(x, k, m)
  PROVE  CodesInv' /\ CodesConsented'
<1> USE DEF Inv, CodesInv
<1>0. /\ code[k] \in AuthorizationCode
      /\ Taken(k, m) \in AuthorizationCode
      /\ Taken(k, m).state = "gone"
      /\ Taken(k, m).terms = code[k].terms
  BY DEF CodesTypeOK, Taken, AuthorizationCode
<1>1. CodesTypeOK'
  <2>1. code' \in [Code -> AuthorizationCode]
    BY <1>0 DEF ValidateCode, CodesTypeOK
  <2>2. exch' \in [Exchange -> ExchangeState]
    BY <1>0 DEF ValidateCode, CodesTypeOK, ExchangeState, AuthorizationCode
  <2>3. misused' \subseteq Code
    BY DEF ValidateCode, CodesTypeOK
  <2> QED BY <2>1, <2>2, <2>3 DEF ValidateCode, CodesTypeOK
<1>2. Ownership'
  <2>1. CASE UNCHANGED exch
    BY <1>0, <2>1
       DEF ValidateCode, CodesTypeOK, Ownership, ExchangeState, AuthorizationCode
  <2>2. CASE /\ m
             /\ exch' = [exch EXCEPT ![x] = [pc |-> "active", code |-> k,
                                             terms |-> code[k].terms]]
    BY <1>0, <2>2
       DEF ValidateCode, CodesTypeOK, Ownership, Bookkeeping, ExchangeState, AuthorizationCode
  <2> QED BY <2>1, <2>2 DEF ValidateCode
<1>3. Bookkeeping'
  BY <1>0 DEF ValidateCode, CodesTypeOK, Bookkeeping, AuthorizationCode
<1>4. CodesConsented'
  BY <1>0, TermsKept DEF ValidateCode, CodesTypeOK
<1> QED BY <1>1, <1>2, <1>3, <1>4

\* An exchange that goes on, fails or crashes keeps what is known of codes and exchanges.
LEMMA ExchangeMovesInv ==
  ASSUME Inv, NEW x \in Exchange, IsAccountActive(x) \/ ExchangeCrash(x)
  PROVE  CodesInv' /\ CodesConsented'
<1> USE DefaultExchange DEF Inv, CodesInv
<1>0. /\ ~Idle(x)
      /\ Continue(x, "issue") \/ Finish(x)
      /\ UNCHANGED <<consentVars, code, misused, receipt>>
  BY DEF IsAccountActive, ExchangeCrash
<1>1. CodesTypeOK' /\ Ownership'
  <2>1. CASE Continue(x, "issue")
    <3>1. CodesTypeOK'
      BY <1>0, <2>1 DEF CodesTypeOK, ExchangeState
    <3>2. Ownership'
      BY <1>0, <2>1 DEF CodesTypeOK, Ownership, ExchangeState
    <3> QED BY <3>1, <3>2
  <2>2. CASE Finish(x)
    <3>1. CodesTypeOK'
      BY <1>0, <2>2 DEF CodesTypeOK
    <3>2. Ownership'
      BY <1>0, <2>2 DEF CodesTypeOK, Ownership
    <3> QED BY <3>1, <3>2
  <2> QED BY <1>0, <2>1, <2>2
<1>2. Bookkeeping'
  BY <1>0 DEF Bookkeeping
<1>3. CodesConsented'
  BY <1>0, TermsKept
<1> QED BY <1>1, <1>2, <1>3

\* Tokens are paid out once, on the terms of the code.
LEMMA IssueTokensInv ==
  ASSUME Inv, NEW x \in Exchange, IssueTokens(x)
  PROVE  CodesInv' /\ CodesConsented'
<1> USE DefaultExchange DEF Inv, CodesInv
<1>0. /\ exch[x].code \in Code
      /\ exch[x].terms \in Terms /\ exch[x].terms = code[exch[x].code].terms
      /\ code[exch[x].code].state = "gone"
      /\ receipt[exch[x].code] = <<>>
      /\ exch[x].code \notin misused
      /\ \A y \in Exchange : y # x /\ ~Idle(y) => exch[y].code # exch[x].code
  BY DEF IssueTokens, CodesTypeOK, ExchangeState, Ownership
<1>1. CodesTypeOK'
  <2>1. exch' \in [Exchange -> ExchangeState]
    BY DEF IssueTokens, CodesTypeOK
  <2>2. Append(receipt[exch[x].code], exch[x].terms) \in Seq(Terms)
    BY <1>0 DEF CodesTypeOK
  <2>3. receipt' \in [Code -> Seq(Terms)]
    BY <2>2 DEF IssueTokens, CodesTypeOK
  <2> QED BY <2>1, <2>3 DEF IssueTokens, CodesTypeOK
<1>2. Ownership'
  BY <1>0 DEF IssueTokens, CodesTypeOK, Ownership, ExchangeState
<1>3. Bookkeeping'
  <2>1. Append(<<>>, exch[x].terms) = <<exch[x].terms>>
    OBVIOUS
  <2> QED BY <1>0, <2>1 DEF IssueTokens, CodesTypeOK, Bookkeeping
<1>4. CodesConsented'
  BY TermsKept DEF IssueTokens
<1> QED BY <1>1, <1>2, <1>3, <1>4

\* The accounts never withdraw what they have approved from the history.
LEMMA ApprovalsGrow ==
  ASSUME ConsentsInv, ConsentStep
  PROVE  \A a \in Account : consented[a] \subseteq consented'[a]
<1>1. ASSUME NEW c \in Call, NEW p \in Page, NEW a \in Account, NEW same \in BOOLEAN,
             SubmitConsent(c, p, a, same)
      PROVE  \A b \in Account : consented[b] \subseteq consented'[b]
  BY <1>1 DEF SubmitConsent, ConsentsInv, ConsentsTypeOK
<1>2. CASE UNCHANGED consented
  BY <1>2
<1> QED
  BY <1>1, <1>2
     DEF ConsentStep, Authorizing, Submitting, Deleting, Authorize, GetConsentCached,
         GetConsentRow, FillConsentCache, CheckClient, UpsertConsent, CacheConsent,
         SoftDeleteConsent, DropCachedConsent, Crash, ConsentStateExpires,
         DeleteConsentsByAccount, ChangeClient

\* Every step keeps the invariant.
LEMMA StepInv == Inv /\ [Next]_vars => Inv'
<1> SUFFICES ASSUME Inv, [Next]_vars PROVE Inv'
  OBVIOUS
<1>1. CASE ConsentStep /\ UNCHANGED codeVars
  <2>1. ConsentsInv'
    BY <1>1, ConsentStepInv DEF Inv
  <2>2. CodesInv'
    BY <1>1 DEF Inv, CodesInv, CodesTypeOK, Ownership, Bookkeeping, codeVars
  <2>3. CodesConsented'
    <3>1. \A a \in Account : consented[a] \subseteq consented'[a]
      BY <1>1, ApprovalsGrow DEF Inv
    <3>2. \A t \in Terms : t.acct \in Account
      BY DEF Terms
    <3> QED BY <1>1, <3>1, <3>2 DEF Inv, CodesConsented, codeVars
  <2> QED BY <2>1, <2>2, <2>3 DEF Inv
<1>2. ASSUME NEW c \in Call, NEW k \in Code, StoreCode(c, k) PROVE Inv'
  BY <1>2, StoreCodeInv, GenerateCodeInv DEF Inv, StoreCode
<1>3. ASSUME NEW c \in Call, StoreCodeFails(c) PROVE Inv'
  <2>1. ConsentsInv' /\ UNCHANGED consented
    BY <1>3, GenerateCodeInv DEF StoreCodeFails, GenerateCode, Inv
  <2> QED
    BY <1>3, <2>1 DEF StoreCodeFails, Inv, CodesInv, CodesTypeOK, Ownership, Bookkeeping,
                      CodesConsented, codeVars
<1>4. ASSUME NEW k \in Code, CodeExpires(k) PROVE Inv'
  BY <1>4, CodeExpiresInv, ConsentsStutter DEF Inv, CodeExpires
<1>5. ASSUME NEW x \in Exchange, Exchanging(x) PROVE Inv'
  <2>1. UNCHANGED consentVars
    BY <1>5 DEF Exchanging, ValidateCode, IsAccountActive, IssueTokens, ExchangeCrash
  <2>2. CodesInv' /\ CodesConsented'
    BY <1>5, ValidateCodeInv, ExchangeMovesInv, IssueTokensInv DEF Exchanging
  <2> QED BY <2>1, <2>2, ConsentsStutter DEF Inv
<1>6. CASE UNCHANGED vars
  <2>1. ConsentsInv'
    BY <1>6, ConsentsStutter DEF vars, Inv
  <2> QED
    BY <1>6, <2>1 DEF vars, codeVars, consentVars, Inv, CodesInv, CodesTypeOK, Ownership,
                      Bookkeeping, CodesConsented
<1> QED BY <1>1, <1>2, <1>3, <1>4, <1>5, <1>6 DEF Next

\* The inductive invariant holds in every reachable state.
LEMMA AlwaysInv == Spec => []Inv
BY InitInv, StepInv, PTL DEF Spec

\* The consents, codes, exchanges and receipts always have their types.
THEOREM CodesTypeCorrect == Spec => []TypeOK
<1>1. Inv => TypeOK BY DEF Inv, ConsentsInv, CodesInv, CodesTypeOK, TypeOK
<1> QED BY AlwaysInv, <1>1, PTL

\* A code presented with the wrong client, redirect URI or verifier never gives tokens.
THEOREM MisuseBurns == Spec => []MisusedCodeIsBurned
<1>1. Inv => MisusedCodeIsBurned
  BY DEF Inv, CodesInv, Ownership, Bookkeeping, MisusedCodeIsBurned
<1> QED BY AlwaysInv, <1>1, PTL

\* From the consent page to the token response no scope is added that the account has not
\* approved.
THEOREM OnlyApprovedTokens == Spec => []TokensConsented
<1>1. Inv => TokensConsented
  <2> SUFFICES ASSUME Inv, NEW k \in Code, NEW i \in DOMAIN receipt[k]
               PROVE  receipt[k][i].scopes \subseteq consented[receipt[k][i].acct]
    BY DEF TokensConsented
  <2>1. receipt[k] # <<>>
    OBVIOUS
  <2>2. code[k].terms \in Terms /\ receipt[k] = <<code[k].terms>>
    BY <2>1 DEF Inv, CodesInv, Bookkeeping
  <2>3. receipt[k][i] = code[k].terms
    BY <2>2
  <2> QED BY <2>2, <2>3 DEF Inv, CodesConsented
<1> QED BY AlwaysInv, <1>1, PTL

\* The composition does no more to the consents than Consents does alone: what is proved
\* of ConsentsSpec holds of the authorize endpoint inside Spec.
THEOREM CodesUseConsents == Spec => ConsentsSpec
<1>1. Init => ConsentsInit BY DEF Init
<1>2. [Next]_vars => [ConsentsNext]_consentVars
  BY DEF Next, vars, StoreCode, StoreCodeFails, CodeExpires, Exchanging, ValidateCode,
         IsAccountActive, IssueTokens, ExchangeCrash, ConsentsNext
<1> QED BY <1>1, <1>2, PTL DEF Spec, ConsentsSpec

-----------------------------------------------------------------------------
(* The refinement.                                                         *)

\* What a step does to the codes that are neither written nor held by its exchange.
LEMMA StageFrame ==
  ASSUME NEW k \in Code,
         code'[k] = code[k], receipt'[k] = receipt[k],
         (\E x \in Exchange : Holds(x, k))' <=> \E x \in Exchange : Holds(x, k)
  PROVE  Stage(k)' = Stage(k)
BY DEF Stage

\* Before any code is stored every code maps to a grant that is only proposed.
LEMMA InitRefines == Init => Grants!Init
BY DEF Init, Grants!Init, Stage

\* Every step of the codes maps to a step of OneTimeGrant or leaves the grants alone.
LEMMA StepRefines ==
  ASSUME Inv, Inv', [Next]_vars
  PROVE  [Grants!Next]_(<<[k \in Code |-> Stage(k)], [k \in Code |-> code[k].terms], receipt>>)
<1> DEFINE stage == [k \in Code |-> Stage(k)]
           terms == [k \in Code |-> code[k].terms]
<1> USE DEF Inv, CodesInv
<1>1. ASSUME NEW c \in Call, NEW k \in Code, StoreCode(c, k)
      PROVE  Agreed(c) \in Terms /\ Grants!Agree(k, Agreed(c))
  <2> DEFINE t == Agreed(c)
  <2>0. t \in Terms
    BY <1>1, AgreedTerms DEF StoreCode, GenerateCode
  <2> HIDE DEF t
  <2>1. stage[k] = "proposed" /\ stage'[k] = "agreed"
    BY <1>1 DEF StoreCode, t, Stage, CodesTypeOK, AuthorizationCode
  <2>2. \A j \in Code \ {k} : stage'[j] = stage[j]
    BY <1>1 DEF StoreCode, t, Stage, CodesTypeOK, AuthorizationCode, Holds
  <2>3. stage' = [stage EXCEPT ![k] = "agreed"]
    BY <2>1, <2>2
  <2>4. terms' = [terms EXCEPT ![k] = t]
    BY <1>1 DEF StoreCode, t, CodesTypeOK, AuthorizationCode
  <2> QED BY <1>1, <2>0, <2>1, <2>3, <2>4 DEF Grants!Agree, StoreCode, t
<1>2. ASSUME NEW k \in Code, CodeExpires(k)
      PROVE  Grants!Void({k}) \/ UNCHANGED <<stage, terms, receipt>>
  <2>1. stage[k] = "agreed" /\ stage'[k] = "void"
    BY <1>2 DEF CodeExpires, Stage, Holds, CodesTypeOK, AuthorizationCode, Ownership, Bookkeeping
  <2>2. \A j \in Code \ {k} : stage'[j] = stage[j]
    BY <1>2 DEF CodeExpires, Stage, CodesTypeOK, AuthorizationCode, Holds
  <2>3. stage' = [j \in Code |-> IF j \in {k} THEN "void" ELSE stage[j]]
    BY <2>1, <2>2
  <2>4. terms' = terms
    BY <1>2 DEF CodeExpires, CodesTypeOK, AuthorizationCode
  <2> QED BY <1>2, <2>1, <2>3, <2>4 DEF Grants!Void, CodeExpires
<1>3. ASSUME NEW x \in Exchange, NEW k \in Code, NEW m \in BOOLEAN, ValidateCode(x, k, m)
      PROVE  Grants!Take(k) \/ Grants!Void({k})
  <2>1. /\ stage[k] = "agreed"
        /\ code'[k].state = "gone"
        /\ receipt'[k] = <<>>
        /\ \A j \in Code \ {k} : code'[j] = code[j]
        /\ code'[k].terms = code[k].terms
    BY <1>3 DEF ValidateCode, Taken, Stage, CodesTypeOK, AuthorizationCode, Bookkeeping
  <2>2. \A j \in Code \ {k} : stage'[j] = stage[j]
    <3>1. \A j \in Code \ {k} :
             (\E y \in Exchange : Holds(y, j))' <=> \E y \in Exchange : Holds(y, j)
      <4>1. CASE UNCHANGED exch
        BY <4>1 DEF Holds
      <4>2. CASE exch' = [exch EXCEPT ![x] = [pc |-> "active", code |-> k,
                                              terms |-> code[k].terms]]
        BY <1>3, <4>2 DEF ValidateCode, Holds, CodesTypeOK, ExchangeState
      <4> QED BY <1>3, <4>1, <4>2 DEF ValidateCode
    <3> QED BY <1>3, <2>1, <3>1, StageFrame DEF ValidateCode
  <2>3. terms' = terms
    BY <2>1
  <2>4. stage'[k] \in {"taken", "void"}
    BY <2>1 DEF Stage
  <2>5. CASE stage'[k] = "taken"
    <3>1. stage' = [stage EXCEPT ![k] = "taken"]
      BY <2>2, <2>5
    <3> QED BY <1>3, <2>1, <2>3, <3>1 DEF Grants!Take, ValidateCode
  <2>6. CASE stage'[k] = "void"
    <3>1. stage' = [j \in Code |-> IF j \in {k} THEN "void" ELSE stage[j]]
      BY <2>2, <2>6
    <3> QED BY <1>3, <2>1, <2>3, <3>1 DEF Grants!Void, ValidateCode
  <2> QED BY <2>4, <2>5, <2>6
\* An exchange that ends without tokens voids the code it holds.
<1>4. ASSUME NEW x \in Exchange, ~Idle(x), Finish(x), UNCHANGED <<code, receipt>>
      PROVE  Grants!Void({exch[x].code})
  <2>0. PICK k \in Code : k = exch[x].code
    BY DEF CodesTypeOK, ExchangeState
  <2>1. /\ code[k].state = "gone" /\ receipt[k] = <<>>
        /\ \A y \in Exchange : y # x => ~Holds(y, k)
    BY <1>4, <2>0 DEF CodesTypeOK, Ownership, Holds
  <2>2. /\ \A y \in Exchange : y # x => (Holds(y, k)' <=> Holds(y, k))
        /\ ~Holds(x, k)'
    BY <1>4, DefaultExchange DEF Holds, CodesTypeOK
  <2>3. stage[k] = "taken" /\ stage'[k] = "void"
    BY <1>4, <2>0, <2>1, <2>2 DEF Stage, Holds
  <2>4. \A j \in Code \ {k} : stage'[j] = stage[j]
    <3>1. \A j \in Code \ {k} :
             (\E y \in Exchange : Holds(y, j))' <=> \E y \in Exchange : Holds(y, j)
      BY <1>4, <2>0, DefaultExchange DEF Holds, CodesTypeOK
    <3> QED BY <1>4, <3>1, StageFrame
  <2>5. stage' = [j \in Code |-> IF j \in {k} THEN "void" ELSE stage[j]]
    BY <2>1, <2>3, <2>4
  <2>6. terms' = terms
    BY <1>4
  <2> QED BY <1>4, <2>0, <2>1, <2>3, <2>5, <2>6 DEF Grants!Void
<1>5. ASSUME NEW x \in Exchange, exch[x].pc = "active", Continue(x, "issue"),
             UNCHANGED <<code, receipt>>
      PROVE  UNCHANGED <<stage, terms, receipt>>
  <2>1. \A y \in Exchange, j \in Code : Holds(y, j)' <=> Holds(y, j)
    BY <1>5 DEF Holds, CodesTypeOK, ExchangeState
  <2>2. \A j \in Code : Stage(j)' = Stage(j)
    BY <1>5, <2>1, StageFrame
  <2> QED BY <1>5, <2>2
<1>6. ASSUME NEW x \in Exchange, exch[x].pc = "issue", Finish(x), UNCHANGED code,
             receipt' = [receipt EXCEPT ![exch[x].code] = Append(@, exch[x].terms)]
      PROVE  Grants!HandOut(exch[x].code)
  <2>0. PICK k \in Code : k = exch[x].code
    BY DEF CodesTypeOK, ExchangeState
  <2>1. /\ code[k].state = "gone" /\ receipt[k] = <<>>
        /\ exch[x].terms = code[k].terms
        /\ Holds(x, k)
    BY <1>6, <2>0 DEF CodesTypeOK, Ownership, Holds
  <2>2. receipt' = [receipt EXCEPT ![k] = <<terms[k]>>]
    <3>1. Append(<<>>, exch[x].terms) = <<exch[x].terms>>
      OBVIOUS
    <3> QED BY <1>6, <2>0, <2>1, <3>1 DEF CodesTypeOK
  <2>3. receipt'[k] = <<terms[k]>> /\ \A j \in Code \ {k} : receipt'[j] = receipt[j]
    BY <2>1, <2>2 DEF CodesTypeOK
  <2>4. stage[k] = "taken" /\ stage'[k] = "spent"
    <3>1. <<terms[k]>> # <<>>
      OBVIOUS
    <3>2. code'[k].state = "gone"
      BY <1>6, <2>1
    <3> QED BY <2>1, <2>3, <3>1, <3>2 DEF Stage
  <2>5. \A j \in Code \ {k} : stage'[j] = stage[j]
    <3>1. \A j \in Code \ {k} :
             (\E y \in Exchange : Holds(y, j))' <=> \E y \in Exchange : Holds(y, j)
      BY <1>6, <2>0, DefaultExchange DEF Holds, CodesTypeOK
    <3> QED BY <1>6, <2>3, <3>1, StageFrame
  <2>6. stage' = [stage EXCEPT ![k] = "spent"]
    BY <2>1, <2>4, <2>5
  <2>7. terms' = terms
    BY <1>6
  <2> QED BY <2>0, <2>2, <2>4, <2>6, <2>7 DEF Grants!HandOut
<1>7. ASSUME UNCHANGED codeVars PROVE UNCHANGED <<stage, terms, receipt>>
  BY <1>7 DEF codeVars, Stage, Holds
<1>8. ASSUME NEW x \in Exchange, Exchanging(x)
      PROVE  Grants!Next \/ UNCHANGED <<stage, terms, receipt>>
  <2>1. ASSUME NEW k \in Code, NEW m \in BOOLEAN, ValidateCode(x, k, m) PROVE Grants!Next
    BY <2>1, <1>3 DEF Grants!Next
  <2>2. CASE IsAccountActive(x) \/ ExchangeCrash(x)
    <3>1. CASE Finish(x)
      <4>1. exch[x].code \in Code
        BY DEF CodesTypeOK, ExchangeState
      <4>2. Grants!Void({exch[x].code})
        BY <2>2, <3>1, <1>4 DEF IsAccountActive, ExchangeCrash
      <4> QED BY <4>1, <4>2 DEF Grants!Next
    <3>2. CASE IsAccountActive(x) /\ Continue(x, "issue")
      BY <3>2, <1>5 DEF IsAccountActive
    <3> QED BY <2>2, <3>1, <3>2 DEF IsAccountActive, ExchangeCrash
  <2>3. CASE IssueTokens(x)
    <3>1. exch[x].code \in Code
      BY DEF CodesTypeOK, ExchangeState
    <3>2. CASE UNCHANGED receipt
      <4>1. Grants!Void({exch[x].code})
        BY <2>3, <3>2, <1>4 DEF IssueTokens
      <4> QED BY <3>1, <4>1 DEF Grants!Next
    <3>3. CASE receipt' = [receipt EXCEPT ![exch[x].code] = Append(@, exch[x].terms)]
      <4>1. Grants!HandOut(exch[x].code)
        BY <2>3, <3>3, <1>6 DEF IssueTokens
      <4> QED BY <3>1, <4>1 DEF Grants!Next
    <3> QED BY <2>3, <3>2, <3>3 DEF IssueTokens
  <2> QED BY <1>8, <2>1, <2>2, <2>3 DEF Exchanging
<1>9. ASSUME Next PROVE Grants!Next \/ UNCHANGED <<stage, terms, receipt>>
  <2>1. ASSUME NEW c \in Call, NEW k \in Code, StoreCode(c, k) PROVE Grants!Next
    <3>1. PICK t : t = Agreed(c)
      OBVIOUS
    <3>2. t \in Terms /\ Grants!Agree(k, t)
      BY <2>1, <1>1, <3>1 DEF Grants!Agree
    <3> QED BY <3>2 DEF Grants!Next
  <2>2. ASSUME NEW k \in Code, CodeExpires(k)
        PROVE  Grants!Next \/ UNCHANGED <<stage, terms, receipt>>
    BY <2>2, <1>2 DEF Grants!Next
  <2>3. CASE (ConsentStep /\ UNCHANGED codeVars) \/ \E c \in Call : StoreCodeFails(c)
    <3>1. UNCHANGED codeVars
      BY <2>3 DEF StoreCodeFails
    <3> QED BY <3>1, <1>7
  <2> QED BY <1>9, <2>1, <2>2, <2>3, <1>8 DEF Next
<1> QED BY <1>7, <1>9 DEF vars

\* Authorization codes implement OneTimeGrant: agreed to once, taken at most once, and
\* paid out at most once, on the terms stored with the code, however many exchanges race.
THEOREM CodesAreOneTimeGrants == Spec => ImplementsOneTimeGrant
<1>1. Inv /\ Inv' /\ [Next]_vars
      => [Grants!Next]_(<<[k \in Code |-> Stage(k)], [k \in Code |-> code[k].terms], receipt>>)
  BY StepRefines
<1> QED
  BY AlwaysInv, InitRefines, <1>1, PTL DEF Spec, ImplementsOneTimeGrant, Grants!Spec
=============================================================================
