---------------------------- MODULE OneTimeGrant ----------------------------
(***************************************************************************)
(* What an authorization grant promises, whatever it is stored in and      *)
(* whoever races for it.  A user agrees to a grant once, on some terms; it *)
(* is taken at most once; and tokens are handed out for it at most once,   *)
(* on the very terms agreed to.  A grant that is refused, lapses or whose  *)
(* taker fails is void and stays void.                                     *)
(***************************************************************************)
EXTENDS Sequences

CONSTANTS Grant, Terms, NoTerms

VARIABLES
    stage,    \* how far each grant has come
    terms,    \* what its user agreed to
    receipt   \* the token responses given for it, by their terms

Init ==
    /\ stage = [g \in Grant |-> "proposed"]
    /\ terms = [g \in Grant |-> NoTerms]
    /\ receipt = [g \in Grant |-> <<>>]

Agree(g, t) ==
    /\ stage[g] = "proposed"
    /\ stage' = [stage EXCEPT ![g] = "agreed"]
    /\ terms' = [terms EXCEPT ![g] = t]
    /\ UNCHANGED receipt

Take(g) ==
    /\ stage[g] = "agreed"
    /\ stage' = [stage EXCEPT ![g] = "taken"]
    /\ UNCHANGED <<terms, receipt>>

HandOut(g) ==
    /\ stage[g] = "taken"
    /\ stage' = [stage EXCEPT ![g] = "spent"]
    /\ receipt' = [receipt EXCEPT ![g] = <<terms[g]>>]
    /\ UNCHANGED terms

\* Refusal, failure, or several grants lapsing at the same moment.
Void(G) ==
    /\ \A g \in G : stage[g] # "spent"
    /\ stage' = [g \in Grant |-> IF g \in G THEN "void" ELSE stage[g]]
    /\ UNCHANGED <<terms, receipt>>

Next ==
    \/ \E g \in Grant : Take(g) \/ HandOut(g)
    \/ \E g \in Grant, t \in Terms : Agree(g, t)
    \/ \E G \in SUBSET Grant : Void(G)

Spec == Init /\ [][Next]_<<stage, terms, receipt>>
=============================================================================
