---------------------------- MODULE TokenFamily ----------------------------
(***************************************************************************)
(* What refresh-token rotation promises, without Redis, locks or retries.  *)
(* A family begins with a login or a code exchange and is named by its     *)
(* first token.  While it lasts exactly one token of it is current; a      *)
(* rotation replaces the current token by one never used before, and a     *)
(* family that has ended has no current token again.                       *)
(***************************************************************************)
CONSTANTS Token, NoToken

VARIABLES
    cur,   \* the current token of each family
    used   \* the tokens that are or were current somewhere

Current(f) == cur[f] # NoToken

Init ==
    /\ cur = [f \in Token |-> NoToken]
    /\ used = {}

Begin(f) ==
    /\ f \notin used
    /\ cur' = [cur EXCEPT ![f] = f]
    /\ used' = used \cup {f}

Rotate(f, u) ==
    /\ Current(f)
    /\ u \notin used
    /\ cur' = [cur EXCEPT ![f] = u]
    /\ used' = used \cup {u}

\* Revocation, logout, or the expiry of several families at once.
End(F) ==
    /\ \A f \in F : Current(f)
    /\ cur' = [f \in Token |-> IF f \in F THEN NoToken ELSE cur[f]]
    /\ UNCHANGED used

Next ==
    \/ \E f \in Token : Begin(f)
    \/ \E f, u \in Token : Rotate(f, u)
    \/ \E F \in SUBSET Token : End(F)

Spec == Init /\ [][Next]_<<cur, used>>
=============================================================================
