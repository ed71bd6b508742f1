----------------------------- MODULE MCAuthCodes -----------------------------
(* Instances of AuthCodes, with Consents, for TLC.                         *)
EXTENDS AuthCodes, TLC

Symmetry == Permutations(Account) \cup Permutations(Scope) \cup Permutations(Exchange)
            \cup Permutations(Call)
=============================================================================
