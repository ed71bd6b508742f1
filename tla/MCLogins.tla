------------------------------ MODULE MCLogins ------------------------------
(* Instance for model checking; the constants are given in the .cfg files. *)
EXTENDS Logins, TLC

Symmetry == Permutations(Req) \cup Permutations(Account) \cup Permutations(Token)
=============================================================================
