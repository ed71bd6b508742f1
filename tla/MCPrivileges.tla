---------------------------- MODULE MCPrivileges ----------------------------
(* Instance for model checking; the constants are given in the .cfg file. *)
EXTENDS Privileges, TLC

Symmetry == Permutations(Account) \cup Permutations(Call)
=============================================================================
