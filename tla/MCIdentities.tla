---------------------------- MODULE MCIdentities ----------------------------
(* Instance for model checking; the constants are given in the .cfg files. *)
EXTENDS Identities, TLC

Symmetry == Permutations(Req) \cup Permutations(Account) \cup Permutations(Email)
            \cup Permutations(Identity)
=============================================================================
