---------------------------- MODULE MCPasswords ----------------------------
(* Instance for model checking; the constants are given in the .cfg files. *)
EXTENDS Passwords, TLC
=============================================================================
