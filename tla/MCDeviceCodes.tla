---------------------------- MODULE MCDeviceCodes ----------------------------
(* Instances of DeviceCodes for TLC.                                       *)
EXTENDS DeviceCodes, TLC

Symmetry == Permutations(Account) \cup Permutations(Call)
=============================================================================
