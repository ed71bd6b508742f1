------------------------- MODULE MCRefreshTokens -------------------------
(* Instances of RefreshTokens for TLC.                                     *)
EXTENDS RefreshTokens, TLC

Symmetry == Permutations(Token) \cup Permutations(Request)
=============================================================================
