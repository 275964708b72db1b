--------------------------- MODULE MCRefreshTokens ---------------------------
(***************************************************************************)
(* RefreshTokens on small instances.  Tokens and handler goroutines are    *)
(* interchangeable, accounts too.                                          *)
(***************************************************************************)
EXTENDS RefreshTokens, TLC

Symmetry == Permutations(Tokens) \cup Permutations(Reqs) \cup Permutations(Users)
=============================================================================
