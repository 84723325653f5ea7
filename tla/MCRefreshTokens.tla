-------------------------- MODULE MCRefreshTokens ---------------------------
(***************************************************************************)
(* Two requests of one user at a time.                                     *)
(***************************************************************************)
EXTENDS RefreshTokens, TLC

CONSTANTS r1, r2, r3

Symmetry == Permutations(Requests)
=============================================================================
