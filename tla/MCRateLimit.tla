---------------------------- MODULE MCRateLimit -----------------------------
(***************************************************************************)
(* Three requests of one client at a time on a route with two guards.      *)
(***************************************************************************)
EXTENDS RateLimit, TLC

CONSTANTS r1, r2, r3

Symmetry == Permutations(Requests)
=============================================================================
