---------------------------- MODULE MCEdgeHealth ----------------------------
(***************************************************************************)
(* Two scans at a time, the code's threshold of three missed cycles.       *)
(***************************************************************************)
EXTENDS EdgeHealth

CONSTANTS s1, s2
=============================================================================
