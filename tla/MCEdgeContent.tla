--------------------------- MODULE MCEdgeContent ---------------------------
(***************************************************************************)
(* Two versions of a file, the second large enough for the disk, on two    *)
(* edges; one of them is responsible for the file.                         *)
(***************************************************************************)
EXTENDS EdgeContent, TLC

CONSTANTS e1, e2, r1, r2, r3

MCSymmetry == Permutations(Processes)
=============================================================================
