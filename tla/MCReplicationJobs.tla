------------------------- MODULE MCReplicationJobs -------------------------
(***************************************************************************)
(* Two edges, e1 first on the ring: with replication factor 1 the fail-over*)
(* of e1 has a replacement, and recovery moves placement back.  One edge   *)
(* is enough to let the handlers, two jobs and a late run fight for a row. *)
(***************************************************************************)
EXTENDS ReplicationJobs, TLC

CONSTANTS s1, s2, a1, a2, r1

MCEdges == {"e1", "e2"}
MCPosition == ("e1" :> 1) @@ ("e2" :> 2)
MCOneEdge == {"e1"}
MCOnePosition == "e1" :> 1
Symmetry == Permutations(Slots)
=============================================================================
