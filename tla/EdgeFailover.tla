---------------------------- MODULE EdgeFailover ----------------------------
(***************************************************************************)
(* Replication composed with the health service it takes its edges from.   *)
(* The health of one edge, Node, is that of EdgeHealth; the other edges    *)
(* change theirs as ReplicationJobs allows.  The two components meet in    *)
(* the node map, which getHealthyNodes filters, and in the Kafka topic     *)
(* edge.health_changed.                                                    *)
(***************************************************************************)
EXTENDS ReplicationJobs

CONSTANTS Node, Scans, Threshold, ScansPerRefresh, MaxFaults
VARIABLES beat, db, current, former, scan, refresh, calm, faults

H == INSTANCE EdgeHealth

health == <<beat, db, current, former, scan, refresh, calm, faults>>
everything == <<vars, health>>

SystemInit ==
    /\ Init /\ H!Init
    /\ Node \in healthy <=> current.status = "HEALTHY"

\* emitEdgeHealthChanged, with no await after the update of the row.
SaysDown == \E s \in Scans : H!Write(s) /\ scan[s].new = "DOWN"

\* A step of the health service as replication sees it.
HealthStep ==
    /\ H!Next
    /\ healthy' = IF current'.status = "HEALTHY" THEN healthy \cup {Node} ELSE healthy \ {Node}
    /\ downs' = IF SaysDown THEN downs \cup {Node} ELSE downs
    /\ UNCHANGED <<ring, events, row, jobs, task, late, history>>

ReplicationStep ==
    /\ Replicate \/ \E e \in Edges \ {Node} : HealthChange(e)
    /\ UNCHANGED health

SystemNext == HealthStep \/ ReplicationStep

SystemSpec == SystemInit /\ [][SystemNext]_everything
=============================================================================
