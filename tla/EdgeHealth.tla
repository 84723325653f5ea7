----------------------------- MODULE EdgeHealth -----------------------------
(***************************************************************************)
(* The health of one edge node as HealthCheckService keeps it              *)
(* (apps/core/src/common/health-check/health-check.service.ts): heartbeats *)
(* with a time to live in Redis, the scanner that runs every 5 s, and the  *)
(* refresh of the node map from the database every 300 s.  Edges have      *)
(* separate records, so one edge is enough.                                *)
(*                                                                         *)
(* Both timers start their callback whether or not an earlier one is still *)
(* suspended at an await.  A refresh replaces the record of the node; a    *)
(* scan that was suspended goes on with the record it had.                 *)
(***************************************************************************)
EXTENDS Naturals, FiniteSets

CONSTANTS
    Scans,            \* scans that may be under way at a time
    Threshold,        \* missed cycles that make an edge DOWN: 3 in the code
    ScansPerRefresh,  \* scans started between two refreshes: 60 in the code
    MaxFaults         \* bound on Redis and database errors

ASSUME HealthAssumption ==
    /\ Threshold \in Nat \ {0} /\ ScansPerRefresh \in Nat /\ MaxFaults \in Nat

Conditions == {"HEALTHY", "DEGRADED", "DOWN"}

VARIABLES
    beat,     \* the key edge:{id}:heartbeat exists
    db,       \* EdgeNode.status; each write is followed by edge.health_changed
    current,  \* the node's record in nodeMap
    former,   \* its record in the map that the last refresh replaced
    scan,     \* what each scan is doing, with which record
    refresh,  \* what the refresh is doing: idle, or the status it has read
    calm,     \* scans started since the last refresh, up to ScansPerRefresh
    faults    \* errors so far

vars == <<beat, db, current, former, scan, refresh, calm, faults>>

Resting == [pc |-> "idle", on |-> "current", found |-> FALSE, new |-> "HEALTHY"]
Capped(n) == IF n > Threshold THEN Threshold ELSE n

\* onModuleInit loads the node from the database.
Init ==
    /\ beat \in BOOLEAN
    /\ db \in Conditions
    /\ current = [status |-> db, missed |-> 0]
    /\ former = current
    /\ scan = [s \in Scans |-> Resting]
    /\ refresh = "idle" /\ calm = 0 /\ faults = 0

-----------------------------------------------------------------------------
\* sendHeartbeat: SET ... EX 15.
Heartbeat ==
    /\ beat' = TRUE
    /\ UNCHANGED <<db, current, former, scan, refresh, calm, faults>>

\* The key expires: the edge is down, or its heartbeats are lost or late.
Expire ==
    /\ beat' = FALSE
    /\ UNCHANGED <<db, current, former, scan, refresh, calm, faults>>

\* The timer fires; the scan takes the record and asks Redis for the key.  Replies
\* come in order on the one connection: bound, one question at a time.
StartScan(s) ==
    /\ scan[s].pc = "idle" /\ \A r \in Scans : scan[r].pc # "check"
    /\ scan' = [scan EXCEPT ![s] = [Resting EXCEPT !.pc = "check", !.found = beat]]
    /\ calm' = IF calm < ScansPerRefresh THEN calm + 1 ELSE calm
    /\ UNCHANGED <<beat, db, current, former, refresh, faults>>

Record(s) == IF scan[s].on = "current" THEN current ELSE former

\* Mutants: a status the schema does not have; DOWN only from HEALTHY; recovery
\* only from DOWN.
UnknownTarget(found, status, missed) ==
    IF found THEN IF status = "HEALTHY" THEN "none" ELSE "UP" ELSE "none"
DownFromHealthy(found, status, missed) ==
    CASE found -> IF status = "HEALTHY" THEN "none" ELSE "HEALTHY"
      [] ~found /\ missed >= Threshold /\ status = "HEALTHY" -> "DOWN"
      [] ~found /\ missed < Threshold /\ status = "HEALTHY" -> "DEGRADED"
      [] OTHER -> "none"
RecoverFromDown(found, status, missed) ==
    CASE found -> IF status = "DOWN" THEN "HEALTHY" ELSE "none"
      [] ~found /\ missed >= Threshold /\ status # "DOWN" -> "DOWN"
      [] ~found /\ missed < Threshold /\ status = "HEALTHY" -> "DEGRADED"
      [] OTHER -> "none"

\* Which status a scan moves the node to, if any.
Target(found, status, missed) ==
    CASE found -> IF status = "HEALTHY" THEN "none" ELSE "HEALTHY"
      [] ~found /\ missed >= Threshold /\ status # "DOWN" -> "DOWN"
      [] ~found /\ missed < Threshold /\ status = "HEALTHY" -> "DEGRADED"
      [] OTHER -> "none"

\* Redis has answered: count the miss on the scan's record, and let
\* transitionStatus set the status of the record that is in the map now.
Check(s) ==
    LET missed == IF scan[s].found THEN Record(s).missed ELSE Capped(Record(s).missed + 1)
        new == Target(scan[s].found, Record(s).status, missed)
    IN
    /\ scan[s].pc = "check"
    /\ current' = [status |-> IF new = "none" THEN current.status ELSE new,
                   missed |-> IF scan[s].on = "current" THEN missed ELSE current.missed]
    /\ former' = IF scan[s].on = "former" THEN [former EXCEPT !.missed = missed] ELSE former
    /\ scan' = [scan EXCEPT ![s] = IF new = "none" THEN Resting
                                   ELSE [@ EXCEPT !.pc = "write", !.new = new]]
    /\ UNCHANGED <<beat, db, refresh, calm, faults>>

\* The update is written and the event emitted; after a recovery missedCycles of
\* the scan's own record is reset.
Write(s) ==
    /\ scan[s].pc = "write"
    /\ db' = scan[s].new
    /\ current' = IF scan[s].found /\ scan[s].on = "current"
                  THEN [current EXCEPT !.missed = 0] ELSE current
    /\ former' = IF scan[s].found /\ scan[s].on = "former"
                 THEN [former EXCEPT !.missed = 0] ELSE former
    /\ scan' = [scan EXCEPT ![s] = Resting]
    /\ UNCHANGED <<beat, refresh, calm, faults>>

\* Redis or the database rejects the call: the scan ends there.
ScanFails(s) ==
    /\ scan[s].pc # "idle" /\ faults < MaxFaults
    /\ faults' = faults + 1
    /\ scan' = [scan EXCEPT ![s] = Resting]
    /\ UNCHANGED <<beat, db, current, former, refresh, calm>>

\* refreshNodeMap: the query, and later the swap of the map.
StartRefresh ==
    /\ refresh = "idle" /\ calm = ScansPerRefresh
    /\ refresh' = db
    /\ UNCHANGED <<beat, db, current, former, scan, calm, faults>>

\* Bound: a scan does not outlive two refreshes.
SwapMap ==
    /\ refresh # "idle"
    /\ \A s \in Scans : scan[s].on = "current"
    /\ current' = [current EXCEPT !.status = refresh]
    /\ former' = current
    /\ scan' = [s \in Scans |-> IF scan[s].pc = "idle" THEN Resting
                                ELSE [scan[s] EXCEPT !.on = "former"]]
    /\ refresh' = "idle" /\ calm' = 0
    /\ UNCHANGED <<beat, db, faults>>

-----------------------------------------------------------------------------
Next ==
    \/ Heartbeat \/ Expire
    \/ \E s \in Scans : StartScan(s) \/ Check(s) \/ Write(s) \/ ScanFails(s)
    \/ StartRefresh \/ SwapMap

Spec == Init /\ [][Next]_vars

\* The timers keep firing and every await settles.
FairSpec ==
    /\ Spec
    /\ WF_vars(\E s \in Scans : StartScan(s))
    /\ \A s \in Scans : WF_vars(Check(s) \/ Write(s))
    /\ WF_vars(StartRefresh) /\ WF_vars(SwapMap)

-----------------------------------------------------------------------------
(* Properties                                                              *)

RecordType == [status : Conditions, missed : 0 .. Threshold]

\* Every record, scan and counter has its type.
TypeOK ==
    /\ beat \in BOOLEAN /\ db \in Conditions
    /\ current \in RecordType /\ former \in RecordType
    /\ scan \in [Scans -> [pc : {"idle", "check", "write"}, on : {"current", "former"},
                           found : BOOLEAN, new : Conditions]]
    /\ refresh \in {"idle"} \cup Conditions
    /\ calm \in 0 .. ScansPerRefresh /\ faults \in 0 .. MaxFaults

\* An edge whose heartbeats keep arriving ends up HEALTHY for good, in memory and
\* in the database, however scans overlap, refreshes load stale rows or a few
\* calls fail (README: "Recovery is automatic on the next heartbeat").
Recovers ==
    <>[]beat => <>[](current.status = "HEALTHY" /\ db = "HEALTHY")

\* An edge whose heartbeats have stopped ends up DOWN for good, in memory and in
\* the database, and is announced as such.
DetectsCrash ==
    <>[](~beat) => <>[](current.status = "DOWN" /\ db = "DOWN")
=============================================================================
