----------------------- MODULE ReplicationJobsProofs -----------------------
(***************************************************************************)
(* What holds of ReplicationJobs for any number of edges, slots, attempts, *)
(* pending events and handlers at work.                                    *)
(***************************************************************************)
EXTENDS EdgeFailover, TLAPS

USE DEF history

\* A job in the queue, and a handler about to queue one, name an edge.
JobsNamed ==
    /\ \A s \in Slots : jobs[s].state # "free" => jobs[s].edge \in Edges
    /\ \A n \in Runs : late[n].state # "free" => late[n].edge \in Edges
TasksNamed == \A h \in Handlers : At(h, "enqueue") => task[h].edge \in Edges
\* The message a dispatch is working on is not yet acknowledged.
EventHeld == ~At("file", "idle") => events > 0

TypeInv == TypeOK /\ JobsNamed /\ TasksNamed /\ EventHeld

LEMMA Shapes ==
  NoRow \in RowType /\ NoJob \in JobType /\ Idle \in TaskType
  BY ReplicationAssumption DEF NoRow, RowType, NoJob, JobType, Idle, TaskType, EdgeOrNone

\* What becomes of a job that failed, or that stalled.
LEMMA JobAfter ==
  ASSUME NEW s \in Slots, jobs[s] \in JobType
  PROVE  /\ JobAfterFailure(s) \in JobType /\ JobAfterStall(s) \in JobType
         /\ \/ JobAfterFailure(s) = NoJob
            \/ /\ JobAfterFailure(s).state = "waiting" /\ JobAfterFailure(s).edge = jobs[s].edge
               /\ JobAfterFailure(s).made = jobs[s].made + 1
               /\ JobAfterFailure(s).stalls = jobs[s].stalls
               /\ ~IsFinalAttempt(jobs[s])
         /\ \/ JobAfterStall(s) = NoJob
            \/ /\ JobAfterStall(s).state = "waiting" /\ JobAfterStall(s).edge = jobs[s].edge
               /\ JobAfterStall(s).made = jobs[s].made
               /\ JobAfterStall(s).stalls = jobs[s].stalls + 1
         /\ NoJob.state = "free"
  <1> USE ReplicationAssumption
  <1>1. /\ JobAfterFailure(s) \in JobType
        /\ \/ JobAfterFailure(s) = NoJob
           \/ /\ JobAfterFailure(s).state = "waiting" /\ JobAfterFailure(s).edge = jobs[s].edge
              /\ JobAfterFailure(s).made = jobs[s].made + 1
              /\ JobAfterFailure(s).stalls = jobs[s].stalls
              /\ ~IsFinalAttempt(jobs[s])
    <2>1. CASE IsFinalAttempt(jobs[s])
      BY <2>1, Shapes DEF JobAfterFailure, IsFinalAttempt
    <2>2. CASE ~IsFinalAttempt(jobs[s])
      <3>1. jobs[s].made + 1 \in 0 .. MaxAttempts - 1
        BY <2>2 DEF JobType, IsFinalAttempt
      <3>2. JobAfterFailure(s) = [jobs[s] EXCEPT !.state = "waiting", !.made = @ + 1]
        BY <2>2 DEF JobAfterFailure, IsFinalAttempt
      <3> QED
        BY <2>2, <3>1, <3>2 DEF JobType
    <2> QED
      BY <2>1, <2>2
  <1>2. /\ JobAfterStall(s) \in JobType
        /\ \/ JobAfterStall(s) = NoJob
           \/ /\ JobAfterStall(s).state = "waiting" /\ JobAfterStall(s).edge = jobs[s].edge
              /\ JobAfterStall(s).made = jobs[s].made
              /\ JobAfterStall(s).stalls = jobs[s].stalls + 1
    <2>1. CASE jobs[s].stalls >= MaxStalls
      BY <2>1, Shapes DEF JobAfterStall
    <2>2. CASE ~(jobs[s].stalls >= MaxStalls)
      <3>1. jobs[s].stalls + 1 \in 0 .. MaxStalls
        BY <2>2 DEF JobType
      <3>2. JobAfterStall(s) = [jobs[s] EXCEPT !.state = "waiting", !.stalls = @ + 1]
        BY <2>2 DEF JobAfterStall
      <3> QED
        BY <3>1, <3>2 DEF JobType
    <2> QED
      BY <2>1, <2>2
  <1>3. NoJob.state = "free"
    BY DEF NoJob
  <1> QED
    BY <1>1, <1>2, <1>3

\* What a run writes, and what is owed after it.
LEMMA Written ==
  /\ Success \in RowType
  /\ \A j : IsFinalAttempt(j) \in BOOLEAN /\ Failure(j) \in RowType
  /\ \A e \in Edges : \A r : owed \in SUBSET Edges => Owing(e, r) \in SUBSET Edges
  <1>1. Success \in RowType
    BY DEF Success, RowType
  <1>2. \A j : IsFinalAttempt(j) \in BOOLEAN
    BY DEF IsFinalAttempt
  <1>3. \A j : Failure(j) \in RowType
    BY <1>2 DEF Failure, RowType
  <1>4. \A e \in Edges : \A r : owed \in SUBSET Edges => Owing(e, r) \in SUBSET Edges
    BY DEF Owing
  <1> QED
    BY <1>1, <1>2, <1>3, <1>4

LEMMA TypeInvInit == Init => TypeInv
  <1> SUFFICES ASSUME Init PROVE TypeInv
    OBVIOUS
  <1>1. TypeOK
    BY Shapes, ReplicationAssumption DEF Init, TypeOK
  <1>2. JobsNamed /\ TasksNamed /\ EventHeld
    BY DEF Init, JobsNamed, TasksNamed, EventHeld, At, NoJob, Idle
  <1> QED
    BY <1>1, <1>2 DEF TypeInv

\* A handler that takes on a task in which it queues nothing at once.
LEMMA BeginType ==
  ASSUME TypeInv, NEW h \in Handlers, NEW t \in TaskType, t.pc # "enqueue",
         task' = [task EXCEPT ![h] = t]
  PROVE  task' \in [Handlers -> TaskType] /\ TasksNamed'
  BY DEF TypeInv, TypeOK, TasksNamed, At

LEMMA TypeInvNext == TypeInv /\ [Next]_vars => TypeInv'
  <1> USE ReplicationAssumption
  <1>1. ASSUME TypeInv, FileEvent PROVE TypeInv'
    BY <1>1 DEF TypeInv, TypeOK, FileEvent, JobsNamed, TasksNamed, EventHeld, At
  <1>2. ASSUME TypeInv, NEW e \in Edges, HealthChange(e) PROVE TypeInv'
    BY <1>2 DEF TypeInv, TypeOK, HealthChange, JobsNamed, TasksNamed, EventHeld, At
  <1>3. ASSUME TypeInv, Dispatch PROVE TypeInv'
    <2> DEFINE t == [Idle EXCEPT !.pc = "upsert", !.todo = GetNodes(healthy)]
    <2>1. t \in TaskType /\ t.pc # "enqueue" /\ "file" \in Handlers
      BY <1>3 DEF TypeInv, TypeOK, Idle, TaskType, GetNodes, EdgeOrNone, Handlers
    <2>2. CASE UNCHANGED <<ring, task>> /\ events' = events - 1
      BY <1>3, <2>2 DEF TypeInv, TypeOK, Dispatch, MayBegin, JobsNamed, TasksNamed, EventHeld, At
    <2>3. CASE ring' = healthy /\ task' = [task EXCEPT !["file"] = t] /\ UNCHANGED events
      <3>1. task' \in [Handlers -> TaskType] /\ TasksNamed'
        BY <1>3, <2>1, <2>3, BeginType
      <3> QED
        BY <1>3, <2>3, <3>1 DEF TypeInv, TypeOK, Dispatch, JobsNamed, EventHeld, At
    <2> QED
      BY <1>3, <2>2, <2>3 DEF Dispatch
  <1>4. ASSUME TypeInv, NEW e \in Edges, Failover(e) PROVE TypeInv'
    <2> DEFINE t == [Idle EXCEPT !.pc = "choose", !.lost = e, !.seen = healthy]
    <2>1. t \in TaskType /\ t.pc # "enqueue" /\ "health" \in Handlers
      BY <1>4 DEF TypeInv, TypeOK, Idle, TaskType, EdgeOrNone, Handlers
    <2>2. CASE UNCHANGED task /\ downs' = downs \ {e}
      BY <1>4, <2>2 DEF TypeInv, TypeOK, Failover, JobsNamed, TasksNamed, EventHeld, At
    <2>3. CASE task' = [task EXCEPT !["health"] = t] /\ UNCHANGED downs
      <3>1. task' \in [Handlers -> TaskType] /\ TasksNamed'
        BY <1>4, <2>1, <2>3, BeginType
      <3>2. task'["file"] = task["file"]
        BY <1>4, <2>3 DEF TypeInv, TypeOK, Handlers
      <3> QED
        BY <1>4, <2>3, <3>1, <3>2 DEF TypeInv, TypeOK, Failover, JobsNamed, EventHeld, At
    <2> QED
      BY <1>4, <2>2, <2>3 DEF Failover
  <1>5. ASSUME TypeInv, PlanFailover PROVE TypeInv'
    <2> DEFINE t == task["health"]
               todo == {n \in t.seen : n = t.lost \/ ~Live(row[n].status)}
               u == [t EXCEPT !.pc = "upsert", !.seen = {}, !.todo = todo]
    <2>1. t \in TaskType /\ "health" \in Handlers /\ "file" \in Handlers
      BY <1>5 DEF TypeInv, TypeOK, Handlers
    <2>2. todo \in SUBSET Edges
      BY <2>1 DEF TaskType
    <2>3. u \in TaskType /\ u.pc = "upsert"
      <3> HIDE DEF todo, t
      <3> QED
        BY <2>1, <2>2 DEF TaskType
    <2>4. \E v \in {u, Idle} : task' = [task EXCEPT !["health"] = v]
      BY <1>5 DEF PlanFailover, Finish
    <2>5. task' \in [Handlers -> TaskType] /\ TasksNamed' /\ task'["file"] = task["file"]
      <3> HIDE DEF u
      <3>1. Idle \in TaskType /\ Idle.pc = "idle"
        BY Shapes DEF Idle
      <3>2. task'["file"] = task["file"]
        BY <1>5, <2>1, <2>4 DEF TypeInv, TypeOK
      <3> QED
        BY <1>5, <2>1, <2>3, <2>4, <3>1, <3>2, BeginType
    <2>6. downs' \in SUBSET Edges
      BY <1>5 DEF TypeInv, TypeOK, PlanFailover
    <2> QED
      BY <1>5, <2>5, <2>6 DEF TypeInv, TypeOK, PlanFailover, JobsNamed, EventHeld, At
  <1>5a. ASSUME TypeInv, ChooseTargets PROVE TypeInv'
    <2> DEFINE t == task["health"]
               u == [t EXCEPT !.pc = "plan", !.seen = t.seen \cap GetNodes(ring)]
    <2>1. t \in TaskType /\ "health" \in Handlers /\ "file" \in Handlers
          /\ task \in [Handlers -> TaskType]
      BY <1>5a DEF TypeInv, TypeOK, Handlers
    <2>2. u \in TaskType /\ u.pc # "enqueue"
      BY <2>1 DEF TaskType
    <2>3. task' = [task EXCEPT !["health"] = u]
      BY <1>5a DEF ChooseTargets
    <2>4. task' \in [Handlers -> TaskType] /\ TasksNamed' /\ task'["file"] = task["file"]
      <3> HIDE DEF u
      <3> QED
        BY <1>5a, <2>1, <2>2, <2>3 DEF TypeInv, TasksNamed, At
    <2> QED
      BY <1>5a, <2>4 DEF TypeInv, TypeOK, ChooseTargets, JobsNamed, EventHeld, At
  <1>6. ASSUME TypeInv, NEW a \in Admins, NEW e \in Edges, Replay(a, e) PROVE TypeInv'
    <2> DEFINE t == [Idle EXCEPT !.pc = "upsert", !.todo = {e}]
    <2>1. t \in TaskType /\ t.pc # "enqueue" /\ a \in Handlers /\ "file" \in Handlers /\ a # "file"
      BY <1>6 DEF TypeInv, TypeOK, Idle, TaskType, EdgeOrNone, Handlers
    <2>2. task' \in [Handlers -> TaskType] /\ TasksNamed'
      BY <1>6, <2>1, BeginType DEF Replay
    <2>3. task'["file"] = task["file"]
      BY <1>6, <2>1 DEF TypeInv, TypeOK, Replay
    <2> QED
      BY <1>6, <2>2, <2>3 DEF TypeInv, TypeOK, Replay, JobsNamed, EventHeld, At
  <1>7. ASSUME TypeInv, NEW e \in Edges, Purge(e) PROVE TypeInv'
    <2>1. row' \in [Edges -> RowType]
      <3>1. row \in [Edges -> RowType] /\ row' = [row EXCEPT ![e] = [row[e] EXCEPT !.dead = FALSE]]
        BY <1>7 DEF TypeInv, TypeOK, Purge
      <3>2. [row[e] EXCEPT !.dead = FALSE] \in RowType
        BY <3>1 DEF RowType
      <3> QED
        BY <3>1, <3>2
    <2> QED
      BY <1>7, <2>1 DEF TypeInv, TypeOK, Purge, JobsNamed, TasksNamed, EventHeld, At
  <1>8. ASSUME TypeInv, NEW h \in Handlers, NEW e \in Edges, Upsert(h, e) PROVE TypeInv'
    <2>1. row \in [Edges -> RowType] /\ task \in [Handlers -> TaskType]
      BY <1>8 DEF TypeInv, TypeOK
    <2>2. row' \in [Edges -> RowType]
      <3>1. [status |-> "PENDING", dead |-> (h = "file" /\ row[e].dead)] \in RowType
        BY <2>1 DEF RowType
      <3> QED
        BY <1>8, <2>1, <3>1 DEF Upsert
    <2>3. [task[h] EXCEPT !.pc = "enqueue", !.edge = e] \in TaskType
      <3>1. task[h] \in TaskType /\ e \in EdgeOrNone
        BY <2>1 DEF EdgeOrNone
      <3> QED
        BY <3>1 DEF TaskType
    <2>4. task' \in [Handlers -> TaskType]
      BY <1>8, <2>1, <2>3 DEF Upsert
    <2>5. TasksNamed'
      BY <1>8, <2>1 DEF TypeInv, TasksNamed, Upsert, At, TaskType
    <2>6. EventHeld'
      BY <1>8, <2>1 DEF TypeInv, EventHeld, Upsert, At, TaskType, Handlers
    <2> QED
      BY <1>8, <2>2, <2>4, <2>5, <2>6 DEF TypeInv, TypeOK, Upsert, JobsNamed
  <1>9. ASSUME TypeInv, NEW h \in Handlers, Enqueue(h) PROVE TypeInv'
    <2> DEFINE e == task[h].edge
               left == task[h].todo \ {e}
               t == IF left = {} THEN Idle
                    ELSE [task[h] EXCEPT !.pc = "upsert", !.edge = "none", !.todo = left]
    <2>1. task[h] \in TaskType /\ e \in Edges /\ At(h, "enqueue") /\ "file" \in Handlers
      BY <1>9 DEF TypeInv, TypeOK, TasksNamed, Enqueue, Handlers
    <2>2. t \in TaskType /\ t.pc \in {"idle", "upsert"}
      <3>1. left \in SUBSET Edges
        BY <2>1 DEF TaskType
      <3>2. CASE left = {}
        BY <3>2, Shapes DEF Idle
      <3>3. CASE left # {}
        <4> HIDE DEF left
        <4> QED
          BY <2>1, <3>1, <3>3 DEF TaskType, EdgeOrNone
      <3> QED
        BY <3>2, <3>3
    <2>3. task' = [task EXCEPT ![h] = t]
      BY <1>9 DEF Enqueue
    <2>4. task' \in [Handlers -> TaskType] /\ TasksNamed'
      <3> HIDE DEF t
      <3> QED
        BY <1>9, <2>2, <2>3, BeginType
    <2>5. jobs' \in [Slots -> JobType] /\ JobsNamed'
      <3> DEFINE j == [NoJob EXCEPT !.state = "waiting", !.edge = e]
      <3>1. j \in JobType /\ j.edge = e
        BY <2>1, Shapes DEF JobType, EdgeOrNone
      <3>2. PICK s \in Slots : jobs' = [jobs EXCEPT ![s] = j]
        BY <1>9 DEF Enqueue
      <3>3. UNCHANGED late
        BY <1>9 DEF Enqueue
      <3> HIDE DEF e, j
      <3> QED
        BY <1>9, <2>1, <3>1, <3>2, <3>3 DEF TypeInv, TypeOK, JobsNamed
    <2>6. events' \in 0 .. MaxPending /\ EventHeld'
      <3>1. CASE h = "file"
        <4>1. events \in 1 .. MaxPending
          BY <1>9, <2>1, <3>1 DEF TypeInv, TypeOK, EventHeld, At
        <4>2. CASE left = {}
          <5>1. events' = events - 1 /\ task'["file"] = Idle
            BY <1>9, <2>1, <2>3, <3>1, <4>2 DEF Enqueue, Acknowledge, TypeInv, TypeOK
          <5> QED
            BY <4>1, <5>1 DEF EventHeld, At, Idle
        <4>3. CASE left # {}
          <5>1. events' = events
            BY <1>9, <3>1, <4>3 DEF Enqueue, Acknowledge
          <5> QED
            BY <4>1, <5>1 DEF EventHeld
        <4> QED
          BY <4>2, <4>3
      <3>2. CASE h # "file"
        <4>1. events' = events /\ task'["file"] = task["file"]
          BY <1>9, <2>1, <2>3, <3>2 DEF Enqueue, Acknowledge, TypeInv, TypeOK
        <4> QED
          BY <1>9, <4>1 DEF TypeInv, TypeOK, EventHeld, At
      <3> QED
        BY <3>1, <3>2
    <2>7. downs' \in SUBSET Edges /\ orphaned' \in SUBSET Edges /\ owed' \in SUBSET Edges
      BY <1>9 DEF TypeInv, TypeOK, Enqueue, Acknowledge
    <2> QED
      BY <1>9, <2>4, <2>5, <2>6, <2>7 DEF TypeInv, TypeOK, Enqueue
  <1>10. ASSUME TypeInv, NEW h \in Handlers, Interrupted(h) PROVE TypeInv'
    <2>1. task' \in [Handlers -> TaskType] /\ TasksNamed'
      BY <1>10, Shapes, BeginType DEF Interrupted, Finish, Idle
    <2>2. EventHeld'
      BY <1>10 DEF TypeInv, TypeOK, Interrupted, Finish, EventHeld, At, Idle, Handlers
    <2>3. orphaned' \in SUBSET Edges
      BY <1>10 DEF TypeInv, TypeOK, TasksNamed, Interrupted
    <2> QED
      BY <1>10, <2>1, <2>2, <2>3 DEF TypeInv, TypeOK, Interrupted, JobsNamed
  <1>11. ASSUME TypeInv, NEW s \in Slots, Work(s) PROVE TypeInv'
    <2> DEFINE e == jobs[s].edge
    <2>1. jobs[s] \in JobType /\ jobs[s].state # "free" /\ row \in [Edges -> RowType]
          /\ jobs \in [Slots -> JobType]
      BY <1>11 DEF TypeInv, TypeOK, Work, StartJob, JobSucceeds, JobFails, UpdateRejected, Stalled
    <2>2. e \in Edges /\ row[e] \in RowType
      BY <1>11, <2>1 DEF TypeInv, JobsNamed
    <2>4. \E j \in JobType : /\ jobs' = [jobs EXCEPT ![s] = j]
                             /\ j.state # "free" => j.edge = e
      <3>1. CASE StartJob(s)
        <4>1. [jobs[s] EXCEPT !.state = "active"] \in JobType
              /\ [jobs[s] EXCEPT !.state = "active"].edge = e
          BY <2>1 DEF JobType
        <4> QED
          BY <3>1, <4>1 DEF StartJob
      <3>2. CASE JobSucceeds(s)
        BY <3>2, Shapes DEF JobSucceeds, NoJob
      <3>3. CASE JobFails(s) \/ UpdateRejected(s) \/ Stalled(s)
        BY <2>1, <3>3, JobAfter DEF JobFails, UpdateRejected, Stalled
      <3> QED
        BY <1>11, <3>1, <3>2, <3>3 DEF Work
    <2>5. late' \in [Runs -> JobType] /\ \A n \in Runs : late'[n].state # "free" => late'[n].edge \in Edges
      <3>1. UNCHANGED late \/ \E n \in Runs : late' = [late EXCEPT ![n] = jobs[s]]
        BY <1>11 DEF Work, StartJob, JobSucceeds, JobFails, UpdateRejected, Stalled
      <3> QED
        BY <1>11, <2>1, <2>2, <3>1 DEF TypeInv, TypeOK, JobsNamed
    <2>6. jobs' \in [Slots -> JobType] /\ JobsNamed'
      <3> HIDE DEF e
      <3> QED
        BY <1>11, <2>1, <2>2, <2>4, <2>5 DEF TypeInv, JobsNamed
    <2>7. row' \in [Edges -> RowType]
      <3>1. \E r \in RowType : row' = [row EXCEPT ![e] = r] \/ row' = row
        <4>1. [row[e] EXCEPT !.status = "IN_PROGRESS"] \in RowType
          BY <2>2 DEF RowType
        <4> QED
          BY <1>11, <4>1, Written DEF Work, StartJob, JobSucceeds, JobFails, UpdateRejected, Stalled
      <3> HIDE DEF e
      <3> QED
        BY <2>1, <2>2, <3>1
    <2>8. orphaned' \in SUBSET Edges /\ owed' \in SUBSET Edges
      <3>1. owed \in SUBSET Edges /\ orphaned \in SUBSET Edges
        BY <1>11 DEF TypeInv, TypeOK
      <3>2. owed' = owed \/ \E r \in RowType : owed' = Owing(e, r)
        BY <1>11, Written DEF Work, StartJob, JobSucceeds, JobFails, UpdateRejected, Stalled
      <3>3. orphaned' \in {orphaned, orphaned \cup {e}, orphaned \ {e}}
        BY <1>11 DEF Work, StartJob, JobSucceeds, JobFails, UpdateRejected, Stalled
      <3> HIDE DEF e
      <3> QED
        BY <2>2, <3>1, <3>2, <3>3, Written
    <2>9. UNCHANGED <<healthy, ring, events, downs, task>>
      BY <1>11 DEF Work, StartJob, JobSucceeds, JobFails, UpdateRejected, Stalled
    <2> QED
      BY <1>11, <2>5, <2>6, <2>7, <2>8, <2>9 DEF TypeInv, TypeOK, TasksNamed, EventHeld, At
  <1>13. ASSUME TypeInv, NEW n \in Runs, LateRun(n) PROVE TypeInv'
    <2> DEFINE e == late[n].edge
    <2>1. late[n] \in JobType /\ late \in [Runs -> JobType] /\ row \in [Edges -> RowType]
          /\ owed \in SUBSET Edges /\ orphaned \in SUBSET Edges
      BY <1>13 DEF TypeInv, TypeOK
    <2>2. e \in Edges
      BY <1>13 DEF LateRun, TypeInv, JobsNamed
    <2>3. \E j \in JobType : late' = [late EXCEPT ![n] = j] /\ (j.state # "free" => j.edge = e)
      <3>1. [late[n] EXCEPT !.state = "active"] \in JobType
            /\ [late[n] EXCEPT !.state = "active"].edge = e
        BY <2>1 DEF JobType
      <3>2. NoJob \in JobType /\ NoJob.state = "free"
        BY Shapes DEF NoJob
      <3> QED
        BY <1>13, <3>1, <3>2 DEF LateRun
    <2>4. UNCHANGED <<row, owed, orphaned>> \/ \E r \in RowType : LateWrite(e, r)
      <3>1. [row[e] EXCEPT !.status = "IN_PROGRESS"] \in RowType
        BY <2>1, <2>2 DEF RowType
      <3> QED
        BY <1>13, <3>1, Written DEF LateRun
    <2>5. UNCHANGED <<healthy, ring, events, downs, jobs, task>>
      BY <1>13 DEF LateRun
    <2> HIDE DEF e
    <2>6. row' \in [Edges -> RowType] /\ owed' \in SUBSET Edges /\ orphaned' \in SUBSET Edges
      <3>1. CASE UNCHANGED <<row, owed, orphaned>>
        BY <2>1, <3>1
      <3>2. ASSUME NEW r \in RowType, LateWrite(e, r)
            PROVE  row' \in [Edges -> RowType] /\ owed' \in SUBSET Edges /\ orphaned' \in SUBSET Edges
        BY <2>1, <2>2, <3>2, Written DEF LateWrite
      <3> QED
        BY <2>4, <3>1, <3>2
    <2>7. late' \in [Runs -> JobType] /\ \A m \in Runs : late'[m].state # "free" => late'[m].edge \in Edges
      BY <1>13, <2>1, <2>2, <2>3 DEF TypeInv, JobsNamed
    <2> QED
      BY <1>13, <2>5, <2>6, <2>7 DEF TypeInv, TypeOK, JobsNamed, TasksNamed, EventHeld, At
  <1>12. ASSUME TypeInv, UNCHANGED vars PROVE TypeInv'
    BY <1>12 DEF TypeInv, TypeOK, vars, JobsNamed, TasksNamed, EventHeld, At
  <1> QED
    BY <1>1, <1>2, <1>3, <1>4, <1>5, <1>5a, <1>6, <1>7, <1>8, <1>9, <1>10, <1>11, <1>12, <1>13
    DEF Next, Replicate, Proceed

LEMMA TypeInvAlways == Spec => []TypeInv
  BY TypeInvInit, TypeInvNext, PTL DEF Spec

\* Every row, job and task of the replication service keeps its type, and no job
\* outlives its attempts.
THEOREM ReplicationTypeCorrect == Spec => []TypeOK
  <1>1. TypeInv => TypeOK
    BY DEF TypeInv
  <1> QED
    BY TypeInvAlways, <1>1, PTL

-----------------------------------------------------------------------------
(* No row is stranded, and no dead letter is lost                          *)

\* Something will settle the row of e, or it is one of the exceptions.
Attended(e) == HasJob(e) \/ BeingQueued(e) \/ e \in orphaned

\* What a step may do to the row of e: leave it attended, settle it, or not
\* disturb it when it was not attended before.
Followed(e) ==
    \/ Attended(e)'
    \/ ~Unsettled(e)' /\ (e \in owed' => row'[e].dead)
    \/ /\ ~Attended(e)
       /\ Unsettled(e)' => Unsettled(e)
       /\ e \in owed' => e \in owed /\ (row[e].dead => row'[e].dead)

\* A step that writes no row, takes no job away and interrupts no handler that is
\* about to queue one.
LEMMA NothingDisturbed ==
  ASSUME UNCHANGED <<row, jobs, owed, orphaned>>, NEW e \in Edges,
         \A h \in Handlers : At(h, "enqueue") => task'[h] = task[h]
  PROVE  Followed(e)
  BY DEF Followed, Attended, Unsettled, HasJob, BeingQueued, At

LEMMA WorkFollows ==
  ASSUME TypeInv, NEW s \in Slots, Work(s), NEW f \in Edges
  PROVE  Followed(f)
  <1> DEFINE e == jobs[s].edge
  <1>1. task \in [Handlers -> TaskType] /\ jobs \in [Slots -> JobType] /\ jobs[s] \in JobType
        /\ row \in [Edges -> RowType]
    BY DEF TypeInv, TypeOK
  <1>2. jobs[s].state # "free" /\ UNCHANGED task
    BY DEF Work, StartJob, JobSucceeds, JobFails, UpdateRejected, Stalled
  <1>3. e \in Edges
    BY <1>2 DEF TypeInv, JobsNamed
  <1>4. CASE f # e
    <2>1. \A r \in Slots \ {s} : jobs'[r] = jobs[r]
      BY <1>1 DEF Work, StartJob, JobSucceeds, JobFails, UpdateRejected, Stalled
    <2>2. row'[f] = row[f]
      BY <1>1, <1>3, <1>4 DEF Work, StartJob, JobSucceeds, JobFails, UpdateRejected, Stalled
    <2>3. (f \in orphaned => f \in orphaned') /\ (f \in owed' => f \in owed)
      BY <1>4 DEF Work, StartJob, JobSucceeds, JobFails, UpdateRejected, Stalled, Owing
    <2>4. HasJob(f) => HasJob(f)'
      BY <1>4, <2>1 DEF HasJob
    <2>5. BeingQueued(f) => BeingQueued(f)'
      BY <1>2 DEF BeingQueued, At
    <2> QED
      BY <2>2, <2>3, <2>4, <2>5 DEF Followed, Attended, Unsettled
  <1>5. CASE f = e
    <2>1. \A j : jobs' = [jobs EXCEPT ![s] = j] /\ j.state # "free" /\ j.edge = f => Attended(f)'
      BY <1>1 DEF Attended, HasJob
    <2>2. CASE StartJob(s)
      <3>1. [jobs[s] EXCEPT !.state = "active"].state = "active"
            /\ [jobs[s] EXCEPT !.state = "active"].edge = e
        BY <1>1 DEF JobType
      <3> QED
        BY <1>5, <2>1, <2>2, <3>1 DEF StartJob, Followed
    <2>3. CASE JobSucceeds(s)
      <3>1. row'[e] = Success /\ owed' = owed \ {e}
        BY <1>1, <1>3, <2>3 DEF JobSucceeds, Owing, Success
      <3> QED
        BY <1>5, <3>1 DEF Followed, Unsettled, Success
    <2>4. CASE JobFails(s) /\ IsFinalAttempt(jobs[s])
      <3>1. row'[e] = [status |-> "FAILED", dead |-> TRUE]
        BY <1>1, <1>3, <2>4 DEF JobFails, Failure
      <3> QED
        BY <1>5, <3>1 DEF Followed, Unsettled
    <2>5. CASE JobFails(s) /\ ~IsFinalAttempt(jobs[s])
      <3>1. JobAfterFailure(s) # NoJob
        BY <1>2, <1>1, <2>5 DEF JobAfterFailure, IsFinalAttempt, NoJob, JobType
      <3> QED
        BY <1>1, <1>5, <2>1, <2>5, <3>1, JobAfter DEF JobFails, Followed
    <2>6. CASE UpdateRejected(s) \/ Stalled(s)
      <3>1. PICK j \in {JobAfterFailure(s), JobAfterStall(s)} : jobs' = [jobs EXCEPT ![s] = j]
        BY <2>6 DEF UpdateRejected, Stalled
      <3>2. jobs'[s] = j
        BY <1>1, <3>1
      <3>3. CASE j = NoJob
        BY <1>5, <2>6, <3>2, <3>3 DEF UpdateRejected, Stalled, Followed, Attended
      <3>4. CASE j # NoJob
        <4>1. j.state = "waiting" /\ j.edge = e
          BY <1>1, <3>1, <3>4, JobAfter
        <4> QED
          BY <1>5, <2>1, <3>1, <4>1 DEF Followed
      <3> QED
        BY <3>3, <3>4
    <2> QED
      BY <2>2, <2>3, <2>4, <2>5, <2>6 DEF Work
  <1> QED
    BY <1>4, <1>5

LEMMA LateFollows ==
  ASSUME TypeInv, NEW n \in Runs, LateRun(n), NEW f \in Edges
  PROVE  Followed(f)
  <1> DEFINE e == late[n].edge
  <1>1. row \in [Edges -> RowType]
    BY DEF TypeInv, TypeOK
  <1>2. e \in Edges
    BY DEF LateRun, TypeInv, JobsNamed
  <1>3. UNCHANGED <<jobs, task>>
    BY DEF LateRun
  <1>4. (HasJob(f)' <=> HasJob(f)) /\ (BeingQueued(f)' <=> BeingQueued(f))
    BY <1>3 DEF HasJob, BeingQueued, At
  <1>5. CASE UNCHANGED <<row, owed, orphaned>>
    BY <1>3, <1>5, NothingDisturbed
  <1>6. ASSUME NEW r \in RowType, LateWrite(e, r),
               r.status \in {"COMPLETE", "FAILED", "PENDING", "IN_PROGRESS"},
               r.status = "FAILED" => r.dead, r.status = "COMPLETE" => ~r.dead
        PROVE  Followed(f)
    <2>1. CASE f # e
      <3>1. row'[f] = row[f] /\ (f \in orphaned' <=> f \in orphaned) /\ (f \in owed' <=> f \in owed)
        BY <1>1, <1>2, <1>6, <2>1 DEF LateWrite, Owing
      <3> QED
        BY <1>4, <3>1 DEF Followed, Attended, Unsettled
    <2>2. CASE f = e
      <3>1. row'[e] = r
        BY <1>1, <1>2, <1>6 DEF LateWrite
      <3>2. CASE r.status \in {"COMPLETE", "FAILED"}
        <4>1. e \in owed' => r.dead
          BY <1>6, <3>2 DEF LateWrite, Owing
        <4> QED
          BY <2>2, <3>1, <3>2, <4>1 DEF Followed, Unsettled
      <3>3. CASE r.status \notin {"COMPLETE", "FAILED"}
        BY <1>4, <1>6, <2>2, <3>3 DEF LateWrite, Followed, Attended
      <3> QED
        BY <3>2, <3>3
    <2> QED
      BY <2>1, <2>2
  <1>7. CASE ~UNCHANGED <<row, owed, orphaned>>
    <2>1. PICK r \in {[row[e] EXCEPT !.status = "IN_PROGRESS"], Success, Failure(late[n])} :
            LateWrite(e, r)
      BY <1>7 DEF LateRun
    <2>2. [row[e] EXCEPT !.status = "IN_PROGRESS"] \in RowType
          /\ [row[e] EXCEPT !.status = "IN_PROGRESS"].status = "IN_PROGRESS"
      BY <1>1, <1>2 DEF RowType
    <2>3. Success \in RowType /\ Failure(late[n]) \in RowType
      BY Written
    <2>4. Success.status = "COMPLETE" /\ ~Success.dead
      BY DEF Success
    <2>5. \/ Failure(late[n]).status = "FAILED" /\ Failure(late[n]).dead
          \/ Failure(late[n]).status = "IN_PROGRESS"
      BY Written DEF Failure
    <2> HIDE DEF e
    <2> QED
      BY <1>6, <2>1, <2>2, <2>3, <2>4, <2>5
  <1> QED
    BY <1>5, <1>7

LEMMA StepFollows ==
  ASSUME TypeInv, [Next]_vars, NEW f \in Edges
  PROVE  Followed(f)
  <1>t. task \in [Handlers -> TaskType] /\ jobs \in [Slots -> JobType] /\ row \in [Edges -> RowType]
    BY DEF TypeInv, TypeOK
  <1>1. CASE FileEvent \/ Dispatch \/ PlanFailover \/ ChooseTargets
    BY <1>1, <1>t, NothingDisturbed
    DEF FileEvent, Dispatch, MayBegin, PlanFailover, Finish, ChooseTargets, At
  <1>2. CASE \E e \in Edges : HealthChange(e) \/ Failover(e) \/ \E a \in Admins : Replay(a, e)
    BY <1>2, <1>t, NothingDisturbed DEF HealthChange, Failover, Replay, MayBegin, At
  <1>3. ASSUME NEW e \in Edges, Purge(e) PROVE Followed(f)
    <2>1. row'[f].status = row[f].status /\ (f # e => row'[f] = row[f])
      BY <1>3, <1>t DEF Purge, RowType
    <2>2. Attended(f)' <=> Attended(f)
      BY <1>3 DEF Purge, Attended, HasJob, BeingQueued, At
    <2>3. f \in owed' => f \in owed /\ f # e
      BY <1>3 DEF Purge
    <2> QED
      BY <2>1, <2>2, <2>3 DEF Followed, Unsettled
  <1>4. ASSUME NEW h \in Handlers, NEW e \in Edges, Upsert(h, e) PROVE Followed(f)
    <2>1. /\ task'[h].pc = "enqueue" /\ task'[h].edge = e
          /\ \A g \in Handlers \ {h} : task'[g] = task[g]
      BY <1>4, <1>t DEF Upsert, TaskType
    <2>2. BeingQueued(e)' /\ (BeingQueued(f) => BeingQueued(f)')
      BY <1>4, <2>1 DEF BeingQueued, At, Upsert
    <2>3. f # e => row'[f] = row[f]
      BY <1>4, <1>t DEF Upsert
    <2>4. UNCHANGED <<jobs, owed, orphaned>>
      BY <1>4 DEF Upsert
    <2> QED
      BY <2>2, <2>3, <2>4 DEF Followed, Attended, Unsettled, HasJob
  <1>5. ASSUME NEW h \in Handlers, Enqueue(h) PROVE Followed(f)
    <2> DEFINE e == task[h].edge
               j == [NoJob EXCEPT !.state = "waiting", !.edge = e]
    <2>1. PICK s \in Slots : jobs[s].state = "free" /\ jobs' = [jobs EXCEPT ![s] = j]
      BY <1>5 DEF Enqueue
    <2>2. j.state = "waiting" /\ j.edge = e
      BY DEF NoJob
    <2>3. UNCHANGED <<row, owed>> /\ orphaned' = orphaned \ {e}
          /\ \A g \in Handlers \ {h} : task'[g] = task[g]
      BY <1>5, <1>t DEF Enqueue
    <2> HIDE DEF e, j
    <2>4. (f = e => HasJob(f)') /\ (HasJob(f) => HasJob(f)')
      BY <1>t, <2>1, <2>2 DEF HasJob
    <2>5. f # e /\ BeingQueued(f) => BeingQueued(f)'
      BY <2>3 DEF BeingQueued, At, e
    <2> QED
      BY <2>3, <2>4, <2>5 DEF Followed, Attended, Unsettled
  <1>6. ASSUME NEW h \in Handlers, Interrupted(h) PROVE Followed(f)
    <2>1. \A g \in Handlers \ {h} : task'[g] = task[g]
      BY <1>6, <1>t DEF Interrupted, Finish
    <2>2. BeingQueued(f) => BeingQueued(f)' \/ f \in orphaned'
      BY <1>6, <2>1 DEF BeingQueued, At, Interrupted
    <2>3. UNCHANGED <<row, jobs, owed>> /\ (f \in orphaned => f \in orphaned')
      BY <1>6 DEF Interrupted
    <2> QED
      BY <2>2, <2>3 DEF Followed, Attended, Unsettled, HasJob
  <1>7. CASE UNCHANGED vars
    BY <1>7, NothingDisturbed DEF vars
  <1> QED
    BY <1>1, <1>2, <1>3, <1>4, <1>5, <1>6, <1>7, WorkFollows, LateFollows
    DEF Next, Replicate, Proceed

LEMMA FollowedInit == Init => NoStrandedRow /\ DeadLetterKept
  BY DEF Init, NoStrandedRow, DeadLetterKept, Unsettled, NoRow

LEMMA StrandedNext == TypeInv /\ NoStrandedRow /\ [Next]_vars => NoStrandedRow'
  <1> SUFFICES ASSUME TypeInv, NoStrandedRow, [Next]_vars, NEW f \in Edges
               PROVE  Unsettled(f)' => Attended(f)'
    BY DEF NoStrandedRow, Attended
  <1>1. Followed(f)
    BY StepFollows
  <1>2. Unsettled(f) => Attended(f)
    BY DEF NoStrandedRow, Attended
  <1> QED
    BY <1>1, <1>2 DEF Followed

LEMMA DeadLetterNext == TypeInv /\ DeadLetterKept /\ [Next]_vars => DeadLetterKept'
  <1> SUFFICES ASSUME TypeInv, DeadLetterKept, [Next]_vars PROVE DeadLetterKept'
    OBVIOUS
  <1>1. owed' \in SUBSET Edges
    BY TypeInvNext DEF TypeInv, TypeOK
  <1>2. ASSUME NEW f \in Edges, f \in owed' PROVE row'[f].dead \/ Attended(f)'
    <2>1. Followed(f)
      BY StepFollows
    <2>2. f \in owed => row[f].dead \/ Attended(f)
      BY DEF DeadLetterKept, Attended
    <2> QED
      BY <1>2, <2>1, <2>2 DEF Followed
  <1> QED
    BY <1>1, <1>2 DEF DeadLetterKept, Attended

\* A ReplicationStatus row that is PENDING or IN_PROGRESS always has a job, or a
\* handler about to queue one, or was orphaned by an error, a second stall or a late
\* run, for any number of edges, jobs, admins, attempts and stalls
\* (replication.service.ts, replication.processor.ts).
THEOREM ReplicationNoStrandedRow == Spec => []NoStrandedRow
  <1>1. TypeInv /\ TypeInv' /\ NoStrandedRow /\ [Next]_vars => NoStrandedRow'
    BY StrandedNext
  <1> QED
    BY <1>1, FollowedInit, TypeInvAlways, PTL DEF Spec

\* A dead letter neither purged nor followed by a success stays on the list or is
\* being worked on, through any number of overlapping replays, retries and stalls,
\* unless its row was orphaned.
THEOREM ReplicationKeepsDeadLetters == Spec => []DeadLetterKept
  <1>1. TypeInv /\ TypeInv' /\ DeadLetterKept /\ [Next]_vars => DeadLetterKept'
    BY DeadLetterNext
  <1> QED
    BY <1>1, FollowedInit, TypeInvAlways, PTL DEF Spec

-----------------------------------------------------------------------------
(* The health of an edge, and replication with the health service          *)

ScanType == [pc : {"idle", "check", "write"}, on : {"current", "former"},
             found : BOOLEAN, new : H!Conditions]

LEMMA RestingType == H!Resting \in ScanType /\ H!Resting.pc = "idle"
  BY DEF H!Resting, ScanType, H!Conditions

\* What a scan moves a node to is one of the three conditions or nothing.
LEMMA TargetType ==
  ASSUME NEW found \in BOOLEAN, NEW status \in H!Conditions, NEW missed \in Nat
  PROVE  H!Target(found, status, missed) \in H!Conditions \cup {"none"}
  BY DEF H!Target, H!Conditions

LEMMA CappedType ==
  ASSUME H!HealthAssumption, NEW n \in 0 .. Threshold
  PROVE  H!Capped(n + 1) \in 0 .. Threshold
  BY DEF H!Capped, H!HealthAssumption

LEMMA HealthTypeInit == H!HealthAssumption /\ H!Init => H!TypeOK
  <1> SUFFICES ASSUME H!HealthAssumption, H!Init PROVE H!TypeOK
    OBVIOUS
  <1>1. current \in H!RecordType /\ former \in H!RecordType
    BY DEF H!HealthAssumption, H!Init, H!RecordType
  <1>2. scan \in [Scans -> ScanType]
    BY RestingType DEF H!Init
  <1> QED
    BY <1>1, <1>2 DEF H!HealthAssumption, H!Init, H!TypeOK, ScanType

LEMMA HealthTypeNext ==
  H!HealthAssumption /\ H!TypeOK /\ [H!Next]_H!vars => H!TypeOK'
  <1> SUFFICES ASSUME H!HealthAssumption, H!TypeOK, [H!Next]_H!vars PROVE H!TypeOK'
    OBVIOUS
  <1>t. scan \in [Scans -> ScanType] /\ current \in H!RecordType /\ former \in H!RecordType
    BY DEF H!TypeOK, ScanType
  <1>1. CASE UNCHANGED H!vars \/ H!Heartbeat \/ H!Expire \/ H!StartRefresh
    BY <1>1 DEF H!TypeOK, H!vars, H!Heartbeat, H!Expire, H!StartRefresh
  <1>2. ASSUME NEW s \in Scans, NEW q \in ScanType, scan' = [scan EXCEPT ![s] = q]
        PROVE  scan' \in [Scans -> ScanType]
    BY <1>t, <1>2
  <1>3. ASSUME NEW s \in Scans, H!StartScan(s) PROVE H!TypeOK'
    <2>1. PICK q : q = [H!Resting EXCEPT !.pc = "check", !.found = beat]
      OBVIOUS
    <2>2. q \in ScanType
      BY <2>1, RestingType DEF ScanType, H!TypeOK
    <2>3. scan' \in [Scans -> ScanType]
      BY <1>2, <1>3, <2>1, <2>2 DEF H!StartScan
    <2> QED
      BY <1>3, <2>3 DEF H!StartScan, H!TypeOK, H!HealthAssumption, ScanType
  <1>4. ASSUME NEW s \in Scans, H!Check(s) PROVE H!TypeOK'
    <2> DEFINE r == H!Record(s)
               m == IF scan[s].found THEN r.missed ELSE H!Capped(r.missed + 1)
               new == H!Target(scan[s].found, r.status, m)
    <2>1. scan[s] \in ScanType /\ r \in H!RecordType
      BY <1>t DEF H!Record
    <2>2. r.missed \in 0 .. Threshold /\ r.status \in H!Conditions /\ scan[s].found \in BOOLEAN
      BY <2>1 DEF H!RecordType, ScanType
    <2> HIDE DEF r
    <2>3. m \in 0 .. Threshold
      BY <2>2, CappedType
    <2> HIDE DEF m
    <2>4. new \in H!Conditions \cup {"none"}
      BY <2>2, <2>3, TargetType
    <2> HIDE DEF new
    <2>5. /\ current' = [status |-> IF new = "none" THEN current.status ELSE new,
                         missed |-> IF scan[s].on = "current" THEN m ELSE current.missed]
          /\ former' = IF scan[s].on = "former" THEN [former EXCEPT !.missed = m] ELSE former
          /\ scan' = [scan EXCEPT ![s] = IF new = "none" THEN H!Resting
                                         ELSE [scan[s] EXCEPT !.pc = "write", !.new = new]]
          /\ UNCHANGED <<beat, db, refresh, calm, faults>>
      BY <1>4 DEF H!Check, r, m, new
    <2>6. current' \in H!RecordType /\ former' \in H!RecordType
      BY <1>t, <2>3, <2>4, <2>5 DEF H!RecordType
    <2>7. PICK q : q = IF new = "none" THEN H!Resting
                       ELSE [scan[s] EXCEPT !.pc = "write", !.new = new]
      OBVIOUS
    <2>8. q \in ScanType
      BY <2>1, <2>4, <2>7, RestingType DEF ScanType
    <2>9. scan' \in [Scans -> ScanType]
      BY <1>2, <2>5, <2>7, <2>8
    <2> QED
      BY <2>5, <2>6, <2>9 DEF H!TypeOK, ScanType
  <1>5. ASSUME NEW s \in Scans, H!Write(s) \/ H!ScanFails(s) PROVE H!TypeOK'
    <2>1. scan' \in [Scans -> ScanType]
      BY <1>2, <1>5, RestingType DEF H!Write, H!ScanFails
    <2>2. scan[s].new \in H!Conditions
      BY <1>t DEF ScanType
    <2>3. current' \in H!RecordType /\ former' \in H!RecordType
      BY <1>t, <1>5 DEF H!Write, H!ScanFails, H!RecordType, H!HealthAssumption
    <2> QED
      BY <1>5, <2>1, <2>2, <2>3 DEF H!Write, H!ScanFails, H!TypeOK, H!HealthAssumption, ScanType
  <1>6. CASE H!SwapMap
    <2>1. \A s \in Scans : [scan[s] EXCEPT !.on = "former"] \in ScanType
      BY <1>t DEF ScanType
    <2>2. scan' \in [Scans -> ScanType]
      BY <1>6, <2>1, RestingType DEF H!SwapMap
    <2>3. current' \in H!RecordType /\ former' \in H!RecordType
      BY <1>t, <1>6 DEF H!SwapMap, H!TypeOK, H!RecordType
    <2> QED
      BY <1>6, <2>2, <2>3 DEF H!SwapMap, H!TypeOK, H!HealthAssumption, ScanType
  <1> QED
    BY <1>1, <1>3, <1>4, <1>5, <1>6 DEF H!Next

\* The records of an edge, the scans under way and the refresh keep their types,
\* however many scans overlap and whichever record a refresh leaves them with.
THEOREM HealthTypeCorrect == H!HealthAssumption /\ H!Spec => []H!TypeOK
  <1> SUFFICES ASSUME H!HealthAssumption PROVE H!Spec => []H!TypeOK
    OBVIOUS
  <1>1. H!Init => H!TypeOK
    BY HealthTypeInit
  <1>2. H!TypeOK /\ [H!Next]_H!vars => H!TypeOK'
    BY HealthTypeNext
  <1> QED
    BY <1>1, <1>2, PTL DEF H!Spec

\* The two components agree on whether the edge is healthy.
Shown == Node \in healthy <=> current.status = "HEALTHY"

SystemInv == TypeInv /\ H!TypeOK /\ Shown

\* Only a Check and a swap of the map change the status, and only a Write announces.
LEMMA HealthStepIsChange ==
  ASSUME H!HealthAssumption, SystemInv, Node \in Fragile, HealthStep
  PROVE  HealthChange(Node) \/ UNCHANGED vars
  <1>1. \/ healthy' = healthy
        \/ healthy' = healthy \cup {Node} \/ healthy' = healthy \ {Node}
    BY DEF HealthStep
  <1>2. CASE ~SaysDown
    BY <1>1, <1>2 DEF HealthStep, HealthChange, vars
  <1>3. CASE SaysDown
    <2>1. PICK s \in Scans : H!Write(s)
      BY <1>3 DEF SaysDown
    <2>2. current'.status = current.status
      BY <2>1 DEF H!Write, SystemInv, H!TypeOK, H!RecordType
    <2>3. healthy' = healthy
      BY <2>2 DEF HealthStep, SystemInv, Shown
    <2> QED
      BY <1>3, <2>3 DEF HealthStep, HealthChange
  <1> QED
    BY <1>2, <1>3

LEMMA SystemStep ==
  ASSUME H!HealthAssumption, Node \in Fragile, SystemInv, [SystemNext]_everything
  PROVE  SystemInv' /\ [Next]_vars
  <1>n. Node \in Edges
    BY ReplicationAssumption
  <1>1. CASE HealthStep
    <2>1. [Next]_vars
      BY <1>1, <1>n, HealthStepIsChange DEF Next
    <2>2. TypeInv'
      BY <2>1, TypeInvNext DEF SystemInv
    <2>3. H!TypeOK'
      BY <1>1, HealthTypeNext DEF SystemInv, HealthStep
    <2>4. Shown'
      BY <1>1 DEF HealthStep, Shown
    <2> QED
      BY <2>1, <2>2, <2>3, <2>4 DEF SystemInv
  <1>2. CASE ReplicationStep
    <2>1. [Next]_vars
      BY <1>2 DEF ReplicationStep, Next
    <2>2. TypeInv'
      BY <2>1, TypeInvNext DEF SystemInv
    <2>3. UNCHANGED H!vars
      BY <1>2 DEF ReplicationStep, health, H!vars
    <2>4. H!TypeOK'
      BY <2>3, HealthTypeNext DEF SystemInv
    <2>5. Node \in healthy' <=> Node \in healthy
      <3>1. CASE Replicate
        BY <3>1 DEF Replicate, FileEvent, Dispatch, Failover, Replay, Purge, Proceed, Upsert,
           Enqueue, ChooseTargets, PlanFailover, Interrupted, Work, StartJob, JobSucceeds,
           JobFails, UpdateRejected, Stalled, LateRun
      <3>2. CASE \E e \in Edges \ {Node} : HealthChange(e)
        BY <3>2 DEF HealthChange
      <3> QED
        BY <1>2, <3>1, <3>2 DEF ReplicationStep
    <2>6. Shown'
      BY <2>3, <2>5 DEF SystemInv, Shown, H!vars
    <2> QED
      BY <2>1, <2>2, <2>4, <2>6 DEF SystemInv
  <1>3. CASE UNCHANGED everything
    <2>1. UNCHANGED vars /\ UNCHANGED H!vars
      BY <1>3 DEF everything, health, H!vars
    <2>2. TypeInv' /\ H!TypeOK'
      BY <2>1, TypeInvNext, HealthTypeNext DEF SystemInv
    <2>3. Shown'
      BY <2>1 DEF vars, H!vars, SystemInv, Shown
    <2> QED
      BY <2>1, <2>2, <2>3 DEF SystemInv
  <1> QED
    BY <1>1, <1>2, <1>3 DEF SystemNext

\* Replication that takes its healthy edges and DOWN events from the health service,
\* with overlapping scans, stale refreshes and failed calls, is replication as
\* ReplicationJobs describes it: what holds there holds of the two together.
THEOREM FailoverComposes ==
  H!HealthAssumption /\ Node \in Fragile /\ SystemSpec => Spec /\ H!Spec
  <1> SUFFICES ASSUME H!HealthAssumption, Node \in Fragile PROVE SystemSpec => Spec /\ H!Spec
    OBVIOUS
  <1>1. SystemInit => SystemInv /\ Init /\ H!Init
    BY TypeInvInit, HealthTypeInit DEF SystemInit, SystemInv, Shown
  <1>2. SystemInv /\ [SystemNext]_everything => SystemInv' /\ [Next]_vars
    BY SystemStep
  <1>3. [SystemNext]_everything => [H!Next]_H!vars
    BY DEF SystemNext, HealthStep, ReplicationStep, everything, health, H!vars
  <1> QED
    BY <1>1, <1>2, <1>3, PTL DEF SystemSpec, Spec, H!Spec

\* No row is stranded and no dead letter lost with the real health service either,
\* but in the four ways NoStrandedRow names.
THEOREM NoStrandedRowAtFailover ==
  H!HealthAssumption /\ Node \in Fragile /\ SystemSpec => [](NoStrandedRow /\ DeadLetterKept)
  BY FailoverComposes, ReplicationNoStrandedRow, ReplicationKeepsDeadLetters, PTL

-----------------------------------------------------------------------------
(* Jobs and handlers move towards their end                                *)

\* A job that changes has left the queue, has used up one of its attempts, has used
\* up one of the stalls BullMQ forgives, or has been started; the worker never leaves
\* it as it was, and nothing gives back an attempt or a stall.
JobMoves(s) ==
    \/ jobs'[s].state = "free"
    \/ jobs'[s].made = jobs[s].made + 1 /\ jobs'[s].stalls = jobs[s].stalls
    \/ jobs'[s].made = jobs[s].made /\ jobs'[s].stalls = jobs[s].stalls + 1
    \/ /\ jobs[s].state = "waiting" /\ jobs'[s].state = "active"
       /\ jobs'[s].made = jobs[s].made /\ jobs'[s].stalls = jobs[s].stalls
JobAdvances(s) ==
    jobs[s].state # "free" /\ (Work(s) \/ jobs'[s] # jobs[s]) => JobMoves(s)

\* The places of a handler, in the order of its program; the loop over the edges goes
\* back from its second place to its first with one edge less.
Later == {<<"choose", "plan">>, <<"plan", "upsert">>, <<"upsert", "enqueue">>}
TaskAdvances(h) ==
    ~At(h, "idle") /\ (Proceed(h) \/ task'[h] # task[h]) =>
        \/ task'[h].pc = "idle"
        \/ /\ <<task[h].pc, task'[h].pc>> \in Later
           /\ At(h, "upsert") => task'[h].todo = task[h].todo
        \/ /\ At(h, "enqueue") /\ task'[h].pc = "upsert"
           /\ \E e \in task[h].todo : task'[h].todo = task[h].todo \ {e}

\* The edge a handler is about to queue a job for is one it has still to do.
QueuesItsOwn == \A h \in Handlers : At(h, "enqueue") => task[h].edge \in task[h].todo

LEMMA WorkAdvances ==
  ASSUME TypeInv, NEW s \in Slots, Work(s)
  PROVE  /\ JobMoves(s)
         /\ \A t \in Slots \ {s} : jobs'[t] = jobs[t]
         /\ UNCHANGED task
  <1>1. jobs \in [Slots -> JobType] /\ jobs[s] \in JobType
    BY DEF TypeInv, TypeOK
  <1>2. CASE StartJob(s)
    BY <1>1, <1>2 DEF StartJob, JobType, JobMoves
  <1>3. CASE JobSucceeds(s)
    BY <1>1, <1>3 DEF JobSucceeds, NoJob, JobMoves
  <1>4. CASE JobFails(s) \/ UpdateRejected(s)
    <2>1. jobs' = [jobs EXCEPT ![s] = JobAfterFailure(s)] /\ UNCHANGED task
      BY <1>4 DEF JobFails, UpdateRejected
    <2>2. jobs'[s] = JobAfterFailure(s) /\ \A t \in Slots \ {s} : jobs'[t] = jobs[t]
      BY <1>1, <2>1
    <2> QED
      BY <1>1, <2>1, <2>2, JobAfter DEF JobMoves
  <1>5. CASE Stalled(s)
    <2>1. jobs' = [jobs EXCEPT ![s] = JobAfterStall(s)] /\ UNCHANGED task
      BY <1>5 DEF Stalled
    <2>2. jobs'[s] = JobAfterStall(s) /\ \A t \in Slots \ {s} : jobs'[t] = jobs[t]
      BY <1>1, <2>1
    <2> QED
      BY <1>1, <2>1, <2>2, JobAfter DEF JobMoves
  <1> QED
    BY <1>2, <1>3, <1>4, <1>5 DEF Work

\* What a step of a handler does to its task; it fills a free slot at most.
LEMMA ProceedAdvances ==
  ASSUME TypeInv, QueuesItsOwn, NEW h \in Handlers, Proceed(h)
  PROVE  /\ \/ task'[h].pc = "idle"
            \/ /\ <<task[h].pc, task'[h].pc>> \in Later
               /\ At(h, "upsert") => task'[h].todo = task[h].todo
            \/ /\ At(h, "enqueue") /\ task'[h].pc = "upsert"
               /\ \E e \in task[h].todo : task'[h].todo = task[h].todo \ {e}
         /\ task'[h].pc = "enqueue" => task'[h].edge \in task'[h].todo
         /\ \A g \in Handlers \ {h} : task'[g] = task[g]
         /\ \A s \in Slots : jobs[s].state # "free" => jobs'[s] = jobs[s]
  <1>1. task \in [Handlers -> TaskType] /\ task[h] \in TaskType /\ jobs \in [Slots -> JobType]
    BY DEF TypeInv, TypeOK
  <1>2. ASSUME NEW e \in Edges, Upsert(h, e)
        PROVE  /\ At(h, "upsert") /\ task'[h].pc = "enqueue" /\ task'[h].todo = task[h].todo
               /\ task'[h].edge \in task'[h].todo
               /\ \A g \in Handlers \ {h} : task'[g] = task[g]
               /\ UNCHANGED jobs
    BY <1>1, <1>2 DEF Upsert, TaskType
  <1>3. CASE Enqueue(h)
    <2> DEFINE e == task[h].edge
               left == task[h].todo \ {e}
    <2>1. At(h, "enqueue") /\ e \in task[h].todo
      BY <1>3 DEF Enqueue, QueuesItsOwn
    <2>2. task' = [task EXCEPT ![h] = IF left = {} THEN Idle
                    ELSE [@ EXCEPT !.pc = "upsert", !.edge = "none", !.todo = left]]
      BY <1>3 DEF Enqueue
    <2>3. \A s \in Slots : jobs[s].state # "free" => jobs'[s] = jobs[s]
      BY <1>1, <1>3 DEF Enqueue
    <2>4. \A g \in Handlers \ {h} : task'[g] = task[g]
      BY <1>1, <2>2
    <2>5. task'[h].pc = "idle" \/ (task'[h].pc = "upsert" /\ task'[h].todo = left)
      BY <1>1, <2>2 DEF Idle, TaskType
    <2> QED
      BY <2>1, <2>3, <2>4, <2>5
  <1>4. CASE h = "health" /\ ChooseTargets
    <2>1. At(h, "choose") /\ task'[h].pc = "plan"
      BY <1>1, <1>4 DEF ChooseTargets, At, TaskType
    <2>2. UNCHANGED jobs /\ \A g \in Handlers \ {h} : task'[g] = task[g]
      BY <1>1, <1>4 DEF ChooseTargets
    <2> QED
      BY <2>1, <2>2 DEF Later, At
  <1>5. CASE h = "health" /\ PlanFailover
    <2> DEFINE S == {n \in task["health"].seen :
                        n = task["health"].lost \/ ~Live(row[n].status)}
               t == [task[h] EXCEPT !.pc = "upsert", !.seen = {}, !.todo = S]
    <2>a. t.pc = "upsert" /\ Idle.pc = "idle"
      BY <1>1 DEF TaskType, Idle
    <2>b. task' = [task EXCEPT ![h] = t] \/ task' = [task EXCEPT ![h] = Idle]
      BY <1>5 DEF PlanFailover, Finish
    <2> HIDE DEF t
    <2>0. task'[h].pc \in {"upsert", "idle"} /\ \A g \in Handlers \ {h} : task'[g] = task[g]
      BY <1>1, <2>a, <2>b
    <2>1. At(h, "plan") /\ task'[h].pc \in {"upsert", "idle"}
      BY <1>1, <1>5, <2>0 DEF PlanFailover
    <2>2. UNCHANGED jobs /\ \A g \in Handlers \ {h} : task'[g] = task[g]
      BY <1>1, <1>5, <2>0 DEF PlanFailover
    <2> QED
      BY <2>1, <2>2 DEF Later, At
  <1>6. CASE \E e \in Edges : Upsert(h, e)
    BY <1>2, <1>6 DEF Later, At
  <1> QED
    BY <1>3, <1>4, <1>5, <1>6 DEF Proceed

\* A handler that is given up, or that is given something to do.
LEMMA OtherTasks ==
  ASSUME TypeInv, NEW h \in Handlers, NEW t \in TaskType, task' = [task EXCEPT ![h] = t],
         t.pc # "enqueue", At(h, "idle") \/ t.pc = "idle", UNCHANGED jobs
  PROVE  /\ At(h, "idle") \/ task'[h].pc = "idle"
         /\ task'[h].pc # "enqueue"
         /\ \A g \in Handlers \ {h} : task'[g] = task[g]
         /\ UNCHANGED jobs
  BY DEF TypeInv, TypeOK

LEMMA ReplicationDescends ==
  TypeInv /\ QueuesItsOwn /\ [Next]_vars =>
      /\ QueuesItsOwn'
      /\ \A s \in Slots : JobAdvances(s)
      /\ \A h \in Handlers : TaskAdvances(h)
  <1> SUFFICES ASSUME TypeInv, QueuesItsOwn, [Next]_vars
               PROVE  /\ QueuesItsOwn'
                      /\ \A s \in Slots : JobAdvances(s)
                      /\ \A h \in Handlers : TaskAdvances(h)
    OBVIOUS
  <1>t. task \in [Handlers -> TaskType] /\ healthy \in SUBSET Edges
    BY DEF TypeInv, TypeOK
  <1>w. \A s \in Slots : Work(s) => JobMoves(s)
    BY WorkAdvances
  <1>p. \A h \in Handlers : Proceed(h) => TaskAdvances(h)
    BY ProceedAdvances DEF TaskAdvances
  <1>1. CASE UNCHANGED <<jobs, task>>
    BY <1>1, <1>w, <1>p DEF QueuesItsOwn, JobAdvances, TaskAdvances, At
  <1>2. ASSUME NEW h \in Handlers, At(h, "idle") \/ task'[h].pc = "idle",
               task'[h].pc # "enqueue", \A g \in Handlers \ {h} : task'[g] = task[g],
               UNCHANGED jobs
        PROVE  /\ QueuesItsOwn'
               /\ \A s \in Slots : JobAdvances(s)
               /\ \A g \in Handlers : TaskAdvances(g)
    BY <1>2, <1>w, <1>p DEF QueuesItsOwn, JobAdvances, TaskAdvances, At
  <1>3. CASE Dispatch
    <2>1. CASE UNCHANGED <<ring, task>>
      BY <1>3, <2>1, <1>1 DEF Dispatch
    <2>2. CASE task' = [task EXCEPT !["file"] =
                          [Idle EXCEPT !.pc = "upsert", !.todo = GetNodes(healthy)]]
      <3> DEFINE t == [Idle EXCEPT !.pc = "upsert", !.todo = GetNodes(healthy)]
      <3>1. t \in TaskType /\ t.pc # "enqueue" /\ "file" \in Handlers
        BY <1>t DEF Idle, TaskType, GetNodes, EdgeOrNone, Handlers
      <3> HIDE DEF t
      <3>2. At("file", "idle") /\ UNCHANGED jobs
        BY <1>3 DEF Dispatch, MayBegin
      <3>3. task' = [task EXCEPT !["file"] = t]
        BY <2>2 DEF t
      <3> QED
        BY <3>1, <3>2, <3>3, OtherTasks, <1>2
    <2> QED
      BY <1>3, <2>1, <2>2 DEF Dispatch
  <1>4. ASSUME NEW e \in Edges, Failover(e)
        PROVE  /\ QueuesItsOwn'
               /\ \A s \in Slots : JobAdvances(s)
               /\ \A h \in Handlers : TaskAdvances(h)
    <2>1. CASE UNCHANGED task
      BY <1>4, <2>1, <1>1 DEF Failover
    <2>2. CASE task' = [task EXCEPT !["health"] =
                          [Idle EXCEPT !.pc = "choose", !.lost = e, !.seen = healthy]]
      <3> DEFINE t == [Idle EXCEPT !.pc = "choose", !.lost = e, !.seen = healthy]
      <3>1. t \in TaskType /\ t.pc # "enqueue" /\ "health" \in Handlers
        BY <1>t DEF Idle, TaskType, EdgeOrNone, Handlers
      <3> HIDE DEF t
      <3>2. At("health", "idle") /\ UNCHANGED jobs
        BY <1>4 DEF Failover, MayBegin
      <3>3. task' = [task EXCEPT !["health"] = t]
        BY <2>2 DEF t
      <3> QED
        BY <3>1, <3>2, <3>3, OtherTasks, <1>2
    <2> QED
      BY <1>4, <2>1, <2>2 DEF Failover
  <1>5. ASSUME NEW a \in Admins, NEW e \in Edges, Replay(a, e)
        PROVE  /\ QueuesItsOwn'
               /\ \A s \in Slots : JobAdvances(s)
               /\ \A h \in Handlers : TaskAdvances(h)
    <2> DEFINE t == [Idle EXCEPT !.pc = "upsert", !.todo = {e}]
    <2>1. t \in TaskType /\ t.pc # "enqueue" /\ a \in Handlers
      BY DEF Idle, TaskType, EdgeOrNone, Handlers
    <2>2. At(a, "idle") /\ UNCHANGED jobs /\ task' = [task EXCEPT ![a] = t]
      BY <1>5 DEF Replay, MayBegin
    <2> HIDE DEF t
    <2> QED
      BY <2>1, <2>2, OtherTasks, <1>2
  <1>6. ASSUME NEW h \in Handlers, Interrupted(h)
        PROVE  /\ QueuesItsOwn'
               /\ \A s \in Slots : JobAdvances(s)
               /\ \A g \in Handlers : TaskAdvances(g)
    <2>1. Idle \in TaskType /\ Idle.pc = "idle"
      BY Shapes DEF Idle
    <2>2. UNCHANGED jobs /\ task' = [task EXCEPT ![h] = Idle]
      BY <1>6 DEF Interrupted, Finish
    <2> QED
      BY <2>1, <2>2, OtherTasks, <1>2
  <1>7. ASSUME NEW s \in Slots, Work(s)
        PROVE  /\ QueuesItsOwn'
               /\ \A t \in Slots : JobAdvances(t)
               /\ \A h \in Handlers : TaskAdvances(h)
    <2>1. UNCHANGED task /\ \A t \in Slots \ {s} : jobs'[t] = jobs[t]
      BY <1>7, WorkAdvances
    <2> QED
      BY <1>7, <2>1, <1>w, <1>p DEF QueuesItsOwn, JobAdvances, TaskAdvances, At
  <1>8. ASSUME NEW h \in Handlers, Proceed(h)
        PROVE  /\ QueuesItsOwn'
               /\ \A s \in Slots : JobAdvances(s)
               /\ \A g \in Handlers : TaskAdvances(g)
    <2>1. /\ task'[h].pc = "enqueue" => task'[h].edge \in task'[h].todo
          /\ \A g \in Handlers \ {h} : task'[g] = task[g]
          /\ \A s \in Slots : jobs[s].state # "free" => jobs'[s] = jobs[s]
      BY <1>8, ProceedAdvances
    <2> QED
      BY <1>8, <2>1, <1>w, <1>p DEF QueuesItsOwn, JobAdvances, TaskAdvances, At
  <1>9. CASE \/ FileEvent \/ (\E e \in Edges : Purge(e) \/ HealthChange(e))
             \/ (\E n \in Runs : LateRun(n)) \/ UNCHANGED vars
    BY <1>9, <1>1 DEF FileEvent, Purge, HealthChange, LateRun, vars
  <1> QED
    BY <1>3, <1>4, <1>5, <1>6, <1>7, <1>8, <1>9 DEF Next, Replicate

\* A job leaves the queue after at most MaxAttempts attempts and MaxStalls stalls,
\* which do not count as attempts, and a dispatch, a
\* fail-over or a replay does one edge after the other and then ends, whatever the
\* other handlers, the workers and the health of the edges do meanwhile.
THEOREM ReplicationAdvances ==
  Spec => /\ []QueuesItsOwn
          /\ [][\A s \in Slots : JobAdvances(s)]_vars
          /\ [][\A h \in Handlers : TaskAdvances(h)]_vars
  <1>1. Init => QueuesItsOwn
    BY DEF Init, QueuesItsOwn, At, Idle
  <1>2. TypeInv /\ QueuesItsOwn /\ [Next]_vars => QueuesItsOwn'
    BY ReplicationDescends
  <1>3. TypeInv /\ QueuesItsOwn /\ [Next]_vars => [\A s \in Slots : JobAdvances(s)]_vars
    BY ReplicationDescends
  <1>4. TypeInv /\ QueuesItsOwn /\ [Next]_vars => [\A h \in Handlers : TaskAdvances(h)]_vars
    BY ReplicationDescends
  <1> QED
    BY <1>1, <1>2, <1>3, <1>4, TypeInvAlways, PTL DEF Spec

-----------------------------------------------------------------------------
(* The verdict on an edge stays                                            *)

\* The node map, the database, a refresh under way and every scan under way agree
\* that the edge is HEALTHY, or that it is DOWN.
Settled(v) ==
    /\ current.status = v /\ db = v /\ refresh \in {"idle", v}
    /\ \A s \in Scans :
          /\ scan[s].pc = "check" => /\ scan[s].found <=> v = "HEALTHY"
                                     /\ scan[s].on = "former" => former.status = v
          /\ scan[s].pc = "write" => scan[s].new = v

LEMMA SettledStep ==
  ASSUME H!TypeOK, NEW v \in {"HEALTHY", "DOWN"}, Settled(v), [H!Next]_H!vars,
         beat <=> v = "HEALTHY", beat' <=> v = "HEALTHY"
  PROVE  Settled(v)'
  <1>t. scan \in [Scans -> ScanType] /\ current \in H!RecordType /\ former \in H!RecordType
    BY DEF H!TypeOK, ScanType
  <1>1. CASE UNCHANGED H!vars \/ H!Heartbeat \/ H!Expire \/ H!StartRefresh
    BY <1>1 DEF H!vars, H!Heartbeat, H!Expire, H!StartRefresh, Settled
  <1>2. ASSUME NEW s \in Scans, H!StartScan(s) PROVE Settled(v)'
    <2>1. PICK q : q = [H!Resting EXCEPT !.pc = "check", !.found = beat]
      OBVIOUS
    <2>2. q.pc = "check" /\ q.found = beat /\ q.on = "current"
      BY <2>1 DEF H!Resting
    <2>3. scan' = [scan EXCEPT ![s] = q] /\ UNCHANGED <<db, current, former, refresh>>
      BY <1>2, <2>1 DEF H!StartScan
    <2>4. scan'[s] = q /\ \A r \in Scans \ {s} : scan'[r] = scan[r]
      BY <1>t, <2>3
    <2> QED
      BY <2>2, <2>3, <2>4 DEF Settled
  <1>3. ASSUME NEW s \in Scans, H!Check(s) PROVE Settled(v)'
    <2> DEFINE r == H!Record(s)
               m == IF scan[s].found THEN r.missed ELSE H!Capped(r.missed + 1)
    <2>1. (scan[s].found <=> v = "HEALTHY") /\ r.status = v /\ scan[s].found \in BOOLEAN
      BY <1>t, <1>3 DEF H!Check, H!Record, Settled, ScanType
    <2> HIDE DEF r
    <2>2. H!Target(scan[s].found, r.status, m) = "none"
      BY <2>1 DEF H!Target
    <2>3. /\ current' = [status |-> current.status,
                         missed |-> IF scan[s].on = "current" THEN m ELSE current.missed]
          /\ former' = IF scan[s].on = "former" THEN [former EXCEPT !.missed = m] ELSE former
          /\ scan' = [scan EXCEPT ![s] = H!Resting]
          /\ UNCHANGED <<db, refresh>>
      BY <1>3, <2>2 DEF H!Check, r, m
    <2> HIDE DEF m
    <2>4. current'.status = current.status /\ former'.status = former.status
      BY <1>t, <2>3 DEF H!RecordType
    <2>5. scan'[s].pc = "idle" /\ \A x \in Scans \ {s} : scan'[x] = scan[x]
      BY <1>t, <2>3, RestingType
    <2> QED
      BY <2>3, <2>4, <2>5 DEF Settled
  <1>4. ASSUME NEW s \in Scans, H!Write(s) \/ H!ScanFails(s) PROVE Settled(v)'
    <2>1. scan' = [scan EXCEPT ![s] = H!Resting] /\ UNCHANGED refresh /\ (db' = db \/ db' = v)
      BY <1>4 DEF H!Write, H!ScanFails, Settled
    <2>2. current'.status = current.status /\ former'.status = former.status
      BY <1>t, <1>4 DEF H!Write, H!ScanFails, H!RecordType
    <2>3. scan'[s].pc = "idle" /\ \A x \in Scans \ {s} : scan'[x] = scan[x]
      BY <1>t, <2>1, RestingType
    <2> QED
      BY <2>1, <2>2, <2>3 DEF Settled
  <1>5. CASE H!SwapMap
    <2>1. current'.status = v /\ former'.status = v /\ db' = v /\ refresh' = "idle"
      BY <1>t, <1>5 DEF H!SwapMap, H!RecordType, Settled
    <2>2. ASSUME NEW s \in Scans
          PROVE  \/ scan'[s].pc = "idle"
                 \/ /\ scan'[s].pc = scan[s].pc /\ scan'[s].found = scan[s].found
                    /\ scan'[s].new = scan[s].new
      <3>1. scan'[s] = H!Resting \/ scan'[s] = [scan[s] EXCEPT !.on = "former"]
        BY <1>5 DEF H!SwapMap
      <3> QED
        BY <1>t, <3>1, RestingType DEF ScanType
    <2> QED
      BY <2>1, <2>2 DEF Settled
  <1> QED
    BY <1>1, <1>2, <1>3, <1>4, <1>5 DEF H!Next

\* Once the map, the database and all that is under way agree on an edge, no overlap
\* of scans, no refresh and no failed call changes the verdict while the heartbeats
\* keep coming, or keep failing to come: the part "for good" of Recovers and of
\* DetectsCrash.
THEOREM VerdictStays ==
  H!HealthAssumption /\ H!Spec =>
      [][/\ beat /\ beat' /\ Settled("HEALTHY") => Settled("HEALTHY")'
         /\ ~beat /\ ~beat' /\ Settled("DOWN") => Settled("DOWN")']_health
  <1> SUFFICES ASSUME H!HealthAssumption
               PROVE  H!Spec =>
                        [][/\ beat /\ beat' /\ Settled("HEALTHY") => Settled("HEALTHY")'
                           /\ ~beat /\ ~beat' /\ Settled("DOWN") => Settled("DOWN")']_health
    OBVIOUS
  <1>1. H!TypeOK /\ [H!Next]_H!vars =>
            [/\ beat /\ beat' /\ Settled("HEALTHY") => Settled("HEALTHY")'
             /\ ~beat /\ ~beat' /\ Settled("DOWN") => Settled("DOWN")']_health
    <2> SUFFICES ASSUME H!TypeOK, [H!Next]_H!vars
                 PROVE  /\ beat /\ beat' /\ Settled("HEALTHY") => Settled("HEALTHY")'
                        /\ ~beat /\ ~beat' /\ Settled("DOWN") => Settled("DOWN")'
      OBVIOUS
    <2>1. ASSUME beat, beat', Settled("HEALTHY") PROVE Settled("HEALTHY")'
      BY <2>1, SettledStep
    <2>2. ASSUME ~beat, ~beat', Settled("DOWN") PROVE Settled("DOWN")'
      BY <2>2, SettledStep
    <2> QED
      BY <2>1, <2>2
  <1> QED
    BY <1>1, HealthTypeCorrect, PTL DEF H!Spec
=============================================================================
