-------------------------- MODULE ReplicationJobs --------------------------
(***************************************************************************)
(* Replication of one file to the edges: dispatch on file events, the core *)
(* BullMQ worker with its retries, the dead-letter queue and its admin     *)
(* calls, and fail-over when an edge goes DOWN (apps/core/src/replication).*)
(* The attempt number on the row is only displayed and is left out.        *)
(*                                                                         *)
(* One ReplicationStatus row per edge is shared by every job ever queued   *)
(* for that edge.  Three handlers queue jobs: the consumer of file events, *)
(* the consumer of edge.health_changed, and the admin API; each upserts a  *)
(* row and then queues a job, with awaits in between.  A Kafka message is  *)
(* delivered again until its handler has returned; an HTTP call is not.    *)
(*                                                                         *)
(* A worker holds a job by a lock it renews.  A worker that dies, or whose *)
(* event loop is held up for too long, loses the job as stalled: BullMQ    *)
(* queues it again without counting an attempt, and fails it without       *)
(* calling process() when it has stalled too often.  The worker that was   *)
(* only held up goes on with its run all the same.                         *)
(***************************************************************************)
EXTENDS Naturals, FiniteSets

CONSTANTS
    Edges,
    Position,           \* distance clockwise from the file's hash to each edge
    ReplicationFactor,  \* 3 in the code
    MaxAttempts,        \* 3 in the code
    MaxStalls,          \* 1, BullMQ's default: stalls after which a job runs again
    Admins,             \* bound on admin calls at work at a time
    Runs,               \* bound on runs at a time that go on without their job
    MaxPending,         \* bound on file events not yet acknowledged
    Slots,              \* bound on jobs in the core queue at a time
    MaxBusy,            \* bound on handlers at work at a time
    Fragile             \* edges whose health changes

ASSUME ReplicationAssumption ==
    /\ IsFiniteSet(Edges)
    /\ Position \in [Edges -> Nat]
    /\ \A e, f \in Edges : Position[e] = Position[f] => e = f
    /\ ReplicationFactor \in Nat \ {0}
    /\ MaxAttempts \in Nat \ {0}
    /\ MaxStalls \in Nat
    /\ MaxPending \in Nat \ {0}
    /\ Fragile \subseteq Edges
    /\ "file" \notin Admins /\ "health" \notin Admins

Handlers == {"file", "health"} \cup Admins

VARIABLES
    healthy,    \* edges HealthCheckService holds HEALTHY
    ring,       \* edges on this.hashRing, shared by dispatch and fail-over
    events,     \* how many file events are not yet acknowledged
    downs,      \* edge.health_changed DOWN events not yet acknowledged
    row,        \* ReplicationStatus row of each edge
    jobs,       \* core queue replication.normal
    task,       \* what each handler is doing
    late,       \* runs whose job BullMQ has taken away as stalled
    owed,       \* history: dead letters neither purged nor made up for
    orphaned    \* history: rows whose handler, or whose last job, died on them

vars == <<healthy, ring, events, downs, row, jobs, task, late, owed, orphaned>>
history == <<owed, orphaned>>

NoRow == [status |-> "NONE", dead |-> FALSE]
NoJob == [state |-> "free", edge |-> "none", made |-> 0, stalls |-> 0]
Idle == [pc |-> "idle", lost |-> "none", edge |-> "none",
         seen |-> {}, todo |-> {}]

\* The core starts with what the database says of the edges' health.
Init ==
    /\ healthy \in {Edges \ S : S \in SUBSET Fragile}
    /\ ring = {}
    /\ events = 1 /\ downs = {}
    /\ row = [e \in Edges |-> NoRow]
    /\ jobs = [s \in Slots |-> NoJob]
    /\ task = [h \in Handlers |-> Idle]
    /\ late = [n \in Runs |-> NoJob]
    /\ owed = {} /\ orphaned = {}

-----------------------------------------------------------------------------
(* The world around replication                                            *)

\* completeUpload announces a version of the file.
FileEvent ==
    /\ events < MaxPending
    /\ events' = events + 1
    /\ UNCHANGED <<healthy, ring, downs, row, jobs, task, late, history>>

\* HealthCheckService.transitionStatus: an edge is HEALTHY or it is not.  When it gets
\* to DOWN there is an edge.health_changed event, after an await in which another scan
\* or a refresh may have made it HEALTHY again.
HealthChange(e) ==
    /\ e \in Fragile
    /\ \/ healthy' = healthy \cup {e} /\ UNCHANGED downs
       \/ healthy' = healthy \ {e} /\ UNCHANGED downs
       \/ downs' = downs \cup {e} /\ UNCHANGED healthy
    /\ UNCHANGED <<ring, events, row, jobs, task, late, history>>

\* hashRing.getNodes(fileId, REPLICATION_FACTOR) on a ring of the nodes S.
GetNodes(S) ==
    {e \in S : Cardinality({f \in S : Position[f] < Position[e]}) < ReplicationFactor}

-----------------------------------------------------------------------------
(* Queueing jobs                                                           *)

At(h, label) == task[h].pc = label
MayBegin(h) == At(h, "idle") /\ Cardinality({g \in Handlers : ~At(g, "idle")}) < MaxBusy
Finish(h) == task' = [task EXCEPT ![h] = Idle]

\* dispatchReplication up to its loop: no await between the health snapshot, the
\* ring and the choice of targets.
Dispatch ==
    /\ MayBegin("file") /\ events > 0
    /\ IF healthy = {}
       THEN /\ events' = events - 1
            /\ UNCHANGED <<ring, task>>
       ELSE /\ ring' = healthy
            /\ task' = [task EXCEPT !["file"] =
                          [Idle EXCEPT !.pc = "upsert", !.todo = GetNodes(healthy)]]
            /\ UNCHANGED events
    /\ UNCHANGED <<healthy, downs, row, jobs, late, history>>

\* handleEdgeCrashFailover up to the read of the rows of the dead edge; it skips a
\* file that is not COMPLETED because another session is open.
Failover(e) ==
    /\ MayBegin("health") /\ e \in downs
    /\ ring' = healthy
    /\ \/ /\ healthy # {} /\ row[e].status # "NONE"
          /\ task' = [task EXCEPT !["health"] =
                        [Idle EXCEPT !.pc = "choose", !.lost = e, !.seen = healthy]]
          /\ UNCHANGED downs
       \/ downs' = downs \ {e} /\ UNCHANGED task
    /\ UNCHANGED <<healthy, events, row, jobs, late, history>>

Live(status) == status \in {"PENDING", "IN_PROGRESS", "COMPLETE"}

\* The targets come from the ring as it is by now.
ChooseTargets ==
    /\ At("health", "choose")
    /\ task' = [task EXCEPT !["health"] =
                  [@ EXCEPT !.pc = "plan",
                            !.seen = task["health"].seen \cap GetNodes(ring)]]
    /\ UNCHANGED <<healthy, ring, events, downs, row, jobs, late, history>>

\* The rows of all edges: targets that have, or are about to get, the file drop out.
PlanFailover ==
    LET t == task["health"]
        todo == {n \in t.seen : n = t.lost \/ ~Live(row[n].status)}
    IN
    /\ At("health", "plan")
    /\ \/ todo # {} /\ task' = [task EXCEPT !["health"] =
                          [@ EXCEPT !.pc = "upsert", !.seen = {}, !.todo = todo]]
          /\ UNCHANGED downs
       \/ todo = {} /\ Finish("health") /\ downs' = downs \ {t.lost}
    /\ UNCHANGED <<healthy, ring, events, row, jobs, late, history>>

\* Mutant: the dead letter is taken off the list before the replay is prepared.
ReplayClearsFirst(a, e) ==
    /\ MayBegin(a) /\ row[e].status # "NONE"
    /\ row' = [row EXCEPT ![e].dead = FALSE]
    /\ task' = [task EXCEPT ![a] =
                  [Idle EXCEPT !.pc = "upsert", !.todo = {e}]]
    /\ UNCHANGED <<healthy, ring, events, downs, jobs, late, history>>

\* replayDLQEvent (and retry, replay-all): whatever the row's state is.
Replay(a, e) ==
    /\ MayBegin(a) /\ row[e].status # "NONE"
    /\ task' = [task EXCEPT ![a] =
                  [Idle EXCEPT !.pc = "upsert", !.todo = {e}]]
    /\ UNCHANGED <<healthy, ring, events, downs, row, jobs, late, history>>

Purge(e) ==
    /\ row[e].status # "NONE"
    /\ row' = [row EXCEPT ![e].dead = FALSE]
    /\ owed' = owed \ {e}
    /\ UNCHANGED <<healthy, ring, events, downs, jobs, task, late, orphaned>>

\* Dispatch sets the row PENDING, but only the other two clear isDeadLetter.
Upsert(h, e) ==
    /\ At(h, "upsert") /\ e \in task[h].todo
    /\ row' = [row EXCEPT ![e] = [status |-> "PENDING",
                                  dead |-> h = "file" /\ row[e].dead]]
    /\ task' = [task EXCEPT ![h] = [@ EXCEPT !.pc = "enqueue", !.edge = e]]
    /\ UNCHANGED <<healthy, ring, events, downs, jobs, late, history>>

\* The message is acknowledged when the loop ends.
Acknowledge(h, done) ==
    /\ events' = IF done /\ h = "file" THEN events - 1 ELSE events
    /\ downs' = IF done /\ h = "health" THEN downs \ {task[h].lost} ELSE downs

\* The edge's own queue, whose errors are swallowed, and then the core queue.
Enqueue(h) ==
    LET e == task[h].edge
        left == task[h].todo \ {e}
    IN
    /\ At(h, "enqueue")
    /\ \E s \in Slots :
          /\ jobs[s].state = "free"
          /\ jobs' = [jobs EXCEPT ![s] = [NoJob EXCEPT !.state = "waiting", !.edge = e]]
    /\ task' = [task EXCEPT ![h] = IF left = {} THEN Idle
                                   ELSE [@ EXCEPT !.pc = "upsert", !.edge = "none", !.todo = left]]
    /\ Acknowledge(h, left = {})
    /\ orphaned' = orphaned \ {e}
    /\ UNCHANGED <<healthy, ring, row, late, owed>>

\* The handler dies of an error or with its process: a consumer's message comes
\* again, an admin's call does not.  A row it has just reset stays PENDING.
Interrupted(h) ==
    /\ ~At(h, "idle")
    /\ Finish(h)
    /\ orphaned' = IF At(h, "enqueue") THEN orphaned \cup {task[h].edge} ELSE orphaned
    /\ UNCHANGED <<healthy, ring, events, downs, row, jobs, late, owed>>

-----------------------------------------------------------------------------
(* The core worker: process() of replication.processor.ts                  *)

\* A job waits, or a worker has taken it and not yet made its first update.
StartJob(s) ==
    /\ jobs[s].state = "waiting"
    /\ jobs' = [jobs EXCEPT ![s].state = "active"]
    /\ row' = [row EXCEPT ![jobs[s].edge].status = "IN_PROGRESS"]
    /\ UNCHANGED <<healthy, ring, events, downs, task, late, history>>

\* Mutant: off by one, the last attempt is not recognised as such.
FinalAfterLast(j) == j.made >= MaxAttempts
IsFinalAttempt(j) == j.made + 1 >= MaxAttempts

\* What the run of job j leaves in the row: the object is in the core cache (or too
\* large for it), or the catch block.
Success == [status |-> "COMPLETE", dead |-> FALSE]
Failure(j) ==
    [status |-> IF IsFinalAttempt(j) THEN "FAILED" ELSE "IN_PROGRESS", dead |-> IsFinalAttempt(j)]

Owing(e, r) ==
    IF r.dead THEN owed \cup {e} ELSE IF r.status = "COMPLETE" THEN owed \ {e} ELSE owed

JobSucceeds(s) ==
    /\ jobs[s].state = "active"
    /\ row' = [row EXCEPT ![jobs[s].edge] = Success]
    /\ jobs' = [jobs EXCEPT ![s] = NoJob]
    /\ owed' = Owing(jobs[s].edge, Success)
    /\ orphaned' = orphaned \ {jobs[s].edge}
    /\ UNCHANGED <<healthy, ring, events, downs, task, late>>

\* Mutants: one attempt too many; attempts that are not counted.
OneMoreTry(s) ==
    IF jobs[s].made >= MaxAttempts THEN NoJob
    ELSE [jobs[s] EXCEPT !.state = "waiting", !.made = @ + 1]
RetriedForEver(s) == [jobs[s] EXCEPT !.state = "waiting"]

\* BullMQ puts a failed job back until it has used up its attempts.
JobAfterFailure(s) ==
    IF jobs[s].made + 1 >= MaxAttempts THEN NoJob
    ELSE [jobs[s] EXCEPT !.state = "waiting", !.made = @ + 1]

JobFails(s) ==
    /\ jobs[s].state = "active"
    /\ row' = [row EXCEPT ![jobs[s].edge] = Failure(jobs[s])]
    /\ jobs' = [jobs EXCEPT ![s] = JobAfterFailure(s)]
    /\ owed' = Owing(jobs[s].edge, Failure(jobs[s]))
    /\ orphaned' = IF IsFinalAttempt(jobs[s]) THEN orphaned \ {jobs[s].edge} ELSE orphaned
    /\ UNCHANGED <<healthy, ring, events, downs, task, late>>

\* The update before the try block, or the one in the catch block, throws: the
\* attempt is spent and the row is left as it is.
UpdateRejected(s) ==
    /\ jobs[s].state # "free"
    /\ jobs' = [jobs EXCEPT ![s] = JobAfterFailure(s)]
    /\ orphaned' = IF jobs'[s] = NoJob THEN orphaned \cup {jobs[s].edge} ELSE orphaned
    /\ UNCHANGED <<healthy, ring, events, downs, row, task, late, owed>>

\* BullMQ's stalled check: the job has no lock any more.
JobAfterStall(s) ==
    IF jobs[s].stalls >= MaxStalls THEN NoJob
    ELSE [jobs[s] EXCEPT !.state = "waiting", !.stalls = @ + 1]

\* The worker died with its process, or it was held up and its run goes on.
Stalled(s) ==
    /\ jobs[s].state # "free"
    /\ jobs' = [jobs EXCEPT ![s] = JobAfterStall(s)]
    /\ \/ UNCHANGED late
       \/ \E n \in Runs : late[n].state = "free" /\ late' = [late EXCEPT ![n] = jobs[s]]
    /\ orphaned' = IF jobs'[s] = NoJob THEN orphaned \cup {jobs[s].edge} ELSE orphaned
    /\ UNCHANGED <<healthy, ring, events, downs, row, task, owed>>

Unsettled(e) == row[e].status \in {"PENDING", "IN_PROGRESS"}
HasJob(e) == \E s \in Slots : jobs[s].state # "free" /\ jobs[s].edge = e
BeingQueued(e) == \E h \in Handlers : At(h, "enqueue") /\ task[h].edge = e

\* A run without its job writes the row.  Nothing follows up what it leaves there
\* but a job or a handler that happens to be at work on the same row.
LateWrite(e, r) ==
    /\ row' = [row EXCEPT ![e] = r]
    /\ owed' = Owing(e, r)
    /\ orphaned' = IF r.status \in {"COMPLETE", "FAILED"} THEN orphaned \ {e}
                   ELSE IF HasJob(e) \/ BeingQueued(e) THEN orphaned
                   ELSE orphaned \cup {e}

\* process() goes on after its job was taken away, BullMQ ignoring its result: the
\* first update, then the last one.  Or it ends, with its process or an update.  This
\* is also the worker that dies after its last update and before it reports.
LateRun(n) ==
    LET j == late[n] IN
    /\ \/ /\ j.state = "waiting"
          /\ late' = [late EXCEPT ![n].state = "active"]
          /\ LateWrite(j.edge, [row[j.edge] EXCEPT !.status = "IN_PROGRESS"])
       \/ /\ j.state = "active"
          /\ late' = [late EXCEPT ![n] = NoJob]
          /\ LateWrite(j.edge, Success) \/ LateWrite(j.edge, Failure(j))
       \/ /\ j.state # "free"
          /\ late' = [late EXCEPT ![n] = NoJob]
          /\ UNCHANGED <<row, history>>
    /\ UNCHANGED <<healthy, ring, events, downs, jobs, task>>

-----------------------------------------------------------------------------
Work(s) == StartJob(s) \/ JobSucceeds(s) \/ JobFails(s) \/ UpdateRejected(s) \/ Stalled(s)
Proceed(h) ==
    \/ \E e \in Edges : Upsert(h, e)
    \/ Enqueue(h)
    \/ h = "health" /\ (ChooseTargets \/ PlanFailover)

Replicate ==
    \/ FileEvent \/ Dispatch
    \/ \E e \in Edges : Failover(e) \/ Purge(e) \/ \E a \in Admins : Replay(a, e)
    \/ \E h \in Handlers : Proceed(h) \/ Interrupted(h)
    \/ \E s \in Slots : Work(s)
    \/ \E n \in Runs : LateRun(n)

Next == Replicate \/ \E e \in Edges : HealthChange(e)

Spec == Init /\ [][Next]_vars

\* The event loop resumes handlers, and BullMQ hands out waiting jobs.
FairSpec ==
    /\ Spec
    /\ \A h \in Handlers : WF_vars(Proceed(h))
    /\ \A s \in Slots : WF_vars(Work(s))

-----------------------------------------------------------------------------
(* Properties                                                              *)

EdgeOrNone == Edges \cup {"none"}
RowType == [status : {"NONE", "PENDING", "IN_PROGRESS", "COMPLETE", "FAILED"}, dead : BOOLEAN]
JobType ==
    [state : {"free", "waiting", "active"}, edge : EdgeOrNone, made : 0 .. MaxAttempts - 1,
     stalls : 0 .. MaxStalls]
TaskType ==
    [pc : {"idle", "choose", "plan", "upsert", "enqueue"}, lost : EdgeOrNone, edge : EdgeOrNone,
     seen : SUBSET Edges, todo : SUBSET Edges]

\* Every row, job and task has its type; a job in the queue has an
\* attempt left.
TypeOK ==
    /\ healthy \in SUBSET Edges /\ ring \in SUBSET Edges
    /\ events \in 0 .. MaxPending /\ downs \in SUBSET Edges
    /\ row \in [Edges -> RowType] /\ jobs \in [Slots -> JobType]
    /\ task \in [Handlers -> TaskType]
    /\ late \in [Runs -> JobType]
    /\ owed \in SUBSET Edges /\ orphaned \in SUBSET Edges

\* Although any number of jobs, dispatches, replays and repairs write the same
\* row, a row that is not settled always has a job that will settle it, or a
\* handler about to queue one.  The exceptions, after which nothing ever looks at
\* the row again: a handler interrupted between its upsert and its queue.add; a
\* worker whose last database update failed; a job that stalled once too often,
\* which BullMQ fails without process(); and a run that went on after its job was
\* taken away and wrote over what had been settled.
NoStrandedRow ==
    \A e \in Edges : Unsettled(e) => HasJob(e) \/ BeingQueued(e) \/ e \in orphaned

\* A dead letter that was neither purged nor followed by a success is on the list,
\* or a job or a handler that cleared isDeadLetter is still at work on the row.  A
\* replay that ends before it has queued its job, a retry that is given up, or a
\* late run loses it for good only in the four ways named above.
DeadLetterKept ==
    \A e \in owed : row[e].dead \/ HasJob(e) \/ BeingQueued(e) \/ e \in orphaned

\* Every row reaches COMPLETE or FAILED, except one orphaned as above, whatever
\* stalls and is run again meanwhile.
RowsSettle ==
    \A e \in Edges : Unsettled(e) ~> (~Unsettled(e) \/ e \in orphaned)
=============================================================================
