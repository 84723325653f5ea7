------------------------- MODULE TranscodingProofs -------------------------
(***************************************************************************)
(* What holds of Transcoding for any number of quality profiles, attempts  *)
(* and stalls: the types, what the rows say of a job that is over, and the *)
(* refinement of HlsOutput.                                                *)
(***************************************************************************)
EXTENDS VideoPlayback, TLAPS

\* The worker is in process() exactly while BullMQ counts the job as active.
Occupied == pc # "idle" <=> job.state = "active"
\* Past the probe there is a profile to work on, and the loops stay within them.
InLoop == pc \in {"upsert", "processing", "ffmpeg", "completed", "master", "upload", "publish"}
AtTarget == InLoop => at \in Targets

TypeInv == TypeOK /\ Occupied /\ AtTarget

\* What is in the object store while the output is being uploaded.
Uploaded ==
    /\ pc = "upload" => Master \in objects /\ 1 .. (at - 1) \subseteq objects
    /\ pc = "publish" => {Master} \cup Targets \subseteq objects

\* The rows that say COMPLETED while the run goes on.
RowsDone(S) == \A p \in S : row[p] = "COMPLETED"
RowsAhead ==
    ~removed =>
        /\ pc \in {"processing", "ffmpeg", "completed"} => RowsDone(1 .. (at - 1))
        /\ pc \in {"master", "upload", "publish"} => RowsDone(Targets)
        /\ pc = "settle" /\ applicable > 0 => primary /\ RowsDone(Targets)

\* A removed file has no rows, and none comes back.
RemovedHasNoRows == removed => Written = {}
\* A run that failed has said so of its rows.
FailureWritten ==
    pc = "failed" /\ ~abandoned => \A p \in Profiles : ~Unfinished(row[p])

RowInv == RowsAhead /\ RemovedHasNoRows /\ FailureWritten /\ OutcomeRecorded

-----------------------------------------------------------------------------
JobType == [state : {"waiting", "active", "done", "failed"},
            made : 0 .. MaxAttempts, stalls : 0 .. MaxStalls]

LEMMA TypeInvInit == Init => TypeInv
  <1> SUFFICES ASSUME Init PROVE TypeInv
    OBVIOUS
  <1>1. job \in JobType /\ job.state = "waiting"
    BY TranscodingAssumption DEF Init, JobType
  <1>2. Written = {}
    BY DEF Init, Written
  <1>3. TypeOK
    BY <1>1, <1>2 DEF Init, TypeOK, JobType, Pcs
  <1> QED
    BY <1>1, <1>3 DEF Init, TypeInv, Occupied, AtTarget, InLoop

LEMMA TypeInvNext == TypeInv /\ [Next]_vars => TypeInv'
  <1> USE TranscodingAssumption
  <1> USE DEF Goto, Throw
  <1>1. ASSUME TypeInv, TakeJob PROVE TypeInv'
    <2>1. job' \in JobType /\ job'.state = "active"
      BY <1>1 DEF TypeInv, TypeOK, TakeJob, JobType
    <2> QED
      BY <1>1, <2>1 DEF TypeInv, TypeOK, TakeJob, Occupied, AtTarget, InLoop, Targets, Written,
                        Profiles, Pcs, JobType
  <1>2. ASSUME TypeInv, Probe PROVE TypeInv'
    <2>1. applicable > 0 => 1 \in Targets
      BY <1>2 DEF TypeInv, TypeOK, Targets
    <2>2. AtTarget'
      BY <1>2, <2>1 DEF Probe, AtTarget, InLoop, Targets
    <2> QED
      BY <1>2, <2>2 DEF TypeInv, TypeOK, Probe, Occupied, Targets, Written, Pcs
  <1>3. ASSUME TypeInv, UpsertRow PROVE TypeInv'
    BY <1>3 DEF TypeInv, TypeOK, UpsertRow, IsLast, Occupied, AtTarget, InLoop, Targets, Written,
                Profiles, Pcs
  <1>4. ASSUME TypeInv, MarkProcessing PROVE TypeInv'
    BY <1>4 DEF TypeInv, TypeOK, MarkProcessing, Occupied, AtTarget, InLoop, Targets, Written,
                Profiles, Pcs
  <1>5. ASSUME TypeInv, RunFfmpeg PROVE TypeInv'
    BY <1>5 DEF TypeInv, TypeOK, RunFfmpeg, Occupied, AtTarget, InLoop, Targets, Written,
                Profiles, Pcs
  <1>6. ASSUME TypeInv, MarkCompleted PROVE TypeInv'
    BY <1>6 DEF TypeInv, TypeOK, MarkCompleted, IsLast, Occupied, AtTarget, InLoop, Targets,
                Written, Profiles, Pcs
  <1>7. ASSUME TypeInv, UploadMaster PROVE TypeInv'
    BY <1>7 DEF TypeInv, TypeOK, UploadMaster, Occupied, AtTarget, InLoop, Targets, Written,
                Profiles, Pcs
  <1>8. ASSUME TypeInv, UploadProfile PROVE TypeInv'
    BY <1>8 DEF TypeInv, TypeOK, UploadProfile, IsLast, Occupied, AtTarget, InLoop, Targets,
                Written, Profiles, Pcs
  <1>9. ASSUME TypeInv, Publish PROVE TypeInv'
    BY <1>9 DEF TypeInv, TypeOK, Publish, Occupied, AtTarget, InLoop, Targets, Written,
                Profiles, Pcs
  <1>10. ASSUME TypeInv, JobCompletes PROVE TypeInv'
    <2>1. job' \in JobType /\ job'.state = "done"
      BY <1>10 DEF TypeInv, TypeOK, JobCompletes, JobType
    <2> QED
      BY <1>10, <2>1 DEF TypeInv, TypeOK, JobCompletes, Occupied, AtTarget, InLoop, Targets,
                         Written, Profiles, Pcs, JobType
  <1>11. ASSUME TypeInv, MarkFailed PROVE TypeInv'
    <2>1. row' \in [Profiles -> {"NONE", "PENDING", "PROCESSING", "COMPLETED", "FAILED"}]
      BY <1>11 DEF TypeInv, TypeOK, MarkFailed
    <2>2. Written' = Written
      BY <1>11 DEF TypeInv, TypeOK, MarkFailed, Unfinished, Written
    <2> QED
      BY <1>11, <2>1, <2>2
         DEF TypeInv, TypeOK, MarkFailed, Occupied, AtTarget, InLoop, Targets, Pcs
  <1>12. ASSUME TypeInv, JobFails PROVE TypeInv'
    <2>1. job' \in JobType /\ job'.state # "active"
      <3> DEFINE m == IF job.made < MaxAttempts THEN job.made + 1 ELSE job.made
                 st == StateAfter(job.made + 1)
      <3>1. job \in JobType
        BY <1>12 DEF TypeInv, TypeOK, JobType
      <3>2. m \in 0 .. MaxAttempts
        BY <3>1 DEF JobType
      <3>3. st \in {"waiting", "failed"}
        BY DEF StateAfter
      <3>4. job' = [job EXCEPT !.state = st, !.made = m]
        BY <1>12, <3>1 DEF JobFails, JobType
      <3> HIDE DEF m, st
      <3> QED
        BY <3>1, <3>2, <3>3, <3>4 DEF JobType
    <2> QED
      BY <1>12, <2>1 DEF TypeInv, TypeOK, JobFails, Occupied, AtTarget, InLoop, Targets,
                         Written, Profiles, Pcs, JobType
  <1>13. ASSUME TypeInv, Crash PROVE TypeInv'
    <2>1. job' \in JobType /\ job'.state # "active"
      <3> DEFINE m == IF job.stalls < MaxStalls THEN job.stalls + 1 ELSE job.stalls
                 st == IF job.stalls < MaxStalls THEN "waiting" ELSE "failed"
      <3>1. job \in JobType
        BY <1>13 DEF TypeInv, TypeOK, JobType
      <3>2. m \in 0 .. MaxStalls
        BY <3>1 DEF JobType
      <3>3. st \in {"waiting", "failed"}
        OBVIOUS
      <3>4. job' = [job EXCEPT !.state = st, !.stalls = m]
        BY <1>13, <3>1 DEF Crash, JobType
      <3> HIDE DEF m, st
      <3> QED
        BY <3>1, <3>2, <3>3, <3>4 DEF JobType
    <2> QED
      BY <1>13, <2>1 DEF TypeInv, TypeOK, Crash, Occupied, AtTarget, InLoop, Targets,
                         Written, Profiles, Pcs, JobType
  <1>14. ASSUME TypeInv, RemoveFile PROVE TypeInv'
    BY <1>14 DEF TypeInv, TypeOK, RemoveFile, Occupied, AtTarget, InLoop, Targets, Written,
                 Profiles, Pcs
  <1>15. ASSUME TypeInv, UNCHANGED vars PROVE TypeInv'
    BY <1>15 DEF TypeInv, TypeOK, vars, Occupied, AtTarget, InLoop, Targets, Written
  <1> QED
    BY <1>1, <1>2, <1>3, <1>4, <1>5, <1>6, <1>7, <1>8, <1>9, <1>10, <1>11, <1>12, <1>13, <1>14,
       <1>15 DEF Next, Run

LEMMA TypeInvHolds == Spec => []TypeInv
  BY TypeInvInit, TypeInvNext, PTL DEF Spec

\* Every run of process(), first or repeated, keeps rows, objects and the job within
\* their types and touches only the profiles that the source is large enough for.
THEOREM TypeCorrect == Spec => []TypeOK
  BY TypeInvHolds, PTL DEF TypeInv

-----------------------------------------------------------------------------
(* The refinement of HlsOutput.                                            *)

LEMMA UploadedNext == TypeInv /\ Uploaded /\ [Next]_vars => Uploaded'
  <1> SUFFICES ASSUME TypeInv, Uploaded, [Next]_vars PROVE Uploaded'
    OBVIOUS
  <1> USE TranscodingAssumption DEF Goto, Throw, Uploaded, Master
  <1>1. CASE UploadMaster
    BY <1>1 DEF UploadMaster
  <1>2. CASE UploadProfile
    <2>1. at \in Targets /\ Master \in objects /\ 1 .. (at - 1) \subseteq objects
      BY <1>2 DEF UploadProfile, TypeInv, AtTarget, InLoop
    <2>2. CASE objects' = objects \cup {at} /\ UNCHANGED applicable
               /\ IF IsLast(at) THEN Goto("publish", 1) ELSE Goto("upload", at + 1)
      <3>1. 1 .. at \subseteq objects'
        BY <2>1, <2>2 DEF Targets, TypeInv, TypeOK
      <3>2. CASE at = applicable
        BY <2>1, <2>2, <3>1, <3>2 DEF IsLast, Targets
      <3>3. CASE at # applicable
        BY <2>1, <2>2, <3>1, <3>3 DEF IsLast, Targets, TypeInv, TypeOK
      <3> QED
        BY <3>2, <3>3
    <2> QED
      BY <1>2, <2>2 DEF UploadProfile
  <1>3. CASE TakeJob \/ Probe \/ UpsertRow \/ MarkProcessing \/ RunFfmpeg \/ MarkCompleted
             \/ Publish \/ JobCompletes \/ MarkFailed \/ JobFails \/ Crash
    BY <1>3 DEF TakeJob, Probe, UpsertRow, MarkProcessing, RunFfmpeg, MarkCompleted, Publish,
                JobCompletes, MarkFailed, JobFails, Crash
  <1>4. CASE RemoveFile \/ UNCHANGED vars
    BY <1>4 DEF RemoveFile, vars, Targets
  <1> QED
    BY <1>1, <1>2, <1>3, <1>4 DEF Next, Run

LEMMA StepImplements ==
  TypeInv /\ Uploaded /\ [Next]_vars => [Output!OutputNext]_(Output!output)
  <1> SUFFICES ASSUME TypeInv, Uploaded, [Next]_vars
               PROVE  Output!OutputNext \/ UNCHANGED <<applicable, objects, announced, removed>>
    BY DEF Output!output
  <1> USE DEF Goto, Throw
  <1>1. CASE UploadMaster
    <2>1. CASE UNCHANGED <<applicable, objects, announced, removed>>
      BY <2>1
    <2>2. CASE objects' = objects \cup {Master} /\ UNCHANGED <<applicable, announced, removed>>
      <3>1. Output!Add(Master)
        BY <2>2 DEF Output!Add, Output!Complete, Output!Master, Master
      <3> QED
        BY <3>1 DEF Output!OutputNext, Output!Complete, Output!Master, Master
    <2> QED
      BY <1>1, <2>1, <2>2 DEF UploadMaster
  <1>2. CASE UploadProfile
    <2>1. CASE UNCHANGED <<applicable, objects, announced, removed>>
      BY <2>1
    <2>2. CASE objects' = objects \cup {at} /\ UNCHANGED <<applicable, announced, removed>>
      <3>1. at \in Targets /\ Master \in objects
        BY <1>2 DEF UploadProfile, TypeInv, AtTarget, InLoop, Uploaded
      <3>2. at \in Output!Complete /\ Output!Add(at)
        BY <2>2, <3>1 DEF Output!Add, Output!Complete, Output!Master, Master, Targets
      <3> QED
        BY <3>2 DEF Output!OutputNext
    <2> QED
      BY <1>2, <2>1, <2>2 DEF UploadProfile
  <1>3. CASE Publish
    <2>1. CASE UNCHANGED <<applicable, objects, announced, removed>>
      BY <2>1
    <2>2. CASE announced' = TRUE /\ UNCHANGED <<applicable, objects, removed>>
      <3>1. objects = Output!Complete
        BY <1>3 DEF Publish, Uploaded, TypeInv, TypeOK, Output!Complete, Output!Master, Master,
                    Targets
      <3> QED
        BY <2>2, <3>1 DEF Output!OutputNext, Output!AnnounceOutput
    <2> QED
      BY <1>3, <2>1, <2>2 DEF Publish
  <1>4. CASE RemoveFile
    BY <1>4 DEF RemoveFile, Output!OutputNext, Output!RemoveVideo
  <1>5. CASE TakeJob \/ Probe \/ UpsertRow \/ MarkProcessing \/ RunFfmpeg \/ MarkCompleted
             \/ JobCompletes \/ MarkFailed \/ JobFails \/ Crash \/ UNCHANGED vars
    BY <1>5 DEF TakeJob, Probe, UpsertRow, MarkProcessing, RunFfmpeg, MarkCompleted,
                JobCompletes, MarkFailed, JobFails, Crash, vars
  <1> QED
    BY <1>1, <1>2, <1>3, <1>4, <1>5 DEF Next, Run

\* Whatever failed, was repeated or was removed meanwhile: no HLS object disappears,
\* the master playlist is there before any profile, and video.transcoded is sent only
\* when everything the master playlist lists is in the object store.
THEOREM Refinement == Spec => ImplementsHlsOutput
  <1>1. Init => Output!OutputInit
    BY DEF Init, Output!OutputInit
  <1>2. Init => Uploaded
    BY DEF Init, Uploaded
  <1> QED
    BY <1>1, <1>2, TypeInvHolds, UploadedNext, StepImplements, PTL
       DEF Spec, ImplementsHlsOutput, Output!OutputSpec

-----------------------------------------------------------------------------
(* What the rows say.                                                      *)

LEMMA RowInvNext == TypeInv /\ RowInv /\ [Next]_vars => RowInv'
  <1> SUFFICES ASSUME TypeInv, RowInv, [Next]_vars PROVE RowInv'
    OBVIOUS
  <1> USE TranscodingAssumption DEF Goto, Throw
  <1>0. ASSUME pc # "idle", job' = job
        PROVE  DoneIsReady' /\ NoRowLeftBehind'
    BY <1>0 DEF TypeInv, Occupied, DoneIsReady, NoRowLeftBehind, Finished
  <1>1. CASE TakeJob
    <2>1. job'.state = "active"
      BY <1>1 DEF TakeJob, TypeInv, TypeOK
    <2> QED
      BY <1>1, <2>1 DEF TakeJob, RowInv, RowsAhead, RemovedHasNoRows, FailureWritten, Written,
                        OutcomeRecorded, DoneIsReady, NoRowLeftBehind, Finished
  <1>2. CASE Probe
    BY <1>0, <1>2 DEF Probe, RowInv, RowsAhead, RemovedHasNoRows, FailureWritten, Written,
                      OutcomeRecorded
  <1>3. CASE UpsertRow
    <2>1. RemovedHasNoRows' /\ FailureWritten'
      BY <1>3 DEF UpsertRow, RowInv, RemovedHasNoRows, FailureWritten, Written
    <2>2. RowsAhead'
      BY <1>3 DEF UpsertRow, RowsAhead, RowsDone
    <2> QED
      BY <1>0, <1>3, <2>1, <2>2 DEF UpsertRow, RowInv, OutcomeRecorded
  <1>4. CASE MarkProcessing
    <2>1. at \in Targets /\ at \in Profiles
      BY <1>4 DEF MarkProcessing, TypeInv, TypeOK, AtTarget, InLoop, Targets, Profiles
    <2>2. RemovedHasNoRows' /\ FailureWritten'
      BY <1>4 DEF MarkProcessing, RowInv, RemovedHasNoRows, FailureWritten, Written
    <2>3. RowsAhead'
      <3>1. CASE row' = [row EXCEPT ![at] = "PROCESSING"] /\ Goto("ffmpeg", at)
                 /\ UNCHANGED removed
        <4>1. ~removed => \A p \in 1 .. (at - 1) : row[p] = "COMPLETED"
          BY <1>4 DEF MarkProcessing, RowInv, RowsAhead, RowsDone
        <4>2. \A p \in 1 .. (at - 1) : row'[p] = row[p]
          BY <2>1, <3>1 DEF TypeInv, TypeOK, Targets
        <4> QED
          BY <3>1, <4>1, <4>2 DEF RowsAhead, RowsDone
      <3>2. CASE Throw
        BY <3>2 DEF RowsAhead
      <3> QED
        BY <1>4, <3>1, <3>2 DEF MarkProcessing
    <2> QED
      BY <1>0, <1>4, <2>2, <2>3 DEF MarkProcessing, RowInv, OutcomeRecorded
  <1>5. CASE RunFfmpeg
    BY <1>0, <1>5 DEF RunFfmpeg, RowInv, RowsAhead, RowsDone, RemovedHasNoRows, FailureWritten,
                      Written, OutcomeRecorded
  <1>6. CASE MarkCompleted
    <2>1. at \in Targets /\ at \in Profiles
      BY <1>6 DEF MarkCompleted, TypeInv, TypeOK, AtTarget, InLoop, Targets, Profiles
    <2>2. RemovedHasNoRows' /\ FailureWritten'
      BY <1>6 DEF MarkCompleted, RowInv, RemovedHasNoRows, FailureWritten, Written
    <2>3. RowsAhead'
      <3>1. CASE row' = [row EXCEPT ![at] = "COMPLETED"] /\ UNCHANGED <<applicable, removed>>
                 /\ IF IsLast(at) THEN Goto("master", 1) ELSE Goto("processing", at + 1)
        <4>1. ~removed => \A p \in 1 .. at : row'[p] = "COMPLETED"
          BY <1>6, <2>1, <3>1 DEF MarkCompleted, RowInv, RowsAhead, RowsDone, TypeInv, TypeOK,
                                  Targets, Profiles
        <4>2. CASE at = applicable
          BY <3>1, <4>1, <4>2 DEF IsLast, RowsAhead, RowsDone, Targets
        <4>3. CASE at # applicable
          <5>1. pc' = "processing" /\ at' = at + 1 /\ at \in Nat
            BY <2>1, <3>1, <4>3 DEF IsLast, Targets
          <5>2. 1 .. (at' - 1) = 1 .. at
            BY <5>1
          <5> QED
            BY <3>1, <4>1, <5>1, <5>2 DEF RowsAhead, RowsDone
        <4> QED
          BY <4>2, <4>3
      <3>2. CASE Throw
        BY <3>2 DEF RowsAhead
      <3> QED
        BY <1>6, <3>1, <3>2 DEF MarkCompleted
    <2> QED
      BY <1>0, <1>6, <2>2, <2>3 DEF MarkCompleted, RowInv, OutcomeRecorded
  <1>7. CASE UploadMaster
    BY <1>0, <1>7 DEF UploadMaster, RowInv, RowsAhead, RowsDone, RemovedHasNoRows,
                      FailureWritten, Written, Targets, OutcomeRecorded
  <1>8. CASE UploadProfile
    BY <1>0, <1>8 DEF UploadProfile, RowInv, RowsAhead, RowsDone, RemovedHasNoRows,
                      FailureWritten, Written, Targets, OutcomeRecorded
  <1>9. CASE Publish
    BY <1>0, <1>9 DEF Publish, RowInv, RowsAhead, RowsDone, RemovedHasNoRows, FailureWritten,
                      Written, Targets, OutcomeRecorded
  <1>10. CASE JobCompletes
    <2>1. RowsAhead' /\ RemovedHasNoRows' /\ FailureWritten'
      BY <1>10 DEF JobCompletes, RowInv, RowsAhead, RemovedHasNoRows, FailureWritten, Written
    <2>2. DoneIsReady'
      BY <1>10 DEF JobCompletes, RowInv, RowsAhead, RowsDone, DoneIsReady, Targets
    <2>3. NoRowLeftBehind'
      <3>1. ASSUME NEW p \in Profiles, row[p] \in {"PENDING", "PROCESSING"} PROVE FALSE
        <4>1. p \in Written /\ p \in Targets
          BY <3>1 DEF Written, TypeInv, TypeOK
        <4>2. ~removed /\ applicable > 0
          BY <4>1 DEF RowInv, RemovedHasNoRows, Targets, TypeInv, TypeOK
        <4> QED
          BY <1>10, <3>1, <4>1, <4>2 DEF JobCompletes, RowInv, RowsAhead, RowsDone
      <3> QED
        BY <1>10, <3>1 DEF JobCompletes, NoRowLeftBehind
    <2> QED
      BY <2>1, <2>2, <2>3 DEF RowInv, OutcomeRecorded
  <1>11. CASE MarkFailed
    <2>1. FailureWritten' /\ RemovedHasNoRows' /\ RowsAhead'
      BY <1>11 DEF MarkFailed, RowInv, RowsAhead, RemovedHasNoRows, FailureWritten, Unfinished,
                   Written, TypeInv, TypeOK
    <2> QED
      BY <1>0, <1>11, <2>1 DEF MarkFailed, RowInv, OutcomeRecorded
  <1>12. CASE JobFails
    <2>1. job'.state # "done"
      BY <1>12 DEF JobFails, StateAfter, TypeInv, TypeOK
    <2>2. DoneIsReady' /\ NoRowLeftBehind'
      BY <1>12, <2>1 DEF JobFails, RowInv, FailureWritten, Unfinished, DoneIsReady, NoRowLeftBehind
    <2> QED
      BY <1>12, <2>2 DEF JobFails, RowInv, RowsAhead, RemovedHasNoRows, FailureWritten, Written,
                         OutcomeRecorded
  <1>13. CASE Crash
    <2>1. job'.state # "done"
      BY <1>13 DEF Crash, TypeInv, TypeOK
    <2> QED
      BY <1>13, <2>1 DEF Crash, RowInv, RowsAhead, RemovedHasNoRows, FailureWritten, Written,
                         OutcomeRecorded, DoneIsReady, NoRowLeftBehind
  <1>14. CASE RemoveFile
    BY <1>14 DEF RemoveFile, RowInv, RowsAhead, RemovedHasNoRows, FailureWritten, Written,
                 Unfinished, OutcomeRecorded, DoneIsReady, NoRowLeftBehind
  <1>15. CASE UNCHANGED vars
    BY <1>15 DEF vars, RowInv, RowsAhead, RowsDone, RemovedHasNoRows, FailureWritten, Written,
                 Targets, OutcomeRecorded, DoneIsReady, NoRowLeftBehind, Finished
  <1> QED
    BY <1>1, <1>2, <1>3, <1>4, <1>5, <1>6, <1>7, <1>8, <1>9, <1>10, <1>11, <1>12, <1>13, <1>14,
       <1>15 DEF Next, Run

\* However often the job is retried, stalled and given out again, and whenever the file
\* is removed: a completed job has every applicable row COMPLETED and the master playlist
\* recorded, and a job that is over leaves no row PENDING or PROCESSING, unless a run
\* of it died or could not write its failure.
THEOREM RowsTellOutcome == Spec => []OutcomeRecorded
  <1>1. Init => RowInv
    BY DEF Init, RowInv, RowsAhead, RemovedHasNoRows, FailureWritten, Written, OutcomeRecorded,
           DoneIsReady, NoRowLeftBehind, Finished
  <1> QED
    BY <1>1, TypeInvHolds, RowInvNext, PTL DEF Spec, RowInv

-----------------------------------------------------------------------------
(* Playback during a transcoding.                                          *)

LEMMA PlaybackStep ==
  TypeInv /\ Uploaded /\ [PlaybackNext]_everything => [Next]_vars /\ [D!Next]_D!vars
  <1> SUFFICES ASSUME TypeInv, Uploaded, [PlaybackNext]_everything
               PROVE  [Next]_vars /\ [D!Next]_D!vars
    OBVIOUS
  <1>1. CASE Next /\ UNCHANGED delivery
    <2>1. Output!OutputNext \/ UNCHANGED <<applicable, objects, announced, removed>>
      BY <1>1, StepImplements DEF Output!output
    <2>2. CASE Output!OutputNext
      <3>1. D!OutputNext
        BY <2>2 DEF D!OutputNext, D!Add, D!Complete, D!Master, D!AnnounceOutput, D!RemoveVideo,
           Output!OutputNext, Output!Add, Output!Complete, Output!Master,
           Output!AnnounceOutput, Output!RemoveVideo
      <3> QED
        BY <1>1, <3>1 DEF D!Next, D!delivery, D!links, D!caches, delivery
    <2>3. CASE UNCHANGED <<applicable, objects, announced, removed>>
      BY <1>1, <2>3 DEF D!vars, D!output, D!delivery, D!links, D!caches, delivery
    <2> QED
      BY <1>1, <2>1, <2>2, <2>3
  <1>2. CASE D!Deliver /\ UNCHANGED vars
    BY <1>2 DEF D!Next
  <1>3. CASE UNCHANGED everything
    BY <1>3 DEF everything, vars, delivery, D!vars, D!output, D!delivery, D!links, D!caches
  <1> QED
    BY <1>1, <1>2, <1>3 DEF PlaybackNext

\* With the transcoder itself in place of its promise, players, edge and core behave as
\* HlsDelivery says, through every failure, retry and stall of the job: what holds there
\* holds of the two together.
THEOREM PlaybackComposes == PlaybackSpec => Spec /\ D!Spec
  <1>1. PlaybackInit => TypeInv /\ Uploaded /\ Init /\ D!Init
    BY TypeInvInit DEF PlaybackInit, Init, Uploaded
  <1>2. TypeInv /\ Uploaded /\ [Next]_vars => TypeInv' /\ Uploaded'
    BY TypeInvNext, UploadedNext
  <1> QED
    BY <1>1, <1>2, PlaybackStep, PTL DEF PlaybackSpec, Spec, D!Spec

-----------------------------------------------------------------------------
(* The job comes to its end.                                               *)

\* Attempts and stalls that BullMQ has counted.
Spent == job.made + job.stalls

\* How many steps a run has ahead of it at most: the loops over the profiles, the upload
\* and what follows, or the catch block.
Distance ==
    CASE pc = "idle" -> 5 * applicable + 7
      [] pc = "probe" -> 5 * applicable + 6
      [] pc = "upsert" -> 5 * applicable + 5 + 1 - at
      [] pc = "processing" -> 4 * applicable + 5 + 3 - 3 * at
      [] pc = "ffmpeg" -> 4 * applicable + 5 + 2 - 3 * at
      [] pc = "completed" -> 4 * applicable + 5 + 1 - 3 * at
      [] pc = "master" -> applicable + 5
      [] pc = "upload" -> applicable + 4 + 1 - at
      [] pc = "publish" -> 3
      [] pc = "catch" -> 2
      [] OTHER -> 1

\* Every step of the job ends it, uses up an attempt or a stall, or brings the run
\* nearer to its end; nothing else touches it, and a job that is over stays so.
Advances ==
    [][\/ UNCHANGED <<job, pc, at, applicable>>
       \/ /\ ~Finished
          /\ \/ Finished'
             \/ Spent' > Spent
             \/ Spent' = Spent /\ Distance' < Distance]_vars

Bounded == Distance \in Nat /\ Spent \in 0 .. MaxAttempts + MaxStalls

LEMMA DistanceBounded == TypeInv => Bounded
  <1> SUFFICES ASSUME TypeInv PROVE Bounded
    OBVIOUS
  <1>1. job.made \in 0 .. MaxAttempts /\ job.stalls \in 0 .. MaxStalls
    BY DEF TypeInv, TypeOK
  <1>2. Spent \in 0 .. MaxAttempts + MaxStalls
    BY <1>1, TranscodingAssumption DEF Spent
  <1>3. applicable \in Nat /\ (InLoop => at \in 1 .. applicable)
    BY TranscodingAssumption DEF TypeInv, TypeOK, AtTarget, Targets
  <1>4. Distance \in Nat
    BY <1>3 DEF Distance, InLoop
  <1> QED
    BY <1>2, <1>4 DEF Bounded

LEMMA RunAdvances ==
  ASSUME TypeInv, Run
  PROVE  ~Finished /\ (Finished' \/ Spent' > Spent \/ (Spent' = Spent /\ Distance' < Distance))
  <1> USE DEF Goto, Throw
  <1>t. /\ job.made \in Nat /\ job.stalls \in Nat /\ applicable \in Nat
        /\ InLoop => at \in 1 .. applicable
    BY TranscodingAssumption DEF TypeInv, TypeOK, AtTarget, Targets
  <1>f. ~Finished
    <2>1. job.state \in {"waiting", "active"}
      BY DEF Run, TakeJob, Probe, UpsertRow, MarkProcessing, RunFfmpeg, MarkCompleted,
         UploadMaster, UploadProfile, Publish, JobCompletes, MarkFailed, JobFails, TypeInv, Occupied
    <2> QED
      BY <2>1 DEF Finished
  <1>1. CASE TakeJob
    <2>1. job'.made = job.made /\ job'.stalls = job.stalls
      BY <1>1 DEF TakeJob, TypeInv, TypeOK
    <2>2. Spent' = Spent
      BY <2>1 DEF Spent
    <2>3. Distance' < Distance
      BY <1>1, <1>t DEF TakeJob, Distance
    <2> QED
      BY <1>f, <2>2, <2>3
  <1>2. ASSUME UNCHANGED <<job, applicable>>, Distance' < Distance
        PROVE  Spent' = Spent /\ Distance' < Distance
    BY <1>2 DEF Spent
  <1>3. CASE Probe \/ UploadMaster \/ Publish \/ MarkFailed
    BY <1>2, <1>3, <1>f, <1>t DEF Probe, UploadMaster, Publish, MarkFailed, Distance, InLoop
  <1>4. CASE UpsertRow \/ MarkProcessing \/ RunFfmpeg
    BY <1>2, <1>4, <1>f, <1>t DEF UpsertRow, MarkProcessing, RunFfmpeg, IsLast, Distance, InLoop
  <1>5. CASE MarkCompleted \/ UploadProfile
    BY <1>2, <1>5, <1>f, <1>t DEF MarkCompleted, UploadProfile, IsLast, Distance, InLoop
  <1>6. CASE JobCompletes
    <2>1. job'.state = "done"
      BY <1>6 DEF JobCompletes, TypeInv, TypeOK
    <2> QED
      BY <1>f, <2>1 DEF Finished
  <1>7. CASE JobFails
    <2>1. /\ job'.state = StateAfter(job.made + 1) /\ job'.stalls = job.stalls
          /\ job'.made = IF job.made < MaxAttempts THEN job.made + 1 ELSE job.made
      BY <1>7 DEF JobFails, TypeInv, TypeOK
    <2>2. CASE job.made < MaxAttempts
      BY <1>f, <1>t, <2>1, <2>2 DEF Spent
    <2>3. CASE ~(job.made < MaxAttempts)
      BY <1>f, <1>t, <2>1, <2>3, TranscodingAssumption DEF StateAfter, Finished
    <2> QED
      BY <2>2, <2>3
  <1> QED
    BY <1>1, <1>3, <1>4, <1>5, <1>6, <1>7 DEF Run

\* No sequence of failures, retries and stalls keeps a job going: after at most
\* (MaxAttempts + MaxStalls + 1) * (5 * applicable + 7) steps of its own it is over.
THEOREM JobAdvances == Spec => Advances /\ []Bounded
  <1>1. TypeInv /\ [Next]_vars =>
          [\/ UNCHANGED <<job, pc, at, applicable>>
           \/ /\ ~Finished
              /\ \/ Finished'
                 \/ Spent' > Spent
                 \/ Spent' = Spent /\ Distance' < Distance]_vars
    <2> SUFFICES ASSUME TypeInv, Next
                 PROVE  \/ UNCHANGED <<job, pc, at, applicable>>
                        \/ /\ ~Finished
                           /\ \/ Finished'
                              \/ Spent' > Spent
                              \/ Spent' = Spent /\ Distance' < Distance
      OBVIOUS
    <2>1. CASE Run
      BY <2>1, RunAdvances
    <2>2. CASE Crash
      <3>1. ~Finished /\ job.made \in Nat /\ job.stalls \in Nat
        BY <2>2 DEF Crash, TypeInv, TypeOK, Occupied, Finished
      <3>2. /\ job'.state = IF job.stalls < MaxStalls THEN "waiting" ELSE "failed"
            /\ job'.stalls = IF job.stalls < MaxStalls THEN job.stalls + 1 ELSE job.stalls
            /\ job'.made = job.made
        BY <2>2 DEF Crash, TypeInv, TypeOK
      <3> QED
        BY <3>1, <3>2 DEF Finished, Spent
    <2>3. CASE RemoveFile
      BY <2>3 DEF RemoveFile
    <2> QED
      BY <2>1, <2>2, <2>3 DEF Next
  <1> QED
    BY <1>1, TypeInvHolds, DistanceBounded, PTL DEF Spec, Advances
=============================================================================
