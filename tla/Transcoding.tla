---------------------------- MODULE Transcoding ----------------------------
(***************************************************************************)
(* The transcoding of one version of a video to HLS: the BullMQ job and    *)
(* process() of apps/core/src/transcoding/transcoding.processor.ts.  The   *)
(* job is run again after a failure (attempts: 2) and after its worker has *)
(* died (BullMQ finds the job stalled); a run starts from the beginning    *)
(* and meets the rows and objects of earlier ones.  Profile 1 is the       *)
(* highest quality; the files of a profile count as one object.            *)
(***************************************************************************)
EXTENDS Naturals, FiniteSets

CONSTANTS
    MaxProfiles,  \* quality profiles: 6 in the code
    MaxAttempts,  \* 2 in the code
    MaxStalls     \* times BullMQ gives a stalled job to a worker again

ASSUME TranscodingAssumption ==
    MaxProfiles \in Nat /\ MaxAttempts \in Nat \ {0} /\ MaxStalls \in Nat

Profiles == 1 .. MaxProfiles
Master == 0             \* master.m3u8 among the objects

VARIABLES
    applicable,  \* profiles not larger than the source: 1 .. applicable
    row,         \* VideoTranscode.status by profile
    primary,     \* masterPlaylistPath of the highest quality is set
    local,       \* profiles under tempDir
    objects,     \* HLS output in the object store
    announced,   \* video.transcoded has been emitted
    removed,     \* the file has been deleted, and its rows with it
    job,         \* the job in the transcode queue
    pc,          \* where process() is
    at,          \* the profile it is at
    abandoned    \* history: a run died, or could not write its failure

vars == <<applicable, row, primary, local, objects, announced, removed, job, pc, at, abandoned>>

\* queueTranscoding
Init ==
    /\ applicable \in 0 .. MaxProfiles
    /\ row = [p \in Profiles |-> "NONE"]
    /\ primary = FALSE /\ local = {} /\ objects = {}
    /\ announced = FALSE /\ removed = FALSE
    /\ job = [state |-> "waiting", made |-> 0, stalls |-> 0]
    /\ pc = "idle" /\ at = 1
    /\ abandoned = FALSE

-----------------------------------------------------------------------------
Goto(label, p) == pc' = label /\ at' = p
Throw == Goto("catch", at)
Written == {p \in Profiles : row[p] # "NONE"}

TakeJob ==
    /\ job.state = "waiting" /\ pc = "idle"
    /\ job' = [job EXCEPT !.state = "active"]
    /\ Goto("probe", 1)
    /\ UNCHANGED <<applicable, row, primary, local, objects, announced, removed, abandoned>>

\* Download and ffprobe; a source smaller than every profile ends the job.
Probe ==
    /\ pc = "probe"
    /\ \/ applicable > 0 /\ Goto("upsert", 1) /\ UNCHANGED local
       \/ applicable = 0 /\ Goto("settle", 1) /\ local' = {}
       \/ Throw /\ UNCHANGED local
    /\ UNCHANGED <<applicable, row, primary, objects, announced, removed, job, abandoned>>

\* Mutants: the last profile is left out; the loop runs one past the end.
LastButOne(p) == p + 1 >= applicable
OnePastLast(p) == p > applicable
\* The loops run over the applicable profiles.
IsLast(p) == p = applicable

\* The row is reset to PENDING whatever an earlier run made of it.
UpsertRow ==
    /\ pc = "upsert"
    /\ \/ /\ ~removed
          /\ row' = [row EXCEPT ![at] = "PENDING"]
          /\ IF IsLast(at) THEN Goto("processing", 1) ELSE Goto("upsert", at + 1)
       \/ Throw /\ UNCHANGED row
    /\ UNCHANGED <<applicable, primary, local, objects, announced, removed, job, abandoned>>

\* Updates of a row that has gone, or that the database rejects, throw.
MarkProcessing ==
    /\ pc = "processing"
    /\ \/ /\ at \in Written
          /\ row' = [row EXCEPT ![at] = "PROCESSING"]
          /\ Goto("ffmpeg", at)
       \/ Throw /\ UNCHANGED row
    /\ UNCHANGED <<applicable, primary, local, objects, announced, removed, job, abandoned>>

RunFfmpeg ==
    /\ pc = "ffmpeg"
    /\ \/ local' = local \cup {at} /\ Goto("completed", at)
       \/ Throw /\ UNCHANGED local
    /\ UNCHANGED <<applicable, row, primary, objects, announced, removed, job, abandoned>>

\* The profile is COMPLETED before anything of it is uploaded.
MarkCompleted ==
    /\ pc = "completed"
    /\ \/ /\ at \in Written
          /\ row' = [row EXCEPT ![at] = "COMPLETED"]
          /\ IF IsLast(at) THEN Goto("master", 1) ELSE Goto("processing", at + 1)
       \/ Throw /\ UNCHANGED row
    /\ UNCHANGED <<applicable, primary, local, objects, announced, removed, job, abandoned>>

UploadMaster ==
    /\ pc = "master"
    /\ \/ objects' = objects \cup {Master} /\ Goto("upload", 1)
       \/ Throw /\ UNCHANGED objects
    /\ UNCHANGED <<applicable, row, primary, local, announced, removed, job, abandoned>>

UploadProfile ==
    /\ pc = "upload"
    /\ \/ /\ at \in local
          /\ objects' = objects \cup {at}
          /\ IF IsLast(at) THEN Goto("publish", 1) ELSE Goto("upload", at + 1)
       \/ Throw /\ UNCHANGED objects
    /\ UNCHANGED <<applicable, row, primary, local, announced, removed, job, abandoned>>

\* masterPlaylistPath, and with no further await the event and the clean-up.
Publish ==
    /\ pc = "publish"
    /\ \/ /\ 1 \in Written
          /\ primary' = TRUE /\ announced' = TRUE /\ local' = {}
          /\ Goto("settle", 1)
       \/ Throw /\ UNCHANGED <<primary, announced, local>>
    /\ UNCHANGED <<applicable, row, objects, removed, job, abandoned>>

\* BullMQ records that process() has returned.
JobCompletes ==
    /\ pc = "settle"
    /\ job' = [job EXCEPT !.state = "done"]
    /\ Goto("idle", 1)
    /\ UNCHANGED <<applicable, row, primary, local, objects, announced, removed, abandoned>>

\* Mutant: only the profile ffmpeg was at is marked.
OnlyProcessing(status) == status = "PROCESSING"
Unfinished(status) == status \in {"PENDING", "PROCESSING"}

\* catch and finally: an error of updateMany replaces the one being handled.
MarkFailed ==
    /\ pc = "catch"
    /\ \/ /\ row' = [p \in Profiles |-> IF Unfinished(row[p]) THEN "FAILED" ELSE row[p]]
          /\ UNCHANGED abandoned
       \/ abandoned' = TRUE /\ UNCHANGED row
    /\ local' = {}
    /\ Goto("failed", 1)
    /\ UNCHANGED <<applicable, primary, objects, announced, removed, job>>

\* Mutant: attempts are not counted.
NeverFails(made) == "waiting"
StateAfter(made) == IF made >= MaxAttempts THEN "failed" ELSE "waiting"

JobFails ==
    /\ pc = "failed"
    /\ job' = [job EXCEPT !.state = StateAfter(job.made + 1),
                          !.made = IF @ < MaxAttempts THEN @ + 1 ELSE @]
    /\ Goto("idle", 1)
    /\ UNCHANGED <<applicable, row, primary, local, objects, announced, removed, abandoned>>

\* The worker dies: tempDir stays, and the stalled job is given out again or, the
\* second time, failed by BullMQ itself.
Crash ==
    /\ pc # "idle"
    /\ job' = [job EXCEPT !.state = IF job.stalls < MaxStalls THEN "waiting" ELSE "failed",
                          !.stalls = IF @ < MaxStalls THEN @ + 1 ELSE @]
    /\ abandoned' = TRUE
    /\ Goto("idle", 1)
    /\ UNCHANGED <<applicable, row, primary, local, objects, announced, removed>>

\* MetadataService.remove: the rows go with the file, the HLS objects stay.
RemoveFile ==
    /\ ~removed
    /\ removed' = TRUE
    /\ row' = [p \in Profiles |-> "NONE"] /\ primary' = FALSE
    /\ UNCHANGED <<applicable, local, objects, announced, job, pc, at, abandoned>>

-----------------------------------------------------------------------------
Run ==
    \/ TakeJob \/ Probe \/ UpsertRow \/ MarkProcessing \/ RunFfmpeg \/ MarkCompleted
    \/ UploadMaster \/ UploadProfile \/ Publish \/ JobCompletes \/ MarkFailed \/ JobFails

Next == Run \/ Crash \/ RemoveFile

Spec == Init /\ [][Next]_vars

\* BullMQ hands the job out, and every await of process() settles.
FairSpec == Spec /\ WF_vars(Run)

-----------------------------------------------------------------------------
(* Properties                                                              *)

Pcs == {"idle", "probe", "upsert", "processing", "ffmpeg", "completed", "master",
        "upload", "publish", "settle", "catch", "failed"}
Targets == 1 .. applicable
Finished == job.state \in {"done", "failed"}

\* Every row, object and job has its type; only applicable profiles are touched.
TypeOK ==
    /\ applicable \in 0 .. MaxProfiles
    /\ row \in [Profiles -> {"NONE", "PENDING", "PROCESSING", "COMPLETED", "FAILED"}]
    /\ primary \in BOOLEAN /\ announced \in BOOLEAN /\ removed \in BOOLEAN
    /\ abandoned \in BOOLEAN
    /\ local \subseteq Targets /\ objects \subseteq {Master} \cup Targets
    /\ Written \subseteq Targets
    /\ job \in [state : {"waiting", "active", "done", "failed"},
                made : 0 .. MaxAttempts, stalls : 0 .. MaxStalls]
    /\ pc \in Pcs /\ at \in {1} \cup Targets

Output == INSTANCE HlsOutput

\* Whatever failed, was repeated or was removed meanwhile, viewers see what HlsOutput
\* promises: no object disappears, the master playlist comes first, and once
\* video.transcoded is out everything it lists is in the object store.
ImplementsHlsOutput == Output!OutputSpec

\* A job that BullMQ counts as completed has left the video ready in the database
\* as well, although rows are reset by every attempt.
DoneIsReady ==
    job.state = "done" /\ applicable > 0 /\ ~removed =>
        primary /\ \A p \in Targets : row[p] = "COMPLETED"

\* When the job is over no row says PENDING or PROCESSING, unless a run of it died
\* or could not write its failure.
NoRowLeftBehind ==
    Finished /\ ~abandoned => \A p \in Profiles : row[p] \notin {"PENDING", "PROCESSING"}

\* What the rows say of a job that is over is what became of it.
OutcomeRecorded == DoneIsReady /\ NoRowLeftBehind

\* The job ends, completed or failed.
JobEnds == <>[]Finished
=============================================================================
