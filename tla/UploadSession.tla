--------------------------- MODULE UploadSession ---------------------------
(***************************************************************************)
(* The life of one file in the core service: upload sessions, chunks,      *)
(* assembly, versions and removal (apps/core/src/upload/upload.service.ts  *)
(* and MetadataService.remove).  Files share no rows and no object keys,   *)
(* so one file is enough.                                                  *)
(*                                                                         *)
(* Several HTTP requests for the file run at once, one per handler.  A     *)
(* handler gives up the processor at every await, so each database         *)
(* statement, database transaction and object-store call is one step, and  *)
(* what a handler read earlier is kept in job[h] and may be stale.         *)
(*                                                                         *)
(* A payload stands for the bytes of one client file; its checksum is the  *)
(* payload itself, and chunk i of payload p is stored as p under the key   *)
(* chunks/{fileId}/chunk-i, which is the same key in every session.        *)
(***************************************************************************)
EXTENDS Naturals, Sequences, FiniteSets

CONSTANTS
    Handlers,     \* concurrent HTTP requests
    Payloads,     \* client files
    ChunksOf,     \* number of chunks of each payload
    Names,        \* file names: part of the assembled object's key
    Mimes,        \* subset of {"plain", "compressible"}
    MaxVersions,  \* bound on version numbers
    Faults,       \* subset of {"minio", "db", "redis", "queue", "crash"}
    Orderly,      \* TRUE: the owner never overlaps two phases of an upload
    None

ASSUME UploadAssumption ==
    /\ ChunksOf \in [Payloads -> Nat \ {0}]
    /\ MaxVersions \in Nat
    /\ None \notin Payloads /\ None \notin Names
    /\ Mimes \subseteq {"plain", "compressible"}
    /\ Orderly \in BOOLEAN

VARIABLES
    file,      \* the File row
    rows,      \* FileChunk rows: status by chunk index
    chunkObj,  \* object store: content under each chunk key
    versions,  \* FileVersion rows by version number
    objects,   \* object store: content of files/{user}/{file}/v{n}/{name}
    pointer,   \* Redis file:{fileId}:current
    outbox,    \* Kafka events, in the order they were emitted
    pc,        \* where each handler is
    job,       \* what each handler has read so far
    purged     \* history: remove has deleted the file's objects

vars == <<file, rows, chunkObj, versions, objects, pointer, outbox, pc, job, purged>>
store == <<chunkObj, objects>>

Indices == UNION {0 .. ChunksOf[p] - 1 : p \in Payloads}
Versions == 1 .. MaxVersions
Keys == Versions \X Names
Statuses == {"ABSENT", "PENDING", "UPLOADING", "ASSEMBLING", "COMPLETED",
             "FAILED", "DELETED"}
Gone == {"ABSENT", "DELETED"}

UploadPcs == {"chunkRow", "chunkPut", "chunkCommit"}
AssemblyPcs == {"copy", "put", "cleanup", "create", "publish"}
CompletePcs == {"claim", "allocate", "pointer", "announce", "failing"} \cup AssemblyPcs
RemovePcs == {"rmObjects", "rmRow"}
Pcs == {"idle", "initRows"} \cup UploadPcs \cup CompletePcs \cup RemovePcs

NoVersion == [checksum |-> None, name |-> None]
NoJob == [idx |-> 0, payload |-> None, name |-> None, mime |-> "plain",
          isNew |-> FALSE, next |-> 0, parts |-> << >>, doomed |-> {}, chunks |-> {}]
NoFile == [status |-> "ABSENT", uploaded |-> 0, checksum |-> None, name |-> None,
           mime |-> "plain", current |-> 0]

\* totalChunks of the session the File row describes.
Total == ChunksOf[file.checksum]
RowExists(n) == versions[n] # NoVersion
KeyOf(n) == <<n, versions[n].name>>

Init ==
    /\ file = NoFile
    /\ rows = [i \in Indices |-> "NONE"]
    /\ chunkObj = [i \in Indices |-> None]
    /\ versions = [n \in Versions |-> NoVersion]
    /\ objects = [k \in Keys |-> << >>]
    /\ pointer = 0
    /\ outbox = << >>
    /\ pc = [h \in Handlers |-> "idle"]
    /\ job = [h \in Handlers |-> NoJob]
    /\ purged = FALSE

-----------------------------------------------------------------------------
(* Handlers                                                                *)

At(h, label) == pc[h] = label
Goto(h, label) == pc' = [pc EXCEPT ![h] = label]
Return(h) == pc' = [pc EXCEPT ![h] = "idle"] /\ job' = [job EXCEPT ![h] = NoJob]
InFlight(labels) == \E h \in Handlers : pc[h] \in labels

(***************************************************************************)
(* What a client that finishes one phase before it starts the next does.   *)
(* It may still upload several chunks, or one chunk twice, at a time, and  *)
(* may send complete twice.  The dashboard (dashboard/app.js:573-645) is   *)
(* such a client as long as no request outlives its connection.            *)
(***************************************************************************)
MayUpload(p) == Orderly => p = file.checksum /\ ~InFlight(Pcs \ ({"idle"} \cup UploadPcs))
MayComplete == Orderly => ~InFlight(Pcs \ ({"idle"} \cup CompletePcs))
MayStart == Orderly => ~InFlight(Pcs \ {"idle"})

Fault(f) == f \in Faults

-----------------------------------------------------------------------------
(* initUpload: the File row, then the chunk rows, in two statements.       *)

SessionOf(p, name, mime) ==
    [file EXCEPT !.status = "PENDING", !.uploaded = 0, !.checksum = p,
                 !.name = name, !.mime = mime]
\* Mutant: the slots of a new session are created with status UPLOADED.
UploadedRows(p) ==
    [i \in Indices |-> IF i < ChunksOf[p] THEN "UPLOADED" ELSE "NONE"]
PendingRows(p) ==
    [i \in Indices |-> IF i < ChunksOf[p] THEN "PENDING" ELSE "NONE"]

InitUpload(h, p, name, mime) ==
    /\ At(h, "idle")
    /\ file.status = "ABSENT"
    /\ file' = SessionOf(p, name, mime)
    /\ Goto(h, "initRows")
    /\ job' = [job EXCEPT ![h].payload = p]
    /\ UNCHANGED <<rows, store, versions, pointer, outbox, purged>>

\* The insert violates the unique index when rows are there already, and the
\* foreign key when the file is gone; either way, and when the database fails,
\* nothing is written and the file is left without chunk rows.
InitChunkRows(h) ==
    /\ At(h, "initRows")
    /\ \/ rows' = IF file.status \notin Gone /\ \A i \in Indices : rows[i] = "NONE"
                  THEN PendingRows(job[h].payload) ELSE rows
       \/ Fault("db") /\ rows' = rows
    /\ Return(h)
    /\ UNCHANGED <<file, store, versions, pointer, outbox, purged>>

\* initVersionUpload: the reset is one transaction; no status is checked.
InitVersionUpload(h, p, name, mime) ==
    /\ At(h, "idle") /\ MayStart
    /\ file.status \notin Gone
    /\ file' = SessionOf(p, name, mime)
    /\ rows' = PendingRows(p)
    /\ UNCHANGED <<store, versions, pointer, outbox, pc, job, purged>>

-----------------------------------------------------------------------------
(* uploadChunk                                                             *)

\* Mutant: only COMPLETED files refuse chunks.
AcceptsUnlessCompleted(status) == status # "COMPLETED"
AcceptsChunks(status) == status \in {"PENDING", "UPLOADING"}

UploadChunk(h, p, i) ==
    /\ At(h, "idle") /\ MayUpload(p)
    /\ AcceptsChunks(file.status)
    /\ Goto(h, "chunkRow")
    /\ job' = [job EXCEPT ![h] = [@ EXCEPT !.payload = p, !.idx = i]]
    /\ UNCHANGED <<file, rows, store, versions, pointer, outbox, purged>>

\* An unknown index, or bytes that do not have the announced SHA-256, are a 400.
ReadChunkRow(h) ==
    /\ At(h, "chunkRow")
    /\ \/ /\ rows[job[h].idx] # "NONE"
          /\ job' = [job EXCEPT ![h].isNew = (rows[job[h].idx] # "VERIFIED")]
          /\ Goto(h, "chunkPut")
       \/ Return(h)
    /\ UNCHANGED <<file, rows, store, versions, pointer, outbox, purged>>

PutChunk(h) ==
    /\ At(h, "chunkPut")
    /\ \/ /\ chunkObj' = [chunkObj EXCEPT ![job[h].idx] = job[h].payload]
          /\ Goto(h, "chunkCommit")
          /\ UNCHANGED job
       \/ Fault("minio") /\ Return(h) /\ UNCHANGED chunkObj
    /\ UNCHANGED <<file, rows, objects, versions, pointer, outbox, purged>>

\* One transaction: the chunk is VERIFIED and the file UPLOADING, whatever the
\* file's status is by now; it is rolled back when the chunk row has gone.
CommitChunk(h) ==
    /\ At(h, "chunkCommit")
    /\ \/ /\ file.status \notin Gone /\ rows[job[h].idx] # "NONE"
          /\ rows' = [rows EXCEPT ![job[h].idx] = "VERIFIED"]
          /\ file' = [file EXCEPT !.status = "UPLOADING",
                                  !.uploaded = IF job[h].isNew THEN @ + 1 ELSE @]
       \/ /\ file.status \in Gone \/ rows[job[h].idx] = "NONE" \/ Fault("db")
          /\ UNCHANGED <<rows, file>>
    /\ Return(h)
    /\ UNCHANGED <<store, versions, pointer, outbox, purged>>

-----------------------------------------------------------------------------
(* completeUpload                                                          *)

Verified == {i \in Indices : rows[i] = "VERIFIED"}

CompleteUpload(h) ==
    /\ At(h, "idle") /\ MayComplete
    /\ file.status \notin Gone \cup {"COMPLETED"}
    /\ Cardinality(Verified) = Total
    /\ \A n \in Versions : n = MaxVersions => ~RowExists(n)      \* bound
    /\ Goto(h, "claim")
    /\ job' = [job EXCEPT ![h] = [@ EXCEPT !.payload = file.checksum, !.name = file.name,
                                           !.mime = file.mime]]
    /\ UNCHANGED <<file, rows, store, versions, pointer, outbox, purged>>

\* updateMany where status in (PENDING, UPLOADING): the winner assembles.
\* Mutant: the claim excludes finished files only.
ClaimableUnlessFinished(status) == status \notin Gone \cup {"COMPLETED", "FAILED"}
Claimable(status) == status \in {"PENDING", "UPLOADING"}

\* Mutant: the loser waits for its turn instead of answering 409.
WaitForClaim(h) ==
    /\ At(h, "claim")
    /\ Claimable(file.status)
    /\ file' = [file EXCEPT !.status = "ASSEMBLING"]
    /\ Goto(h, "allocate")
    /\ UNCHANGED <<job, rows, store, versions, pointer, outbox, purged>>

Claim(h) ==
    /\ At(h, "claim")
    /\ \/ /\ Claimable(file.status)
          /\ file' = [file EXCEPT !.status = "ASSEMBLING"]
          /\ Goto(h, "allocate")
          /\ UNCHANGED job
       \/ (~Claimable(file.status) \/ Fault("db")) /\ Return(h) /\ UNCHANGED file
    /\ UNCHANGED <<rows, store, versions, pointer, outbox, purged>>

IsHighest(m) ==
    /\ m # 0 => RowExists(m)
    /\ \A n \in Versions : RowExists(n) => n <= m
\* Mutants: a wrong default for a file without versions; the current number reused.
NumbersFromTwo(m) == IF m = 0 THEN 2 ELSE m + 1
NumberReused(m) == IF m = 0 THEN 1 ELSE m
NextVersionNumber(m) == m + 1

\* The read is outside the try block: an error here leaves ASSEMBLING behind.
AllocateVersion(h) ==
    /\ At(h, "allocate")
    /\ \/ \E m \in {0} \cup Versions :
            /\ IsHighest(m)
            /\ NextVersionNumber(m) \in Versions      \* bound
            /\ job' = [job EXCEPT ![h].next = NextVersionNumber(m)]
            /\ Goto(h, "copy")
       \/ Fault("db") /\ Return(h)
    /\ UNCHANGED <<file, rows, store, versions, pointer, outbox, purged>>

\* Mutant: the key is derived from the version that is current.
KeyOfCurrent(h) == <<IF file.current = 0 THEN job[h].next ELSE file.current, job[h].name>>
DestinationKey(h) == <<job[h].next, job[h].name>>

\* Every request of this process is lost, its database and store effects stay.
Restart ==
    /\ pc' = [h \in Handlers |-> "idle"]
    /\ job' = [h \in Handlers |-> NoJob]

\* assembleChunks and assembleAndCompressChunks read chunk after chunk.  A read
\* that fails throws in the first; in the second it destroys a stream nobody
\* listens to for errors, and the uncaught error ends the process.
CopyChunk(h) ==
    LET i == Len(job[h].parts) IN
    /\ At(h, "copy")
    /\ \/ /\ i < ChunksOf[job[h].payload] /\ chunkObj[i] # None
          /\ job' = [job EXCEPT ![h].parts = Append(@, chunkObj[i])]
          /\ UNCHANGED pc
       \/ /\ i < ChunksOf[job[h].payload] /\ (chunkObj[i] = None \/ Fault("minio"))
          /\ \/ job[h].mime = "plain" /\ Goto(h, "failing") /\ UNCHANGED job
             \/ job[h].mime = "compressible" /\ Restart
       \/ i = ChunksOf[job[h].payload] /\ Goto(h, "put") /\ UNCHANGED job
    /\ UNCHANGED <<file, rows, store, versions, pointer, outbox, purged>>

\* Mutant: the upload of the assembled object is outside the try block.
FinishOutsideTry(h) ==
    /\ At(h, "put")
    /\ \/ /\ objects' = [objects EXCEPT ![DestinationKey(h)] = job[h].parts]
          /\ Goto(h, "cleanup") /\ UNCHANGED job
       \/ Fault("minio") /\ Return(h) /\ UNCHANGED objects
    /\ UNCHANGED <<file, rows, chunkObj, versions, pointer, outbox, purged>>

FinishAssembly(h) ==
    /\ At(h, "put")
    /\ \/ /\ objects' = [objects EXCEPT ![DestinationKey(h)] = job[h].parts]
          /\ Goto(h, "cleanup")
       \/ Fault("minio") /\ Goto(h, "failing") /\ UNCHANGED objects
    /\ UNCHANGED <<file, rows, chunkObj, versions, pointer, outbox, job, purged>>

DeleteChunks(h) ==
    /\ At(h, "cleanup")
    /\ \/ /\ chunkObj' = [i \in Indices |->
                            IF i < ChunksOf[job[h].payload] THEN None ELSE chunkObj[i]]
          /\ Goto(h, "create")
       \/ Fault("minio") /\ Goto(h, "failing") /\ UNCHANGED chunkObj
    /\ UNCHANGED <<file, rows, objects, versions, pointer, outbox, job, purged>>

\* Mutant: the unique index is missing.
AnyVersionNumber(n) == TRUE
\* @@unique([fileId, versionNumber])
VersionNumberFree(n) == ~RowExists(n)

CreateVersion(h) ==
    /\ At(h, "create")
    /\ \/ /\ file.status \notin Gone /\ VersionNumberFree(job[h].next)
          /\ versions' = [versions EXCEPT ![job[h].next] =
                            [checksum |-> job[h].payload, name |-> job[h].name]]
          /\ Goto(h, "publish")
       \/ /\ file.status \in Gone \/ ~VersionNumberFree(job[h].next) \/ Fault("db")
          /\ Goto(h, "failing")
          /\ UNCHANGED versions
    /\ UNCHANGED <<file, rows, store, pointer, outbox, job, purged>>

\* Mutant: a file that has a current version keeps it.
PublishFirstOnly(h) ==
    /\ At(h, "publish")
    /\ file.status \notin Gone
    /\ file' = [file EXCEPT !.status = "COMPLETED",
                            !.current = IF @ = 0 THEN job[h].next ELSE @]
    /\ Goto(h, "pointer")
    /\ UNCHANGED <<rows, store, versions, pointer, outbox, job, purged>>

\* file.update: COMPLETED, storagePath and currentVersionId together.
PublishVersion(h) ==
    /\ At(h, "publish")
    /\ \/ /\ file.status \notin Gone
          /\ file' = [file EXCEPT !.status = "COMPLETED", !.current = job[h].next]
          /\ Goto(h, "pointer")
       \/ /\ file.status \in Gone \/ Fault("db")
          /\ Goto(h, "failing")
          /\ UNCHANGED file
    /\ UNCHANGED <<rows, store, versions, pointer, outbox, job, purged>>

\* A Redis error is logged and swallowed.
SetPointer(h) ==
    /\ At(h, "pointer")
    /\ pointer' = job[h].next \/ (Fault("redis") /\ pointer' = pointer)
    /\ Goto(h, "announce")
    /\ UNCHANGED <<file, rows, store, versions, outbox, job, purged>>

Announcement(n) ==
    IF n = 1 THEN <<[type |-> "file.uploaded", version |-> n]>>
    ELSE <<[type |-> "file.version_created", version |-> n],
           [type |-> "cache.invalidate", version |-> n]>>

\* The events are sent first; queueTranscoding may still throw.
Announce(h) ==
    /\ At(h, "announce")
    /\ outbox' = outbox \o Announcement(job[h].next)
    /\ Return(h) \/ (Fault("queue") /\ Goto(h, "failing") /\ UNCHANGED job)
    /\ UNCHANGED <<file, rows, store, versions, pointer, purged>>

\* catch: updateMany where status = ASSEMBLING.
MarkFailed(h) ==
    /\ At(h, "failing")
    /\ \/ file.status = "ASSEMBLING" /\ file' = [file EXCEPT !.status = "FAILED"]
       \/ (file.status # "ASSEMBLING" \/ Fault("db")) /\ UNCHANGED file
    /\ Return(h)
    /\ UNCHANGED <<rows, store, versions, pointer, outbox, purged>>

-----------------------------------------------------------------------------
(* MetadataService.remove: objects first, then the row and its cascade.    *)

RemoveFile(h) ==
    /\ At(h, "idle") /\ MayStart
    /\ file.status \notin Gone
    /\ job' = [job EXCEPT ![h] =
                  [@ EXCEPT !.doomed = {KeyOf(n) : n \in {m \in Versions : RowExists(m)}},
                            !.chunks = {i \in Indices : rows[i] # "NONE"}]]
    /\ Goto(h, "rmObjects")
    /\ UNCHANGED <<file, rows, store, versions, pointer, outbox, purged>>

RemoveObjects(h) ==
    /\ At(h, "rmObjects")
    /\ \/ /\ objects' = [k \in Keys |-> IF k \in job[h].doomed THEN << >> ELSE objects[k]]
          /\ chunkObj' = [i \in Indices |->
                            IF i \in job[h].chunks THEN None ELSE chunkObj[i]]
          /\ purged' = TRUE
          /\ Goto(h, "rmRow")
          /\ UNCHANGED job
       \/ Fault("minio") /\ Return(h) /\ UNCHANGED <<store, purged>>
    /\ UNCHANGED <<file, rows, versions, pointer, outbox>>

RemoveRow(h) ==
    /\ At(h, "rmRow")
    /\ \/ /\ file.status \notin Gone
          /\ file' = [NoFile EXCEPT !.status = "DELETED"]
          /\ rows' = [i \in Indices |-> "NONE"]
          /\ versions' = [n \in Versions |-> NoVersion]
          /\ outbox' = Append(outbox, [type |-> "cache.invalidate", version |-> 0])
       \/ (file.status \in Gone \/ Fault("db")) /\ UNCHANGED <<file, rows, versions, outbox>>
    /\ Return(h)
    /\ UNCHANGED <<store, pointer, purged>>

\* The process is killed and restarted.
Crash ==
    /\ Fault("crash") /\ InFlight(Pcs \ {"idle"})
    /\ Restart
    /\ UNCHANGED <<file, rows, store, versions, pointer, outbox, purged>>

-----------------------------------------------------------------------------
Begin(h) ==
    \/ \E p \in Payloads, name \in Names, mime \in Mimes :
          InitUpload(h, p, name, mime) \/ InitVersionUpload(h, p, name, mime)
    \/ \E p \in Payloads : \E i \in 0 .. ChunksOf[p] - 1 : UploadChunk(h, p, i)
    \/ CompleteUpload(h)
    \/ RemoveFile(h)

Continue(h) ==
    \/ InitChunkRows(h)
    \/ ReadChunkRow(h) \/ PutChunk(h) \/ CommitChunk(h)
    \/ Claim(h) \/ AllocateVersion(h) \/ CopyChunk(h) \/ FinishAssembly(h)
    \/ DeleteChunks(h) \/ CreateVersion(h) \/ PublishVersion(h)
    \/ SetPointer(h) \/ Announce(h) \/ MarkFailed(h)
    \/ RemoveObjects(h) \/ RemoveRow(h)

Next == Crash \/ \E h \in Handlers : Begin(h) \/ Continue(h)

Spec == Init /\ [][Next]_vars

\* Node's event loop resumes every handler whose await has settled.
FairSpec == Spec /\ \A h \in Handlers : WF_vars(Continue(h))

-----------------------------------------------------------------------------
(* Properties                                                              *)

FileType ==
    [status : Statuses, uploaded : Nat, checksum : Payloads \cup {None},
     name : Names \cup {None}, mime : {"plain", "compressible"},
     current : {0} \cup Versions]
JobType ==
    [idx : Indices \cup {0}, payload : Payloads \cup {None}, name : Names \cup {None},
     mime : {"plain", "compressible"}, isNew : BOOLEAN, next : {0} \cup Versions,
     parts : Seq(Payloads), doomed : SUBSET Keys, chunks : SUBSET Indices]
VersionType ==
    [checksum : Payloads \cup {None}, name : Names \cup {None}]
EventType ==
    [type : {"file.uploaded", "file.version_created", "cache.invalidate"},
     version : {0} \cup Versions]

\* Every field of the rows, the object store and the handlers' reads has its type.
TypeOK ==
    /\ file \in FileType
    /\ rows \in [Indices -> {"NONE", "PENDING", "VERIFIED"}]
    /\ chunkObj \in [Indices -> Payloads \cup {None}]
    /\ versions \in [Versions -> VersionType]
    /\ objects \in [Keys -> Seq(Payloads)]
    /\ pointer \in {0} \cup Versions
    /\ outbox \in Seq(EventType)
    /\ pc \in [Handlers -> Pcs]
    /\ job \in [Handlers -> JobType]
    /\ purged \in BOOLEAN

\* However requests overlap, fail or are lost in a crash, the version numbers of a
\* file are 1, 2, ..., k without a gap (schema.prisma: "Sequential: 1, 2, 3").
VersionsContiguous ==
    \A n \in Versions : RowExists(n) /\ n > 1 => RowExists(n - 1)

Announced(n) ==
    {i \in 1 .. Len(outbox) : outbox[i].version = n /\ outbox[i].type # "cache.invalidate"}

\* However requests overlap, no version number is announced to the replication
\* consumers twice: of two completions that computed the same number one fails.
AnnouncedOnce ==
    \A n \in Versions : Cardinality(Announced(n)) <= 1

\* However requests overlap, a version row names an assembled object, until
\* remove deletes the objects: assembly comes before the row.
VersionsHaveObjects ==
    ~purged => \A n \in Versions : RowExists(n) => objects[KeyOf(n)] # << >>

\* The version rows in the order of their numbers, with the objects they name.
Contents ==
    [n \in 1 .. Cardinality({m \in Versions : RowExists(m)}) |->
        [checksum |-> versions[n].checksum, bytes |-> objects[KeyOf(n)]]]

History == INSTANCE VersionHistory WITH
    contents <- IF purged THEN << >> ELSE Contents,
    removed <- purged

\* With an orderly client the versions are what VersionHistory promises, whatever
\* assembly failed, was retried or was cut off by a crash: every version's object is
\* exactly the payload whose checksum the row carries, and neither ever changes.
ImplementsHistory == History!Spec

\* Only one request at a time assembles the file (the conditional updateMany of
\* completeUpload).
ExclusiveAssembly ==
    \A g, h \in Handlers :
        pc[g] \in AssemblyPcs /\ pc[h] \in AssemblyPcs => g = h

\* currentVersionId is the highest version, except while the completion that
\* created that version is about to set it, or died before it did.
CurrentIsLatest ==
    file.status = "COMPLETED" => IsHighest(file.current)

\* A file in ASSEMBLING is being assembled by a live request: it is not stuck.
AssemblingHasOwner ==
    file.status = "ASSEMBLING" =>
        InFlight({"allocate", "failing"} \cup AssemblyPcs)

\* A file gets stuck in ASSEMBLING in these ways only: the process dies, or the
\* database rejects the statement before the try block or the one in the catch
\* block.  Every other failure ends in a status the client can go on from.
StuckOnlyByDatabaseOrCrash ==
    [][AssemblingHasOwner /\ ~AssemblingHasOwner' =>
          Crash \/ \E h \in Handlers :
                      \/ AllocateVersion(h) \/ MarkFailed(h)
                      \/ CopyChunk(h) /\ job[h].mime = "compressible"]_vars

\* Transitions of the file status: the README's life cycle, a new session
\* (initVersionUpload) and removal.
Lifecycle ==
    {<<"PENDING", "UPLOADING">>, <<"PENDING", "ASSEMBLING">>,
     <<"UPLOADING", "ASSEMBLING">>, <<"ASSEMBLING", "COMPLETED">>,
     <<"ASSEMBLING", "FAILED">>}
    \cup {<<s, t>> : s \in Statuses, t \in {"PENDING", "DELETED"}}

\* With an orderly client a file leaves COMPLETED, FAILED and ASSEMBLING only the
\* way the life cycle says, and currentVersionId never goes back.
StatusFollowsLifecycle ==
    [][/\ <<file.status, file'.status>> \in Lifecycle \/ file'.status = file.status
       /\ file'.status # "DELETED" => file'.current >= file.current]_file

\* Every accepted completion comes to an end: a client is never left waiting in
\* ASSEMBLING by the handler itself.
CompletionsEnd ==
    \A h \in Handlers : pc[h] \in CompletePcs ~> pc[h] = "idle"
=============================================================================
