------------------------ MODULE UploadSessionProofs ------------------------
(***************************************************************************)
(* What holds of UploadSession for every set of handlers, payloads, names, *)
(* every bound on versions and every choice of faults.                     *)
(***************************************************************************)
EXTENDS UploadSession, FiniteSetTheorems, SequenceTheorems, TLAPS

\* A session's row, and the reads of a completion, name a payload and a file name.
FileNamed ==
    file.status \notin Gone => file.checksum \in Payloads /\ file.name \in Names
JobsNamed ==
    \A h \in Handlers : pc[h] \in CompletePcs =>
        job[h].payload \in Payloads /\ job[h].name \in Names
RowsNamed ==
    \A n \in Versions : RowExists(n) => versions[n].name \in Names

\* The type invariant is inductive together with the three facts above: without
\* them a copy could read outside the chunk store.
TypeInv == TypeOK /\ FileNamed /\ JobsNamed /\ RowsNamed

LEMMA TypeInvInit == Init => TypeInv
  <1> SUFFICES ASSUME Init PROVE TypeInv
    OBVIOUS
  <1>1. NoFile \in FileType
    BY DEF NoFile, FileType, Statuses
  <1>2. NoJob \in JobType
    BY DEF NoJob, JobType
  <1>3. NoVersion \in VersionType
    BY DEF NoVersion, VersionType
  <1>a. pc \in [Handlers -> Pcs]
    BY DEF Init, Pcs
  <1>b. objects \in [Keys -> Seq(Payloads)] /\ outbox \in Seq(EventType)
    BY DEF Init
  <1>4. TypeOK
    BY <1>1, <1>2, <1>3, <1>a, <1>b DEF Init, TypeOK
  <1>5. FileNamed /\ JobsNamed /\ RowsNamed
    BY DEF Init, FileNamed, JobsNamed, RowsNamed, NoFile, Gone, CompletePcs,
           AssemblyPcs, RowExists
  <1> QED
    BY <1>4, <1>5 DEF TypeInv

LEMMA NoJobType == NoJob \in JobType
  BY DEF NoJob, JobType

LEMMA ShortSeq ==
  ASSUME NEW S, NEW a \in S, NEW b \in S
  PROVE  <<a>> \in Seq(S) /\ <<a, b>> \in Seq(S)
  OBVIOUS

LEMMA SetJob ==
  ASSUME NEW h \in Handlers, NEW r \in JobType, TypeOK, job' = [job EXCEPT ![h] = r]
  PROVE  job' \in [Handlers -> JobType]
  BY DEF TypeOK

LEMMA JobOf ==
  ASSUME NEW h \in Handlers, TypeOK
  PROVE  job[h] \in JobType
  BY DEF TypeOK

LEMMA ReturnType ==
  ASSUME NEW h \in Handlers, TypeOK, JobsNamed, Return(h)
  PROVE  pc' \in [Handlers -> Pcs] /\ job' \in [Handlers -> JobType] /\ JobsNamed'
  BY NoJobType DEF TypeOK, Return, Pcs, JobsNamed, CompletePcs, AssemblyPcs

LEMMA GotoType ==
  ASSUME NEW h \in Handlers, NEW l \in Pcs, TypeOK, Goto(h, l)
  PROVE  pc' \in [Handlers -> Pcs]
  BY DEF TypeOK, Goto

\* A handler that returns, or that moves on with what it has read.
LEMMA MoveType ==
  ASSUME NEW h \in Handlers, TypeOK, JobsNamed,
         \/ Return(h)
         \/ \E l \in Pcs : /\ Goto(h, l) /\ UNCHANGED job
                           /\ pc[h] \in CompletePcs \/ l \notin CompletePcs
  PROVE  pc' \in [Handlers -> Pcs] /\ job' \in [Handlers -> JobType] /\ JobsNamed'
  <1>1. CASE Return(h)
    BY <1>1, ReturnType
  <1>2. ASSUME NEW l \in Pcs, Goto(h, l), UNCHANGED job,
               pc[h] \in CompletePcs \/ l \notin CompletePcs
        PROVE  pc' \in [Handlers -> Pcs] /\ job' \in [Handlers -> JobType] /\ JobsNamed'
    BY <1>2 DEF TypeOK, Goto, JobsNamed
  <1> QED
    BY <1>1, <1>2

LEMMA TypeInvNext == TypeInv /\ [Next]_vars => TypeInv'
  <1> USE UploadAssumption
  <1>1. ASSUME TypeInv, NEW h \in Handlers, NEW p \in Payloads, NEW name \in Names,
               NEW mime \in Mimes, InitUpload(h, p, name, mime)
        PROVE TypeInv'
    <2>1. file' \in FileType
      BY <1>1 DEF TypeInv, TypeOK, InitUpload, SessionOf, Statuses, FileType
    <2>2. job' \in [Handlers -> JobType]
      <3>1. [job[h] EXCEPT !.payload = p] \in JobType
        BY <1>1, JobOf DEF TypeInv, JobType
      <3> QED
        BY <1>1, <3>1, SetJob DEF TypeInv, InitUpload
    <2>3. pc' \in [Handlers -> Pcs]
      BY <1>1, GotoType DEF TypeInv, InitUpload, Pcs
    <2>4. FileNamed' /\ RowsNamed'
      BY <1>1 DEF TypeInv, TypeOK, InitUpload, SessionOf, FileType, FileNamed, RowsNamed, RowExists
    <2>5. JobsNamed'
      BY <1>1 DEF TypeInv, TypeOK, InitUpload, Goto, JobsNamed, JobType, CompletePcs, AssemblyPcs
    <2> QED
      BY <1>1, <2>1, <2>2, <2>3, <2>4, <2>5 DEF TypeInv, TypeOK, InitUpload, store
  <1>2. ASSUME TypeInv, NEW h \in Handlers, InitChunkRows(h) PROVE TypeInv'
    <2>1. rows' \in [Indices -> {"NONE", "PENDING", "VERIFIED"}]
      BY <1>2 DEF TypeInv, TypeOK, InitChunkRows, PendingRows
    <2> QED
      BY <1>2, <2>1, ReturnType DEF TypeInv, TypeOK, InitChunkRows, FileNamed, RowsNamed,
         RowExists, store
  <1>3. ASSUME TypeInv, NEW h \in Handlers, NEW p \in Payloads, NEW name \in Names,
               NEW mime \in Mimes, InitVersionUpload(h, p, name, mime)
        PROVE TypeInv'
    <2>1. file' \in FileType
      BY <1>3 DEF TypeInv, TypeOK, InitVersionUpload, SessionOf, Statuses, FileType
    <2>2. rows' \in [Indices -> {"NONE", "PENDING", "VERIFIED"}]
      BY <1>3 DEF TypeInv, TypeOK, InitVersionUpload, PendingRows
    <2>3. FileNamed'
      BY <1>3 DEF TypeInv, TypeOK, InitVersionUpload, SessionOf, FileType, FileNamed
    <2> QED
      BY <1>3, <2>1, <2>2, <2>3
      DEF TypeInv, TypeOK, InitVersionUpload, store, RowsNamed, JobsNamed, RowExists
  <1>4. ASSUME TypeInv, NEW h \in Handlers, NEW p \in Payloads,
               NEW i \in 0 .. ChunksOf[p] - 1, UploadChunk(h, p, i)
        PROVE TypeInv'
    <2>1. i \in Indices
      BY <1>4 DEF Indices
    <2>2. job' \in [Handlers -> JobType]
      <3>1. [job[h] EXCEPT !.payload = p, !.idx = i] \in JobType
        BY <1>4, <2>1, JobOf DEF TypeInv, JobType
      <3> QED
        BY <1>4, <3>1, SetJob DEF TypeInv, UploadChunk
    <2>3. pc' \in [Handlers -> Pcs]
      BY <1>4, GotoType DEF TypeInv, UploadChunk, Pcs, UploadPcs
    <2>4. JobsNamed'
      BY <1>4 DEF TypeInv, TypeOK, UploadChunk, Goto, JobsNamed, JobType, CompletePcs, AssemblyPcs
    <2> QED
      BY <1>4, <2>2, <2>3, <2>4
      DEF TypeInv, TypeOK, UploadChunk, store, FileNamed, RowsNamed, RowExists
  <1>5. ASSUME TypeInv, NEW h \in Handlers, ReadChunkRow(h) PROVE TypeInv'
    <2>1. pc' \in [Handlers -> Pcs] /\ job' \in [Handlers -> JobType] /\ JobsNamed'
      <3>1. CASE Return(h)
        BY <1>5, <3>1, ReturnType DEF TypeInv
      <3>2. CASE Goto(h, "chunkPut") /\ job' = [job EXCEPT ![h].isNew = (rows[job[h].idx] # "VERIFIED")]
        <4>1. pc' \in [Handlers -> Pcs]
          BY <1>5, <3>2, GotoType DEF TypeInv, Pcs, UploadPcs
        <4>2. job' \in [Handlers -> JobType]
          <5>1. [job[h] EXCEPT !.isNew = (rows[job[h].idx] # "VERIFIED")] \in JobType
            BY <1>5, JobOf DEF TypeInv, JobType
          <5> QED
            BY <1>5, <3>2, <5>1, SetJob DEF TypeInv
        <4>3. JobsNamed'
          BY <1>5, <3>2 DEF TypeInv, TypeOK, JobsNamed, JobType, Goto, CompletePcs, AssemblyPcs
        <4> QED
          BY <4>1, <4>2, <4>3
      <3> QED
        BY <1>5, <3>1, <3>2 DEF ReadChunkRow
    <2> QED
      BY <1>5, <2>1 DEF TypeInv, TypeOK, ReadChunkRow, store, FileNamed, RowsNamed, RowExists
  <1>6. ASSUME TypeInv, NEW h \in Handlers, PutChunk(h) PROVE TypeInv'
    <2>1. pc' \in [Handlers -> Pcs] /\ job' \in [Handlers -> JobType] /\ JobsNamed'
      <3>1. "chunkCommit" \in Pcs \ CompletePcs
        BY DEF Pcs, UploadPcs, CompletePcs, AssemblyPcs
      <3> QED
        BY <1>6, <3>1, MoveType DEF TypeInv, PutChunk
    <2>2. chunkObj' \in [Indices -> Payloads \cup {None}]
      BY <1>6, JobOf DEF TypeInv, TypeOK, PutChunk, JobType
    <2> QED
      BY <1>6, <2>1, <2>2 DEF TypeInv, TypeOK, PutChunk, FileNamed, RowsNamed, RowExists
  <1>7. ASSUME TypeInv, NEW h \in Handlers, CommitChunk(h) PROVE TypeInv'
    <2>1. file' \in FileType /\ FileNamed'
      <3>1. CASE UNCHANGED file
        BY <1>7, <3>1 DEF TypeInv, TypeOK, FileNamed
      <3>2. CASE /\ file.status \notin Gone
                 /\ file' = [file EXCEPT !.status = "UPLOADING",
                                         !.uploaded = IF job[h].isNew THEN @ + 1 ELSE @]
        <4>1. file.uploaded \in Nat
          BY <1>7 DEF TypeInv, TypeOK, FileType
        <4> DEFINE u == IF job[h].isNew THEN file.uploaded + 1 ELSE file.uploaded
        <4>2. u \in Nat
          BY <4>1
        <4>3. file' = [file EXCEPT !.status = "UPLOADING", !.uploaded = u]
          BY <3>2
        <4> HIDE DEF u
        <4> QED
          BY <1>7, <3>2, <4>2, <4>3 DEF TypeInv, TypeOK, FileType, FileNamed, Statuses
      <3> QED
        BY <1>7, <3>1, <3>2 DEF CommitChunk
    <2>2. rows' \in [Indices -> {"NONE", "PENDING", "VERIFIED"}]
      BY <1>7 DEF TypeInv, TypeOK, CommitChunk
    <2> QED
      BY <1>7, <2>1, <2>2, ReturnType DEF TypeInv, TypeOK, CommitChunk, RowsNamed, RowExists, store
  <1>8. ASSUME TypeInv, NEW h \in Handlers, CompleteUpload(h) PROVE TypeInv'
    <2>1. file.checksum \in Payloads /\ file.name \in Names
          /\ file.mime \in {"plain", "compressible"}
      BY <1>8 DEF TypeInv, TypeOK, CompleteUpload, FileNamed, FileType
    <2>2. [job[h] EXCEPT !.payload = file.checksum, !.name = file.name, !.mime = file.mime]
            \in JobType
      BY <1>8, <2>1, JobOf DEF TypeInv, JobType
    <2>3. job' \in [Handlers -> JobType]
      BY <1>8, <2>2, SetJob DEF TypeInv, CompleteUpload
    <2>4. pc' \in [Handlers -> Pcs]
      BY <1>8, GotoType DEF TypeInv, CompleteUpload, Pcs, CompletePcs
    <2>5. JobsNamed'
      BY <1>8, <2>1, JobOf DEF TypeInv, TypeOK, CompleteUpload, Goto, JobsNamed, JobType
    <2> QED
      BY <1>8, <2>3, <2>4, <2>5
      DEF TypeInv, TypeOK, CompleteUpload, store, FileNamed, RowsNamed, RowExists
  <1>9. ASSUME TypeInv, NEW h \in Handlers, Claim(h) PROVE TypeInv'
    <2>1. pc' \in [Handlers -> Pcs] /\ job' \in [Handlers -> JobType] /\ JobsNamed'
      <3>1. "allocate" \in Pcs /\ "claim" \in CompletePcs
        BY DEF Pcs, CompletePcs
      <3> QED
        BY <1>9, <3>1, MoveType DEF TypeInv, Claim, At
    <2>2. file' \in FileType /\ FileNamed'
      BY <1>9 DEF TypeInv, TypeOK, Claim, Claimable, FileType, FileNamed, Statuses, Gone
    <2> QED
      BY <1>9, <2>1, <2>2 DEF TypeInv, TypeOK, Claim, store, RowsNamed, RowExists
  <1>10. ASSUME TypeInv, NEW h \in Handlers, AllocateVersion(h) PROVE TypeInv'
    <2>1. pc' \in [Handlers -> Pcs] /\ job' \in [Handlers -> JobType] /\ JobsNamed'
      <3>1. CASE Return(h)
        BY <1>10, <3>1, ReturnType DEF TypeInv
      <3>2. ASSUME NEW n \in Versions, job' = [job EXCEPT ![h].next = n], Goto(h, "copy")
            PROVE pc' \in [Handlers -> Pcs] /\ job' \in [Handlers -> JobType] /\ JobsNamed'
        <4>1. pc' \in [Handlers -> Pcs]
          BY <1>10, <3>2, GotoType DEF TypeInv, Pcs, CompletePcs, AssemblyPcs
        <4>2. [job[h] EXCEPT !.next = n] \in JobType
          BY <1>10, JobOf DEF TypeInv, JobType
        <4>3. job' \in [Handlers -> JobType]
          BY <1>10, <3>2, <4>2, SetJob DEF TypeInv
        <4>4. pc[h] \in CompletePcs
          BY <1>10 DEF AllocateVersion, At, CompletePcs
        <4>5. JobsNamed'
          BY <1>10, <3>2, <4>4, JobOf DEF TypeInv, TypeOK, JobsNamed, JobType, Goto
        <4> QED
          BY <4>1, <4>3, <4>5
      <3> QED
        BY <1>10, <3>1, <3>2 DEF AllocateVersion
    <2> QED
      BY <1>10, <2>1 DEF TypeInv, TypeOK, AllocateVersion, store, FileNamed, RowsNamed, RowExists
  <1>11. ASSUME TypeInv, NEW h \in Handlers, CopyChunk(h) PROVE TypeInv'
    <2> DEFINE i == Len(job[h].parts)
    <2>1. pc[h] \in CompletePcs /\ pc[h] = "copy"
      BY <1>11 DEF CopyChunk, At, CompletePcs, AssemblyPcs
    <2>2. job[h] \in JobType /\ job[h].payload \in Payloads
      BY <1>11, <2>1, JobOf DEF TypeInv, JobsNamed
    <2>3. pc' \in [Handlers -> Pcs] /\ job' \in [Handlers -> JobType] /\ JobsNamed'
      <3>1. ASSUME i < ChunksOf[job[h].payload], chunkObj[i] # None, UNCHANGED pc,
                   job' = [job EXCEPT ![h].parts = Append(@, chunkObj[i])]
            PROVE pc' \in [Handlers -> Pcs] /\ job' \in [Handlers -> JobType] /\ JobsNamed'
        <4>1. i \in Nat
          BY <2>2 DEF JobType
        <4>2. ChunksOf[job[h].payload] \in Nat
          BY <2>2
        <4>3. i \in Indices
          BY <2>2, <3>1, <4>1, <4>2 DEF Indices
        <4>4. chunkObj[i] \in Payloads
          BY <1>11, <3>1, <4>3 DEF TypeInv, TypeOK
        <4>5. Append(job[h].parts, chunkObj[i]) \in Seq(Payloads)
          BY <2>2, <4>4 DEF JobType
        <4>6. [job[h] EXCEPT !.parts = Append(@, chunkObj[i])] \in JobType
          BY <2>2, <4>5 DEF JobType
        <4>7. job' \in [Handlers -> JobType]
          BY <1>11, <3>1, <4>6, SetJob DEF TypeInv
        <4>8. JobsNamed'
          BY <1>11, <2>2, <3>1 DEF TypeInv, TypeOK, JobsNamed, JobType
        <4> QED
          BY <1>11, <3>1, <4>7, <4>8 DEF TypeInv, TypeOK
      <3>2. CASE UNCHANGED job /\ (Goto(h, "failing") \/ Goto(h, "put"))
        <4>1. "failing" \in Pcs /\ "put" \in Pcs
          BY DEF Pcs, CompletePcs, AssemblyPcs
        <4> QED
          BY <1>11, <2>1, <3>2, <4>1, MoveType DEF TypeInv
      <3>3. CASE Restart
        BY <1>11, <3>3, NoJobType DEF TypeInv, Restart, JobsNamed, Pcs, CompletePcs, AssemblyPcs
      <3> QED
        BY <1>11, <3>1, <3>2, <3>3 DEF CopyChunk
    <2> QED
      BY <1>11, <2>3 DEF TypeInv, TypeOK, CopyChunk, store, FileNamed, RowsNamed, RowExists
  <1>12. ASSUME TypeInv, NEW h \in Handlers, FinishAssembly(h) PROVE TypeInv'
    <2>1. pc' \in [Handlers -> Pcs] /\ job' \in [Handlers -> JobType] /\ JobsNamed'
      <3>1. "cleanup" \in Pcs /\ "failing" \in Pcs /\ "put" \in CompletePcs
        BY DEF Pcs, CompletePcs, AssemblyPcs
      <3> QED
        BY <1>12, <3>1, MoveType DEF TypeInv, FinishAssembly, At
    <2>2. objects' \in [Keys -> Seq(Payloads)]
      <3>1. job[h].parts \in Seq(Payloads)
        BY <1>12, JobOf DEF TypeInv, JobType
      <3> QED
        BY <1>12, <3>1 DEF TypeInv, TypeOK, FinishAssembly
    <2> QED
      BY <1>12, <2>1, <2>2 DEF TypeInv, TypeOK, FinishAssembly, FileNamed, RowsNamed, RowExists
  <1>13. ASSUME TypeInv, NEW h \in Handlers, DeleteChunks(h) PROVE TypeInv'
    <2>1. pc' \in [Handlers -> Pcs] /\ job' \in [Handlers -> JobType] /\ JobsNamed'
      <3>1. "create" \in Pcs /\ "failing" \in Pcs /\ "cleanup" \in CompletePcs
        BY DEF Pcs, CompletePcs, AssemblyPcs
      <3> QED
        BY <1>13, <3>1, MoveType DEF TypeInv, DeleteChunks, At
    <2>2. chunkObj' \in [Indices -> Payloads \cup {None}]
      BY <1>13 DEF TypeInv, TypeOK, DeleteChunks
    <2> QED
      BY <1>13, <2>1, <2>2 DEF TypeInv, TypeOK, DeleteChunks, FileNamed, RowsNamed, RowExists
  <1>14. ASSUME TypeInv, NEW h \in Handlers, CreateVersion(h) PROVE TypeInv'
    <2>1. pc' \in [Handlers -> Pcs] /\ job' \in [Handlers -> JobType] /\ JobsNamed'
      <3>1. "publish" \in Pcs /\ "failing" \in Pcs /\ "create" \in CompletePcs
        BY DEF Pcs, CompletePcs, AssemblyPcs
      <3> QED
        BY <1>14, <3>1, MoveType DEF TypeInv, CreateVersion, At
    <2>2. job[h].payload \in Payloads /\ job[h].name \in Names
      BY <1>14 DEF TypeInv, JobsNamed, CreateVersion, At, CompletePcs, AssemblyPcs
    <2>3. versions' \in [Versions -> VersionType]
      BY <1>14, <2>2 DEF TypeInv, TypeOK, CreateVersion, VersionType
    <2>4. RowsNamed'
      BY <1>14, <2>2 DEF TypeInv, TypeOK, CreateVersion, RowsNamed, RowExists
    <2> QED
      BY <1>14, <2>1, <2>3, <2>4 DEF TypeInv, TypeOK, CreateVersion, store, FileNamed
  <1>15. ASSUME TypeInv, NEW h \in Handlers, PublishVersion(h) PROVE TypeInv'
    <2>1. pc' \in [Handlers -> Pcs] /\ job' \in [Handlers -> JobType] /\ JobsNamed'
      <3>1. "pointer" \in Pcs /\ "failing" \in Pcs /\ "publish" \in CompletePcs
        BY DEF Pcs, CompletePcs, AssemblyPcs
      <3> QED
        BY <1>15, <3>1, MoveType DEF TypeInv, PublishVersion, At
    <2>2. job[h].next \in {0} \cup Versions
      BY <1>15, JobOf DEF TypeInv, JobType
    <2>3. file' \in FileType /\ FileNamed'
      <3>1. CASE UNCHANGED file
        BY <1>15, <3>1 DEF TypeInv, TypeOK, FileNamed
      <3>2. CASE /\ file.status \notin Gone
                 /\ file' = [file EXCEPT !.status = "COMPLETED", !.current = job[h].next]
        BY <1>15, <2>2, <3>2 DEF TypeInv, TypeOK, FileType, FileNamed, Statuses
      <3> QED
        BY <1>15, <3>1, <3>2 DEF PublishVersion
    <2> QED
      BY <1>15, <2>1, <2>3 DEF TypeInv, TypeOK, PublishVersion, store, RowsNamed, RowExists
  <1>16. ASSUME TypeInv, NEW h \in Handlers, SetPointer(h) PROVE TypeInv'
    <2>1. pc' \in [Handlers -> Pcs] /\ job' \in [Handlers -> JobType] /\ JobsNamed'
      <3>1. "announce" \in Pcs /\ "pointer" \in CompletePcs
        BY DEF Pcs, CompletePcs
      <3> QED
        BY <1>16, <3>1, MoveType DEF TypeInv, SetPointer, At
    <2>2. pointer' \in {0} \cup Versions
      BY <1>16, JobOf DEF TypeInv, TypeOK, SetPointer, JobType
    <2> QED
      BY <1>16, <2>1, <2>2 DEF TypeInv, TypeOK, SetPointer, store, FileNamed, RowsNamed, RowExists
  <1>17. ASSUME TypeInv, NEW h \in Handlers, Announce(h) PROVE TypeInv'
    <2>1. pc' \in [Handlers -> Pcs] /\ job' \in [Handlers -> JobType] /\ JobsNamed'
      <3>1. "failing" \in Pcs /\ "announce" \in CompletePcs
        BY DEF Pcs, CompletePcs
      <3> QED
        BY <1>17, <3>1, MoveType DEF TypeInv, Announce, At
    <2>2. job[h].next \in {0} \cup Versions
      BY <1>17, JobOf DEF TypeInv, JobType
    <2>3. Announcement(job[h].next) \in Seq(EventType)
      <3> DEFINE first == [type |-> "file.uploaded", version |-> job[h].next]
                 later == [type |-> "file.version_created", version |-> job[h].next]
                 purge == [type |-> "cache.invalidate", version |-> job[h].next]
      <3>1. first \in EventType /\ later \in EventType /\ purge \in EventType
        BY <2>2 DEF EventType
      <3>2. Announcement(job[h].next) = <<first>> \/ Announcement(job[h].next) = <<later, purge>>
        BY DEF Announcement
      <3> HIDE DEF first, later, purge
      <3>3. <<first>> \in Seq(EventType) /\ <<later, purge>> \in Seq(EventType)
        BY <3>1, ShortSeq
      <3> QED
        BY <3>2, <3>3
    <2>4. outbox' \in Seq(EventType)
      BY <1>17, <2>3 DEF TypeInv, TypeOK, Announce
    <2> QED
      BY <1>17, <2>1, <2>4 DEF TypeInv, TypeOK, Announce, store, FileNamed, RowsNamed, RowExists
  <1>18. ASSUME TypeInv, NEW h \in Handlers, MarkFailed(h) PROVE TypeInv'
    <2>1. file' \in FileType /\ FileNamed'
      BY <1>18 DEF TypeInv, TypeOK, MarkFailed, FileType, FileNamed, Statuses, Gone
    <2> QED
      BY <1>18, <2>1, ReturnType DEF TypeInv, TypeOK, MarkFailed, store, RowsNamed, RowExists
  <1>19. ASSUME TypeInv, NEW h \in Handlers, RemoveFile(h) PROVE TypeInv'
    <2> DEFINE d == {KeyOf(n) : n \in {m \in Versions : RowExists(m)}}
               c == {i \in Indices : rows[i] # "NONE"}
    <2>1. d \in SUBSET Keys
      BY <1>19 DEF TypeInv, RowsNamed, KeyOf, Keys
    <2>2. c \in SUBSET Indices
      OBVIOUS
    <2>3. [job[h] EXCEPT !.doomed = d, !.chunks = c] \in JobType
      <3> HIDE DEF d, c
      <3> QED
        BY <1>19, <2>1, <2>2, JobOf DEF TypeInv, JobType
    <2>4. job' \in [Handlers -> JobType]
      BY <1>19, <2>3, SetJob DEF TypeInv, RemoveFile
    <2>5. pc' \in [Handlers -> Pcs]
      BY <1>19, GotoType DEF TypeInv, RemoveFile, Pcs, RemovePcs
    <2>6. JobsNamed'
      BY <1>19 DEF TypeInv, TypeOK, RemoveFile, Goto, JobsNamed, CompletePcs, AssemblyPcs
    <2> QED
      BY <1>19, <2>4, <2>5, <2>6
      DEF TypeInv, TypeOK, RemoveFile, store, FileNamed, RowsNamed, RowExists
  <1>20. ASSUME TypeInv, NEW h \in Handlers, RemoveObjects(h) PROVE TypeInv'
    <2>1. pc' \in [Handlers -> Pcs] /\ job' \in [Handlers -> JobType] /\ JobsNamed'
      <3>1. "rmRow" \in Pcs \ CompletePcs
        BY DEF Pcs, RemovePcs, CompletePcs, AssemblyPcs
      <3> QED
        BY <1>20, <3>1, MoveType DEF TypeInv, RemoveObjects
    <2>2. chunkObj' \in [Indices -> Payloads \cup {None}]
      BY <1>20 DEF TypeInv, TypeOK, RemoveObjects, store
    <2>3. objects' \in [Keys -> Seq(Payloads)]
      <3>1. << >> \in Seq(Payloads)
        OBVIOUS
      <3>2. objects \in [Keys -> Seq(Payloads)]
        BY <1>20 DEF TypeInv, TypeOK
      <3>3. \/ objects' = [k \in Keys |-> IF k \in job[h].doomed THEN << >> ELSE objects[k]]
            \/ objects' = objects
        BY <1>20 DEF RemoveObjects, store
      <3> QED
        BY <3>1, <3>2, <3>3, Zenon
    <2> QED
      BY <1>20, <2>1, <2>2, <2>3 DEF TypeInv, TypeOK, RemoveObjects, FileNamed, RowsNamed, RowExists
  <1>21. ASSUME TypeInv, NEW h \in Handlers, RemoveRow(h) PROVE TypeInv'
    <2>1. file' \in FileType /\ FileNamed'
      <3>1. CASE UNCHANGED file
        BY <1>21, <3>1 DEF TypeInv, TypeOK, FileNamed
      <3>2. CASE file' = [NoFile EXCEPT !.status = "DELETED"]
        BY <3>2 DEF NoFile, FileType, FileNamed, Statuses, Gone
      <3> QED
        BY <1>21, <3>1, <3>2 DEF RemoveRow
    <2>2. rows' \in [Indices -> {"NONE", "PENDING", "VERIFIED"}]
      BY <1>21 DEF TypeInv, TypeOK, RemoveRow
    <2>3. versions' \in [Versions -> VersionType] /\ RowsNamed'
      BY <1>21 DEF TypeInv, TypeOK, RemoveRow, VersionType, NoVersion, RowsNamed, RowExists
    <2>4. outbox' \in Seq(EventType)
      <3>1. [type |-> "cache.invalidate", version |-> 0] \in EventType
        BY DEF EventType
      <3> QED
        BY <1>21, <3>1 DEF TypeInv, TypeOK, RemoveRow
    <2> QED
      BY <1>21, <2>1, <2>2, <2>3, <2>4, ReturnType DEF TypeInv, TypeOK, RemoveRow, store
  <1>22. ASSUME TypeInv, Crash PROVE TypeInv'
    <2>1. pc' \in [Handlers -> Pcs] /\ job' \in [Handlers -> JobType] /\ JobsNamed'
      BY <1>22, NoJobType DEF Crash, Restart, JobsNamed, Pcs, CompletePcs, AssemblyPcs
    <2> QED
      BY <1>22, <2>1 DEF TypeInv, TypeOK, Crash, store, FileNamed, RowsNamed, RowExists
  <1>23. ASSUME TypeInv, UNCHANGED vars PROVE TypeInv'
    BY <1>23 DEF TypeInv, TypeOK, vars, FileNamed, JobsNamed, RowsNamed, RowExists
  <1> QED
    BY <1>1, <1>2, <1>3, <1>4, <1>5, <1>6, <1>7, <1>8, <1>9, <1>10, <1>11, <1>12, <1>13,
       <1>14, <1>15, <1>16, <1>17, <1>18, <1>19, <1>20, <1>21, <1>22, <1>23
    DEF Next, Begin, Continue

LEMMA TypeInvAlways == Spec => []TypeInv
  BY TypeInvInit, TypeInvNext, PTL DEF Spec

\* Every row, object, event and read of a handler keeps its type, for any number of
\* handlers, payloads, names and versions and any faults.
THEOREM UploadTypeCorrect == Spec => []TypeOK
  <1>1. TypeInv => TypeOK
    BY DEF TypeInv
  <1> QED
    BY TypeInvAlways, <1>1, PTL

-----------------------------------------------------------------------------
(* Version numbers and objects                                             *)

\* Where a completion holds a version number whose row is not there yet.
Holding == {"copy", "put", "cleanup", "create"}

\* Why the next number leaves no gap: the row below it is there, and stays there
\* as long as the file does.
NumberFollows ==
    \A h \in Handlers : pc[h] \in Holding =>
        /\ job[h].next \in Versions
        /\ file.status \notin Gone /\ job[h].next # 1 =>
              job[h].next - 1 \in Versions /\ RowExists(job[h].next - 1)

\* Why the object is there before its row: assembly has copied every chunk, and
\* what it wrote is deleted by remove only.
PartsComplete ==
    \A h \in Handlers : pc[h] = "put" => Len(job[h].parts) = ChunksOf[job[h].payload]
ObjectWritten ==
    \A h \in Handlers : pc[h] \in {"cleanup", "create"} /\ ~purged =>
        objects[<<job[h].next, job[h].name>>] # << >>

\* Before initUpload there is no request for the file.
IdleBeforeInit ==
    file.status = "ABSENT" => \A h \in Handlers : pc[h] = "idle"

SafeInv ==
    /\ NumberFollows /\ PartsComplete /\ ObjectWritten /\ IdleBeforeInit
    /\ VersionsContiguous /\ VersionsHaveObjects

\* A step that touches no version, no object and no completion that holds a number.
Quiet ==
    /\ UNCHANGED <<versions, objects, purged>>
    /\ file'.status \notin Gone => file.status \notin Gone
    /\ IdleBeforeInit'
    /\ \A g \in Handlers : pc'[g] \in Holding => pc'[g] = pc[g] /\ job'[g] = job[g]

LEMMA QuietStep == SafeInv /\ Quiet => SafeInv'
  <1> SUFFICES ASSUME SafeInv, Quiet PROVE SafeInv'
    OBVIOUS
  <1>1. NumberFollows'
    BY DEF SafeInv, Quiet, NumberFollows, RowExists
  <1>2. PartsComplete' /\ ObjectWritten'
    BY DEF SafeInv, Quiet, PartsComplete, ObjectWritten, Holding
  <1>3. VersionsContiguous' /\ VersionsHaveObjects'
    BY DEF SafeInv, Quiet, VersionsContiguous, VersionsHaveObjects, RowExists, KeyOf
  <1> QED
    BY <1>1, <1>2, <1>3 DEF SafeInv, Quiet

\* One handler that goes to a place where it holds no number, or starts over.
LEMMA QuietMove ==
  ASSUME TypeInv, IdleBeforeInit, NEW h \in Handlers,
         UNCHANGED <<versions, objects, purged>>,
         file'.status = "ABSENT" => file.status = "ABSENT" /\ pc[h] # "idle",
         file'.status \notin Gone => file.status \notin Gone,
         \E l \in Pcs \ Holding : pc' = [pc EXCEPT ![h] = l],
         \A g \in Handlers \ {h} : job'[g] = job[g]
  PROVE  Quiet
  BY DEF TypeInv, TypeOK, Quiet, IdleBeforeInit

\* Actions that are quiet wherever they lead.
LEMMA QuietActions ==
  ASSUME TypeInv, IdleBeforeInit, NEW h \in Handlers,
         \/ InitChunkRows(h) \/ ReadChunkRow(h) \/ PutChunk(h) \/ CommitChunk(h)
         \/ CompleteUpload(h) \/ Claim(h) \/ PublishVersion(h) \/ SetPointer(h)
         \/ Announce(h) \/ MarkFailed(h) \/ RemoveFile(h)
         \/ \E p \in Payloads : \E i \in 0 .. ChunksOf[p] - 1 : UploadChunk(h, p, i)
  PROVE  Quiet
  <1>t. job \in [Handlers -> JobType] /\ file \in FileType
    BY DEF TypeInv, TypeOK
  <1> USE DEF At, Goto, Return, store, Gone
  <1>p. /\ {"idle", "chunkRow", "chunkPut", "chunkCommit", "claim", "allocate", "pointer",
             "announce", "failing", "rmObjects"} \subseteq Pcs \ Holding
    BY DEF Pcs, Holding, UploadPcs, CompletePcs, AssemblyPcs, RemovePcs
  <1>1. CASE InitChunkRows(h)
    BY <1>t, <1>p, <1>1, QuietMove DEF InitChunkRows
  <1>2. CASE ReadChunkRow(h)
    BY <1>t, <1>p, <1>2, QuietMove DEF ReadChunkRow
  <1>3. CASE PutChunk(h)
    BY <1>t, <1>p, <1>3, QuietMove DEF PutChunk
  <1>4. CASE CommitChunk(h)
    BY <1>t, <1>p, <1>4, QuietMove DEF CommitChunk, FileType
  <1>5. CASE CompleteUpload(h)
    BY <1>t, <1>p, <1>5, QuietMove DEF CompleteUpload
  <1>6. CASE Claim(h)
    BY <1>t, <1>p, <1>6, QuietMove DEF Claim, Claimable, FileType
  <1>7. CASE PublishVersion(h)
    BY <1>t, <1>p, <1>7, QuietMove DEF PublishVersion, FileType
  <1>8. CASE SetPointer(h)
    BY <1>t, <1>p, <1>8, QuietMove DEF SetPointer
  <1>9. CASE Announce(h)
    BY <1>t, <1>p, <1>9, QuietMove DEF Announce
  <1>10. CASE MarkFailed(h)
    BY <1>t, <1>p, <1>10, QuietMove DEF MarkFailed, FileType
  <1>11. CASE RemoveFile(h)
    BY <1>t, <1>p, <1>11, QuietMove DEF RemoveFile
  <1>12. ASSUME NEW p \in Payloads, NEW i \in 0 .. ChunksOf[p] - 1, UploadChunk(h, p, i)
         PROVE Quiet
    BY <1>t, <1>p, <1>12, QuietMove DEF UploadChunk, AcceptsChunks
  <1> QED
    BY <1>1, <1>2, <1>3, <1>4, <1>5, <1>6, <1>7, <1>8, <1>9, <1>10, <1>11, <1>12

LEMMA SafeInvInit == Init => SafeInv
  <1> SUFFICES ASSUME Init PROVE SafeInv
    OBVIOUS
  <1>1. \A n \in Versions : ~RowExists(n)
    BY DEF Init, RowExists
  <1>2. VersionsContiguous /\ VersionsHaveObjects
    BY <1>1 DEF VersionsContiguous, VersionsHaveObjects
  <1>3. NumberFollows /\ PartsComplete /\ ObjectWritten /\ IdleBeforeInit
    BY DEF Init, NumberFollows, PartsComplete, ObjectWritten, IdleBeforeInit, Holding
  <1> QED
    BY <1>2, <1>3 DEF SafeInv

LEMMA SafeInvNext == TypeInv /\ SafeInv /\ [Next]_vars => SafeInv'
  <1> USE UploadAssumption
  <1>1. ASSUME TypeInv, SafeInv, NEW h \in Handlers, NEW p \in Payloads, NEW name \in Names,
               NEW mime \in Mimes, InitUpload(h, p, name, mime)
        PROVE SafeInv'
    <2>1. \A g \in Handlers : pc'[g] \in {"idle", "initRows"}
      BY <1>1 DEF TypeInv, TypeOK, SafeInv, IdleBeforeInit, InitUpload, Goto
    <2>2. NumberFollows' /\ PartsComplete' /\ ObjectWritten'
      BY <2>1 DEF NumberFollows, PartsComplete, ObjectWritten, Holding
    <2>3. file'.status = "PENDING"
      BY <1>1 DEF TypeInv, TypeOK, FileType, InitUpload, SessionOf
    <2> QED
      BY <1>1, <2>2, <2>3 DEF SafeInv, InitUpload, store, IdleBeforeInit, VersionsContiguous,
         VersionsHaveObjects, RowExists, KeyOf
  <1>2. ASSUME TypeInv, SafeInv, NEW h \in Handlers, NEW p \in Payloads, NEW name \in Names,
               NEW mime \in Mimes, InitVersionUpload(h, p, name, mime)
        PROVE SafeInv'
    <2>1. file'.status = "PENDING"
      BY <1>2 DEF TypeInv, TypeOK, FileType, InitVersionUpload, SessionOf
    <2>2. Quiet
      BY <1>2, <2>1 DEF Quiet, InitVersionUpload, store, IdleBeforeInit
    <2> QED
      BY <1>2, <2>2, QuietStep
  <1>3. ASSUME TypeInv, SafeInv, NEW h \in Handlers, AllocateVersion(h) PROVE SafeInv'
    <2>1. CASE Return(h)
      <3>1. Quiet
        <4>1. job \in [Handlers -> JobType]
          BY <1>3 DEF TypeInv, TypeOK
        <4>2. "idle" \in Pcs \ Holding
          BY DEF Pcs, Holding
        <4> QED
          BY <1>3, <2>1, <4>1, <4>2, QuietMove DEF SafeInv, AllocateVersion, Return, At, store
      <3> QED
        BY <1>3, <3>1, QuietStep
    <2>2. ASSUME NEW m \in {0} \cup Versions, IsHighest(m), m + 1 \in Versions,
                 job' = [job EXCEPT ![h].next = m + 1], Goto(h, "copy")
          PROVE SafeInv'
      <3>1. job'[h].next = m + 1 /\ pc'[h] = "copy"
        BY <1>3, <2>2 DEF TypeInv, TypeOK, JobType, Goto
      <3>2. \A g \in Handlers \ {h} : job'[g] = job[g] /\ pc'[g] = pc[g]
        BY <1>3, <2>2 DEF TypeInv, TypeOK, Goto
      <3>3. UNCHANGED <<file, versions, objects, purged>>
        BY <1>3 DEF AllocateVersion, store
      <3>4. NumberFollows'
        BY <1>3, <2>2, <3>1, <3>2, <3>3
        DEF SafeInv, NumberFollows, IsHighest, RowExists, Versions
      <3>5. PartsComplete' /\ ObjectWritten'
        BY <1>3, <3>1, <3>2, <3>3 DEF SafeInv, PartsComplete, ObjectWritten
      <3>6. IdleBeforeInit'
        BY <1>3, <3>3 DEF SafeInv, IdleBeforeInit, AllocateVersion, At
      <3> QED
        BY <1>3, <3>3, <3>4, <3>5, <3>6 DEF SafeInv, VersionsContiguous, VersionsHaveObjects,
           RowExists, KeyOf
    <2> QED
      BY <1>3, <2>1, <2>2 DEF AllocateVersion, NextVersionNumber
  <1>4. ASSUME TypeInv, SafeInv, NEW h \in Handlers, CopyChunk(h) PROVE SafeInv'
    <2> DEFINE i == Len(job[h].parts)
    <2>1. UNCHANGED <<file, versions, objects, purged>> /\ file.status # "ABSENT" /\ pc[h] = "copy"
      BY <1>4 DEF CopyChunk, store, SafeInv, IdleBeforeInit, At
    <2>2. CASE /\ UNCHANGED pc
               /\ job' = [job EXCEPT ![h].parts = Append(@, chunkObj[i])]
      <3>1. /\ job'[h].next = job[h].next
            /\ \A g \in Handlers \ {h} : job'[g] = job[g]
        <4>1. job \in [Handlers -> JobType]
          BY <1>4 DEF TypeInv, TypeOK
        <4> QED
          BY <2>2, <4>1 DEF JobType
      <3>2. NumberFollows' /\ PartsComplete' /\ ObjectWritten' /\ IdleBeforeInit'
        BY <1>4, <2>1, <2>2, <3>1 DEF SafeInv, NumberFollows, PartsComplete, ObjectWritten,
           IdleBeforeInit, RowExists
      <3> QED
        BY <1>4, <2>1, <3>2 DEF SafeInv, VersionsContiguous, VersionsHaveObjects, RowExists, KeyOf
    <2>3. CASE UNCHANGED job /\ Goto(h, "failing")
      <3>1. Quiet
        BY <1>4, <2>1, <2>3, QuietMove DEF SafeInv, Goto, Pcs, Holding, CompletePcs
      <3> QED
        BY <1>4, <3>1, QuietStep
    <2>4. CASE Restart
      <3>1. Quiet
        BY <2>1, <2>4 DEF Quiet, Restart, IdleBeforeInit, Holding
      <3> QED
        BY <1>4, <3>1, QuietStep
    <2>5. CASE i = ChunksOf[job[h].payload] /\ UNCHANGED job /\ Goto(h, "put")
      <3>1. pc'[h] = "put" /\ \A g \in Handlers \ {h} : pc'[g] = pc[g]
        BY <1>4, <2>5 DEF TypeInv, TypeOK, Goto
      <3>2. NumberFollows' /\ PartsComplete' /\ ObjectWritten' /\ IdleBeforeInit'
        BY <1>4, <2>1, <2>5, <3>1 DEF SafeInv, NumberFollows, PartsComplete, ObjectWritten,
           IdleBeforeInit, RowExists, Holding
      <3> QED
        BY <1>4, <2>1, <3>2 DEF SafeInv, VersionsContiguous, VersionsHaveObjects, RowExists, KeyOf
    <2> QED
      BY <1>4, <2>2, <2>3, <2>4, <2>5 DEF CopyChunk
  <1>5. ASSUME TypeInv, SafeInv, NEW h \in Handlers, FinishAssembly(h) PROVE SafeInv'
    <2>1. /\ UNCHANGED <<file, versions, purged, job>> /\ pc[h] = "put"
          /\ file.status # "ABSENT"
      BY <1>5 DEF FinishAssembly, SafeInv, IdleBeforeInit, At
    <2>2. CASE UNCHANGED objects /\ Goto(h, "failing")
      <3>1. Quiet
        BY <1>5, <2>1, <2>2, QuietMove DEF SafeInv, Goto, Pcs, Holding, CompletePcs
      <3> QED
        BY <1>5, <3>1, QuietStep
    <2>3. CASE /\ objects' = [objects EXCEPT ![DestinationKey(h)] = job[h].parts]
               /\ Goto(h, "cleanup")
      <3>1. pc'[h] = "cleanup" /\ \A g \in Handlers \ {h} : pc'[g] = pc[g]
        BY <1>5, <2>3 DEF TypeInv, TypeOK, Goto
      <3>2. job[h].name \in Names /\ job[h].payload \in Payloads
        BY <1>5, <2>1 DEF TypeInv, JobsNamed, CompletePcs, AssemblyPcs
      <3>3. DestinationKey(h) \in Keys
        BY <1>5, <2>1, <3>2 DEF SafeInv, NumberFollows, Holding, DestinationKey, Keys
      <3>4. job[h].parts # << >>
        <4>1. Len(job[h].parts) = ChunksOf[job[h].payload] /\ ChunksOf[job[h].payload] # 0
          BY <1>5, <2>1, <3>2 DEF SafeInv, PartsComplete
        <4> QED
          BY <4>1
      <3>5. /\ objects'[DestinationKey(h)] # << >>
            /\ \A k \in Keys : objects[k] # << >> => objects'[k] # << >>
        BY <1>5, <2>3, <3>3, <3>4 DEF TypeInv, TypeOK
      <3>6. ASSUME NEW g \in Handlers, pc'[g] \in {"cleanup", "create"}, ~purged
            PROVE objects'[<<job[g].next, job[g].name>>] # << >>
        <4>1. CASE g = h
          BY <3>5, <4>1 DEF DestinationKey
        <4>2. CASE g # h
          <5>1. pc[g] \in {"cleanup", "create"}
            BY <3>1, <3>6, <4>2
          <5>2. <<job[g].next, job[g].name>> \in Keys
            BY <1>5, <5>1 DEF SafeInv, NumberFollows, TypeInv, JobsNamed, Keys, Holding,
               CompletePcs, AssemblyPcs
          <5>3. objects[<<job[g].next, job[g].name>>] # << >>
            BY <1>5, <3>6, <5>1 DEF SafeInv, ObjectWritten
          <5> QED
            BY <3>5, <5>2, <5>3
        <4> QED
          BY <4>1, <4>2
      <3>7. ObjectWritten'
        BY <2>1, <3>6 DEF ObjectWritten
      <3>8. VersionsHaveObjects'
        <4>1. \A n \in Versions : RowExists(n) => KeyOf(n) \in Keys
          BY <1>5 DEF TypeInv, RowsNamed, KeyOf, Keys
        <4> QED
          BY <1>5, <2>1, <3>5, <4>1 DEF SafeInv, VersionsHaveObjects, RowExists, KeyOf
      <3>9. NumberFollows' /\ PartsComplete' /\ IdleBeforeInit' /\ VersionsContiguous'
        BY <1>5, <2>1, <3>1 DEF SafeInv, NumberFollows, PartsComplete, IdleBeforeInit,
           VersionsContiguous, RowExists, Holding
      <3> QED
        BY <3>7, <3>8, <3>9 DEF SafeInv
    <2> QED
      BY <1>5, <2>2, <2>3 DEF FinishAssembly
  <1>6. ASSUME TypeInv, SafeInv, NEW h \in Handlers, DeleteChunks(h) PROVE SafeInv'
    <2>1. UNCHANGED <<file, versions, objects, purged, job>> /\ pc[h] = "cleanup"
          /\ file.status # "ABSENT"
      BY <1>6 DEF DeleteChunks, SafeInv, IdleBeforeInit, At
    <2>2. CASE Goto(h, "failing")
      <3>1. Quiet
        BY <1>6, <2>1, <2>2, QuietMove DEF SafeInv, Goto, Pcs, Holding, CompletePcs
      <3> QED
        BY <1>6, <3>1, QuietStep
    <2>3. CASE Goto(h, "create")
      <3>1. pc'[h] = "create" /\ \A g \in Handlers \ {h} : pc'[g] = pc[g]
        BY <1>6, <2>3 DEF TypeInv, TypeOK, Goto
      <3>2. NumberFollows' /\ PartsComplete' /\ ObjectWritten' /\ IdleBeforeInit'
        BY <1>6, <2>1, <3>1 DEF SafeInv, NumberFollows, PartsComplete, ObjectWritten,
           IdleBeforeInit, RowExists, Holding
      <3> QED
        BY <1>6, <2>1, <3>2 DEF SafeInv, VersionsContiguous, VersionsHaveObjects, RowExists, KeyOf
    <2> QED
      BY <1>6, <2>2, <2>3 DEF DeleteChunks
  <1>7. ASSUME TypeInv, SafeInv, NEW h \in Handlers, CreateVersion(h) PROVE SafeInv'
    <2>1. UNCHANGED <<file, objects, purged, job>> /\ pc[h] = "create" /\ file.status # "ABSENT"
      BY <1>7 DEF CreateVersion, SafeInv, IdleBeforeInit, At, store
    <2>2. CASE UNCHANGED versions /\ Goto(h, "failing")
      <3>1. Quiet
        BY <1>7, <2>1, <2>2, QuietMove DEF SafeInv, Goto, Pcs, Holding, CompletePcs
      <3> QED
        BY <1>7, <3>1, QuietStep
    <2>3. CASE /\ file.status \notin Gone
               /\ versions' = [versions EXCEPT ![job[h].next] =
                                 [checksum |-> job[h].payload, name |-> job[h].name]]
               /\ Goto(h, "publish")
      <3>1. pc'[h] = "publish" /\ \A g \in Handlers \ {h} : pc'[g] = pc[g]
        BY <1>7, <2>3 DEF TypeInv, TypeOK, Goto
      <3>2. job[h].next \in Versions /\ job[h].name \in Names
        BY <1>7, <2>1 DEF SafeInv, NumberFollows, Holding, TypeInv, JobsNamed, CompletePcs,
           AssemblyPcs
      <3>3. job[h].next # 1 => job[h].next - 1 \in Versions /\ RowExists(job[h].next - 1)
        BY <1>7, <2>1, <2>3 DEF SafeInv, NumberFollows, Holding
      <3>4. /\ RowExists(job[h].next)'
            /\ KeyOf(job[h].next)' = <<job[h].next, job[h].name>>
            /\ \A n \in Versions \ {job[h].next} : versions'[n] = versions[n]
        <4>1. versions \in [Versions -> VersionType]
          BY <1>7 DEF TypeInv, TypeOK
        <4>2. versions'[job[h].next] = [checksum |-> job[h].payload, name |-> job[h].name]
          BY <2>3, <3>2, <4>1
        <4>3. versions'[job[h].next].name # None
          BY <3>2, <4>2
        <4>4. RowExists(job[h].next)'
          BY <2>1, <4>3 DEF RowExists, NoVersion
        <4> QED
          BY <2>1, <2>3, <3>2, <4>1, <4>2, <4>4 DEF KeyOf
      <3>5. \A n \in Versions : RowExists(n)' <=> RowExists(n) \/ n = job[h].next
        BY <2>1, <3>4 DEF RowExists
      <3>6. VersionsContiguous'
        BY <1>7, <3>2, <3>3, <3>5 DEF SafeInv, VersionsContiguous, Versions
      <3>7. NumberFollows'
        BY <1>7, <2>1, <3>1, <3>5 DEF SafeInv, NumberFollows, Holding
      <3>8. PartsComplete' /\ ObjectWritten' /\ IdleBeforeInit'
        BY <1>7, <2>1, <3>1 DEF SafeInv, PartsComplete, ObjectWritten, IdleBeforeInit
      <3>9. VersionsHaveObjects'
        <4>1. ~purged => objects[<<job[h].next, job[h].name>>] # << >>
          BY <1>7, <2>1 DEF SafeInv, ObjectWritten
        <4>2. \A n \in Versions \ {job[h].next} : KeyOf(n)' = KeyOf(n)
          BY <3>4 DEF KeyOf
        <4> QED
          BY <1>7, <2>1, <3>4, <3>5, <4>1, <4>2 DEF SafeInv, VersionsHaveObjects
      <3> QED
        BY <3>6, <3>7, <3>8, <3>9 DEF SafeInv
    <2> QED
      BY <1>7, <2>2, <2>3 DEF CreateVersion
  <1>8. ASSUME TypeInv, SafeInv, NEW h \in Handlers, RemoveObjects(h) PROVE SafeInv'
    <2>1. UNCHANGED <<file, versions>> /\ file.status # "ABSENT"
      BY <1>8 DEF RemoveObjects, SafeInv, IdleBeforeInit, At
    <2>2. /\ pc'[h] \notin Holding
          /\ \A g \in Handlers \ {h} : pc'[g] = pc[g] /\ job'[g] = job[g]
      <3>1. job \in [Handlers -> JobType] /\ pc \in [Handlers -> Pcs]
        BY <1>8 DEF TypeInv, TypeOK
      <3> QED
        BY <1>8, <3>1 DEF RemoveObjects, Return, Goto, Holding
    <2>3. NumberFollows' /\ PartsComplete' /\ IdleBeforeInit' /\ VersionsContiguous'
      BY <1>8, <2>1, <2>2 DEF SafeInv, NumberFollows, PartsComplete, IdleBeforeInit,
         VersionsContiguous, RowExists, Holding
    <2>4. ObjectWritten' /\ VersionsHaveObjects'
      <3>1. purged' \/ UNCHANGED <<objects, purged>>
        BY <1>8 DEF RemoveObjects, store
      <3> QED
        BY <1>8, <2>1, <2>2, <3>1 DEF SafeInv, ObjectWritten, VersionsHaveObjects, RowExists,
           KeyOf, Holding
    <2> QED
      BY <2>3, <2>4 DEF SafeInv
  <1>9. ASSUME TypeInv, SafeInv, NEW h \in Handlers, RemoveRow(h) PROVE SafeInv'
    <2>1. file.status # "ABSENT" /\ UNCHANGED <<objects, purged>>
      BY <1>9 DEF RemoveRow, SafeInv, IdleBeforeInit, At, store
    <2>2. /\ pc'[h] = "idle"
          /\ \A g \in Handlers \ {h} : pc'[g] = pc[g] /\ job'[g] = job[g]
      <3>1. job \in [Handlers -> JobType] /\ pc \in [Handlers -> Pcs]
        BY <1>9 DEF TypeInv, TypeOK
      <3> QED
        BY <1>9, <3>1 DEF RemoveRow, Return
    <2>3. CASE UNCHANGED <<file, versions>>
      <3>1. Quiet
        BY <2>1, <2>2, <2>3 DEF Quiet, IdleBeforeInit, Holding
      <3> QED
        BY <1>9, <3>1, QuietStep
    <2>4. CASE /\ file' = [NoFile EXCEPT !.status = "DELETED"]
               /\ versions' = [n \in Versions |-> NoVersion]
      <3>1. file'.status = "DELETED"
        BY <2>4 DEF NoFile
      <3>2. \A n \in Versions : ~RowExists(n)'
        BY <2>4 DEF RowExists
      <3>3. VersionsContiguous' /\ VersionsHaveObjects'
        BY <3>2 DEF VersionsContiguous, VersionsHaveObjects
      <3>4. NumberFollows' /\ IdleBeforeInit'
        BY <1>9, <2>2, <3>1 DEF SafeInv, NumberFollows, IdleBeforeInit, Gone, Holding
      <3>5. PartsComplete' /\ ObjectWritten'
        BY <1>9, <2>1, <2>2 DEF SafeInv, PartsComplete, ObjectWritten
      <3> QED
        BY <3>3, <3>4, <3>5 DEF SafeInv
    <2> QED
      BY <1>9, <2>3, <2>4 DEF RemoveRow
  <1>10. ASSUME SafeInv, Crash PROVE SafeInv'
    <2>1. Quiet
      BY <1>10 DEF Quiet, Crash, Restart, IdleBeforeInit, Holding, store
    <2> QED
      BY <1>10, <2>1, QuietStep
  <1>11. ASSUME SafeInv, UNCHANGED vars PROVE SafeInv'
    <2>1. Quiet
      BY <1>11 DEF Quiet, vars, SafeInv, IdleBeforeInit
    <2> QED
      BY <1>11, <2>1, QuietStep
  <1>12. ASSUME TypeInv, SafeInv, Quiet PROVE SafeInv'
    BY <1>12, QuietStep
  <1>13. SafeInv => IdleBeforeInit
    BY DEF SafeInv
  <1> QED
    BY <1>1, <1>2, <1>3, <1>4, <1>5, <1>6, <1>7, <1>8, <1>9, <1>10, <1>11, <1>12, <1>13,
       QuietActions
    DEF Next, Begin, Continue

LEMMA SafeInvAlways == Spec => []SafeInv
  <1>1. Init => SafeInv
    BY SafeInvInit
  <1>2. TypeInv /\ TypeInv' /\ SafeInv /\ [Next]_vars => SafeInv'
    BY SafeInvNext
  <1> QED
    BY <1>1, <1>2, TypeInvAlways, PTL DEF Spec

\* The version numbers of a file have no gap, whatever completions overlap, fail,
\* crash or lose the race for a number (completeUpload, remove).
THEOREM UploadVersionsContiguous == Spec => []VersionsContiguous
  <1>1. SafeInv => VersionsContiguous
    BY DEF SafeInv
  <1> QED
    BY SafeInvAlways, <1>1, PTL

\* A version row never names an object that was not assembled: the object is
\* written before the row, and only remove takes it away.
THEOREM UploadVersionsHaveObjects == Spec => []VersionsHaveObjects
  <1>1. SafeInv => VersionsHaveObjects
    BY DEF SafeInv
  <1> QED
    BY SafeInvAlways, <1>1, PTL

-----------------------------------------------------------------------------
(* Announcements                                                           *)

\* Where a completion has created its version and has not announced it yet.
Publishing == {"publish", "pointer", "announce"}

\* A number that no completion can take any more: its row is there, or remove has
\* taken the file and with it every row.
Made(n) == RowExists(n) \/ file.status = "DELETED"

Announcements == {i \in 1 .. Len(outbox) : outbox[i].type # "cache.invalidate"}

AnnouncedMade ==
    \A i \in Announcements : outbox[i].version \in Versions /\ Made(outbox[i].version)
PublishersMade ==
    \A h \in Handlers : pc[h] \in Publishing =>
        /\ job[h].next \in Versions /\ Made(job[h].next)
        /\ \A i \in Announcements : outbox[i].version # job[h].next
PublishersDiffer ==
    \A g, h \in Handlers :
        pc[g] \in Publishing /\ pc[h] \in Publishing /\ job[g].next = job[h].next => g = h
NoneTwice ==
    \A i, j \in Announcements : outbox[i].version = outbox[j].version => i = j

\* Why the events of a version are sent once: only the handler that created the row
\* sends them, and a number whose row was created is never free again.
AnnounceInv == AnnouncedMade /\ PublishersMade /\ PublishersDiffer /\ NoneTwice

\* Nothing is announced or created, and no handler becomes a publisher.
LEMMA AnnounceQuiet ==
  ASSUME AnnounceInv, UNCHANGED outbox,
         \A n \in Versions : Made(n) => Made(n)',
         \A g \in Handlers :
             pc'[g] \in Publishing => pc[g] \in Publishing /\ job'[g].next = job[g].next
  PROVE  AnnounceInv'
  <1>1. Announcements' = Announcements
    BY DEF Announcements
  <1>2. AnnouncedMade'
    BY <1>1 DEF AnnounceInv, AnnouncedMade, Made
  <1>3. PublishersMade'
    <2>1. ASSUME NEW h \in Handlers, pc'[h] \in Publishing
          PROVE  /\ job'[h].next \in Versions /\ (RowExists(job[h].next) \/ file.status = "DELETED")'
                 /\ \A i \in Announcements : outbox[i].version # job'[h].next
      <3>1. PICK n : n = job[h].next
        OBVIOUS
      <3>2. job'[h].next = n /\ n \in Versions /\ Made(n)
            /\ \A i \in Announcements : outbox[i].version # n
        BY <2>1, <3>1 DEF AnnounceInv, PublishersMade
      <3>3. Made(n)'
        BY <3>2
      <3> QED
        BY <3>2, <3>3 DEF Made, RowExists
    <2> QED
      BY <1>1, <2>1 DEF PublishersMade, Made
  <1>4. PublishersDiffer' /\ NoneTwice'
    BY <1>1 DEF AnnounceInv, PublishersDiffer, NoneTwice
  <1> QED
    BY <1>2, <1>3, <1>4 DEF AnnounceInv

LEMMA AnnouncementAppended ==
  ASSUME outbox \in Seq(EventType), NEW n \in Versions, outbox' = outbox \o Announcement(n)
  PROVE  /\ Announcements' = Announcements \cup {Len(outbox) + 1}
         /\ \A i \in 1 .. Len(outbox) : outbox'[i] = outbox[i]
         /\ outbox'[Len(outbox) + 1].version = n /\ Len(outbox) \in Nat
  <1>1. CASE n = 1
    <2>1. Announcement(n) = <<[type |-> "file.uploaded", version |-> n]>>
      BY <1>1 DEF Announcement
    <2>2. /\ Len(outbox') = Len(outbox) + 1 /\ Len(outbox) \in Nat
          /\ \A i \in 1 .. Len(outbox) : outbox'[i] = outbox[i]
          /\ outbox'[Len(outbox) + 1] = [type |-> "file.uploaded", version |-> n]
      BY <2>1
    <2> QED
      BY <2>2 DEF Announcements
  <1>2. CASE n # 1
    <2>1. Announcement(n) = <<[type |-> "file.version_created", version |-> n],
                              [type |-> "cache.invalidate", version |-> n]>>
      BY <1>2 DEF Announcement
    <2>2. /\ Len(outbox') = Len(outbox) + 2 /\ Len(outbox) \in Nat
          /\ \A i \in 1 .. Len(outbox) : outbox'[i] = outbox[i]
          /\ outbox'[Len(outbox) + 1] = [type |-> "file.version_created", version |-> n]
          /\ outbox'[Len(outbox) + 2] = [type |-> "cache.invalidate", version |-> n]
      BY <2>1
    <2> QED
      BY <2>2 DEF Announcements
  <1> QED
    BY <1>1, <1>2

\* Handlers go on, and nothing of what they do is about versions or events.
LEMMA AnnounceMove ==
  ASSUME TypeInv, AnnounceInv, NEW h \in Handlers, UNCHANGED <<versions, outbox>>,
         file.status = "DELETED" => file'.status = "DELETED",
         \E l \in Pcs : /\ pc' = [pc EXCEPT ![h] = l]
                        /\ l \in Publishing => pc[h] \in Publishing /\ job' = job,
         \A g \in Handlers \ {h} : job'[g] = job[g]
  PROVE  AnnounceInv'
  <1>1. \A n \in Versions : Made(n) => Made(n)'
    BY DEF Made, RowExists
  <1>2. \A g \in Handlers :
             pc'[g] \in Publishing => pc[g] \in Publishing /\ job'[g].next = job[g].next
    BY DEF TypeInv, TypeOK
  <1> QED
    BY <1>1, <1>2, AnnounceQuiet

LEMMA AnnounceActions ==
  ASSUME TypeInv, AnnounceInv, NEW h \in Handlers,
         \/ InitChunkRows(h) \/ ReadChunkRow(h) \/ PutChunk(h) \/ CommitChunk(h)
         \/ CompleteUpload(h) \/ Claim(h) \/ AllocateVersion(h) \/ FinishAssembly(h)
         \/ DeleteChunks(h) \/ PublishVersion(h) \/ SetPointer(h) \/ MarkFailed(h)
         \/ RemoveFile(h) \/ RemoveObjects(h)
         \/ \E p \in Payloads : \E i \in 0 .. ChunksOf[p] - 1 : UploadChunk(h, p, i)
         \/ \E p \in Payloads, name \in Names, mime \in Mimes : InitUpload(h, p, name, mime)
  PROVE  AnnounceInv'
  <1>t. job \in [Handlers -> JobType] /\ file \in FileType
    BY DEF TypeInv, TypeOK
  <1> USE DEF At, Goto, Return, store, Gone
  <1>p. /\ {"idle", "initRows", "chunkRow", "chunkPut", "chunkCommit", "claim", "allocate",
            "copy", "cleanup", "create", "failing", "rmObjects", "rmRow"} \subseteq Pcs \ Publishing
        /\ {"pointer", "announce"} \subseteq Pcs \cap Publishing /\ "publish" \in Publishing
    BY DEF Pcs, Publishing, UploadPcs, CompletePcs, AssemblyPcs, RemovePcs
  <1>1. CASE InitChunkRows(h)
    BY <1>t, <1>p, <1>1, AnnounceMove DEF InitChunkRows
  <1>2. CASE ReadChunkRow(h)
    BY <1>t, <1>p, <1>2, AnnounceMove DEF ReadChunkRow
  <1>3. CASE PutChunk(h)
    BY <1>t, <1>p, <1>3, AnnounceMove DEF PutChunk
  <1>4. CASE CommitChunk(h)
    BY <1>t, <1>p, <1>4, AnnounceMove DEF CommitChunk, FileType
  <1>5. CASE CompleteUpload(h)
    BY <1>t, <1>p, <1>5, AnnounceMove DEF CompleteUpload
  <1>6. CASE Claim(h)
    BY <1>t, <1>p, <1>6, AnnounceMove DEF Claim, Claimable, FileType
  <1>7. CASE AllocateVersion(h)
    BY <1>t, <1>p, <1>7, AnnounceMove DEF AllocateVersion
  <1>8. CASE FinishAssembly(h)
    BY <1>t, <1>p, <1>8, AnnounceMove DEF FinishAssembly
  <1>9. CASE DeleteChunks(h)
    BY <1>t, <1>p, <1>9, AnnounceMove DEF DeleteChunks
  <1>10. CASE PublishVersion(h)
    BY <1>t, <1>p, <1>10, AnnounceMove DEF PublishVersion, FileType
  <1>11. CASE SetPointer(h)
    BY <1>t, <1>p, <1>11, AnnounceMove DEF SetPointer
  <1>12. CASE MarkFailed(h)
    BY <1>t, <1>p, <1>12, AnnounceMove DEF MarkFailed, FileType
  <1>13. CASE RemoveFile(h)
    BY <1>t, <1>p, <1>13, AnnounceMove DEF RemoveFile
  <1>14. CASE RemoveObjects(h)
    BY <1>t, <1>p, <1>14, AnnounceMove DEF RemoveObjects
  <1>15. ASSUME NEW p \in Payloads, NEW i \in 0 .. ChunksOf[p] - 1, UploadChunk(h, p, i)
         PROVE AnnounceInv'
    BY <1>t, <1>p, <1>15, AnnounceMove DEF UploadChunk
  <1>16. ASSUME NEW p \in Payloads, NEW name \in Names, NEW mime \in Mimes,
                InitUpload(h, p, name, mime)
         PROVE AnnounceInv'
    BY <1>t, <1>p, <1>16, AnnounceMove DEF InitUpload
  <1> QED
    BY <1>1, <1>2, <1>3, <1>4, <1>5, <1>6, <1>7, <1>8, <1>9, <1>10, <1>11, <1>12, <1>13, <1>14,
       <1>15, <1>16

LEMMA AnnounceInvNext == TypeInv /\ SafeInv /\ AnnounceInv /\ [Next]_vars => AnnounceInv'
  <1> SUFFICES ASSUME TypeInv, SafeInv, AnnounceInv, [Next]_vars PROVE AnnounceInv'
    OBVIOUS
  <1>t. pc \in [Handlers -> Pcs] /\ job \in [Handlers -> JobType] /\ file \in FileType
        /\ outbox \in Seq(EventType) /\ versions \in [Versions -> VersionType]
    BY DEF TypeInv, TypeOK
  <1>1. ASSUME NEW h \in Handlers, NEW p \in Payloads, NEW name \in Names, NEW mime \in Mimes,
               InitVersionUpload(h, p, name, mime)
        PROVE AnnounceInv'
    <2>1. \A n \in Versions : Made(n) => Made(n)'
      BY <1>1 DEF InitVersionUpload, Made, RowExists, Gone
    <2> QED
      BY <1>1, <2>1, AnnounceQuiet DEF InitVersionUpload
  <1>2. ASSUME UNCHANGED <<versions, outbox, file>>, Restart PROVE AnnounceInv'
    <2>1. \A n \in Versions : Made(n) => Made(n)'
      BY <1>2 DEF Made, RowExists
    <2>2. \A g \in Handlers : pc'[g] \notin Publishing
      BY <1>2 DEF Restart, Publishing
    <2> QED
      BY <1>2, <2>1, <2>2, AnnounceQuiet
  <1>3. ASSUME NEW h \in Handlers, CopyChunk(h) PROVE AnnounceInv'
    <2>1. UNCHANGED <<versions, outbox, file>> /\ pc[h] = "copy"
      BY <1>3 DEF CopyChunk, At
    <2>2. CASE Restart
      BY <1>2, <2>1, <2>2
    <2>3. CASE ~Restart
      <3>1. \A n \in Versions : Made(n) => Made(n)'
        BY <2>1 DEF Made, RowExists
      <3>2. \A g \in Handlers \ {h} : job'[g] = job[g] /\ pc'[g] = pc[g]
        BY <1>3, <1>t, <2>3 DEF CopyChunk, Goto
      <3>3. pc'[h] \in {"copy", "put", "failing"}
        BY <1>3, <1>t, <2>1, <2>3 DEF CopyChunk, Goto
      <3>4. pc'[h] \notin Publishing
        BY <3>3 DEF Publishing
      <3> QED
        BY <2>1, <3>1, <3>2, <3>4, AnnounceQuiet
    <2> QED
      BY <2>2, <2>3
  <1>4. ASSUME NEW h \in Handlers, CreateVersion(h) PROVE AnnounceInv'
    <2>1. /\ UNCHANGED <<outbox, file, job>> /\ pc[h] = "create" /\ Announcements' = Announcements
          /\ pc[h] \notin Publishing
      BY <1>4 DEF CreateVersion, At, Announcements, Publishing
    <2>2. CASE UNCHANGED versions /\ Goto(h, "failing")
      <3>1. "failing" \in Pcs \ Publishing
        BY DEF Pcs, Publishing, CompletePcs
      <3> QED
        BY <2>1, <2>2, <3>1, AnnounceMove DEF Goto
    <2>3. CASE /\ file.status \notin Gone /\ VersionNumberFree(job[h].next)
               /\ versions' = [versions EXCEPT ![job[h].next] =
                                 [checksum |-> job[h].payload, name |-> job[h].name]]
               /\ Goto(h, "publish")
      <3>0. PICK n : n = job[h].next
        OBVIOUS
      <3>1. n \in Versions /\ ~Made(n)
        BY <2>1, <2>3, <3>0
           DEF SafeInv, NumberFollows, Holding, Made, VersionNumberFree, Gone
      <3>2. job[h].name \in Names /\ job[h].name # None
        BY <2>1, UploadAssumption DEF TypeInv, JobsNamed, CompletePcs, AssemblyPcs
      <3>3. versions'[n] # NoVersion /\ \A m \in Versions \ {n} : versions'[m] = versions[m]
        BY <1>t, <2>3, <3>0, <3>1, <3>2 DEF NoVersion
      <3>5. pc'[h] = "publish" /\ \A g \in Handlers \ {h} : pc'[g] = pc[g]
        BY <1>t, <2>3 DEF Goto
      <3>6. AnnouncedMade'
        <4>1. \A i \in Announcements : outbox[i].version \in Versions /\ Made(outbox[i].version)
          BY DEF AnnounceInv, AnnouncedMade
        <4> QED
          BY <2>1, <4>1, <3>3 DEF AnnouncedMade, Made, RowExists
      <3>7. PublishersMade'
        <4>1. ASSUME NEW g \in Handlers, pc'[g] \in Publishing
              PROVE  /\ job[g].next \in Versions
                     /\ versions'[job[g].next] # NoVersion \/ file.status = "DELETED"
                     /\ \A i \in Announcements : outbox[i].version # job[g].next
          <5>1. CASE g = h
            BY <3>0, <3>1, <3>3, <5>1 DEF AnnounceInv, AnnouncedMade
          <5>2. CASE g # h
            BY <3>0, <3>3, <3>5, <4>1, <5>2 DEF AnnounceInv, PublishersMade, Made, RowExists
          <5> QED
            BY <5>1, <5>2
        <4> QED
          BY <2>1, <4>1 DEF PublishersMade, Made, RowExists
      <3>8. PublishersDiffer'
        <4>1. \A g \in Handlers \ {h} : pc'[g] \in Publishing => job[g].next # n
          BY <3>1, <3>5 DEF AnnounceInv, PublishersMade
        <4> QED
          BY <2>1, <3>0, <3>5, <4>1 DEF AnnounceInv, PublishersDiffer
      <3>9. NoneTwice'
        BY <2>1 DEF AnnounceInv, NoneTwice
      <3> QED
        BY <3>6, <3>7, <3>8, <3>9 DEF AnnounceInv
    <2> QED
      BY <1>4, <2>2, <2>3 DEF CreateVersion
  <1>5. ASSUME NEW h \in Handlers, Announce(h) PROVE AnnounceInv'
    <2>0. PICK n : n = job[h].next
      OBVIOUS
    <2>1. pc[h] = "announce" /\ UNCHANGED <<file, versions>> /\ outbox' = outbox \o Announcement(n)
      BY <1>5, <2>0 DEF Announce, At
    <2>2. n \in Versions /\ Made(n) /\ \A i \in Announcements : outbox[i].version # n
      BY <2>0, <2>1 DEF AnnounceInv, PublishersMade, Publishing
    <2>3. PICK k : k = Len(outbox) + 1
      OBVIOUS
    <2>4. /\ Announcements' = Announcements \cup {k} /\ outbox'[k].version = n
          /\ \A i \in Announcements : outbox'[i] = outbox[i]
      BY <1>t, <2>1, <2>2, <2>3, AnnouncementAppended DEF Announcements
    <2>5. /\ pc'[h] \notin Publishing
          /\ \A g \in Handlers \ {h} : pc'[g] = pc[g] /\ job'[g] = job[g]
      BY <1>5, <1>t DEF Announce, Return, Goto, Publishing
    <2>6. AnnouncedMade'
      BY <2>1, <2>2, <2>4 DEF AnnounceInv, AnnouncedMade, Made, RowExists
    <2>7. PublishersMade'
      <3>1. ASSUME NEW g \in Handlers, pc'[g] \in Publishing
            PROVE  /\ job'[g] = job[g] /\ job[g].next \in Versions /\ Made(job[g].next)
                   /\ \A i \in Announcements \cup {k} : outbox'[i].version # job[g].next
        <4>1. g # h /\ job'[g] = job[g] /\ pc[g] \in Publishing
          BY <2>5, <3>1
        <4>2. job[g].next # n
          BY <2>0, <2>1, <4>1 DEF AnnounceInv, PublishersDiffer, Publishing
        <4> QED
          BY <2>4, <4>1, <4>2 DEF AnnounceInv, PublishersMade
      <3> QED
        BY <2>1, <2>4, <3>1 DEF PublishersMade, Made, RowExists
    <2>8. PublishersDiffer'
      BY <2>5 DEF AnnounceInv, PublishersDiffer
    <2>9. NoneTwice'
      BY <2>2, <2>4 DEF AnnounceInv, NoneTwice
    <2> QED
      BY <2>6, <2>7, <2>8, <2>9 DEF AnnounceInv
  <1>6. ASSUME NEW h \in Handlers, RemoveRow(h) PROVE AnnounceInv'
    <2>0. pc' = [pc EXCEPT ![h] = "idle"] /\ job' = [job EXCEPT ![h] = NoJob]
      BY <1>6 DEF RemoveRow, Return
    <2>1. CASE UNCHANGED <<file, versions, outbox>>
      <3>1. "idle" \in Pcs \ Publishing
        BY DEF Pcs, Publishing
      <3> QED
        BY <1>t, <2>0, <2>1, <3>1, AnnounceMove
    <2>2. CASE /\ file' = [NoFile EXCEPT !.status = "DELETED"]
               /\ outbox' = Append(outbox, [type |-> "cache.invalidate", version |-> 0])
      <3>1. file'.status = "DELETED"
        BY <2>2 DEF NoFile
      <3>2. Announcements' = Announcements /\ \A i \in Announcements : outbox'[i] = outbox[i]
        BY <1>t, <2>2 DEF Announcements
      <3>3. \A g \in Handlers : pc'[g] \in Publishing => pc[g] \in Publishing /\ job'[g] = job[g]
        BY <1>t, <2>0 DEF Publishing
      <3>4. AnnouncedMade'
        BY <3>1, <3>2 DEF AnnounceInv, AnnouncedMade, Made
      <3>5. PublishersMade'
        BY <3>1, <3>2, <3>3 DEF AnnounceInv, PublishersMade, Made
      <3>6. PublishersDiffer' /\ NoneTwice'
        BY <3>2, <3>3 DEF AnnounceInv, PublishersDiffer, NoneTwice
      <3> QED
        BY <3>4, <3>5, <3>6 DEF AnnounceInv
    <2> QED
      BY <1>6, <2>1, <2>2 DEF RemoveRow
  <1>7. CASE Crash
    BY <1>2, <1>7 DEF Crash
  <1>8. CASE UNCHANGED vars
    BY <1>8, AnnounceQuiet DEF vars, Made, RowExists
  <1> QED
    BY <1>1, <1>3, <1>4, <1>5, <1>6, <1>7, <1>8, AnnounceActions DEF Next, Begin, Continue

LEMMA AnnounceInvAlways == Spec => []AnnounceInv
  <1>1. Init => AnnounceInv
    <2> SUFFICES ASSUME Init PROVE AnnounceInv
      OBVIOUS
    <2>1. Announcements = {} /\ \A h \in Handlers : pc[h] \notin Publishing
      BY DEF Init, Announcements, Publishing
    <2> QED
      BY <2>1 DEF AnnounceInv, AnnouncedMade, PublishersMade, PublishersDiffer, NoneTwice
  <1> QED
    BY <1>1, AnnounceInvNext, TypeInvAlways, SafeInvAlways, PTL DEF Spec

\* However completions of a file overlap, fail or are cut off, the replication
\* consumers hear of a version number once.
THEOREM UploadAnnouncedOnce == Spec => []AnnouncedOnce
  <1>1. AnnounceInv => AnnouncedOnce
    <2> SUFFICES ASSUME AnnounceInv, NEW n \in Versions PROVE Cardinality(Announced(n)) <= 1
      BY DEF AnnouncedOnce
    <2>1. \A i, j \in Announced(n) : i = j
      BY DEF AnnounceInv, NoneTwice, Announced, Announcements
    <2>2. CASE Announced(n) = {}
      <3>1. Cardinality(Announced(n)) = 0
        BY <2>2, FS_EmptySet
      <3> QED
        BY <3>1
    <2>3. CASE Announced(n) # {}
      <3>1. PICK i : Announced(n) = {i}
        BY <2>1, <2>3
      <3>2. Cardinality(Announced(n)) = 1
        BY <3>1, FS_Singleton
      <3> QED
        BY <3>2
    <2> QED
      BY <2>2, <2>3
  <1> QED
    BY <1>1, AnnounceInvAlways, PTL

-----------------------------------------------------------------------------
(* Who is left when a file stays in ASSEMBLING                             *)

Owning == {"allocate", "failing"} \cup AssemblyPcs

\* One handler moves on: the assembly has an owner if it had one elsewhere, or if
\* this handler is one.
LEMMA OwnerStep ==
  ASSUME TypeInv, AssemblingHasOwner, NEW h \in Handlers, NEW l, pc' = [pc EXCEPT ![h] = l],
         file'.status = "ASSEMBLING" =>
            l \in Owning \/ (file.status = "ASSEMBLING" /\ pc[h] \notin Owning)
  PROVE  AssemblingHasOwner'
  <1> SUFFICES ASSUME file'.status = "ASSEMBLING" PROVE \E g \in Handlers : pc'[g] \in Owning
    BY DEF AssemblingHasOwner, InFlight, Owning
  <1>1. pc \in [Handlers -> Pcs]
    BY DEF TypeInv, TypeOK
  <1>2. CASE l \in Owning
    BY <1>1, <1>2
  <1>3. CASE file.status = "ASSEMBLING" /\ pc[h] \notin Owning
    <2>1. PICK g \in Handlers : pc[g] \in Owning
      BY <1>3 DEF AssemblingHasOwner, InFlight, Owning
    <2> QED
      BY <1>1, <1>3, <2>1
  <1> QED
    BY <1>2, <1>3

\* A file is left in ASSEMBLING without a request that assembles it only when the
\* process dies, or when the database refuses the statement before the try block or
\* the one in the catch block: every other failure of completeUpload is handled.
THEOREM UploadStuckOnly == Spec => StuckOnlyByDatabaseOrCrash
  <1>1. ASSUME TypeInv, Next, AssemblingHasOwner,
               ~Crash, \A h \in Handlers : /\ ~AllocateVersion(h) /\ ~MarkFailed(h)
                                           /\ ~(CopyChunk(h) /\ job[h].mime = "compressible")
        PROVE  AssemblingHasOwner'
    <2>t. pc \in [Handlers -> Pcs] /\ file \in FileType
      BY <1>1 DEF TypeInv, TypeOK
    <2> USE DEF At, Goto, Return, Owning, AssemblyPcs
    <2>1. ASSUME NEW h \in Handlers, NEW p \in Payloads, NEW name \in Names, NEW mime \in Mimes,
                 InitUpload(h, p, name, mime) \/ InitVersionUpload(h, p, name, mime)
          PROVE  AssemblingHasOwner'
      <3>1. file'.status = "PENDING"
        BY <2>1, <2>t DEF InitUpload, InitVersionUpload, SessionOf, FileType
      <3> QED
        BY <3>1 DEF AssemblingHasOwner
    <2>2. ASSUME NEW h \in Handlers, NEW p \in Payloads, NEW i \in 0 .. ChunksOf[p] - 1,
                 UploadChunk(h, p, i)
          PROVE  AssemblingHasOwner'
      BY <1>1, <2>2, OwnerStep DEF UploadChunk
    <2>3. ASSUME NEW h \in Handlers,
                 \/ CompleteUpload(h) \/ RemoveFile(h) \/ InitChunkRows(h) \/ ReadChunkRow(h)
                 \/ PutChunk(h) \/ SetPointer(h) \/ Announce(h) \/ RemoveObjects(h)
          PROVE  AssemblingHasOwner'
      <3>1. CASE CompleteUpload(h)
        BY <1>1, <3>1, OwnerStep DEF CompleteUpload
      <3>2. CASE RemoveFile(h)
        BY <1>1, <3>2, OwnerStep DEF RemoveFile
      <3>3. CASE InitChunkRows(h)
        BY <1>1, <3>3, OwnerStep DEF InitChunkRows
      <3>4. CASE ReadChunkRow(h)
        BY <1>1, <3>4, OwnerStep DEF ReadChunkRow
      <3>5. CASE PutChunk(h)
        BY <1>1, <3>5, OwnerStep DEF PutChunk
      <3>6. CASE SetPointer(h)
        BY <1>1, <3>6, OwnerStep DEF SetPointer
      <3>7. CASE Announce(h)
        BY <1>1, <3>7, OwnerStep DEF Announce
      <3>8. CASE RemoveObjects(h)
        BY <1>1, <3>8, OwnerStep DEF RemoveObjects
      <3> QED
        BY <2>3, <3>1, <3>2, <3>3, <3>4, <3>5, <3>6, <3>7, <3>8
    <2>4. ASSUME NEW h \in Handlers,
                 \/ FinishAssembly(h) \/ DeleteChunks(h) \/ CreateVersion(h)
                 \/ CopyChunk(h) /\ job[h].mime # "compressible"
          PROVE  AssemblingHasOwner'
      <3>1. CASE FinishAssembly(h)
        BY <1>1, <3>1, OwnerStep DEF FinishAssembly
      <3>2. CASE DeleteChunks(h)
        BY <1>1, <3>2, OwnerStep DEF DeleteChunks
      <3>3. CASE CreateVersion(h)
        BY <1>1, <3>3, OwnerStep DEF CreateVersion
      <3>4. CASE CopyChunk(h) /\ job[h].mime # "compressible"
        <4>1. \/ UNCHANGED pc
              \/ \E l \in {"failing", "put"} : pc' = [pc EXCEPT ![h] = l]
          BY <3>4 DEF CopyChunk
        <4>2. UNCHANGED file
          BY <3>4 DEF CopyChunk
        <4>3. CASE UNCHANGED pc
          BY <1>1, <4>2, <4>3 DEF AssemblingHasOwner, InFlight
        <4>4. ASSUME NEW l \in {"failing", "put"}, pc' = [pc EXCEPT ![h] = l]
              PROVE  AssemblingHasOwner'
          BY <1>1, <4>4, OwnerStep
        <4> QED
          BY <4>1, <4>3, <4>4
      <3> QED
        BY <2>4, <3>1, <3>2, <3>3, <3>4
    <2>5. ASSUME NEW h \in Handlers,
                 CommitChunk(h) \/ Claim(h) \/ PublishVersion(h) \/ RemoveRow(h)
          PROVE  AssemblingHasOwner'
      <3>1. CASE CommitChunk(h)
        BY <1>1, <2>t, <3>1, OwnerStep DEF CommitChunk, FileType
      <3>2. CASE Claim(h)
        BY <1>1, <2>t, <3>2, OwnerStep DEF Claim
      <3>3. CASE PublishVersion(h)
        BY <1>1, <2>t, <3>3, OwnerStep DEF PublishVersion, FileType
      <3>4. CASE RemoveRow(h)
        BY <1>1, <2>t, <3>4, OwnerStep DEF RemoveRow, NoFile
      <3> QED
        BY <2>5, <3>1, <3>2, <3>3, <3>4
    <2> QED
      BY <1>1, <2>1, <2>2, <2>3, <2>4, <2>5 DEF Next, Begin, Continue
  <1>2. TypeInv /\ [Next]_vars =>
          [AssemblingHasOwner /\ ~AssemblingHasOwner' =>
             Crash \/ \E h \in Handlers :
                         \/ AllocateVersion(h) \/ MarkFailed(h)
                         \/ CopyChunk(h) /\ job[h].mime = "compressible"]_vars
    BY <1>1
  <1> QED
    BY <1>2, TypeInvAlways, PTL DEF Spec, StuckOnlyByDatabaseOrCrash

-----------------------------------------------------------------------------
(* An orderly client: one phase at a time                                  *)

\* What overlaps with an orderly client: chunks with chunks, and completions with
\* completions; initUpload and remove are alone.
Alone == RemovePcs \cup {"initRows"}
OnePhase ==
    \A g, h \in Handlers :
        /\ pc[g] \in UploadPcs => pc[h] \in UploadPcs \cup {"idle"}
        /\ pc[g] \in CompletePcs => pc[h] \in CompletePcs \cup {"idle"}
        /\ pc[g] \in Alone => g = h \/ pc[h] = "idle"

\* From the claim on a completion is the only one.
Claimed == CompletePcs \ {"claim"}
OneClaim ==
    \A g, h \in Handlers : pc[g] \in Claimed /\ pc[h] \in Claimed => g = h

\* The status a handler found or set has not been changed behind its back.
Fits(l, status) ==
    /\ l \in UploadPcs => status \in {"PENDING", "UPLOADING"}
    /\ l \in AssemblyPcs \cup {"allocate"} => status = "ASSEMBLING"
    /\ l \in {"pointer", "announce"} => status = "COMPLETED"
    /\ l = "failing" => status \in {"ASSEMBLING", "COMPLETED"}
StatusFits == \A h \in Handlers : Fits(pc[h], file.status)

PhaseInv == OnePhase /\ OneClaim /\ StatusFits

LEMMA PcFacts ==
  /\ Pcs = {"idle", "initRows", "chunkRow", "chunkPut", "chunkCommit", "claim", "allocate",
            "pointer", "announce", "failing", "copy", "put", "cleanup", "create", "publish",
            "rmObjects", "rmRow"}
  /\ Claimed = {"allocate", "pointer", "announce", "failing", "copy", "put", "cleanup",
                "create", "publish"}
  /\ CompletePcs = Claimed \cup {"claim"}
  BY DEF Pcs, Claimed, UploadPcs, CompletePcs, AssemblyPcs, RemovePcs

\* A handler moves within its phase, or returns.
LEMMA PhaseStep ==
  ASSUME TypeInv, PhaseInv, NEW h \in Handlers, NEW l \in Pcs, pc' = [pc EXCEPT ![h] = l],
         \/ l = "idle" \/ (l \in UploadPcs /\ pc[h] \in UploadPcs)
         \/ (l \in CompletePcs /\ pc[h] \in CompletePcs) \/ (l \in RemovePcs /\ pc[h] \in RemovePcs),
         l \in Claimed => pc[h] \in Claimed \/ \A g \in Handlers : pc[g] \notin Claimed,
         Fits(l, file'.status), \A g \in Handlers \ {h} : Fits(pc[g], file'.status)
  PROVE  PhaseInv'
  <1>1. pc'[h] = l /\ \A g \in Handlers \ {h} : pc'[g] = pc[g]
    BY DEF TypeInv, TypeOK
  <1>2. OnePhase'
    BY <1>1 DEF PhaseInv, OnePhase, Alone, UploadPcs, CompletePcs, AssemblyPcs, RemovePcs
  <1>3. OneClaim'
    BY <1>1, PcFacts DEF PhaseInv, OneClaim
  <1>4. StatusFits'
    BY <1>1 DEF StatusFits
  <1> QED
    BY <1>2, <1>3, <1>4 DEF PhaseInv

\* The same when the status does not change.
LEMMA PhaseMove ==
  ASSUME TypeInv, PhaseInv, NEW h \in Handlers, NEW l \in Pcs, pc' = [pc EXCEPT ![h] = l],
         \/ l = "idle" \/ (l \in UploadPcs /\ pc[h] \in UploadPcs)
         \/ (l \in Claimed /\ pc[h] \in Claimed) \/ (l \in RemovePcs /\ pc[h] \in RemovePcs),
         Fits(l, file.status), file'.status = file.status
  PROVE  PhaseInv'
  <1>1. Claimed \subseteq CompletePcs
    BY DEF Claimed
  <1>2. \A g \in Handlers \ {h} : Fits(pc[g], file'.status)
    BY DEF PhaseInv, StatusFits
  <1>3. l \in Claimed => pc[h] \in Claimed
    BY DEF Claimed, UploadPcs, RemovePcs, CompletePcs, AssemblyPcs
  <1>4. \/ l = "idle" \/ (l \in UploadPcs /\ pc[h] \in UploadPcs)
        \/ (l \in CompletePcs /\ pc[h] \in CompletePcs) \/ (l \in RemovePcs /\ pc[h] \in RemovePcs)
    BY <1>1
  <1>5. Fits(l, file'.status)
    OBVIOUS
  <1> QED
    BY <1>2, <1>3, <1>4, <1>5, PhaseStep

\* Nobody else is in flight.
LEMMA PhaseAlone ==
  ASSUME TypeInv, PhaseInv, NEW h \in Handlers, NEW l \in Pcs, pc' = [pc EXCEPT ![h] = l],
         \A g \in Handlers \ {h} : pc[g] = "idle", Fits(l, file'.status)
  PROVE  PhaseInv'
  <1>1. pc'[h] = l /\ \A g \in Handlers \ {h} : pc'[g] = "idle"
    BY DEF TypeInv, TypeOK
  <1>2. OnePhase'
    BY <1>1, PcFacts DEF OnePhase, Alone, UploadPcs, RemovePcs
  <1>3. OneClaim'
    BY <1>1, PcFacts DEF OneClaim
  <1>4. StatusFits'
    BY <1>1 DEF StatusFits, Fits, UploadPcs, AssemblyPcs
  <1> QED
    BY <1>2, <1>3, <1>4 DEF PhaseInv

LEMMA OthersIdle ==
  ASSUME Orderly, TypeInv, MayStart
  PROVE  \A g \in Handlers : pc[g] = "idle"
  BY DEF MayStart, InFlight, TypeInv, TypeOK

LEMMA PhaseInvNext ==
  ASSUME Orderly, TypeInv, SafeInv, PhaseInv, [Next]_vars
  PROVE  PhaseInv'
  <1>t. pc \in [Handlers -> Pcs] /\ file \in FileType
    BY DEF TypeInv, TypeOK
  <1>f. \A h \in Handlers : Fits(pc[h], file.status)
    BY DEF PhaseInv, StatusFits
  <1> USE DEF At, Goto, Return
  <1>1. ASSUME NEW h \in Handlers, NEW p \in Payloads, NEW name \in Names, NEW mime \in Mimes,
               InitUpload(h, p, name, mime)
        PROVE  PhaseInv'
    <2>1. \A g \in Handlers : pc[g] = "idle"
      BY <1>1 DEF InitUpload, SafeInv, IdleBeforeInit
    <2>2. "initRows" \in Pcs /\ Fits("initRows", file'.status)
      BY PcFacts DEF Fits, UploadPcs, AssemblyPcs
    <2> QED
      BY <1>1, <2>1, <2>2, PhaseAlone DEF InitUpload
  <1>2. ASSUME NEW h \in Handlers, NEW p \in Payloads, NEW name \in Names, NEW mime \in Mimes,
               InitVersionUpload(h, p, name, mime)
        PROVE  PhaseInv'
    <2>1. \A g \in Handlers : pc'[g] = "idle"
      BY <1>2, OthersIdle DEF InitVersionUpload
    <2> QED
      BY <2>1, PcFacts DEF PhaseInv, OnePhase, OneClaim, StatusFits, Fits, UploadPcs, AssemblyPcs,
         Alone, RemovePcs
  <1>3. ASSUME NEW h \in Handlers, NEW p \in Payloads, NEW i \in 0 .. ChunksOf[p] - 1,
               UploadChunk(h, p, i)
        PROVE  PhaseInv'
    <2>1. \A g \in Handlers : pc[g] \in {"idle"} \cup UploadPcs
      BY <1>3, <1>t DEF UploadChunk, MayUpload, InFlight
    <2>2. pc'[h] = "chunkRow" /\ \A g \in Handlers \ {h} : pc'[g] = pc[g]
      BY <1>3, <1>t DEF UploadChunk
    <2>3. file' = file /\ file.status \in {"PENDING", "UPLOADING"}
      BY <1>3 DEF UploadChunk, AcceptsChunks
    <2>4. \A g \in Handlers : pc'[g] \in {"idle"} \cup UploadPcs
      BY <2>1, <2>2 DEF UploadPcs
    <2> QED
      BY <2>3, <2>4, PcFacts DEF PhaseInv, OnePhase, OneClaim, StatusFits, Fits, UploadPcs,
         AssemblyPcs, Alone, RemovePcs
  <1>4. ASSUME NEW h \in Handlers, CompleteUpload(h) PROVE PhaseInv'
    <2>1. \A g \in Handlers : pc[g] \in {"idle"} \cup CompletePcs
      BY <1>4, <1>t DEF CompleteUpload, MayComplete, InFlight
    <2>2. pc'[h] = "claim" /\ (\A g \in Handlers \ {h} : pc'[g] = pc[g]) /\ file' = file
      BY <1>4, <1>t DEF CompleteUpload
    <2>3. OnePhase'
      BY <2>1, <2>2, PcFacts DEF OnePhase, UploadPcs, Alone, RemovePcs
    <2>4. OneClaim'
      BY <2>2, PcFacts DEF PhaseInv, OneClaim
    <2>5. StatusFits'
      BY <1>f, <2>2 DEF StatusFits, Fits, UploadPcs, AssemblyPcs
    <2> QED
      BY <2>3, <2>4, <2>5 DEF PhaseInv
  <1>5. ASSUME NEW h \in Handlers, RemoveFile(h) PROVE PhaseInv'
    <2>1. "rmObjects" \in Pcs /\ Fits("rmObjects", file'.status)
      BY PcFacts DEF Fits, UploadPcs, AssemblyPcs
    <2> QED
      BY <1>5, <2>1, OthersIdle, PhaseAlone DEF RemoveFile
  <1>6. ASSUME NEW h \in Handlers, NEW l \in Pcs, pc' = [pc EXCEPT ![h] = l], UNCHANGED file,
               \/ l = "idle" \/ (l \in UploadPcs /\ pc[h] \in UploadPcs)
               \/ (l \in Claimed /\ pc[h] \in Claimed) \/ (l \in RemovePcs /\ pc[h] \in RemovePcs),
               Fits(l, file.status)
        PROVE  PhaseInv'
    BY <1>6, PhaseMove
  <1>i. "idle" \in Pcs /\ \A x : Fits("idle", x)
    BY PcFacts DEF Fits, UploadPcs, AssemblyPcs
  <1>7. ASSUME NEW h \in Handlers, UNCHANGED file, pc' = [pc EXCEPT ![h] = "idle"] PROVE PhaseInv'
    BY <1>6, <1>7, <1>i
  <1>8. ASSUME NEW h \in Handlers, ReadChunkRow(h) \/ PutChunk(h) PROVE PhaseInv'
    <2>1. UNCHANGED file /\ pc[h] \in UploadPcs
          /\ \E l \in {"idle", "chunkPut", "chunkCommit"} : pc' = [pc EXCEPT ![h] = l]
      BY <1>8 DEF ReadChunkRow, PutChunk, UploadPcs
    <2>2. ASSUME NEW l \in {"idle", "chunkPut", "chunkCommit"}, pc' = [pc EXCEPT ![h] = l]
          PROVE  PhaseInv'
      <3>1. Fits(l, file.status) /\ l \in Pcs /\ (l = "idle" \/ l \in UploadPcs)
        BY <1>f, <1>i, <2>1, PcFacts DEF Fits, UploadPcs, AssemblyPcs
      <3> QED
        BY <1>6, <2>1, <2>2, <3>1
    <2> QED
      BY <2>1, <2>2
  <1>9. ASSUME NEW h \in Handlers, CommitChunk(h) PROVE PhaseInv'
    <2>1. pc[h] \in UploadPcs /\ pc' = [pc EXCEPT ![h] = "idle"]
      BY <1>9 DEF CommitChunk, UploadPcs
    <2>2. \A g \in Handlers : pc[g] \in UploadPcs \cup {"idle"}
      BY <2>1 DEF PhaseInv, OnePhase
    <2>3. file.status \in {"PENDING", "UPLOADING"}
      BY <1>f, <2>1 DEF Fits
    <2>4. file'.status \in {"PENDING", "UPLOADING"}
      BY <1>9, <1>t, <2>3 DEF CommitChunk, FileType
    <2>5. \A g \in Handlers : Fits(pc[g], file'.status)
      BY <2>2, <2>4 DEF Fits, UploadPcs, AssemblyPcs
    <2>6. "idle" \notin Claimed
      BY PcFacts
    <2> QED
      BY <1>i, <2>1, <2>5, <2>6, PhaseStep
  \* Where a completion is the only one, the others have not claimed yet.
  <1>10. ASSUME NEW h \in Handlers, NEW x,
                pc[h] \in CompletePcs, pc[h] \in Claimed \/ \A g \in Handlers : pc[g] \notin Claimed
         PROVE  \A g \in Handlers \ {h} : Fits(pc[g], x)
    <2>1. \A g \in Handlers \ {h} : pc[g] \in {"claim", "idle"}
      BY <1>10, PcFacts DEF PhaseInv, OnePhase, OneClaim
    <2> QED
      BY <2>1 DEF Fits, UploadPcs, AssemblyPcs
  <1>11. ASSUME NEW h \in Handlers, Claim(h) PROVE PhaseInv'
    <2>1. CASE pc' = [pc EXCEPT ![h] = "idle"] /\ UNCHANGED file
      BY <1>7, <2>1
    <2>2. CASE /\ Claimable(file.status) /\ file' = [file EXCEPT !.status = "ASSEMBLING"]
               /\ pc' = [pc EXCEPT ![h] = "allocate"]
      <3>1. pc[h] = "claim" /\ pc[h] \in CompletePcs
        BY <1>11, PcFacts DEF Claim
      <3>2. \A g \in Handlers : pc[g] \notin Claimed
        BY <1>f, <2>2, PcFacts DEF Fits, Claimable, AssemblyPcs
      <3>3. file'.status = "ASSEMBLING"
        BY <1>t, <2>2 DEF FileType
      <3>4. "allocate" \in Pcs /\ "allocate" \in CompletePcs /\ Fits("allocate", file'.status)
        BY <3>3, PcFacts DEF Fits, UploadPcs
      <3> QED
        BY <1>10, <2>2, <3>1, <3>2, <3>4, PhaseStep
    <2> QED
      BY <1>11, <2>1, <2>2 DEF Claim
  <1>12. ASSUME NEW h \in Handlers, UNCHANGED file, pc[h] \in AssemblyPcs \cup {"allocate"},
                NEW l \in AssemblyPcs \cup {"failing"}, pc' = [pc EXCEPT ![h] = l]
         PROVE  PhaseInv'
    <2>1. l \in Pcs /\ l \in Claimed /\ pc[h] \in Claimed
      BY <1>12, PcFacts DEF AssemblyPcs
    <2>2. Fits(l, file.status)
      BY <1>f, <1>12 DEF Fits, UploadPcs, AssemblyPcs
    <2> QED
      BY <1>6, <1>12, <2>1, <2>2
  <1>13. ASSUME NEW h \in Handlers, AllocateVersion(h) PROVE PhaseInv'
    BY <1>7, <1>12, <1>13 DEF AllocateVersion, AssemblyPcs
  <1>14. ASSUME Restart, UNCHANGED file PROVE PhaseInv'
    <2>1. \A g \in Handlers : pc'[g] = "idle"
      BY <1>14 DEF Restart
    <2> QED
      BY <2>1, PcFacts DEF PhaseInv, OnePhase, OneClaim, StatusFits, Fits, UploadPcs, AssemblyPcs,
         Alone, RemovePcs
  <1>15. ASSUME UNCHANGED <<pc, file>> PROVE PhaseInv'
    BY <1>15 DEF PhaseInv, OnePhase, OneClaim, StatusFits
  <1>16. ASSUME NEW h \in Handlers, CopyChunk(h) PROVE PhaseInv'
    <2>1. /\ UNCHANGED file /\ pc[h] = "copy"
          /\ \/ UNCHANGED pc \/ Restart
             \/ \E l \in {"failing", "put"} : pc' = [pc EXCEPT ![h] = l]
      BY <1>16 DEF CopyChunk
    <2> QED
      BY <1>12, <1>14, <1>15, <2>1 DEF AssemblyPcs
  <1>17. ASSUME NEW h \in Handlers, FinishAssembly(h) \/ DeleteChunks(h) \/ CreateVersion(h)
         PROVE  PhaseInv'
    <2>1. /\ UNCHANGED file /\ pc[h] \in AssemblyPcs
          /\ \E l \in AssemblyPcs \cup {"failing"} : pc' = [pc EXCEPT ![h] = l]
      BY <1>17 DEF FinishAssembly, DeleteChunks, CreateVersion, AssemblyPcs
    <2> QED
      BY <1>12, <2>1
  <1>18. ASSUME NEW h \in Handlers, PublishVersion(h) PROVE PhaseInv'
    <2>1. pc[h] = "publish" /\ pc[h] \in CompletePcs /\ pc[h] \in Claimed
      BY <1>18, PcFacts DEF PublishVersion
    <2>2. CASE pc' = [pc EXCEPT ![h] = "failing"] /\ UNCHANGED file
      BY <1>12, <2>1, <2>2 DEF AssemblyPcs
    <2>3. CASE /\ file' = [file EXCEPT !.status = "COMPLETED", !.current = job[h].next]
               /\ pc' = [pc EXCEPT ![h] = "pointer"]
      <3>1. file'.status = "COMPLETED"
        BY <1>t, <2>3 DEF FileType
      <3>2. "pointer" \in Pcs /\ "pointer" \in CompletePcs /\ Fits("pointer", file'.status)
        BY <3>1, PcFacts DEF Fits, UploadPcs, AssemblyPcs
      <3> QED
        BY <1>10, <2>1, <2>3, <3>2, PhaseStep
    <2> QED
      BY <1>18, <2>2, <2>3 DEF PublishVersion
  <1>19. ASSUME NEW h \in Handlers, SetPointer(h) \/ Announce(h) PROVE PhaseInv'
    <2>1. /\ UNCHANGED file /\ pc[h] \in {"pointer", "announce"}
          /\ \E l \in {"announce", "idle", "failing"} : pc' = [pc EXCEPT ![h] = l]
      BY <1>19 DEF SetPointer, Announce
    <2>2. ASSUME NEW l \in {"announce", "failing"}, pc' = [pc EXCEPT ![h] = l] PROVE PhaseInv'
      <3>1. l \in Pcs /\ l \in Claimed /\ pc[h] \in Claimed
        BY <2>1, PcFacts
      <3>2. Fits(l, file.status)
        BY <1>f, <2>1 DEF Fits, UploadPcs, AssemblyPcs
      <3> QED
        BY <1>6, <2>1, <2>2, <3>1, <3>2
    <2> QED
      BY <1>7, <2>1, <2>2
  <1>20. ASSUME NEW h \in Handlers, MarkFailed(h) PROVE PhaseInv'
    <2>1. pc[h] = "failing" /\ pc[h] \in CompletePcs /\ pc[h] \in Claimed
          /\ pc' = [pc EXCEPT ![h] = "idle"] /\ "idle" \notin Claimed
      BY <1>20, PcFacts DEF MarkFailed
    <2> QED
      BY <1>10, <1>i, <2>1, PhaseStep
  <1>21. ASSUME NEW h \in Handlers, RemoveObjects(h) PROVE PhaseInv'
    <2>1. CASE pc' = [pc EXCEPT ![h] = "rmRow"]
      <3>1. "rmRow" \in Pcs /\ Fits("rmRow", file.status) /\ "rmRow" \in RemovePcs
        BY PcFacts DEF Fits, UploadPcs, AssemblyPcs, RemovePcs
      <3> QED
        BY <1>6, <1>21, <2>1, <3>1 DEF RemoveObjects, RemovePcs
    <2> QED
      BY <1>7, <1>21, <2>1 DEF RemoveObjects
  <1>22. ASSUME NEW h \in Handlers, RemoveRow(h) PROVE PhaseInv'
    <2>1. \A g \in Handlers \ {h} : pc[g] = "idle"
      BY <1>22 DEF RemoveRow, PhaseInv, OnePhase, Alone, RemovePcs
    <2> QED
      BY <1>22, <1>i, <2>1, PhaseAlone DEF RemoveRow
  <1>23. ASSUME NEW h \in Handlers, InitChunkRows(h) PROVE PhaseInv'
    BY <1>7, <1>23 DEF InitChunkRows
  <1>24. CASE UNCHANGED vars
    BY <1>15, <1>24 DEF vars
  <1>25. CASE Crash
    BY <1>14, <1>25 DEF Crash
  <1> QED
    BY <1>1, <1>2, <1>3, <1>4, <1>5, <1>8, <1>9, <1>11, <1>13, <1>16, <1>17, <1>18, <1>19,
       <1>20, <1>21, <1>22, <1>23, <1>24, <1>25 DEF Next, Begin, Continue

LEMMA PhaseInvInit == Init => PhaseInv
  BY PcFacts DEF Init, PhaseInv, OnePhase, OneClaim, StatusFits, Fits, UploadPcs, AssemblyPcs,
     Alone, RemovePcs

LEMMA PhaseInvAlways == Orderly /\ Spec => []PhaseInv
  <1> SUFFICES ASSUME Orderly PROVE Spec => []PhaseInv
    OBVIOUS
  <1>1. TypeInv /\ SafeInv /\ PhaseInv /\ [Next]_vars => PhaseInv'
    BY PhaseInvNext
  <1> QED
    BY <1>1, PhaseInvInit, TypeInvAlways, SafeInvAlways, PTL DEF Spec

\* With an orderly client only one request at a time assembles the file: the
\* conditional updateMany of completeUpload picks it, and nothing takes the status
\* from it before it is done.
THEOREM UploadExclusive == Orderly /\ Spec => []ExclusiveAssembly
  <1>1. PhaseInv => ExclusiveAssembly
    BY PcFacts DEF PhaseInv, OneClaim, ExclusiveAssembly, AssemblyPcs
  <1> QED
    BY <1>1, PhaseInvAlways, PTL

-----------------------------------------------------------------------------
(* An orderly client: version numbers                                      *)

Rows == {n \in Versions : RowExists(n)}

\* The rows are 1 .. m; the number a completion holds is the next one until it has
\* created its row, and the highest one from then on.
RowsCounted == \E m \in Nat : Rows = 1 .. m
NumberIsNext ==
    \A h \in Handlers : pc[h] \in Holding => job[h].next \in Versions /\ IsHighest(job[h].next - 1)
NumberIsHighest ==
    \A h \in Handlers : pc[h] = "publish" => job[h].next \in Versions /\ IsHighest(job[h].next)
CurrentExists == file.current # 0 => RowExists(file.current)

NumberInv == RowsCounted /\ NumberIsNext /\ NumberIsHighest /\ CurrentExists /\ CurrentIsLatest

\* No row, no number and no current version changes.
LEMMA NumberQuiet ==
  ASSUME NumberInv, UNCHANGED versions, file'.current = file.current,
         file'.status = "COMPLETED" => file.status = "COMPLETED",
         \A g \in Handlers :
             pc'[g] \in Holding \cup {"publish"} =>
                /\ job'[g].next = job[g].next
                /\ pc'[g] = "publish" => pc[g] = "publish"
                /\ pc'[g] \in Holding => pc[g] \in Holding
  PROVE  NumberInv'
  <1>1. RowsCounted'
    <2>1. Rows' = Rows
      BY DEF Rows, RowExists
    <2> QED
      BY <2>1 DEF NumberInv, RowsCounted
  <1>2. NumberIsNext' /\ NumberIsHighest'
    BY DEF NumberInv, NumberIsNext, NumberIsHighest, IsHighest, RowExists, Holding
  <1>3. CurrentExists' /\ CurrentIsLatest'
    BY DEF NumberInv, CurrentExists, CurrentIsLatest, IsHighest, RowExists
  <1> QED
    BY <1>1, <1>2, <1>3 DEF NumberInv

LEMMA NumberMove ==
  ASSUME TypeInv, NumberInv, NEW h \in Handlers, UNCHANGED versions,
         file'.current = file.current, file'.status = "COMPLETED" => file.status = "COMPLETED",
         \E l \in Pcs : /\ pc' = [pc EXCEPT ![h] = l]
                        /\ \/ l \notin Holding \cup {"publish"}
                           \/ l \in Holding /\ pc[h] \in Holding /\ job' = job,
         \A g \in Handlers \ {h} : job'[g] = job[g]
  PROVE  NumberInv'
  <1>1. \A g \in Handlers :
             pc'[g] \in Holding \cup {"publish"} =>
                /\ job'[g].next = job[g].next
                /\ pc'[g] = "publish" => pc[g] = "publish"
                /\ pc'[g] \in Holding => pc[g] \in Holding
    BY DEF TypeInv, TypeOK, Holding
  <1> QED
    BY <1>1, NumberQuiet

LEMMA NumberActions ==
  ASSUME TypeInv, NumberInv, NEW h \in Handlers,
         \/ InitChunkRows(h) \/ ReadChunkRow(h) \/ PutChunk(h) \/ CommitChunk(h)
         \/ CompleteUpload(h) \/ Claim(h) \/ FinishAssembly(h) \/ DeleteChunks(h)
         \/ SetPointer(h) \/ Announce(h) \/ MarkFailed(h) \/ RemoveFile(h) \/ RemoveObjects(h)
         \/ \E p \in Payloads : \E i \in 0 .. ChunksOf[p] - 1 : UploadChunk(h, p, i)
         \/ \E p \in Payloads, name \in Names, mime \in Mimes : InitUpload(h, p, name, mime)
  PROVE  NumberInv'
  <1>t. job \in [Handlers -> JobType] /\ file \in FileType
    BY DEF TypeInv, TypeOK
  <1> USE DEF At, Goto, Return
  <1>p. /\ {"idle", "initRows", "chunkRow", "chunkPut", "chunkCommit", "claim", "allocate",
            "pointer", "announce", "failing", "rmObjects", "rmRow"}
              \subseteq Pcs \ (Holding \cup {"publish"})
        /\ {"put", "cleanup", "create"} \subseteq Pcs \cap Holding
    BY PcFacts DEF Holding
  <1>1. CASE InitChunkRows(h)
    BY <1>t, <1>p, <1>1, NumberMove DEF InitChunkRows
  <1>2. CASE ReadChunkRow(h)
    BY <1>t, <1>p, <1>2, NumberMove DEF ReadChunkRow
  <1>3. CASE PutChunk(h)
    BY <1>t, <1>p, <1>3, NumberMove DEF PutChunk
  <1>4. CASE CommitChunk(h)
    <2>1. file'.current = file.current /\ (file'.status = "COMPLETED" => file.status = "COMPLETED")
      BY <1>t, <1>4 DEF CommitChunk, FileType
    <2> QED
      BY <1>t, <1>p, <1>4, <2>1, NumberMove DEF CommitChunk
  <1>5. CASE CompleteUpload(h)
    BY <1>t, <1>p, <1>5, NumberMove DEF CompleteUpload
  <1>6. CASE Claim(h)
    <2>1. file'.current = file.current /\ (file'.status = "COMPLETED" => file.status = "COMPLETED")
      BY <1>t, <1>6 DEF Claim, FileType
    <2> QED
      BY <1>t, <1>p, <1>6, <2>1, NumberMove DEF Claim
  <1>7. CASE FinishAssembly(h)
    BY <1>t, <1>p, <1>7, NumberMove DEF FinishAssembly
  <1>8. CASE DeleteChunks(h)
    BY <1>t, <1>p, <1>8, NumberMove DEF DeleteChunks
  <1>9. CASE SetPointer(h)
    BY <1>t, <1>p, <1>9, NumberMove DEF SetPointer
  <1>10. CASE Announce(h)
    BY <1>t, <1>p, <1>10, NumberMove DEF Announce
  <1>11. CASE MarkFailed(h)
    <2>1. file'.current = file.current /\ (file'.status = "COMPLETED" => file.status = "COMPLETED")
      BY <1>t, <1>11 DEF MarkFailed, FileType
    <2> QED
      BY <1>t, <1>p, <1>11, <2>1, NumberMove DEF MarkFailed
  <1>12. CASE RemoveFile(h)
    BY <1>t, <1>p, <1>12, NumberMove DEF RemoveFile
  <1>13. CASE RemoveObjects(h)
    BY <1>t, <1>p, <1>13, NumberMove DEF RemoveObjects
  <1>14. ASSUME NEW p \in Payloads, NEW i \in 0 .. ChunksOf[p] - 1, UploadChunk(h, p, i)
         PROVE NumberInv'
    BY <1>t, <1>p, <1>14, NumberMove DEF UploadChunk
  <1>15. ASSUME NEW p \in Payloads, NEW name \in Names, NEW mime \in Mimes,
                InitUpload(h, p, name, mime)
         PROVE NumberInv'
    <2>1. file'.current = file.current /\ file'.status = "PENDING"
      BY <1>t, <1>15 DEF InitUpload, SessionOf, FileType
    <2> QED
      BY <1>t, <1>p, <1>15, <2>1, NumberMove DEF InitUpload
  <1> QED
    BY <1>1, <1>2, <1>3, <1>4, <1>5, <1>6, <1>7, <1>8, <1>9, <1>10, <1>11, <1>12, <1>13, <1>14,
       <1>15

\* The highest number is how many rows there are.
LEMMA HighestIsCount ==
  ASSUME RowsCounted, NEW m \in Nat, IsHighest(m), m \in {0} \cup Versions
  PROVE  Rows = 1 .. m
  <1>1. PICK k \in Nat : Rows = 1 .. k
    BY DEF RowsCounted
  <1>2. m = 0 \/ m \in Rows
    BY DEF IsHighest, Rows
  <1>3. \A n \in Rows : n <= m
    BY DEF IsHighest, Rows
  <1>4. m <= k
    BY <1>1, <1>2
  <1>5. k = 0 \/ k \in Rows
    BY <1>1
  <1>6. k <= m
    BY <1>3, <1>5
  <1> QED
    BY <1>1, <1>4, <1>6

LEMMA NumberInvNext ==
  ASSUME TypeInv, SafeInv, PhaseInv, NumberInv, [Next]_vars, Orderly
  PROVE  NumberInv'
  <1>t. pc \in [Handlers -> Pcs] /\ job \in [Handlers -> JobType] /\ file \in FileType
        /\ versions \in [Versions -> VersionType]
    BY DEF TypeInv, TypeOK
  <1>1. ASSUME NEW h \in Handlers, NEW p \in Payloads, NEW name \in Names, NEW mime \in Mimes,
               InitVersionUpload(h, p, name, mime)
        PROVE NumberInv'
    <2>1. file'.current = file.current /\ file'.status = "PENDING"
      BY <1>t, <1>1 DEF InitVersionUpload, SessionOf, FileType
    <2> QED
      BY <1>1, <2>1, NumberQuiet DEF InitVersionUpload
  <1>2. ASSUME UNCHANGED <<versions, file>>, Restart PROVE NumberInv'
    <2>1. \A g \in Handlers : pc'[g] \notin Holding \cup {"publish"}
      BY <1>2 DEF Restart, Holding
    <2> QED
      BY <1>2, <2>1, NumberQuiet
  <1>3. ASSUME NEW h \in Handlers, CopyChunk(h) PROVE NumberInv'
    <2>1. UNCHANGED <<versions, file>> /\ pc[h] = "copy"
      BY <1>3 DEF CopyChunk, At
    <2>2. CASE Restart
      BY <1>2, <2>1, <2>2
    <2>3. CASE ~Restart
      <3>2. \A g \in Handlers \ {h} : job'[g] = job[g] /\ pc'[g] = pc[g]
        BY <1>3, <1>t, <2>3 DEF CopyChunk, Goto
      <3>3. pc'[h] \in {"copy", "put", "failing"}
        BY <1>3, <1>t, <2>1, <2>3 DEF CopyChunk, Goto
      <3>4. job'[h].next = job[h].next
        BY <1>3, <1>t, <2>3 DEF CopyChunk, JobType
      <3> QED
        BY <2>1, <3>2, <3>3, <3>4, NumberQuiet DEF Holding
    <2> QED
      BY <2>2, <2>3
  <1>4. ASSUME NEW h \in Handlers, pc[h] \in Claimed
        PROVE  \A g \in Handlers \ {h} : pc[g] \notin Holding \cup {"publish"}
    BY <1>4, PcFacts DEF PhaseInv, OneClaim, Holding
  <1>5. ASSUME NEW h \in Handlers, AllocateVersion(h) PROVE NumberInv'
    <2>1. UNCHANGED <<versions, file>> /\ pc[h] = "allocate"
      BY <1>5 DEF AllocateVersion, At
    <2>2. CASE Return(h)
      <3>1. "idle" \in Pcs \ (Holding \cup {"publish"})
        BY PcFacts DEF Holding
      <3> QED
        BY <1>t, <2>1, <2>2, <3>1, NumberMove DEF Return
    <2>3. ASSUME NEW m \in {0} \cup Versions, IsHighest(m), m + 1 \in Versions,
                 job' = [job EXCEPT ![h].next = m + 1], Goto(h, "copy")
          PROVE  NumberInv'
      <3>1. job'[h].next = m + 1 /\ pc'[h] = "copy" /\ \A g \in Handlers \ {h} : pc'[g] = pc[g]
        BY <1>t, <2>3 DEF JobType, Goto
      <3>2. \A g \in Handlers \ {h} : pc'[g] \notin Holding \cup {"publish"}
        BY <1>4, <2>1, <3>1, PcFacts
      <3>3. (m + 1) - 1 = m
        BY DEF Versions
      <3>4. IsHighest(m)'
        BY <2>1, <2>3 DEF IsHighest, RowExists
      <3>5. NumberIsNext'
        BY <2>3, <3>1, <3>2, <3>3, <3>4 DEF NumberIsNext, IsHighest, RowExists
      <3>6. NumberIsHighest'
        BY <3>1, <3>2 DEF NumberIsHighest
      <3>7. Rows' = Rows
        BY <2>1 DEF Rows, RowExists
      <3>8. RowsCounted' /\ CurrentExists' /\ CurrentIsLatest'
        BY <2>1, <3>7
           DEF NumberInv, RowsCounted, CurrentExists, CurrentIsLatest, IsHighest, RowExists
      <3> QED
        BY <3>5, <3>6, <3>8 DEF NumberInv
    <2> QED
      BY <1>5, <2>2, <2>3 DEF AllocateVersion, NextVersionNumber
  <1>6. ASSUME NEW h \in Handlers, CreateVersion(h) PROVE NumberInv'
    <2>1. UNCHANGED <<file, job>> /\ pc[h] = "create" /\ pc[h] \in Claimed
      BY <1>6, PcFacts DEF CreateVersion, At
    <2>2. CASE UNCHANGED versions /\ Goto(h, "failing")
      <3>1. "failing" \in Pcs \ (Holding \cup {"publish"})
        BY PcFacts DEF Holding
      <3> QED
        BY <2>1, <2>2, <3>1, NumberMove DEF Goto
    <2>3. CASE /\ versions' = [versions EXCEPT ![job[h].next] =
                                 [checksum |-> job[h].payload, name |-> job[h].name]]
               /\ Goto(h, "publish")
      <3>0. PICK n : n = job[h].next
        OBVIOUS
      <3>1. n \in Versions /\ IsHighest(n - 1) /\ n \in Nat \ {0} /\ n - 1 \in Nat
            /\ n - 1 \in {0} \cup Versions
        BY <2>1, <3>0, UploadAssumption DEF NumberInv, NumberIsNext, Holding, Versions
      <3>2. job[h].name \in Names /\ job[h].name # None
        BY <2>1, UploadAssumption DEF TypeInv, JobsNamed, CompletePcs, AssemblyPcs
      <3>3. versions'[n] # NoVersion /\ \A m \in Versions \ {n} : versions'[m] = versions[m]
        BY <1>t, <2>3, <3>0, <3>1, <3>2 DEF NoVersion
      <3>4. Rows = 1 .. (n - 1)
        BY <3>1, HighestIsCount DEF NumberInv
      <3>5. Rows' = Rows \cup {n}
        BY <3>1, <3>3 DEF Rows, RowExists
      <3>6. Rows' = 1 .. n
        BY <3>1, <3>4, <3>5
      <3>7. RowsCounted'
        BY <3>1, <3>6 DEF RowsCounted
      <3>8. pc'[h] = "publish" /\ \A g \in Handlers \ {h} : pc'[g] = pc[g]
        BY <1>t, <2>3 DEF Goto
      <3>9. \A g \in Handlers \ {h} : pc'[g] \notin Holding \cup {"publish"}
        BY <1>4, <2>1, <3>8
      <3>10. versions'[n] # NoVersion /\ \A m \in Versions : versions'[m] # NoVersion => m <= n
        BY <3>1, <3>3, <3>6 DEF Rows, RowExists
      <3>11. NumberIsNext' /\ NumberIsHighest'
        BY <2>1, <3>0, <3>1, <3>8, <3>9, <3>10
           DEF NumberIsNext, NumberIsHighest, IsHighest, RowExists, Holding
      <3>12. CurrentExists'
        BY <2>1, <1>t, <3>3 DEF NumberInv, CurrentExists, RowExists, FileType
      <3>13. CurrentIsLatest'
        <4>1. file.status = "ASSEMBLING"
          BY <2>1 DEF PhaseInv, StatusFits, Fits, AssemblyPcs
        <4> QED
          BY <2>1, <4>1 DEF CurrentIsLatest
      <3> QED
        BY <3>7, <3>11, <3>12, <3>13 DEF NumberInv
    <2> QED
      BY <1>6, <2>2, <2>3 DEF CreateVersion
  <1>7. ASSUME NEW h \in Handlers, PublishVersion(h) PROVE NumberInv'
    <2>1. UNCHANGED <<versions, job>> /\ pc[h] = "publish" /\ pc[h] \in Claimed
      BY <1>7, PcFacts DEF PublishVersion, At
    <2>2. CASE Goto(h, "failing") /\ UNCHANGED file
      <3>1. "failing" \in Pcs \ (Holding \cup {"publish"})
        BY PcFacts DEF Holding
      <3> QED
        BY <2>1, <2>2, <3>1, NumberMove DEF Goto
    <2>3. CASE /\ file' = [file EXCEPT !.status = "COMPLETED", !.current = job[h].next]
               /\ Goto(h, "pointer")
      <3>1. job[h].next \in Versions /\ IsHighest(job[h].next)
        BY <2>1 DEF NumberInv, NumberIsHighest
      <3>2. file'.current = job[h].next
        BY <1>t, <2>3 DEF FileType
      <3>3. CurrentExists' /\ CurrentIsLatest'
        <4>1. job[h].next # 0
          BY <3>1 DEF Versions
        <4>2. RowExists(job[h].next)
          BY <3>1, <4>1 DEF IsHighest
        <4> QED
          BY <2>1, <3>1, <3>2, <4>2 DEF CurrentExists, CurrentIsLatest, IsHighest, RowExists
      <3>4. \A g \in Handlers : pc'[g] \notin Holding \cup {"publish"}
        BY <1>4, <1>t, <2>1, <2>3 DEF Goto, Holding
      <3>5. Rows' = Rows
        BY <2>1 DEF Rows, RowExists
      <3> QED
        BY <3>3, <3>4, <3>5 DEF NumberInv, RowsCounted, NumberIsNext, NumberIsHighest
    <2> QED
      BY <1>7, <2>2, <2>3 DEF PublishVersion
  <1>8. ASSUME NEW h \in Handlers, RemoveRow(h) PROVE NumberInv'
    <2>0. pc' = [pc EXCEPT ![h] = "idle"] /\ job' = [job EXCEPT ![h] = NoJob]
      BY <1>8 DEF RemoveRow, Return
    <2>1. CASE UNCHANGED <<file, versions>>
      <3>1. "idle" \in Pcs \ (Holding \cup {"publish"})
        BY PcFacts DEF Holding
      <3> QED
        BY <1>t, <2>0, <2>1, <3>1, NumberMove
    <2>2. CASE /\ file' = [NoFile EXCEPT !.status = "DELETED"]
               /\ versions' = [n \in Versions |-> NoVersion]
      <3>1. file'.status = "DELETED" /\ file'.current = 0
        BY <2>2 DEF NoFile
      <3>2. Rows' = {}
        BY <2>2 DEF Rows, RowExists
      <3>3. RowsCounted'
        <4>1. Rows' = 1 .. 0
          BY <3>2
        <4> QED
          BY <4>1 DEF RowsCounted
      <3>4. \A g \in Handlers : pc'[g] = "idle"
        BY <1>8, <1>t, <2>0 DEF RemoveRow, At, PhaseInv, OnePhase, Alone, RemovePcs
      <3> QED
        BY <3>1, <3>3, <3>4
           DEF NumberInv, NumberIsNext, NumberIsHighest, CurrentExists, CurrentIsLatest, Holding
    <2> QED
      BY <1>8, <2>1, <2>2 DEF RemoveRow
  <1>9. CASE Crash
    BY <1>2, <1>9 DEF Crash
  <1>10. CASE UNCHANGED vars
    BY <1>10, NumberQuiet DEF vars
  <1> QED
    BY <1>1, <1>3, <1>5, <1>6, <1>7, <1>8, <1>9, <1>10, NumberActions DEF Next, Begin, Continue

LEMMA NumberInvAlways == Orderly /\ Spec => []NumberInv
  <1> SUFFICES ASSUME Orderly PROVE Spec => []NumberInv
    OBVIOUS
  <1>1. Init => NumberInv
    <2> SUFFICES ASSUME Init PROVE NumberInv
      OBVIOUS
    <2>1. Rows = {}
      BY DEF Init, Rows, RowExists
    <2>2. RowsCounted
      <3>1. Rows = 1 .. 0
        BY <2>1
      <3> QED
        BY <3>1 DEF RowsCounted
    <2> QED
      BY <2>2 DEF Init, NoFile, NumberInv, NumberIsNext, NumberIsHighest, CurrentExists,
         CurrentIsLatest, Holding
  <1>2. TypeInv /\ SafeInv /\ PhaseInv /\ NumberInv /\ [Next]_vars => NumberInv'
    BY NumberInvNext
  <1> QED
    BY <1>1, <1>2, TypeInvAlways, SafeInvAlways, PhaseInvAlways, PTL DEF Spec

\* With an orderly client the current version of a COMPLETED file is the highest one,
\* whatever completions failed, were retried or were cut off before.
THEOREM UploadCurrentIsLatest == Orderly /\ Spec => []CurrentIsLatest
  BY NumberInvAlways, PTL DEF NumberInv

\* With an orderly client the file status only moves along the life cycle, and the
\* current version never goes back: no late chunk, late completion or failure handler
\* undoes what a later request has done.
THEOREM UploadLifecycle == Orderly /\ Spec => StatusFollowsLifecycle
  <1> SUFFICES ASSUME Orderly PROVE Spec => StatusFollowsLifecycle
    OBVIOUS
  <1> DEFINE Moves == /\ <<file.status, file'.status>> \in Lifecycle \/ file'.status = file.status
                      /\ file'.status # "DELETED" => file'.current >= file.current
  <1>1. ASSUME TypeInv, SafeInv, PhaseInv, NumberInv, [Next]_vars PROVE [Moves]_file
    <2>t. /\ file \in FileType /\ file.status \in Statuses /\ file.current \in {0} \cup Versions
          /\ file.current \in Nat
      BY <1>1, UploadAssumption DEF TypeInv, TypeOK, FileType, Versions
    <2>f. \A h \in Handlers : Fits(pc[h], file.status)
      BY <1>1 DEF PhaseInv, StatusFits
    <2>1. ASSUME NEW h \in Handlers, NEW p \in Payloads, NEW name \in Names, NEW mime \in Mimes,
                 InitUpload(h, p, name, mime) \/ InitVersionUpload(h, p, name, mime)
          PROVE  Moves
      <3>1. file'.status = "PENDING" /\ file'.current = file.current
        BY <2>1, <2>t DEF InitUpload, InitVersionUpload, SessionOf, FileType
      <3> QED
        BY <2>t, <3>1 DEF Lifecycle
    <2>2. ASSUME NEW h \in Handlers, CommitChunk(h) PROVE [Moves]_file
      <3>1. file.status \in {"PENDING", "UPLOADING"}
        BY <2>f, <2>2 DEF CommitChunk, At, Fits, UploadPcs
      <3>2. UNCHANGED file \/ (file'.status = "UPLOADING" /\ file'.current = file.current)
        BY <2>2, <2>t DEF CommitChunk, FileType
      <3> QED
        BY <2>t, <3>1, <3>2 DEF Lifecycle
    <2>3. ASSUME NEW h \in Handlers, Claim(h) PROVE [Moves]_file
      <3>1. UNCHANGED file \/ (/\ file.status \in {"PENDING", "UPLOADING"}
                               /\ file'.status = "ASSEMBLING" /\ file'.current = file.current)
        BY <2>3, <2>t DEF Claim, Claimable, FileType
      <3> QED
        BY <2>t, <3>1 DEF Lifecycle
    <2>4. ASSUME NEW h \in Handlers, PublishVersion(h) PROVE [Moves]_file
      <3>1. pc[h] = "publish" /\ file.status = "ASSEMBLING"
        BY <2>4, <2>f DEF PublishVersion, At, Fits, AssemblyPcs
      <3>2. job[h].next \in Nat /\ file.current <= job[h].next
        <4>1. job[h].next \in Versions /\ IsHighest(job[h].next)
          BY <1>1, <3>1 DEF NumberInv, NumberIsHighest
        <4>2. file.current # 0 => RowExists(file.current)
          BY <1>1 DEF NumberInv, CurrentExists
        <4> QED
          BY <2>t, <4>1, <4>2, UploadAssumption DEF IsHighest, Versions
      <3>3. UNCHANGED file \/ (file'.status = "COMPLETED" /\ file'.current = job[h].next)
        BY <2>4, <2>t DEF PublishVersion, FileType
      <3> QED
        BY <2>t, <3>1, <3>2, <3>3 DEF Lifecycle
    <2>5. ASSUME NEW h \in Handlers, MarkFailed(h) PROVE [Moves]_file
      <3>1. UNCHANGED file \/ (/\ file.status = "ASSEMBLING" /\ file'.status = "FAILED"
                               /\ file'.current = file.current)
        BY <2>5, <2>t DEF MarkFailed, FileType
      <3> QED
        BY <2>t, <3>1 DEF Lifecycle
    <2>6. ASSUME NEW h \in Handlers, RemoveRow(h) PROVE [Moves]_file
      <3>1. UNCHANGED file \/ file'.status = "DELETED"
        BY <2>6 DEF RemoveRow, NoFile
      <3> QED
        BY <2>t, <3>1 DEF Lifecycle
    <2>7. ASSUME NEW h \in Handlers,
                 \/ CompleteUpload(h) \/ RemoveFile(h) \/ InitChunkRows(h) \/ ReadChunkRow(h)
                 \/ PutChunk(h) \/ AllocateVersion(h) \/ CopyChunk(h) \/ FinishAssembly(h)
                 \/ DeleteChunks(h) \/ CreateVersion(h) \/ SetPointer(h) \/ Announce(h)
                 \/ RemoveObjects(h)
                 \/ \E p \in Payloads : \E i \in 0 .. ChunksOf[p] - 1 : UploadChunk(h, p, i)
          PROVE  UNCHANGED file
      BY <2>7 DEF CompleteUpload, RemoveFile, InitChunkRows, ReadChunkRow, PutChunk,
         AllocateVersion, CopyChunk, FinishAssembly, DeleteChunks, CreateVersion, SetPointer,
         Announce, RemoveObjects, UploadChunk
    <2>8. ASSUME Crash \/ UNCHANGED vars PROVE UNCHANGED file
      BY <2>8 DEF Crash, vars
    <2> HIDE DEF Moves
    <2> QED
      BY <1>1, <2>1, <2>2, <2>3, <2>4, <2>5, <2>6, <2>7, <2>8 DEF Next, Begin, Continue
  <1>2. TypeInv /\ SafeInv /\ PhaseInv /\ NumberInv /\ [Next]_vars =>
          [/\ <<file.status, file'.status>> \in Lifecycle \/ file'.status = file.status
           /\ file'.status # "DELETED" => file'.current >= file.current]_file
    BY <1>1
  <1> QED
    BY <1>2, TypeInvAlways, SafeInvAlways, PhaseInvAlways, NumberInvAlways, PTL
       DEF Spec, StatusFollowsLifecycle

-----------------------------------------------------------------------------
(* An orderly client: what the versions hold                               *)

\* The bytes of a payload, as assembly joins its chunks.
Whole(p) == [i \in 1 .. ChunksOf[p] |-> p]

\* The chunk rows are those of the session; a chunk that counts as VERIFIED in it was
\* stored by it, unless an assembly has deleted it again.
RowsOfSession ==
    /\ file.status \in Gone => \A i \in Indices : rows[i] = "NONE"
    /\ file.status \notin Gone => \A i \in Indices : rows[i] # "NONE" => i < Total
VerifiedStored ==
    file.status \in {"PENDING", "UPLOADING"} =>
        \A i \in Indices : rows[i] = "VERIFIED" => chunkObj[i] \in {None, file.checksum}
VersionsWhole ==
    ~purged => \A n \in Versions : RowExists(n) =>
        versions[n].checksum \in Payloads /\ objects[KeyOf(n)] = Whole(versions[n].checksum)
SharedInv == RowsOfSession /\ VerifiedStored /\ VersionsWhole

\* What a handler works on is of the session it began in, and what it has read or
\* written so far is of its payload only.
Sound(h) ==
    LET p == job[h].payload IN
    /\ pc[h] \in {"idle", "claim", "allocate"} => job[h].parts = << >>
    /\ pc[h] \in UploadPcs \cup {"initRows", "claim"} => p = file.checksum
    /\ pc[h] \in UploadPcs => job[h].idx \in Indices
    /\ pc[h] = "chunkCommit" => chunkObj[job[h].idx] \in {None, p}
    /\ pc[h] = "claim" => \A i \in Indices : i < ChunksOf[p] => rows[i] = "VERIFIED"
    /\ pc[h] \in {"allocate", "copy"} =>
          \A i \in Indices : i < ChunksOf[p] => chunkObj[i] \in {None, p}
    /\ pc[h] = "copy" => /\ Len(job[h].parts) <= ChunksOf[p]
                         /\ \A i \in 1 .. Len(job[h].parts) : job[h].parts[i] = p
    /\ pc[h] = "put" => job[h].parts = Whole(p)
    /\ pc[h] \in {"cleanup", "create"} /\ ~purged => objects[DestinationKey(h)] = Whole(p)
    /\ pc[h] = "rmRow" => purged

ContentInv == SharedInv /\ \A h \in Handlers : Sound(h)

LEMMA SoundIdle ==
  ASSUME NEW g \in Handlers, pc'[g] = "idle", job'[g].parts = << >>
  PROVE  Sound(g)'
  BY DEF Sound, UploadPcs

LEMMA SoundUnread ==
  ASSUME NEW g \in Handlers,
         pc'[g] \in {"publish", "pointer", "announce", "failing", "rmObjects"}
  PROVE  Sound(g)'
  BY DEF Sound, UploadPcs

\* A handler that does not move stays sound when chunks are deleted or written by
\* its own session, more chunks are verified, and objects are written elsewhere.
LEMMA SoundKept ==
  ASSUME TypeInv, NEW g \in Handlers, Sound(g), pc'[g] = pc[g], job'[g] = job[g],
         pc[g] # "idle" => file'.checksum = file.checksum,
         pc[g] = "claim" => \A i \in Indices : rows[i] = "VERIFIED" => rows'[i] = "VERIFIED",
         pc[g] \in {"chunkCommit", "allocate", "copy"} =>
             \A i \in Indices : chunkObj'[i] \in {None, chunkObj[i], job[g].payload},
         pc[g] \in {"cleanup", "create"} /\ ~purged' => objects' = objects,
         purged => purged'
  PROVE  Sound(g)'
  <1>1. pc[g] = "chunkCommit" => job[g].idx \in Indices
    BY DEF Sound, UploadPcs
  <1> QED
    BY <1>1 DEF Sound, UploadPcs, DestinationKey

\* No row, no object and no version changes, and chunks only as in SoundKept.
LEMMA SharedKept ==
  ASSUME SharedInv, UNCHANGED <<rows, versions, objects>>, purged => purged',
         file'.checksum = file.checksum, file.status \in Gone <=> file'.status \in Gone,
         file'.status \in {"PENDING", "UPLOADING"} => file.status \in {"PENDING", "UPLOADING"},
         \A i \in Indices : chunkObj'[i] \in {None, chunkObj[i], file.checksum}
  PROVE  SharedInv'
  <1>1. RowsOfSession'
    BY DEF SharedInv, RowsOfSession, Total
  <1>2. VerifiedStored'
    BY DEF SharedInv, VerifiedStored
  <1>3. VersionsWhole'
    BY DEF SharedInv, VersionsWhole, RowExists, KeyOf, Whole
  <1> QED
    BY <1>1, <1>2, <1>3 DEF SharedInv

\* One handler moves; nothing that the others rely on changes.
LEMMA ContentMove ==
  ASSUME TypeInv, ContentInv, NEW h \in Handlers, Sound(h)',
         \A g \in Handlers \ {h} : pc'[g] = pc[g] /\ job'[g] = job[g],
         UNCHANGED <<rows, chunkObj, versions, objects, purged>>,
         file'.checksum = file.checksum, file.status \in Gone <=> file'.status \in Gone,
         file'.status \in {"PENDING", "UPLOADING"} => file.status \in {"PENDING", "UPLOADING"}
  PROVE  ContentInv'
  <1>1. SharedInv'
    BY SharedKept DEF ContentInv
  <1>2. ASSUME NEW g \in Handlers \ {h} PROVE Sound(g)'
    BY <1>2, SoundKept DEF ContentInv
  <1> QED
    BY <1>1, <1>2 DEF ContentInv

\* A handler that returns starts over with an empty job.
LEMMA ReturnSound ==
  ASSUME TypeInv, NEW h \in Handlers, Return(h)
  PROVE  /\ Sound(h)'
         /\ \A g \in Handlers \ {h} : pc'[g] = pc[g] /\ job'[g] = job[g]
  <1>1. pc'[h] = "idle" /\ job'[h] = NoJob
    BY DEF Return, TypeInv, TypeOK
  <1>2. job'[h].parts = << >>
    BY <1>1 DEF NoJob
  <1>3. Sound(h)'
    BY <1>1, <1>2, SoundIdle
  <1>4. \A g \in Handlers \ {h} : pc'[g] = pc[g] /\ job'[g] = job[g]
    BY DEF Return, TypeInv, TypeOK
  <1> QED
    BY <1>3, <1>4

LEMMA IndexOfChunk ==
  ASSUME NEW p \in Payloads
  PROVE  ChunksOf[p] \in Nat \ {0} /\ \A i \in 0 .. ChunksOf[p] - 1 : i \in Indices
  BY UploadAssumption DEF Indices

LEMMA IndicesAreNumbers == \A i \in Indices : i \in Nat
  BY UploadAssumption DEF Indices

LEMMA ContentUpload ==
  ASSUME Orderly, TypeInv, ContentInv, NEW h \in Handlers,
         \/ \E p \in Payloads : \E i \in 0 .. ChunksOf[p] - 1 : UploadChunk(h, p, i)
         \/ ReadChunkRow(h)
  PROVE  ContentInv'
  <1>t. pc \in [Handlers -> Pcs] /\ job \in [Handlers -> JobType]
    BY DEF TypeInv, TypeOK
  <1>1. ASSUME NEW p \in Payloads, NEW i \in 0 .. ChunksOf[p] - 1, UploadChunk(h, p, i)
        PROVE  ContentInv'
    <2>1. pc' = [pc EXCEPT ![h] = "chunkRow"] /\ p = file.checksum
      BY <1>1 DEF UploadChunk, Goto, MayUpload
    <2>2. job'[h].payload = p /\ job'[h].idx = i
      BY <1>t, <1>1 DEF UploadChunk, JobType
    <2>3. UNCHANGED <<file, rows, chunkObj, versions, objects, purged>>
      BY <1>1 DEF UploadChunk, store
    <2>4. i \in Indices
      BY IndexOfChunk
    <2>5. pc'[h] = "chunkRow"
      BY <1>t, <2>1
    <2>6. Sound(h)'
      BY <2>1, <2>2, <2>3, <2>4, <2>5 DEF Sound, UploadPcs
    <2>7. \A g \in Handlers \ {h} : pc'[g] = pc[g] /\ job'[g] = job[g]
      BY <1>t, <1>1, <2>1 DEF UploadChunk
    <2> QED
      BY <2>3, <2>6, <2>7, ContentMove
  <1>2. CASE ReadChunkRow(h)
    <2>1. UNCHANGED <<file, rows, chunkObj, versions, objects, purged>> /\ pc[h] = "chunkRow"
      BY <1>2 DEF ReadChunkRow, store, At
    <2>2. CASE Return(h)
      BY <2>1, <2>2, ReturnSound, ContentMove
    <2>3. CASE /\ job' = [job EXCEPT ![h].isNew = (rows[job[h].idx] # "VERIFIED")]
               /\ Goto(h, "chunkPut")
      <3>1. job'[h].payload = job[h].payload /\ job'[h].idx = job[h].idx
        BY <1>t, <2>3 DEF JobType
      <3>2. pc'[h] = "chunkPut"
        BY <1>t, <2>3 DEF Goto
      <3>3. Sound(h)'
        BY <2>1, <3>1, <3>2 DEF ContentInv, Sound, UploadPcs
      <3>4. \A g \in Handlers \ {h} : pc'[g] = pc[g] /\ job'[g] = job[g]
        BY <1>t, <2>3 DEF Goto
      <3> QED
        BY <2>1, <3>3, <3>4, ContentMove
    <2> QED
      BY <1>2, <2>2, <2>3 DEF ReadChunkRow
  <1> QED
    BY <1>1, <1>2

\* When as many chunks are VERIFIED as the session has, all of its chunks are.
LEMMA AllVerified ==
  ASSUME TypeInv, RowsOfSession, file.status \notin Gone, Cardinality(Verified) = Total
  PROVE  \A i \in Indices : i < Total => rows[i] = "VERIFIED"
  <1>1. file.checksum \in Payloads
    BY DEF TypeInv, FileNamed
  <1>2. PICK t \in Nat \ {0} : t = Total
    BY <1>1, IndexOfChunk DEF Total
  <1>3. Verified \subseteq 0 .. t - 1
    BY <1>2, IndicesAreNumbers DEF RowsOfSession, Verified
  <1>4. t - 1 \in Int /\ 0 \in Int
    BY <1>2
  <1>5. IsFiniteSet(0 .. t - 1) /\ Cardinality(0 .. t - 1) = IF 0 > t - 1 THEN 0 ELSE (t - 1) - 0 + 1
    BY <1>4, FS_Interval
  <1>6. Cardinality(0 .. t - 1) = t
    BY <1>2, <1>5
  <1>7. Verified = 0 .. t - 1
    BY <1>2, <1>3, <1>5, <1>6, FS_Subset
  <1> QED
    BY <1>2, <1>7, IndicesAreNumbers DEF Verified

LEMMA ContentClaim ==
  ASSUME TypeInv, PhaseInv, ContentInv, NEW h \in Handlers,
         CompleteUpload(h) \/ Claim(h)
  PROVE  ContentInv'
  <1>t. pc \in [Handlers -> Pcs] /\ job \in [Handlers -> JobType] /\ file \in FileType
    BY DEF TypeInv, TypeOK
  <1>1. CASE CompleteUpload(h)
    <2>1. /\ UNCHANGED <<file, rows, chunkObj, versions, objects, purged>> /\ pc[h] = "idle"
          /\ file.status \notin Gone /\ Cardinality(Verified) = Total
      BY <1>1 DEF CompleteUpload, store, At
    <2>2. pc'[h] = "claim"
      BY <1>1, <1>t DEF CompleteUpload, Goto
    <2>3. job'[h].payload = file.checksum /\ job'[h].parts = job[h].parts
      BY <1>1, <1>t DEF CompleteUpload, JobType
    <2>4. job[h].parts = << >>
      BY <2>1 DEF ContentInv, Sound
    <2>5. \A i \in Indices : i < ChunksOf[file.checksum] => rows[i] = "VERIFIED"
      BY <2>1, AllVerified DEF ContentInv, SharedInv, Total
    <2>6. Sound(h)'
      BY <2>1, <2>2, <2>3, <2>4, <2>5 DEF Sound, UploadPcs
    <2>7. \A g \in Handlers \ {h} : pc'[g] = pc[g] /\ job'[g] = job[g]
      BY <1>1, <1>t DEF CompleteUpload, Goto
    <2> QED
      BY <2>1, <2>6, <2>7, ContentMove
  <1>2. CASE Claim(h)
    <2>1. UNCHANGED <<rows, chunkObj, versions, objects, purged>> /\ pc[h] = "claim"
      BY <1>2 DEF Claim, store, At
    <2>2. CASE Return(h) /\ UNCHANGED file
      BY <2>1, <2>2, ReturnSound, ContentMove
    <2>3. CASE /\ Claimable(file.status)
               /\ file' = [file EXCEPT !.status = "ASSEMBLING"]
               /\ Goto(h, "allocate") /\ UNCHANGED job
      <3>1. pc'[h] = "allocate" /\ \A g \in Handlers \ {h} : pc'[g] = pc[g] /\ job'[g] = job[g]
        BY <1>t, <2>3 DEF Goto
      <3>2. file'.checksum = file.checksum /\ file'.status = "ASSEMBLING"
        BY <1>t, <2>3 DEF FileType
      <3>3. file.status \in {"PENDING", "UPLOADING"}
        BY <2>3 DEF Claimable
      <3>4. \A i \in Indices : i < ChunksOf[job[h].payload] => chunkObj[i] \in {None, job[h].payload}
        BY <2>1, <3>3 DEF ContentInv, SharedInv, VerifiedStored, Sound, UploadPcs
      <3>5. job[h].parts = << >>
        BY <2>1 DEF ContentInv, Sound
      <3>6. Sound(h)'
        BY <2>1, <2>3, <3>1, <3>4, <3>5 DEF Sound, UploadPcs
      <3> QED
        BY <2>1, <3>1, <3>2, <3>3, <3>6, ContentMove DEF Gone
    <2> QED
      BY <1>2, <2>2, <2>3 DEF Claim
  <1> QED
    BY <1>1, <1>2

\* The process is restarted: every handler starts over, the store stays as it is.
LEMMA ContentRestart ==
  ASSUME TypeInv, ContentInv, Restart,
         UNCHANGED <<file, rows, chunkObj, versions, objects, purged>>
  PROVE  ContentInv'
  <1>1. SharedInv'
    BY SharedKept DEF ContentInv
  <1>2. ASSUME NEW g \in Handlers PROVE Sound(g)'
    <2>1. pc'[g] = "idle" /\ job'[g] = NoJob
      BY DEF Restart
    <2>2. job'[g].parts = << >>
      BY <2>1 DEF NoJob
    <2> QED
      BY <2>1, <2>2, SoundIdle
  <1> QED
    BY <1>1, <1>2 DEF ContentInv

LEMMA AppendSame ==
  ASSUME NEW S, NEW s \in Seq(S), NEW p \in S, \A i \in 1 .. Len(s) : s[i] = p
  PROVE  /\ Len(Append(s, p)) = Len(s) + 1
         /\ \A i \in 1 .. Len(Append(s, p)) : Append(s, p)[i] = p
  OBVIOUS

LEMMA WholeIsAll ==
  ASSUME NEW p \in Payloads, NEW s \in Seq(Payloads), Len(s) = ChunksOf[p],
         \A i \in 1 .. Len(s) : s[i] = p
  PROVE  s = Whole(p)
  <1>1. s = [i \in 1 .. Len(s) |-> s[i]]
    OBVIOUS
  <1> QED
    BY <1>1 DEF Whole

LEMMA ContentAssemble ==
  ASSUME TypeInv, PhaseInv, ContentInv, NEW h \in Handlers,
         AllocateVersion(h) \/ CopyChunk(h)
  PROVE  ContentInv'
  <1>t. pc \in [Handlers -> Pcs] /\ job \in [Handlers -> JobType] /\ job[h] \in JobType
    BY DEF TypeInv, TypeOK
  <1>0. UNCHANGED <<file, rows, chunkObj, versions, objects, purged>>
    BY DEF AllocateVersion, CopyChunk, store
  <1>p. pc[h] \in {"allocate", "copy"} /\ job[h].payload \in Payloads
    BY DEF AllocateVersion, CopyChunk, At, TypeInv, JobsNamed, CompletePcs, AssemblyPcs
  <1>c. ChunksOf[job[h].payload] \in Nat \ {0}
    BY <1>p, IndexOfChunk
  <1>s. Sound(h)
    BY DEF ContentInv
  <1>1. CASE AllocateVersion(h)
    <2>0. pc[h] = "allocate"
      BY <1>1 DEF AllocateVersion, At
    <2>1. CASE Return(h)
      BY <1>0, <2>1, ReturnSound, ContentMove
    <2>2. ASSUME NEW m, job' = [job EXCEPT ![h].next = m], Goto(h, "copy") PROVE ContentInv'
      <3>1. pc'[h] = "copy" /\ \A g \in Handlers \ {h} : pc'[g] = pc[g] /\ job'[g] = job[g]
        BY <1>t, <2>2 DEF Goto
      <3>2. job'[h].payload = job[h].payload /\ job'[h].parts = job[h].parts
        BY <1>t, <2>2 DEF JobType
      <3>3. job[h].parts = << >>
        BY <1>s, <2>0 DEF Sound
      <3>4. Len(job[h].parts) = 0 /\ Len(job[h].parts) <= ChunksOf[job[h].payload]
        BY <1>c, <3>3
      <3>5. \A i \in Indices : i < ChunksOf[job[h].payload] => chunkObj[i] \in {None, job[h].payload}
        BY <1>s, <2>0 DEF Sound
      <3>6. Sound(h)'
        BY <1>0, <3>1, <3>2, <3>4, <3>5 DEF Sound, UploadPcs
      <3> QED
        BY <1>0, <3>1, <3>6, ContentMove
    <2> QED
      BY <1>1, <2>1, <2>2 DEF AllocateVersion
  <1>2. CASE CopyChunk(h)
    <2>0. pc[h] = "copy"
      BY <1>2 DEF CopyChunk, At
    <2>p. PICK p \in Payloads : p = job[h].payload
      BY <1>p
    <2>s. PICK s \in Seq(Payloads) : s = job[h].parts
      BY <1>t DEF JobType
    <2>f. /\ Len(s) \in Nat /\ Len(s) <= ChunksOf[p] /\ \A i \in 1 .. Len(s) : s[i] = p
          /\ \A i \in Indices : i < ChunksOf[p] => chunkObj[i] \in {None, p}
      BY <1>s, <2>0, <2>p, <2>s DEF Sound
    <2>1. CASE Restart
      BY <1>0, <2>1, ContentRestart
    <2>2. CASE Goto(h, "failing") /\ UNCHANGED job
      <3>1. pc'[h] = "failing" /\ \A g \in Handlers \ {h} : pc'[g] = pc[g] /\ job'[g] = job[g]
        BY <1>t, <2>2 DEF Goto
      <3>2. Sound(h)'
        BY <3>1, SoundUnread
      <3> QED
        BY <1>0, <3>1, <3>2, ContentMove
    <2>3. CASE Len(s) = ChunksOf[p] /\ Goto(h, "put") /\ UNCHANGED job
      <3>1. pc'[h] = "put" /\ \A g \in Handlers \ {h} : pc'[g] = pc[g] /\ job'[g] = job[g]
        BY <1>t, <2>3 DEF Goto
      <3>2. s = Whole(p)
        BY <2>3, <2>f, WholeIsAll
      <3>3. Sound(h)'
        BY <2>3, <2>p, <2>s, <3>1, <3>2 DEF Sound, UploadPcs, Whole
      <3> QED
        BY <1>0, <3>1, <3>3, ContentMove
    <2>4. CASE /\ Len(s) < ChunksOf[p] /\ chunkObj[Len(s)] # None
               /\ job' = [job EXCEPT ![h].parts = Append(@, chunkObj[Len(s)])]
               /\ UNCHANGED pc
      <3>1. pc'[h] = "copy" /\ \A g \in Handlers \ {h} : pc'[g] = pc[g] /\ job'[g] = job[g]
        BY <1>t, <2>0, <2>4
      <3>2. Len(s) \in Indices
        BY <2>4, <2>f, <1>c, <2>p, IndexOfChunk
      <3>3. chunkObj[Len(s)] = p
        BY <2>4, <2>f, <3>2
      <3>4. job'[h].payload = p /\ job'[h].parts = Append(s, p)
        BY <1>t, <2>4, <2>p, <2>s, <3>3 DEF JobType
      <3>5. PICK r : r = Append(s, p)
        OBVIOUS
      <3>6. Len(r) = Len(s) + 1 /\ \A i \in 1 .. Len(r) : r[i] = p
        BY <2>f, <3>5, AppendSame
      <3>7. Len(r) <= ChunksOf[p]
        BY <1>c, <2>4, <2>f, <2>p, <3>6
      <3>8. Sound(h)'
        BY <1>0, <2>f, <3>1, <3>4, <3>5, <3>6, <3>7 DEF Sound, UploadPcs
      <3> QED
        BY <1>0, <3>1, <3>8, ContentMove
    <2> QED
      BY <1>2, <2>1, <2>2, <2>3, <2>4, <2>p, <2>s DEF CopyChunk
  <1> QED
    BY <1>1, <1>2

LEMMA ContentUnread ==
  ASSUME TypeInv, PhaseInv, ContentInv, NEW h \in Handlers,
         \/ PublishVersion(h) \/ SetPointer(h) \/ Announce(h) \/ MarkFailed(h) \/ RemoveFile(h)
  PROVE  ContentInv'
  <1>t. pc \in [Handlers -> Pcs] /\ job \in [Handlers -> JobType] /\ file \in FileType
    BY DEF TypeInv, TypeOK
  <1>0. UNCHANGED <<rows, chunkObj, versions, objects, purged>>
    BY DEF PublishVersion, SetPointer, Announce, MarkFailed, RemoveFile, store
  <1>1. /\ file'.checksum = file.checksum
        /\ file.status \in Gone <=> file'.status \in Gone
        /\ file'.status \in {"PENDING", "UPLOADING"} => file.status \in {"PENDING", "UPLOADING"}
    BY <1>t DEF PublishVersion, SetPointer, Announce, MarkFailed, RemoveFile, FileType, Gone
  <1>2. \A g \in Handlers \ {h} : pc'[g] = pc[g] /\ job'[g] = job[g]
    BY <1>t DEF PublishVersion, SetPointer, Announce, MarkFailed, RemoveFile, Goto, Return
  <1>3. CASE Return(h)
    BY <1>0, <1>1, <1>2, <1>3, ReturnSound, ContentMove
  <1>4. CASE ~Return(h)
    <2>1. pc'[h] \in {"pointer", "announce", "failing", "rmObjects"}
      BY <1>t, <1>4 DEF PublishVersion, SetPointer, Announce, MarkFailed, RemoveFile, Goto
    <2>2. Sound(h)'
      BY <2>1, SoundUnread
    <2> QED
      BY <1>0, <1>1, <1>2, <2>2, ContentMove
  <1> QED
    BY <1>3, <1>4

LEMMA ContentPut ==
  ASSUME TypeInv, PhaseInv, ContentInv, NEW h \in Handlers, PutChunk(h)
  PROVE  ContentInv'
  <1>t. /\ pc \in [Handlers -> Pcs] /\ job \in [Handlers -> JobType]
        /\ chunkObj \in [Indices -> Payloads \cup {None}]
    BY DEF TypeInv, TypeOK
  <1>0. UNCHANGED <<file, rows, versions, objects, purged>> /\ pc[h] = "chunkPut"
    BY DEF PutChunk, At
  <1>1. CASE Return(h) /\ UNCHANGED chunkObj
    BY <1>0, <1>1, ReturnSound, ContentMove
  <1>2. CASE /\ chunkObj' = [chunkObj EXCEPT ![job[h].idx] = job[h].payload]
             /\ Goto(h, "chunkCommit") /\ UNCHANGED job
    <2>1. pc'[h] = "chunkCommit" /\ \A g \in Handlers \ {h} : pc'[g] = pc[g] /\ job'[g] = job[g]
      BY <1>t, <1>2 DEF Goto
    <2>2. job[h].payload = file.checksum /\ job[h].idx \in Indices
      BY <1>0 DEF ContentInv, Sound, UploadPcs
    <2>3. /\ chunkObj'[job[h].idx] = job[h].payload
          /\ \A i \in Indices : chunkObj'[i] \in {chunkObj[i], file.checksum}
      BY <1>t, <1>2, <2>2
    <2>4. Sound(h)'
      BY <1>0, <1>2, <2>1, <2>2, <2>3 DEF Sound, UploadPcs
    <2>5. ASSUME NEW g \in Handlers \ {h} PROVE Sound(g)'
      <3>1. pc[g] \in UploadPcs \cup {"idle"}
        BY <1>0, <2>5 DEF PhaseInv, OnePhase, UploadPcs
      <3>2. Sound(g)
        BY <2>5 DEF ContentInv
      <3>3. pc[g] \in UploadPcs => job[g].payload = file.checksum
        BY <3>2 DEF Sound
      <3> QED
        BY <1>0, <2>1, <2>3, <3>1, <3>2, <3>3, SoundKept DEF UploadPcs
    <2>6. SharedInv'
      BY <1>0, <2>3, SharedKept DEF ContentInv
    <2> QED
      BY <2>4, <2>5, <2>6 DEF ContentInv
  <1> QED
    BY <1>1, <1>2 DEF PutChunk

LEMMA ContentCommit ==
  ASSUME TypeInv, PhaseInv, ContentInv, NEW h \in Handlers, CommitChunk(h)
  PROVE  ContentInv'
  <1>t. /\ pc \in [Handlers -> Pcs] /\ job \in [Handlers -> JobType] /\ file \in FileType
        /\ rows \in [Indices -> {"NONE", "PENDING", "VERIFIED"}]
    BY DEF TypeInv, TypeOK
  <1>0. UNCHANGED <<chunkObj, versions, objects, purged>> /\ pc[h] = "chunkCommit" /\ Return(h)
    BY DEF CommitChunk, At, store
  <1>1. CASE UNCHANGED <<rows, file>>
    BY <1>0, <1>1, ReturnSound, ContentMove
  <1>2. CASE /\ file.status \notin Gone /\ rows[job[h].idx] # "NONE"
             /\ rows' = [rows EXCEPT ![job[h].idx] = "VERIFIED"]
             /\ file' = [file EXCEPT !.status = "UPLOADING",
                                     !.uploaded = IF job[h].isNew THEN @ + 1 ELSE @]
    <2>1. PICK k \in Indices : k = job[h].idx
      BY <1>0 DEF ContentInv, Sound, UploadPcs
    <2>2. file'.status = "UPLOADING" /\ file'.checksum = file.checksum
      BY <1>t, <1>2 DEF FileType
    <2>3. rows'[k] = "VERIFIED" /\ \A i \in Indices \ {k} : rows'[i] = rows[i]
      BY <1>t, <1>2, <2>1
    <2>4. chunkObj[k] \in {None, file.checksum} /\ file.status \in {"PENDING", "UPLOADING"}
      BY <1>0, <2>1 DEF ContentInv, Sound, UploadPcs, PhaseInv, StatusFits, Fits
    <2>5. RowsOfSession'
      BY <1>2, <2>1, <2>2, <2>3 DEF ContentInv, SharedInv, RowsOfSession, Total, Gone
    <2>6. VerifiedStored'
      BY <1>0, <2>2, <2>3, <2>4 DEF ContentInv, SharedInv, VerifiedStored
    <2>7. VersionsWhole'
      BY <1>0 DEF ContentInv, SharedInv, VersionsWhole, RowExists, KeyOf, Whole
    <2>8. ASSUME NEW g \in Handlers \ {h} PROVE Sound(g)'
      <3>1. Sound(g) /\ pc'[g] = pc[g] /\ job'[g] = job[g]
        BY <1>0, <2>8, ReturnSound DEF ContentInv
      <3> QED
        BY <1>0, <2>2, <2>3, <3>1, SoundKept
    <2> QED
      BY <1>0, <2>5, <2>6, <2>7, <2>8, ReturnSound DEF ContentInv, SharedInv
  <1> QED
    BY <1>1, <1>2 DEF CommitChunk

LEMMA ContentFinish ==
  ASSUME TypeInv, PhaseInv, NumberInv, ContentInv, NEW h \in Handlers, FinishAssembly(h)
  PROVE  ContentInv'
  <1>t. /\ pc \in [Handlers -> Pcs] /\ job \in [Handlers -> JobType] /\ job[h] \in JobType
        /\ objects \in [Keys -> Seq(Payloads)] /\ versions \in [Versions -> VersionType]
    BY DEF TypeInv, TypeOK
  <1>0. UNCHANGED <<file, rows, chunkObj, versions, job, purged>> /\ pc[h] = "put"
    BY DEF FinishAssembly, At
  <1>1. CASE Goto(h, "failing") /\ UNCHANGED objects
    <2>1. pc'[h] = "failing" /\ \A g \in Handlers \ {h} : pc'[g] = pc[g] /\ job'[g] = job[g]
      BY <1>t, <1>0, <1>1 DEF Goto
    <2>2. Sound(h)'
      BY <2>1, SoundUnread
    <2> QED
      BY <1>0, <1>1, <2>1, <2>2, ContentMove
  <1>2. CASE /\ objects' = [objects EXCEPT ![DestinationKey(h)] = job[h].parts]
             /\ Goto(h, "cleanup")
    <2>1. pc'[h] = "cleanup" /\ \A g \in Handlers \ {h} : pc'[g] = pc[g] /\ job'[g] = job[g]
      BY <1>t, <1>0, <1>2 DEF Goto
    <2>2. PICK n \in Versions, a \in Names : n = job[h].next /\ a = job[h].name
      BY <1>0 DEF NumberInv, NumberIsNext, Holding, TypeInv, JobsNamed, CompletePcs, AssemblyPcs
    <2>3. <<n, a>> \in Keys /\ DestinationKey(h) = <<n, a>> /\ DestinationKey(h)' = <<n, a>>
      BY <1>0, <2>2 DEF Keys, DestinationKey
    <2>4. objects'[<<n, a>>] = job[h].parts /\ \A k \in Keys \ {<<n, a>>} : objects'[k] = objects[k]
      BY <1>t, <1>2, <2>3
    <2>5. job[h].parts = Whole(job[h].payload)
      BY <1>0 DEF ContentInv, Sound
    <2>6. Sound(h)'
      BY <1>0, <2>1, <2>3, <2>4, <2>5 DEF Sound, UploadPcs, Whole
    <2>7. ~RowExists(n)
      BY <1>0, <2>2 DEF NumberInv, NumberIsNext, Holding, IsHighest, Versions
    <2>8. VersionsWhole'
      <3> SUFFICES ASSUME ~purged, NEW m \in Versions, RowExists(m)
                   PROVE  /\ versions[m].checksum \in Payloads
                          /\ objects'[KeyOf(m)] = Whole(versions[m].checksum)
        BY <1>0 DEF VersionsWhole, RowExists, KeyOf, Whole
      <3>1. KeyOf(m) \in Keys
        BY DEF TypeInv, RowsNamed, KeyOf, Keys
      <3>2. KeyOf(m) # <<n, a>>
        BY <2>7 DEF KeyOf
      <3> QED
        BY <2>4, <3>1, <3>2 DEF ContentInv, SharedInv, VersionsWhole
    <2>9. RowsOfSession' /\ VerifiedStored'
      BY <1>0 DEF ContentInv, SharedInv, RowsOfSession, VerifiedStored, Total
    <2>10. ASSUME NEW g \in Handlers \ {h} PROVE Sound(g)'
      <3>1. pc[g] \notin {"cleanup", "create"}
        BY <1>0, <2>10, PcFacts DEF PhaseInv, OneClaim
      <3>2. Sound(g)
        BY <2>10 DEF ContentInv
      <3> QED
        BY <1>0, <2>1, <3>1, <3>2, SoundKept
    <2> QED
      BY <2>6, <2>8, <2>9, <2>10 DEF ContentInv, SharedInv
  <1> QED
    BY <1>1, <1>2 DEF FinishAssembly

LEMMA ContentDelete ==
  ASSUME TypeInv, PhaseInv, ContentInv, NEW h \in Handlers, DeleteChunks(h)
  PROVE  ContentInv'
  <1>t. pc \in [Handlers -> Pcs] /\ job \in [Handlers -> JobType]
    BY DEF TypeInv, TypeOK
  <1>0. UNCHANGED <<file, rows, versions, objects, job, purged>> /\ pc[h] = "cleanup"
    BY DEF DeleteChunks, At
  <1>1. \A i \in Indices : chunkObj'[i] \in {None, chunkObj[i]}
    BY DEF DeleteChunks
  <1>2. pc'[h] \in {"create", "failing"} /\ \A g \in Handlers \ {h} : pc'[g] = pc[g]
    BY <1>t DEF DeleteChunks, Goto
  <1>3. Sound(h)'
    <2>1. Sound(h)
      BY DEF ContentInv
    <2> QED
      BY <1>0, <1>2, <2>1 DEF Sound, UploadPcs, DestinationKey, Whole
  <1>4. ASSUME NEW g \in Handlers \ {h} PROVE Sound(g)'
    <2>1. Sound(g)
      BY <1>4 DEF ContentInv
    <2> QED
      BY <1>0, <1>1, <1>2, <2>1, SoundKept
  <1>5. SharedInv'
    BY <1>0, <1>1, SharedKept DEF ContentInv
  <1> QED
    BY <1>3, <1>4, <1>5 DEF ContentInv

LEMMA ContentCreate ==
  ASSUME TypeInv, PhaseInv, NumberInv, ContentInv, NEW h \in Handlers, CreateVersion(h)
  PROVE  ContentInv'
  <1>t. /\ pc \in [Handlers -> Pcs] /\ job \in [Handlers -> JobType]
        /\ versions \in [Versions -> VersionType]
    BY DEF TypeInv, TypeOK
  <1>0. UNCHANGED <<file, rows, chunkObj, objects, job, purged>> /\ pc[h] = "create"
    BY DEF CreateVersion, At, store
  <1>1. pc'[h] \in {"publish", "failing"} /\ \A g \in Handlers \ {h} : pc'[g] = pc[g]
    BY <1>t DEF CreateVersion, Goto
  <1>2. Sound(h)'
    BY <1>1, SoundUnread
  <1>3. ASSUME NEW g \in Handlers \ {h} PROVE Sound(g)'
    <2>1. Sound(g)
      BY <1>3 DEF ContentInv
    <2> QED
      BY <1>0, <1>1, <2>1, SoundKept
  <1>4. RowsOfSession' /\ VerifiedStored'
    BY <1>0 DEF ContentInv, SharedInv, RowsOfSession, VerifiedStored, Total
  <1>5. VersionsWhole'
    <2>1. CASE UNCHANGED versions
      BY <1>0, <2>1 DEF ContentInv, SharedInv, VersionsWhole, RowExists, KeyOf, Whole
    <2>2. CASE versions' = [versions EXCEPT ![job[h].next] =
                              [checksum |-> job[h].payload, name |-> job[h].name]]
      <3>1. PICK n \in Versions, p \in Payloads, a \in Names :
                n = job[h].next /\ p = job[h].payload /\ a = job[h].name
        BY <1>0 DEF NumberInv, NumberIsNext, Holding, TypeInv, JobsNamed, CompletePcs, AssemblyPcs
      <3>2. /\ versions'[n] = [checksum |-> p, name |-> a]
            /\ \A m \in Versions \ {n} : versions'[m] = versions[m]
        BY <1>t, <2>2, <3>1
      <3>3. ~purged => objects[<<n, a>>] = Whole(p)
        BY <1>0, <3>1 DEF ContentInv, Sound, DestinationKey
      <3> SUFFICES ASSUME ~purged, NEW m \in Versions, RowExists(m)'
                   PROVE  /\ versions'[m].checksum \in Payloads
                          /\ objects[<<m, versions'[m].name>>] = Whole(versions'[m].checksum)
        BY <1>0 DEF VersionsWhole, KeyOf, Whole
      <3>4. CASE m = n
        BY <3>2, <3>3, <3>4
      <3>5. CASE m # n
        BY <3>2, <3>5 DEF RowExists, ContentInv, SharedInv, VersionsWhole, KeyOf
      <3> QED
        BY <3>4, <3>5
    <2> QED
      BY <2>1, <2>2 DEF CreateVersion
  <1> QED
    BY <1>2, <1>3, <1>4, <1>5 DEF ContentInv, SharedInv

\* initUpload, initVersionUpload and remove meet nobody else.
LEMMA ContentAlone ==
  ASSUME TypeInv, ContentInv, SharedInv', NEW h \in Handlers, Sound(h)',
         \A g \in Handlers \ {h} : pc[g] = "idle" /\ pc'[g] = pc[g] /\ job'[g] = job[g]
  PROVE  ContentInv'
  <1>1. ASSUME NEW g \in Handlers \ {h} PROVE Sound(g)'
    <2>1. job[g].parts = << >>
      BY <1>1 DEF ContentInv, Sound
    <2> QED
      BY <1>1, <2>1, SoundIdle
  <1> QED
    BY <1>1 DEF ContentInv

LEMMA ContentInitUpload ==
  ASSUME TypeInv, SafeInv, ContentInv, NEW h \in Handlers, NEW p \in Payloads,
         NEW name \in Names, NEW mime \in Mimes, InitUpload(h, p, name, mime)
  PROVE  ContentInv'
  <1>t. pc \in [Handlers -> Pcs] /\ job \in [Handlers -> JobType] /\ file \in FileType
    BY DEF TypeInv, TypeOK
  <1>1. \A g \in Handlers : pc[g] = "idle"
    BY DEF InitUpload, SafeInv, IdleBeforeInit
  <1>2. UNCHANGED <<rows, chunkObj, versions, objects, purged>>
    BY DEF InitUpload, store
  <1>3. file'.status = "PENDING" /\ file'.checksum = p
    BY <1>t DEF InitUpload, SessionOf, FileType
  <1>4. \A i \in Indices : rows[i] = "NONE"
    BY DEF InitUpload, ContentInv, SharedInv, RowsOfSession, Gone
  <1>5. SharedInv'
    <2>1. RowsOfSession' /\ VerifiedStored'
      BY <1>2, <1>3, <1>4 DEF RowsOfSession, VerifiedStored, Gone
    <2>2. VersionsWhole'
      BY <1>2 DEF ContentInv, SharedInv, VersionsWhole, RowExists, KeyOf, Whole
    <2> QED
      BY <2>1, <2>2 DEF SharedInv
  <1>6. pc'[h] = "initRows" /\ job'[h].payload = p
    BY <1>t DEF InitUpload, Goto, JobType
  <1>7. Sound(h)'
    BY <1>3, <1>6 DEF Sound, UploadPcs
  <1>8. \A g \in Handlers \ {h} : pc'[g] = pc[g] /\ job'[g] = job[g]
    BY <1>t DEF InitUpload, Goto
  <1> QED
    BY <1>1, <1>5, <1>7, <1>8, ContentAlone

LEMMA ContentInitVersion ==
  ASSUME Orderly, TypeInv, ContentInv, NEW h \in Handlers, NEW p \in Payloads,
         NEW name \in Names, NEW mime \in Mimes, InitVersionUpload(h, p, name, mime)
  PROVE  ContentInv'
  <1>t. file \in FileType
    BY DEF TypeInv, TypeOK
  <1>1. \A g \in Handlers : pc[g] = "idle"
    BY OthersIdle DEF InitVersionUpload
  <1>2. UNCHANGED <<chunkObj, versions, objects, purged, pc, job>> /\ rows' = PendingRows(p)
    BY DEF InitVersionUpload, store
  <1>3. file'.status = "PENDING" /\ file'.checksum = p
    BY <1>t DEF InitVersionUpload, SessionOf, FileType
  <1>4. RowsOfSession' /\ VerifiedStored'
    BY <1>2, <1>3 DEF RowsOfSession, VerifiedStored, Gone, Total, PendingRows
  <1>5. VersionsWhole'
    BY <1>2 DEF ContentInv, SharedInv, VersionsWhole, RowExists, KeyOf, Whole
  <1>6. ASSUME NEW g \in Handlers PROVE Sound(g)'
    <2>1. job[g].parts = << >>
      BY <1>1 DEF ContentInv, Sound
    <2> QED
      BY <1>1, <1>2, <2>1, SoundIdle
  <1> QED
    BY <1>4, <1>5, <1>6 DEF ContentInv, SharedInv

LEMMA ContentInitRows ==
  ASSUME TypeInv, PhaseInv, ContentInv, NEW h \in Handlers, InitChunkRows(h)
  PROVE  ContentInv'
  <1>0. pc[h] = "initRows" /\ Return(h) /\ UNCHANGED <<file, chunkObj, versions, objects, purged>>
    BY DEF InitChunkRows, At, store
  <1>1. \A g \in Handlers \ {h} : pc[g] = "idle"
    BY <1>0 DEF PhaseInv, OnePhase, Alone
  <1>2. job[h].payload = file.checksum
    BY <1>0 DEF ContentInv, Sound
  <1>3. UNCHANGED rows \/ (file.status \notin Gone /\ rows' = PendingRows(file.checksum))
    BY <1>2 DEF InitChunkRows
  <1>4. RowsOfSession' /\ VerifiedStored'
    <2>1. CASE UNCHANGED rows
      BY <1>0, <2>1 DEF ContentInv, SharedInv, RowsOfSession, VerifiedStored, Total
    <2>2. CASE file.status \notin Gone /\ rows' = PendingRows(file.checksum)
      BY <1>0, <2>2 DEF RowsOfSession, VerifiedStored, Total, PendingRows
    <2> QED
      BY <1>3, <2>1, <2>2
  <1>5. VersionsWhole'
    BY <1>0 DEF ContentInv, SharedInv, VersionsWhole, RowExists, KeyOf, Whole
  <1>6. SharedInv'
    BY <1>4, <1>5 DEF SharedInv
  <1> QED
    BY <1>0, <1>1, <1>6, ReturnSound, ContentAlone

LEMMA ContentRemove ==
  ASSUME TypeInv, PhaseInv, ContentInv, NEW h \in Handlers, RemoveObjects(h) \/ RemoveRow(h)
  PROVE  ContentInv'
  <1>t. pc \in [Handlers -> Pcs] /\ job \in [Handlers -> JobType]
    BY DEF TypeInv, TypeOK
  <1>1. \A g \in Handlers \ {h} : pc[g] = "idle"
    BY DEF RemoveObjects, RemoveRow, At, PhaseInv, OnePhase, Alone, RemovePcs
  <1>2. CASE RemoveObjects(h)
    <2>0. UNCHANGED <<file, rows, versions>> /\ pc[h] = "rmObjects"
      BY <1>2 DEF RemoveObjects, At
    <2>1. CASE Return(h) /\ UNCHANGED <<chunkObj, objects, purged>>
      BY <2>0, <2>1, ReturnSound, ContentMove
    <2>2. CASE /\ chunkObj' = [i \in Indices |-> IF i \in job[h].chunks THEN None ELSE chunkObj[i]]
               /\ purged' = TRUE /\ Goto(h, "rmRow") /\ UNCHANGED job
      <3>1. pc'[h] = "rmRow" /\ \A g \in Handlers \ {h} : pc'[g] = pc[g] /\ job'[g] = job[g]
        BY <1>t, <2>2 DEF Goto
      <3>2. Sound(h)'
        BY <2>2, <3>1 DEF Sound, UploadPcs
      <3>3. RowsOfSession' /\ VerifiedStored'
        BY <2>0, <2>2 DEF ContentInv, SharedInv, RowsOfSession, VerifiedStored, Total
      <3>4. VersionsWhole'
        BY <2>2 DEF VersionsWhole
      <3>5. SharedInv'
        BY <3>3, <3>4 DEF SharedInv
      <3> QED
        BY <1>1, <3>1, <3>2, <3>5, ContentAlone
    <2> QED
      BY <1>2, <2>1, <2>2 DEF RemoveObjects, store
  <1>3. CASE RemoveRow(h)
    <2>0. UNCHANGED <<chunkObj, objects, purged>> /\ pc[h] = "rmRow" /\ Return(h)
      BY <1>3 DEF RemoveRow, At, store
    <2>1. purged
      BY <2>0 DEF ContentInv, Sound
    <2>2. VersionsWhole'
      BY <2>0, <2>1 DEF VersionsWhole
    <2>3. RowsOfSession' /\ VerifiedStored'
      <3>1. CASE UNCHANGED <<file, rows>>
        BY <2>0, <3>1 DEF ContentInv, SharedInv, RowsOfSession, VerifiedStored, Total
      <3>2. CASE file' = [NoFile EXCEPT !.status = "DELETED"] /\ rows' = [i \in Indices |-> "NONE"]
        <4>1. file'.status = "DELETED"
          BY <3>2 DEF NoFile
        <4> QED
          BY <3>2, <4>1 DEF RowsOfSession, VerifiedStored
      <3> QED
        BY <1>3, <3>1, <3>2 DEF RemoveRow
    <2>4. SharedInv'
      BY <2>2, <2>3 DEF SharedInv
    <2> QED
      BY <1>1, <2>0, <2>4, ReturnSound, ContentAlone
  <1> QED
    BY <1>2, <1>3

LEMMA ContentInvNext ==
  ASSUME Orderly, TypeInv, SafeInv, PhaseInv, NumberInv, ContentInv, [Next]_vars
  PROVE  ContentInv'
  <1>1. CASE Crash
    BY <1>1, ContentRestart DEF Crash, store
  <1>2. CASE UNCHANGED vars
    <2>1. UNCHANGED <<file, rows, chunkObj, versions, objects, purged, pc, job>>
      BY <1>2 DEF vars
    <2>2. SharedInv'
      BY <2>1, SharedKept DEF ContentInv
    <2>3. ASSUME NEW g \in Handlers PROVE Sound(g)'
      <3>1. Sound(g)
        BY DEF ContentInv
      <3> QED
        BY <2>1, <3>1, SoundKept
    <2> QED
      BY <2>2, <2>3 DEF ContentInv
  <1>3. ASSUME NEW h \in Handlers, Begin(h) PROVE ContentInv'
    BY <1>3, ContentInitUpload, ContentInitVersion, ContentUpload, ContentClaim, ContentUnread
       DEF Begin
  <1>4. ASSUME NEW h \in Handlers, Continue(h) PROVE ContentInv'
    BY <1>4, ContentInitRows, ContentUpload, ContentPut, ContentCommit, ContentClaim,
       ContentAssemble, ContentFinish, ContentDelete, ContentCreate, ContentUnread,
       ContentRemove DEF Continue
  <1> QED
    BY <1>1, <1>2, <1>3, <1>4 DEF Next

LEMMA ContentInvAlways == Orderly /\ Spec => []ContentInv
  <1> SUFFICES ASSUME Orderly PROVE Spec => []ContentInv
    OBVIOUS
  <1>1. Init => ContentInv
    BY DEF Init, NoFile, NoJob, Gone, ContentInv, SharedInv, RowsOfSession, VerifiedStored,
       VersionsWhole, RowExists, Sound, UploadPcs
  <1>2. TypeInv /\ SafeInv /\ PhaseInv /\ NumberInv /\ ContentInv /\ [Next]_vars => ContentInv'
    BY ContentInvNext
  <1> QED
    BY <1>1, <1>2, TypeInvAlways, SafeInvAlways, PhaseInvAlways, NumberInvAlways, PTL DEF Spec

LEMMA CountOfInterval ==
  ASSUME NEW m \in Nat
  PROVE  Cardinality(1 .. m) = m
  <1>1. Cardinality(1 .. m) = IF 1 > m THEN 0 ELSE m - 1 + 1
    BY FS_Interval
  <1> QED
    BY <1>1

LEMMA SameInterval ==
  ASSUME NEW m \in Nat, NEW k \in Nat, 1 .. m = 1 .. k
  PROVE  m = k
  <1>1. m = 0 \/ m \in 1 .. k
    OBVIOUS
  <1>2. k = 0 \/ k \in 1 .. m
    OBVIOUS
  <1> QED
    BY <1>1, <1>2

LEMMA AppendToFunction ==
  ASSUME NEW m \in Nat, NEW f, NEW e, f = [n \in 1 .. m |-> f[n]]
  PROVE  Append(f, e) = [n \in 1 .. m + 1 |-> IF n = m + 1 THEN e ELSE f[n]]
  <1> DEFINE S == {f[n] : n \in 1 .. m}
  <1>1. f \in Seq(S) /\ Len(f) = m
    OBVIOUS
  <1> QED
    BY <1>1

\* Only the creation of a row adds to the history, and only remove ends it.
LEMMA HistoryStep ==
  ASSUME TypeInv, PhaseInv, NumberInv, ContentInv, [Next]_vars
  PROVE  [History!Next]_<<IF purged THEN << >> ELSE Contents, purged>>
  <1> USE DEF History!Next, History!Remove, History!AddVersion
  <1>0. PICK m \in Nat : Rows = 1 .. m
    BY DEF NumberInv, RowsCounted
  <1>t. /\ versions \in [Versions -> VersionType] /\ objects \in [Keys -> Seq(Payloads)]
        /\ job \in [Handlers -> JobType]
    BY DEF TypeInv, TypeOK
  <1>r. Contents = [n \in 1 .. m |->
                       [checksum |-> versions[n].checksum, bytes |-> objects[KeyOf(n)]]]
    BY <1>0, CountOfInterval DEF Contents, Rows
  <1>1. CASE UNCHANGED <<versions, objects, purged>>
    <2>1. Contents' = Contents
      BY <1>1 DEF Contents, RowExists, KeyOf
    <2> QED
      BY <1>1, <2>1
  <1>2. ASSUME NEW h \in Handlers, FinishAssembly(h), ~UNCHANGED objects
        PROVE  UNCHANGED <<IF purged THEN << >> ELSE Contents, purged>>
    <2>0. /\ UNCHANGED <<versions, purged>> /\ pc[h] = "put"
          /\ objects' = [objects EXCEPT ![DestinationKey(h)] = job[h].parts]
      BY <1>2 DEF FinishAssembly, At
    <2>1. ~RowExists(job[h].next) /\ job[h].next \in Versions
      BY <2>0 DEF NumberInv, NumberIsNext, Holding, IsHighest, Versions
    <2>2. Rows' = 1 .. m
      BY <1>0, <2>0 DEF Rows, RowExists
    <2>3. ASSUME NEW n \in 1 .. m PROVE objects'[KeyOf(n)'] = objects[KeyOf(n)]
      <3>1. n \in Versions /\ RowExists(n)
        BY <1>0, <2>3 DEF Rows
      <3>2. KeyOf(n) \in Keys /\ KeyOf(n) # DestinationKey(h) /\ KeyOf(n)' = KeyOf(n)
        BY <2>0, <2>1, <3>1 DEF TypeInv, RowsNamed, KeyOf, Keys, DestinationKey
      <3> QED
        BY <1>t, <2>0, <3>2
    <2>4. Contents' = [n \in 1 .. m |->
                          [checksum |-> versions'[n].checksum, bytes |-> objects'[KeyOf(n)']]]
      BY <2>2, CountOfInterval DEF Contents, Rows
    <2>5. Contents' = Contents
      BY <1>r, <2>0, <2>3, <2>4
    <2> QED
      BY <2>0, <2>5
  <1>3. ASSUME NEW h \in Handlers, CreateVersion(h), ~UNCHANGED versions, ~purged
        PROVE  \E p \in Payloads : History!AddVersion(p)
    <2>0. /\ UNCHANGED <<objects, purged>> /\ pc[h] = "create"
          /\ versions' = [versions EXCEPT ![job[h].next] =
                            [checksum |-> job[h].payload, name |-> job[h].name]]
      BY <1>3 DEF CreateVersion, At, store
    <2>1. PICK n \in Versions, p \in Payloads, a \in Names :
              n = job[h].next /\ p = job[h].payload /\ a = job[h].name
      BY <2>0 DEF NumberInv, NumberIsNext, Holding, TypeInv, JobsNamed, CompletePcs, AssemblyPcs
    <2>2. IsHighest(n - 1) /\ n - 1 \in Nat /\ n - 1 \in {0} \cup Versions
      BY <2>0, <2>1, UploadAssumption DEF NumberInv, NumberIsNext, Holding, Versions
    <2>3. Rows = 1 .. n - 1
      BY <2>2, HighestIsCount DEF NumberInv
    <2>4. m = n - 1 /\ n = m + 1
      <3>1. 1 .. m = 1 .. n - 1
        BY <1>0, <2>3
      <3>2. m = n - 1
        BY <2>2, <3>1, SameInterval
      <3> QED
        BY <3>2 DEF Versions
    <2>5. /\ versions'[n] = [checksum |-> p, name |-> a]
          /\ \A k \in Versions \ {n} : versions'[k] = versions[k]
      BY <1>t, <2>0, <2>1
    <2>6. versions'[n] # NoVersion
      BY <2>1, <2>5, UploadAssumption DEF NoVersion
    <2>7. Rows' = 1 .. m + 1
      <3>1. Rows' = Rows \cup {n}
        BY <2>5, <2>6 DEF Rows, RowExists
      <3> QED
        BY <1>0, <2>4, <3>1
    <2>8. objects[<<n, a>>] = Whole(p)
      BY <1>3, <2>0, <2>1 DEF ContentInv, Sound, DestinationKey
    <2>9. Contents' = [k \in 1 .. m + 1 |->
                          [checksum |-> versions'[k].checksum, bytes |-> objects'[KeyOf(k)']]]
      <3>1. m + 1 \in Nat
        OBVIOUS
      <3>2. Cardinality(1 .. m + 1) = m + 1
        BY <3>1, CountOfInterval
      <3> QED
        BY <2>7, <3>2 DEF Contents, Rows
    <2>10. PICK e : e = [checksum |-> p, bytes |-> Whole(p)]
      OBVIOUS
    <2>11. Append(Contents, e) = [k \in 1 .. m + 1 |-> IF k = m + 1 THEN e ELSE Contents[k]]
      BY <1>r, AppendToFunction
    <2>12. ASSUME NEW k \in 1 .. m + 1
           PROVE  [checksum |-> versions'[k].checksum, bytes |-> objects'[KeyOf(k)']]
                    = IF k = m + 1 THEN e ELSE Contents[k]
      <3>1. CASE k = m + 1
        BY <2>0, <2>4, <2>5, <2>8, <2>10, <3>1 DEF KeyOf
      <3>2. CASE k # m + 1
        <4>1. k \in 1 .. m
          BY <2>12, <3>2
        <4>2. k \in Versions \ {n}
          BY <1>0, <2>4, <4>1 DEF Rows
        <4> QED
          BY <2>0, <2>5, <1>r, <3>2, <4>1, <4>2 DEF KeyOf
      <3> QED
        BY <3>1, <3>2
    <2>13. Contents' = Append(Contents, e)
      BY <2>9, <2>11, <2>12
    <2>14. e = History!Version(p)
      BY <2>10 DEF History!Version, Whole
    <2>15. History!AddVersion(p)
      BY <1>3, <2>0, <2>13, <2>14
    <2> QED
      BY <2>15
  <1>4. ASSUME purged, purged' PROVE UNCHANGED <<IF purged THEN << >> ELSE Contents, purged>>
    BY <1>4 DEF TypeInv, TypeOK
  <1>5. ASSUME purged' = TRUE PROVE History!Remove
    BY <1>5
  <1>6. ASSUME NEW h \in Handlers, Begin(h) \/ Continue(h)
        PROVE  [History!Next]_<<IF purged THEN << >> ELSE Contents, purged>>
    <2>1. CASE FinishAssembly(h)
      <3>1. UNCHANGED <<versions, purged>>
        BY <2>1 DEF FinishAssembly
      <3> QED
        BY <1>1, <1>2, <2>1, <3>1
    <2>2. CASE CreateVersion(h)
      <3>1. UNCHANGED <<objects, purged>>
        BY <2>2 DEF CreateVersion, store
      <3>2. purged => UNCHANGED <<IF purged THEN << >> ELSE Contents, purged>>
        BY <1>4, <3>1
      <3> QED
        BY <1>1, <1>3, <2>2, <3>1, <3>2
    <2>3. CASE RemoveObjects(h)
      <3>1. purged' = TRUE \/ UNCHANGED <<versions, objects, purged>>
        BY <2>3 DEF RemoveObjects, store
      <3> QED
        BY <1>1, <1>5, <3>1
    <2>4. CASE RemoveRow(h)
      <3>1. UNCHANGED purged /\ purged
        BY <2>4 DEF RemoveRow, At, ContentInv, Sound
      <3> QED
        BY <1>4, <3>1
    <2>5. CASE Begin(h)
      <3>1. UNCHANGED <<versions, objects, purged>>
        BY <2>5 DEF Begin, InitUpload, InitVersionUpload, UploadChunk, CompleteUpload, RemoveFile,
           store
      <3> QED
        BY <1>1, <3>1
    <2>6. CASE \/ InitChunkRows(h) \/ ReadChunkRow(h) \/ PutChunk(h) \/ CommitChunk(h) \/ Claim(h)
               \/ AllocateVersion(h) \/ CopyChunk(h) \/ DeleteChunks(h) \/ PublishVersion(h)
               \/ SetPointer(h) \/ Announce(h) \/ MarkFailed(h)
      <3>1. UNCHANGED <<versions, objects, purged>>
        BY <2>6 DEF InitChunkRows, ReadChunkRow, PutChunk, CommitChunk, Claim, AllocateVersion,
           CopyChunk, DeleteChunks, PublishVersion, SetPointer, Announce, MarkFailed, store
      <3> QED
        BY <1>1, <3>1
    <2> QED
      BY <1>6, <2>1, <2>2, <2>3, <2>4, <2>5, <2>6 DEF Continue
  <1>7. CASE Crash \/ UNCHANGED vars
    <2>1. UNCHANGED <<versions, objects, purged>>
      BY <1>7 DEF Crash, vars, store
    <2> QED
      BY <1>1, <2>1
  <1> QED
    BY <1>6, <1>7 DEF Next

\* With an orderly client the detailed upload implements VersionHistory: whatever
\* assembly failed, was retried or was cut off by a crash, a version that appears holds
\* exactly the payload its checksum names, and no version changes until remove.
THEOREM UploadIsHistory == Orderly /\ Spec => ImplementsHistory
  <1> SUFFICES ASSUME Orderly PROVE Spec => ImplementsHistory
    OBVIOUS
  <1>1. Init => History!Init
    <2> SUFFICES ASSUME Init PROVE History!Init
      OBVIOUS
    <2>1. {k \in Versions : RowExists(k)} = 1 .. 0
      BY DEF Init, RowExists
    <2>2. Contents = << >>
      <3>1. Cardinality(1 .. 0) = 0
        BY CountOfInterval
      <3> QED
        BY <2>1, <3>1 DEF Contents
    <2> QED
      BY <2>2 DEF Init, History!Init
  <1>2. TypeInv /\ PhaseInv /\ NumberInv /\ ContentInv /\ [Next]_vars
          => [History!Next]_<<IF purged THEN << >> ELSE Contents, purged>>
    BY HistoryStep
  <1> QED
    BY <1>1, <1>2, TypeInvAlways, PhaseInvAlways, NumberInvAlways, ContentInvAlways, PTL
       DEF Spec, ImplementsHistory, History!Spec

\* With an orderly client every version holds the whole bytes of the payload that its
\* checksum names, and what a completion has read or written is of that payload too,
\* although chunk keys are shared by all sessions of the file.
THEOREM UploadWholeVersions ==
  Orderly /\ Spec => [](VersionsWhole /\ \A h \in Handlers : Sound(h))
  <1> SUFFICES ASSUME Orderly PROVE Spec => [](VersionsWhole /\ \A h \in Handlers : Sound(h))
    OBVIOUS
  <1>1. ContentInv => VersionsWhole /\ \A h \in Handlers : Sound(h)
    BY DEF ContentInv, SharedInv
  <1> QED
    BY <1>1, ContentInvAlways, PTL

-----------------------------------------------------------------------------
(* Handlers move towards their end                                         *)

\* How far a handler is from its end; the loop over the chunks stays at its place and
\* is measured by the chunks that it has still to read.
Stage == [l \in Pcs |->
    CASE l = "idle" -> 0        [] l = "initRows" -> 1
      [] l = "chunkCommit" -> 1 [] l = "chunkPut" -> 2 [] l = "chunkRow" -> 3
      [] l = "rmRow" -> 1       [] l = "rmObjects" -> 2
      [] l = "failing" -> 1     [] l = "announce" -> 2 [] l = "pointer" -> 3
      [] l = "publish" -> 4     [] l = "create" -> 5   [] l = "cleanup" -> 6
      [] l = "put" -> 7         [] l = "copy" -> 8     [] l = "allocate" -> 9
      [] OTHER -> 10]

\* A copy starts with nothing and never reads more than the chunks of its payload.
CopyWithin(h) ==
    /\ pc[h] \in {"idle", "claim", "allocate"} => job[h].parts = << >>
    /\ pc[h] = "copy" => Len(job[h].parts) <= ChunksOf[job[h].payload]
CopyBounded == \A h \in Handlers : CopyWithin(h)

Nearer(h) ==
    \/ Stage[pc'[h]] < Stage[pc[h]]
    \/ /\ pc[h] = "copy" /\ pc'[h] = "copy"
       /\ job'[h].payload = job[h].payload
       /\ Len(job'[h].parts) = Len(job[h].parts) + 1

\* Whatever happens to a request that is under way brings it nearer to its end, and
\* its own steps never leave it where it is.
HandlerAdvances(h) ==
    ~At(h, "idle") /\ (Continue(h) \/ pc'[h] # pc[h] \/ job'[h] # job[h]) => Nearer(h)

\* What a step of one handler does to it and to the others: a read that fails in the
\* compressing copy takes all of them with it.
Untouched(h) ==
    \A g \in Handlers \ {h} : \/ pc'[g] = pc[g] /\ job'[g] = job[g]
                              \/ pc'[g] = "idle" /\ job'[g] = NoJob
Moves(h) == Nearer(h) /\ CopyWithin(h)' /\ Untouched(h)

LEMMA StageValues ==
  /\ Stage["idle"] = 0 /\ Stage["initRows"] = 1 /\ Stage["chunkCommit"] = 1
  /\ Stage["chunkPut"] = 2 /\ Stage["chunkRow"] = 3 /\ Stage["rmRow"] = 1
  /\ Stage["rmObjects"] = 2 /\ Stage["failing"] = 1 /\ Stage["announce"] = 2
  /\ Stage["pointer"] = 3 /\ Stage["publish"] = 4 /\ Stage["create"] = 5
  /\ Stage["cleanup"] = 6 /\ Stage["put"] = 7 /\ Stage["copy"] = 8
  /\ Stage["allocate"] = 9 /\ Stage["claim"] = 10
  BY PcFacts DEF Stage

LEMMA NotIdleIsAbove ==
  ASSUME NEW l \in Pcs, l # "idle" PROVE Stage["idle"] < Stage[l]
  BY PcFacts, StageValues

LEMMA ReturnMoves ==
  ASSUME TypeInv, NEW h \in Handlers, pc[h] # "idle", Return(h)
  PROVE  Moves(h)
  <1>1. pc \in [Handlers -> Pcs] /\ job \in [Handlers -> JobType] /\ pc[h] \in Pcs
    BY DEF TypeInv, TypeOK
  <1>2. pc'[h] = "idle" /\ job'[h] = NoJob /\ Untouched(h)
    BY <1>1 DEF Return, Untouched
  <1>3. NoJob.parts = << >>
    BY DEF NoJob
  <1> QED
    BY <1>1, <1>2, <1>3, NotIdleIsAbove DEF Moves, Nearer, CopyWithin

\* On to a place where the parts read so far no longer count.
LEMMA GotoMoves ==
  ASSUME TypeInv, NEW h \in Handlers, NEW l, l \notin {"idle", "claim", "allocate", "copy"},
         Goto(h, l), Stage[l] < Stage[pc[h]],
         \A g \in Handlers \ {h} : job'[g] = job[g]
  PROVE  Moves(h)
  <1>1. pc \in [Handlers -> Pcs]
    BY DEF TypeInv, TypeOK
  <1>2. pc'[h] = l /\ \A g \in Handlers \ {h} : pc'[g] = pc[g]
    BY <1>1 DEF Goto
  <1> QED
    BY <1>2 DEF Moves, Nearer, CopyWithin, Untouched

LEMMA CopyMoves ==
  ASSUME TypeInv, CopyBounded, NEW h \in Handlers, CopyChunk(h)
  PROVE  Moves(h)
  <1>1. /\ pc \in [Handlers -> Pcs] /\ job \in [Handlers -> JobType]
        /\ pc[h] = "copy" /\ job[h].payload \in Payloads
    BY DEF TypeInv, TypeOK, CopyChunk, At, JobsNamed, CompletePcs, AssemblyPcs
  <1> DEFINE n == ChunksOf[job[h].payload]
             s == job[h].parts
  <1>2. n \in Nat /\ s \in Seq(Payloads) /\ Len(s) \in Nat
    BY <1>1, UploadAssumption DEF JobType
  <1>3. CASE UNCHANGED job /\ (Goto(h, "put") \/ Goto(h, "failing"))
    <2>1. \A g \in Handlers \ {h} : job'[g] = job[g]
      BY <1>3
    <2> QED
      BY <1>1, <1>3, <2>1, GotoMoves, StageValues
  <1>4. CASE Restart
    <2>1. NoJob.parts = << >>
      BY DEF NoJob
    <2>2. pc'[h] = "idle" /\ job'[h] = NoJob /\ Untouched(h)
      BY <1>4 DEF Restart, Untouched
    <2> QED
      BY <1>1, <2>1, <2>2, StageValues DEF Moves, Nearer, CopyWithin
  <1>5. CASE /\ Len(s) < n /\ chunkObj[Len(s)] # None
             /\ job' = [job EXCEPT ![h].parts = Append(@, chunkObj[Len(s)])]
             /\ UNCHANGED pc
    <2>1. chunkObj[Len(s)] \in Payloads
      <3>1. Len(s) \in Indices
        BY <1>1, <1>2, <1>5, IndexOfChunk
      <3> QED
        BY <1>5, <3>1 DEF TypeInv, TypeOK
    <2>2. /\ job'[h].payload = job[h].payload /\ job'[h].parts = Append(s, chunkObj[Len(s)])
          /\ \A g \in Handlers \ {h} : job'[g] = job[g]
      BY <1>1, <1>5 DEF JobType
    <2> HIDE DEF s
    <2>3. Len(Append(s, chunkObj[Len(s)])) = Len(s) + 1
      BY <1>2, <2>1
    <2>4. Len(job'[h].parts) = Len(s) + 1 /\ Len(s) + 1 <= n
      BY <1>2, <1>5, <2>2, <2>3
    <2>5. Len(job'[h].parts) = Len(job[h].parts) + 1
      BY <2>4 DEF s
    <2> QED
      BY <1>1, <1>5, <2>2, <2>4, <2>5 DEF Moves, Nearer, CopyWithin, Untouched
  <1> QED
    BY <1>3, <1>4, <1>5 DEF CopyChunk

LEMMA ContinueMoves ==
  ASSUME TypeInv, CopyBounded, NEW h \in Handlers, Continue(h)
  PROVE  Moves(h)
  <1>0. pc \in [Handlers -> Pcs] /\ job \in [Handlers -> JobType] /\ job[h] \in JobType
    BY DEF TypeInv, TypeOK
  <1>1. CASE InitChunkRows(h) \/ CommitChunk(h) \/ MarkFailed(h) \/ RemoveRow(h)
    BY <1>1, ReturnMoves DEF InitChunkRows, CommitChunk, MarkFailed, RemoveRow, At
  <1>2. CASE ReadChunkRow(h)
    <2>1. CASE Return(h)
      BY <1>2, <2>1, ReturnMoves DEF ReadChunkRow, At
    <2>2. CASE /\ job' = [job EXCEPT ![h].isNew = (rows[job[h].idx] # "VERIFIED")]
               /\ Goto(h, "chunkPut")
      <3>1. \A g \in Handlers \ {h} : job'[g] = job[g]
        BY <2>2, <1>0
      <3> QED
        BY <1>2, <2>2, <3>1, GotoMoves, StageValues DEF ReadChunkRow, At
    <2> QED
      BY <1>2, <2>1, <2>2 DEF ReadChunkRow
  <1>3. CASE PutChunk(h)
    BY <1>3, ReturnMoves, GotoMoves, StageValues DEF PutChunk, At
  <1>4. CASE Claim(h)
    <2>1. CASE Return(h)
      BY <1>4, <2>1, ReturnMoves DEF Claim, At
    <2>2. CASE Goto(h, "allocate") /\ UNCHANGED job
      <3>1. pc'[h] = "allocate" /\ pc[h] = "claim" /\ Untouched(h)
        BY <1>0, <1>4, <2>2 DEF Claim, At, Goto, Untouched
      <3>2. job[h].parts = << >>
        BY <3>1 DEF CopyBounded, CopyWithin
      <3> QED
        BY <2>2, <3>1, <3>2, StageValues DEF Moves, Nearer, CopyWithin
    <2> QED
      BY <1>4, <2>1, <2>2 DEF Claim
  <1>5. CASE AllocateVersion(h)
    <2>1. CASE Return(h)
      BY <1>5, <2>1, ReturnMoves DEF AllocateVersion, At
    <2>2. ASSUME NEW n, job' = [job EXCEPT ![h].next = n], Goto(h, "copy") PROVE Moves(h)
      <3>1. pc'[h] = "copy" /\ pc[h] = "allocate"
            /\ \A g \in Handlers \ {h} : pc'[g] = pc[g] /\ job'[g] = job[g]
        BY <1>0, <1>5, <2>2 DEF AllocateVersion, At, Goto
      <3>2. job'[h].parts = job[h].parts /\ job'[h].payload = job[h].payload
        BY <1>0, <2>2 DEF JobType
      <3>3. job[h].parts = << >> /\ job[h].payload \in Payloads
        BY <3>1 DEF CopyBounded, CopyWithin, TypeInv, JobsNamed, CompletePcs
      <3>4. Len(job'[h].parts) <= ChunksOf[job'[h].payload]
        BY <3>2, <3>3, UploadAssumption
      <3> QED
        BY <3>1, <3>4, StageValues DEF Moves, Nearer, CopyWithin, Untouched
    <2> QED
      BY <1>5, <2>1, <2>2 DEF AllocateVersion
  <1>6. CASE CopyChunk(h)
    BY <1>6, CopyMoves
  <1>7. CASE FinishAssembly(h) \/ DeleteChunks(h) \/ CreateVersion(h) \/ PublishVersion(h)
             \/ SetPointer(h)
    <2>1. CASE FinishAssembly(h)
      BY <2>1, GotoMoves, StageValues DEF FinishAssembly, At
    <2>2. CASE DeleteChunks(h)
      BY <2>2, GotoMoves, StageValues DEF DeleteChunks, At
    <2>3. CASE CreateVersion(h)
      BY <2>3, GotoMoves, StageValues DEF CreateVersion, At
    <2>4. CASE PublishVersion(h)
      BY <2>4, GotoMoves, StageValues DEF PublishVersion, At
    <2>5. CASE SetPointer(h)
      BY <2>5, GotoMoves, StageValues DEF SetPointer, At
    <2> QED
      BY <1>7, <2>1, <2>2, <2>3, <2>4, <2>5
  <1>8. CASE Announce(h)
    <2>1. CASE Return(h)
      BY <1>8, <2>1, ReturnMoves DEF Announce, At
    <2>2. CASE Goto(h, "failing") /\ UNCHANGED job
      BY <1>8, <2>2, GotoMoves, StageValues DEF Announce, At
    <2> QED
      BY <1>8, <2>1, <2>2 DEF Announce
  <1>9. CASE RemoveObjects(h)
    <2>1. CASE Return(h)
      BY <1>9, <2>1, ReturnMoves DEF RemoveObjects, At
    <2>2. CASE Goto(h, "rmRow") /\ UNCHANGED job
      <3>1. pc[h] = "rmObjects"
        BY <1>9 DEF RemoveObjects, At
      <3> QED
        BY <2>2, <3>1, GotoMoves, StageValues
    <2> QED
      BY <1>9, <2>1, <2>2 DEF RemoveObjects
  <1> QED
    BY <1>1, <1>2, <1>3, <1>4, <1>5, <1>6, <1>7, <1>8, <1>9 DEF Continue

\* A request that begins, whichever it is, has read no chunk yet.
LEMMA BeginMoves ==
  ASSUME TypeInv, CopyBounded, NEW h \in Handlers, Begin(h)
  PROVE  /\ pc[h] = "idle" /\ CopyWithin(h)'
         /\ \A g \in Handlers \ {h} : pc'[g] = pc[g] /\ job'[g] = job[g]
  <1>0. pc \in [Handlers -> Pcs] /\ job \in [Handlers -> JobType] /\ job[h] \in JobType
    BY DEF TypeInv, TypeOK
  <1>1. pc[h] = "idle"
    BY DEF Begin, InitUpload, InitVersionUpload, UploadChunk, CompleteUpload, RemoveFile, At
  <1>2. job[h].parts = << >>
    BY <1>1 DEF CopyBounded, CopyWithin
  <1>3. ASSUME NEW p \in Payloads, NEW name \in Names, NEW mime \in Mimes,
               InitUpload(h, p, name, mime) \/ InitVersionUpload(h, p, name, mime)
        PROVE  pc'[h] \in {"idle", "initRows"} /\ job'[h].parts = job[h].parts
               /\ \A g \in Handlers \ {h} : pc'[g] = pc[g] /\ job'[g] = job[g]
    <2>1. CASE InitUpload(h, p, name, mime)
      BY <1>0, <2>1 DEF InitUpload, Goto, JobType
    <2>2. CASE InitVersionUpload(h, p, name, mime)
      BY <1>1, <2>2 DEF InitVersionUpload
    <2> QED
      BY <1>3, <2>1, <2>2
  <1>4. ASSUME NEW p \in Payloads, NEW i \in 0 .. ChunksOf[p] - 1, UploadChunk(h, p, i)
        PROVE  pc'[h] = "chunkRow"
               /\ \A g \in Handlers \ {h} : pc'[g] = pc[g] /\ job'[g] = job[g]
    BY <1>0, <1>4 DEF UploadChunk, Goto
  <1>5. CASE CompleteUpload(h)
    <2>1. pc'[h] = "claim" /\ \A g \in Handlers \ {h} : pc'[g] = pc[g] /\ job'[g] = job[g]
      BY <1>0, <1>5 DEF CompleteUpload, Goto
    <2>2. job'[h].parts = job[h].parts
      BY <1>0, <1>5 DEF CompleteUpload, JobType
    <2> QED
      BY <1>1, <1>2, <2>1, <2>2 DEF CopyWithin
  <1>6. CASE RemoveFile(h)
    <2>1. pc'[h] = "rmObjects" /\ \A g \in Handlers \ {h} : pc'[g] = pc[g] /\ job'[g] = job[g]
      BY <1>0, <1>6 DEF RemoveFile, Goto
    <2> QED
      BY <1>1, <2>1 DEF CopyWithin
  <1>7. CASE \E p \in Payloads, name \in Names, mime \in Mimes :
                InitUpload(h, p, name, mime) \/ InitVersionUpload(h, p, name, mime)
    BY <1>1, <1>2, <1>3, <1>7 DEF CopyWithin
  <1>8. CASE \E p \in Payloads : \E i \in 0 .. ChunksOf[p] - 1 : UploadChunk(h, p, i)
    BY <1>1, <1>4, <1>8 DEF CopyWithin
  <1> QED
    BY <1>5, <1>6, <1>7, <1>8 DEF Begin

LEMMA HandlersDescend ==
  TypeInv /\ CopyBounded /\ [Next]_vars =>
      CopyBounded' /\ \A h \in Handlers : HandlerAdvances(h)
  <1> SUFFICES ASSUME TypeInv, CopyBounded, [Next]_vars
               PROVE  CopyBounded' /\ \A h \in Handlers : HandlerAdvances(h)
    OBVIOUS
  <1>0. pc \in [Handlers -> Pcs] /\ NoJob.parts = << >>
    BY DEF TypeInv, TypeOK, NoJob
  <1>1. \A h \in Handlers : Continue(h) => Moves(h)
    BY ContinueMoves
  \* What each handler can meet: nothing, its own step, its beginning, or its end.
  <1>2. \A h \in Handlers :
            \/ pc'[h] = pc[h] /\ job'[h] = job[h]
            \/ pc'[h] = "idle" /\ job'[h] = NoJob
            \/ Moves(h)
            \/ pc[h] = "idle" /\ CopyWithin(h)'
    <2>1. CASE UNCHANGED vars
      BY <2>1 DEF vars
    <2>2. CASE Crash
      BY <2>2 DEF Crash, Restart
    <2>3. ASSUME NEW g \in Handlers, Continue(g)
          PROVE  Moves(g) /\ Untouched(g)
      BY <2>3, <1>1 DEF Moves
    <2>4. ASSUME NEW g \in Handlers, Begin(g)
          PROVE  /\ pc[g] = "idle" /\ CopyWithin(g)'
                 /\ \A h \in Handlers \ {g} : pc'[h] = pc[h] /\ job'[h] = job[h]
      BY <2>4, BeginMoves
    <2> QED
      BY <2>1, <2>2, <2>3, <2>4 DEF Next, Untouched
  <1>3. ASSUME NEW h \in Handlers PROVE CopyWithin(h)' /\ HandlerAdvances(h)
    <2>1. CASE pc'[h] = pc[h] /\ job'[h] = job[h]
      <3>1. CopyWithin(h)'
        BY <2>1 DEF CopyBounded, CopyWithin
      <3>2. HandlerAdvances(h)
        BY <2>1, <1>1 DEF HandlerAdvances, Moves
      <3> QED
        BY <3>1, <3>2
    <2>2. CASE pc'[h] = "idle" /\ job'[h] = NoJob
      BY <2>2, <1>0, NotIdleIsAbove DEF CopyWithin, HandlerAdvances, Nearer, At
    <2>3. CASE Moves(h)
      BY <2>3 DEF Moves, HandlerAdvances
    <2>4. CASE pc[h] = "idle" /\ CopyWithin(h)'
      BY <2>4 DEF HandlerAdvances, At
    <2> QED
      BY <1>2, <2>1, <2>2, <2>3, <2>4
  <1> QED
    BY <1>3 DEF CopyBounded

\* Every step of a request brings it nearer to its end, however requests overlap and
\* whatever fails: the copy loop reads at most the chunks of the payload it was
\* accepted for, even when another session replaces them meanwhile.
THEOREM UploadAdvances ==
  Spec => []CopyBounded /\ [][\A h \in Handlers : HandlerAdvances(h)]_vars
  <1>1. Init => CopyBounded
    <2>1. NoJob.parts = << >>
      BY DEF NoJob
    <2> QED
      BY <2>1 DEF Init, CopyBounded, CopyWithin
  <1>2. TypeInv /\ CopyBounded /\ [Next]_vars => CopyBounded'
    BY HandlersDescend
  <1>3. TypeInv /\ CopyBounded /\ [Next]_vars
            => [\A h \in Handlers : HandlerAdvances(h)]_vars
    BY HandlersDescend
  <1> QED
    BY <1>1, <1>2, <1>3, TypeInvAlways, PTL DEF Spec
=============================================================================
