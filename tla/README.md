# TLA+ models of Pravah

Pravah is a content-delivery network: a NestJS control plane (`apps/core`), edge
servers (`apps/edge`), PostgreSQL through Prisma, MinIO for objects, Redis for
caches and locks, Kafka for events and BullMQ for jobs. This directory holds
TLA+ models of the parts whose correctness depends on the order of steps, TLC
configurations that check them on small instances, and TLAPS proofs of what
matters most for every instance.

`PROJECT.json` lists the components, the runs, the source lines of every
definition, the hazards, the findings and the theorems. Each property has a
*mutant*: a plausible wrong version of a definition, kept next to it, with which
TLC finds the property violated.

## 1. Inventory

| Component | State | Operations | What is hard |
|---|---|---|---|
| Upload (`upload.service.ts`, `minio.service.ts`) | `File`, `FileChunk`, `FileVersion` rows, chunk and version objects, Redis pointer | initUpload, initVersionUpload, uploadChunk, completeUpload | requests overlap at every await; chunk keys are shared by all sessions; several rows, objects and events per completion |
| Metadata (`metadata.service.ts`) | the same rows | remove, reads, rename | removal under an upload, a fill or a transcode |
| Replication, core (`replication/`) | one `ReplicationStatus` row per file and edge, queue `replication.normal`, shared hash ring | dispatch, worker, DLQ replay/purge/retry, fail-over | three producers and any number of jobs write one row; upsert and enqueue are two calls; redelivery; jobs that stall and runs that go on without their job |
| Replication, edge (`edge/src/replication`) | the edge's queue and cache | fetch and cache | never reports to the row; which version's key it fills |
| Health (`health-check.service.ts`, edge `heartbeat.service.ts`) | heartbeat keys with TTL, node map in memory, `EdgeNode` rows | heartbeat, scan every 5 s, refresh every 300 s | overlapping timers, records replaced under a suspended scan, failed writes |
| Core cache (`cache-manager`, `download`, `edge-content`) | `:data`, `:meta`, `cache:lru`, `cache:size`, `file:{id}:keys`, lock keys | download, fill, evict, invalidate, stampede lock | counters updated from earlier reads and by declared sizes; expiring lock; fire-and-forget LRU update; pipelines cut short |
| Transcoding (`transcoding/`) | `VideoTranscode` rows, temp directory, HLS objects, BullMQ job | probe, transcode, upload, publish | partial failure, retries and stalled jobs over old results |
| Edge cache and content (`edge/src/cache`, `edge/src/content`) | Redis and disk entries of an edge, lock keys | serve users and peers, fill from peer or origin, evict, purge | files rewritten under a reader, expiring lock, keys of versions, accounting of disk entries |
| HLS playback (`getHlsContent` of edge and core) | `hls:*` keys, segments on disk | serve playlists and segments, cache them in tasks nobody waits for | players ask for what is not uploaded yet; files written in place under readers, purges and crashes; refusals that HTTP caches keep |
| Hash ring, placement, routing | virtual nodes | getNodes, selectBestEdge | binary search, wrap-around, ties |
| Auth (`auth/auth.service.ts`) | `auth:refresh:*` keys, sets per family and user | login, refresh, revokeFamily | state read and rotated later; a revocation deletes member by member; pipelines cut short |
| Rate limit (`common/guards`) | a counter per route and client, memory stores | canActivate, once per guard of the route | incr and expire are two calls; two guards share a counter |
| Telemetry, metrics, dashboard, infra | display only | – | – |

Interaction: `completeUpload` emits `file.uploaded` or `file.version_created`
(and `cache.invalidate` from version 2 on) and queues transcoding. Replication
consumes the file events, takes healthy edges from the health service, and fills
the core cache and, through the edges' own queues, the edge caches. The health
service emits `edge.health_changed`, which starts fail-over. `remove` deletes
objects and rows and emits `cache.invalidate`. Transcoding writes the HLS objects that
edges and core serve to players.

## 2. Modules

One step of a model is what runs between two awaits: one database statement or
transaction, one object-store call, one Redis command, pipeline or script. What a
handler read earlier is part of its state and may be stale.

| Module | Models |
|---|---|
| `UploadSession` | one file: sessions, chunks, assembly, versions, removal |
| `ReplicationJobs` | the rows of one file, dispatch, fail-over, admin calls, core worker |
| `EdgeHealth` | the record of one edge in the health service |
| `CoreCache` | the core's cache in Redis, downloads, fills, eviction, invalidation |
| `Transcoding` | one transcoding job |
| `HlsDelivery` | players of one video at an edge and at the core, while it is transcoded |
| `RefreshTokens` | the refresh tokens of one user |
| `RateLimit` | the guards and counters of one route and client |
| `EdgeContent` | one file at several edges: requests, peer and origin fills, replication workers, Redis and disk entries |
| `EdgeFailover` | `ReplicationJobs` with `EdgeHealth` as the source of one edge's health |
| `VideoPlayback` | `Transcoding` with `HlsDelivery` as its readers |
| `VersionHistory`, `LeaseLock`, `HlsOutput` | abstract specifications, see below |
| `*Proofs` | theorems about the module of that name, section 4; those about the compositions are in `ReplicationJobsProofs` and `TranscodingProofs` |
| `MC*` | instances for TLC |

**UploadSession.** `file`, `rows` and `versions` are the Prisma rows, `chunkObj` and
`objects` the object store, `pointer` the Redis key `file:{id}:current`, `outbox`
the emitted Kafka events, `pc` and `job` the suspended requests. A payload
stands for the bytes of one client file; a version's content is the sequence of
the payloads its chunks were taken from, so that a mixture is visible. The actions
follow the statements of the source: `Claim` is the conditional `updateMany`,
`AllocateVersion` the read of the highest number (outside the `try`), `CopyChunk`
the reads of assembly, `CreateVersion` the insert with its unique index,
`MarkFailed` the `catch`. The two assemblies differ in what a failed read does:
`assembleChunks` throws, `assembleAndCompressChunks` destroys a stream that has no
error listener, which ends the process. `Faults` selects the calls that may fail;
`Orderly` restricts the client to one that ends a phase before it starts the next,
as the dashboard does.

**ReplicationJobs.** `row` has a status and `isDeadLetter` per edge; `jobs` are the
jobs of the core queue with the attempts they made and the times they stalled; `task` is
what the consumer of file events, the consumer of health events and the admin calls are
doing. `Upsert`
and `Enqueue` are separate since there is an await in between. Fail-over reads the
healthy edges and the rows of the dead edge (`Failover`), chooses targets from the
shared ring (`ChooseTargets`), reads all rows (`PlanFailover`), then upserts and
queues. `getNodes` is modelled by its meaning: the first *k* edges clockwise.
A worker that dies or is held up loses its job (`Stalled`): BullMQ queues it again without
counting an attempt, and fails it without calling `process()` when it has stalled too
often (once is forgiven). `late` are the runs that go on after that and still write the row. `orphaned` is a
history variable for the four ways the code loses a row, `owed` one for the dead letters
that were neither purged nor followed by a success. The health of
the edges in `Fragile` is an input: initially what the database says, later whatever
`HealthChange` allows, which is no more than what the health service can do
(`EdgeFailover`). An event DOWN may be sent after the edge has become HEALTHY again, as
a refresh can swap the record between the change of the status and its write.

**EdgeHealth.** `current` is the record in the map, `former` the one a refresh
replaced; a scan goes on with the record it had, while `transitionStatus` looks
the node up again.

**CoreCache.** `lru` is the order of the sorted set: the pairs of an older and a newer
key. `Size` is the length of a version's bytes, `Declared` the size in its FileVersion row,
which the client announced and nobody compares with the bytes; `meta` is the size in the
metadata, which the eviction and the purge subtract: the declared one after a download's
fill, the true one after a replication's. `Total` is the size of a set of objects as the
number of their bytes, which spares the proofs an induction over the cache. `drifted`
records the steps that make `cache:size` wrong: a fill that used a previous size that was
no longer true or declares another size than it stores, a pipeline that was cut
(`CacheFileCut`: Redis has executed the first commands only), a reset that met a
non-empty cache. `broken` are the keys whose last pipeline was cut, `cutShort` says that a
fill ended by an error or a crash.

**Transcoding.** Rows by profile, the temp directory, the objects in the store, and
the position of `process()`. Every call may throw; a crash gives the job to a
worker again once, as BullMQ's default does.

**EdgeContent.** `meta`, `data` and `keys` are the Redis keys of each edge, `disk` the
files of its large versions, `lock` its stampede locks, `jobs` the queues of the edge
workers, `proc` the requests and job runs under way. The bytes of version *n* are *n*,
so that a mix-up of versions is visible; `Torn` are those of a file that `writeFile`
has truncated and not yet filled. A request reads the metadata and then the bytes,
takes the lock, looks up the placement (`PlacementService.getPlacement`), asks the
peers one after the other (each reads its own cache) and then the origin. The
edge worker stores under `TargetVersion`, which is 1 because `findInternalFile`
returns no version number. A SET of the lock that fails may have been executed
(`AcquireFails`). Other files share an edge's cache, so that an entry may be evicted at any
time. Each edge has a Redis database of its own, as in
`infra/docker/docker-compose.edge.yml`.

**HlsDelivery** extends `HlsOutput`: the transcoding is present as its promise only, and
every step is one of the transcoding's (the first disjunct of `Next`) or one of players,
edge and core. `ram` and `coreRam` are the `hls:*` keys of the two Redis servers, `disk`
the segments of the edge (`torn` between truncation and the end of `writeFile`), `fill`
the task that caches an answer after it has been sent. `atCore` are the viewers whose
URLs lead to the core; it is chosen once, since playlists lead to where they come from.
`urlOnly` are those of them whose credentials are in the URL of the master playlist: the
core does not rewrite playlists, so that their URLs of the profiles are answered with 401.
`kept` are the refusals that an HTTP cache (a browser, or nginx, which viewers share) has
kept: a 404 or 500 is sent with the `Cache-Control` of the content. A refusal of the
master playlist goes after a minute (`RefusalExpires`), one of a segment stays until the
viewer has a fresh link, and with it new URLs (`NewLink`); URLs at the core do not change.
`cut` records segments whose write failed or died half-way.

**RefreshTokens.** `token` are the keys `auth:refresh:{user}:{jti}` (`none`, `live`,
`consumed`), `members` and `listed` the sets of a family and of the user. A pipeline is
one step that executes its first *n* commands, all of them unless there is an error.
`raced` records families in which a token was rotated after it had been consumed or
deleted, or while the family was being revoked; `broken` those with a pipeline or a
revocation that was cut short. The properties are about the other families: the code
promises nothing for these.

**RateLimit.** `count` and `ttl` are the counter in Redis, `memory` the fallback of each
guard, `pass` where each request is. A call may be rejected before or after Redis has
executed it. `arrived` counts requests and not guards, so that the share of each is
visible; a client that comes again is a new request.

**Abstract specifications.** Each says what the users of a component may rely on,
without its steps, and a run checks that the detailed module implements it.

| Abstract | Implemented by | Mapping | Says |
|---|---|---|---|
| `VersionHistory` | `UploadSession` (orderly client) | the sequence of checksum and bytes of the version rows; empty once removed | versions are only appended, each is a whole payload, none ever changes |
| `LeaseLock` | `CoreCache` | the lock key; the lock a request believes it holds | a lock is taken when free and freed by its holder or by time, never by a former holder |
| `HlsOutput` | `Transcoding` | the variables of the same names | objects only appear, the playlist first; announced means complete |

`HlsDelivery` is checked against `HlsOutput` instead of `Transcoding`; that this covers
playback during a transcoding with all its failures and retries is a theorem
(`PlaybackComposes`).

**Compositions.** `EdgeFailover` joins replication and the health service of one edge
where they meet: `getHealthyNodes` filters the node map that the scans write, and
`transitionStatus` emits `edge.health_changed` after its database update (`SaysDown`).
`VideoPlayback` joins the transcoder and the delivery, which meet in the object store and
in the row of the file. Each step is one of either side. The product of two state spaces
is beyond a run; instead it is proved that the composed system satisfies the
specifications of both parts (without their fairness), so that the safety properties of
each hold of the two together.

## 3. Runs

| Run | Shows |
|---|---|
| `upload_overlap` | Two requests overlap freely, with database and queue errors. `VersionsContiguous`, `AnnouncedOnce`, `VersionsHaveObjects` hold all the same. |
| `upload_orderly` | An orderly client with retries, store, database and Redis errors, crashes. `ImplementsHistory`, `ExclusiveAssembly`, `CurrentIsLatest`, `StatusFollowsLifecycle`, `CompletionsEnd`; `StuckOnlyByDatabaseOrCrash`: a file loses the request that moves it out of `ASSEMBLING` only by a database error or a death of the process. |
| `replication_jobs` | Two edges, two jobs of one attempt, no stall forgiven, one admin call, two handlers at a time: `NoStrandedRow`. |
| `replication_settles` | One row, dispatch and two admin calls, two jobs of two attempts and one stall, a run that goes on without its job: `DeadLetterKept`, `RowsSettle`. |
| `edge_content` | Two versions at two edges, three requests or job runs, one eviction, purge, error, expiry or crash: `VersionExact`, `Coalesced`, `LockHasOwner`. |
| `edge_health` | Two overlapping scans, refreshes, two failed calls: `Recovers`, `DetectsCrash`. |
| `cache_accounting` | A download and a replication fill, two versions that do not fit together and were declared too small, pipelines cut: `StoredIsEvictable`, `SizeAccounted`, `WithinLimit`. |
| `stampede_lock` | Two downloads, one key declared too large, a lock that may expire at any time, pipelines cut: `ImplementsLease`, `RequestsEnd`. |
| `transcoding` | Up to three profiles, two attempts, one stall: `ImplementsHlsOutput`, `OutcomeRecorded` (a completed job left all rows ready, one that is over left none PENDING or PROCESSING), `JobEnds`. |
| `hls_delivery` | Two viewers, the second at the edge or at the core, with or without credentials for the profile, one profile, two failures, refusals kept or not: `AnnouncedIsServed`, `TornOnlyAfterCut`. |
| `refresh_tokens` | Two refresh requests, four tokens, one failure: `OneLivePerFamily`, `LiveIsListed`, `RevocationReaches`. |
| `rate_limit` | Three requests, two guards, limit 4, five failures: `RefusedBeyondShare`, `CounterEnds`. |

The findings in `PROJECT.json` are places where a document, a comment or the schema says
something else than the code does:

- a failed chunk read while a compressible file is assembled ends the process and leaves
  the file in `ASSEMBLING` (`CopyChunk`, one of the exceptions of
  `StuckOnlyByDatabaseOrCrash`);
- after a failed write on recovery the miss counter of an edge is not reset, and it is
  declared DOWN before three consecutive misses;
- replication caches every version under the key of version 1, and peers pass it on
  (the exception of `VersionExact`);
- a replication row is COMPLETE whether or not the edge got the file;
- a replication job that stalls twice is failed without `process()`: its row stays
  IN_PROGRESS and is no dead letter (an exception of `NoStrandedRow`);
- `cache:size` goes up by the length of the bytes and down by the declared size, so that a
  wrong declaration alone lets the cache outgrow its limit (an exception of
  `SizeAccounted` and `WithinLimit`);
- the 404 of a segment that is not there yet is sent with `immutable` and a year, and
  nginx, which means to keep it for ten seconds, obeys the header (the exception of
  `AnnouncedIsServed`);
- the dashboard plays through the core without credentials, and the core's playlists
  carry none on;
- a refresh token is not marked consumed atomically: it is read, and marked later
  (the exception of `OneLivePerFamily`);
- a request at an edge that does not get the stampede lock waits 500 ms once and goes to
  the origin, where the README has it poll;
- a transcoded profile is COMPLETED before its upload, and stays so when the upload fails
  on the last attempt (`OutcomeRecorded` speaks of jobs that complete);
- the edges do not listen to `cache.invalidate`;
- a request to `auth/*` is counted by two guards under one key, so that half of what the
  comments name is granted (`RefusedBeyondShare` says `Limit / Guards`);
- the window of the rate limiter is fixed, not sliding.

What the passing runs leave open, because the code does: `SizeAccounted` and
`WithinLimit` hold only while no fill has declared a wrong size or used a stale previous
size, no pipeline was cut and no reset met a non-empty cache; `StoredIsEvictable` leaves
out keys whose last pipeline was cut; `VersionExact` leaves out version 1 and allows bytes
that are cut short; `OneLivePerFamily`, `LiveIsListed` and `RevocationReaches` leave out
families in which two uses of one token or a rotation and the revocation overlapped, or a
call was cut short: these are the races themselves, which the code does not prevent, and
the properties say that their damage stays within the family; `CounterEnds` leaves out a
counter whose `expire` was never executed; `TornOnlyAfterCut` allows a segment to be
served while it is being written, and speaks of the endpoint, not of what nginx or a
browser does with such an answer; `AnnouncedIsServed` leaves out a segment whose refusal an
HTTP cache keeps and players at the core without credentials for the profiles;
`NoStrandedRow`, `DeadLetterKept` and `RowsSettle` leave out a row after one of four
events: a handler interrupted between upsert and `queue.add`, a worker whose last database
update failed, a job that stalled once too often, a late run that wrote over what was
settled. Without an orderly client a version's content may mix two payloads, and a second
request can enter assembly after `initVersionUpload` has reset the status of a file that
is being assembled (README line 633 speaks of the single `updateMany` only).

**Bounds.** Two handlers are enough for every pair of requests to overlap. Two
payloads, one of two chunks and one of one, let a new session have fewer chunks
than the last; two versions let a number be reused or skipped. Two edges with
replication factor 1 give fail-over a replacement; `MaxAttempts = 2` has a first and a
last attempt (on two edges 1 keeps the run short, and there no stall is forgiven); one run
without its job at a time meets every other writer of the row. `Threshold = 3` is the code's; two scans are the most the 5 s timer
overlaps unless a call takes 10 s; `ScansPerRefresh = 4` (60 in the code) leaves
room for a full count between refreshes, which the fairness argument needs, and
keeps refreshes frequent. In `CoreCache` two versions of two bytes with limit 3 fit alone and not together, and one
declared byte for two, or two for one, take the counter either way; no request and no
purge starts when `cache:size` is off by more than `MaxDrift` or more than `MaxBroken` keys
are broken, so that the damage, once done, does not add up for ever, while everything
under way at that moment still ends. In `EdgeContent` three processes let a replication fill one
edge while two requests of another compete; one edge is responsible for the file,
so that the other has a peer to ask; the second version is on disk. In `HlsDelivery` two viewers
are two writers of a segment, or a writer and a reader; a viewer asks again only when the
task that caches its last answer is over, and what that task would meet is met by the
other viewer. In `RefreshTokens` four tokens are two families of two or one of four, enough
for a rotation of a rotated token; two requests are a rotation and a revocation, or two of
either. In `RateLimit` the limit 4 with two guards grants two requests and refuses the
third, and five failures let a guard's memory store refuse as well; no request enters once
a counter exceeds the limit. `MaxFaults`, `MaxErrors`,
`MaxMishaps`, `MaxPending`, `Slots`,
`MaxBusy`, `MaxVersions` bound counters and queues. Symmetry (handlers, slots, processes, requests) is
used only in runs without liveness.

**Deadlock** is not checked: with all work done every system here may rest.

**Fairness.** Weak fairness of the continuation of each handler: Node's event loop
resumes a function whose await has settled, and the clients of PostgreSQL,
MinIO and Redis settle every call. Weak fairness of workers: BullMQ hands out a
waiting job as long as a worker runs. Timers of `@Interval` keep firing. Redis drops a
key whose time to live is over (`WindowEnds`), and an HTTP cache a playlist that is out of date (`RefusalExpires`). A player
asks again for what it did not get, as `AnnouncedIsServed` speaks of players that do; that
it fetches a fresh link is not assumed. Nothing else is
assumed of clients, nothing of the progress of a transcoding, of heartbeats, of faults or of crashes, none of which is ever
forced. `Recovers` and `DetectsCrash` are conditional on the heartbeat being
finally present or finally absent.

## 4. Proofs

Every invariant and every action property the runs check, all three refinements and
both compositions are theorems, for any sets of handlers, requests, payloads, edges,
keys and profiles and any bound that satisfy the `ASSUME` of the module; TLC evaluates
the assumptions in each run. None bounds the system more than the code does: sizes and
limits are numbers, the sentinels are not members of the sets they are added to, and
the edges and the requests under way are finitely many where they are counted.

Each proof has the same form. A property is seldom inductive, since it speaks of rows,
keys and files, while what keeps it true is what suspended handlers hold; the
strengthening says what each handler may rely on at each of its awaits. `TypeInv` is the
type invariant with the part of this that types need. A `Next` lemma then has one step
per action, and the theorem combines it with `Init`.

**Progress.** Liveness itself is out of the prover's reach, since it needs ENABLED and
fairness. What a reader of the code would argue about is the other half: that no overlap, retry
or loop sends a handler back. The theorems `...Advances` state it as action properties:
every step of a handler under way, and every step of another that touches it, ends it
or decreases a measure that cannot decrease for ever, and the accompanying invariant is
what keeps the measure in its domain. Together with the fairness of section 3 this is
why the `...End` properties hold; that the next step is always enabled, and the
conclusion, stay with TLC. The measures are numbers, pairs of numbers, or sets of edges
still to do, of which there are finitely many.

`UploadSessionProofs`

- `UploadTypeCorrect`: `Spec => []TypeOK`. `TypeOK` alone is not inductive:
  `ChunksOf[file.checksum]` must be applied to a payload and `DestinationKey` must be a
  key. `TypeInv` adds that an existing file, its version rows and each request past
  its start carry a payload and a name.
- `UploadVersionsContiguous`, `UploadVersionsHaveObjects`: from `SafeInv`. A
  completion computes its number long before it writes the row; the strengthening
  says that the number it holds follows an existing version (`NumberFollows`), that
  the parts it has copied are complete once it leaves the copy loop
  (`PartsComplete`), and that its object is written from then on unless remove has
  deleted objects (`ObjectWritten`). Steps that leave versions, objects and
  completions alone are dealt with by one lemma.
- `UploadAnnouncedOnce`: from `AnnounceInv`. Requests overlap freely and several may hold
  one number, but only the one whose insert succeeded comes to announce it; a number
  whose row was created is never free again, except by remove, after which no row is
  created.
- `UploadStuckOnly`: the action property, from `TypeInv`.
- `UploadExclusive`, `UploadCurrentIsLatest`, `UploadLifecycle` and `UploadIsHistory` have
  the hypothesis `Orderly`, the constant that says the client ends a phase before it
  starts the next; without it they are false, as section 3 says. `PhaseInv`: only
  requests of one phase overlap, one completion is past the claim, and the status is
  what a handler found or set. `NumberInv`: the number of a completion is the next one
  until its row is created and the highest one from then on. `ContentInv`: a chunk that
  counts as VERIFIED in a session was stored by it (chunk keys are shared by all
  sessions, and a retried chunk of an earlier one would break this), the parts a
  completion has read are of its payload, the object it has written is whole, and so are
  those of all versions. From it, each step appends a whole version, removes the file, or
  is a stuttering step of `VersionHistory`.
- `UploadWholeVersions` states the part of `ContentInv` that stands for itself.
- `UploadAdvances`: progress of every request, with overlapping ones (no `Orderly`). The
  measure is the place (`Stage`) and, in the copy loop, the chunks still to read;
  `CopyBounded` says that the loop ends at the number of chunks of the payload the request
  was accepted for, even if another session changes the rows.

`ReplicationJobsProofs`

- `ReplicationTypeCorrect`: a job in the queue always has an attempt left.
  `TypeInv` adds that jobs and tasks in progress name an edge and that a dispatch
  under way holds its event.
- `ReplicationNoStrandedRow`: `NoStrandedRow` is inductive relative to `TypeInv`.
  The heart is that `isFinalAttempt` in the worker and the limit in BullMQ agree, and that
  whatever takes the last job of an unsettled row away is one of the four named events.
- `ReplicationKeepsDeadLetters`: `DeadLetterKept`, with `NoStrandedRow`: `owed` and the row agree
  on what is still on the list, and a row that is off the list and not settled has its
  job, its handler or is orphaned.
- `HealthTypeCorrect`: the type invariant of `EdgeHealth`, which is inductive.
- `FailoverComposes`: `SystemSpec => Spec /\ H!Spec`, from `SystemInv`: the types of both
  parts and `Shown`, their agreement on whether the edge is healthy. Each step of the health
  service is a `HealthChange` of the edge or changes nothing replication sees. The first
  attempt failed on `Write`: `HealthChange` allowed an event DOWN only while the
  edge was not healthy, and a refresh that swaps the record under a suspended scan makes it
  healthy in between. TLC then showed such a behaviour of eight steps; the guard was
  removed, and all runs and theorems hold without it. That initially every edge was healthy
  was too narrow as well, and was corrected. The hypotheses are the assumptions of
  `EdgeHealth` on its constants and that the edge is one whose health may change.
- `NoStrandedRowAtFailover`: `NoStrandedRow` and `DeadLetterKept` of the composed system.
- `ReplicationAdvances`: progress of jobs and handlers. A job has at most `MaxAttempts`
  attempts and `MaxStalls` reruns; a handler's loop goes round with one edge less. `QueuesItsOwn`: the edge a
  handler queues is one it has still to do.
- `VerdictStays`: once map, database, refresh and all scans under way agree on HEALTHY or
  DOWN (`Settled`), every step keeps this as long as the heartbeat stays as it is. This is
  the part "for good" of `Recovers` and `DetectsCrash`; that they come to agree is left
  to TLC.

`TranscodingProofs`

- `TypeCorrect`: `TypeInv` adds that `process()` runs exactly while BullMQ counts the job
  as active, and that its loops stay within the applicable profiles.
- `Refinement`: `Spec => ImplementsHlsOutput`. `Uploaded` says what a run has stored at
  each point of its upload, so that what it announces is complete; a retry starts over
  the objects of the last attempt, which stay.
- `RowsTellOutcome`: `RowInv` says which rows are COMPLETED at each point, that a removed
  file has no rows, and that a failed run has written so.
- `PlaybackComposes`: `PlaybackSpec => Spec /\ D!Spec`, with `Uploaded`: each step of the
  transcoder is a step that `HlsDelivery` allows its environment.
- `JobAdvances`: each step of the job ends it, uses up an attempt or a stall (`Spent`), or
  brings the run nearer to its end (`Distance`); a job that is over stays so.

`CoreCacheProofs`

- `TypeCorrect`, `CachedIsEvictable`: `TypeInv` has what a request holds (`Sound`) and that
  the cache is finite.
- `CounterIsSum`: with `MetadataIsTrue`, which says that as long as nothing made
  `cache:size` wrong the sizes in the metadata are those of the bytes, by lemmas on the
  number of bytes of a union and of a difference of sets of keys.
- `LimitEnforced`: `Enforcing` says that while `cache:size` is above the limit there is a
  fill that will still look at it, or an eviction that has at least the excess left to
  free.
- `SomeoneEnforces`: `Enforcing` itself, which does not depend on `cache:size` being right: what
  it counts is what the eviction script returns.
- `RequestsAdvance`: the measure is the place and, in the eviction loop, the bytes left to
  free, which are positive whenever it is entered (`ExcessIsPositive`): an eviction that
  would free nothing cannot go round.
- `LockIsLease`: `Spec => ImplementsLease`. A request that believes to hold a lock names its
  key, and only its own token deletes it.

`RefreshTokensProofs`

- `TypeCorrect`: `TypeInv` adds that nothing is stored under a token not issued yet and that
  a rotation stays in the family of its token.
- `LiveListed`, `RevocationComplete`, `OneLive`: from `FamilyInv`. A revocation deletes member
  by member from a list it read before; `Sweeping` says that what is live in the family
  is still on the list of every revocation of it (`ListCoversLive`). `LiveIsUnique` is `OneLivePerFamily`
  without counting.

`EdgeContentProofs`

- `TypeCorrect`, `ServedExact`: `OwnVersion` says that an entry of a version other than 1
  holds its own bytes or torn ones, and `Sound` that so does every request that is
  filling or answering, through any chain of peers.
- `FillsCoalesced`, `LockOwned`: `LockInv`: lock and processes agree on who holds it, in both
  directions.
- `EdgeRequestsAdvance`: the measure is first whether the request has waited (`Early`), then
  the set of peers left to ask, then the place (`Rank`). `OnCourse`: a request that has waited
  does not try the lock again, and the origin is asked for the edge's own cache. No run
  checks the liveness property that belongs to it.

`RateLimitProofs`

- `TypeCorrect`: a memory store is checked only when a request arrives, so its bound needs
  `MemoryBounded`: each request under way adds at most one. This is where the requests
  have to be finitely many.
- `ShareGranted`: `CountShared`: the counter and the passes that counted requests have still
  ahead are together at most `Guards * arrived`. The first attempt at this proof failed
  in `Arrive`: a request that came again after it had been refused was not counted as a
  new one, which the run with one more failure then showed too. The history variable
  was corrected.
- `WindowCloses`: `WindowHasEnd`: a counter has a time to live, or a request is about to
  give it one, or the call that should have was lost.

`HlsDeliveryProofs`

- `TornIsExplained`: `TornExplained` says of every file at any time what `TornOnlyAfterCut`
  says of a segment that is served; `Fits` that a viewer has no task while it waits and
  that only viewers of the edge write files.
- `AnnouncedIsFound`: once the video is announced, a request that came as far as the origin is
  refused only by a failed call or a crash, and an HTTP cache gets a refusal to keep only
  by a failed call (or when the video has been removed). `Listed`: a player asks for what some playlist
  lists; `Promised`: what is announced is stored.

Only model-checked: the eight liveness properties (`CompletionsEnd`, `RowsSettle`, `Recovers`,
`DetectsCrash`, `RequestsEnd`, `JobEnds`, `AnnouncedIsServed`, `CounterEnds`), which are out of
the prover's reach; the theorems above prove the safety half of each. The
compositions are only proved: no run explores them.

## 5. Not modelled

- Byte ranges, signatures and ETags of downloads; the expiry of signed URLs.
- What HTTP caches keep of answers other than refusals: nginx keeps a 200 of a segment for
  as long as its header says, a browser too, also one that was cut short at the edge's
  disk; a removed or purged video may be played from them.
- A database statement of an upload that was executed and whose reply was lost: a statement
  that fails has changed nothing, except when the process dies after it (`Crash`).
- One Redis for core and edges. The Kubernetes manifests (`infra/k8s/01-configmap.yaml:17`,
  `11-redis-cluster.yaml:42`) point several replicas of the core and the edges to one
  Redis with `allkeys-lru`: Redis may then drop any key by itself, and lock keys, `hls:*` and
  `cache:*` of several services meet. `CoreCache` and `EdgeContent` have the deployment of
  `docker-compose.yml` and `infra/docker/`, where the core is one process with a Redis of
  its own. A pipeline is modelled as one step, although Redis may run other commands
  between the commands of a pipeline; a command of a pipeline that fails alone (out of
  memory), which `exec` does not report, and a pipeline that the client sends again after a
  reconnect are left out.
- The attempt number and the Prometheus gauges of replication; the cascade that
  deletes replication rows with their file.
- A stall of a transcoding worker that is alive, where two runs share a directory.
- A failed `refreshNodeMap` and edges added while the core runs.
- `cache:size` and the LRU order of an edge: entries on disk are added at a tenth of their
  size and subtracted in full, refills are added again, and nothing bounds the error.
- The edges' queues as seen from the core: `ReplicationJobs` has the core's queue only,
  and the edge worker, which is in `EdgeContent`, never writes the row.
- Registration and API keys (single inserts and reads), passwords and JWTs (libraries),
  `revokeAllUserTokens` (nothing calls it), the state `active` of tokens of older
  versions. The guard of the edge, a synchronous function over a map in memory.
- `file:{id}:current` in Redis as downloads use it: they compare it with the row first.
- Routing by distance and the inside of the hash ring (virtual nodes, binary search), pure
  functions that tests reach; placement is in `EdgeContent` and `ReplicationJobs` by what
  it returns.
- Telemetry, metrics, dashboard, deployment and benchmarks: no state another
  component depends on.

## 6. Plan

Done: all modules above; every run; the theorems of section 4.

Left, in this order:

1. `EdgeContent` composed with the heartbeats of its peers, as `EdgeFailover` does for the
   core.
2. A run for the liveness of requests at an edge, whose safety half is
   `EdgeRequestsAdvance`.
3. Shorter proofs: the lemmas on requests that move on, one per module, have the same
   form.
