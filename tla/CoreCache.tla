----------------------------- MODULE CoreCache -----------------------------
(***************************************************************************)
(* The cache of the core service in Redis: downloads with the stampede     *)
(* lock (download.service.ts, edge-content.controller.ts), fills by the    *)
(* replication worker, the LRU eviction, and the invalidation of a file    *)
(* (common/cache-manager).                                                 *)
(*                                                                         *)
(* A Lua script is one step.  A pipeline is one step as well, or it is cut *)
(* when its connection is lost and Redis executes the first commands only. *)
(* A request may be overtaken between any two awaits.  The bytes of a      *)
(* version never change, so a key stands for its bytes; but the size in    *)
(* its metadata may be another: a download takes it from the FileVersion   *)
(* row, where it is what the client declared at the upload and was never   *)
(* compared with the object; a replication job takes it from the bytes.    *)
(* file:{id}:current is left out: downloads trust it only when it agrees   *)
(* with the database.                                                      *)
(***************************************************************************)
EXTENDS Integers, FiniteSets

CONSTANTS
    Readers,       \* downloads under way at a time
    Workers,       \* replication jobs under way at a time
    Keys,          \* base keys file:{fileId}:{version}
    FileOf,        \* the file of each key
    Size,          \* the bytes of each key
    Declared,      \* FileVersion.size of each key
    MaxCacheSize,  \* MAX_CACHE_SIZE
    MaxDrift,      \* bound: no request or purge starts when cache:size is off by more
    MaxBroken,     \* bound: nor when the last pipelines of more keys were cut
    None

ASSUME CacheAssumption ==
    /\ Size \in [Keys -> Nat \ {0}] /\ Declared \in [Keys -> Nat \ {0}]
    /\ MaxCacheSize \in Nat /\ MaxDrift \in Nat /\ MaxBroken \in Nat
    /\ None \notin Keys \cup Readers \cup Workers

Requests == Readers \cup Workers
Files == {FileOf[k] : k \in Keys}
KeysOf(f) == {k \in Keys : FileOf[k] = f}

VARIABLES
    recs,      \* keys whose FileVersion row exists
    stored,    \* keys with :data
    meta,      \* the size in :meta of each key, 0 where there is no :meta
    lru,       \* cache:lru as the order by score: <<j, k>> when j was used no later than k
    tracked,   \* members of the sets file:{id}:keys
    size,      \* cache:size
    lock,      \* holder of file:{id}:{version}:lock
    req,       \* what each request is doing
    inval,     \* files with a cache.invalidate message not yet handled
    purge,     \* what the consumer of cache.invalidate is doing
    drifted,   \* history: a step that leaves cache:size wrong, as SizeAccounted lists
    broken,    \* history: keys whose last pipeline was cut
    cutShort   \* history: a fill ended before it had enforced the limit

vars == <<recs, stored, meta, lru, tracked, size, lock, req, inval, purge, drifted, broken, cutShort>>
cache == <<stored, meta, lru, tracked, size, drifted, broken>>
outside == <<recs, inval, purge>>

Idle == [pc |-> "idle", key |-> None, held |-> FALSE, num |-> 0, says |-> 0]
NoPurge == [file |-> None, seen |-> {}]

\* The sum of the sizes that f gives to the keys of S, counted as bytes.
Bytes(S, f) == UNION {{k} \X (1 .. f[k]) : k \in S}
Total(S, f) == Cardinality(Bytes(S, f))

Init ==
    /\ recs = Keys /\ stored = {} /\ lru = {} /\ tracked = {} /\ size = 0
    /\ meta = [k \in Keys |-> 0]
    /\ lock = [k \in Keys |-> None]
    /\ req = [r \in Requests |-> Idle]
    /\ inval = {} /\ purge = NoPurge
    /\ drifted = FALSE /\ broken = {} /\ cutShort = FALSE

-----------------------------------------------------------------------------
At(r, label) == req[r].pc = label
Goto(r, label) == req' = [req EXCEPT ![r].pc = label]
End(r) == req' = [req EXCEPT ![r] = Idle]
\* A fill is followed by the release of the lock, if the request took one.
FinishFill(r) ==
    req' = [req EXCEPT ![r] = IF @.held THEN [@ EXCEPT !.pc = "release", !.num = 0, !.says = 0] ELSE Idle]
Missing(k) == k \notin stored
Listed == {p[1] : p \in lru}
Without(S) == {p \in lru : p[1] \notin S /\ p[2] \notin S}
\* Mutant: the entry keeps its earlier place as well.
Pushed(k) == lru \cup {<<j, k>> : j \in Listed \cup {k}}
Touched(k) == Without({k}) \cup {<<j, k>> : j \in Listed \cup {k}}
Near == size - Total(stored, Size) \in -MaxDrift .. MaxDrift /\ Cardinality(broken) <= MaxBroken

\* processDownload, and getEdgeContent for a signed URL of any version.
Download(r, k) ==
    /\ At(r, "idle") /\ Near
    /\ req' = [req EXCEPT ![r] = [Idle EXCEPT !.pc = "meta", !.key = k]]
    /\ UNCHANGED <<cache, outside, lock, cutShort>>

\* The size in the cached metadata and the one in the FileVersion row.
KnownSizes(k) == {n \in {meta[k]} : n # 0} \cup {Declared[j] : j \in recs \cap {k}}

\* Metadata from the cache, or from the database; 304, 403 and 404 end here.
ReadMetadata(r) ==
    /\ At(r, "meta")
    /\ \/ \E n \in KnownSizes(req[r].key) :
             req' = [req EXCEPT ![r] = [@ EXCEPT !.pc = "get", !.says = n]]
       \/ End(r)
    /\ UNCHANGED <<cache, outside, lock, cutShort>>

\* getBinary, before the lock and again after waiting for another's fill.
GetBinary(r) ==
    /\ \/ ~Missing(req[r].key) /\ (At(r, "get") \/ At(r, "again")) /\ Goto(r, "touch")
       \/ Missing(req[r].key) /\ At(r, "get") /\ Goto(r, "lock")
       \/ Missing(req[r].key) /\ At(r, "again") /\ Goto(r, "relock")
    /\ UNCHANGED <<cache, outside, lock, cutShort>>

\* The hit is answered; its zadd is sent without waiting for it.
TouchLru(r) ==
    /\ At(r, "touch")
    /\ lru' = Touched(req[r].key)
    /\ End(r)
    /\ UNCHANGED <<stored, meta, tracked, size, drifted, broken, outside, lock, cutShort>>

\* SET NX PX 10000.  A request that may not fill the cache (a range, a type or a
\* size that is not cached) goes to the object store without the lock.  An error
\* ends the request, whether or not Redis executed the command.
AcquireStampedeLock(r) ==
    LET k == req[r].key IN
    /\ At(r, "lock") \/ At(r, "relock")
    /\ \/ /\ lock[k] = None
          /\ lock' = [lock EXCEPT ![k] = r]
          /\ req' = [req EXCEPT ![r] = [@ EXCEPT !.pc = "fetch", !.held = TRUE]]
       \/ At(r, "lock") /\ lock[k] # None /\ Goto(r, "wait") /\ UNCHANGED lock
       \/ Goto(r, "fetch") /\ UNCHANGED lock
       \/ End(r) /\ \/ UNCHANGED lock
                    \/ lock[k] = None /\ lock' = [lock EXCEPT ![k] = r]
    /\ UNCHANGED <<cache, outside, cutShort>>

\* waitForCache: until the data appears, the lock is gone or 11 s have passed.
WaitForCache(r) ==
    /\ At(r, "wait")
    /\ \/ ~Missing(req[r].key) /\ Goto(r, "again")
       \/ Missing(req[r].key) /\ Goto(r, "relock")
    /\ UNCHANGED <<cache, outside, lock, cutShort>>

\* The version is looked up again and streamed; with the lock the stream also fills
\* the cache.  A version that has gone, or a database error, ends the request and
\* leaves its lock behind; an error of the object store releases the lock.
FetchFromOrigin(r) ==
    /\ At(r, "fetch")
    /\ \/ req[r].key \in recs /\ req[r].held /\ Goto(r, "fill")
       \/ req[r].key \in recs /\ FinishFill(r)
       \/ End(r)
    /\ UNCHANGED <<cache, outside, lock, cutShort>>

\* The replication worker fills the cache without taking the lock.
Replicate(r, k) ==
    /\ At(r, "idle") /\ Near /\ k \in recs
    /\ req' = [req EXCEPT ![r] = [Idle EXCEPT !.pc = "fill", !.key = k, !.says = Size[k]]]
    /\ UNCHANGED <<cache, outside, lock, cutShort>>

-----------------------------------------------------------------------------
(* cacheFile and enforceEvictionPolicy                                     *)

Strlen(k) == IF k \in stored THEN Size[k] ELSE 0

ReadPreviousSize(r) ==
    /\ At(r, "fill")
    /\ req' = [req EXCEPT ![r] = [@ EXCEPT !.pc = "store", !.num = Strlen(req[r].key)]]
    /\ UNCHANGED <<cache, outside, lock, cutShort>>

\* Mutant: the previous size is ignored.
FullSize(k, previous) == Size[k]
SizeDelta(k, previous) == Size[k] - previous

\* The first n of the five commands: HSET :meta, SET :data, ZADD, INCRBY, SADD.
Pipeline(r, n) ==
    LET k == req[r].key IN
    /\ meta' = IF n >= 1 THEN [meta EXCEPT ![k] = req[r].says] ELSE meta
    /\ stored' = IF n >= 2 THEN stored \cup {k} ELSE stored
    /\ lru' = IF n >= 3 THEN Touched(k) ELSE lru
    /\ size' = IF n >= 4 THEN size + SizeDelta(k, req[r].num) ELSE size
    /\ tracked' = IF n = 5 THEN tracked \cup {k} ELSE tracked

CacheFile(r) ==
    LET k == req[r].key IN
    /\ At(r, "store")
    /\ Pipeline(r, 5)
    /\ drifted' = (drifted \/ req[r].num # Strlen(k) \/ req[r].says # Size[k])
    /\ broken' = broken \ {k}
    /\ req' = [req EXCEPT ![r] = [@ EXCEPT !.pc = "check", !.num = 0, !.says = 0]]
    /\ UNCHANGED <<outside, lock, cutShort>>

\* The connection is lost under the pipeline; the error is logged.
CacheFileCut(r) ==
    /\ At(r, "store")
    /\ \E n \in 1 .. 4 : Pipeline(r, n)
    /\ drifted' = TRUE /\ cutShort' = TRUE
    /\ broken' = broken \cup {req[r].key}
    /\ FinishFill(r)
    /\ UNCHANGED <<outside, lock>>

\* Mutant: the limit is compared the wrong way round at the boundary.
OverByTwo(n) == n > MaxCacheSize + 1
OverLimit(n) == n > MaxCacheSize

CheckSize(r) ==
    /\ At(r, "check")
    /\ \/ /\ OverLimit(size)
          /\ req' = [req EXCEPT ![r] = [@ EXCEPT !.pc = "evict", !.num = size - MaxCacheSize]]
       \/ ~OverLimit(size) /\ FinishFill(r)
    /\ UNCHANGED <<cache, outside, lock, cutShort>>

\* What the script deletes and what it returns: nothing for an entry whose
\* metadata has gone already.
Oldest == {k \in Listed : \A j \in Listed : <<k, j>> \in lru}
Freed == Total(Oldest, meta)
Forget(S) == [k \in Keys |-> IF k \in S THEN 0 ELSE meta[k]]

\* Mutant: a script that freed nothing is called again.
EvictAnyway(r) ==
    /\ At(r, "evict")
    /\ stored' = stored \ Oldest /\ meta' = Forget(Oldest)
    /\ lru' = Without(Oldest) /\ size' = size - Freed
    /\ \/ /\ req[r].num > Freed
          /\ req' = [req EXCEPT ![r].num = @ - Freed]
       \/ req[r].num <= Freed /\ FinishFill(r)
    /\ UNCHANGED <<tracked, drifted, broken, outside, lock, cutShort>>

EvictOldest(r) ==
    /\ At(r, "evict")
    /\ stored' = stored \ Oldest /\ meta' = Forget(Oldest)
    /\ lru' = Without(Oldest) /\ size' = size - Freed
    /\ \/ Freed = 0 /\ req' = [req EXCEPT ![r] = [@ EXCEPT !.pc = "reset", !.num = 0]]
       \/ /\ Freed > 0 /\ req[r].num > Freed
          /\ req' = [req EXCEPT ![r].num = @ - Freed]
       \/ Freed > 0 /\ req[r].num <= Freed /\ FinishFill(r)
    /\ UNCHANGED <<tracked, drifted, broken, outside, lock, cutShort>>

\* "LRU cache is empty but cache:size was > 0": whatever is cached by now.
ResetSize(r) ==
    /\ At(r, "reset")
    /\ size' = 0
    /\ drifted' = (stored # {} \/ \E k \in Keys : meta[k] # 0)
    /\ FinishFill(r)
    /\ UNCHANGED <<stored, meta, lru, tracked, broken, outside, lock, cutShort>>

\* Mutant: the lock is deleted whoever holds it.
DeleteLock(r) ==
    /\ At(r, "release")
    /\ lock' = [lock EXCEPT ![req[r].key] = None]
    /\ End(r)
    /\ UNCHANGED <<cache, outside, cutShort>>

\* The script compares the value before it deletes the key.
ReleaseStampedeLock(r) ==
    LET k == req[r].key IN
    /\ At(r, "release")
    /\ lock' = [lock EXCEPT ![k] = IF @ = r THEN None ELSE @]
    /\ End(r)
    /\ UNCHANGED <<cache, outside, cutShort>>

\* A Redis error in cacheFile is logged, and the lock is released.
FillFails(r) ==
    /\ req[r].pc \in {"fill", "store", "check", "evict", "reset"}
    /\ FinishFill(r)
    /\ cutShort' = TRUE
    /\ UNCHANGED <<cache, outside, lock>>

LockExpires(k) ==
    /\ lock[k] # None
    /\ lock' = [lock EXCEPT ![k] = None]
    /\ UNCHANGED <<cache, outside, req, cutShort>>

-----------------------------------------------------------------------------
(* Removal, purge and cache.invalidate                                     *)

RemoveFile(f) ==
    /\ recs' = recs \ KeysOf(f)
    /\ inval' = inval \cup {f}
    /\ UNCHANGED <<cache, lock, req, purge, cutShort>>

\* An admin's purge, or a new version of the file.
Invalidate(f) ==
    /\ inval' = inval \cup {f}
    /\ UNCHANGED <<cache, lock, req, recs, purge, cutShort>>

\* evictFile: smembers, and then the pipeline for the members it saw.
ReadKeys(f) ==
    /\ purge = NoPurge /\ f \in inval /\ Near
    /\ \/ /\ tracked \cap KeysOf(f) # {}
          /\ purge' = [file |-> f, seen |-> tracked \cap KeysOf(f)]
          /\ UNCHANGED inval
       \/ /\ tracked \cap KeysOf(f) = {}
          /\ inval' = inval \ {f} /\ UNCHANGED purge
    /\ UNCHANGED <<cache, lock, req, recs, cutShort>>

\* Mutants: DECRBY for members that have been evicted already; the whole file
\* leaves the sorted set.
Charged(S) == Total(S, Declared)
Accounted(S) == Total(S, meta)
LeavesLru(f, seen) == KeysOf(f)
Unlisted(f, seen) == seen

EvictFile ==
    LET f == purge.file
        S == purge.seen
    IN
    /\ purge # NoPurge
    /\ size' = size - Accounted(S)
    /\ stored' = stored \ S /\ meta' = Forget(S)
    /\ lru' = Without(Unlisted(f, S))
    /\ tracked' = tracked \ KeysOf(f)
    /\ inval' = inval \ {f} /\ purge' = NoPurge
    /\ UNCHANGED <<recs, drifted, broken, lock, req, cutShort>>

\* The pipeline is cut after the members done, with the next one out of the sorted
\* set only.  The error ends the message, or the process dies and it comes again.
EvictFileCut ==
    /\ purge # NoPurge /\ Cardinality(broken) <= MaxBroken
    /\ \E done \in SUBSET purge.seen, next \in SUBSET purge.seen :
          /\ Cardinality(next) <= 1 /\ next \cap done = {}
          /\ size' = size - Accounted(done)
          /\ stored' = stored \ done /\ meta' = Forget(done)
          /\ lru' = Without(done \cup next)
          /\ broken' = broken \cup next
    /\ inval' \in {inval, inval \ {purge.file}} /\ purge' = NoPurge
    /\ UNCHANGED <<recs, tracked, drifted, lock, req, cutShort>>

\* Some of the replicas of the service are killed: Redis keeps what it has, and the
\* message comes again if its consumer was among them.
Crash ==
    /\ \E S \in SUBSET Requests : req' = [r \in Requests |-> IF r \in S THEN Idle ELSE req[r]]
    /\ purge' \in {purge, NoPurge}
    /\ cutShort' = TRUE
    /\ UNCHANGED <<cache, recs, inval, lock>>

-----------------------------------------------------------------------------
Step(r) ==
    \/ ReadMetadata(r) \/ GetBinary(r) \/ TouchLru(r) \/ AcquireStampedeLock(r)
    \/ WaitForCache(r) \/ FetchFromOrigin(r) \/ ReadPreviousSize(r) \/ CacheFile(r)
    \/ CheckSize(r) \/ EvictOldest(r) \/ ResetSize(r) \/ ReleaseStampedeLock(r)

Next ==
    \/ \E k \in Keys : \/ \E r \in Readers : Download(r, k)
                       \/ \E r \in Workers : Replicate(r, k)
    \/ \E r \in Requests : Step(r) \/ FillFails(r) \/ CacheFileCut(r)
    \/ \E k \in Keys : LockExpires(k)
    \/ \E f \in Files : RemoveFile(f) \/ Invalidate(f) \/ ReadKeys(f)
    \/ EvictFile \/ EvictFileCut \/ Crash

Spec == Init /\ [][Next]_vars

\* Every await of a request settles.
FairSpec == Spec /\ \A r \in Requests : WF_vars(Step(r))

-----------------------------------------------------------------------------
(* Properties                                                              *)

Pcs == {"idle", "meta", "get", "touch", "lock", "wait", "again", "relock", "fetch",
        "fill", "store", "check", "evict", "reset", "release"}

\* The sorted set gives every key in it one place.
LinearOrder ==
    /\ \A j, k \in Listed : <<j, k>> \in lru \/ <<k, j>> \in lru
    /\ \A j, k \in Keys : <<j, k>> \in lru /\ <<k, j>> \in lru => j = k
    /\ \A i, j, k \in Keys : <<i, j>> \in lru /\ <<j, k>> \in lru => <<i, k>> \in lru

\* The sorted set lists a key once; every other variable has its type.
TypeOK ==
    /\ recs \in SUBSET Keys /\ stored \in SUBSET Keys /\ tracked \in SUBSET Keys
    /\ lru \in SUBSET (Keys \X Keys) /\ LinearOrder
    /\ size \in Int /\ meta \in [Keys -> Nat]
    /\ lock \in [Keys -> Requests \cup {None}]
    /\ req \in [Requests -> [pc : Pcs, key : Keys \cup {None}, held : BOOLEAN, num : Int,
                         says : Nat]]
    /\ inval \in SUBSET Files
    /\ purge \in [file : Files \cup {None}, seen : SUBSET Keys]
    /\ drifted \in BOOLEAN /\ broken \in SUBSET Keys /\ cutShort \in BOOLEAN

\* However fills, hits, evictions and invalidations overlap, a cached object is in
\* the sorted set, so that the eviction can find it, unless the last pipeline that
\* wrote it or purged it was cut.
StoredIsEvictable ==
    stored \ broken \subseteq Listed

\* cache:size is the sum of the cached bytes under every interleaving of fills,
\* evictions and invalidations, although it goes up by the length of the bytes and
\* down by the size in the metadata.  Four steps make it wrong: a fill with a
\* declared size that is not the length of its bytes; a fill whose previous size has
\* changed since it was read; a pipeline that was cut; and a reset that meets a cache
\* that is not empty.
SizeAccounted ==
    ~drifted => size = Total(stored, Size)

Quiet == \A r \in Requests : At(r, "idle")

\* When all fills have ended the cache is within its limit, although each enforced
\* the limit by a size it had read earlier, unless one of them was cut short or
\* cache:size was made wrong in one of the four ways above.
WithinLimit ==
    Quiet /\ ~drifted /\ ~cutShort => Total(stored, Size) <= MaxCacheSize

Lease == INSTANCE LeaseLock WITH
    Owners <- Requests,
    holder <- lock,
    claim <- [r \in Requests |-> IF req[r].held THEN req[r].key ELSE None]

\* The stampede lock is a lease: it is taken only when free, and whoever believes to
\* hold it frees it only when that is still so (README: "Release compares the UUID
\* inside Lua, so an expired lock cannot be deleted by the wrong owner").
ImplementsLease == Lease!Spec

\* Every download and every fill ends: no one waits for a lock for ever, and the
\* eviction loop stops even when cache:size is wrong.
RequestsEnd ==
    \A r \in Requests : ~At(r, "idle") ~> At(r, "idle")
=============================================================================
