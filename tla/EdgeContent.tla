---------------------------- MODULE EdgeContent ----------------------------
(***************************************************************************)
(* One file at the edges: what they serve and cache under each version     *)
(* (apps/edge/src/content/edge-content.controller.ts, cache/cache.service  *)
(* .ts, replication/replication.processor.ts), with the placement lookup   *)
(* of the core (placement.service.ts).                                     *)
(*                                                                         *)
(* Each edge has its own Redis database and disk, as                       *)
(* infra/docker/docker-compose.edge.yml gives them; the Kubernetes         *)
(* manifests do not.                                                       *)
(* The bytes of version n are n.  An entry is in Redis or, when it is      *)
(* large, in a file that writeFile truncates and then fills: a reader may  *)
(* find it Torn.  Other files share the cache, so that any entry may be    *)
(* evicted at any time.                                                    *)
(* A process is a request of a user or a run of a replication job.  The    *)
(* edges do not listen to cache.invalidate: a deletion of the file shows   *)
(* here only as a lookup or a fetch that fails.                            *)
(***************************************************************************)
EXTENDS Naturals, FiniteSets

CONSTANTS
    Edges,
    Replicas,     \* the edges the ring holds responsible for the file
    Processes,    \* bound on requests and runs of jobs
    MaxVersions,  \* bound on versions of the file
    MaxFaults,    \* bound on evictions, purges, errors, crashes and expiries
    OnDisk,       \* versions of DISK_CACHE_THRESHOLD_BYTES or more
    Torn,         \* the bytes of a file that is being written
    None,
    Dead          \* owner of a lock whose request is gone or does not know of it

Versions == 1 .. MaxVersions
Bytes == Versions \cup {Torn}

ASSUME EdgeAssumption ==
    /\ Replicas \subseteq Edges /\ OnDisk \subseteq Versions
    /\ MaxVersions \in Nat \ {0} /\ MaxFaults \in Nat
    /\ Torn \notin Versions /\ None \notin Bytes \cup Edges \cup Processes
    /\ Dead \notin Processes /\ Dead # None

VARIABLES
    latest,   \* versions 1 .. latest have been published
    meta,     \* file:{id}:{v}:meta at each edge: none, or where the bytes are
    data,     \* file:{id}:{v}:data at each edge
    disk,     \* {fileId}/v{v}/content.bin at each edge
    keys,     \* file:{id}:keys at each edge: the versions a purge will look for
    lock,     \* lock:stampede:{fileId}:v{v} at each edge
    jobs,     \* replication jobs in the queues of the edges
    doomed,   \* edges where the deletion of the disk directory is under way
    proc,     \* what each process is doing
    faults    \* how often something has gone wrong or has been evicted

vars == <<latest, meta, data, disk, keys, lock, jobs, doomed, proc, faults>>
entries == <<meta, data, disk, keys>>

Idle == [pc |-> "idle", kind |-> "user", edge |-> None, key |-> 1, at |-> None, wants |-> 1,
         via |-> "ram", bytes |-> None, peers |-> {}, waited |-> FALSE, lock |-> "none"]
Done == [Idle EXCEPT !.pc = "done"]

Init ==
    /\ latest = 0
    /\ meta = [e \in Edges |-> [v \in Versions |-> "none"]]
    /\ data = [e \in Edges |-> [v \in Versions |-> None]]
    /\ disk = [e \in Edges |-> [v \in Versions |-> None]]
    /\ keys = [e \in Edges |-> {}]
    /\ lock = [e \in Edges |-> [v \in Versions |-> None]]
    /\ jobs = {} /\ doomed = {}
    /\ proc = [r \in Processes |-> Idle] /\ faults = 0

-----------------------------------------------------------------------------
At(r, label) == proc[r].pc = label
Goto(r, label) == proc' = [proc EXCEPT ![r].pc = label]
Becomes(r, p) == proc' = [proc EXCEPT ![r] = p]
Fault == faults < MaxFaults /\ faults' = faults + 1

\* completeUpload; dispatchReplication queues a job for responsible edges, except
\* where the edge's queue could not be reached.
Publish ==
    /\ latest < MaxVersions
    /\ latest' = latest + 1
    /\ \E S \in SUBSET Replicas : jobs' = jobs \cup {[edge |-> e, ver |-> latest'] : e \in S}
    /\ UNCHANGED <<entries, lock, doomed, proc, faults>>

-----------------------------------------------------------------------------
(* getEdgeContent                                                          *)

\* A signed URL names a version that exists, or did when it was signed.
Request(r, e, v) ==
    /\ At(r, "idle") /\ v <= latest
    /\ Becomes(r, [Idle EXCEPT !.pc = "meta", !.edge = e, !.at = e, !.key = v, !.wants = v])
    /\ UNCHANGED <<latest, entries, lock, jobs, doomed, faults>>

\* getMetadata says where getBinary looks, at the edge itself or at a peer.
Where(e, v) == IF meta[e][v] = "disk" THEN "disk" ELSE "ram"

ReadMeta(r) ==
    LET p == proc[r] IN
    /\ At(r, "meta")
    /\ Becomes(r, [p EXCEPT !.pc = "read", !.via = Where(p.edge, p.key)])
    /\ UNCHANGED <<latest, entries, lock, jobs, doomed, faults>>

\* A file that cannot be read falls back to Redis.
Found(p) ==
    IF p.via = "disk" /\ disk[p.at][p.key] # None THEN disk[p.at][p.key]
    ELSE data[p.at][p.key]

\* A local hit is served.  A local miss takes the lock; after waiting it goes on to
\* streamFromOriginDirect, whose lookup carries no credentials and is refused.  A
\* peer's bytes are cached, its miss or its failure leads to the next peer.
ReadBytes(r) ==
    LET p == proc[r]
        local == p.at = p.edge
    IN
    /\ At(r, "read")
    /\ \/ /\ Found(p) # None
          /\ Becomes(r, [p EXCEPT !.pc = IF local THEN "reply" ELSE "store", !.via = "ram",
                                  !.bytes = Found(p)])
       \/ Found(p) = None /\ local /\ ~p.waited /\ Becomes(r, [p EXCEPT !.pc = "lock", !.via = "ram"])
       \/ Found(p) = None /\ local /\ p.waited /\ Becomes(r, Done)
       \/ ~local /\ Becomes(r, [p EXCEPT !.pc = "peers", !.via = "ram"])
    /\ UNCHANGED <<latest, entries, lock, jobs, doomed, faults>>

\* Mutant: SET without NX.
AlwaysFree(e, v) == TRUE
LockFree(e, v) == lock[e][v] = None

\* SET NX PX 10000; the others sleep for 500 ms and look again.
AcquireStampedeLock(r) ==
    LET p == proc[r] IN
    /\ At(r, "lock")
    /\ \/ /\ LockFree(p.edge, p.key)
          /\ lock' = [lock EXCEPT ![p.edge][p.key] = r]
          /\ Becomes(r, [p EXCEPT !.pc = "place", !.lock = "held"])
       \/ /\ ~LockFree(p.edge, p.key)
          /\ Becomes(r, [p EXCEPT !.pc = "meta", !.waited = TRUE])
          /\ UNCHANGED lock
    /\ UNCHANGED <<latest, entries, jobs, doomed, faults>>

\* An error of the SET, outside the try, ends the request, whether Redis executed the
\* command or not.
AcquireFails(r) ==
    LET p == proc[r] IN
    /\ Fault /\ At(r, "lock")
    /\ \/ UNCHANGED lock
       \/ LockFree(p.edge, p.key) /\ lock' = [lock EXCEPT ![p.edge][p.key] = Dead]
    /\ Becomes(r, Done)
    /\ UNCHANGED <<latest, entries, jobs, doomed>>

\* getPlacement: the version's path and the healthy replicas; no answer, no peers.
LookUpPlacement(r) ==
    /\ At(r, "place")
    /\ \E S \in SUBSET (Replicas \ {proc[r].edge}) :
          Becomes(r, [proc[r] EXCEPT !.pc = "peers", !.peers = S])
    /\ UNCHANGED <<latest, entries, lock, jobs, doomed, faults>>

\* The next peer, in x-cache-fill-mode: peer; after the last the origin.
TryPeer(r) ==
    /\ At(r, "peers")
    /\ \/ \E e \in proc[r].peers :
            Becomes(r, [proc[r] EXCEPT !.pc = "read", !.at = e, !.peers = @ \ {e},
                                       !.via = Where(e, proc[r].key)])
       \/ /\ proc[r].peers = {}
          /\ Becomes(r, [proc[r] EXCEPT !.pc = "origin", !.at = proc[r].edge])
    /\ UNCHANGED <<latest, entries, lock, jobs, doomed, faults>>

\* resolveStoragePath gives the path of the version asked for, from the placement or
\* from a second lookup.  The object is cached (up to 100 MB) and served; 404 and
\* 502 release the lock.
FetchFromOrigin(r) ==
    LET p == proc[r] IN
    /\ At(r, "origin")
    /\ \/ \E next \in {"store", "reply"} :
            Becomes(r, [p EXCEPT !.pc = next, !.bytes = p.key])
       \/ Goto(r, "release")
    /\ UNCHANGED <<latest, entries, lock, jobs, doomed, faults>>

\* The response is sent; finally releases the lock.
Reply(r) ==
    /\ At(r, "reply")
    /\ IF proc[r].lock # "none" THEN Goto(r, "release") ELSE Becomes(r, Done)
    /\ UNCHANGED <<latest, entries, lock, jobs, doomed, faults>>

\* The script compares the value; Redis may also fail to answer.
ReleaseStampedeLock(r) ==
    LET p == proc[r] IN
    /\ At(r, "release")
    /\ \/ /\ lock' = [lock EXCEPT ![p.edge][p.key] = IF @ = r THEN None ELSE @]
          /\ UNCHANGED faults
       \/ Fault /\ lock' = [lock EXCEPT ![p.edge][p.key] = IF @ = r THEN Dead ELSE @]
    /\ Becomes(r, Done)
    /\ UNCHANGED <<latest, entries, jobs, doomed>>

-----------------------------------------------------------------------------
(* process() of the replication worker                                     *)

\* Mutants: a default of 0; the number of the current version when the job runs.
FromZero == 0
NumberOfCurrent == latest
\* findInternalFile returns no version number: the default is always taken.
TargetVersion == 1

TakeJob(r, j) ==
    /\ At(r, "idle") /\ j \in jobs
    /\ jobs' = jobs \ {j}
    /\ Becomes(r, [Idle EXCEPT !.pc = "fetch", !.kind = "job", !.edge = j.edge, !.at = j.edge,
                               !.key = TargetVersion, !.wants = j.ver])
    /\ UNCHANGED <<latest, entries, lock, doomed, faults>>

Requeued(r) == {[edge |-> proc[r].edge, ver |-> proc[r].wants]}

\* An error is retried up to the limit; an object over 20 MB ends the job.
FetchForJob(r) ==
    /\ At(r, "fetch")
    /\ \/ Becomes(r, [proc[r] EXCEPT !.pc = "store", !.bytes = proc[r].wants]) /\ UNCHANGED jobs
       \/ jobs' \in {jobs, jobs \cup Requeued(r)} /\ Becomes(r, Done)
    /\ UNCHANGED <<latest, entries, lock, doomed, faults>>

-----------------------------------------------------------------------------
(* cacheFile, eviction and purge                                           *)

IsLarge(b) == b \in OnDisk \/ b = Torn
IsSmall(b) == b \notin OnDisk

\* writeFile truncates the file.
StartFill(r) ==
    LET p == proc[r] IN
    /\ At(r, "store")
    /\ \/ /\ IsLarge(p.bytes)
          /\ disk' = [disk EXCEPT ![p.edge][p.key] = Torn]
          /\ Goto(r, "write")
       \/ /\ IsSmall(p.bytes)
          /\ Goto(r, "index")
          /\ UNCHANGED disk
    /\ UNCHANGED <<latest, meta, data, keys, lock, jobs, doomed, faults>>

\* Two writers of one file may mix their bytes; what is written to a file that was
\* deleted meanwhile is gone.
WriteFile(r) ==
    LET p == proc[r]
        others == {q \in Processes \ {r} : /\ At(q, "write")
                                           /\ proc[q].edge = p.edge /\ proc[q].key = p.key}
    IN
    /\ At(r, "write")
    /\ \E b \in {p.bytes} \cup (IF others = {} THEN {} ELSE {Torn}) :
          disk' = [disk EXCEPT ![p.edge][p.key] = IF @ = None THEN None ELSE b]
    /\ Becomes(r, [p EXCEPT !.pc = "index", !.via = "disk"])
    /\ UNCHANGED <<latest, meta, data, keys, lock, jobs, doomed, faults>>

\* The pipeline, and the eviction that may follow (Evict).
CacheFile(r) ==
    LET p == proc[r] IN
    /\ At(r, "index")
    /\ meta' = [meta EXCEPT ![p.edge][p.key] = p.via]
    /\ data' = IF p.via = "disk" THEN data ELSE [data EXCEPT ![p.edge][p.key] = p.bytes]
    /\ keys' = [keys EXCEPT ![p.edge] = @ \cup {p.key}]
    /\ IF p.kind = "user" THEN Becomes(r, [p EXCEPT !.pc = "reply", !.via = "ram"])
       ELSE Becomes(r, Done)
    /\ UNCHANGED <<latest, disk, lock, jobs, doomed, faults>>

\* Mutant: the lock is not released when the fill fails.
Forgotten(p) == Done
\* The catch block of the peer loop, and the catch and finally of the request.
AfterFailure(p) ==
    [p EXCEPT !.pc = IF p.at # p.edge THEN "peers" ELSE "release", !.via = "ram", !.bytes = None]

FillFails(r) ==
    LET p == proc[r] IN
    /\ Fault /\ p.pc \in {"store", "write", "index"}
    /\ IF p.kind = "user" THEN Becomes(r, AfterFailure(p)) /\ UNCHANGED jobs
       ELSE Becomes(r, Done) /\ jobs' \in {jobs, jobs \cup Requeued(r)}
    /\ UNCHANGED <<latest, entries, lock, doomed>>

\* enforceEvictionPolicy after a fill of this or of another file: the script
\* deletes the keys and leaves the file on disk.
Evict(e, v) ==
    /\ Fault /\ meta[e][v] # "none"
    /\ meta' = [meta EXCEPT ![e][v] = "none"] /\ data' = [data EXCEPT ![e][v] = None]
    /\ UNCHANGED <<latest, disk, keys, lock, jobs, doomed, proc>>

\* purgeLocalCache: the versions it read from the set are deleted, with the set that
\* may have grown since; the directory follows some time later.
Purge(e, S) ==
    /\ Fault /\ S # {}
    /\ keys' = [keys EXCEPT ![e] = {}]
    /\ meta' = [meta EXCEPT ![e] = [v \in Versions |-> IF v \in S THEN "none" ELSE @[v]]]
    /\ data' = [data EXCEPT ![e] = [v \in Versions |-> IF v \in S THEN None ELSE @[v]]]
    /\ doomed' = doomed \cup {e}
    /\ UNCHANGED <<latest, disk, lock, jobs, proc>>

DeleteDirectory(e) ==
    /\ e \in doomed
    /\ doomed' = doomed \ {e}
    /\ disk' = [disk EXCEPT ![e] = [v \in Versions |-> None]]
    /\ UNCHANGED <<latest, meta, data, keys, lock, jobs, proc, faults>>

\* After 10 s, whatever the holder is doing.
LockExpires(e, v) ==
    /\ Fault /\ lock[e][v] # None
    /\ lock' = [lock EXCEPT ![e][v] = None]
    /\ proc' = [r \in Processes |->
                  IF r = lock[e][v] THEN [proc[r] EXCEPT !.lock = "expired"] ELSE proc[r]]
    /\ UNCHANGED <<latest, entries, jobs, doomed>>

\* The process of an edge dies: its locks stay until they expire, its jobs stall
\* and are given out again.
Crash(e) ==
    LET lost == {r \in Processes : proc[r].edge = e} IN
    /\ Fault /\ lost # {}
    /\ proc' = [r \in Processes |-> IF r \in lost THEN Done ELSE proc[r]]
    /\ lock' = [lock EXCEPT ![e] = [v \in Versions |-> IF @[v] \in lost THEN Dead ELSE @[v]]]
    /\ jobs' = jobs \cup UNION {Requeued(r) : r \in {q \in lost : proc[q].kind = "job"}}
    /\ doomed' = doomed \ {e}
    /\ UNCHANGED <<latest, entries>>

-----------------------------------------------------------------------------
Step(r) ==
    \/ ReadMeta(r) \/ ReadBytes(r) \/ AcquireStampedeLock(r) \/ LookUpPlacement(r)
    \/ TryPeer(r) \/ FetchFromOrigin(r) \/ Reply(r) \/ ReleaseStampedeLock(r)
    \/ FetchForJob(r) \/ StartFill(r) \/ WriteFile(r) \/ CacheFile(r)

Next ==
    \/ Publish
    \/ \E r \in Processes :
          \/ \E e \in Edges, v \in Versions : Request(r, e, v)
          \/ \E j \in jobs : TakeJob(r, j)
          \/ Step(r) \/ AcquireFails(r) \/ FillFails(r)
    \/ \E e \in Edges : \/ \E v \in Versions : Evict(e, v) \/ LockExpires(e, v)
                        \/ \E S \in SUBSET keys[e] : Purge(e, S)
                        \/ DeleteDirectory(e) \/ Crash(e)

Spec == Init /\ [][Next]_vars

-----------------------------------------------------------------------------
(* Properties                                                              *)

Pcs == {"idle", "done", "meta", "read", "lock", "place", "peers", "origin", "fetch", "store",
        "write", "index", "reply", "release"}

\* Every entry, lock, job and process has its type.
TypeOK ==
    /\ latest \in 0 .. MaxVersions /\ faults \in 0 .. MaxFaults
    /\ meta \in [Edges -> [Versions -> {"none", "ram", "disk"}]]
    /\ data \in [Edges -> [Versions -> Bytes \cup {None}]]
    /\ disk \in [Edges -> [Versions -> Bytes \cup {None}]]
    /\ keys \in [Edges -> SUBSET Versions]
    /\ lock \in [Edges -> [Versions -> Processes \cup {None, Dead}]]
    /\ jobs \in SUBSET [edge : Edges, ver : Versions] /\ doomed \in SUBSET Edges
    /\ proc \in [Processes ->
         [pc : Pcs, kind : {"user", "job"}, edge : Edges \cup {None}, key : Versions,
          at : Edges \cup {None}, wants : Versions, via : {"ram", "disk"},
          bytes : Bytes \cup {None}, peers : SUBSET Edges, waited : BOOLEAN,
          lock : {"none", "held", "expired"}]]

\* Whatever peers, retries, evictions, purges and crashes do, no bytes of another
\* version are served for a version other than 1.  The entry of version 1 is the one
\* under which the edge worker caches every version it replicates, so an edge that
\* asks a peer for version 1 may get a later one.  Bytes may be cut short,
\* by a file that is being rewritten.
VersionExact ==
    \A r \in Processes : At(r, "reply") /\ proc[r].key # 1 => proc[r].bytes \in {proc[r].key, Torn}

\* Stampede protection: of the requests for a version at an edge only one looks up
\* peers and the origin, as long as its lock has not expired.
Coalesced ==
    \A q, r \in Processes :
        proc[q].lock = "held" /\ proc[r].lock = "held" =>
            q = r \/ proc[q].edge # proc[r].edge \/ proc[q].key # proc[r].key

\* Every way out of getEdgeContent releases the lock it knows it took: only a dead
\* process, or a Redis error on the SET or on the release, leaves one to expire.
LockHasOwner ==
    \A e \in Edges, v \in Versions : lock[e][v] \in Processes =>
        LET p == proc[lock[e][v]] IN p.lock = "held" /\ p.edge = e /\ p.key = v
=============================================================================
