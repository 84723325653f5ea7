------------------------- MODULE EdgeContentProofs -------------------------
(***************************************************************************)
(* What holds of EdgeContent for any number of edges, versions, requests   *)
(* and faults: the types, the versions that are served, and the stampede   *)
(* lock of an edge.                                                        *)
(***************************************************************************)
EXTENDS EdgeContent, TLAPS

ProcType ==
    [pc : Pcs, kind : {"user", "job"}, edge : Edges \cup {None}, key : Versions,
     at : Edges \cup {None}, wants : Versions, via : {"ram", "disk"},
     bytes : Bytes \cup {None}, peers : SUBSET Edges, waited : BOOLEAN,
     lock : {"none", "held", "expired"}]

Over == {"idle", "done"}
Filling == {"store", "write", "index"}

\* What a process may rely on at each point: a job caches under version 1 and never
\* takes the lock; a request that asks peers or the origin has taken it, one that
\* still reads its own cache has not; and bytes belong to the version they are
\* cached under, unless that is version 1.
Sound(p) ==
    /\ p.pc \in Over => p.edge = None /\ p.lock = "none"
    /\ p.pc \notin Over => p.edge \in Edges /\ p.at \in Edges
    /\ p.kind = "job" => p.key = 1 /\ p.lock = "none" /\ p.pc \in Filling \cup {"fetch"}
    /\ p.pc = "fetch" => p.kind = "job"
    /\ p.kind = "user" /\ p.pc \in Filling \cup {"place", "peers", "origin", "release"} =>
          p.lock # "none"
    /\ p.pc \in {"meta", "lock"} => p.lock = "none" /\ p.at = p.edge
    /\ p.pc = "read" => (p.lock = "none" <=> p.at = p.edge)
    /\ p.edge \notin p.peers
    /\ p.pc \in Filling \cup {"reply"} => p.bytes # None
    /\ p.key # 1 => p.bytes \in {p.key, Torn, None}

GoodProc == {p \in ProcType : Sound(p)}

\* An entry other than that of version 1 holds its own version.
OwnVersion ==
    \A e \in Edges : \A v \in Versions \ {1} :
        data[e][v] \in {v, Torn, None} /\ disk[e][v] \in {v, Torn, None}

TypeInv == TypeOK /\ proc \in [Processes -> GoodProc] /\ OwnVersion

\* The lock and the processes agree on who holds it, in both directions.
HolderIsLocked ==
    \A r \in Processes : proc[r].lock = "held" => lock[proc[r].edge][proc[r].key] = r

LockInv == LockHasOwner /\ HolderIsLocked

-----------------------------------------------------------------------------
(* Processes and entries.                                                  *)

LEMMA VersionFacts ==
  /\ 1 \in Versions /\ None \notin Versions /\ Torn \notin Versions /\ None # Torn
  /\ None \notin Edges /\ None \notin Processes /\ Dead \notin Processes /\ Dead # None
  /\ Replicas \subseteq Edges
  BY EdgeAssumption DEF Versions, Bytes

LEMMA IdleIsGood == Idle \in GoodProc /\ Idle.lock = "none"
  BY VersionFacts DEF Idle, GoodProc, ProcType, Pcs, Sound, Over, Filling

LEMMA DoneIsGood ==
  Done \in GoodProc /\ Done.lock = "none" /\ Done.edge = None /\ Done.pc = "done"
  BY VersionFacts DEF Done, Idle, GoodProc, ProcType, Pcs, Sound, Over, Filling

LEMMA TypeInvInit == Init => TypeInv
  BY EdgeAssumption, VersionFacts, IdleIsGood
     DEF Init, TypeInv, TypeOK, OwnVersion, GoodProc, ProcType, Bytes

\* One process goes on, and the entries stay as they are.
LEMMA ProcStep ==
  ASSUME proc \in [Processes -> GoodProc], NEW r \in Processes, NEW q \in GoodProc, Becomes(r, q)
  PROVE  proc' \in [Processes -> GoodProc]
  BY DEF Becomes

\* A process moves on without a change of what it does, for whom and where.
Keeps(p, q) ==
    /\ q.kind = p.kind /\ q.edge = p.edge /\ q.key = p.key /\ q.wants = p.wants

\* One entry is written.
LEMMA EntryUpdate ==
  ASSUME NEW S, NEW f \in [Edges -> [Versions -> S]], NEW e \in Edges, NEW v \in Versions,
         NEW x \in S, NEW g, g = [f EXCEPT ![e][v] = x]
  PROVE  /\ g \in [Edges -> [Versions -> S]] /\ g[e][v] = x
         /\ \A d \in Edges, u \in Versions : d # e \/ u # v => g[d][u] = f[d][u]
  OBVIOUS

LEMMA FoundHere ==
  ASSUME TypeInv, NEW r \in Processes, At(r, "read")
  PROVE  /\ Found(proc[r]) \in Bytes \cup {None}
         /\ proc[r].key # 1 => Found(proc[r]) \in {proc[r].key, Torn, None}
  <1>1. proc[r].at \in Edges /\ proc[r].key \in Versions
    BY DEF At, TypeInv, GoodProc, ProcType, Sound, Over
  <1>2. /\ data[proc[r].at][proc[r].key] \in Bytes \cup {None}
        /\ disk[proc[r].at][proc[r].key] \in Bytes \cup {None}
    BY <1>1 DEF TypeInv, TypeOK
  <1> QED
    BY <1>1, <1>2 DEF Found, TypeInv, OwnVersion

-----------------------------------------------------------------------------
(* What each step makes of the process that takes it.                      *)

LEMMA RequestProc ==
  ASSUME NEW e \in Edges, NEW v \in Versions,
         NEW q, q = [Idle EXCEPT !.pc = "meta", !.edge = e, !.at = e, !.key = v, !.wants = v]
  PROVE  q \in GoodProc /\ q.lock = "none"
  BY VersionFacts DEF Idle, GoodProc, ProcType, Pcs, Sound, Over, Filling

LEMMA JobProc ==
  ASSUME NEW e \in Edges, NEW v \in Versions,
         NEW q, q = [Idle EXCEPT !.pc = "fetch", !.kind = "job", !.edge = e, !.at = e,
                                 !.key = TargetVersion, !.wants = v]
  PROVE  q \in GoodProc /\ q.lock = "none"
  BY VersionFacts DEF Idle, GoodProc, ProcType, Pcs, Sound, Over, Filling, TargetVersion

LEMMA ReadMetaProc ==
  ASSUME NEW p \in GoodProc, p.pc = "meta", NEW w \in {"ram", "disk"},
         NEW q, q = [p EXCEPT !.pc = "read", !.via = w]
  PROVE  q \in GoodProc /\ Keeps(p, q) /\ q.lock = p.lock
  <1>1. /\ q \in ProcType /\ Keeps(p, q) /\ q.pc = "read" /\ q.at = p.at
        /\ q.bytes = p.bytes /\ q.peers = p.peers /\ q.lock = p.lock
    BY VersionFacts DEF GoodProc, ProcType, Pcs, Bytes, Keeps
  <1> QED
    BY <1>1, VersionFacts DEF GoodProc, ProcType, Keeps, Sound, Over, Filling

LEMMA HitProc ==
  ASSUME NEW p \in GoodProc, p.pc = "read", NEW b \in Bytes, b # None,
         p.key # 1 => b \in {p.key, Torn, None},
         NEW l \in {"reply", "store"}, l = "reply" <=> p.at = p.edge,
         NEW q, q = [p EXCEPT !.pc = l, !.via = "ram", !.bytes = b]
  PROVE  q \in GoodProc /\ Keeps(p, q) /\ q.lock = p.lock
  <1>1. /\ q \in ProcType /\ Keeps(p, q) /\ q.pc = l /\ q.at = p.at
        /\ q.bytes = b /\ q.peers = p.peers /\ q.lock = p.lock
    BY VersionFacts DEF GoodProc, ProcType, Pcs, Bytes, Keeps
  <1>2. p.kind \in {"user", "job"} /\ p.key \in Versions /\ Sound(p)
    BY DEF GoodProc, ProcType
  <1>3. Sound(q)
    <2>1. CASE p.at = p.edge
      BY <1>1, <1>2, <2>1 DEF Keeps, Sound, Over, Filling
    <2>2. CASE p.at # p.edge
      BY <1>1, <1>2, <2>2 DEF Keeps, Sound, Over, Filling
    <2> QED
      BY <2>1, <2>2
  <1> QED
    BY <1>1, <1>3 DEF GoodProc

LEMMA MissProc ==
  ASSUME NEW p \in GoodProc, p.pc = "read", p.at = p.edge,
         NEW q, q = [p EXCEPT !.pc = "lock", !.via = "ram"]
  PROVE  q \in GoodProc /\ Keeps(p, q) /\ q.lock = p.lock
  <1>1. /\ q \in ProcType /\ Keeps(p, q) /\ q.pc = "lock" /\ q.at = p.at
        /\ q.bytes = p.bytes /\ q.peers = p.peers /\ q.lock = p.lock
    BY VersionFacts DEF GoodProc, ProcType, Pcs, Bytes, Keeps
  <1> QED
    BY <1>1, VersionFacts DEF GoodProc, ProcType, Keeps, Sound, Over, Filling

LEMMA PeerMissProc ==
  ASSUME NEW p \in GoodProc, p.pc = "read", p.at # p.edge,
         NEW q, q = [p EXCEPT !.pc = "peers", !.via = "ram"]
  PROVE  q \in GoodProc /\ Keeps(p, q) /\ q.lock = p.lock
  <1>1. /\ q \in ProcType /\ Keeps(p, q) /\ q.pc = "peers" /\ q.at = p.at
        /\ q.bytes = p.bytes /\ q.peers = p.peers /\ q.lock = p.lock
    BY VersionFacts DEF GoodProc, ProcType, Pcs, Bytes, Keeps
  <1> QED
    BY <1>1, VersionFacts DEF GoodProc, ProcType, Keeps, Sound, Over, Filling

LEMMA LockedProc ==
  ASSUME NEW p \in GoodProc, p.pc = "lock",
         NEW q, q = [p EXCEPT !.pc = "place", !.lock = "held"]
  PROVE  q \in GoodProc /\ Keeps(p, q) /\ q.lock = "held"
  <1>1. /\ q \in ProcType /\ Keeps(p, q) /\ q.pc = "place" /\ q.at = p.at
        /\ q.bytes = p.bytes /\ q.peers = p.peers /\ q.lock = "held"
    BY VersionFacts DEF GoodProc, ProcType, Pcs, Bytes, Keeps
  <1> QED
    BY <1>1, VersionFacts DEF GoodProc, ProcType, Keeps, Sound, Over, Filling

LEMMA WaitProc ==
  ASSUME NEW p \in GoodProc, p.pc = "lock",
         NEW q, q = [p EXCEPT !.pc = "meta", !.waited = TRUE]
  PROVE  q \in GoodProc /\ Keeps(p, q) /\ q.lock = p.lock
  <1>1. /\ q \in ProcType /\ Keeps(p, q) /\ q.pc = "meta" /\ q.at = p.at
        /\ q.bytes = p.bytes /\ q.peers = p.peers /\ q.lock = p.lock
    BY VersionFacts DEF GoodProc, ProcType, Pcs, Bytes, Keeps
  <1> QED
    BY <1>1, VersionFacts DEF GoodProc, ProcType, Keeps, Sound, Over, Filling

LEMMA PlaceProc ==
  ASSUME NEW p \in GoodProc, p.pc = "place", NEW S \in SUBSET (Replicas \ {p.edge}),
         NEW q, q = [p EXCEPT !.pc = "peers", !.peers = S]
  PROVE  q \in GoodProc /\ Keeps(p, q) /\ q.lock = p.lock
  <1>1. /\ q \in ProcType /\ Keeps(p, q) /\ q.pc = "peers" /\ q.at = p.at
        /\ q.bytes = p.bytes /\ q.peers = S /\ q.lock = p.lock
    BY VersionFacts DEF GoodProc, ProcType, Pcs, Bytes, Keeps
  <1> QED
    BY <1>1, VersionFacts DEF GoodProc, ProcType, Keeps, Sound, Over, Filling

LEMMA PeerProc ==
  ASSUME NEW p \in GoodProc, p.pc = "peers", NEW e \in p.peers, NEW w \in {"ram", "disk"},
         NEW q, q = [p EXCEPT !.pc = "read", !.at = e, !.peers = p.peers \ {e}, !.via = w]
  PROVE  q \in GoodProc /\ Keeps(p, q) /\ q.lock = p.lock
  <1>1. /\ q \in ProcType /\ Keeps(p, q) /\ q.pc = "read" /\ q.at = e
        /\ q.bytes = p.bytes /\ q.peers = p.peers \ {e} /\ q.lock = p.lock
    BY VersionFacts DEF GoodProc, ProcType, Pcs, Bytes, Keeps
  <1> QED
    BY <1>1, VersionFacts DEF GoodProc, ProcType, Keeps, Sound, Over, Filling

LEMMA OriginProc ==
  ASSUME NEW p \in GoodProc, p.pc = "peers",
         NEW q, q = [p EXCEPT !.pc = "origin", !.at = p.edge]
  PROVE  q \in GoodProc /\ Keeps(p, q) /\ q.lock = p.lock
  <1>1. /\ q \in ProcType /\ Keeps(p, q) /\ q.pc = "origin" /\ q.at = p.edge
        /\ q.bytes = p.bytes /\ q.peers = p.peers /\ q.lock = p.lock
    BY VersionFacts DEF GoodProc, ProcType, Pcs, Bytes, Keeps
  <1> QED
    BY <1>1, VersionFacts DEF GoodProc, ProcType, Keeps, Sound, Over, Filling

LEMMA FetchedProc ==
  ASSUME NEW p \in GoodProc, p.pc = "origin", NEW l \in {"store", "reply"},
         NEW q, q = [p EXCEPT !.pc = l, !.bytes = p.key]
  PROVE  q \in GoodProc /\ Keeps(p, q) /\ q.lock = p.lock
  <1>1. /\ q \in ProcType /\ Keeps(p, q) /\ q.pc = l /\ q.at = p.at
        /\ q.bytes = p.key /\ q.peers = p.peers /\ q.lock = p.lock
    BY VersionFacts DEF GoodProc, ProcType, Pcs, Bytes, Keeps
  <1> QED
    BY <1>1, VersionFacts DEF GoodProc, ProcType, Keeps, Sound, Over, Filling

LEMMA LeavingProc ==
  ASSUME NEW p \in GoodProc, p.pc = "origin" \/ (p.pc = "reply" /\ p.lock # "none"),
         NEW q, q = [p EXCEPT !.pc = "release"]
  PROVE  q \in GoodProc /\ Keeps(p, q) /\ q.lock = p.lock
  <1>1. /\ q \in ProcType /\ Keeps(p, q) /\ q.pc = "release" /\ q.at = p.at
        /\ q.bytes = p.bytes /\ q.peers = p.peers /\ q.lock = p.lock
    BY VersionFacts DEF GoodProc, ProcType, Pcs, Bytes, Keeps
  <1> QED
    BY <1>1, VersionFacts DEF GoodProc, ProcType, Keeps, Sound, Over, Filling

LEMMA StoringProc ==
  ASSUME NEW p \in GoodProc, p.pc = "store", NEW l \in {"write", "index"},
         NEW q, q = [p EXCEPT !.pc = l]
  PROVE  q \in GoodProc /\ Keeps(p, q) /\ q.lock = p.lock
  <1>1. /\ q \in ProcType /\ Keeps(p, q) /\ q.pc = l /\ q.at = p.at
        /\ q.bytes = p.bytes /\ q.peers = p.peers /\ q.lock = p.lock
    BY VersionFacts DEF GoodProc, ProcType, Pcs, Bytes, Keeps
  <1> QED
    BY <1>1, VersionFacts DEF GoodProc, ProcType, Keeps, Sound, Over, Filling

LEMMA JobFetchedProc ==
  ASSUME NEW p \in GoodProc, p.pc = "fetch",
         NEW q, q = [p EXCEPT !.pc = "store", !.bytes = p.wants]
  PROVE  q \in GoodProc /\ Keeps(p, q) /\ q.lock = p.lock
  <1>1. /\ q \in ProcType /\ Keeps(p, q) /\ q.pc = "store" /\ q.at = p.at
        /\ q.bytes = p.wants /\ q.peers = p.peers /\ q.lock = p.lock
    BY VersionFacts DEF GoodProc, ProcType, Pcs, Bytes, Keeps
  <1> QED
    BY <1>1, VersionFacts DEF GoodProc, ProcType, Keeps, Sound, Over, Filling

LEMMA WrittenProc ==
  ASSUME NEW p \in GoodProc, p.pc = "write",
         NEW q, q = [p EXCEPT !.pc = "index", !.via = "disk"]
  PROVE  q \in GoodProc /\ Keeps(p, q) /\ q.lock = p.lock
  <1>1. /\ q \in ProcType /\ Keeps(p, q) /\ q.pc = "index" /\ q.at = p.at
        /\ q.bytes = p.bytes /\ q.peers = p.peers /\ q.lock = p.lock
    BY VersionFacts DEF GoodProc, ProcType, Pcs, Bytes, Keeps
  <1> QED
    BY <1>1, VersionFacts DEF GoodProc, ProcType, Keeps, Sound, Over, Filling

LEMMA CachedProc ==
  ASSUME NEW p \in GoodProc, p.pc = "index", p.kind = "user",
         NEW q, q = [p EXCEPT !.pc = "reply", !.via = "ram"]
  PROVE  q \in GoodProc /\ Keeps(p, q) /\ q.lock = p.lock
  <1>1. /\ q \in ProcType /\ Keeps(p, q) /\ q.pc = "reply" /\ q.at = p.at
        /\ q.bytes = p.bytes /\ q.peers = p.peers /\ q.lock = p.lock
    BY VersionFacts DEF GoodProc, ProcType, Pcs, Bytes, Keeps
  <1> QED
    BY <1>1, VersionFacts DEF GoodProc, ProcType, Keeps, Sound, Over, Filling

LEMMA FailedProc ==
  ASSUME NEW p \in GoodProc, p.pc \in Filling, p.kind = "user",
         NEW l \in {"peers", "release"}, l = "release" <=> p.at = p.edge,
         NEW q, q = [p EXCEPT !.pc = l, !.via = "ram", !.bytes = None]
  PROVE  q \in GoodProc /\ Keeps(p, q) /\ q.lock = p.lock
  <1>1. /\ q \in ProcType /\ Keeps(p, q) /\ q.pc = l /\ q.at = p.at
        /\ q.bytes = None /\ q.peers = p.peers /\ q.lock = p.lock
    BY VersionFacts DEF GoodProc, ProcType, Pcs, Bytes, Keeps
  <1>2. p.kind \in {"user", "job"} /\ p.key \in Versions /\ Sound(p)
    BY DEF GoodProc, ProcType
  <1>3. Sound(q)
    <2>1. CASE p.at = p.edge
      BY <1>1, <1>2, <2>1 DEF Keeps, Sound, Over, Filling
    <2>2. CASE p.at # p.edge
      BY <1>1, <1>2, <2>2 DEF Keeps, Sound, Over, Filling
    <2> QED
      BY <2>1, <2>2
  <1> QED
    BY <1>1, <1>3 DEF GoodProc

LEMMA ExpiredProc ==
  ASSUME NEW p \in GoodProc, p.lock = "held",
         NEW q, q = [p EXCEPT !.lock = "expired"]
  PROVE  q \in GoodProc /\ Keeps(p, q) /\ q.lock = "expired"
  <1>1. /\ q \in ProcType /\ Keeps(p, q) /\ q.pc = p.pc /\ q.at = p.at
        /\ q.bytes = p.bytes /\ q.peers = p.peers /\ q.lock = "expired"
    BY VersionFacts DEF GoodProc, ProcType, Pcs, Bytes, Keeps
  <1> QED
    BY <1>1, VersionFacts DEF GoodProc, ProcType, Keeps, Sound, Over, Filling

-----------------------------------------------------------------------------
(* The invariant.                                                          *)

Inv == TypeInv /\ LockInv

LEMMA InvInit == Init => Inv
  <1> SUFFICES ASSUME Init PROVE LockInv
    BY TypeInvInit DEF Inv
  <1>1. LockHasOwner
    BY VersionFacts DEF Init, LockHasOwner
  <1>2. HolderIsLocked
    BY IdleIsGood DEF Init, HolderIsLocked
  <1> QED
    BY <1>1, <1>2 DEF LockInv

\* A process goes on with the lock it had, if any.
LEMMA LockKept ==
  ASSUME Inv, NEW r \in Processes, NEW q \in GoodProc, Becomes(r, q), UNCHANGED lock,
         q.lock = proc[r].lock, Keeps(proc[r], q)
  PROVE  proc' \in [Processes -> GoodProc] /\ LockInv'
  <1>0. proc \in [Processes -> GoodProc]
    BY DEF Inv, TypeInv
  <1>1. proc' \in [Processes -> GoodProc]
    BY <1>0, ProcStep
  <1>2. \A s \in Processes : /\ proc'[s].lock = proc[s].lock /\ proc'[s].edge = proc[s].edge
                             /\ proc'[s].key = proc[s].key
    BY <1>0 DEF Becomes, Keeps
  <1> QED
    BY <1>1, <1>2 DEF Inv, LockInv, LockHasOwner, HolderIsLocked

\* A process without a lock begins or ends.
LEMMA LockAside ==
  ASSUME Inv, NEW r \in Processes, NEW q \in GoodProc, Becomes(r, q), UNCHANGED lock,
         q.lock # "held", proc[r].lock # "held"
  PROVE  proc' \in [Processes -> GoodProc] /\ LockInv'
  <1>0. proc \in [Processes -> GoodProc]
    BY DEF Inv, TypeInv
  <1>1. proc' \in [Processes -> GoodProc]
    BY <1>0, ProcStep
  <1>2. proc'[r] = q /\ \A s \in Processes \ {r} : proc'[s] = proc[s]
    BY <1>0 DEF Becomes
  <1>3. LockHasOwner'
    <2>1. ASSUME NEW e \in Edges, NEW v \in Versions, lock'[e][v] \in Processes
          PROVE  LET p == proc'[lock'[e][v]] IN p.lock = "held" /\ p.edge = e /\ p.key = v
      <3>1. LET p == proc[lock[e][v]] IN p.lock = "held" /\ p.edge = e /\ p.key = v
        BY <2>1 DEF Inv, LockInv, LockHasOwner
      <3> QED
        BY <1>2, <2>1, <3>1
    <2> QED
      BY <2>1 DEF LockHasOwner
  <1>4. HolderIsLocked'
    BY <1>2 DEF Inv, LockInv, HolderIsLocked
  <1> QED
    BY <1>1, <1>3, <1>4 DEF LockInv

LEMMA Elsewhere ==
  ASSUME TypeInv, UNCHANGED <<latest, entries, lock, jobs, doomed, faults>>,
         proc' \in [Processes -> GoodProc]
  PROVE  TypeInv'
  BY DEF TypeInv, TypeOK, OwnVersion, entries, GoodProc, ProcType

LEMMA NoProcStep ==
  ASSUME LockInv, UNCHANGED <<proc, lock>>
  PROVE  LockInv'
  BY DEF LockInv, LockHasOwner, HolderIsLocked

LEMMA InvNext == Inv /\ [Next]_vars => Inv'
  <1> SUFFICES ASSUME Inv, [Next]_vars PROVE Inv'
    OBVIOUS
  <1>0. /\ TypeInv /\ proc \in [Processes -> GoodProc]
        /\ \A r \in Processes : proc[r] \in GoodProc /\ proc[r] \in ProcType /\ Sound(proc[r])
    BY DEF Inv, TypeInv, GoodProc
  <1>1. ASSUME Publish PROVE Inv'
    <2>1. latest' \in 0 .. MaxVersions /\ latest' \in Versions
      BY <1>0, <1>1, EdgeAssumption DEF Publish, TypeInv, TypeOK, Versions
    <2>2. jobs' \in SUBSET [edge : Edges, ver : Versions]
      BY <1>0, <1>1, <2>1, VersionFacts DEF Publish, TypeInv, TypeOK
    <2>3. TypeInv'
      BY <1>0, <1>1, <2>1, <2>2 DEF Publish, TypeInv, TypeOK, OwnVersion, entries
    <2> QED
      BY <1>1, <2>3, NoProcStep DEF Publish, Inv
  <1>2. ASSUME NEW r \in Processes, NEW e \in Edges, NEW v \in Versions, Request(r, e, v)
        PROVE  Inv'
    <2>1. PICK q : q = [Idle EXCEPT !.pc = "meta", !.edge = e, !.at = e, !.key = v, !.wants = v]
      OBVIOUS
    <2>2. q \in GoodProc /\ q.lock = "none"
      BY <2>1, RequestProc
    <2>3. proc[r].lock = "none"
      BY <1>0, <1>2 DEF Request, At, Sound, Over
    <2>4. proc' \in [Processes -> GoodProc] /\ LockInv'
      BY <1>2, <2>1, <2>2, <2>3, LockAside DEF Request
    <2> QED
      BY <1>0, <1>2, <2>4, Elsewhere DEF Request, Inv
  <1>3. ASSUME NEW r \in Processes, NEW j \in jobs, TakeJob(r, j) PROVE Inv'
    <2>0. j.edge \in Edges /\ j.ver \in Versions
      BY <1>0 DEF TypeInv, TypeOK
    <2>1. PICK q : q = [Idle EXCEPT !.pc = "fetch", !.kind = "job", !.edge = j.edge,
                                    !.at = j.edge, !.key = TargetVersion, !.wants = j.ver]
      OBVIOUS
    <2>2. q \in GoodProc /\ q.lock = "none"
      BY <2>0, <2>1, JobProc
    <2>3. proc[r].lock = "none"
      BY <1>0, <1>3 DEF TakeJob, At, Sound, Over
    <2>4. proc' \in [Processes -> GoodProc] /\ LockInv'
      BY <1>3, <2>1, <2>2, <2>3, LockAside DEF TakeJob
    <2>5. TypeInv'
      BY <1>0, <1>3, <2>4 DEF TakeJob, TypeInv, TypeOK, OwnVersion, entries, GoodProc, ProcType
    <2> QED
      BY <2>4, <2>5 DEF Inv
  <1>4. ASSUME NEW r \in Processes, ReadMeta(r) PROVE Inv'
    <2>0. PICK w \in {"ram", "disk"} : w = Where(proc[r].edge, proc[r].key)
      BY DEF Where
    <2>1. PICK q : q = [proc[r] EXCEPT !.pc = "read", !.via = w]
      OBVIOUS
    <2>2. q \in GoodProc /\ Keeps(proc[r], q) /\ q.lock = proc[r].lock
      BY <1>0, <1>4, <2>1, ReadMetaProc DEF ReadMeta, At
    <2>3. proc' \in [Processes -> GoodProc] /\ LockInv'
      BY <1>4, <2>0, <2>1, <2>2, LockKept DEF ReadMeta
    <2> QED
      BY <1>0, <1>4, <2>3, Elsewhere DEF ReadMeta, Inv
  <1>5. ASSUME NEW r \in Processes, ReadBytes(r) PROVE Inv'
    <2> DEFINE p == proc[r]
               local == p.at = p.edge
    <2>0. p \in GoodProc /\ p.pc = "read"
      BY <1>0, <1>5 DEF ReadBytes, At
    <2>1. CASE /\ Found(p) # None
               /\ Becomes(r, [p EXCEPT !.pc = IF local THEN "reply" ELSE "store", !.via = "ram",
                                       !.bytes = Found(p)])
      <3>0. PICK b : b = Found(p)
        OBVIOUS
      <3>1. b \in Bytes /\ b # None /\ (p.key # 1 => b \in {p.key, Torn, None})
        BY <1>0, <1>5, <2>1, <3>0, FoundHere DEF ReadBytes
      <3>1a. PICK l \in {"reply", "store"} : l = IF local THEN "reply" ELSE "store"
        OBVIOUS
      <3>1b. l = "reply" <=> p.at = p.edge
        BY <3>1a
      <3>2. PICK q : q = [p EXCEPT !.pc = l, !.via = "ram", !.bytes = b]
        OBVIOUS
      <3>3. q \in GoodProc /\ Keeps(p, q) /\ q.lock = p.lock
        BY <2>0, <3>1, <3>1b, <3>2, HitProc
      <3>4. Becomes(r, q)
        BY <2>1, <3>0, <3>1a, <3>2
      <3> QED
        BY <3>3, <3>4, <1>5, LockKept, Elsewhere DEF ReadBytes, Inv
    <2>2. CASE Found(p) = None /\ local /\ Becomes(r, [p EXCEPT !.pc = "lock", !.via = "ram"])
      <3>1. PICK q : q = [p EXCEPT !.pc = "lock", !.via = "ram"]
        OBVIOUS
      <3>2. q \in GoodProc /\ Keeps(p, q) /\ q.lock = p.lock
        BY <2>0, <2>2, <3>1, MissProc
      <3>3. Becomes(r, q)
        BY <2>2, <3>1
      <3> QED
        BY <3>2, <3>3, <1>5, LockKept, Elsewhere DEF ReadBytes, Inv
    <2>3. CASE Found(p) = None /\ local /\ Becomes(r, Done)
      <3>1. p.lock = "none"
        BY <1>0, <2>0, <2>3 DEF Sound
      <3> QED
        BY <3>1, <2>3, <1>5, DoneIsGood, LockAside, Elsewhere DEF ReadBytes, Inv
    <2>4. CASE ~local /\ Becomes(r, [p EXCEPT !.pc = "peers", !.via = "ram"])
      <3>1. PICK q : q = [p EXCEPT !.pc = "peers", !.via = "ram"]
        OBVIOUS
      <3>2. q \in GoodProc /\ Keeps(p, q) /\ q.lock = p.lock
        BY <2>0, <2>4, <3>1, PeerMissProc
      <3>3. Becomes(r, q)
        BY <2>4, <3>1
      <3> QED
        BY <3>2, <3>3, <1>5, LockKept, Elsewhere DEF ReadBytes, Inv
    <2> QED
      BY <1>5, <2>1, <2>2, <2>3, <2>4 DEF ReadBytes
  <1>6. ASSUME NEW r \in Processes, AcquireStampedeLock(r) PROVE Inv'
    <2>0. PICK p : p = proc[r]
      OBVIOUS
    <2>0a. p \in GoodProc /\ p.pc = "lock" /\ p.lock = "none" /\ p.edge \in Edges /\ p.key \in Versions
      BY <1>0, <1>6, <2>0 DEF AcquireStampedeLock, At, Sound, Over, ProcType
    <2>1. CASE /\ LockFree(p.edge, p.key)
               /\ lock' = [lock EXCEPT ![p.edge][p.key] = r]
               /\ Becomes(r, [p EXCEPT !.pc = "place", !.lock = "held"])
      <3>1. PICK q : q = [p EXCEPT !.pc = "place", !.lock = "held"]
        OBVIOUS
      <3>2. q \in GoodProc /\ q.edge = p.edge /\ q.key = p.key /\ q.lock = "held"
        BY <2>0a, <3>1, LockedProc DEF Keeps
      <3>3. Becomes(r, q)
        BY <2>1, <3>1
      <3>4. proc' \in [Processes -> GoodProc]
        BY <1>0, <3>2, <3>3, ProcStep
      <3>5. proc'[r] = q /\ \A s \in Processes \ {r} : proc'[s] = proc[s]
        BY <1>0, <3>3 DEF Becomes
      <3>6. /\ lock' \in [Edges -> [Versions -> Processes \cup {None, Dead}]]
            /\ lock'[p.edge][p.key] = r
            /\ \A e \in Edges, v \in Versions :
                  e # p.edge \/ v # p.key => lock'[e][v] = lock[e][v]
        BY <1>0, <2>0a, <2>1 DEF TypeInv, TypeOK
      <3>7. LockHasOwner'
        <4>1. ASSUME NEW e \in Edges, NEW v \in Versions, lock'[e][v] \in Processes
              PROVE  LET x == proc'[lock'[e][v]] IN x.lock = "held" /\ x.edge = e /\ x.key = v
          <5>1. CASE e = p.edge /\ v = p.key
            BY <3>2, <3>5, <3>6, <5>1
          <5>2. CASE e # p.edge \/ v # p.key
            <6>1. lock'[e][v] = lock[e][v]
              BY <3>6, <5>2
            <6>2. LET x == proc[lock[e][v]] IN x.lock = "held" /\ x.edge = e /\ x.key = v
              BY <4>1, <6>1 DEF Inv, LockInv, LockHasOwner
            <6>3. lock[e][v] # r
              BY <2>0, <2>0a, <6>2
            <6> QED
              BY <3>5, <4>1, <6>1, <6>2, <6>3
          <5> QED
            BY <5>1, <5>2
        <4> QED
          BY <4>1 DEF LockHasOwner
      <3>8. HolderIsLocked'
        <4>1. ASSUME NEW s \in Processes, proc'[s].lock = "held"
              PROVE  lock'[proc'[s].edge][proc'[s].key] = s
          <5>1. CASE s = r
            BY <3>2, <3>5, <3>6, <5>1
          <5>2. CASE s # r
            <6>1. proc'[s] = proc[s] /\ lock[proc[s].edge][proc[s].key] = s
              BY <3>5, <4>1, <5>2 DEF Inv, LockInv, HolderIsLocked
            <6>2. proc[s].edge \in Edges /\ proc[s].key \in Versions
              BY <1>0, <4>1, <6>1 DEF Sound, ProcType
            <6>3. proc[s].edge # p.edge \/ proc[s].key # p.key
              BY <2>1, <6>1, VersionFacts DEF LockFree
            <6> QED
              BY <3>6, <6>1, <6>2, <6>3
          <5> QED
            BY <5>1, <5>2
        <4> QED
          BY <4>1 DEF HolderIsLocked
      <3>9. TypeInv'
        BY <1>0, <1>6, <3>4, <3>6
           DEF AcquireStampedeLock, TypeInv, TypeOK, OwnVersion, entries, GoodProc, ProcType
      <3> QED
        BY <3>7, <3>8, <3>9 DEF Inv, LockInv
    <2>2. CASE /\ Becomes(r, [p EXCEPT !.pc = "meta", !.waited = TRUE])
               /\ UNCHANGED lock
      <3>1. PICK q : q = [p EXCEPT !.pc = "meta", !.waited = TRUE]
        OBVIOUS
      <3>2. q \in GoodProc /\ Keeps(p, q) /\ q.lock = p.lock
        BY <2>0a, <3>1, WaitProc
      <3>3. Becomes(r, q)
        BY <2>2, <3>1
      <3> QED
        BY <1>0, <1>6, <2>0, <2>2, <3>2, <3>3, LockKept, Elsewhere DEF AcquireStampedeLock, Inv
    <2> QED
      BY <1>6, <2>0, <2>1, <2>2 DEF AcquireStampedeLock
  <1>6a. ASSUME NEW r \in Processes, AcquireFails(r) PROVE Inv'
    <2>0. PICK p : p = proc[r]
      OBVIOUS
    <2>0a. p.lock = "none" /\ p.edge \in Edges /\ p.key \in Versions
      BY <1>0, <1>6a, <2>0 DEF AcquireFails, At, Sound, Over, ProcType
    <2>1. faults' \in 0 .. MaxFaults
      BY <1>0, <1>6a, EdgeAssumption DEF AcquireFails, Fault, TypeInv, TypeOK
    <2>2. Becomes(r, Done)
      BY <1>6a DEF AcquireFails
    <2>3. CASE UNCHANGED lock
      <3>1. proc' \in [Processes -> GoodProc] /\ LockInv'
        BY <2>0, <2>0a, <2>2, <2>3, DoneIsGood, LockAside
      <3>2. TypeInv'
        BY <1>0, <1>6a, <2>1, <2>3, <3>1
           DEF AcquireFails, TypeInv, TypeOK, OwnVersion, entries, GoodProc, ProcType
      <3> QED
        BY <3>1, <3>2 DEF Inv
    <2>4. CASE LockFree(p.edge, p.key) /\ lock' = [lock EXCEPT ![p.edge][p.key] = Dead]
      <3>1. proc' \in [Processes -> GoodProc]
        BY <1>0, <2>2, DoneIsGood, ProcStep
      <3>2. proc'[r] = Done /\ \A s \in Processes \ {r} : proc'[s] = proc[s]
        BY <1>0, <2>2 DEF Becomes
      <3>3. /\ lock' \in [Edges -> [Versions -> Processes \cup {None, Dead}]]
            /\ lock'[p.edge][p.key] = Dead
            /\ \A e \in Edges, v \in Versions :
                  e # p.edge \/ v # p.key => lock'[e][v] = lock[e][v]
        BY <1>0, <2>0a, <2>4 DEF TypeInv, TypeOK
      <3>4. LockHasOwner'
        <4>1. ASSUME NEW e \in Edges, NEW v \in Versions, lock'[e][v] \in Processes
              PROVE  LET x == proc'[lock'[e][v]] IN x.lock = "held" /\ x.edge = e /\ x.key = v
          <5>1. lock'[e][v] = lock[e][v]
            BY <3>3, <4>1, VersionFacts
          <5>2. LET x == proc[lock[e][v]] IN x.lock = "held" /\ x.edge = e /\ x.key = v
            BY <4>1, <5>1 DEF Inv, LockInv, LockHasOwner
          <5>3. lock[e][v] # r
            BY <2>0, <2>0a, <5>2
          <5> QED
            BY <3>2, <4>1, <5>1, <5>2, <5>3
        <4> QED
          BY <4>1 DEF LockHasOwner
      <3>5. HolderIsLocked'
        <4>1. ASSUME NEW s \in Processes, proc'[s].lock = "held"
              PROVE  lock'[proc'[s].edge][proc'[s].key] = s
          <5>1. s # r /\ proc'[s] = proc[s]
            BY <3>2, <4>1, DoneIsGood
          <5>2. lock[proc[s].edge][proc[s].key] = s
            BY <4>1, <5>1 DEF Inv, LockInv, HolderIsLocked
          <5>3. proc[s].edge \in Edges /\ proc[s].key \in Versions
            BY <1>0, <4>1, <5>1 DEF Sound, ProcType
          <5>4. proc[s].edge # p.edge \/ proc[s].key # p.key
            BY <2>4, <5>2, VersionFacts DEF LockFree
          <5> QED
            BY <3>3, <5>1, <5>2, <5>3, <5>4
        <4> QED
          BY <4>1 DEF HolderIsLocked
      <3>6. TypeInv'
        BY <1>0, <1>6a, <2>1, <3>1, <3>3
           DEF AcquireFails, TypeInv, TypeOK, OwnVersion, entries, GoodProc, ProcType
      <3> QED
        BY <3>4, <3>5, <3>6 DEF Inv, LockInv
    <2> QED
      BY <1>6a, <2>0, <2>3, <2>4 DEF AcquireFails
  <1>7. ASSUME NEW r \in Processes, LookUpPlacement(r) PROVE Inv'
    <2>0. proc[r] \in GoodProc /\ proc[r].pc = "place"
      BY <1>0, <1>7 DEF LookUpPlacement, At
    <2>1. PICK S \in SUBSET (Replicas \ {proc[r].edge}) :
             Becomes(r, [proc[r] EXCEPT !.pc = "peers", !.peers = S])
      BY <1>7 DEF LookUpPlacement
    <2>2. PICK q : q = [proc[r] EXCEPT !.pc = "peers", !.peers = S]
      OBVIOUS
    <2>3. q \in GoodProc /\ Keeps(proc[r], q) /\ q.lock = proc[r].lock
      BY <2>0, <2>2, PlaceProc
    <2>4. Becomes(r, q)
      BY <2>1, <2>2
    <2> QED
      BY <2>3, <2>4, <1>7, LockKept, Elsewhere DEF LookUpPlacement, Inv
  <1>8. ASSUME NEW r \in Processes, TryPeer(r) PROVE Inv'
    <2>0. proc[r] \in GoodProc /\ proc[r].pc = "peers"
      BY <1>0, <1>8 DEF TryPeer, At
    <2>1. ASSUME NEW e \in proc[r].peers,
                 Becomes(r, [proc[r] EXCEPT !.pc = "read", !.at = e, !.peers = @ \ {e},
                                            !.via = Where(e, proc[r].key)])
          PROVE  Inv'
      <3>1. PICK w \in {"ram", "disk"} : w = Where(e, proc[r].key)
        BY DEF Where
      <3>2. PICK q : q = [proc[r] EXCEPT !.pc = "read", !.at = e, !.peers = proc[r].peers \ {e},
                                         !.via = w]
        OBVIOUS
      <3>3. q \in GoodProc /\ Keeps(proc[r], q) /\ q.lock = proc[r].lock
        BY <2>0, <3>2, PeerProc
      <3>4. Becomes(r, q)
        BY <2>1, <3>1, <3>2
      <3> QED
        BY <3>3, <3>4, <1>8, LockKept, Elsewhere DEF TryPeer, Inv
    <2>2. CASE Becomes(r, [proc[r] EXCEPT !.pc = "origin", !.at = proc[r].edge])
      <3>1. PICK q : q = [proc[r] EXCEPT !.pc = "origin", !.at = proc[r].edge]
        OBVIOUS
      <3>2. q \in GoodProc /\ Keeps(proc[r], q) /\ q.lock = proc[r].lock
        BY <2>0, <3>1, OriginProc
      <3>3. Becomes(r, q)
        BY <2>2, <3>1
      <3> QED
        BY <3>2, <3>3, <1>8, LockKept, Elsewhere DEF TryPeer, Inv
    <2> QED
      BY <1>8, <2>1, <2>2 DEF TryPeer
  <1>9. ASSUME NEW r \in Processes, FetchFromOrigin(r) PROVE Inv'
    <2>0. proc[r] \in GoodProc /\ proc[r].pc = "origin"
      BY <1>0, <1>9 DEF FetchFromOrigin, At
    <2>1. ASSUME NEW l \in {"store", "reply"},
                 Becomes(r, [proc[r] EXCEPT !.pc = l, !.bytes = proc[r].key])
          PROVE  Inv'
      <3>1. PICK q : q = [proc[r] EXCEPT !.pc = l, !.bytes = proc[r].key]
        OBVIOUS
      <3>2. q \in GoodProc /\ Keeps(proc[r], q) /\ q.lock = proc[r].lock
        BY <2>0, <3>1, FetchedProc
      <3>3. Becomes(r, q)
        BY <2>1, <3>1
      <3> QED
        BY <3>2, <3>3, <1>9, LockKept, Elsewhere DEF FetchFromOrigin, Inv
    <2>2. CASE Goto(r, "release")
      <3>1. PICK q : q = [proc[r] EXCEPT !.pc = "release"]
        OBVIOUS
      <3>1a. proc[r].pc = "origin" \/ (proc[r].pc = "reply" /\ proc[r].lock # "none")
        BY <2>0
      <3>2. q \in GoodProc /\ Keeps(proc[r], q) /\ q.lock = proc[r].lock
        BY <2>0, <3>1, <3>1a, LeavingProc, Zenon
      <3>3. Becomes(r, q)
        BY <2>2, <3>1 DEF Goto, Becomes
      <3> QED
        BY <3>2, <3>3, <1>9, LockKept, Elsewhere DEF FetchFromOrigin, Inv
    <2> QED
      BY <1>9, <2>1, <2>2 DEF FetchFromOrigin
  <1>10. ASSUME NEW r \in Processes, Reply(r) PROVE Inv'
    <2>0. proc[r] \in GoodProc /\ proc[r].pc = "reply"
      BY <1>0, <1>10 DEF Reply, At
    <2>1. CASE proc[r].lock # "none"
      <3>1. PICK q : q = [proc[r] EXCEPT !.pc = "release"]
        OBVIOUS
      <3>2. q \in GoodProc /\ Keeps(proc[r], q) /\ q.lock = proc[r].lock
        BY <2>0, <2>1, <3>1, LeavingProc
      <3>3. Becomes(r, q)
        BY <1>10, <2>1, <3>1 DEF Reply, Goto, Becomes
      <3> QED
        BY <3>2, <3>3, <1>10, LockKept, Elsewhere DEF Reply, Inv
    <2>2. CASE proc[r].lock = "none"
      BY <1>10, <2>2, DoneIsGood, LockAside, Elsewhere DEF Reply, Inv
    <2> QED
      BY <2>1, <2>2
  <1>11. ASSUME NEW r \in Processes, ReleaseStampedeLock(r) PROVE Inv'
    <2>0. PICK p : p = proc[r]
      OBVIOUS
    <2>1. p.edge \in Edges /\ p.key \in Versions
      BY <1>0, <1>11, <2>0 DEF ReleaseStampedeLock, At, Sound, Over, ProcType
    <2>2. PICK x \in {None, Dead} :
             lock' = [lock EXCEPT ![p.edge][p.key] = IF @ = r THEN x ELSE @]
      BY <1>11, <2>0 DEF ReleaseStampedeLock
    <2>3. /\ lock' \in [Edges -> [Versions -> Processes \cup {None, Dead}]]
          /\ \A e \in Edges, v \in Versions : e # p.edge \/ v # p.key => lock'[e][v] = lock[e][v]
          /\ lock'[p.edge][p.key] = IF lock[p.edge][p.key] = r THEN x ELSE lock[p.edge][p.key]
      BY <1>0, <2>1, <2>2 DEF TypeInv, TypeOK
    <2>4. Becomes(r, Done)
      BY <1>11 DEF ReleaseStampedeLock
    <2>5. proc' \in [Processes -> GoodProc]
      BY <1>0, <2>4, DoneIsGood, ProcStep
    <2>6. proc'[r] = Done /\ \A s \in Processes \ {r} : proc'[s] = proc[s]
      BY <1>0, <2>4 DEF Becomes
    <2>7. \A e \in Edges, v \in Versions :
             lock'[e][v] \in Processes => lock'[e][v] = lock[e][v] /\ lock[e][v] # r
      <3> SUFFICES ASSUME NEW e \in Edges, NEW v \in Versions, lock'[e][v] \in Processes
                   PROVE  lock'[e][v] = lock[e][v] /\ lock[e][v] # r
        OBVIOUS
      <3>1. CASE e = p.edge /\ v = p.key
        BY <2>3, <3>1, VersionFacts
      <3>2. CASE e # p.edge \/ v # p.key
        BY <2>0, <2>3, <3>2 DEF Inv, LockInv, LockHasOwner
      <3> QED
        BY <3>1, <3>2
    <2>8. LockHasOwner'
      <3>1. ASSUME NEW e \in Edges, NEW v \in Versions, lock'[e][v] \in Processes
            PROVE  LET y == proc'[lock'[e][v]] IN y.lock = "held" /\ y.edge = e /\ y.key = v
        <4>1. lock'[e][v] = lock[e][v] /\ lock[e][v] # r
          BY <2>7, <3>1
        <4>2. LET y == proc[lock[e][v]] IN y.lock = "held" /\ y.edge = e /\ y.key = v
          BY <3>1, <4>1 DEF Inv, LockInv, LockHasOwner
        <4> QED
          BY <2>6, <3>1, <4>1, <4>2
      <3> QED
        BY <3>1 DEF LockHasOwner
    <2>9. HolderIsLocked'
      <3>1. ASSUME NEW s \in Processes, proc'[s].lock = "held"
            PROVE  lock'[proc'[s].edge][proc'[s].key] = s
        <4>1. s # r /\ proc'[s] = proc[s]
          BY <2>6, <3>1, DoneIsGood
        <4>2. lock[proc[s].edge][proc[s].key] = s
          BY <3>1, <4>1 DEF Inv, LockInv, HolderIsLocked
        <4>3. proc[s].edge \in Edges /\ proc[s].key \in Versions
          BY <1>0, <3>1, <4>1 DEF Sound, ProcType
        <4> QED
          BY <2>3, <4>1, <4>2, <4>3
      <3> QED
        BY <3>1 DEF HolderIsLocked
    <2>10. faults' \in 0 .. MaxFaults
      <3>1. UNCHANGED faults \/ Fault
        BY <1>11 DEF ReleaseStampedeLock
      <3> QED
        BY <1>0, <3>1, EdgeAssumption DEF Fault, TypeInv, TypeOK
    <2>11. TypeInv'
      BY <1>0, <1>11, <2>3, <2>5, <2>10
         DEF ReleaseStampedeLock, TypeInv, TypeOK, OwnVersion, entries, GoodProc, ProcType
    <2> QED
      BY <2>8, <2>9, <2>11 DEF Inv, LockInv
  <1>12. ASSUME NEW r \in Processes, FetchForJob(r) PROVE Inv'
    <2>0. /\ proc[r] \in GoodProc /\ proc[r].pc = "fetch" /\ proc[r].lock = "none"
          /\ Requeued(r) \in SUBSET [edge : Edges, ver : Versions]
      BY <1>0, <1>12 DEF FetchForJob, At, Sound, Over, ProcType, Requeued
    <2>1. proc' \in [Processes -> GoodProc] /\ LockInv'
      <3>1. CASE Becomes(r, [proc[r] EXCEPT !.pc = "store", !.bytes = proc[r].wants])
        <4>1. PICK q : q = [proc[r] EXCEPT !.pc = "store", !.bytes = proc[r].wants]
          OBVIOUS
        <4>2. q \in GoodProc /\ Keeps(proc[r], q) /\ q.lock = proc[r].lock
          BY <2>0, <4>1, JobFetchedProc
        <4>3. Becomes(r, q)
          BY <3>1, <4>1
        <4> QED
          BY <4>2, <4>3, <1>12, LockKept DEF FetchForJob
      <3>2. CASE Becomes(r, Done)
        BY <1>12, <2>0, <3>2, DoneIsGood, LockAside DEF FetchForJob
      <3> QED
        BY <1>12, <3>1, <3>2 DEF FetchForJob
    <2>2. jobs' \in SUBSET [edge : Edges, ver : Versions]
      <3>1. jobs' \in {jobs, jobs \cup Requeued(r)}
        BY <1>12 DEF FetchForJob
      <3> QED
        BY <1>0, <2>0, <3>1 DEF TypeInv, TypeOK
    <2>3. TypeInv'
      BY <1>0, <1>12, <2>1, <2>2
         DEF FetchForJob, TypeInv, TypeOK, OwnVersion, entries, GoodProc, ProcType
    <2> QED
      BY <2>1, <2>3 DEF Inv
  <1>13. ASSUME NEW r \in Processes, StartFill(r) PROVE Inv'
    <2>0. /\ proc[r] \in GoodProc /\ proc[r].pc = "store"
          /\ proc[r].edge \in Edges /\ proc[r].key \in Versions
      BY <1>0, <1>13 DEF StartFill, At, Sound, Over, ProcType
    <2>1. PICK l \in {"write", "index"} : Goto(r, l)
      BY <1>13 DEF StartFill
    <2>2. PICK q : q = [proc[r] EXCEPT !.pc = l]
      OBVIOUS
    <2>3. q \in GoodProc /\ Keeps(proc[r], q) /\ q.lock = proc[r].lock
      BY <2>0, <2>2, StoringProc
    <2>4. Becomes(r, q)
      BY <2>1, <2>2 DEF Goto, Becomes
    <2>5. proc' \in [Processes -> GoodProc] /\ LockInv'
      BY <2>3, <2>4, <1>13, LockKept DEF StartFill
    <2>6. PICK p : p = proc[r]
      OBVIOUS
    <2>7. disk' \in {disk, [disk EXCEPT ![p.edge][p.key] = Torn]}
      BY <1>13, <2>6 DEF StartFill
    <2>8. /\ disk' \in [Edges -> [Versions -> Bytes \cup {None}]]
          /\ \A e \in Edges, v \in Versions : disk'[e][v] \in {disk[e][v], Torn}
      <3>1. disk \in [Edges -> [Versions -> Bytes \cup {None}]] /\ Torn \in Bytes
        BY <1>0 DEF TypeInv, TypeOK, Bytes
      <3>2. CASE disk' = disk
        BY <3>1, <3>2
      <3>3. CASE disk' = [disk EXCEPT ![p.edge][p.key] = Torn]
        BY <2>0, <2>6, <3>1, <3>3, EntryUpdate
      <3> QED
        BY <2>7, <3>2, <3>3
    <2>9. TypeInv'
      BY <1>0, <1>13, <2>5, <2>8 DEF StartFill, TypeInv, TypeOK, OwnVersion, GoodProc, ProcType
    <2> QED
      BY <2>5, <2>9 DEF Inv
  <1>14. ASSUME NEW r \in Processes, WriteFile(r) PROVE Inv'
    <2>0. PICK p : p = proc[r]
      OBVIOUS
    <2>1. /\ p \in GoodProc /\ p.pc = "write" /\ p.edge \in Edges /\ p.key \in Versions
          /\ p.bytes \in Bytes /\ (p.key # 1 => p.bytes \in {p.key, Torn})
      BY <1>0, <1>14, <2>0 DEF WriteFile, At, Sound, Over, Filling, ProcType
    <2>2. PICK q : q = [p EXCEPT !.pc = "index", !.via = "disk"]
      OBVIOUS
    <2>3. q \in GoodProc /\ Keeps(p, q) /\ q.lock = p.lock
      BY <2>1, <2>2, WrittenProc
    <2>4. Becomes(r, q)
      BY <1>14, <2>0, <2>2 DEF WriteFile
    <2>5. proc' \in [Processes -> GoodProc] /\ LockInv'
      BY <2>0, <2>3, <2>4, <1>14, LockKept DEF WriteFile
    <2>6. PICK b \in {p.bytes, Torn} :
             disk' = [disk EXCEPT ![p.edge][p.key] = IF @ = None THEN None ELSE b]
      BY <1>14, <2>0 DEF WriteFile
    <2>7. /\ disk' \in [Edges -> [Versions -> Bytes \cup {None}]]
          /\ \A e \in Edges, v \in Versions :
                \/ disk'[e][v] = disk[e][v]
                \/ v = p.key /\ disk'[e][v] \in {None, b}
      BY <1>0, <2>1, <2>6 DEF TypeInv, TypeOK, Bytes
    <2>8. OwnVersion'
      BY <1>0, <1>14, <2>1, <2>7 DEF WriteFile, TypeInv, OwnVersion
    <2>9. TypeInv'
      BY <1>0, <1>14, <2>5, <2>7, <2>8 DEF WriteFile, TypeInv, TypeOK, GoodProc, ProcType
    <2> QED
      BY <2>5, <2>9 DEF Inv
  <1>15. ASSUME NEW r \in Processes, CacheFile(r) PROVE Inv'
    <2>0. PICK p : p = proc[r]
      OBVIOUS
    <2>1. /\ p \in GoodProc /\ p.pc = "index" /\ p.edge \in Edges /\ p.key \in Versions
          /\ p.bytes \in Bytes /\ (p.key # 1 => p.bytes \in {p.key, Torn})
          /\ p.via \in {"ram", "disk"} /\ p.kind \in {"user", "job"}
          /\ (p.kind = "job" => p.lock = "none")
      BY <1>0, <1>15, <2>0 DEF CacheFile, At, Sound, Over, Filling, ProcType
    <2>2. proc' \in [Processes -> GoodProc] /\ LockInv'
      <3>1. CASE p.kind = "user"
        <4>1. PICK q : q = [p EXCEPT !.pc = "reply", !.via = "ram"]
          OBVIOUS
        <4>2. q \in GoodProc /\ Keeps(p, q) /\ q.lock = p.lock
          BY <2>1, <3>1, <4>1, CachedProc
        <4>3. Becomes(r, q)
          BY <1>15, <2>0, <3>1, <4>1 DEF CacheFile
        <4> QED
          BY <2>0, <4>2, <4>3, <1>15, LockKept DEF CacheFile
      <3>2. CASE p.kind = "job"
        <4>1. Becomes(r, Done)
          BY <1>15, <2>0, <3>2 DEF CacheFile
        <4> QED
          BY <1>15, <2>0, <2>1, <3>2, <4>1, DoneIsGood, LockAside DEF CacheFile
      <3> QED
        BY <2>1, <3>1, <3>2
    <2>3. /\ data' \in [Edges -> [Versions -> Bytes \cup {None}]]
          /\ \A e \in Edges, v \in Versions :
                data'[e][v] = data[e][v] \/ (v = p.key /\ data'[e][v] = p.bytes)
      <3>1. data' \in {data, [data EXCEPT ![p.edge][p.key] = p.bytes]}
        BY <1>15, <2>0 DEF CacheFile
      <3>2. data \in [Edges -> [Versions -> Bytes \cup {None}]]
        BY <1>0 DEF TypeInv, TypeOK
      <3>3. CASE data' = data
        BY <3>2, <3>3
      <3>4. CASE data' = [data EXCEPT ![p.edge][p.key] = p.bytes]
        BY <2>1, <3>2, <3>4, EntryUpdate
      <3> QED
        BY <3>1, <3>3, <3>4
    <2>4. OwnVersion'
      BY <1>0, <1>15, <2>1, <2>3 DEF CacheFile, TypeInv, OwnVersion
    <2>5. meta' \in [Edges -> [Versions -> {"none", "ram", "disk"}]]
      BY <1>0, <1>15, <2>0, <2>1 DEF CacheFile, TypeInv, TypeOK
    <2>6. keys' \in [Edges -> SUBSET Versions]
      BY <1>0, <1>15, <2>0, <2>1 DEF CacheFile, TypeInv, TypeOK
    <2>7. TypeInv'
      BY <1>0, <1>15, <2>2, <2>3, <2>4, <2>5, <2>6
         DEF CacheFile, TypeInv, TypeOK, GoodProc, ProcType
    <2> QED
      BY <2>2, <2>7 DEF Inv
  <1>16. ASSUME NEW r \in Processes, FillFails(r) PROVE Inv'
    <2>0. PICK p : p = proc[r]
      OBVIOUS
    <2>1. /\ p \in GoodProc /\ p.pc \in Filling /\ p.kind \in {"user", "job"}
          /\ (p.kind = "job" => p.lock = "none")
          /\ Requeued(r) \in SUBSET [edge : Edges, ver : Versions]
      BY <1>0, <1>16, <2>0 DEF FillFails, Sound, Over, Filling, ProcType, Requeued
    <2>2. proc' \in [Processes -> GoodProc] /\ LockInv'
      <3>1. CASE p.kind = "user"
        <4>1. PICK l \in {"peers", "release"} : l = IF p.at # p.edge THEN "peers" ELSE "release"
          OBVIOUS
        <4>2. PICK q : q = [p EXCEPT !.pc = l, !.via = "ram", !.bytes = None]
          OBVIOUS
        <4>2a. l = "release" <=> p.at = p.edge
          BY <4>1
        <4>3. q \in GoodProc /\ Keeps(p, q) /\ q.lock = p.lock
          BY <2>1, <3>1, <4>2, <4>2a, FailedProc
        <4>4. Becomes(r, q)
          BY <1>16, <2>0, <3>1, <4>1, <4>2 DEF FillFails, AfterFailure
        <4> QED
          BY <2>0, <4>3, <4>4, <1>16, LockKept DEF FillFails
      <3>2. CASE p.kind = "job"
        <4>1. Becomes(r, Done)
          BY <1>16, <2>0, <3>2 DEF FillFails
        <4> QED
          BY <1>16, <2>0, <2>1, <3>2, <4>1, DoneIsGood, LockAside DEF FillFails
      <3> QED
        BY <2>1, <3>1, <3>2
    <2>3. jobs' \in SUBSET [edge : Edges, ver : Versions]
      <3>1. jobs' \in {jobs, jobs \cup Requeued(r)}
        BY <1>16, <2>0 DEF FillFails
      <3> QED
        BY <1>0, <2>1, <3>1 DEF TypeInv, TypeOK
    <2>4. faults' \in 0 .. MaxFaults
      BY <1>0, <1>16, EdgeAssumption DEF FillFails, Fault, TypeInv, TypeOK
    <2>5. TypeInv'
      BY <1>0, <1>16, <2>2, <2>3, <2>4
         DEF FillFails, TypeInv, TypeOK, OwnVersion, entries, GoodProc, ProcType
    <2> QED
      BY <2>2, <2>5 DEF Inv
  <1>17. ASSUME NEW e \in Edges, NEW v \in Versions, Evict(e, v) PROVE Inv'
    <2>1. meta' \in [Edges -> [Versions -> {"none", "ram", "disk"}]]
      BY <1>0, <1>17 DEF Evict, TypeInv, TypeOK
    <2>2. /\ data' \in [Edges -> [Versions -> Bytes \cup {None}]]
          /\ \A d \in Edges, u \in Versions : data'[d][u] \in {data[d][u], None}
      <3>1. data \in [Edges -> [Versions -> Bytes \cup {None}]]
        BY <1>0 DEF TypeInv, TypeOK
      <3> QED
        BY <1>17, <3>1, EntryUpdate DEF Evict
    <2>3. OwnVersion'
      BY <1>0, <1>17, <2>2 DEF Evict, TypeInv, OwnVersion
    <2>4. faults' \in 0 .. MaxFaults
      BY <1>0, <1>17, EdgeAssumption DEF Evict, Fault, TypeInv, TypeOK
    <2>5. TypeInv'
      BY <1>0, <1>17, <2>1, <2>2, <2>3, <2>4 DEF Evict, TypeInv, TypeOK
    <2> QED
      BY <1>17, <2>5, NoProcStep DEF Evict, Inv
  <1>18. ASSUME NEW e \in Edges, NEW S \in SUBSET keys[e], Purge(e, S) PROVE Inv'
    <2>1. meta' \in [Edges -> [Versions -> {"none", "ram", "disk"}]]
      BY <1>0, <1>18 DEF Purge, TypeInv, TypeOK
    <2>2. /\ data' \in [Edges -> [Versions -> Bytes \cup {None}]]
          /\ \A d \in Edges, u \in Versions : data'[d][u] \in {data[d][u], None}
      BY <1>0, <1>18 DEF Purge, TypeInv, TypeOK
    <2>3. OwnVersion'
      BY <1>0, <1>18, <2>2 DEF Purge, TypeInv, OwnVersion
    <2>4. faults' \in 0 .. MaxFaults
      BY <1>0, <1>18, EdgeAssumption DEF Purge, Fault, TypeInv, TypeOK
    <2>5. keys' \in [Edges -> SUBSET Versions] /\ doomed' \in SUBSET Edges
      BY <1>0, <1>18 DEF Purge, TypeInv, TypeOK
    <2>6. TypeInv'
      BY <1>0, <1>18, <2>1, <2>2, <2>3, <2>4, <2>5 DEF Purge, TypeInv, TypeOK
    <2> QED
      BY <1>18, <2>6, NoProcStep DEF Purge, Inv
  <1>19. ASSUME NEW e \in Edges, DeleteDirectory(e) PROVE Inv'
    <2>1. /\ disk' \in [Edges -> [Versions -> Bytes \cup {None}]]
          /\ \A d \in Edges, u \in Versions : disk'[d][u] \in {disk[d][u], None}
      BY <1>0, <1>19 DEF DeleteDirectory, TypeInv, TypeOK
    <2>2. OwnVersion'
      BY <1>0, <1>19, <2>1 DEF DeleteDirectory, TypeInv, OwnVersion
    <2>3. TypeInv'
      BY <1>0, <1>19, <2>1, <2>2 DEF DeleteDirectory, TypeInv, TypeOK
    <2> QED
      BY <1>19, <2>3, NoProcStep DEF DeleteDirectory, Inv
  <1>20. ASSUME NEW e \in Edges, NEW v \in Versions, LockExpires(e, v) PROVE Inv'
    <2>0. PICK o : o = lock[e][v]
      OBVIOUS
    <2>1. o \in Processes => proc[o].lock = "held" /\ proc[o].edge = e /\ proc[o].key = v
      BY <2>0 DEF Inv, LockInv, LockHasOwner
    <2>2. /\ lock' \in [Edges -> [Versions -> Processes \cup {None, Dead}]] /\ lock'[e][v] = None
          /\ \A d \in Edges, u \in Versions : d # e \/ u # v => lock'[d][u] = lock[d][u]
      <3>1. lock \in [Edges -> [Versions -> Processes \cup {None, Dead}]]
        BY <1>0 DEF TypeInv, TypeOK
      <3> QED
        BY <1>20, <3>1, EntryUpdate DEF LockExpires
    <2>3. proc' = [r \in Processes |-> IF r = o THEN [proc[r] EXCEPT !.lock = "expired"]
                                       ELSE proc[r]]
      BY <1>20, <2>0 DEF LockExpires
    <2>4. ASSUME NEW r \in Processes
          PROVE  /\ proc'[r] \in GoodProc /\ Keeps(proc[r], proc'[r])
                 /\ (r # o => proc'[r] = proc[r]) /\ (r = o => proc'[r].lock = "expired")
      <3>1. CASE r = o
        <4>1. PICK q : q = [proc[r] EXCEPT !.lock = "expired"]
          OBVIOUS
        <4>2. q \in GoodProc /\ Keeps(proc[r], q) /\ q.lock = "expired"
          BY <1>0, <2>1, <3>1, <4>1, ExpiredProc
        <4>3. proc'[r] = q
          BY <2>3, <3>1, <4>1
        <4> QED
          BY <3>1, <4>2, <4>3
      <3>2. CASE r # o
        BY <1>0, <2>3, <3>2 DEF Keeps
      <3> QED
        BY <3>1, <3>2
    <2>5. proc' \in [Processes -> GoodProc]
      BY <2>3, <2>4
    <2>6. LockHasOwner'
      <3>1. ASSUME NEW d \in Edges, NEW u \in Versions, lock'[d][u] \in Processes
            PROVE  LET y == proc'[lock'[d][u]] IN y.lock = "held" /\ y.edge = d /\ y.key = u
        <4>1. (d # e \/ u # v) /\ lock'[d][u] = lock[d][u]
          BY <2>2, <3>1, VersionFacts
        <4>2. LET y == proc[lock[d][u]] IN y.lock = "held" /\ y.edge = d /\ y.key = u
          BY <3>1, <4>1 DEF Inv, LockInv, LockHasOwner
        <4>3. lock[d][u] # o
          BY <2>1, <3>1, <4>1, <4>2
        <4> QED
          BY <2>4, <3>1, <4>1, <4>2, <4>3
      <3> QED
        BY <3>1 DEF LockHasOwner
    <2>7. HolderIsLocked'
      <3>1. ASSUME NEW s \in Processes, proc'[s].lock = "held"
            PROVE  lock'[proc'[s].edge][proc'[s].key] = s
        <4>1. s # o /\ proc'[s] = proc[s]
          BY <2>4, <3>1
        <4>2. lock[proc[s].edge][proc[s].key] = s
          BY <3>1, <4>1 DEF Inv, LockInv, HolderIsLocked
        <4>3. proc[s].edge \in Edges /\ proc[s].key \in Versions
          BY <1>0, <3>1, <4>1 DEF Sound, ProcType
        <4> QED
          BY <2>0, <2>2, <4>1, <4>2, <4>3
      <3> QED
        BY <3>1 DEF HolderIsLocked
    <2>8. faults' \in 0 .. MaxFaults
      <3>1. Fault
        BY <1>20 DEF LockExpires
      <3> QED
        BY <1>0, <3>1, EdgeAssumption DEF Fault, TypeInv, TypeOK
    <2>9. TypeInv'
      <3>1. UNCHANGED <<latest, entries, jobs, doomed>>
        BY <1>20 DEF LockExpires
      <3> QED
        BY <1>0, <2>2, <2>5, <2>8, <3>1
           DEF TypeInv, TypeOK, OwnVersion, entries, GoodProc, ProcType
    <2> QED
      BY <2>6, <2>7, <2>9 DEF Inv, LockInv
  <1>21. ASSUME NEW e \in Edges, Crash(e) PROVE Inv'
    <2>0. PICK lost : lost = {r \in Processes : proc[r].edge = e}
      OBVIOUS
    <2>1. /\ proc' = [r \in Processes |-> IF r \in lost THEN Done ELSE proc[r]]
          /\ lock' = [lock EXCEPT ![e] = [v \in Versions |-> IF @[v] \in lost THEN Dead ELSE @[v]]]
          /\ jobs' = jobs \cup UNION {Requeued(r) : r \in {q \in lost : proc[q].kind = "job"}}
      BY <1>21, <2>0 DEF Crash
    <2>2. proc' \in [Processes -> GoodProc]
      BY <1>0, <2>1, DoneIsGood
    <2>3. /\ lock' \in [Edges -> [Versions -> Processes \cup {None, Dead}]]
          /\ \A d \in Edges, u \in Versions :
                lock'[d][u] = IF d = e /\ lock[d][u] \in lost THEN Dead ELSE lock[d][u]
      BY <1>0, <2>1 DEF TypeInv, TypeOK
    <2>4. LockHasOwner'
      <3>1. ASSUME NEW d \in Edges, NEW u \in Versions, lock'[d][u] \in Processes
            PROVE  LET y == proc'[lock'[d][u]] IN y.lock = "held" /\ y.edge = d /\ y.key = u
        <4>1. lock'[d][u] = lock[d][u] /\ ~(d = e /\ lock[d][u] \in lost)
          BY <2>3, <3>1, VersionFacts
        <4>2. LET y == proc[lock[d][u]] IN y.lock = "held" /\ y.edge = d /\ y.key = u
          BY <3>1, <4>1 DEF Inv, LockInv, LockHasOwner
        <4>3. lock[d][u] \notin lost
          BY <2>0, <4>1, <4>2
        <4> QED
          BY <2>1, <3>1, <4>1, <4>2, <4>3
      <3> QED
        BY <3>1 DEF LockHasOwner
    <2>5. HolderIsLocked'
      <3>1. ASSUME NEW s \in Processes, proc'[s].lock = "held"
            PROVE  lock'[proc'[s].edge][proc'[s].key] = s
        <4>1. s \notin lost /\ proc'[s] = proc[s]
          BY <2>1, <3>1, DoneIsGood
        <4>2. lock[proc[s].edge][proc[s].key] = s
          BY <3>1, <4>1 DEF Inv, LockInv, HolderIsLocked
        <4>3. proc[s].edge \in Edges /\ proc[s].key \in Versions
          BY <1>0, <3>1, <4>1 DEF Sound, ProcType
        <4> QED
          BY <2>3, <4>1, <4>2, <4>3
      <3> QED
        BY <3>1 DEF HolderIsLocked
    <2>6. jobs' \in SUBSET [edge : Edges, ver : Versions]
      <3>1. \A r \in lost : Requeued(r) \in SUBSET [edge : Edges, ver : Versions]
        BY <1>0, <2>0 DEF Requeued, ProcType
      <3> QED
        BY <1>0, <2>1, <3>1 DEF TypeInv, TypeOK
    <2>7. faults' \in 0 .. MaxFaults
      BY <1>0, <1>21, EdgeAssumption DEF Crash, Fault, TypeInv, TypeOK
    <2>8. TypeInv'
      BY <1>0, <1>21, <2>2, <2>3, <2>6, <2>7
         DEF Crash, TypeInv, TypeOK, OwnVersion, entries, GoodProc, ProcType
    <2> QED
      BY <2>4, <2>5, <2>8 DEF Inv, LockInv
  <1>22. ASSUME UNCHANGED vars PROVE Inv'
    BY <1>0, <1>22, Elsewhere, NoProcStep DEF vars, entries, Inv
  <1> QED
    BY <1>1, <1>2, <1>3, <1>4, <1>5, <1>6, <1>6a, <1>7, <1>8, <1>9, <1>10, <1>11, <1>12, <1>13,
       <1>14,
       <1>15, <1>16, <1>17, <1>18, <1>19, <1>20, <1>21, <1>22 DEF Next, Step

LEMMA InvHolds == Spec => []Inv
  BY InvInit, InvNext, PTL DEF Spec

-----------------------------------------------------------------------------
(* What follows from it.                                                   *)

\* Every entry, lock, job and process of an edge keeps its type, whatever fails,
\* expires or is evicted on the way.
THEOREM TypeCorrect == Spec => []TypeOK
  BY InvHolds, PTL DEF Inv, TypeInv

\* getEdgeContent never answers a request for a version other than 1 with the bytes of
\* another version, for any number of edges, versions and faults.
THEOREM ServedExact == Spec => []VersionExact
  <1>1. Inv => VersionExact
    BY VersionFacts DEF Inv, TypeInv, GoodProc, ProcType, Sound, Filling, VersionExact, At
  <1> QED
    BY <1>1, InvHolds, PTL

\* acquireStampedeLock lets one request of a version and edge at a time ask the peers
\* and the origin, unless its lock has expired.
THEOREM FillsCoalesced == Spec => []Coalesced
  <1>1. Inv => Coalesced
    BY DEF Inv, LockInv, HolderIsLocked, Coalesced
  <1> QED
    BY <1>1, InvHolds, PTL

\* Every lock that a live request knows it took is released by it, on every way out of
\* getEdgeContent.
THEOREM LockOwned == Spec => []LockHasOwner
  BY InvHolds, PTL DEF Inv, LockInv

-----------------------------------------------------------------------------
(* Requests and jobs move towards their end                                *)

\* Reading the own cache, before the wait for another's fill and after it, comes
\* before peers are asked; Rank orders the places of each part, with the fill from a
\* peer before the next peer and the fill from the origin after the last.
Early(p) ==
    IF p.pc \in {"meta", "lock", "place"} \/ (p.pc = "read" /\ p.at = p.edge)
    THEN (IF p.waited THEN 1 ELSE 2) ELSE 0
Rank(p) ==
    LET away == IF p.at = p.edge THEN 0 ELSE 5 IN
    CASE p.pc = "meta" -> 16  [] p.pc = "read" -> 15     [] p.pc = "lock" -> 14
      [] p.pc = "place" -> 13 [] p.pc = "store" -> 6 + away
      [] p.pc = "write" -> 5 + away [] p.pc = "index" -> 4 + away
      [] p.pc = "peers" -> 8  [] p.pc = "origin" -> 7    [] p.pc = "fetch" -> 7
      [] p.pc = "reply" -> 3  [] p.pc = "release" -> 2   [] OTHER -> 0

\* q is nearer to the end than p: in an earlier part, with fewer peers left to ask,
\* or further on with the same peers.
Closer(q, p) ==
    \/ Early(q) < Early(p)
    \/ /\ Early(q) = Early(p)
       /\ \/ q.peers \subseteq p.peers /\ q.peers # p.peers
          \/ q.peers = p.peers /\ Rank(q) < Rank(p)

\* The origin is asked, and a job fetches, for the edge's own cache; a request that has
\* waited for another's fill does not try the lock again.
OnCourse(p) ==
    /\ p.pc \in {"origin", "fetch"} => p.at = p.edge
    /\ p.pc = "lock" => ~p.waited
AllOnCourse == \A r \in Processes : OnCourse(proc[r])

\* Whatever moves a process that is under way brings it nearer to its end, and its
\* own steps never leave it where it is.
ProcessAdvances(r) ==
    proc[r].pc \notin Over /\ (Step(r) \/ proc'[r].pc # proc[r].pc) => Closer(proc'[r], proc[r])

LEMMA BecomesOne ==
  ASSUME TypeInv, NEW r \in Processes, NEW q, Becomes(r, q)
  PROVE  proc'[r] = q /\ \A s \in Processes \ {r} : proc'[s] = proc[s]
  BY DEF TypeInv, Becomes

LEMMA DoneCloser ==
  ASSUME NEW p \in ProcType, p.pc \notin Over PROVE Closer(Done, p) /\ OnCourse(Done)
  <1>1. Done.pc = "done" /\ Done.peers = {}
    BY DEF Done, Idle
  <1>2. Early(Done) = 0 /\ Rank(Done) = 0 /\ OnCourse(Done)
    BY <1>1 DEF Early, Rank, OnCourse
  <1>3. Early(p) \in 0 .. 2 /\ Rank(p) > 0
    BY DEF Early, Rank, Over, ProcType, Pcs
  <1> QED
    BY <1>1, <1>2, <1>3 DEF Closer

\* A step inside one part leaves the peers alone.
LEMMA FurtherOn ==
  ASSUME NEW p, NEW q, q.peers = p.peers, Rank(q) < Rank(p),
         Early(q) = Early(p) \/ Early(q) < Early(p)
  PROVE  Closer(q, p)
  BY DEF Closer

LEMMA ReadAdvances ==
  ASSUME TypeInv, NEW r \in Processes, ReadMeta(r) \/ ReadBytes(r)
  PROVE  \E q : Becomes(r, q) /\ Closer(q, proc[r]) /\ OnCourse(q)
  <1> DEFINE p == proc[r]
  <1>0. p \in GoodProc /\ p \in ProcType
    BY DEF TypeInv, GoodProc
  <1>p. p.pc \in {"meta", "read"} /\ (p.pc = "meta" => p.at = p.edge)
    BY <1>0 DEF ReadMeta, ReadBytes, At, GoodProc, Sound
  <1>1. CASE ReadMeta(r)
    <2> DEFINE q == [p EXCEPT !.pc = "read", !.via = Where(p.edge, p.key)]
    <2>1. Becomes(r, q) /\ p.pc = "meta"
      BY <1>1 DEF ReadMeta, At
    <2>2. q.pc = "read" /\ q.at = p.at /\ q.edge = p.edge /\ q.peers = p.peers
          /\ q.waited = p.waited
      BY <1>0 DEF ProcType
    <2> HIDE DEF p, q
    <2>3. Early(q) = Early(p) /\ Rank(q) < Rank(p) /\ OnCourse(q)
      BY <1>p, <2>1, <2>2 DEF Early, Rank, OnCourse
    <2>4. Closer(q, p)
      BY <2>2, <2>3, FurtherOn
    <2> QED
      BY <2>1, <2>3, <2>4 DEF p
  <1>2. CASE ReadBytes(r)
    <2>1. At(r, "read") /\ p.pc = "read"
      BY <1>2 DEF ReadBytes, At
    <2>2. CASE Becomes(r, Done)
      <3>1. Closer(Done, p) /\ OnCourse(Done)
        BY <1>0, <2>1, DoneCloser DEF Over
      <3> QED
        BY <2>2, <3>1
    <2>3. CASE Becomes(r, [p EXCEPT !.pc = IF p.at = p.edge THEN "reply" ELSE "store",
                                    !.via = "ram", !.bytes = Found(p)])
      <3> DEFINE q == [p EXCEPT !.pc = IF p.at = p.edge THEN "reply" ELSE "store",
                                !.via = "ram", !.bytes = Found(p)]
      <3>1. q.pc = (IF p.at = p.edge THEN "reply" ELSE "store") /\ q.at = p.at
            /\ q.edge = p.edge /\ q.peers = p.peers
        BY <1>0 DEF ProcType
      <3>2. Becomes(r, q)
        BY <2>3
      <3> HIDE DEF p, q
      <3>3. Rank(q) < Rank(p) /\ OnCourse(q) /\ (Early(q) = Early(p) \/ Early(q) < Early(p))
        BY <2>1, <3>1 DEF Early, Rank, OnCourse
      <3>4. Closer(q, p)
        BY <3>1, <3>3, FurtherOn
      <3> QED
        BY <3>2, <3>3, <3>4 DEF p
    <2>4. ASSUME NEW l \in {"lock", "peers"}, l = "lock" <=> p.at = p.edge,
                 l = "lock" => ~p.waited, Becomes(r, [p EXCEPT !.pc = l, !.via = "ram"])
          PROVE  \E q : Becomes(r, q) /\ Closer(q, p) /\ OnCourse(q)
      <3> DEFINE q == [p EXCEPT !.pc = l, !.via = "ram"]
      <3>1. q.pc = l /\ q.at = p.at /\ q.edge = p.edge /\ q.peers = p.peers
            /\ q.waited = p.waited
        BY <1>0 DEF ProcType
      <3>2. Becomes(r, q)
        BY <2>4
      <3> HIDE DEF p, q
      <3>3. Rank(q) < Rank(p) /\ OnCourse(q) /\ Early(q) = Early(p)
        BY <2>1, <2>4, <3>1 DEF Early, Rank, OnCourse
      <3>4. Closer(q, p)
        BY <3>1, <3>3, FurtherOn
      <3> QED
        BY <3>2, <3>3, <3>4
    <2> QED
      BY <1>2, <2>2, <2>3, <2>4 DEF ReadBytes
  <1> QED
    BY <1>1, <1>2

LEMMA AskAdvances ==
  ASSUME TypeInv, AllOnCourse, NEW r \in Processes,
         AcquireStampedeLock(r) \/ LookUpPlacement(r) \/ TryPeer(r)
  PROVE  \E q : Becomes(r, q) /\ Closer(q, proc[r]) /\ OnCourse(q)
  <1> DEFINE p == proc[r]
  <1>0. p \in GoodProc /\ p \in ProcType
    BY DEF TypeInv, GoodProc
  <1>1. CASE AcquireStampedeLock(r)
    <2>1. p.pc = "lock" /\ ~p.waited
      BY <1>1 DEF AcquireStampedeLock, At, AllOnCourse, OnCourse
    <2>2. CASE Becomes(r, [p EXCEPT !.pc = "place", !.lock = "held"])
      <3> DEFINE q == [p EXCEPT !.pc = "place", !.lock = "held"]
      <3>1. q.pc = "place" /\ q.peers = p.peers /\ q.waited = p.waited
        BY <1>0 DEF ProcType
      <3>2. Becomes(r, q)
        BY <2>2
      <3> HIDE DEF p, q
      <3>3. Rank(q) < Rank(p) /\ OnCourse(q) /\ Early(q) = Early(p)
        BY <2>1, <3>1 DEF Early, Rank, OnCourse
      <3>4. Closer(q, p)
        BY <3>1, <3>3, FurtherOn
      <3> QED
        BY <3>2, <3>3, <3>4 DEF p
    <2>3. CASE Becomes(r, [p EXCEPT !.pc = "meta", !.waited = TRUE])
      <3> DEFINE q == [p EXCEPT !.pc = "meta", !.waited = TRUE]
      <3>1. q.pc = "meta" /\ q.waited
        BY <1>0 DEF ProcType
      <3>2. Becomes(r, q)
        BY <2>3
      <3> HIDE DEF p, q
      <3>3. Early(q) < Early(p) /\ OnCourse(q)
        BY <2>1, <3>1 DEF Early, OnCourse
      <3> QED
        BY <3>2, <3>3 DEF p, Closer
    <2> QED
      BY <1>1, <2>2, <2>3 DEF AcquireStampedeLock
  <1>2. CASE LookUpPlacement(r)
    <2>1. p.pc = "place"
      BY <1>2 DEF LookUpPlacement, At
    <2>2. PICK S \in SUBSET (Replicas \ {p.edge}) : Becomes(r, [p EXCEPT !.pc = "peers", !.peers = S])
      BY <1>2 DEF LookUpPlacement
    <2> DEFINE q == [p EXCEPT !.pc = "peers", !.peers = S]
    <2>3. q.pc = "peers"
      BY <1>0 DEF ProcType
    <2>4. Becomes(r, q)
      BY <2>2
    <2> HIDE DEF p, q
    <2>5. Early(q) < Early(p) /\ OnCourse(q)
      BY <2>1, <2>3 DEF Early, OnCourse
    <2> QED
      BY <2>4, <2>5 DEF p, Closer
  <1>3. CASE TryPeer(r)
    <2>1. p.pc = "peers" /\ p.edge \notin p.peers
      BY <1>0, <1>3 DEF TryPeer, At, GoodProc, Sound
    <2>2. ASSUME NEW e \in p.peers,
                 Becomes(r, [p EXCEPT !.pc = "read", !.at = e, !.peers = p.peers \ {e},
                                      !.via = Where(e, p.key)])
          PROVE  \E q : Becomes(r, q) /\ Closer(q, p) /\ OnCourse(q)
      <3> DEFINE q == [p EXCEPT !.pc = "read", !.at = e, !.peers = p.peers \ {e},
                                !.via = Where(e, p.key)]
      <3>1. q.pc = "read" /\ q.at = e /\ q.edge = p.edge /\ q.peers = p.peers \ {e}
        BY <1>0 DEF ProcType
      <3>2. Becomes(r, q)
        BY <2>2
      <3> HIDE DEF p, q
      <3>3. Early(q) = 0 /\ Early(p) = 0 /\ OnCourse(q)
        BY <2>1, <2>2, <3>1 DEF Early, OnCourse
      <3>4. q.peers \subseteq p.peers /\ q.peers # p.peers
        BY <2>2, <3>1
      <3> QED
        BY <3>2, <3>3, <3>4 DEF Closer
    <2>3. CASE Becomes(r, [p EXCEPT !.pc = "origin", !.at = p.edge])
      <3> DEFINE q == [p EXCEPT !.pc = "origin", !.at = p.edge]
      <3>1. q.pc = "origin" /\ q.at = p.edge /\ q.edge = p.edge /\ q.peers = p.peers
        BY <1>0 DEF ProcType
      <3>2. Becomes(r, q)
        BY <2>3
      <3> HIDE DEF p, q
      <3>3. Rank(q) < Rank(p) /\ OnCourse(q) /\ Early(q) = Early(p)
        BY <2>1, <3>1 DEF Early, Rank, OnCourse
      <3>4. Closer(q, p)
        BY <3>1, <3>3, FurtherOn
      <3> QED
        BY <3>2, <3>3, <3>4 DEF p
    <2> QED
      BY <1>3, <2>2, <2>3 DEF TryPeer
  <1> QED
    BY <1>1, <1>2, <1>3

\* Every other step keeps the peers, and is named by the places it leads to.
LEMMA FillAdvances ==
  ASSUME TypeInv, AllOnCourse, NEW r \in Processes,
         \/ FetchFromOrigin(r) \/ Reply(r) \/ ReleaseStampedeLock(r) \/ FetchForJob(r)
         \/ StartFill(r) \/ WriteFile(r) \/ CacheFile(r) \/ FillFails(r)
  PROVE  \E q : Becomes(r, q) /\ Closer(q, proc[r]) /\ OnCourse(q)
  <1> DEFINE p == proc[r]
  <1>0. p \in ProcType
    BY DEF TypeInv, GoodProc
  <1>p. /\ p.pc \in {"origin", "reply", "release", "fetch", "store", "write", "index"}
        /\ p.pc \in {"origin", "fetch"} => p.at = p.edge
    BY DEF FetchFromOrigin, Reply, ReleaseStampedeLock, FetchForJob, StartFill, WriteFile,
           CacheFile, FillFails, At, AllOnCourse, OnCourse
  <1>1. CASE Becomes(r, Done)
    <2>1. Closer(Done, p) /\ OnCourse(Done)
      BY <1>0, <1>p, DoneCloser DEF Over
    <2> QED
      BY <1>1, <2>1
  <1>2. ASSUME NEW q, Becomes(r, q), q.at = p.at, q.edge = p.edge, q.peers = p.peers,
               <<p.pc, q.pc>> \in
                   {<<"origin", "store">>, <<"origin", "reply">>, <<"origin", "release">>,
                    <<"reply", "release">>, <<"fetch", "store">>, <<"store", "write">>,
                    <<"store", "index">>, <<"write", "index">>, <<"index", "reply">>}
               \/ (p.pc \in Filling /\ q.pc = IF p.at # p.edge THEN "peers" ELSE "release")
        PROVE  \E x : Becomes(r, x) /\ Closer(x, p) /\ OnCourse(x)
    <2> HIDE DEF p
    <2>1. Rank(q) < Rank(p) /\ OnCourse(q) /\ Early(q) = 0 /\ Early(p) = 0
      BY <1>2, <1>p DEF Early, Rank, OnCourse, Filling
    <2>2. Closer(q, p)
      BY <1>2, <2>1, FurtherOn
    <2> QED
      BY <1>2, <2>1, <2>2
  <1>3. CASE FetchFromOrigin(r)
    <2>1. p.pc = "origin"
      BY <1>3 DEF FetchFromOrigin, At
    <2>2. ASSUME NEW l \in {"store", "reply"}, Becomes(r, [p EXCEPT !.pc = l, !.bytes = p.key])
          PROVE  \E x : Becomes(r, x) /\ Closer(x, p) /\ OnCourse(x)
      <3> DEFINE q == [p EXCEPT !.pc = l, !.bytes = p.key]
      <3>1. q.pc = l /\ q.at = p.at /\ q.edge = p.edge /\ q.peers = p.peers
        BY <1>0 DEF ProcType
      <3>2. Becomes(r, q)
        BY <2>2
      <3> HIDE DEF q
      <3> QED
        BY <1>2, <2>1, <3>1, <3>2
    <2>3. CASE Goto(r, "release")
      <3> DEFINE q == [p EXCEPT !.pc = "release"]
      <3>1. q.pc = "release" /\ q.at = p.at /\ q.edge = p.edge /\ q.peers = p.peers
        BY <1>0 DEF ProcType
      <3>2. Becomes(r, q)
        BY <2>3 DEF Goto, Becomes
      <3> HIDE DEF q
      <3> QED
        BY <1>2, <2>1, <3>1, <3>2
    <2> QED
      BY <1>3, <2>2, <2>3 DEF FetchFromOrigin
  <1>4. CASE Reply(r) /\ Goto(r, "release")
    <2> DEFINE q == [p EXCEPT !.pc = "release"]
    <2>1. q.pc = "release" /\ q.at = p.at /\ q.edge = p.edge /\ q.peers = p.peers
      BY <1>0 DEF ProcType
    <2>2. Becomes(r, q) /\ p.pc = "reply"
      BY <1>4 DEF Goto, Becomes, Reply, At
    <2> HIDE DEF q
    <2> QED
      BY <1>2, <2>1, <2>2
  <1>5. CASE FetchForJob(r) /\ Becomes(r, [p EXCEPT !.pc = "store", !.bytes = p.wants])
    <2> DEFINE q == [p EXCEPT !.pc = "store", !.bytes = p.wants]
    <2>1. q.pc = "store" /\ q.at = p.at /\ q.edge = p.edge /\ q.peers = p.peers
      BY <1>0 DEF ProcType
    <2>2. Becomes(r, q) /\ p.pc = "fetch"
      BY <1>5 DEF FetchForJob, At
    <2> HIDE DEF q
    <2> QED
      BY <1>2, <2>1, <2>2
  <1>6. ASSUME NEW l \in {"write", "index"}, StartFill(r), Goto(r, l)
        PROVE  \E x : Becomes(r, x) /\ Closer(x, p) /\ OnCourse(x)
    <2> DEFINE q == [p EXCEPT !.pc = l]
    <2>1. q.pc = l /\ q.at = p.at /\ q.edge = p.edge /\ q.peers = p.peers
      BY <1>0 DEF ProcType
    <2>2. Becomes(r, q) /\ p.pc = "store"
      BY <1>6 DEF Goto, Becomes, StartFill, At
    <2> HIDE DEF q
    <2> QED
      BY <1>2, <1>6, <2>1, <2>2
  <1>7. CASE WriteFile(r)
    <2> DEFINE q == [p EXCEPT !.pc = "index", !.via = "disk"]
    <2>1. q.pc = "index" /\ q.at = p.at /\ q.edge = p.edge /\ q.peers = p.peers
      BY <1>0 DEF ProcType
    <2>2. Becomes(r, q) /\ p.pc = "write"
      BY <1>7 DEF WriteFile, At
    <2> HIDE DEF q
    <2> QED
      BY <1>2, <2>1, <2>2
  <1>8. CASE CacheFile(r) /\ Becomes(r, [p EXCEPT !.pc = "reply", !.via = "ram"])
    <2> DEFINE q == [p EXCEPT !.pc = "reply", !.via = "ram"]
    <2>1. q.pc = "reply" /\ q.at = p.at /\ q.edge = p.edge /\ q.peers = p.peers
      BY <1>0 DEF ProcType
    <2>2. Becomes(r, q) /\ p.pc = "index"
      BY <1>8 DEF CacheFile, At
    <2> HIDE DEF q
    <2> QED
      BY <1>2, <2>1, <2>2
  <1>9. CASE FillFails(r) /\ Becomes(r, AfterFailure(p))
    <2> DEFINE q == AfterFailure(p)
    <2>1. /\ q.pc = (IF p.at # p.edge THEN "peers" ELSE "release")
          /\ q.at = p.at /\ q.edge = p.edge /\ q.peers = p.peers
      BY <1>0 DEF ProcType, AfterFailure
    <2>2. Becomes(r, q) /\ p.pc \in Filling
      BY <1>9 DEF FillFails, Filling
    <2> HIDE DEF q
    <2> QED
      BY <1>2, <2>1, <2>2
  <1>a. CASE Reply(r)
    BY <1>a, <1>1, <1>4 DEF Reply
  <1>b. CASE ReleaseStampedeLock(r)
    BY <1>b, <1>1 DEF ReleaseStampedeLock
  <1>c. CASE FetchForJob(r)
    BY <1>c, <1>1, <1>5 DEF FetchForJob
  <1>d. CASE StartFill(r)
    BY <1>d, <1>6 DEF StartFill
  <1>e. CASE CacheFile(r)
    BY <1>e, <1>1, <1>8 DEF CacheFile
  <1>f. CASE FillFails(r)
    BY <1>f, <1>1, <1>9 DEF FillFails
  <1> QED
    BY <1>3, <1>7, <1>a, <1>b, <1>c, <1>d, <1>e, <1>f

LEMMA ProcessStep ==
  ASSUME TypeInv, AllOnCourse, NEW r \in Processes, Step(r) \/ FillFails(r)
  PROVE  /\ Closer(proc'[r], proc[r]) /\ OnCourse(proc'[r])
         /\ \A s \in Processes \ {r} : proc'[s] = proc[s]
  <1>1. PICK q : Becomes(r, q) /\ Closer(q, proc[r]) /\ OnCourse(q)
    BY ReadAdvances, AskAdvances, FillAdvances DEF Step
  <1> QED
    BY <1>1, BecomesOne

LEMMA ProcessesDescend ==
  TypeInv /\ AllOnCourse /\ [Next]_vars =>
      AllOnCourse' /\ \A r \in Processes : ProcessAdvances(r)
  <1> SUFFICES ASSUME TypeInv, AllOnCourse, [Next]_vars
               PROVE  AllOnCourse' /\ \A r \in Processes : ProcessAdvances(r)
    OBVIOUS
  <1>0. proc \in [Processes -> GoodProc] /\ \A r \in Processes : proc[r] \in ProcType
    BY DEF TypeInv, GoodProc
  <1>s. \A r \in Processes : Step(r) => Closer(proc'[r], proc[r])
    BY ProcessStep
  \* What each process can meet: its own step, a beginning, an end, or the loss of its lock.
  <1>1. \A r \in Processes :
            \/ proc'[r] = proc[r]
            \/ Closer(proc'[r], proc[r]) /\ OnCourse(proc'[r])
            \/ At(r, "idle") /\ OnCourse(proc'[r])
            \/ proc'[r] = Done
            \/ proc'[r] = [proc[r] EXCEPT !.lock = "expired"]
    <2>1. ASSUME NEW r \in Processes, Step(r) \/ FillFails(r)
          PROVE  /\ Closer(proc'[r], proc[r]) /\ OnCourse(proc'[r])
                 /\ \A s \in Processes \ {r} : proc'[s] = proc[s]
      BY <2>1, ProcessStep
    <2>2. ASSUME NEW r \in Processes, NEW e \in Edges, NEW v \in Versions, Request(r, e, v)
          PROVE  /\ At(r, "idle") /\ OnCourse(proc'[r])
                 /\ \A s \in Processes \ {r} : proc'[s] = proc[s]
      <3> DEFINE q == [Idle EXCEPT !.pc = "meta", !.edge = e, !.at = e, !.key = v, !.wants = v]
      <3>1. q.pc = "meta"
        BY DEF Idle
      <3>2. At(r, "idle") /\ Becomes(r, q)
        BY <2>2 DEF Request
      <3> HIDE DEF q
      <3> QED
        BY <3>1, <3>2, BecomesOne DEF OnCourse
    <2>3. ASSUME NEW r \in Processes, NEW j \in jobs, TakeJob(r, j)
          PROVE  /\ At(r, "idle") /\ OnCourse(proc'[r])
                 /\ \A s \in Processes \ {r} : proc'[s] = proc[s]
      <3> DEFINE q == [Idle EXCEPT !.pc = "fetch", !.kind = "job", !.edge = j.edge, !.at = j.edge,
                                   !.key = TargetVersion, !.wants = j.ver]
      <3>1. q.pc = "fetch" /\ q.at = q.edge
        BY DEF Idle
      <3>2. At(r, "idle") /\ Becomes(r, q)
        BY <2>3 DEF TakeJob
      <3> HIDE DEF q
      <3> QED
        BY <3>1, <3>2, BecomesOne DEF OnCourse
    <2>4. ASSUME NEW e \in Edges, NEW v \in Versions, LockExpires(e, v), NEW r \in Processes
          PROVE  proc'[r] = proc[r] \/ proc'[r] = [proc[r] EXCEPT !.lock = "expired"]
      BY <2>4 DEF LockExpires
    <2>5. ASSUME NEW e \in Edges, Crash(e), NEW r \in Processes
          PROVE  proc'[r] = proc[r] \/ proc'[r] = Done
      BY <2>5 DEF Crash
    <2>5a. ASSUME NEW r \in Processes, AcquireFails(r)
           PROVE  proc'[r] = Done /\ \A s \in Processes \ {r} : proc'[s] = proc[s]
      BY <2>5a, BecomesOne DEF AcquireFails
    <2>6. CASE UNCHANGED proc
      BY <2>6
    <2>7. \/ UNCHANGED proc
          \/ \E r \in Processes : \/ \E e \in Edges, v \in Versions : Request(r, e, v)
                                  \/ \E j \in jobs : TakeJob(r, j)
                                  \/ Step(r) \/ AcquireFails(r) \/ FillFails(r)
          \/ \E e \in Edges : (\E v \in Versions : LockExpires(e, v)) \/ Crash(e)
      BY DEF Next, vars, Publish, Evict, Purge, DeleteDirectory
    <2> QED
      BY <2>1, <2>2, <2>3, <2>4, <2>5, <2>5a, <2>6, <2>7
  <1>2. ASSUME NEW r \in Processes PROVE OnCourse(proc'[r]) /\ ProcessAdvances(r)
    <2>1. CASE proc'[r] = proc[r]
      <3>1. OnCourse(proc'[r])
        BY <2>1 DEF AllOnCourse
      <3>2. ProcessAdvances(r)
        BY <2>1, <1>s DEF ProcessAdvances
      <3> QED
        BY <3>1, <3>2
    <2>2. CASE Closer(proc'[r], proc[r]) /\ OnCourse(proc'[r])
      BY <2>2 DEF ProcessAdvances
    <2>3. CASE At(r, "idle") /\ OnCourse(proc'[r])
      BY <2>3 DEF ProcessAdvances, At, Over
    <2>4. CASE proc'[r] = Done
      <3>1. OnCourse(proc'[r])
        BY <2>4, DoneIsGood DEF OnCourse
      <3>2. ProcessAdvances(r)
        BY <1>0, <2>4, DoneCloser DEF ProcessAdvances
      <3> QED
        BY <3>1, <3>2
    <2>5. CASE proc'[r] = [proc[r] EXCEPT !.lock = "expired"]
      <3>1. /\ proc'[r].pc = proc[r].pc /\ proc'[r].at = proc[r].at
            /\ proc'[r].edge = proc[r].edge /\ proc'[r].waited = proc[r].waited
        BY <1>0, <2>5 DEF ProcType
      <3>2. OnCourse(proc'[r])
        BY <3>1 DEF AllOnCourse, OnCourse
      <3>3. ProcessAdvances(r)
        BY <3>1, <1>s DEF ProcessAdvances
      <3> QED
        BY <3>2, <3>3
    <2> QED
      BY <1>1, <2>1, <2>2, <2>3, <2>4, <2>5
  <1> QED
    BY <1>2 DEF AllOnCourse

\* Every step of a request and of a job at an edge brings it nearer to its end, for any
\* number of edges and peers and whatever fills, evictions, crashes and expired locks do
\* meanwhile: it waits for another's fill once, asks every peer at most once, and then
\* the origin.
THEOREM EdgeRequestsAdvance ==
  Spec => []AllOnCourse /\ [][\A r \in Processes : ProcessAdvances(r)]_vars
  <1>1. Init => AllOnCourse
    BY DEF Init, AllOnCourse, OnCourse, Idle
  <1>2. TypeInv /\ AllOnCourse /\ [Next]_vars => AllOnCourse'
    BY ProcessesDescend
  <1>3. TypeInv /\ AllOnCourse /\ [Next]_vars
            => [\A r \in Processes : ProcessAdvances(r)]_vars
    BY ProcessesDescend
  <1>4. Spec => []TypeInv
    BY InvHolds, PTL DEF Inv
  <1> QED
    BY <1>1, <1>2, <1>3, <1>4, PTL DEF Spec
=============================================================================
