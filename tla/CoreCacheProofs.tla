-------------------------- MODULE CoreCacheProofs --------------------------
(***************************************************************************)
(* What holds of CoreCache for any number of downloads, replication jobs   *)
(* and keys of any size, declared truly or not: the types, the eviction's  *)
(* view of the cache, the accounting of cache:size and its limit, and the  *)
(* refinement of LeaseLock by the stampede lock.                           *)
(***************************************************************************)
EXTENDS CoreCache, FiniteSetTheorems, TLAPS

ReqType == [pc : Pcs, key : Keys \cup {None}, held : BOOLEAN, num : Int, says : Nat]

\* A request under way names a key; it believes to hold a lock only between taking
\* and releasing it, and releases only a lock it took.
Holding == {"fetch", "fill", "store", "check", "evict", "reset", "release"}
Sound(q) ==
    /\ q.pc # "idle" => q.key \in Keys
    /\ q.held => q.pc \in Holding
    /\ q.pc = "release" => q.held
GoodReq == {q \in ReqType : Sound(q)}

TypeInv ==
    /\ TypeOK /\ req \in [Requests -> GoodReq]
    /\ IsFiniteSet(Bytes(stored, Size)) /\ IsFiniteSet(Bytes(Keys, meta))

\* As long as nothing made cache:size wrong the metadata gives the bytes of what is
\* cached, and there is none of what is not: so the scripts subtract what was added.
MetadataIsTrue ==
    ~drifted => \A k \in Keys : meta[k] = IF k \in stored THEN Size[k] ELSE 0

\* While cache:size is above the limit, be it right or wrong, someone is still to bring
\* it down: a fill that will look at it, or an eviction that has at least the excess
\* left to free.
Enforcing ==
    ~cutShort /\ size > MaxCacheSize =>
        \E r \in Requests : \/ At(r, "check") \/ At(r, "reset")
                            \/ At(r, "evict") /\ req[r].num >= size - MaxCacheSize

-----------------------------------------------------------------------------
(* Bytes and their number.                                                 *)

LEMMA BytesSplit ==
  ASSUME NEW S, NEW T, NEW f
  PROVE  /\ Bytes(S \cup T, f) = Bytes(S, f) \cup Bytes(T, f)
         /\ S \cap T = {} => Bytes(S, f) \cap Bytes(T, f) = {}
  BY DEF Bytes

LEMMA TotalOne ==
  ASSUME NEW k, NEW f, f[k] \in Nat
  PROVE  IsFiniteSet(Bytes({k}, f)) /\ Total({k}, f) = f[k]
  <1>1. PICK n \in Nat : n = f[k]
    OBVIOUS
  <1>2. Bytes({k}, f) = {k} \X (1 .. n)
    BY <1>1 DEF Bytes
  <1>3. IsFiniteSet({k}) /\ Cardinality({k}) = 1
    BY FS_Singleton
  <1>4. IsFiniteSet(1 .. n) /\ Cardinality(1 .. n) = n
    <2>1. /\ IsFiniteSet(1 .. n)
          /\ Cardinality(1 .. n) = IF 1 > n THEN 0 ELSE n - 1 + 1
      BY FS_Interval
    <2> QED
      BY <2>1
  <1>5. IsFiniteSet({k} \X (1 .. n)) /\ Cardinality({k} \X (1 .. n)) = 1 * n
    <2> DEFINE I == 1 .. n
    <2> HIDE DEF I
    <2>1. IsFiniteSet(I) /\ Cardinality(I) = n
      BY <1>4 DEF I
    <2>2. IsFiniteSet({k} \X I) /\ Cardinality({k} \X I) = Cardinality({k}) * Cardinality(I)
      BY <1>3, <2>1, FS_Product, Zenon
    <2>3. Cardinality({k} \X I) = 1 * n
      BY <1>3, <2>1, <2>2, Zenon
    <2> QED
      BY <2>2, <2>3 DEF I
  <1>6. 1 * n = n
    OBVIOUS
  <1> QED
    BY <1>1, <1>2, <1>5, <1>6, Zenon DEF Total

\* Whatever is taken out of the cache is what is missing from the sum afterwards.
LEMMA TotalSplit ==
  ASSUME NEW S, NEW T, NEW f, IsFiniteSet(Bytes(S, f))
  PROVE  /\ IsFiniteSet(Bytes(S \ T, f)) /\ IsFiniteSet(Bytes(T \cap S, f))
         /\ Total(S, f) \in Nat /\ Total(S \ T, f) \in Nat /\ Total(T \cap S, f) \in Nat
         /\ Total(S, f) = Total(S \ T, f) + Total(T \cap S, f)
  <1> DEFINE A == Bytes(S \ T, f)
             B == Bytes(T \cap S, f)
  <1>1. Bytes(S, f) = A \cup B /\ A \cap B = {}
    <2>1. S = (S \ T) \cup (T \cap S) /\ (S \ T) \cap (T \cap S) = {}
      OBVIOUS
    <2> QED
      BY <2>1, BytesSplit
  <1> HIDE DEF A, B
  <1>2. A \in SUBSET Bytes(S, f) /\ B \in SUBSET Bytes(S, f)
    BY <1>1
  <1>3. IsFiniteSet(A) /\ IsFiniteSet(B)
    BY <1>2, FS_Subset
  <1>4. Cardinality(A) \in Nat /\ Cardinality(B) \in Nat
    BY <1>3, FS_CardinalityType
  <1>4a. Cardinality({}) = 0
    BY FS_EmptySet
  <1>5. Cardinality(A \cup B) = Cardinality(A) + Cardinality(B) - Cardinality(A \cap B)
    BY <1>3, FS_Union
  <1>5a. Cardinality(A \cap B) = 0 /\ Cardinality(Bytes(S, f)) = Cardinality(A \cup B)
    BY <1>1, <1>4a, Zenon
  <1>6. Cardinality(Bytes(S, f)) = Cardinality(A) + Cardinality(B)
    BY <1>4, <1>5, <1>5a
  <1> QED
    BY <1>3, <1>4, <1>6 DEF Total, A, B

LEMMA TotalAdd ==
  ASSUME NEW S, NEW k, k \notin S, NEW f, f[k] \in Nat, IsFiniteSet(Bytes(S, f))
  PROVE  IsFiniteSet(Bytes(S \cup {k}, f)) /\ Total(S \cup {k}, f) = Total(S, f) + f[k]
  <1> DEFINE R == S \cup {k}
  <1>1. IsFiniteSet(Bytes({k}, f)) /\ Total({k}, f) = f[k]
    BY TotalOne
  <1>2. Bytes(R, f) = Bytes(S, f) \cup Bytes({k}, f)
    BY BytesSplit
  <1>3. IsFiniteSet(Bytes(R, f))
    BY <1>1, <1>2, FS_Union
  <1>4. R \ {k} = S /\ {k} \cap R = {k}
    OBVIOUS
  <1>5. Total(R, f) = Total(R \ {k}, f) + Total({k} \cap R, f)
    BY <1>3, TotalSplit
  <1> QED
    BY <1>1, <1>3, <1>4, <1>5

LEMMA NothingIsEmpty ==
  ASSUME NEW f
  PROVE  Bytes({}, f) = {} /\ IsFiniteSet(Bytes({}, f)) /\ Total({}, f) = 0
  BY FS_EmptySet DEF Bytes, Total

\* A sum does not change when keys that count for nothing are left out.
Agree(S, T, f, g) == \A k \in S : IF k \in T THEN f[k] = g[k] ELSE f[k] = 0

LEMMA ZerosDoNotCount ==
  ASSUME NEW S, NEW T, NEW f, NEW g, Agree(S, T, f, g)
  PROVE  Bytes(S, f) = Bytes(S \cap T, g)
  <1> USE DEF Agree
  <1>1. \A k \in S \ T : 1 .. f[k] = {}
    OBVIOUS
  <1>2. \A p : p \in Bytes(S, f) <=> \E k \in S : p \in {k} \X (1 .. f[k])
    BY DEF Bytes
  <1>3. \A p : p \in Bytes(S \cap T, g) <=> \E k \in S \cap T : p \in {k} \X (1 .. g[k])
    BY DEF Bytes
  <1>4. \A k \in S \ T : {k} \X (1 .. f[k]) = {}
    BY <1>1
  <1>5. \A k \in S \cap T : 1 .. f[k] = 1 .. g[k]
    OBVIOUS
  <1> QED
    BY <1>2, <1>3, <1>4, <1>5

-----------------------------------------------------------------------------
(* The sorted set.                                                         *)

LEMMA WithoutKeepsOrder ==
  ASSUME lru \in SUBSET (Keys \X Keys), LinearOrder, NEW S, lru' = Without(S)
  PROVE  lru' \in SUBSET (Keys \X Keys) /\ LinearOrder' /\ Listed' = Listed \ S
  <1>0. \A p \in lru : p = <<p[1], p[2]>> /\ p[1] \in Keys /\ p[2] \in Keys
    OBVIOUS
  <1>1. lru' \in SUBSET (Keys \X Keys)
    BY DEF Without
  <1>2. \A j, k : <<j, k>> \in lru' <=> <<j, k>> \in lru /\ j \notin S /\ k \notin S
    BY DEF Without
  <1>3. Listed' = Listed \ S
    <2>1. \A k \in Listed : <<k, k>> \in lru
      BY DEF LinearOrder
    <2>2. \A k : k \in Listed' => k \in Listed \ S
      BY DEF Listed, Without
    <2>3. \A k \in Listed \ S : k \in Listed'
      <3> TAKE k \in Listed \ S
      <3>1. <<k, k>> \in lru'
        BY <1>2, <2>1
      <3>2. <<k, k>>[1] = k
        OBVIOUS
      <3> QED
        BY <3>1, <3>2 DEF Listed
    <2> QED
      BY <2>2, <2>3
  <1>4. LinearOrder'
    BY <1>2, <1>3 DEF LinearOrder
  <1> QED
    BY <1>1, <1>3, <1>4

LEMMA TouchedKeepsOrder ==
  ASSUME lru \in SUBSET (Keys \X Keys), LinearOrder, NEW k \in Keys, lru' = Touched(k)
  PROVE  lru' \in SUBSET (Keys \X Keys) /\ LinearOrder' /\ Listed' = Listed \cup {k}
  <1>0. Listed \subseteq Keys
    BY DEF Listed
  <1>1. \A i, j : <<i, j>> \in lru' <=> \/ <<i, j>> \in lru /\ i # k /\ j # k
                                        \/ i \in Listed \cup {k} /\ j = k
    BY DEF Touched, Without
  <1>2. lru' \in SUBSET (Keys \X Keys)
    BY <1>0 DEF Touched, Without
  <1>3. Listed' = Listed \cup {k}
    <2>1. \A i \in Listed \cup {k} : <<i, k>> \in lru' /\ <<i, k>>[1] = i
      BY <1>1
    <2>2. \A i \in Listed \cup {k} : i \in Listed'
      BY <2>1 DEF Listed
    <2>3. \A i \in Listed' : i \in Listed \cup {k}
      BY DEF Listed, Touched, Without
    <2> QED
      BY <2>2, <2>3
  <1>4. \A i, j \in Keys : <<i, j>> \in lru => i \in Listed
    <2> TAKE i, j \in Keys
    <2>1. <<i, j>>[1] = i
      OBVIOUS
    <2> QED
      BY <2>1 DEF Listed
  <1>5. LinearOrder'
    BY <1>0, <1>1, <1>3, <1>4 DEF LinearOrder
  <1> QED
    BY <1>2, <1>3, <1>5

-----------------------------------------------------------------------------
(* Requests.                                                               *)

LEMMA IdleIsGood == Idle \in GoodReq /\ ~Idle.held /\ Idle.pc = "idle"
  BY DEF Idle, GoodReq, ReqType, Sound, Pcs

\* Nothing but taking the lock makes a request believe it holds one, and nothing
\* but forgetting it changes the key it believes to hold.
Keeps(q, r) == ~q.held \/ (req[r].held /\ q.key = req[r].key)

\* What a request becomes when it is sent on, with other numbers or not.
Sent(r, l, n, m) == {[req[r] EXCEPT !.pc = l], [req[r] EXCEPT !.pc = l, !.num = n],
                     [req[r] EXCEPT !.pc = l, !.says = m],
                     [req[r] EXCEPT !.pc = l, !.num = n, !.says = m]}

LEMMA Moved ==
  ASSUME NEW r \in Requests, req \in [Requests -> GoodReq], req[r].pc # "idle",
         NEW l \in Pcs \ {"idle", "release"}, req[r].held => l \in Holding,
         NEW n \in Int, NEW m \in Nat, NEW q \in Sent(r, l, n, m)
  PROVE  q \in GoodReq /\ Keeps(q, r)
  <1> DEFINE p == req[r]
  <1>1. p \in ReqType /\ p.key \in Keys /\ (p.held => l \in Holding)
    BY DEF GoodReq, Sound
  <1>2. q \in ReqType /\ q.key = p.key /\ q.held = p.held /\ q.pc = l
    BY <1>1 DEF ReqType, Sent
  <1> HIDE DEF p
  <1>3. q \in GoodReq
    BY <1>1, <1>2 DEF GoodReq, Sound
  <1>4. Keeps(q, r)
    BY <1>2 DEF Keeps, p
  <1> QED
    BY <1>3, <1>4

\* What a fill leaves of its request.
LEMMA Finished ==
  ASSUME NEW r \in Requests, req \in [Requests -> GoodReq], req[r].pc # "idle"
  PROVE  LET q == IF req[r].held THEN [req[r] EXCEPT !.pc = "release", !.num = 0, !.says = 0]
                               ELSE Idle
         IN  q \in GoodReq /\ Keeps(q, r)
  <1> DEFINE q == req[r]
             p == [q EXCEPT !.pc = "release", !.num = 0, !.says = 0]
  <1>1. q \in ReqType /\ q.key \in Keys
    BY DEF GoodReq, Sound
  <1>2. CASE q.held
    <2>0. "release" \in Pcs /\ 0 \in Int /\ 0 \in Nat
      BY DEF Pcs
    <2>1. p \in ReqType /\ p.key = q.key /\ p.held = q.held /\ p.pc = "release"
      BY <1>1, <2>0 DEF ReqType
    <2>2. p \in GoodReq /\ Keeps(p, r)
      <3> HIDE DEF p
      <3> QED
        BY <1>1, <1>2, <2>1 DEF GoodReq, Sound, Holding, Keeps
    <2> QED
      BY <1>2, <2>2
  <1>3. CASE ~q.held
    BY <1>3, IdleIsGood DEF Keeps
  <1> QED
    BY <1>2, <1>3

\* A step of a request changes that request only, and, unless it takes a lock, never
\* what it believes to hold other than by forgetting it.
StepsTo(r) == \E q \in GoodReq : req' = [req EXCEPT ![r] = q] /\ Keeps(q, r)

LEMMA GotoSteps ==
  ASSUME NEW r \in Requests, req \in [Requests -> GoodReq], req[r].pc # "idle",
         NEW l \in Pcs \ {"idle", "release"}, req[r].held => l \in Holding, Goto(r, l)
  PROVE  StepsTo(r)
  <1> DEFINE q == [req[r] EXCEPT !.pc = l]
  <1>1. 0 \in Int /\ 0 \in Nat
    OBVIOUS
  <1>1a. q \in Sent(r, l, 0, 0)
    BY DEF Sent
  <1>2. q \in GoodReq /\ Keeps(q, r)
    BY <1>1, <1>1a, Moved
  <1>3. req' = [req EXCEPT ![r] = q]
    BY DEF Goto
  <1> QED
    BY <1>2, <1>3 DEF StepsTo

LEMMA EndSteps ==
  ASSUME NEW r \in Requests, req \in [Requests -> GoodReq], End(r)
  PROVE  StepsTo(r)
  BY IdleIsGood DEF End, StepsTo, Keeps

LEMMA FinishSteps ==
  ASSUME NEW r \in Requests, req \in [Requests -> GoodReq], req[r].pc # "idle", FinishFill(r)
  PROVE  StepsTo(r)
  <1> DEFINE q == IF req[r].held THEN [req[r] EXCEPT !.pc = "release", !.num = 0, !.says = 0]
                              ELSE Idle
  <1>1. q \in GoodReq /\ Keeps(q, r)
    BY Finished
  <1>2. req' = [req EXCEPT ![r] = q]
    BY DEF FinishFill
  <1> QED
    BY <1>1, <1>2 DEF StepsTo

\* A request that begins.
LEMMA BeginSteps ==
  ASSUME NEW r \in Requests, req \in [Requests -> GoodReq], NEW k \in Keys,
         NEW l \in Pcs \ {"idle", "release"}, NEW m \in Nat,
         NEW q \in {[Idle EXCEPT !.pc = l, !.key = k],
                    [Idle EXCEPT !.pc = l, !.key = k, !.says = m]},
         req' = [req EXCEPT ![r] = q]
  PROVE  StepsTo(r)
  <1>0. Idle \in ReqType /\ ~Idle.held
    BY IdleIsGood DEF GoodReq
  <1>1. q \in ReqType /\ q.pc = l /\ q.key = k /\ ~q.held
    BY <1>0 DEF ReqType
  <1>2. q \in GoodReq /\ Keeps(q, r)
    BY <1>1 DEF GoodReq, Sound, Keeps
  <1> QED
    BY <1>2 DEF StepsTo

\* The one step that takes the lock.
Takes(r) ==
    /\ At(r, "lock") \/ At(r, "relock")
    /\ lock[req[r].key] = None /\ lock' = [lock EXCEPT ![req[r].key] = r]
    /\ req' = [req EXCEPT ![r] = [@ EXCEPT !.pc = "fetch", !.held = TRUE]]

LEMMA TakesGood ==
  ASSUME NEW r \in Requests, req \in [Requests -> GoodReq], Takes(r)
  PROVE  LET q == [req[r] EXCEPT !.pc = "fetch", !.held = TRUE]
         IN  /\ q \in GoodReq /\ q.held /\ q.key = req[r].key
             /\ req' = [req EXCEPT ![r] = q]
             /\ req[r].key \in Keys /\ ~req[r].held
  <1> DEFINE q == [req[r] EXCEPT !.pc = "fetch", !.held = TRUE]
  <1>1. req[r] \in ReqType /\ req[r].key \in Keys /\ ~req[r].held
    BY DEF Takes, At, GoodReq, Sound, Holding
  <1>2. q \in ReqType /\ q.held = TRUE /\ q.key = req[r].key /\ q.pc = "fetch"
    BY <1>1 DEF ReqType, Pcs
  <1>3. q \in GoodReq
    <2> HIDE DEF q
    <2> QED
      BY <1>1, <1>2 DEF GoodReq, Sound, Holding
  <1> QED
    BY <1>1, <1>2, <1>3 DEF Takes

-----------------------------------------------------------------------------
(* Types.                                                                  *)

LEMMA TypeInvInit == Init => TypeInv
  <1> SUFFICES ASSUME Init PROVE TypeInv
    OBVIOUS
  <1>1. Listed = {} /\ LinearOrder
    BY DEF Init, Listed, LinearOrder
  <1>2. req \in [Requests -> GoodReq] /\ req \in [Requests -> ReqType]
    BY IdleIsGood DEF Init, GoodReq
  <1>3. NoPurge \in [file : Files \cup {None}, seen : SUBSET Keys]
    BY DEF NoPurge
  <1>3a. lock \in [Keys -> Requests \cup {None}]
    BY DEF Init
  <1>3b. size \in Int
    BY DEF Init
  <1>3c. drifted \in BOOLEAN /\ cutShort \in BOOLEAN
    BY DEF Init
  <1>3d. meta \in [Keys -> Nat]
    BY DEF Init
  <1>4. TypeOK
    BY <1>1, <1>2, <1>3, <1>3a, <1>3b, <1>3c, <1>3d DEF Init, TypeOK, ReqType
  <1>5. Bytes(Keys, meta) = Bytes(Keys \cap {}, meta)
    <2>1. Agree(Keys, {}, meta, meta)
      BY DEF Init, Agree
    <2> QED
      BY <2>1, ZerosDoNotCount
  <1>6. Keys \cap {} = {}
    OBVIOUS
  <1> QED
    BY <1>2, <1>4, <1>5, <1>6, NothingIsEmpty DEF Init, TypeInv

\* What an eviction frees, and what the read of the size of an entry returns.
LEMMA Amounts ==
  ASSUME TypeInv, NEW S \in SUBSET Keys
  PROVE  /\ Total(S, meta) \in Nat /\ Total(stored, Size) \in Nat
         /\ IsFiniteSet(Bytes(stored \ S, Size))
         /\ IsFiniteSet(Bytes(Keys, Forget(S))) /\ Forget(S) \in [Keys -> Nat]
  <1>1. IsFiniteSet(Bytes(stored, Size)) /\ IsFiniteSet(Bytes(Keys, meta))
        /\ meta \in [Keys -> Nat]
    BY DEF TypeInv, TypeOK
  <1>2. S \cap Keys = S
    OBVIOUS
  <1>3. Total(S, meta) \in Nat
    BY <1>1, <1>2, TotalSplit
  <1>4. Total(stored, Size) \in Nat /\ IsFiniteSet(Bytes(stored \ S, Size))
    BY <1>1, TotalSplit
  <1>5. Forget(S) \in [Keys -> Nat]
    BY <1>1 DEF Forget
  <1>6. Bytes(Keys, Forget(S)) = Bytes(Keys \cap (Keys \ S), meta)
    <2>1. Agree(Keys, Keys \ S, Forget(S), meta)
      BY DEF Forget, Agree
    <2> QED
      BY <2>1, ZerosDoNotCount
  <1>7. Keys \cap (Keys \ S) = Keys \ S /\ IsFiniteSet(Bytes(Keys \ S, meta))
    BY <1>1, TotalSplit
  <1> QED
    BY <1>3, <1>4, <1>5, <1>6, <1>7

\* With true metadata the scripts free the bytes of what they take out of the cache.
LEMMA TrueAmounts ==
  ASSUME TypeInv, MetadataIsTrue, ~drifted, NEW S \in SUBSET Keys
  PROVE  Total(stored \ S, Size) = Total(stored, Size) - Total(S, meta)
  <1>1. Total(S, meta) = Total(S \cap stored, Size)
    <2>1. Agree(S, stored, meta, Size)
      BY DEF MetadataIsTrue, Agree
    <2>2. Bytes(S, meta) = Bytes(S \cap stored, Size)
      BY <2>1, ZerosDoNotCount
    <2> QED
      BY <2>2 DEF Total
  <1>2. IsFiniteSet(Bytes(stored, Size))
    BY DEF TypeInv
  <1>3. /\ Total(stored, Size) \in Nat /\ Total(stored \ S, Size) \in Nat
        /\ Total(S \cap stored, Size) \in Nat
        /\ Total(stored, Size) = Total(stored \ S, Size) + Total(S \cap stored, Size)
    BY <1>2, TotalSplit
  <1> QED
    BY <1>1, <1>3

LEMMA OldestIsKnown == ASSUME TypeInv PROVE Oldest \in SUBSET Keys /\ Freed \in Nat
  <1>1. Oldest \in SUBSET Keys
    BY DEF Oldest, Listed, TypeInv, TypeOK
  <1> QED
    BY <1>1, Amounts DEF Freed

LEMMA StrlenType ==
  ASSUME NEW k \in Keys PROVE Strlen(k) \in Int /\ Size[k] \in Nat
  BY CacheAssumption DEF Strlen

\* What the first commands of a pipeline do to each variable they write.
LEMMA PipelineTypes ==
  ASSUME TypeInv, NEW r \in Requests, req[r].pc # "idle", NEW n \in 1 .. 5, Pipeline(r, n)
  PROVE  /\ lru' \in SUBSET (Keys \X Keys) /\ LinearOrder'
         /\ Listed' \in {Listed, Listed \cup {req[r].key}}
         /\ stored' \in {stored, stored \cup {req[r].key}} /\ stored' \in SUBSET Keys
         /\ meta' = [meta EXCEPT ![req[r].key] = req[r].says] /\ meta' \in [Keys -> Nat]
         /\ size' \in Int /\ tracked' \in SUBSET Keys
         /\ IsFiniteSet(Bytes(stored', Size)) /\ IsFiniteSet(Bytes(Keys, meta'))
  <1>1. PICK k \in Keys : k = req[r].key
    BY DEF TypeInv, GoodReq, Sound
  <1>2. req[r].num \in Int /\ req[r].says \in Nat
    BY DEF TypeInv, GoodReq, ReqType
  <1>3. /\ lru \in SUBSET (Keys \X Keys) /\ LinearOrder /\ stored \in SUBSET Keys
        /\ tracked \in SUBSET Keys /\ size \in Int /\ meta \in [Keys -> Nat]
        /\ IsFiniteSet(Bytes(stored, Size)) /\ IsFiniteSet(Bytes(Keys, meta))
    BY DEF TypeInv, TypeOK
  <1>4. /\ lru' \in SUBSET (Keys \X Keys) /\ LinearOrder'
        /\ Listed' \in {Listed, Listed \cup {req[r].key}}
    <2>1. CASE lru' = Touched(k)
      BY <1>1, <1>3, <2>1, TouchedKeepsOrder
    <2>2. CASE lru' = lru
      BY <1>3, <2>2 DEF LinearOrder, Listed
    <2> QED
      BY <1>1, <2>1, <2>2 DEF Pipeline
  <1>5. stored' \in {stored, stored \cup {k}} /\ tracked' \in SUBSET Keys
    BY <1>1, <1>3 DEF Pipeline
  <1>6. meta' = [meta EXCEPT ![k] = req[r].says]
    BY <1>1 DEF Pipeline
  <1>7. size' \in Int
    <2>1. Size[k] \in Int
      BY StrlenType
    <2>2. size + (Size[k] - req[r].num) \in Int
      BY <1>2, <1>3, <2>1
    <2> QED
      BY <1>1, <1>3, <2>2 DEF Pipeline, SizeDelta
  <1>8. IsFiniteSet(Bytes(stored', Size))
    <2>1. CASE stored' = stored
      BY <1>3, <2>1
    <2>2. CASE stored' = stored \cup {k} /\ k \notin stored
      BY <1>3, <2>2, StrlenType, TotalAdd
    <2> QED
      BY <1>5, <2>1, <2>2
  <1>9. meta' \in [Keys -> Nat]
    BY <1>2, <1>3, <1>6
  <1>10. IsFiniteSet(Bytes(Keys, meta'))
    <2>1. IsFiniteSet(Bytes(Keys \ {k}, meta))
      BY <1>3, TotalSplit
    <2>2. Bytes(Keys \ {k}, meta) = Bytes((Keys \ {k}) \cap Keys, meta')
      <3>1. Agree(Keys \ {k}, Keys, meta, meta')
        BY <1>3, <1>6 DEF Agree
      <3> QED
        BY <3>1, ZerosDoNotCount
    <2>3. (Keys \ {k}) \cap Keys = Keys \ {k} /\ Keys = (Keys \ {k}) \cup {k}
      OBVIOUS
    <2>4. IsFiniteSet(Bytes(Keys \ {k}, meta'))
      BY <2>1, <2>2, <2>3
    <2>5. k \notin Keys \ {k} /\ meta'[k] \in Nat
      BY <1>9
    <2>6. IsFiniteSet(Bytes((Keys \ {k}) \cup {k}, meta'))
      BY <2>4, <2>5, TotalAdd
    <2> QED
      BY <2>3, <2>6
  <1> QED
    BY <1>1, <1>3, <1>4, <1>5, <1>6, <1>7, <1>8, <1>9, <1>10

\* Every step of a request but the one that takes the lock.
LEMMA StepsAre ==
  ASSUME TypeInv, NEW r \in Requests, Step(r) \/ FillFails(r) \/ CacheFileCut(r)
  PROVE  StepsTo(r) \/ Takes(r)
  <1> USE DEF At
  <1>0. req \in [Requests -> GoodReq] /\ req[r] \in GoodReq
    BY DEF TypeInv
  <1>0a. /\ req[r].pc # "idle" => req[r].key \in Keys
         /\ req[r].held => req[r].pc \in Holding
         /\ req[r].num \in Int
    BY <1>0 DEF GoodReq, Sound, ReqType
  <1>0b. 0 \in Int /\ 0 \in Nat
    OBVIOUS
  \* Those that change the numbers of a request on its way.
  <1>0c. ASSUME req[r].pc # "idle", NEW l \in Pcs \ {"idle", "release"},
                req[r].held => l \in Holding, NEW n \in Int, NEW m \in Nat,
                NEW q \in Sent(r, l, n, m), req' = [req EXCEPT ![r] = q]
         PROVE  StepsTo(r)
    <2>1. q \in GoodReq /\ Keeps(q, r)
      BY <1>0, <1>0c, Moved
    <2> QED
      BY <1>0c, <2>1 DEF StepsTo
  <1>1. CASE ReadMetadata(r)
    <2>1. CASE End(r)
      BY <1>0, <2>1, EndSteps
    <2>2. CASE \E n \in KnownSizes(req[r].key) :
                   req' = [req EXCEPT ![r] = [@ EXCEPT !.pc = "get", !.says = n]]
      <3>1. PICK n \in KnownSizes(req[r].key) :
                   req' = [req EXCEPT ![r] = [@ EXCEPT !.pc = "get", !.says = n]]
        BY <2>2
      <3>2. req[r].key \in Keys /\ req[r].pc = "meta" /\ ~req[r].held
        BY <1>0a, <1>1 DEF ReadMetadata, Holding
      <3>3. n \in Nat
        BY <3>2, CacheAssumption DEF KnownSizes, TypeInv, TypeOK
      <3>4. "get" \in Pcs \ {"idle", "release"} /\ req[r].pc # "idle"
        BY <3>2 DEF Pcs
      <3> DEFINE q == [req[r] EXCEPT !.pc = "get", !.says = n]
      <3>5. req' = [req EXCEPT ![r] = q]
        BY <3>1
      <3> QED
        BY <1>0b, <1>0c, <3>2, <3>3, <3>4, <3>5 DEF Sent
    <2> QED
      BY <1>1, <2>1, <2>2 DEF ReadMetadata
  <1>2. CASE GetBinary(r)
    BY <1>0, <1>0a, <1>2, GotoSteps DEF GetBinary, Pcs, Holding
  <1>3. CASE TouchLru(r)
    BY <1>0, <1>3, EndSteps DEF TouchLru
  <1>4. CASE AcquireStampedeLock(r)
    <2>1. ~req[r].held /\ req[r].pc # "idle"
      BY <1>0a, <1>4 DEF AcquireStampedeLock, Holding
    <2>2. CASE Goto(r, "wait") \/ Goto(r, "fetch")
      BY <1>0, <2>1, <2>2, GotoSteps DEF Pcs
    <2>3. CASE End(r)
      BY <1>0, <2>3, EndSteps
    <2> QED
      BY <1>4, <2>2, <2>3 DEF AcquireStampedeLock, Takes
  <1>5. CASE WaitForCache(r)
    BY <1>0, <1>0a, <1>5, GotoSteps DEF WaitForCache, Pcs, Holding
  <1>6. CASE FetchFromOrigin(r)
    BY <1>0, <1>0a, <1>6, GotoSteps, EndSteps, FinishSteps DEF FetchFromOrigin, Pcs, Holding
  <1>7. CASE ReadPreviousSize(r)
    <2>1. Strlen(req[r].key) \in Int
      BY <1>0a, <1>7, StrlenType DEF ReadPreviousSize
    <2>2. req[r].pc # "idle" /\ "store" \in Pcs \ {"idle", "release"} /\ "store" \in Holding
      BY <1>7 DEF ReadPreviousSize, Pcs, Holding
    <2> DEFINE q == [req[r] EXCEPT !.pc = "store", !.num = Strlen(req[r].key)]
    <2>4. req' = [req EXCEPT ![r] = q]
      BY <1>7 DEF ReadPreviousSize
    <2> QED
      BY <1>0b, <1>0c, <2>1, <2>2, <2>4 DEF Sent
  <1>8. CASE CacheFile(r)
    <2>2. req[r].pc # "idle" /\ "check" \in Pcs \ {"idle", "release"} /\ "check" \in Holding
      BY <1>8 DEF CacheFile, Pcs, Holding
    <2> DEFINE q == [req[r] EXCEPT !.pc = "check", !.num = 0, !.says = 0]
    <2>4. req' = [req EXCEPT ![r] = q]
      BY <1>8 DEF CacheFile
    <2> QED
      BY <1>0b, <1>0c, <2>2, <2>4 DEF Sent
  <1>9. CASE CheckSize(r)
    <2>1. size - MaxCacheSize \in Int
      BY CacheAssumption DEF TypeInv, TypeOK
    <2>2. req[r].pc # "idle" /\ "evict" \in Pcs \ {"idle", "release"} /\ "evict" \in Holding
      BY <1>9 DEF CheckSize, Pcs, Holding
    <2> DEFINE q == [req[r] EXCEPT !.pc = "evict", !.num = size - MaxCacheSize]
    <2>4. CASE req' = [req EXCEPT ![r] = q]
      BY <1>0b, <1>0c, <2>1, <2>2, <2>4 DEF Sent
    <2>5. CASE FinishFill(r)
      BY <1>0, <2>2, <2>5, FinishSteps
    <2> QED
      BY <1>9, <2>4, <2>5 DEF CheckSize
  <1>10. CASE EvictOldest(r)
    <2>1. Freed \in Nat
      BY OldestIsKnown
    <2>2. req[r].pc = "evict" /\ "evict" \in Pcs \ {"idle", "release"} /\ "evict" \in Holding
          /\ "reset" \in Pcs \ {"idle", "release"} /\ "reset" \in Holding
      BY <1>10 DEF EvictOldest, Pcs, Holding
    <2>4. CASE req' = [req EXCEPT ![r].num = @ - Freed]
      <3> DEFINE n == req[r].num - Freed
                 q == [req[r] EXCEPT !.pc = "evict", !.num = n]
      <3>1. n \in Int
        BY <1>0a, <2>1
      <3>2. [req[r] EXCEPT !.num = n] = q
        BY <1>0, <2>2 DEF GoodReq, ReqType
      <3>3. req' = [req EXCEPT ![r] = q]
        BY <2>4, <3>2
      <3> HIDE DEF n
      <3> QED
        BY <1>0b, <1>0c, <2>2, <3>1, <3>3 DEF Sent
    <2>5. CASE req' = [req EXCEPT ![r] = [@ EXCEPT !.pc = "reset", !.num = 0]]
      <3> DEFINE q == [req[r] EXCEPT !.pc = "reset", !.num = 0]
      <3>1. req' = [req EXCEPT ![r] = q]
        BY <2>5
      <3> QED
        BY <1>0b, <1>0c, <2>2, <3>1 DEF Sent
    <2>6. CASE FinishFill(r)
      BY <1>0, <2>2, <2>6, FinishSteps
    <2> QED
      BY <1>10, <2>4, <2>5, <2>6 DEF EvictOldest
  <1>11. CASE ResetSize(r)
    BY <1>0, <1>11, FinishSteps DEF ResetSize
  <1>12. CASE ReleaseStampedeLock(r)
    BY <1>0, <1>12, EndSteps DEF ReleaseStampedeLock
  <1>13. CASE FillFails(r)
    BY <1>0, <1>13, FinishSteps DEF FillFails
  <1>14. CASE CacheFileCut(r)
    BY <1>0, <1>14, FinishSteps DEF CacheFileCut
  <1> QED
    BY <1>1, <1>2, <1>3, <1>4, <1>5, <1>6, <1>7, <1>8, <1>9, <1>10, <1>11, <1>12, <1>13, <1>14
       DEF Step

LEMMA TypeInvNext == TypeInv /\ [Next]_vars => TypeInv'
  <1> SUFFICES ASSUME TypeInv, [Next]_vars PROVE TypeInv'
    OBVIOUS
  <1> DEFINE Req == req' \in [Requests -> GoodReq] /\ req' \in [Requests -> ReqType]
             Lru == lru' \in SUBSET (Keys \X Keys) /\ LinearOrder'
  <1>0. /\ lru \in SUBSET (Keys \X Keys) /\ LinearOrder
        /\ req \in [Requests -> GoodReq] /\ req \in [Requests -> ReqType]
        /\ IsFiniteSet(Bytes(stored, Size)) /\ IsFiniteSet(Bytes(Keys, meta))
    BY DEF TypeInv, TypeOK, ReqType
  <1>1. ASSUME NEW r \in Requests, StepsTo(r) \/ Takes(r) PROVE Req
    <2>1. CASE StepsTo(r)
      BY <1>0, <2>1 DEF StepsTo, GoodReq
    <2>2. CASE Takes(r)
      <3> DEFINE q == [req[r] EXCEPT !.pc = "fetch", !.held = TRUE]
      <3>1. q \in GoodReq /\ req' = [req EXCEPT ![r] = q]
        BY <1>0, <2>2, TakesGood
      <3> HIDE DEF q
      <3> QED
        BY <1>0, <3>1 DEF GoodReq
    <2> QED
      BY <1>1, <2>1, <2>2
  <1>2. ASSUME UNCHANGED lru PROVE Lru
    BY <1>0, <1>2 DEF LinearOrder, Listed
  <1>3. ASSUME UNCHANGED req PROVE Req
    BY <1>0, <1>3
  \* The parts together.
  <1>4. ASSUME Req, Lru, IsFiniteSet(Bytes(stored', Size)), size' \in Int,
               IsFiniteSet(Bytes(Keys, meta')), meta' \in [Keys -> Nat],
               stored' \in SUBSET Keys, tracked' \in SUBSET Keys, broken' \in SUBSET Keys,
               drifted' \in BOOLEAN, cutShort' \in BOOLEAN,
               lock' \in [Keys -> Requests \cup {None}],
               recs' \in SUBSET Keys, inval' \in SUBSET Files,
               purge' \in [file : Files \cup {None}, seen : SUBSET Keys]
        PROVE  TypeInv'
    BY <1>4 DEF TypeInv, TypeOK, ReqType, Bytes, LinearOrder, Listed
  \* Steps that leave the cache and its invalidation alone.
  <1>5. ASSUME UNCHANGED <<cache, outside>>, Req, cutShort' \in BOOLEAN,
               lock' \in [Keys -> Requests \cup {None}]
        PROVE  TypeInv'
    <2>1. UNCHANGED <<stored, meta, lru, tracked, size, drifted, broken, recs, inval, purge>>
      BY <1>5 DEF cache, outside
    <2> QED
      BY <1>0, <1>2, <1>4, <1>5, <2>1 DEF TypeInv, TypeOK
  <1>6. ASSUME NEW k \in Keys, NEW r \in Readers, Download(r, k) PROVE TypeInv'
    <2>0. 0 \in Nat /\ r \in Requests /\ "meta" \in Pcs \ {"idle", "release"}
      BY DEF Requests, Pcs
    <2> DEFINE q == [Idle EXCEPT !.pc = "meta", !.key = k]
    <2>0a. req' = [req EXCEPT ![r] = q]
      BY <1>6 DEF Download
    <2>1. StepsTo(r) /\ r \in Requests
      BY <1>0, <2>0, <2>0a, BeginSteps
    <2> QED
      BY <1>1, <1>5, <1>6, <2>1 DEF Download, TypeInv, TypeOK
  <1>7. ASSUME NEW k \in Keys, NEW r \in Workers, Replicate(r, k) PROVE TypeInv'
    <2>0. Size[k] \in Nat /\ r \in Requests /\ "fill" \in Pcs \ {"idle", "release"}
      BY StrlenType DEF Requests, Pcs
    <2> DEFINE q == [Idle EXCEPT !.pc = "fill", !.key = k, !.says = Size[k]]
    <2>0a. req' = [req EXCEPT ![r] = q]
      BY <1>7 DEF Replicate
    <2>1. StepsTo(r) /\ r \in Requests
      BY <1>0, <2>0, <2>0a, BeginSteps
    <2> QED
      BY <1>1, <1>5, <1>7, <2>1 DEF Replicate, TypeInv, TypeOK
  <1>8. ASSUME NEW r \in Requests, Step(r) \/ FillFails(r) \/ CacheFileCut(r) PROVE TypeInv'
    <2>1. Req
      BY <1>1, <1>8, StepsAre
    <2>2. req[r].pc # "idle" => req[r].key \in Keys
      BY <1>0 DEF GoodReq, Sound
    <2>3. CASE ReadMetadata(r) \/ GetBinary(r) \/ WaitForCache(r) \/ FetchFromOrigin(r)
               \/ ReadPreviousSize(r) \/ CheckSize(r)
      BY <1>5, <2>1, <2>3 DEF ReadMetadata, GetBinary, WaitForCache, FetchFromOrigin,
                              ReadPreviousSize, CheckSize, TypeInv, TypeOK
    <2>4. CASE FillFails(r)
      BY <1>5, <2>1, <2>4 DEF FillFails, TypeInv, TypeOK
    <2>5. CASE AcquireStampedeLock(r)
      <3>1. lock' \in [Keys -> Requests \cup {None}]
        BY <2>5 DEF AcquireStampedeLock, TypeInv, TypeOK
      <3> QED
        BY <1>5, <2>1, <2>5, <3>1 DEF AcquireStampedeLock, TypeInv, TypeOK
    <2>6. CASE ReleaseStampedeLock(r)
      <3>1. lock' \in [Keys -> Requests \cup {None}]
        BY <2>6 DEF ReleaseStampedeLock, TypeInv, TypeOK
      <3> QED
        BY <1>5, <2>1, <2>6, <3>1 DEF ReleaseStampedeLock, TypeInv, TypeOK
    <2>7. CASE TouchLru(r)
      <3>1. Lru
        BY <1>0, <2>2, <2>7, TouchedKeepsOrder DEF TouchLru, At
      <3> QED
        BY <1>4, <2>1, <2>7, <3>1 DEF TouchLru, outside, TypeInv, TypeOK
    <2>8. CASE CacheFile(r) \/ CacheFileCut(r)
      <3>1. PICK n \in 1 .. 5 : Pipeline(r, n)
        BY <2>8 DEF CacheFile, CacheFileCut
      <3>2. /\ lru' \in SUBSET (Keys \X Keys) /\ LinearOrder'
            /\ stored' \in SUBSET Keys /\ meta' \in [Keys -> Nat]
            /\ size' \in Int /\ tracked' \in SUBSET Keys
            /\ IsFiniteSet(Bytes(stored', Size)) /\ IsFiniteSet(Bytes(Keys, meta'))
        BY <2>8, <3>1, PipelineTypes DEF CacheFile, CacheFileCut, At
      <3>3. /\ drifted' \in BOOLEAN /\ cutShort' \in BOOLEAN /\ broken' \in SUBSET Keys
        BY <2>2, <2>8 DEF CacheFile, CacheFileCut, At, TypeInv, TypeOK
      <3>4. UNCHANGED <<recs, inval, purge, lock>>
        BY <2>8 DEF CacheFile, CacheFileCut, outside
      <3> QED
        BY <1>4, <2>1, <3>2, <3>3, <3>4 DEF TypeInv, TypeOK
    <2>9. CASE EvictOldest(r)
      <3>1. Lru
        BY <1>0, <2>9, WithoutKeepsOrder DEF EvictOldest
      <3>2. Oldest \in SUBSET Keys /\ Freed \in Nat
        BY OldestIsKnown
      <3>3. IsFiniteSet(Bytes(stored', Size)) /\ IsFiniteSet(Bytes(Keys, meta'))
            /\ meta' \in [Keys -> Nat]
        BY <2>9, <3>2, Amounts DEF EvictOldest
      <3>4. size' \in Int
        BY <2>9, <3>2 DEF EvictOldest, TypeInv, TypeOK
      <3> QED
        BY <1>4, <2>1, <2>9, <3>1, <3>3, <3>4 DEF EvictOldest, outside, TypeInv, TypeOK
    <2>10. CASE ResetSize(r)
      <3>1. drifted' \in BOOLEAN /\ size' \in Int
        BY <2>10 DEF ResetSize
      <3> QED
        BY <1>0, <1>2, <1>4, <2>1, <2>10, <3>1 DEF ResetSize, outside, TypeInv, TypeOK
    <2> QED
      BY <1>8, <2>3, <2>4, <2>5, <2>6, <2>7, <2>8, <2>9, <2>10 DEF Step
  <1>9. ASSUME NEW k \in Keys, LockExpires(k) PROVE TypeInv'
    <2>1. lock' \in [Keys -> Requests \cup {None}]
      BY <1>9 DEF LockExpires, TypeInv, TypeOK
    <2> QED
      BY <1>3, <1>5, <1>9, <2>1 DEF LockExpires, TypeInv, TypeOK
  <1>10. ASSUME NEW f \in Files, RemoveFile(f) \/ Invalidate(f) PROVE TypeInv'
    <2>1. recs' \in SUBSET Keys /\ inval' \in SUBSET Files
      BY <1>10 DEF RemoveFile, Invalidate, TypeInv, TypeOK
    <2> QED
      BY <1>0, <1>2, <1>3, <1>4, <1>10, <2>1
         DEF RemoveFile, Invalidate, cache, TypeInv, TypeOK
  <1>11. ASSUME NEW f \in Files, ReadKeys(f) PROVE TypeInv'
    <2>1. purge' \in [file : Files \cup {None}, seen : SUBSET Keys]
      BY <1>11 DEF ReadKeys, TypeInv, TypeOK
    <2>2. inval' \in SUBSET Files
      BY <1>11 DEF ReadKeys, TypeInv, TypeOK
    <2> QED
      BY <1>0, <1>2, <1>3, <1>4, <1>11, <2>1, <2>2 DEF ReadKeys, cache, TypeInv, TypeOK
  <1>12. ASSUME EvictFile PROVE TypeInv'
    <2>1. Lru
      BY <1>0, <1>12, WithoutKeepsOrder DEF EvictFile
    <2>2. purge.seen \in SUBSET Keys
      BY DEF TypeInv, TypeOK
    <2>2a. IsFiniteSet(Bytes(stored', Size)) /\ IsFiniteSet(Bytes(Keys, meta'))
           /\ meta' \in [Keys -> Nat]
      BY <1>12, <2>2, Amounts DEF EvictFile
    <2>3. size' \in Int
      <3>1. Total(purge.seen, meta) \in Nat
        BY <2>2, Amounts
      <3> QED
        BY <1>12, <3>1 DEF EvictFile, Accounted, TypeInv, TypeOK
    <2>4. purge' \in [file : Files \cup {None}, seen : SUBSET Keys]
      BY <1>12 DEF EvictFile, NoPurge
    <2> QED
      BY <1>3, <1>4, <1>12, <2>1, <2>2a, <2>3, <2>4 DEF EvictFile, TypeInv, TypeOK
  <1>12a. ASSUME EvictFileCut PROVE TypeInv'
    <2>1. PICK done \in SUBSET purge.seen, next \in SUBSET purge.seen :
             /\ size' = size - Accounted(done)
             /\ stored' = stored \ done /\ meta' = Forget(done)
             /\ lru' = Without(done \cup next)
             /\ broken' = broken \cup next
      BY <1>12a DEF EvictFileCut
    <2>2. done \in SUBSET Keys /\ next \in SUBSET Keys
      BY DEF TypeInv, TypeOK
    <2>3. Lru
      BY <1>0, <2>1, WithoutKeepsOrder
    <2>4. IsFiniteSet(Bytes(stored', Size)) /\ IsFiniteSet(Bytes(Keys, meta'))
          /\ meta' \in [Keys -> Nat]
      BY <2>1, <2>2, Amounts
    <2>5. size' \in Int
      <3>1. Total(done, meta) \in Nat
        BY <2>2, Amounts
      <3> QED
        BY <2>1, <3>1 DEF Accounted, TypeInv, TypeOK
    <2>6. purge' \in [file : Files \cup {None}, seen : SUBSET Keys]
          /\ inval' \in SUBSET Files
      BY <1>12a DEF EvictFileCut, NoPurge, TypeInv, TypeOK
    <2>7. broken' \in SUBSET Keys /\ stored' \in SUBSET Keys
      BY <2>1, <2>2 DEF TypeInv, TypeOK
    <2> QED
      BY <1>3, <1>4, <1>12a, <2>3, <2>4, <2>5, <2>6, <2>7 DEF EvictFileCut, TypeInv, TypeOK
  <1>13. ASSUME Crash PROVE TypeInv'
    <2>1. Req
      BY <1>0, <1>13, IdleIsGood DEF Crash, GoodReq
    <2>2. purge' \in [file : Files \cup {None}, seen : SUBSET Keys]
      BY <1>13 DEF Crash, NoPurge, TypeInv, TypeOK
    <2>3. UNCHANGED <<stored, meta, lru, tracked, size, drifted, broken, recs, inval, lock>>
          /\ cutShort' \in BOOLEAN
      BY <1>13 DEF Crash, cache
    <2> QED
      BY <1>0, <1>2, <1>4, <2>1, <2>2, <2>3 DEF TypeInv, TypeOK
  <1>14. CASE UNCHANGED vars
    BY <1>0, <1>2, <1>3, <1>4, <1>14 DEF vars, TypeInv, TypeOK
  <1> QED
    BY <1>6, <1>7, <1>8, <1>9, <1>10, <1>11, <1>12, <1>12a, <1>13, <1>14
       DEF Next

LEMMA TypeInvHolds == Spec => []TypeInv
  BY TypeInvInit, TypeInvNext, PTL DEF Spec

\* However downloads, fills, evictions and invalidations overlap, the sorted set gives
\* every key in it one place, and cache, counter, locks and requests have their types.
THEOREM TypeCorrect == Spec => []TypeOK
  BY TypeInvHolds, PTL DEF TypeInv

-----------------------------------------------------------------------------
(* The eviction can find everything that is cached.                        *)

LEMMA EvictableNext == TypeInv /\ StoredIsEvictable /\ [Next]_vars => StoredIsEvictable'
  <1> SUFFICES ASSUME TypeInv, StoredIsEvictable, [Next]_vars PROVE StoredIsEvictable'
    OBVIOUS
  <1>0. lru \in SUBSET (Keys \X Keys) /\ LinearOrder /\ stored \ broken \subseteq Listed
    BY DEF TypeInv, TypeOK, StoredIsEvictable
  <1>0a. \A r \in Requests : req[r].pc # "idle" => req[r].key \in Keys
    BY DEF TypeInv, GoodReq, Sound
  <1>1. ASSUME UNCHANGED <<stored, lru, broken>> PROVE StoredIsEvictable'
    BY <1>1 DEF StoredIsEvictable, Listed
  <1>2. ASSUME NEW r \in Requests, TouchLru(r) PROVE StoredIsEvictable'
    <2>1. Listed' = Listed \cup {req[r].key}
      BY <1>0, <1>0a, <1>2, TouchedKeepsOrder DEF TouchLru, At
    <2> QED
      BY <1>0, <1>2, <2>1 DEF TouchLru, StoredIsEvictable
  <1>3. ASSUME NEW r \in Requests, CacheFile(r) PROVE StoredIsEvictable'
    <2>1. lru' = Touched(req[r].key) /\ stored' = stored \cup {req[r].key}
          /\ broken' = broken \ {req[r].key}
      BY <1>3 DEF CacheFile, Pipeline
    <2>2. Listed' = Listed \cup {req[r].key}
      BY <1>0, <1>0a, <1>3, <2>1, TouchedKeepsOrder DEF CacheFile, At
    <2> QED
      BY <1>0, <2>1, <2>2 DEF StoredIsEvictable
  <1>3a. ASSUME NEW r \in Requests, CacheFileCut(r) PROVE StoredIsEvictable'
    <2>1. PICK n \in 1 .. 5 : Pipeline(r, n)
      BY <1>3a DEF CacheFileCut
    <2>2. Listed' \in {Listed, Listed \cup {req[r].key}}
          /\ stored' \in {stored, stored \cup {req[r].key}}
      BY <1>3a, <2>1, PipelineTypes DEF CacheFileCut, At
    <2>3. broken' = broken \cup {req[r].key}
      BY <1>3a DEF CacheFileCut
    <2> QED
      BY <1>0, <2>2, <2>3 DEF StoredIsEvictable
  <1>4. ASSUME NEW r \in Requests, EvictOldest(r) PROVE StoredIsEvictable'
    <2>1. Listed' = Listed \ Oldest
      BY <1>0, <1>4, WithoutKeepsOrder DEF EvictOldest
    <2> QED
      BY <1>0, <1>4, <2>1 DEF EvictOldest, StoredIsEvictable
  <1>5. ASSUME EvictFile PROVE StoredIsEvictable'
    <2>1. Listed' = Listed \ purge.seen
      BY <1>0, <1>5, WithoutKeepsOrder DEF EvictFile, Unlisted
    <2> QED
      BY <1>0, <1>5, <2>1 DEF EvictFile, StoredIsEvictable
  <1>5a. ASSUME EvictFileCut PROVE StoredIsEvictable'
    <2>1. PICK done \in SUBSET purge.seen, next \in SUBSET purge.seen :
             /\ stored' = stored \ done /\ lru' = Without(done \cup next)
             /\ broken' = broken \cup next
      BY <1>5a DEF EvictFileCut
    <2>2. Listed' = Listed \ (done \cup next)
      BY <1>0, <2>1, WithoutKeepsOrder
    <2> QED
      BY <1>0, <2>1, <2>2 DEF StoredIsEvictable
  <1>6. ASSUME NEW r \in Requests,
               \/ ReadMetadata(r) \/ GetBinary(r) \/ AcquireStampedeLock(r) \/ WaitForCache(r)
               \/ FetchFromOrigin(r) \/ ReadPreviousSize(r) \/ CheckSize(r) \/ ResetSize(r)
               \/ ReleaseStampedeLock(r) \/ FillFails(r)
        PROVE  UNCHANGED <<stored, lru, broken>>
    BY <1>6 DEF ReadMetadata, GetBinary, AcquireStampedeLock, WaitForCache, FetchFromOrigin,
                ReadPreviousSize, CheckSize, ResetSize, ReleaseStampedeLock, FillFails, cache
  <1>7. ASSUME NEW k \in Keys, NEW r,
               Download(r, k) \/ Replicate(r, k) \/ LockExpires(k)
        PROVE  UNCHANGED <<stored, lru, broken>>
    BY <1>7 DEF Download, Replicate, LockExpires, cache
  <1>8. ASSUME NEW f \in Files, RemoveFile(f) \/ Invalidate(f) \/ ReadKeys(f)
        PROVE  UNCHANGED <<stored, lru, broken>>
    BY <1>8 DEF RemoveFile, Invalidate, ReadKeys, cache
  <1>9. ASSUME Crash \/ UNCHANGED vars PROVE UNCHANGED <<stored, lru, broken>>
    BY <1>9 DEF Crash, vars, cache
  <1> QED
    BY <1>1, <1>2, <1>3, <1>3a, <1>4, <1>5, <1>5a, <1>6, <1>7, <1>8, <1>9 DEF Next, Step

\* Whatever fills, hits, evictions and invalidations do between each other's awaits, no
\* cached object is missing from cache:lru, where only the eviction looks for victims.
THEOREM CachedIsEvictable == Spec => []StoredIsEvictable
  <1>1. Init => StoredIsEvictable
    BY DEF Init, StoredIsEvictable
  <1> QED
    BY <1>1, TypeInvHolds, EvictableNext, PTL DEF Spec

-----------------------------------------------------------------------------
(* The counter and the limit.                                              *)

\* The two together are inductive: the scripts free what the metadata says.
AccountedInv == SizeAccounted /\ MetadataIsTrue

LEMMA AccountedNext == TypeInv /\ AccountedInv /\ [Next]_vars => AccountedInv'
  <1> SUFFICES ASSUME TypeInv, AccountedInv, [Next]_vars, ~drifted'
               PROVE  /\ size' = Total(stored', Size)
                      /\ \A k \in Keys : meta'[k] = IF k \in stored' THEN Size[k] ELSE 0
    BY DEF AccountedInv, SizeAccounted, MetadataIsTrue, Total, Bytes
  <1> DEFINE Goal == /\ size' = Total(stored', Size)
                     /\ \A k \in Keys : meta'[k] = IF k \in stored' THEN Size[k] ELSE 0
  <1>0. /\ SizeAccounted /\ MetadataIsTrue
        /\ size \in Int /\ meta \in [Keys -> Nat] /\ IsFiniteSet(Bytes(stored, Size))
    BY DEF AccountedInv, TypeInv, TypeOK
  <1>0a. \A r \in Requests : req[r].pc # "idle" => req[r].key \in Keys
    BY DEF TypeInv, GoodReq, Sound
  <1>1. ASSUME UNCHANGED <<stored, meta, size, drifted>> PROVE Goal
    BY <1>0, <1>1 DEF SizeAccounted, MetadataIsTrue
  \* What a script or the commands of a purge take out, with their metadata.
  <1>2. ASSUME NEW S \in SUBSET Keys, stored' = stored \ S, meta' = Forget(S),
               size' = size - Total(S, meta), drifted' = drifted
        PROVE  Goal
    <2>1. size' = Total(stored', Size)
      BY <1>0, <1>2, TrueAmounts DEF SizeAccounted
    <2>2. \A k \in Keys : meta'[k] = IF k \in stored' THEN Size[k] ELSE 0
      BY <1>0, <1>2 DEF MetadataIsTrue, Forget
    <2> QED
      BY <2>1, <2>2
  <1>3. ASSUME NEW r \in Requests, CacheFile(r) PROVE Goal
    <2>1. PICK k \in Keys : k = req[r].key
      BY <1>0a, <1>3 DEF CacheFile, At
    <2>2. stored' = stored \cup {k} /\ size' = size + (Size[k] - req[r].num)
          /\ meta' = [meta EXCEPT ![k] = req[r].says]
      BY <1>3, <2>1 DEF CacheFile, Pipeline, SizeDelta
    <2>3. ~drifted /\ req[r].num = Strlen(k) /\ req[r].says = Size[k]
      BY <1>3, <2>1 DEF CacheFile
    <2>4. size = Total(stored, Size) /\ Size[k] \in Nat
      BY <1>0, <2>3, StrlenType DEF SizeAccounted
    <2>5. size' = Total(stored', Size)
      <3>1. CASE k \in stored
        <4>1. stored' = stored /\ Strlen(k) = Size[k]
          BY <2>2, <3>1 DEF Strlen
        <4>2. size' = size
          BY <1>0, <2>2, <2>3, <2>4, <4>1
        <4> QED
          BY <2>4, <4>1, <4>2
      <3>2. CASE k \notin stored
        <4>1. Total(stored \cup {k}, Size) = Total(stored, Size) + Size[k]
          BY <1>0, <2>4, <3>2, TotalAdd
        <4>2. Strlen(k) = 0
          BY <3>2 DEF Strlen
        <4>3. size' = size + Size[k]
          BY <1>0, <2>2, <2>3, <2>4, <4>2
        <4> QED
          BY <2>2, <2>4, <4>1, <4>3
      <3> QED
        BY <3>1, <3>2
    <2>6. \A j \in Keys : meta'[j] = IF j \in stored' THEN Size[j] ELSE 0
      BY <1>0, <2>2, <2>3 DEF MetadataIsTrue
    <2> QED
      BY <2>5, <2>6
  <1>4. ASSUME NEW r \in Requests, EvictOldest(r) PROVE Goal
    <2>1. Oldest \in SUBSET Keys
      BY OldestIsKnown
    <2> QED
      BY <1>2, <1>4, <2>1 DEF EvictOldest, Freed
  <1>5. ASSUME NEW r \in Requests, ResetSize(r) PROVE Goal
    <2>1. stored' = {} /\ size' = 0 /\ \A k \in Keys : meta'[k] = 0
      BY <1>5 DEF ResetSize
    <2>2. Total(stored', Size) = 0
      BY <2>1, NothingIsEmpty
    <2> QED
      BY <2>1, <2>2
  <1>6. ASSUME EvictFile PROVE Goal
    <2>1. purge.seen \in SUBSET Keys
      BY DEF TypeInv, TypeOK
    <2> QED
      BY <1>2, <1>6, <2>1 DEF EvictFile, Accounted
  <1>6a. ASSUME EvictFileCut PROVE Goal
    <2>1. PICK done \in SUBSET purge.seen :
             /\ size' = size - Accounted(done)
             /\ stored' = stored \ done /\ meta' = Forget(done)
      BY <1>6a DEF EvictFileCut
    <2>2. done \in SUBSET Keys /\ drifted' = drifted
      BY <1>6a DEF EvictFileCut, TypeInv, TypeOK
    <2> QED
      BY <1>2, <2>1, <2>2 DEF Accounted
  <1>6b. ASSUME NEW r \in Requests, CacheFileCut(r) PROVE FALSE
    BY <1>6b DEF CacheFileCut
  <1>7. ASSUME NEW r \in Requests,
               \/ ReadMetadata(r) \/ GetBinary(r) \/ AcquireStampedeLock(r) \/ WaitForCache(r)
               \/ FetchFromOrigin(r) \/ ReadPreviousSize(r) \/ CheckSize(r) \/ TouchLru(r)
               \/ ReleaseStampedeLock(r) \/ FillFails(r)
        PROVE  UNCHANGED <<stored, meta, size, drifted>>
    BY <1>7 DEF ReadMetadata, GetBinary, AcquireStampedeLock, WaitForCache, FetchFromOrigin,
                ReadPreviousSize, CheckSize, TouchLru, ReleaseStampedeLock, FillFails, cache
  <1>8. ASSUME NEW k \in Keys, NEW r,
               Download(r, k) \/ Replicate(r, k) \/ LockExpires(k)
        PROVE  UNCHANGED <<stored, meta, size, drifted>>
    BY <1>8 DEF Download, Replicate, LockExpires, cache
  <1>9. ASSUME NEW f \in Files, RemoveFile(f) \/ Invalidate(f) \/ ReadKeys(f)
        PROVE  UNCHANGED <<stored, meta, size, drifted>>
    BY <1>9 DEF RemoveFile, Invalidate, ReadKeys, cache
  <1>10. ASSUME Crash \/ UNCHANGED vars PROVE UNCHANGED <<stored, meta, size, drifted>>
    BY <1>10 DEF Crash, vars, cache
  <1> QED
    BY <1>1, <1>3, <1>4, <1>5, <1>6, <1>6a, <1>6b, <1>7, <1>8, <1>9, <1>10 DEF Next, Step

LEMMA AccountedInit == Init => AccountedInv
  <1> SUFFICES ASSUME Init PROVE AccountedInv
    OBVIOUS
  <1>1. size = Total(stored, Size)
    BY NothingIsEmpty DEF Init
  <1> QED
    BY <1>1 DEF Init, AccountedInv, SizeAccounted, MetadataIsTrue

\* cache:size is the sum of the cached bytes at every moment, whatever their sizes and
\* the sizes declared for them and however many requests overlap, unless a fill with a
\* false declared size or a changed previous size, a cut pipeline, or a reset of a cache
\* that is not empty made it wrong; it goes down by the metadata, which is true as long.
THEOREM CounterIsSum == Spec => []SizeAccounted
  <1>1. AccountedInv => SizeAccounted
    BY DEF AccountedInv
  <1> QED
    BY <1>1, AccountedInit, AccountedNext, TypeInvHolds, PTL DEF Spec

Enforcer(r) == \/ At(r, "check") \/ At(r, "reset")
               \/ At(r, "evict") /\ req[r].num >= size - MaxCacheSize

LEMMA EnforcingNext == TypeInv /\ Enforcing /\ [Next]_vars => Enforcing'
  <1> SUFFICES ASSUME TypeInv, Enforcing, [Next]_vars,
                      ~cutShort', size' > MaxCacheSize
               PROVE  \E r \in Requests : Enforcer(r)'
    BY DEF Enforcing, Enforcer, At
  <1> USE CacheAssumption
  <1>0. size \in Int /\ req \in [Requests -> GoodReq] /\ req \in [Requests -> ReqType]
    BY DEF TypeInv, TypeOK, ReqType
  <1>0a. ~cutShort /\ size > MaxCacheSize => \E r \in Requests : Enforcer(r)
    BY DEF Enforcing, Enforcer
  \* Whoever is not the one that steps goes on enforcing when the size does not grow.
  <1>0b. ASSUME NEW r \in Requests, StepsTo(r) \/ Takes(r), ~cutShort,
                size' \in Int, size' <= size
         PROVE  \/ Enforcer(r)
                \/ \E w \in Requests : Enforcer(w)'
    <2>1. PICK w \in Requests : Enforcer(w)
      BY <1>0, <1>0a, <1>0b
    <2>2. CASE w # r
      <3>1. req'[w] = req[w]
        BY <1>0, <1>0b, <2>2 DEF StepsTo, Takes
      <3>2. req[w].num \in Int
        BY <1>0 DEF ReqType
      <3>3. Enforcer(w)'
        BY <1>0, <1>0b, <2>1, <3>1, <3>2 DEF Enforcer, At
      <3> QED
        BY <3>3
    <2> QED
      BY <2>1, <2>2
  \* A step that is not one of the eviction's.
  <1>1. ASSUME NEW r \in Requests, StepsTo(r) \/ Takes(r), UNCHANGED <<size, cutShort>>,
               ~Enforcer(r)
        PROVE  \E w \in Requests : Enforcer(w)'
    BY <1>0, <1>0b, <1>1
  <1>2. ASSUME NEW k \in Keys, NEW r \in Requests, Download(r, k) \/ Replicate(r, k)
        PROVE  \E w \in Requests : Enforcer(w)'
    <2>1. StepsTo(r)
      <3>1. Size[k] \in Nat /\ 0 \in Nat /\ {"meta", "fill"} \subseteq Pcs \ {"idle", "release"}
        BY StrlenType DEF Pcs
      <3>2. CASE Download(r, k)
        BY <1>0, <3>1, <3>2, BeginSteps DEF Download
      <3>3. CASE Replicate(r, k)
        BY <1>0, <3>1, <3>3, BeginSteps DEF Replicate
      <3> QED
        BY <1>2, <3>2, <3>3
    <2>2. ~Enforcer(r) /\ UNCHANGED <<size, cutShort>>
      BY <1>2 DEF Download, Replicate, Enforcer, At, cache
    <2> QED
      BY <1>1, <2>1, <2>2
  <1>3. ASSUME NEW r \in Requests, Step(r) \/ FillFails(r) \/ CacheFileCut(r)
        PROVE  \E w \in Requests : Enforcer(w)'
    <2>0. StepsTo(r) \/ Takes(r)
      BY <1>3, StepsAre
    <2>1. CASE ReadMetadata(r) \/ GetBinary(r) \/ AcquireStampedeLock(r) \/ WaitForCache(r)
               \/ FetchFromOrigin(r) \/ ReadPreviousSize(r) \/ TouchLru(r)
               \/ ReleaseStampedeLock(r)
      <3>1. ~Enforcer(r) /\ UNCHANGED <<size, cutShort>>
        BY <2>1 DEF ReadMetadata, GetBinary, AcquireStampedeLock, WaitForCache, FetchFromOrigin,
                    ReadPreviousSize, TouchLru, ReleaseStampedeLock, Enforcer, At, cache
      <3> QED
        BY <1>1, <2>0, <3>1
    <2>2. CASE CacheFile(r)
      <3>1. req'[r].pc = "check"
        BY <1>0, <2>2 DEF CacheFile, ReqType
      <3> QED
        BY <3>1 DEF Enforcer, At
    <2>3. CASE CheckSize(r)
      <3>1. size' = size /\ OverLimit(size)
        BY <1>0, <2>3 DEF CheckSize, cache, OverLimit
      <3>2. req' = [req EXCEPT ![r] = [req[r] EXCEPT !.pc = "evict", !.num = size - MaxCacheSize]]
        BY <2>3, <3>1 DEF CheckSize
      <3>3. req'[r].pc = "evict" /\ req'[r].num = size - MaxCacheSize
        BY <1>0, <3>2 DEF ReqType
      <3> QED
        BY <1>0, <3>1, <3>3 DEF Enforcer, At
    <2>4. CASE EvictOldest(r)
      <3>1. Freed \in Nat /\ size' = size - Freed /\ req[r].num \in Int /\ req[r].pc = "evict"
            /\ ~cutShort
        BY <1>0, <2>4, OldestIsKnown DEF EvictOldest, ReqType, At
      <3>2. CASE req' = [req EXCEPT ![r] = [@ EXCEPT !.pc = "reset", !.num = 0]]
        <4>1. req'[r].pc = "reset"
          BY <1>0, <3>2 DEF ReqType
        <4> QED
          BY <4>1 DEF Enforcer, At
      <3>3. CASE ~Enforcer(r)
        BY <1>0, <1>0b, <2>0, <3>1, <3>3
      <3>4. CASE Enforcer(r) /\ req' = [req EXCEPT ![r].num = @ - Freed]
        <4>1. req'[r].pc = "evict" /\ req'[r].num = req[r].num - Freed
          BY <1>0, <3>1, <3>4 DEF ReqType
        <4>2. req[r].num >= size - MaxCacheSize
          BY <3>1, <3>4 DEF Enforcer, At
        <4> QED
          BY <1>0, <3>1, <4>1, <4>2 DEF Enforcer, At
      <3>5. CASE Enforcer(r) /\ req[r].num <= Freed
        <4>1. req[r].num >= size - MaxCacheSize
          BY <3>1, <3>5 DEF Enforcer, At
        <4> QED
          BY <1>0, <3>1, <3>5, <4>1
      <3> QED
        BY <2>4, <3>2, <3>3, <3>4, <3>5 DEF EvictOldest
    <2>5. CASE ResetSize(r)
      BY <2>5 DEF ResetSize
    <2>6. CASE FillFails(r)
      BY <2>6 DEF FillFails
    <2>7. CASE CacheFileCut(r)
      BY <2>7 DEF CacheFileCut
    <2> QED
      BY <1>3, <2>1, <2>2, <2>3, <2>4, <2>5, <2>6, <2>7 DEF Step
  <1>4. ASSUME UNCHANGED <<req, cutShort>>, size' \in Int, size' <= size
        PROVE  \E w \in Requests : Enforcer(w)'
    <2>1. PICK w \in Requests : Enforcer(w)
      BY <1>0, <1>0a, <1>4
    <2>2. req[w].num \in Int
      BY <1>0 DEF ReqType
    <2>3. Enforcer(w)'
      BY <1>0, <1>4, <2>1, <2>2 DEF Enforcer, At
    <2> QED
      BY <2>3
  <1>5. ASSUME EvictFile \/ EvictFileCut PROVE \E w \in Requests : Enforcer(w)'
    <2>1. PICK S \in SUBSET purge.seen : size' = size - Total(S, meta)
      BY <1>5 DEF EvictFile, EvictFileCut, Accounted
    <2>2. Total(S, meta) \in Nat
      BY Amounts DEF TypeInv, TypeOK
    <2>3. size' \in Int /\ size' <= size /\ UNCHANGED <<req, cutShort>>
      BY <1>0, <1>5, <2>1, <2>2 DEF EvictFile, EvictFileCut
    <2> QED
      BY <1>4, <2>3
  <1>6. ASSUME UNCHANGED <<req, size, cutShort>>
        PROVE \E w \in Requests : Enforcer(w)'
    BY <1>0, <1>4, <1>6
  <1>7. ASSUME NEW k \in Keys, LockExpires(k) PROVE UNCHANGED <<req, size, cutShort>>
    BY <1>7 DEF LockExpires, cache
  <1>8. ASSUME NEW f \in Files, RemoveFile(f) \/ Invalidate(f) \/ ReadKeys(f)
        PROVE  UNCHANGED <<req, size, cutShort>>
    BY <1>8 DEF RemoveFile, Invalidate, ReadKeys, cache
  <1>9. ASSUME UNCHANGED vars PROVE UNCHANGED <<req, size, cutShort>>
    BY <1>9 DEF vars
  <1>10. ~Crash
    BY DEF Crash
  <1> QED
    BY <1>2, <1>3, <1>5, <1>6, <1>7, <1>8, <1>9, <1>10 DEF Next, Requests

\* Whenever cache:size is above MAX_CACHE_SIZE a fill is under way that will still look
\* at it, or an eviction that has at least the excess left to free, whatever others add,
\* evict or invalidate meanwhile, and whether or not cache:size is right.
THEOREM SomeoneEnforces == Spec => []Enforcing
  <1>1. Init => Enforcing
    BY CacheAssumption DEF Init, Enforcing
  <1> QED
    BY <1>1, TypeInvHolds, EnforcingNext, PTL DEF Spec

\* Each fill enforces MAX_CACHE_SIZE by a size it read earlier, while others fill and
\* evict: when all have ended the bytes of the cached objects are within the limit all
\* the same, unless a fill was cut short or cache:size was made wrong: by a declared size
\* that is not the length of the bytes, a stale read, a cut pipeline or a reset.
THEOREM LimitEnforced == Spec => []WithinLimit
  <1>1. TypeInv /\ SizeAccounted /\ Enforcing => WithinLimit
    <2> SUFFICES ASSUME TypeInv, SizeAccounted, Enforcing, Quiet, ~drifted, ~cutShort
                 PROVE  Total(stored, Size) <= MaxCacheSize
      BY DEF WithinLimit
    <2>1. size = Total(stored, Size) /\ size \in Int
      BY DEF SizeAccounted, TypeInv, TypeOK
    <2>2. ~(size > MaxCacheSize)
      BY DEF Enforcing, Quiet, At
    <2> QED
      BY <2>1, <2>2, CacheAssumption
  <1> QED
    BY <1>1, TypeInvHolds, CounterIsSum, SomeoneEnforces, PTL

-----------------------------------------------------------------------------
(* The stampede lock is a lease.                                           *)

Claim == [r \in Requests |-> IF req[r].held THEN req[r].key ELSE None]

LEMMA StepsAbandon ==
  ASSUME TypeInv, NEW r \in Requests, StepsTo(r), UNCHANGED lock
  PROVE  Lease!Abandon
  <1>1. req \in [Requests -> GoodReq]
    BY DEF TypeInv
  <1>2. PICK q \in GoodReq : req' = [req EXCEPT ![r] = q] /\ Keeps(q, r)
    BY DEF StepsTo
  <1>3. q.held \in BOOLEAN
    BY DEF GoodReq, ReqType
  <1> DEFINE S == IF q.held THEN {} ELSE {r}
  <1>4. S \in SUBSET Requests
    OBVIOUS
  <1>5. \A o \in Requests : Claim'[o] = IF o \in S THEN None ELSE Claim[o]
    <2> TAKE o \in Requests
    <2>1. CASE o = r
      BY <1>1, <1>2, <1>3, <2>1 DEF Claim, Keeps
    <2>2. CASE o # r
      BY <1>1, <1>2, <2>2 DEF Claim
    <2> QED
      BY <2>1, <2>2
  <1>6. Claim' = [o \in Requests |-> IF o \in S THEN None ELSE Claim[o]]
    BY <1>5 DEF Claim
  <1> HIDE DEF S
  <1> QED
    BY <1>4, <1>6 DEF Lease!Abandon, Claim

LEMMA StepLease == TypeInv /\ [Next]_vars => [Lease!Next]_(Lease!lease)
  <1> SUFFICES ASSUME TypeInv, [Next]_vars
               PROVE  Lease!Next \/ UNCHANGED <<lock, Claim>>
    BY DEF Lease!lease, Claim
  <1>0. req \in [Requests -> GoodReq] /\ lock \in [Keys -> Requests \cup {None}]
    BY DEF TypeInv, TypeOK
  <1>1. ASSUME NEW k \in Keys, NEW r \in Requests, Download(r, k) \/ Replicate(r, k)
        PROVE  Lease!Next
    <2>0. Size[k] \in Nat /\ 0 \in Nat /\ {"meta", "fill"} \subseteq Pcs \ {"idle", "release"}
      BY StrlenType DEF Pcs
    <2>1. StepsTo(r) /\ UNCHANGED lock
      <3>1. CASE Download(r, k)
        BY <1>0, <2>0, <3>1, BeginSteps DEF Download
      <3>2. CASE Replicate(r, k)
        BY <1>0, <2>0, <3>2, BeginSteps DEF Replicate
      <3> QED
        BY <1>1, <3>1, <3>2
    <2> QED
      BY <2>1, StepsAbandon DEF Lease!Next
  <1>2. ASSUME NEW r \in Requests, Step(r) \/ FillFails(r) \/ CacheFileCut(r)
        PROVE  Lease!Next
    <2>1. CASE Takes(r)
      <3> DEFINE q == [req[r] EXCEPT !.pc = "fetch", !.held = TRUE]
      <3>1. q.held /\ q.key = req[r].key /\ req' = [req EXCEPT ![r] = q]
            /\ req[r].key \in Keys /\ ~req[r].held
        BY <1>0, <2>1, TakesGood
      <3> HIDE DEF q
      <3>2. PICK k \in Keys : k = req[r].key
        BY <3>1
      <3>3. Claim[r] = None /\ Claim' = [Claim EXCEPT ![r] = k]
        BY <1>0, <3>1, <3>2 DEF Claim
      <3>4. lock[k] = None /\ lock' = [lock EXCEPT ![k] = r]
        BY <2>1, <3>2 DEF Takes
      <3>5. Lease!Acquire(r, k)
        BY <3>3, <3>4 DEF Lease!Acquire, Claim
      <3> QED
        BY <3>5 DEF Lease!Next
    <2>2. CASE StepsTo(r) /\ UNCHANGED lock
      BY <2>2, StepsAbandon DEF Lease!Next
    <2>3. CASE ReleaseStampedeLock(r)
      <3> DEFINE k == req[r].key
      <3>1. req[r].held /\ k \in Keys
        BY <1>0, <2>3 DEF ReleaseStampedeLock, At, GoodReq, Sound
      <3>2. Claim[r] = k /\ k # None
        BY <3>1, CacheAssumption DEF Claim
      <3>3. Claim' = [Claim EXCEPT ![r] = None]
        BY <1>0, <2>3, IdleIsGood DEF ReleaseStampedeLock, End, Claim
      <3>4. lock' = [j \in Keys |-> IF j = Claim[r] /\ lock[j] = r THEN None ELSE lock[j]]
        BY <1>0, <2>3, <3>1, <3>2 DEF ReleaseStampedeLock
      <3>5. Lease!Release(r)
        BY <3>2, <3>3, <3>4 DEF Lease!Release, Claim
      <3> QED
        BY <3>5 DEF Lease!Next
    \* The lock is taken and the reply is lost.
    <2>3a. CASE /\ At(r, "lock") \/ At(r, "relock")
                /\ lock[req[r].key] = None /\ lock' = [lock EXCEPT ![req[r].key] = r] /\ End(r)
      <3>1. PICK k \in Keys : k = req[r].key
        BY <1>0, <2>3a DEF At, GoodReq, Sound
      <3>2. Claim' = [Claim EXCEPT ![r] = None]
        BY <1>0, <2>3a, IdleIsGood DEF End, Claim
      <3>3. Lease!Mistake(r, k)
        BY <2>3a, <3>1, <3>2 DEF Lease!Mistake, Claim
      <3> QED
        BY <3>3 DEF Lease!Next
    <2>4. StepsTo(r) \/ Takes(r)
      BY <1>2, StepsAre
    <2>5. \/ Takes(r) \/ ReleaseStampedeLock(r) \/ UNCHANGED lock
          \/ /\ At(r, "lock") \/ At(r, "relock")
             /\ lock[req[r].key] = None /\ lock' = [lock EXCEPT ![req[r].key] = r] /\ End(r)
      BY <1>2 DEF Step, ReadMetadata, GetBinary, TouchLru, AcquireStampedeLock, WaitForCache,
                  FetchFromOrigin, ReadPreviousSize, CacheFile, CheckSize, EvictOldest, ResetSize,
                  FillFails, CacheFileCut, Takes
    <2> QED
      BY <2>1, <2>2, <2>3, <2>3a, <2>4, <2>5
  <1>3. ASSUME NEW k \in Keys, LockExpires(k) PROVE Lease!Next
    <2>1. Lease!Expire(k)
      BY <1>3 DEF LockExpires, Lease!Expire
    <2> QED
      BY <2>1 DEF Lease!Next
  <1>4. ASSUME Crash PROVE Lease!Next
    <2>1. PICK S \in SUBSET Requests : req' = [r \in Requests |-> IF r \in S THEN Idle ELSE req[r]]
      BY <1>4 DEF Crash
    <2>1a. Claim' = [o \in Requests |-> IF o \in S THEN None ELSE Claim[o]]
      BY <2>1, IdleIsGood DEF Claim
    <2>2. Lease!Abandon
      BY <1>4, <2>1a DEF Crash, Lease!Abandon, Claim
    <2> QED
      BY <2>2 DEF Lease!Next
  <1>5. ASSUME NEW f \in Files, RemoveFile(f) \/ Invalidate(f) \/ ReadKeys(f)
        PROVE  UNCHANGED <<lock, Claim>>
    BY <1>5 DEF RemoveFile, Invalidate, ReadKeys, Claim
  <1>6. ASSUME EvictFile \/ EvictFileCut \/ UNCHANGED vars PROVE UNCHANGED <<lock, Claim>>
    BY <1>6 DEF EvictFile, EvictFileCut, vars, Claim
  <1> QED
    BY <1>1, <1>2, <1>3, <1>4, <1>5, <1>6 DEF Next, Requests

\* The stampede lock implements a lease for any number of requests and keys: it is
\* taken only when it is free, and a request whose lease has run out, or that was
\* killed, never frees the lock of whoever holds it by then.
THEOREM LockIsLease == Spec => ImplementsLease
  <1>1. Init => Lease!Init
    <2> SUFFICES ASSUME Init PROVE Lease!Init
      OBVIOUS
    <2>1. [r \in Requests |-> IF req[r].held THEN req[r].key ELSE None]
            = [r \in Requests |-> None]
      BY IdleIsGood DEF Init
    <2> QED
      BY <2>1 DEF Init, Lease!Init
  <1> QED
    BY <1>1, TypeInvHolds, StepLease, PTL DEF Spec, ImplementsLease, Lease!Spec

-----------------------------------------------------------------------------
(* Requests move towards their end                                         *)

\* How far a request is from its end; the eviction loop stays at its place and is
\* measured by the bytes it is still to free.
Stage == [l \in Pcs |->
    CASE l = "idle" -> 0    [] l = "release" -> 1  [] l = "touch" -> 1   [] l = "reset" -> 2
      [] l = "evict" -> 3   [] l = "check" -> 4    [] l = "store" -> 5   [] l = "fill" -> 6
      [] l = "fetch" -> 7   [] l = "relock" -> 8   [] l = "again" -> 9   [] l = "wait" -> 10
      [] l = "lock" -> 11   [] l = "get" -> 12     [] OTHER -> 13]

Below(p, q) ==
    \/ Stage[p.pc] < Stage[q.pc]
    \/ p.pc = "evict" /\ q.pc = "evict" /\ p.num < q.num

\* The loop is entered, and entered again, only with bytes left to free.
ExcessIsPositive == \A r \in Requests : At(r, "evict") => req[r].num > 0

\* Whatever happens to a request that is under way brings it nearer to its end, and
\* its own steps never leave it where it is.
RequestAdvances(r) ==
    ~At(r, "idle") /\ (Step(r) \/ req'[r] # req[r]) => Below(req'[r], req[r])

LEMMA StageValues ==
  /\ Stage["idle"] = 0 /\ Stage["release"] = 1 /\ Stage["touch"] = 1 /\ Stage["reset"] = 2
  /\ Stage["evict"] = 3 /\ Stage["check"] = 4 /\ Stage["store"] = 5 /\ Stage["fill"] = 6
  /\ Stage["fetch"] = 7 /\ Stage["relock"] = 8 /\ Stage["again"] = 9 /\ Stage["wait"] = 10
  /\ Stage["lock"] = 11 /\ Stage["get"] = 12 /\ Stage["meta"] = 13
  BY DEF Stage, Pcs

\* A step of a request changes no other, ends nearer to the end, and leaves the loop
\* of the eviction when nothing is left to free.
LEMMA StepDescends ==
  ASSUME TypeInv, ExcessIsPositive, NEW r \in Requests,
         Step(r) \/ FillFails(r) \/ CacheFileCut(r)
  PROVE  /\ Below(req'[r], req[r])
         /\ req'[r].pc = "evict" => req'[r].num > 0
         /\ \A s \in Requests \ {r} : req'[s] = req[s]
  <1>0. req \in [Requests -> GoodReq] /\ req[r] \in ReqType /\ size \in Int
    BY DEF TypeInv, TypeOK, GoodReq
  <1>1. ASSUME NEW l \in Pcs, Goto(r, l)
        PROVE  req'[r].pc = l /\ \A s \in Requests \ {r} : req'[s] = req[s]
    BY <1>0, <1>1 DEF Goto, ReqType
  <1>2. ASSUME End(r)
        PROVE  req'[r].pc = "idle" /\ \A s \in Requests \ {r} : req'[s] = req[s]
    BY <1>0, <1>2, IdleIsGood DEF End
  <1>3. ASSUME FinishFill(r)
        PROVE  /\ req'[r].pc \in {"idle", "release"}
               /\ \A s \in Requests \ {r} : req'[s] = req[s]
    BY <1>0, <1>3, IdleIsGood DEF FinishFill, ReqType
  <1>4. CASE ReadMetadata(r)
    <2>1. CASE End(r)
      BY <1>4, <2>1, <1>2, StageValues DEF ReadMetadata, At, Below
    <2>2. CASE \E n \in KnownSizes(req[r].key) :
                   req' = [req EXCEPT ![r] = [@ EXCEPT !.pc = "get", !.says = n]]
      <3>1. req'[r].pc = "get" /\ \A s \in Requests \ {r} : req'[s] = req[s]
        <4>1. PICK n \in KnownSizes(req[r].key) :
                   req' = [req EXCEPT ![r] = [req[r] EXCEPT !.pc = "get", !.says = n]]
          BY <2>2
        <4> QED
          BY <4>1, <1>0 DEF ReqType
      <3>2. req[r].pc = "meta"
        BY <1>4 DEF ReadMetadata, At
      <3> QED
        BY <3>1, <3>2, StageValues DEF Below
    <2> QED
      BY <1>4, <2>1, <2>2 DEF ReadMetadata
  <1>5. CASE GetBinary(r)
    BY <1>5, <1>1, StageValues DEF GetBinary, At, Below, Pcs
  <1>6. CASE TouchLru(r)
    BY <1>6, <1>2, StageValues DEF TouchLru, At, Below, Pcs
  <1>7. CASE AcquireStampedeLock(r)
    <2>1. CASE Goto(r, "wait") /\ At(r, "lock")
      BY <2>1, <1>1, StageValues DEF At, Below, Pcs
    <2>2. CASE Goto(r, "fetch")
      BY <1>7, <2>2, <1>1, StageValues DEF AcquireStampedeLock, At, Below, Pcs
    <2>3. CASE req' = [req EXCEPT ![r] = [@ EXCEPT !.pc = "fetch", !.held = TRUE]]
      <3>1. req'[r].pc = "fetch" /\ \A s \in Requests \ {r} : req'[s] = req[s]
        BY <2>3, <1>0 DEF ReqType
      <3> QED
        BY <1>7, <3>1, StageValues DEF AcquireStampedeLock, At, Below
    <2>4. CASE End(r)
      BY <1>7, <2>4, <1>2, StageValues DEF AcquireStampedeLock, At, Below
    <2> QED
      BY <1>7, <2>1, <2>2, <2>3, <2>4 DEF AcquireStampedeLock
  <1>8. CASE WaitForCache(r)
    BY <1>8, <1>1, StageValues DEF WaitForCache, At, Below, Pcs
  <1>9. CASE FetchFromOrigin(r)
    BY <1>9, <1>1, <1>2, <1>3, StageValues DEF FetchFromOrigin, At, Below, Pcs
  <1>10. CASE ReadPreviousSize(r)
    <2>1. req'[r].pc = "store" /\ \A s \in Requests \ {r} : req'[s] = req[s]
      BY <1>10, <1>0 DEF ReadPreviousSize, ReqType
    <2> QED
      BY <1>10, <2>1, StageValues DEF ReadPreviousSize, At, Below
  <1>11. CASE CacheFile(r)
    <2>1. req'[r].pc = "check" /\ \A s \in Requests \ {r} : req'[s] = req[s]
      BY <1>11, <1>0 DEF CacheFile, ReqType
    <2> QED
      BY <1>11, <2>1, StageValues DEF CacheFile, At, Below
  <1>12. CASE CheckSize(r)
    <2>1. CASE FinishFill(r)
      BY <1>12, <2>1, <1>3, StageValues DEF CheckSize, At, Below
    <2>2. CASE /\ OverLimit(size)
               /\ req' = [req EXCEPT ![r] = [@ EXCEPT !.pc = "evict", !.num = size - MaxCacheSize]]
      <3>1. /\ req'[r].pc = "evict" /\ req'[r].num = size - MaxCacheSize
            /\ \A s \in Requests \ {r} : req'[s] = req[s]
        BY <2>2, <1>0 DEF ReqType
      <3>2. size - MaxCacheSize > 0
        BY <2>2, <1>0, CacheAssumption DEF OverLimit
      <3> QED
        BY <1>12, <3>1, <3>2, StageValues DEF CheckSize, At, Below
    <2> QED
      BY <1>12, <2>1, <2>2 DEF CheckSize
  <1>13. CASE EvictOldest(r)
    <2>1. CASE req' = [req EXCEPT ![r] = [@ EXCEPT !.pc = "reset", !.num = 0]]
      <3>1. req'[r].pc = "reset" /\ \A s \in Requests \ {r} : req'[s] = req[s]
        BY <2>1, <1>0 DEF ReqType
      <3> QED
        BY <1>13, <3>1, StageValues DEF EvictOldest, At, Below
    <2>2. CASE FinishFill(r)
      BY <1>13, <2>2, <1>3, StageValues DEF EvictOldest, At, Below
    <2>3. CASE Freed > 0 /\ req[r].num > Freed /\ req' = [req EXCEPT ![r].num = @ - Freed]
      <3>1. Freed \in Nat /\ req[r].num \in Int
        BY <1>0, OldestIsKnown DEF ReqType
      <3>2. /\ req'[r].pc = req[r].pc /\ req'[r].num = req[r].num - Freed
            /\ \A s \in Requests \ {r} : req'[s] = req[s]
        BY <2>3, <1>0 DEF ReqType
      <3>3. req'[r].num > 0 /\ req'[r].num < req[r].num
        BY <2>3, <3>1, <3>2
      <3> QED
        BY <1>13, <3>2, <3>3 DEF EvictOldest, At, Below
    <2> QED
      BY <1>13, <2>1, <2>2, <2>3 DEF EvictOldest
  <1>14. CASE ResetSize(r)
    BY <1>14, <1>3, StageValues DEF ResetSize, At, Below
  <1>15. CASE ReleaseStampedeLock(r)
    BY <1>15, <1>2, StageValues DEF ReleaseStampedeLock, At, Below
  <1>16. CASE FillFails(r)
    BY <1>16, <1>3, StageValues DEF FillFails, Below
  <1>17. CASE CacheFileCut(r)
    BY <1>17, <1>3, StageValues DEF CacheFileCut, At, Below
  <1> QED
    BY <1>4, <1>5, <1>6, <1>7, <1>8, <1>9, <1>10, <1>11, <1>12, <1>13, <1>14, <1>15, <1>16,
       <1>17 DEF Step

LEMMA RequestsDescend ==
  TypeInv /\ ExcessIsPositive /\ [Next]_vars =>
      ExcessIsPositive' /\ \A r \in Requests : RequestAdvances(r)
  <1> SUFFICES ASSUME TypeInv, ExcessIsPositive, [Next]_vars
               PROVE  ExcessIsPositive' /\ \A r \in Requests : RequestAdvances(r)
    OBVIOUS
  <1>0. req \in [Requests -> GoodReq]
    BY DEF TypeInv
  <1>a. \A r \in Requests : Step(r) => Below(req'[r], req[r])
    BY StepDescends
  \* A new request starts from idle, a crash and the rest are shared by all requests.
  <1>1. ASSUME NEW k \in Keys, NEW r \in Requests, Download(r, k) \/ Replicate(r, k)
        PROVE  /\ At(r, "idle") /\ req'[r].pc # "evict"
               /\ \A s \in Requests \ {r} : req'[s] = req[s]
    BY <1>0, <1>1 DEF Download, Replicate, Idle
  <1>2. ASSUME NEW r \in Requests, Step(r) \/ FillFails(r) \/ CacheFileCut(r)
        PROVE  /\ Below(req'[r], req[r])
               /\ req'[r].pc = "evict" => req'[r].num > 0
               /\ \A s \in Requests \ {r} : req'[s] = req[s]
    BY <1>2, StepDescends
  <1>3. CASE Crash
    <2>1. \A r \in Requests : req'[r].pc = "idle" \/ req'[r] = req[r]
      BY <1>3, IdleIsGood DEF Crash
    <2>2. \A r \in Requests : ~At(r, "idle") /\ req'[r].pc = "idle"
                                  => Stage[req'[r].pc] < Stage[req[r].pc]
      BY <1>0, StageValues DEF At, GoodReq, ReqType, Pcs
    <2> QED
      BY <2>1, <2>2, <1>a DEF ExcessIsPositive, RequestAdvances, Below, At
  <1>4. CASE UNCHANGED req
    BY <1>4, <1>a DEF ExcessIsPositive, RequestAdvances, At
  <1>5. CASE \E k \in Keys : \/ \E r \in Readers : Download(r, k)
                             \/ \E r \in Workers : Replicate(r, k)
    <2>1. PICK r \in Requests : /\ At(r, "idle") /\ req'[r].pc # "evict"
                                /\ \A s \in Requests \ {r} : req'[s] = req[s]
      BY <1>5, <1>1 DEF Requests
    <2> QED
      BY <2>1, <1>a DEF ExcessIsPositive, RequestAdvances, At
  <1>6. CASE \E r \in Requests : Step(r) \/ FillFails(r) \/ CacheFileCut(r)
    <2>1. PICK r \in Requests : /\ Below(req'[r], req[r])
                                /\ req'[r].pc = "evict" => req'[r].num > 0
                                /\ \A s \in Requests \ {r} : req'[s] = req[s]
      BY <1>6, <1>2
    <2> QED
      BY <2>1, <1>a DEF ExcessIsPositive, RequestAdvances, At
  <1>7. \/ UNCHANGED req \/ Crash
        \/ \E k \in Keys : \/ \E r \in Readers : Download(r, k)
                           \/ \E r \in Workers : Replicate(r, k)
        \/ \E r \in Requests : Step(r) \/ FillFails(r) \/ CacheFileCut(r)
    BY DEF Next, vars, LockExpires, RemoveFile, Invalidate, ReadKeys, EvictFile, EvictFileCut
  <1> QED
    BY <1>3, <1>4, <1>5, <1>6, <1>7

\* Every step of a download or of a fill brings it nearer to its end, for any number
\* of requests and any value of cache:size: waiting for another's fill happens once,
\* and the eviction loop frees bytes whenever it goes round again.
THEOREM RequestsAdvance ==
  Spec => []ExcessIsPositive /\ [][\A r \in Requests : RequestAdvances(r)]_vars
  <1>1. Init => ExcessIsPositive
    BY DEF Init, ExcessIsPositive, At, Idle
  <1>2. TypeInv /\ ExcessIsPositive /\ [Next]_vars => ExcessIsPositive'
    BY RequestsDescend
  <1>3. TypeInv /\ ExcessIsPositive /\ [Next]_vars
            => [\A r \in Requests : RequestAdvances(r)]_vars
    BY RequestsDescend
  <1> QED
    BY <1>1, <1>2, <1>3, TypeInvHolds, PTL DEF Spec
=============================================================================
