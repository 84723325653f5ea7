-------------------------- MODULE RateLimitProofs --------------------------
(***************************************************************************)
(* What holds of RateLimit for any number of requests under way, guards on *)
(* a route, failures and any limit.                                        *)
(***************************************************************************)
EXTENDS RateLimit, FiniteSetTheorems, TLAPS

PassType == [pc : {"out", "incr", "expire", "admitted", "refused"}, guard : Instances]

-----------------------------------------------------------------------------
(* Facts about finite sets                                                 *)

\* A budget of L + |R| of which k is spent and B may still spend: it holds when less
\* is spent and fewer may spend, when one of B has spent one, and as long as no more
\* than L is spent.
LEMMA BudgetKept ==
  ASSUME NEW R, IsFiniteSet(R), NEW B \in SUBSET R, NEW A \in SUBSET B,
         NEW k \in Nat, NEW m \in Nat, NEW L \in Nat, m <= k,
         k + Cardinality(B) <= L + Cardinality(R)
  PROVE  m + Cardinality(A) <= L + Cardinality(R)
  <1>1. IsFiniteSet(B)
    BY FS_Subset
  <1>2. Cardinality(A) <= Cardinality(B) /\ IsFiniteSet(A)
    BY <1>1, FS_Subset
  <1>3. Cardinality(A) \in Nat /\ Cardinality(B) \in Nat /\ Cardinality(R) \in Nat
    BY <1>1, <1>2, FS_CardinalityType
  <1>4. \A a, b, c \in Nat : a <= b /\ k + b <= L + c => m + a <= L + c
    OBVIOUS
  <1> QED
    BY <1>2, <1>3, <1>4

LEMMA BudgetSpent ==
  ASSUME NEW R, IsFiniteSet(R), NEW B \in SUBSET R, NEW b \in B, NEW A \in SUBSET (B \ {b}),
         NEW k \in Nat, NEW L \in Nat,
         k + Cardinality(B) <= L + Cardinality(R)
  PROVE  k + 1 + Cardinality(A) <= L + Cardinality(R)
  <1>1. IsFiniteSet(B)
    BY FS_Subset
  <1>2. IsFiniteSet(B \ {b}) /\ Cardinality(B \ {b}) = Cardinality(B) - 1
    BY <1>1, FS_RemoveElement
  <1>3. Cardinality(A) <= Cardinality(B \ {b}) /\ IsFiniteSet(A)
    BY <1>2, FS_Subset
  <1>4. Cardinality(A) \in Nat /\ Cardinality(B) \in Nat /\ Cardinality(R) \in Nat
    BY <1>1, <1>3, FS_CardinalityType
  <1>5. \A a, n, c \in Nat : a <= n - 1 /\ k + n <= L + c => k + 1 + a <= L + c
    OBVIOUS
  <1> QED
    BY <1>2, <1>3, <1>4, <1>5

LEMMA BudgetFresh ==
  ASSUME NEW R, IsFiniteSet(R), NEW A \in SUBSET R, NEW m \in Nat, NEW L \in Nat, m <= L
  PROVE  m + Cardinality(A) <= L + Cardinality(R)
  <1>1. Cardinality(A) <= Cardinality(R) /\ IsFiniteSet(A)
    BY FS_Subset
  <1>2. Cardinality(A) \in Nat /\ Cardinality(R) \in Nat
    BY <1>1, FS_CardinalityType
  <1>3. \A a, c \in Nat : a <= c => m + a <= L + c
    OBVIOUS
  <1> QED
    BY <1>1, <1>2, <1>3

-----------------------------------------------------------------------------
(* Types                                                                   *)

\* The requests that guard g may still count in its memory.
Before(g) ==
    {r \in Requests : pass[r].pc \in {"incr", "expire"} /\ pass[r].guard <= g}

\* Why the memory of a guard stays bounded although a request checks the bound only
\* when it arrives: each request under way adds at most one to it.
MemoryBounded ==
    \A g \in Instances :
        memory[g] + Cardinality(Before(g)) <= Limit + Cardinality(Requests)

Typed ==
    /\ count \in Nat /\ ttl \in BOOLEAN /\ arrived \in Nat /\ stranded \in BOOLEAN
    /\ memory \in [Instances -> Nat]
    /\ pass \in [Requests -> PassType]
    /\ counted \in SUBSET Requests /\ faults \in 0 .. MaxFaults

TypeInv == Typed /\ MemoryBounded

LEMMA TypeInvType == TypeInv => TypeOK
  <1> SUFFICES ASSUME TypeInv PROVE memory \in [Instances -> 0 .. Limit + Cardinality(Requests)]
    BY DEF TypeInv, Typed, TypeOK, PassType
  <1>1. ASSUME NEW g \in Instances PROVE memory[g] \in 0 .. Limit + Cardinality(Requests)
    <2>1. Before(g) \subseteq Requests
      BY DEF Before
    <2>2. IsFiniteSet(Before(g))
      BY <2>1, LimitAssumption, FS_Subset
    <2>3. Cardinality(Before(g)) \in Nat /\ Cardinality(Requests) \in Nat
      BY <2>2, LimitAssumption, FS_CardinalityType
    <2>4. memory[g] \in Nat /\ memory[g] + Cardinality(Before(g)) <= Limit + Cardinality(Requests)
      BY DEF TypeInv, Typed, MemoryBounded
    <2>5. \A m, b, c \in Nat : m + b <= Limit + c => m \in 0 .. Limit + c
      BY LimitAssumption
    <2> QED
      BY <2>3, <2>4, <2>5
  <1> QED
    BY <1>1 DEF TypeInv, Typed

\* The verdict of a guard: where the request goes.
LEMMA JudgeEffect ==
  ASSUME Typed, NEW r \in Requests, NEW n, Judge(r, n)
  PROVE  /\ pass' \in [Requests -> PassType]
         /\ \A q \in Requests \ {r} : pass'[q] = pass[q]
         /\ \/ pass'[r].pc = "refused" /\ Exceeds(n)
            \/ pass'[r].pc = "admitted" /\ ~Exceeds(n)
            \/ /\ pass'[r].pc = "incr" /\ pass'[r].guard = pass[r].guard + 1 /\ ~Exceeds(n)
  <1>1. PICK g \in Instances : g = pass[r].guard
    BY DEF Typed, PassType
  <1>g. Guards \in Nat \ {0} /\ g \in Nat /\ 1 <= g /\ g <= Guards /\ 1 \in Instances
    BY LimitAssumption DEF Instances
  <1>2. CASE Exceeds(n)
    <2>1. pass' = [pass EXCEPT ![r] = [pc |-> "refused", guard |-> 1]]
      BY <1>2 DEF Judge
    <2>2. [pc |-> "refused", guard |-> 1] \in PassType
      BY <1>g DEF PassType
    <2> QED
      BY <1>2, <2>1, <2>2 DEF Typed
  <1>3. CASE ~Exceeds(n) /\ ~LastGuard(g)
    <2>1. pass' = [pass EXCEPT ![r] = [pc |-> "incr", guard |-> g + 1]]
      BY <1>1, <1>3 DEF Judge
    <2>2. g + 1 \in Instances
      BY <1>3, <1>g DEF LastGuard, Instances
    <2>3. [pc |-> "incr", guard |-> g + 1] \in PassType
      BY <2>2 DEF PassType
    <2> QED
      BY <1>1, <1>3, <2>1, <2>3 DEF Typed
  <1>4. CASE ~Exceeds(n) /\ LastGuard(g)
    <2>1. pass' = [pass EXCEPT ![r] = [pc |-> "admitted", guard |-> 1]]
      BY <1>1, <1>4 DEF Judge
    <2>2. [pc |-> "admitted", guard |-> 1] \in PassType
      BY <1>g DEF PassType
    <2> QED
      BY <1>4, <2>1, <2>2 DEF Typed
  <1> QED
    BY <1>2, <1>3, <1>4

\* After its verdict a request has left the guard it was at.
LEMMA JudgeBefore ==
  ASSUME Typed, NEW r \in Requests, NEW n, Judge(r, n), NEW g \in Instances,
         pass[r].pc \in {"incr", "expire"}
  PROVE  /\ Before(g)' \subseteq Before(g)
         /\ g = pass[r].guard => r \in Before(g) /\ Before(g)' \subseteq Before(g) \ {r}
  <1>1. pass[r].guard \in Nat /\ g \in Nat
    BY LimitAssumption DEF Typed, PassType, Instances
  <1> QED
    BY <1>1, JudgeEffect DEF Before

\* The memory bound when nobody spends, and when one request does.
LEMMA MemoryKept ==
  ASSUME TypeInv, memory' \in [Instances -> Nat],
         \A g \in Instances :
            \/ memory'[g] <= Limit /\ Before(g)' \subseteq Requests
            \/ memory'[g] <= memory[g] /\ Before(g)' \subseteq Before(g)
            \/ /\ memory'[g] = memory[g] + 1
               /\ \E r \in Before(g) : Before(g)' \subseteq Before(g) \ {r}
  PROVE  MemoryBounded'
  <1> SUFFICES ASSUME NEW g \in Instances
               PROVE  memory'[g] + Cardinality(Before(g)') <= Limit + Cardinality(Requests)
    BY DEF MemoryBounded
  <1>0. PICK B \in SUBSET Requests : B = Before(g)
    BY DEF Before
  <1>1. PICK A \in SUBSET Requests : A = Before(g)'
    BY <1>0
  <1>2. PICK k \in Nat : k = memory[g]
    BY DEF TypeInv, Typed
  <1>3. PICK m \in Nat : m = memory'[g]
    OBVIOUS
  <1>4. k + Cardinality(B) <= Limit + Cardinality(Requests)
    BY <1>0, <1>2 DEF TypeInv, MemoryBounded
  <1>a. IsFiniteSet(Requests) /\ Limit \in Nat
    BY LimitAssumption
  <1>5. CASE m <= Limit
    <2>1. m + Cardinality(A) <= Limit + Cardinality(Requests)
      BY <1>a, <1>5, BudgetFresh
    <2> QED
      BY <1>1, <1>3, <2>1
  <1>6. CASE m <= k /\ A \subseteq B
    <2>1. m + Cardinality(A) <= Limit + Cardinality(Requests)
      BY <1>a, <1>4, <1>6, BudgetKept
    <2> QED
      BY <1>1, <1>3, <2>1
  <1>7. ASSUME m = k + 1, NEW r \in B, A \subseteq B \ {r}
        PROVE  memory'[g] + Cardinality(Before(g)') <= Limit + Cardinality(Requests)
    <2>1. k + 1 + Cardinality(A) <= Limit + Cardinality(Requests)
      BY <1>a, <1>4, <1>7, BudgetSpent
    <2> QED
      BY <1>1, <1>3, <1>7, <2>1
  <1> QED
    BY <1>0, <1>1, <1>2, <1>3, <1>5, <1>6, <1>7

\* Memory and requests stay as they are.
LEMMA MemoryQuiet ==
  ASSUME TypeInv, UNCHANGED memory, \A g \in Instances : Before(g)' \subseteq Before(g)
  PROVE  MemoryBounded' /\ memory' \in [Instances -> Nat]
  <1>1. memory' \in [Instances -> Nat] /\ \A g \in Instances : memory'[g] <= memory[g]
    BY DEF TypeInv, Typed
  <1> QED
    BY <1>1, MemoryKept

LEMMA CountsType ==
  ASSUME Typed, NEW r \in Requests, Counts(r)
  PROVE  count' \in Nat /\ arrived' \in Nat /\ counted' \in SUBSET Requests
  BY DEF Typed, Counts

LEMMA TypeInvNext == TypeInv /\ [Next]_vars => TypeInv'
  <1> SUFFICES ASSUME TypeInv, [Next]_vars PROVE TypeInv'
    OBVIOUS
  <1>t. Typed
    BY DEF TypeInv
  <1>g. 1 \in Instances
    BY LimitAssumption DEF Instances
  <1>1. ASSUME NEW r \in Requests, Arrive(r) PROVE TypeInv'
    <2>1. pass' = [pass EXCEPT ![r] = [pc |-> "incr", guard |-> 1]]
      BY <1>1 DEF Arrive
    <2>2. [pc |-> "incr", guard |-> 1] \in PassType
      BY <1>g DEF PassType
    <2>3. Typed'
      BY <1>1, <1>t, <2>1, <2>2 DEF Typed, Arrive
    <2>4. memory' = memory /\ \A g \in Instances : memory[g] <= Limit
      BY <1>1 DEF Arrive, Countable
    <2>5. \A g \in Instances : Before(g)' \subseteq Requests
      BY DEF Before
    <2>6. MemoryBounded'
      BY <1>t, <2>4, <2>5, MemoryKept DEF Typed
    <2> QED
      BY <2>3, <2>6 DEF TypeInv
  <1>2. ASSUME NEW r \in Requests, Incr(r) PROVE TypeInv'
    <2>0. Counts(r) /\ UNCHANGED <<ttl, memory, stranded, faults>> /\ pass[r].pc = "incr"
      BY <1>2 DEF Incr, In
    <2>1. pass' \in [Requests -> PassType] /\ \A g \in Instances : Before(g)' \subseteq Before(g)
      <3>1. CASE Judge(r, count + 1)
        BY <1>t, <2>0, <3>1, JudgeEffect, JudgeBefore
      <3>2. CASE pass' = [pass EXCEPT ![r].pc = "expire"]
        <4>1. pass'[r].guard = pass[r].guard /\ \A q \in Requests \ {r} : pass'[q] = pass[q]
          BY <1>t, <3>2 DEF Typed, PassType
        <4>2. pass' \in [Requests -> PassType]
          BY <1>t, <3>2 DEF Typed, PassType
        <4> QED
          BY <2>0, <4>1, <4>2 DEF Before
      <3> QED
        BY <1>2, <3>1, <3>2 DEF Incr
    <2>2. MemoryBounded' /\ memory' \in [Instances -> Nat]
      BY <2>0, <2>1, MemoryQuiet
    <2>3. Typed'
      BY <1>t, <2>0, <2>1, <2>2, CountsType DEF Typed
    <2> QED
      BY <2>2, <2>3 DEF TypeInv
  <1>3. ASSUME NEW r \in Requests, Expire(r) PROVE TypeInv'
    <2>0. UNCHANGED <<count, memory, counted, arrived, stranded, faults>> /\ ttl' = TRUE
          /\ Judge(r, 1) /\ pass[r].pc = "expire"
      BY <1>3 DEF Expire, In
    <2>1. pass' \in [Requests -> PassType] /\ \A g \in Instances : Before(g)' \subseteq Before(g)
      BY <1>t, <2>0, JudgeEffect, JudgeBefore
    <2>2. MemoryBounded' /\ memory' \in [Instances -> Nat]
      BY <2>0, <2>1, MemoryQuiet
    <2>3. Typed'
      BY <1>t, <2>0, <2>1, <2>2 DEF Typed
    <2> QED
      BY <2>2, <2>3 DEF TypeInv
  <1>4. ASSUME NEW r \in Requests, RedisFails(r) PROVE TypeInv'
    <2>0. PICK k \in Instances : k = pass[r].guard
      BY <1>t DEF Typed, PassType
    <2>1. /\ memory' = [memory EXCEPT ![k] = @ + 1] /\ Judge(r, memory[k] + 1)
          /\ faults < MaxFaults /\ faults' = faults + 1
      BY <1>4, <2>0 DEF RedisFails, CheckMemory
    <2>2. pass[r].pc \in {"incr", "expire"}
      BY <1>4 DEF RedisFails, In
    <2>3. /\ memory' \in [Instances -> Nat] /\ memory'[k] = memory[k] + 1
          /\ \A g \in Instances \ {k} : memory'[g] <= memory[g]
      BY <1>t, <2>1 DEF Typed
    <2>4. \A g \in Instances : Before(g)' \subseteq Before(g)
      BY <1>t, <2>1, <2>2, JudgeBefore
    <2>5. r \in Before(k) /\ Before(k)' \subseteq Before(k) \ {r}
      BY <1>t, <2>0, <2>1, <2>2, JudgeBefore
    <2>6. MemoryBounded'
      BY <2>3, <2>4, <2>5, MemoryKept
    <2>7. pass' \in [Requests -> PassType]
      BY <1>t, <2>1, JudgeEffect
    <2>8. count' \in Nat /\ arrived' \in Nat /\ counted' \in SUBSET Requests
      <3>1. CASE Counts(r)
        BY <1>t, <3>1, CountsType
      <3>2. CASE UNCHANGED <<count, counted, arrived>>
        BY <1>t, <3>2 DEF Typed
      <3> QED
        BY <1>4, <3>1, <3>2 DEF RedisFails
    <2>9. ttl' \in BOOLEAN /\ stranded' \in BOOLEAN
      BY <1>4, <1>t DEF RedisFails, Typed
    <2>10. faults' \in 0 .. MaxFaults
      BY <1>t, <2>1, LimitAssumption DEF Typed
    <2> QED
      BY <2>3, <2>6, <2>7, <2>8, <2>9, <2>10 DEF TypeInv, Typed
  <1>5. ASSUME NEW r \in Requests, Leave(r) PROVE TypeInv'
    <2>1. pass' = [pass EXCEPT ![r] = Outside] /\ UNCHANGED memory
      BY <1>5 DEF Leave
    <2>2. Outside \in PassType
      BY <1>g DEF PassType, Outside
    <2>3. Typed'
      BY <1>5, <1>t, <2>1, <2>2 DEF Typed, Leave
    <2>4. \A g \in Instances : Before(g)' \subseteq Before(g)
      BY <1>t, <2>1 DEF Typed, Before, Outside
    <2> QED
      BY <2>1, <2>3, <2>4, MemoryQuiet DEF TypeInv
  <1>6. ASSUME NEW g \in Instances, MemoryExpires(g) PROVE TypeInv'
    <2>1. memory' = [memory EXCEPT ![g] = 0] /\ UNCHANGED pass
      BY <1>6 DEF MemoryExpires
    <2>2. memory' \in [Instances -> Nat] /\ \A k \in Instances : memory'[k] <= memory[k]
      BY <1>t, <2>1 DEF Typed
    <2>3. Typed'
      BY <1>6, <1>t, <2>2 DEF Typed, MemoryExpires
    <2>4. \A k \in Instances : Before(k)' \subseteq Before(k)
      BY <2>1 DEF Before
    <2> QED
      BY <2>2, <2>3, <2>4, MemoryKept DEF TypeInv
  <1>7. CASE WindowEnds \/ UNCHANGED vars
    <2>1. UNCHANGED <<memory, pass>>
      BY <1>7 DEF WindowEnds, vars
    <2>2. \A k \in Instances : Before(k)' \subseteq Before(k)
      BY <2>1 DEF Before
    <2>3. ttl' \in BOOLEAN /\ stranded' \in BOOLEAN
      BY <1>7, <1>t DEF Typed, WindowEnds, vars
    <2>4. count' \in Nat /\ arrived' \in Nat /\ counted' \in SUBSET Requests /\ faults' = faults
      BY <1>7, <1>t DEF Typed, WindowEnds, vars
    <2>5. Typed'
      BY <1>t, <2>1, <2>3, <2>4 DEF Typed
    <2> QED
      BY <2>1, <2>2, <2>5, MemoryQuiet DEF TypeInv
  <1>8. CASE Crash
    <2>1. /\ memory' = [g \in Instances |-> 0] /\ pass' = [r \in Requests |-> Outside]
          /\ UNCHANGED <<count, ttl, arrived>> /\ counted' = {}
          /\ faults < MaxFaults /\ faults' = faults + 1
      BY <1>8 DEF Crash
    <2>2. Outside \in PassType
      BY <1>g DEF PassType, Outside
    <2>3. memory' \in [Instances -> Nat] /\ pass' \in [Requests -> PassType]
      BY <2>1, <2>2
    <2>4. faults' \in 0 .. MaxFaults
      BY <1>t, <2>1, LimitAssumption DEF Typed
    <2>5. stranded' \in BOOLEAN
      BY <1>8, <1>t DEF Crash, Typed
    <2>6. Typed'
      BY <1>t, <2>1, <2>3, <2>4, <2>5 DEF Typed
    <2>7. \A k \in Instances : memory'[k] <= Limit
      BY <2>1, LimitAssumption
    <2>8. \A k \in Instances : Before(k)' \subseteq Requests
      BY DEF Before
    <2>9. MemoryBounded'
      BY <2>3, <2>7, <2>8, MemoryKept
    <2> QED
      BY <2>6, <2>9 DEF TypeInv
  <1> QED
    BY <1>1, <1>2, <1>3, <1>4, <1>5, <1>6, <1>7, <1>8 DEF Next, Step

LEMMA TypeInvInit == Init => TypeInv
  <1> SUFFICES ASSUME Init PROVE TypeInv
    OBVIOUS
  <1>1. Outside \in PassType
    BY LimitAssumption DEF PassType, Outside, Instances
  <1>2. Typed
    <2>1. ttl \in BOOLEAN /\ stranded \in BOOLEAN
      BY DEF Init
    <2>2. 0 \in 0 .. MaxFaults
      BY LimitAssumption
    <2> QED
      BY <1>1, <2>1, <2>2 DEF Init, Typed
  <1>3. ASSUME NEW g \in Instances
        PROVE  memory[g] + Cardinality(Before(g)) <= Limit + Cardinality(Requests)
    <2>1. Before(g) \subseteq Requests /\ memory[g] = 0 /\ 0 <= Limit /\ Limit \in Nat
      BY LimitAssumption DEF Before, Init
    <2>2. 0 + Cardinality(Before(g)) <= Limit + Cardinality(Requests)
      BY <2>1, LimitAssumption, BudgetFresh
    <2> QED
      BY <2>1, <2>2
  <1> QED
    BY <1>2, <1>3 DEF TypeInv, MemoryBounded

LEMMA TypeInvAlways == Spec => []TypeInv
  BY TypeInvInit, TypeInvNext, PTL DEF Spec

\* The counter, the guard a request is at and the memory of every guard keep their
\* types: no request goes past the last guard of its route, and what the fallback of
\* a guard counts is bounded by the requests that were admitted to it.
THEOREM TypeCorrect == Spec => []TypeOK
  BY TypeInvAlways, TypeInvType, PTL

-----------------------------------------------------------------------------
(* What a client is granted                                                *)

\* The guards that a request which the counter knows has still ahead of it.
Ahead(r, g) ==
    \/ pass[r].pc = "incr" /\ g >= pass[r].guard
    \/ pass[r].pc = "expire" /\ g > pass[r].guard
Due == {d \in Requests \X Instances : d[1] \in counted /\ Ahead(d[1], d[2])}

\* Every request that was counted has brought one count for each guard it has passed:
\* together with what is still due they fill the share of the requests exactly, or
\* less if one was refused, failed over to memory or died on the way.
CountShared == count + Cardinality(Due) <= Guards * arrived

LEMMA DueFinite ==
  ASSUME NEW D \in SUBSET (Requests \X Instances)
  PROVE  IsFiniteSet(D) /\ Cardinality(D) \in Nat
  <1>1. IsFiniteSet(Instances)
    <2>1. 1 \in Int /\ Guards \in Int
      BY LimitAssumption
    <2> QED
      BY <2>1, FS_Interval DEF Instances
  <1>2. IsFiniteSet(Requests \X Instances)
    BY <1>1, LimitAssumption, FS_Product
  <1>3. IsFiniteSet(D)
    BY <1>2, FS_Subset
  <1> QED
    BY <1>3, FS_CardinalityType

\* The guards after g: one less than there are.
LEMMA GuardsAfter ==
  ASSUME NEW r \in Requests, NEW g \in Instances
  PROVE  Cardinality({r} \X {k \in Instances : k > g}) <= Guards - 1
  <1> DEFINE All == {r} \X Instances
             After == {r} \X {k \in Instances : k > g}
  <1>1. All \in SUBSET (Requests \X Instances)
    OBVIOUS
  <1>2. IsFiniteSet(All)
    BY <1>1, DueFinite
  <1>3. Cardinality(All) = Guards
    <2>1. 1 \in Int /\ Guards \in Int /\ Guards >= 1
      BY LimitAssumption
    <2>2. IsFiniteSet(1 .. Guards) /\ Cardinality(1 .. Guards) = IF 1 > Guards THEN 0 ELSE Guards - 1 + 1
      BY <2>1, FS_Interval
    <2>3. Cardinality(1 .. Guards) = Guards
      BY <2>1, <2>2
    <2>4. IsFiniteSet({r}) /\ Cardinality({r}) = 1
      BY FS_Singleton
    <2>5. Cardinality({r} \X (1 .. Guards)) = Cardinality({r}) * Cardinality(1 .. Guards)
      BY <2>2, <2>4, FS_Product
    <2>6. Cardinality(All) = 1 * Guards
      BY <2>3, <2>4, <2>5 DEF Instances
    <2> QED
      BY <2>1, <2>6
  <1>4. <<r, g>> \in All /\ After \subseteq All \ {<<r, g>>}
    <2>1. g \in Nat
      BY LimitAssumption DEF Instances
    <2> QED
      BY <2>1
  <1>5. IsFiniteSet(All \ {<<r, g>>}) /\ Cardinality(All \ {<<r, g>>}) = Guards - 1
    BY <1>2, <1>3, <1>4, FS_RemoveElement
  <1>6. Cardinality(After) <= Cardinality(All \ {<<r, g>>})
    BY <1>4, <1>5, FS_Subset
  <1> QED
    BY <1>5, <1>6

\* Nothing is counted and nothing new is due.
LEMMA ShareKept ==
  ASSUME Typed, CountShared, UNCHANGED <<count, arrived>>, Due' \subseteq Due
  PROVE  CountShared'
  <1>1. PICK D \in SUBSET (Requests \X Instances) : D = Due
    BY DEF Due
  <1>2. PICK E \in SUBSET D : E = Due'
    BY <1>1
  <1>3. Cardinality(E) <= Cardinality(D)
    BY <1>1, DueFinite, FS_Subset
  <1>4. Cardinality(E) \in Nat /\ Cardinality(D) \in Nat
    BY <1>1, <1>2, DueFinite
  <1>5. PICK s \in Nat : s = Guards * arrived
    BY LimitAssumption DEF Typed
  <1>6. count \in Nat /\ count + Cardinality(D) <= s
    BY <1>1, <1>5 DEF Typed, CountShared
  <1>7. \A d, e \in Nat : e <= d /\ count + d <= s => count + e <= s
    BY <1>6
  <1>8. count + Cardinality(E) <= s
    BY <1>3, <1>4, <1>6, <1>7
  <1> QED
    BY <1>2, <1>5, <1>8 DEF CountShared

\* A request that was counted leaves the guard it was at.
LEMMA DueAfter ==
  ASSUME Typed, NEW r \in Requests, pass[r].pc \in {"incr", "expire"},
         \A q \in Requests \ {r} : pass'[q] = pass[q],
         \/ pass'[r].pc \in {"refused", "admitted"}
         \/ pass'[r].pc = "incr" /\ pass'[r].guard = pass[r].guard + 1
         \/ pass'[r].pc = "expire" /\ pass'[r].guard = pass[r].guard,
         counted' \in {counted, counted \cup {r}}
  PROVE  /\ counted' = counted => Due' \subseteq Due
         /\ Due' \subseteq (Due \ ({r} \X Instances))
                             \cup ({r} \X {k \in Instances : k > pass[r].guard})
  <1>0. PICK g \in Nat : g = pass[r].guard
    BY LimitAssumption DEF Typed, PassType, Instances
  <1>n. \A k \in Instances : k \in Nat
    BY LimitAssumption DEF Instances
  <1>1. ASSUME NEW k \in Instances, Ahead(r, k)'
        PROVE  k > g
    BY <1>0, <1>1, <1>n DEF Ahead
  <1>2. ASSUME NEW k \in Instances, k > g
        PROVE  Ahead(r, k)
    BY <1>0, <1>2, <1>n DEF Ahead
  <1>3. ASSUME NEW d \in Due', d[1] # r PROVE d \in Due
    BY <1>3 DEF Due, Ahead
  <1>4. ASSUME NEW d \in Due', d[1] = r
        PROVE  d \in {r} \X {k \in Instances : k > g}
    <2>1. d \in Requests \X Instances /\ Ahead(d[1], d[2])'
      BY DEF Due, Ahead
    <2>2. PICK k \in Instances : d = <<r, k>>
      BY <1>4, <2>1
    <2>3. k > g
      BY <1>1, <1>4, <2>1, <2>2 DEF Ahead
    <2> QED
      BY <2>2, <2>3
  <1>5. ASSUME counted' = counted, NEW d \in Due', d[1] = r PROVE d \in Due
    <2>1. d \in Requests \X Instances /\ r \in counted
      BY <1>5 DEF Due
    <2>2. PICK k \in Instances : d = <<r, k>> /\ k > g
      BY <1>4, <1>5
    <2>3. Ahead(r, k)
      BY <1>2, <2>2
    <2> QED
      BY <2>1, <2>2, <2>3 DEF Due
  <1>6. \A d \in Due : d \in Requests \X Instances
    BY DEF Due
  <1> QED
    BY <1>0, <1>3, <1>4, <1>5, <1>6

\* The counter counts a request at its guard: one that was due, or the first of the
\* share that its arrival in this window has brought.
LEMMA ShareCounted ==
  ASSUME Typed, CountShared, NEW r \in Requests, pass[r].pc = "incr", Counts(r),
         \A q \in Requests \ {r} : pass'[q] = pass[q],
         \/ pass'[r].pc \in {"refused", "admitted"}
         \/ pass'[r].pc = "incr" /\ pass'[r].guard = pass[r].guard + 1
         \/ pass'[r].pc = "expire" /\ pass'[r].guard = pass[r].guard
  PROVE  CountShared'
  <1>0. PICK g \in Instances : g = pass[r].guard
    BY DEF Typed, PassType
  <1>n. \A k \in Instances : k \in Nat
    BY LimitAssumption DEF Instances
  <1>c. count' = count + 1 /\ counted' = counted \cup {r} /\ count \in Nat /\ arrived \in Nat
    BY DEF Counts, Typed
  <1>1. PICK D \in SUBSET (Requests \X Instances) : D = Due
    BY DEF Due
  <1>2. PICK E \in SUBSET (Requests \X Instances) : E = Due'
    BY DEF Due
  <1>f. IsFiniteSet(D) /\ Cardinality(D) \in Nat /\ Cardinality(E) \in Nat
    BY <1>1, <1>2, DueFinite
  <1>a. E \subseteq (D \ ({r} \X Instances)) \cup ({r} \X {k \in Instances : k > g})
    BY <1>0, <1>1, <1>2, <1>c, DueAfter
  <1>s. PICK s \in Nat : s = Guards * arrived
    BY <1>c, LimitAssumption
  <1>3. count + Cardinality(D) <= s
    BY <1>1, <1>s DEF CountShared
  <1>4. CASE r \in counted
    <2>1. counted' = counted /\ arrived' = arrived
      BY <1>4, <1>c DEF Counts
    <2>2. E \subseteq D
      BY <1>1, <1>2, <2>1, DueAfter
    <2>3. <<r, g>> \in D
      BY <1>0, <1>1, <1>4, <1>n DEF Due, Ahead
    <2>4. <<r, g>> \notin E
      BY <1>a, <1>n
    <2>5. E \in SUBSET (D \ {<<r, g>>})
      BY <2>2, <2>4
    <2>6. IsFiniteSet(D \ {<<r, g>>}) /\ Cardinality(D \ {<<r, g>>}) = Cardinality(D) - 1
      BY <1>f, <2>3, FS_RemoveElement
    <2>7. Cardinality(E) <= Cardinality(D) - 1
      BY <2>5, <2>6, FS_Subset
    <2>8. \A d, e \in Nat : e <= d - 1 /\ count + d <= s => (count + 1) + e <= s
      BY <1>c
    <2>9. (count + 1) + Cardinality(E) <= s
      BY <1>3, <1>f, <2>7, <2>8
    <2> QED
      BY <1>2, <1>c, <1>s, <2>1, <2>9 DEF CountShared
  <1>5. CASE r \notin counted
    <2> DEFINE After == {r} \X {k \in Instances : k > g}
    <2>1. arrived' = arrived + 1
      BY <1>5 DEF Counts
    <2>2. E \in SUBSET (D \cup After)
      BY <1>a
    <2>3. After \in SUBSET (Requests \X Instances)
      OBVIOUS
    <2>4. IsFiniteSet(After) /\ Cardinality(After) \in Nat
      BY <2>3, DueFinite
    <2>5. Cardinality(After) <= Guards - 1
      BY GuardsAfter
    <2>6. /\ IsFiniteSet(D \cup After)
          /\ Cardinality(D \cup After) = Cardinality(D) + Cardinality(After) - Cardinality(D \cap After)
      BY <1>f, <2>4, FS_Union
    <2>7. Cardinality(D \cap After) \in Nat
      <3>1. D \cap After \in SUBSET (Requests \X Instances)
        OBVIOUS
      <3> QED
        BY <3>1, DueFinite
    <2>8. Cardinality(E) <= Cardinality(D \cup After)
      BY <2>2, <2>6, FS_Subset
    <2> HIDE DEF After
    <2>9. Guards * arrived' = s + Guards
      BY <1>c, <1>s, <2>1, LimitAssumption
    <2>10. \A d, a, x, e \in Nat : e <= d + a - x /\ a <= Guards - 1 /\ count + d <= s
                                     => (count + 1) + e <= s + Guards
      BY <1>c, LimitAssumption
    <2>11. (count + 1) + Cardinality(E) <= s + Guards
      BY <1>3, <1>f, <2>4, <2>5, <2>6, <2>7, <2>8, <2>10
    <2> QED
      BY <1>2, <1>c, <2>9, <2>11 DEF CountShared
  <1> QED
    BY <1>4, <1>5

LEMMA CountSharedNext == TypeInv /\ CountShared /\ [Next]_vars => CountShared'
  <1> SUFFICES ASSUME Typed, CountShared, [Next]_vars PROVE CountShared'
    BY DEF TypeInv
  <1>1. ASSUME NEW r \in Requests, Arrive(r) PROVE CountShared'
    <2>1. UNCHANGED <<count, arrived>> /\ counted' = counted \ {r}
          /\ pass' = [pass EXCEPT ![r] = [pc |-> "incr", guard |-> 1]]
      BY <1>1 DEF Arrive
    <2>2. \A q \in Requests \ {r} : pass'[q] = pass[q]
      BY <2>1 DEF Typed
    <2>3. Due' \subseteq Due
      BY <2>1, <2>2 DEF Due, Ahead
    <2> QED
      BY <2>1, <2>3, ShareKept
  <1>2. ASSUME NEW r \in Requests, Incr(r) PROVE CountShared'
    <2>0. pass[r].pc = "incr" /\ Counts(r)
      BY <1>2 DEF Incr, In
    <2>1. CASE Judge(r, count + 1)
      BY <2>0, <2>1, JudgeEffect, ShareCounted
    <2>2. CASE pass' = [pass EXCEPT ![r].pc = "expire"]
      <3>1. /\ pass'[r].pc = "expire" /\ pass'[r].guard = pass[r].guard
            /\ \A q \in Requests \ {r} : pass'[q] = pass[q]
        BY <2>2 DEF Typed, PassType
      <3> QED
        BY <2>0, <3>1, ShareCounted
    <2> QED
      BY <1>2, <2>1, <2>2 DEF Incr
  <1>3. ASSUME NEW r \in Requests, NEW n, Judge(r, n), pass[r].pc \in {"incr", "expire"},
               UNCHANGED <<count, arrived, counted>>
        PROVE  CountShared'
    <2>1. Due' \subseteq Due
      BY <1>3, JudgeEffect, DueAfter
    <2> QED
      BY <1>3, <2>1, ShareKept
  <1>4. ASSUME NEW r \in Requests, Expire(r) PROVE CountShared'
    BY <1>3, <1>4 DEF Expire, In
  <1>5. ASSUME NEW r \in Requests, RedisFails(r) PROVE CountShared'
    <2>1. PICK n : Judge(r, n)
      BY <1>5 DEF RedisFails, CheckMemory
    <2>2. CASE UNCHANGED <<count, arrived, counted>>
      <3>1. pass[r].pc \in {"incr", "expire"}
        BY <1>5 DEF RedisFails, In
      <3> QED
        BY <1>3, <2>1, <2>2, <3>1
    <2>3. CASE In(r, "incr") /\ Counts(r)
      BY <2>1, <2>3, JudgeEffect, ShareCounted DEF In
    <2> QED
      BY <1>5, <2>2, <2>3 DEF RedisFails
  <1>6. ASSUME NEW r \in Requests, Leave(r) PROVE CountShared'
    <2>1. UNCHANGED <<count, arrived>> /\ counted' = counted \ {r}
          /\ pass' = [pass EXCEPT ![r] = Outside]
      BY <1>6 DEF Leave
    <2>2. \A q \in Requests \ {r} : pass'[q] = pass[q]
      BY <2>1 DEF Typed
    <2>3. Due' \subseteq Due
      BY <2>1, <2>2 DEF Due, Ahead
    <2> QED
      BY <2>1, <2>3, ShareKept
  <1>7. CASE WindowEnds
    <2>1. count' = 0 /\ counted' = {} /\ arrived' = 0
      BY <1>7 DEF WindowEnds
    <2>2. Due' = {}
      BY <2>1 DEF Due
    <2>3. Cardinality(Due') = 0
      BY <2>2, FS_EmptySet
    <2> QED
      BY <2>1, <2>3, LimitAssumption DEF CountShared
  <1>8. CASE Crash
    <2>1. UNCHANGED <<count, arrived>> /\ counted' = {}
      BY <1>8 DEF Crash
    <2>2. Due' \subseteq Due
      BY <2>1 DEF Due
    <2> QED
      BY <2>1, <2>2, ShareKept
  <1>9. CASE UNCHANGED vars \/ \E g \in Instances : MemoryExpires(g)
    <2>1. UNCHANGED <<count, arrived, counted, pass>>
      BY <1>9 DEF vars, MemoryExpires
    <2>2. Due' \subseteq Due
      BY <2>1 DEF Due, Ahead
    <2> QED
      BY <2>1, <2>2, ShareKept
  <1> QED
    BY <1>1, <1>2, <1>4, <1>5, <1>6, <1>7, <1>8, <1>9 DEF Next, Step

LEMMA CountSharedAlways == Spec => []CountShared
  <1>1. Init => CountShared
    <2> SUFFICES ASSUME Init PROVE CountShared
      OBVIOUS
    <2>1. Due = {} /\ count = 0 /\ arrived = 0
      BY DEF Init, Due
    <2>2. Cardinality(Due) = 0
      BY <2>1, FS_EmptySet
    <2> QED
      BY <2>1, <2>2, LimitAssumption DEF CountShared
  <1> QED
    BY <1>1, CountSharedNext, TypeInvAlways, PTL DEF Spec

\* A guard answers 429 only when the requests of the window have used up the limit,
\* counting each once per guard of the route, or when the fallback of a guard has
\* counted beyond it: however requests interleave between incr and expire, and
\* whichever calls fail, are executed without an answer or are lost in a crash.
THEOREM ShareGranted == Spec => RefusedBeyondShare
  <1> DEFINE Justified ==
        \A r \in Requests :
          ~In(r, "refused") /\ pass'[r].pc = "refused" =>
              \/ Guards * arrived' > Limit
              \/ \E g \in Instances : memory'[g] > Limit
  <1>1. ASSUME TypeInv, CountShared, CountShared', TypeInv', [Next]_vars PROVE [Justified]_vars
    <2>t. Typed /\ Typed'
      BY <1>1 DEF TypeInv
    <2>n. count' \in Nat /\ Guards * arrived' \in Nat /\ Limit \in Nat \ {0}
      <3>1. count' \in Nat /\ arrived' \in Nat
        BY <2>t DEF Typed
      <3>2. Guards \in Nat /\ Limit \in Nat \ {0}
        BY LimitAssumption
      <3>3. \A a, b \in Nat : a * b \in Nat
        OBVIOUS
      <3>4. Guards * arrived' \in Nat
        BY <3>1, <3>2, <3>3
      <3> QED
        BY <3>1, <3>2, <3>4
    <2>c. count' <= Guards * arrived'
      <3>1. Due' \in SUBSET (Requests \X Instances)
        BY DEF Due
      <3>2. Cardinality(Due') \in Nat
        BY <3>1, DueFinite
      <3>3. count' + Cardinality(Due') <= Guards * arrived'
        BY <1>1 DEF CountShared
      <3> QED
        BY <2>n, <3>2, <3>3
    <2>1. ASSUME NEW r \in Requests, NEW n, Judge(r, n),
                 Exceeds(n) => \/ Guards * arrived' > Limit
                               \/ \E g \in Instances : memory'[g] > Limit
          PROVE  Justified
      BY <2>1, <2>t, JudgeEffect DEF In
    <2>2. ASSUME NEW r \in Requests, Incr(r) PROVE Justified
      <3>1. CASE Judge(r, count + 1)
        <4>1. count' = count + 1
          BY <2>2 DEF Incr, Counts
        <4>2. Exceeds(count + 1) => Guards * arrived' > Limit
          BY <2>c, <2>n, <4>1 DEF Exceeds
        <4> QED
          BY <2>1, <3>1, <4>2
      <3>2. CASE pass' = [pass EXCEPT ![r].pc = "expire"]
        BY <2>t, <3>2 DEF In, Typed, PassType
      <3> QED
        BY <2>2, <3>1, <3>2 DEF Incr
    <2>3. ASSUME NEW r \in Requests, Expire(r) PROVE Justified
      <3>1. ~Exceeds(1)
        BY <2>n DEF Exceeds
      <3> QED
        BY <2>1, <2>3, <3>1 DEF Expire
    <2>4. ASSUME NEW r \in Requests, RedisFails(r) PROVE Justified
      <3>1. PICK g \in Instances : g = pass[r].guard
        BY <2>t DEF Typed, PassType
      <3>2. memory' = [memory EXCEPT ![g] = @ + 1] /\ Judge(r, memory[g] + 1)
        BY <2>4, <3>1 DEF RedisFails, CheckMemory
      <3>3. memory'[g] = memory[g] + 1
        BY <2>t, <3>2 DEF Typed
      <3>4. Exceeds(memory[g] + 1) => memory'[g] > Limit
        BY <3>3 DEF Exceeds
      <3> QED
        BY <2>1, <3>2, <3>4
    <2>5. ASSUME NEW r \in Requests, Arrive(r) \/ Leave(r) PROVE Justified
      BY <2>5, <2>t DEF Arrive, Leave, Outside, In, Typed
    <2>6. CASE WindowEnds \/ \E g \in Instances : MemoryExpires(g)
      BY <2>6 DEF WindowEnds, MemoryExpires, In
    <2>7. CASE Crash
      BY <2>7 DEF Crash, Outside
    <2> QED
      BY <1>1, <2>2, <2>3, <2>4, <2>5, <2>6, <2>7 DEF Next, Step
  <1>2. TypeInv /\ CountShared /\ CountShared' /\ TypeInv' /\ [Next]_vars => [Justified]_vars
    BY <1>1
  <1> QED
    BY <1>2, TypeInvAlways, CountSharedAlways, PTL DEF Spec, RefusedBeyondShare

-----------------------------------------------------------------------------
(* The window has an end                                                   *)

\* A counter that exists has a time to live, or a request is about to give it one, or
\* the call that was to do so was lost: this is what CounterEnds rests on, and the
\* two calls incr and expire leave no other way to a counter that refuses for ever.
WindowHasEnd == count > 0 => ttl \/ stranded \/ \E r \in Requests : In(r, "expire")

LEMMA WindowHasEndNext == TypeInv /\ WindowHasEnd /\ [Next]_vars => WindowHasEnd'
  <1> SUFFICES ASSUME TypeInv, WindowHasEnd, [Next]_vars PROVE WindowHasEnd'
    OBVIOUS
  <1>t. Typed
    BY DEF TypeInv
  <1>n. count \in Nat /\ pass \in [Requests -> PassType]
    BY <1>t DEF Typed
  \* A request that is not at its expire moves on, and the counter was there before.
  <1>1. ASSUME NEW r \in Requests, ~In(r, "expire"), count > 0, UNCHANGED ttl,
               stranded => stranded',
               \A q \in Requests \ {r} : pass'[q] = pass[q]
        PROVE  WindowHasEnd'
    BY <1>1 DEF WindowHasEnd, In
  <1>2. ASSUME NEW r \in Requests, Incr(r) PROVE WindowHasEnd'
    <2>1. CASE StartsWindow(count + 1)
      BY <1>2, <1>n, <2>1 DEF Incr, WindowHasEnd, In, PassType
    <2>2. CASE ~StartsWindow(count + 1)
      <3>1. count > 0
        BY <1>n, <2>2 DEF StartsWindow
      <3>2. Judge(r, count + 1) /\ UNCHANGED <<ttl, stranded>> /\ ~In(r, "expire")
        BY <1>2, <2>2 DEF Incr, In
      <3>3. \A q \in Requests \ {r} : pass'[q] = pass[q]
        BY <1>t, <3>2, JudgeEffect
      <3> QED
        BY <1>1, <3>1, <3>2, <3>3
    <2> QED
      BY <2>1, <2>2
  <1>3. ASSUME NEW r \in Requests, Expire(r) PROVE WindowHasEnd'
    BY <1>3 DEF Expire, WindowHasEnd
  <1>4. ASSUME NEW r \in Requests, RedisFails(r) PROVE WindowHasEnd'
    <2>1. \A q \in Requests \ {r} : pass'[q] = pass[q]
      BY <1>t, <1>4, JudgeEffect DEF RedisFails, CheckMemory
    <2>2. CASE In(r, "incr") /\ UNCHANGED <<count, ttl, stranded>>
      BY <2>1, <2>2 DEF WindowHasEnd, In
    <2>3. CASE In(r, "incr") /\ Counts(r) /\ UNCHANGED ttl
               /\ stranded' = (stranded \/ StartsWindow(count + 1))
      <3>1. CASE count > 0
        BY <1>1, <2>1, <2>3, <3>1 DEF In
      <3>2. CASE ~(count > 0)
        <4>1. StartsWindow(count + 1)
          BY <1>n, <3>2 DEF StartsWindow
        <4>2. stranded'
          BY <2>3, <4>1, Zenon
        <4> QED
          BY <4>2 DEF WindowHasEnd
      <3> QED
        BY <3>1, <3>2
    <2>4. CASE stranded' = TRUE \/ ttl' = TRUE
      BY <2>4 DEF WindowHasEnd
    <2> QED
      BY <1>4, <2>2, <2>3, <2>4 DEF RedisFails
  <1>5. ASSUME NEW r \in Requests, Arrive(r) \/ Leave(r) PROVE WindowHasEnd'
    <2>1. UNCHANGED <<count, ttl, stranded>> /\ ~In(r, "expire")
      BY <1>5 DEF Arrive, Leave, In
    <2>2. \A q \in Requests \ {r} : pass'[q] = pass[q]
      BY <1>n, <1>5 DEF Arrive, Leave
    <2> QED
      BY <2>1, <2>2 DEF WindowHasEnd, In
  <1>6. CASE Crash
    BY <1>6 DEF Crash, WindowHasEnd
  <1>7. CASE WindowEnds
    BY <1>7 DEF WindowEnds, WindowHasEnd
  <1>8. CASE (\E g \in Instances : MemoryExpires(g)) \/ UNCHANGED vars
    BY <1>8 DEF MemoryExpires, vars, WindowHasEnd, In
  <1> QED
    BY <1>2, <1>3, <1>4, <1>5, <1>6, <1>7, <1>8 DEF Next, Step

\* The counter of a client never outlives its window for another reason than a call
\* or a process lost between incr and expire, however requests overlap in between.
THEOREM WindowCloses == Spec => []WindowHasEnd
  <1>1. Init => WindowHasEnd
    BY DEF Init, WindowHasEnd
  <1> QED
    BY <1>1, WindowHasEndNext, TypeInvAlways, PTL DEF Spec
=============================================================================
