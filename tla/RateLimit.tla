----------------------------- MODULE RateLimit -----------------------------
(***************************************************************************)
(* RateLimitGuard of the core service                                      *)
(* (apps/core/src/common/guards/rate-limit.guard.ts) for one route and one *)
(* client address, which share no counter with any other.                  *)
(*                                                                         *)
(* A request passes every guard of its route in turn.  A route of          *)
(* AuthController has two: the APP_GUARD of AppModule and the one of       *)
(* @UseGuards.  They are separate instances with separate memory stores,   *)
(* and they count under the same key in Redis.                             *)
(***************************************************************************)
EXTENDS Naturals, FiniteSets

CONSTANTS
    Requests,   \* requests under way at a time
    Guards,     \* instances of the guard on the route
    Limit,      \* @Throttle(limit, ttl)
    MaxFaults   \* bound on Redis errors and crashes

ASSUME LimitAssumption ==
    /\ Guards \in Nat \ {0} /\ Limit \in Nat \ {0} /\ MaxFaults \in Nat
    /\ IsFiniteSet(Requests)

VARIABLES
    count,     \* the counter in Redis, 0 when the key does not exist
    ttl,       \* the key has a time to live
    memory,    \* memoryStore of each guard: count of an unexpired record, or 0
    pass,      \* where each request is among the guards
    counted,   \* history: requests under way that the counter has counted
    arrived,   \* history: how many requests the counter has counted
    stranded,  \* history: a request died between incr and expire
    faults     \* errors and crashes so far

vars == <<count, ttl, memory, pass, counted, arrived, stranded, faults>>

Instances == 1 .. Guards
Outside == [pc |-> "out", guard |-> 1]

Init ==
    /\ count = 0 /\ ttl = FALSE
    /\ memory = [g \in Instances |-> 0]
    /\ pass = [r \in Requests |-> Outside]
    /\ counted = {} /\ arrived = 0 /\ stranded = FALSE /\ faults = 0

-----------------------------------------------------------------------------
In(r, label) == pass[r].pc = label
\* Bound: the counter is not driven further once it refuses.
Countable == count <= Limit /\ \A g \in Instances : memory[g] <= Limit

Arrive(r) ==
    /\ pass[r].pc \in {"out", "refused"} /\ Countable
    /\ pass' = [pass EXCEPT ![r] = [pc |-> "incr", guard |-> 1]]
    /\ counted' = counted \ {r}
    /\ UNCHANGED <<count, ttl, memory, arrived, stranded, faults>>

\* Mutant: the boundary is refused.
RefusesBoundary(n) == n >= Limit
Exceeds(n) == n > Limit

\* Mutant: one guard too many.
PastLast(g) == g > Guards
LastGuard(g) == g = Guards

\* The end of canActivate: 429, or the next guard, or the handler.
Judge(r, n) ==
    pass' = [pass EXCEPT ![r] =
                CASE Exceeds(n) -> [pc |-> "refused", guard |-> 1]
                  [] ~Exceeds(n) /\ ~LastGuard(@.guard) -> [pc |-> "incr", guard |-> @.guard + 1]
                  [] OTHER -> [pc |-> "admitted", guard |-> 1]]

\* checkMemory of the guard the request is at.
CheckMemory(r) ==
    LET g == pass[r].guard IN
    /\ memory' = [memory EXCEPT ![g] = @ + 1]
    /\ Judge(r, memory[g] + 1)

\* Mutant: the counter gets its time to live from the second request.
TimedLater(n) == n = 2
StartsWindow(n) == n = 1

Counts(r) ==
    /\ count' = count + 1
    /\ counted' = counted \cup {r}
    /\ arrived' = IF r \in counted THEN arrived ELSE arrived + 1

Incr(r) ==
    /\ In(r, "incr")
    /\ Counts(r)
    /\ IF StartsWindow(count + 1) THEN pass' = [pass EXCEPT ![r].pc = "expire"]
                                  ELSE Judge(r, count + 1)
    /\ UNCHANGED <<ttl, memory, stranded, faults>>

Expire(r) ==
    /\ In(r, "expire")
    /\ ttl' = TRUE
    /\ Judge(r, 1)
    /\ UNCHANGED <<count, memory, counted, arrived, stranded, faults>>

\* Redis is not ready or a call is rejected, before Redis has executed it or after:
\* the guard counts in its own memory.  A counter that was to get its time to live
\* now never does.
RedisFails(r) ==
    /\ faults < MaxFaults /\ faults' = faults + 1
    /\ CheckMemory(r)
    /\ \/ /\ In(r, "incr")
          /\ UNCHANGED <<count, ttl, counted, arrived, stranded>>
       \/ /\ In(r, "incr") /\ Counts(r)
          /\ stranded' = (stranded \/ StartsWindow(count + 1))
          /\ UNCHANGED ttl
       \/ /\ In(r, "expire") /\ stranded' = TRUE
          /\ UNCHANGED <<count, ttl, counted, arrived>>
       \/ /\ In(r, "expire") /\ ttl' = TRUE
          /\ UNCHANGED <<count, counted, arrived, stranded>>

\* The request goes on to its handler.
Leave(r) ==
    /\ In(r, "admitted")
    /\ pass' = [pass EXCEPT ![r] = Outside]
    /\ counted' = counted \ {r}
    /\ UNCHANGED <<count, ttl, memory, arrived, stranded, faults>>

\* Redis drops the key: the next request starts a window.
WindowEnds ==
    /\ ttl
    /\ count' = 0 /\ ttl' = FALSE /\ counted' = {} /\ arrived' = 0
    /\ UNCHANGED <<memory, pass, stranded, faults>>

MemoryExpires(g) ==
    /\ memory[g] > 0
    /\ memory' = [memory EXCEPT ![g] = 0]
    /\ UNCHANGED <<count, ttl, pass, counted, arrived, stranded, faults>>

\* The process is killed and restarted.
Crash ==
    /\ faults < MaxFaults /\ faults' = faults + 1
    /\ stranded' = (stranded \/ \E r \in Requests : In(r, "expire"))
    /\ memory' = [g \in Instances |-> 0]
    /\ pass' = [r \in Requests |-> Outside]
    /\ counted' = {}
    /\ UNCHANGED <<count, ttl, arrived>>

-----------------------------------------------------------------------------
Step(r) == Incr(r) \/ Expire(r)

Next ==
    \/ \E r \in Requests : Arrive(r) \/ Step(r) \/ RedisFails(r) \/ Leave(r)
    \/ \E g \in Instances : MemoryExpires(g)
    \/ WindowEnds \/ Crash

Spec == Init /\ [][Next]_vars

\* Every call of a guard settles, and Redis drops a key whose time has come.
FairSpec == Spec /\ WF_vars(WindowEnds) /\ \A r \in Requests : WF_vars(Step(r))

-----------------------------------------------------------------------------
(* Properties                                                              *)

\* The counter, the memory stores and the requests have their types.
TypeOK ==
    /\ count \in Nat /\ ttl \in BOOLEAN /\ arrived \in Nat /\ stranded \in BOOLEAN
    /\ memory \in [Instances -> 0 .. Limit + Cardinality(Requests)]
    /\ pass \in [Requests -> [pc : {"out", "incr", "expire", "admitted", "refused"},
                              guard : Instances]]
    /\ counted \in SUBSET Requests /\ faults \in 0 .. MaxFaults

\* A request is refused only when its share of the limit is used up: a request is
\* counted once by every guard of its route, so the limit of the decorator divided
\* by the number of guards is what a client is granted in every window.
RefusedBeyondShare ==
    [][\A r \in Requests :
          ~In(r, "refused") /\ pass'[r].pc = "refused" =>
              \/ Guards * arrived' > Limit
              \/ \E g \in Instances : memory'[g] > Limit]_vars

\* A counter comes to its end, so that a client that was refused is admitted again,
\* unless a request died between incr and expire: then nothing ever ends it.
CounterEnds ==
    count > 0 ~> (count = 0 \/ stranded)
=============================================================================
