----------------------------- MODULE LeaseLock -----------------------------
(***************************************************************************)
(* A lock per key that its holder loses when its lease runs out.  A holder *)
(* learns of that from nobody: it goes on as if it had the lock, and its   *)
(* release must then do nothing to whoever holds the lock by now.          *)
(***************************************************************************)
CONSTANTS Owners, Keys, None

VARIABLES
    holder,  \* who holds the lock of each key
    claim    \* the key whose lock each owner believes it holds

lease == <<holder, claim>>

Init ==
    /\ holder = [k \in Keys |-> None]
    /\ claim = [o \in Owners |-> None]

Acquire(o, k) ==
    /\ holder[k] = None /\ claim[o] = None
    /\ holder' = [holder EXCEPT ![k] = o]
    /\ claim' = [claim EXCEPT ![o] = k]

\* An owner takes the lock without learning of it.
Mistake(o, k) ==
    /\ holder[k] = None
    /\ holder' = [holder EXCEPT ![k] = o]
    /\ claim' = [claim EXCEPT ![o] = None]

\* Only the holder frees the lock.
Release(o) ==
    /\ claim[o] # None
    /\ claim' = [claim EXCEPT ![o] = None]
    /\ holder' = [k \in Keys |-> IF k = claim[o] /\ holder[k] = o THEN None ELSE holder[k]]

\* Owners forget the lock without releasing it.
Abandon ==
    /\ \E S \in SUBSET Owners : claim' = [o \in Owners |-> IF o \in S THEN None ELSE claim[o]]
    /\ UNCHANGED holder

Expire(k) ==
    /\ holder' = [holder EXCEPT ![k] = None]
    /\ UNCHANGED claim

Next ==
    \/ \E o \in Owners : Release(o) \/ \E k \in Keys : Acquire(o, k) \/ Mistake(o, k)
    \/ \E k \in Keys : Expire(k)
    \/ Abandon

Spec == Init /\ [][Next]_lease
=============================================================================
