--------------------------- MODULE RefreshTokens ---------------------------
(***************************************************************************)
(* Refresh tokens of one user: login, rotation and the revocation of a     *)
(* token family (apps/core/src/auth/auth.service.ts).                      *)
(*                                                                         *)
(* AuthService has one Redis connection and a handler waits for every      *)
(* reply, so each Redis call is one step and handlers overlap between      *)
(* them.  A pipeline runs as one step; when the connection fails, Redis    *)
(* has executed some first part of it, and the handler goes on either way  *)
(* (exec resolves with the errors among its results).  A jti is a number,  *)
(* given out in order; a family is named by the jti it began with.  The    *)
(* state 'active', which this version of the code never writes, is left    *)
(* out.                                                                    *)
(***************************************************************************)
EXTENDS Naturals, FiniteSets

CONSTANTS
    Requests,      \* requests in their handlers at a time
    MaxTokens,    \* bound on tokens
    MaxErrors     \* bound on Redis errors and crashes

ASSUME TokenAssumption == MaxTokens \in Nat /\ MaxErrors \in Nat

Jtis == 1 .. MaxTokens

VARIABLES
    token,     \* auth:refresh:{user}:{jti}
    family,    \* familyId the key of a jti holds or held, 0 before it is issued
    members,   \* auth:refreshfamily:{familyId}
    listed,    \* auth:refresh:user:{user}
    issued,    \* number of tokens generated so far
    req,       \* what each request is doing
    errors,    \* Redis errors and crashes so far
    raced,     \* history: families with a rotation whose token was no longer live,
               \* or that met a revocation of the family half-way
    broken,    \* history: families of a pipeline or revocation that was cut short
    revoked    \* history: families whose revocation has run to its end

vars == <<token, family, members, listed, issued, req, errors, raced, broken, revoked>>
redis == <<token, members, listed>>
history == <<raced, broken, revoked>>

Idle == [pc |-> "idle", jti |-> 0, fam |-> 0, todo |-> {}]

Init ==
    /\ token = [j \in Jtis |-> "none"] /\ family = [j \in Jtis |-> 0]
    /\ members = [f \in Jtis |-> {}] /\ listed = {}
    /\ issued = 0 /\ errors = 0
    /\ req = [r \in Requests |-> Idle]
    /\ raced = {} /\ broken = {} /\ revoked = {}

-----------------------------------------------------------------------------
At(r, label) == req[r].pc = label
End(r) == req' = [req EXCEPT ![r] = Idle]
Error == errors < MaxErrors /\ errors' = errors + 1
Revoking(f) == \E r \in Requests : req[r].pc \in {"del", "srem", "delFamily"} /\ req[r].fam = f

\* Mutant: sadd to the user's set only.
RegisterUser(j, f, n) ==
    /\ UNCHANGED members
    /\ listed' = IF n >= 4 THEN listed \cup {j} ELSE listed
    /\ issued' = issued + 1
    /\ family' = [family EXCEPT ![j] = f]
    /\ broken' = IF n < 4 THEN broken \cup {f} ELSE broken

\* The commands of a pipeline: what they leave when the first n have been executed.
\* Command 1 consumes the token that is rotated out (login has none), the others
\* register jti j in family f.
Register(j, f, n) ==
    /\ members' = IF n >= 3 THEN [members EXCEPT ![f] = @ \cup {j}] ELSE members
    /\ listed' = IF n >= 4 THEN listed \cup {j} ELSE listed
    /\ issued' = issued + 1
    /\ family' = [family EXCEPT ![j] = f]
    /\ broken' = IF n < 4 THEN broken \cup {f} ELSE broken

\* A whole pipeline, or what is left of it after an error.
Executed(n) == (n = 4 /\ UNCHANGED errors) \/ (n < 4 /\ Error)

\* Mutant: the state older versions wrote.
CreatedActive(n) == IF n >= 2 THEN "active" ELSE "none"
Created(n) == IF n >= 2 THEN "live" ELSE "none"

Login ==
    LET j == issued + 1 IN
    /\ issued < MaxTokens
    /\ \E n \in 1 .. 4 :
          /\ Executed(n)
          /\ token' = [token EXCEPT ![j] = Created(n)]
          /\ Register(j, j, n)
    /\ UNCHANGED <<req, raced, revoked>>

\* refreshToken with a token that was handed out and has not expired as a JWT.
Present(r, j) ==
    /\ At(r, "idle") /\ j <= issued
    /\ req' = [req EXCEPT ![r] = [Idle EXCEPT !.pc = "get", !.jti = j]]
    /\ UNCHANGED <<redis, family, issued, errors, history>>

\* A failed read and an unknown token are a 401; a consumed one revokes its family.
GetTokenState(r) ==
    LET j == req[r].jti IN
    /\ At(r, "get")
    /\ \/ /\ token[j] = "consumed"
          /\ req' = [req EXCEPT ![r] = [@ EXCEPT !.pc = "smembers", !.fam = family[j]]]
          /\ UNCHANGED errors
       \/ /\ token[j] = "live"
          /\ req' = [req EXCEPT ![r] = [@ EXCEPT !.pc = "rotate", !.fam = family[j]]]
          /\ UNCHANGED errors
       \/ token[j] = "none" /\ End(r) /\ UNCHANGED errors
       \/ Error /\ End(r)
    /\ UNCHANGED <<redis, family, issued, history>>

\* Mutant: the old token is left as it is.
KeepsOld(state, n) == state
Consumed(state, n) == IF n >= 1 THEN "consumed" ELSE state

\* The new tokens have been signed: the state read before is not read again.
Rotate(r) ==
    LET old == req[r].jti
        j == issued + 1
        f == req[r].fam
    IN
    /\ At(r, "rotate") /\ issued < MaxTokens
    /\ \E n \in 0 .. 4 :
          /\ Executed(n)
          /\ token' = [token EXCEPT ![old] = Consumed(@, n), ![j] = Created(n)]
          /\ Register(j, f, n)
    /\ raced' = IF token[old] = "live" /\ ~Revoking(f) THEN raced ELSE raced \cup {f}
    /\ End(r)
    /\ UNCHANGED revoked

-----------------------------------------------------------------------------
(* revokeFamily: a 401 follows whatever becomes of it.                     *)

Smembers(r) ==
    LET f == req[r].fam IN
    /\ At(r, "smembers")
    /\ \/ /\ members[f] # {}
          /\ req' = [req EXCEPT ![r] = [@ EXCEPT !.pc = "del", !.todo = members[f]]]
          /\ UNCHANGED errors
       \/ members[f] = {} /\ End(r) /\ UNCHANGED errors
       \/ Error /\ End(r)
    /\ UNCHANGED <<redis, family, issued, history>>

\* Mutant: the loop stops at the first member.
FirstOnly(todo, j) == {}
Remaining(todo, j) == todo \ {j}

DelToken(r) ==
    /\ At(r, "del")
    /\ \E j \in req[r].todo :
          /\ token' = [token EXCEPT ![j] = "none"]
          /\ req' = [req EXCEPT ![r] = [req[r] EXCEPT !.pc = "srem", !.jti = j,
                                                      !.todo = Remaining(req[r].todo, j)]]
    /\ UNCHANGED <<members, listed, family, issued, errors, history>>

SremToken(r) ==
    /\ At(r, "srem")
    /\ listed' = listed \ {req[r].jti}
    /\ req' = [req EXCEPT ![r].pc = IF req[r].todo = {} THEN "delFamily" ELSE "del"]
    /\ UNCHANGED <<token, members, family, issued, errors, history>>

DelFamily(r) ==
    /\ At(r, "delFamily")
    /\ members' = [members EXCEPT ![req[r].fam] = {}]
    /\ revoked' = revoked \cup {req[r].fam}
    /\ End(r)
    /\ UNCHANGED <<token, listed, family, issued, errors, raced, broken>>

\* The error is logged and the rest of the family stays as it is.
RevocationFails(r) ==
    /\ req[r].pc \in {"del", "srem", "delFamily"}
    /\ Error
    /\ broken' = broken \cup {req[r].fam}
    /\ End(r)
    /\ UNCHANGED <<redis, family, issued, raced, revoked>>

\* Seven days have passed since the key was written; the set of the family lives
\* at least as long as every key of it.
TokenExpires(j) ==
    /\ token[j] # "none"
    /\ token' = [token EXCEPT ![j] = "none"]
    /\ UNCHANGED <<members, listed, family, issued, req, errors, history>>

\* The process is killed and restarted.
Crash ==
    /\ Error
    /\ broken' = broken \cup {f \in Jtis : Revoking(f)}
    /\ req' = [r \in Requests |-> Idle]
    /\ UNCHANGED <<redis, family, issued, raced, revoked>>

-----------------------------------------------------------------------------
Step(r) ==
    \/ GetTokenState(r) \/ Rotate(r) \/ Smembers(r) \/ DelToken(r) \/ SremToken(r)
    \/ DelFamily(r) \/ RevocationFails(r)

Next ==
    \/ \E r \in Requests : Step(r) \/ \E j \in Jtis : Present(r, j)
    \/ \E j \in Jtis : TokenExpires(j)
    \/ Login \/ Crash

Spec == Init /\ [][Next]_vars

-----------------------------------------------------------------------------
(* Properties                                                              *)

\* The keys in Redis, the requests and the history have their types.
TypeOK ==
    /\ token \in [Jtis -> {"none", "live", "consumed"}]
    /\ family \in [Jtis -> 0 .. MaxTokens]
    /\ members \in [Jtis -> SUBSET Jtis] /\ listed \in SUBSET Jtis
    /\ issued \in 0 .. MaxTokens /\ errors \in 0 .. MaxErrors
    /\ req \in [Requests -> [pc : {"idle", "get", "rotate", "smembers", "del", "srem",
                                  "delFamily"},
                            jti : 0 .. MaxTokens, fam : 0 .. MaxTokens, todo : SUBSET Jtis]]
    /\ raced \in SUBSET Jtis /\ broken \in SUBSET Jtis /\ revoked \in SUBSET Jtis

LiveOf(f) == {j \in Jtis : family[j] = f /\ token[j] = "live"}
Undisturbed == Jtis \ (raced \cup broken)

\* A family has one live token, however logins, rotations and revocations overlap,
\* unless a token was rotated after it had been consumed or revoked.
OneLivePerFamily ==
    \A f \in Undisturbed : Cardinality(LiveOf(f)) <= 1

\* Every live token is in the set of its family and in that of its user, where a
\* revocation finds it, although a revocation empties both member by member while
\* other families of the user rotate.
LiveIsListed ==
    \A f \in Undisturbed : LiveOf(f) \subseteq members[f] \cap listed

\* README: "Presenting a consumed token revokes the entire family".  Once a
\* revocation has ended no token of the family is live and none comes back, unless
\* a rotation overlapped it or a call of either was cut short.
RevocationReaches ==
    \A f \in revoked \cap Undisturbed : LiveOf(f) = {}
=============================================================================
