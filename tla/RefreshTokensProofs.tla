------------------------ MODULE RefreshTokensProofs ------------------------
(***************************************************************************)
(* What holds of RefreshTokens for any number of requests, tokens and      *)
(* Redis errors: the types, and what a family and its revocation promise.  *)
(***************************************************************************)
EXTENDS RefreshTokens, FiniteSetTheorems, TLAPS

Issued == 1 .. issued
ReqType == [pc : {"idle", "get", "rotate", "smembers", "del", "srem", "delFamily"},
            jti : 0 .. MaxTokens, fam : 0 .. MaxTokens, todo : SUBSET Jtis]
RevokingPcs == {"del", "srem", "delFamily"}

\* Nothing is stored under a jti, nor revoked under a family, that was not given out.
OnlyIssued ==
    /\ \A j \in Jtis : j > issued => token[j] = "none"
    /\ \A j \in Issued : family[j] \in Issued
    /\ \A f \in Jtis : members[f] \subseteq Issued
    /\ revoked \subseteq Issued

\* A request works on what was issued, rotates within the family of its token, and
\* takes off the user's list only a token it has deleted before.
Good(q) ==
    /\ q.pc # "idle" => q.jti \in Issued
    /\ q.pc \in {"rotate", "smembers"} \cup RevokingPcs => q.fam \in Issued
    /\ q.pc = "rotate" => q.fam = family[q.jti]
    /\ q.todo \subseteq Issued
    /\ q.pc = "srem" => token[q.jti] # "live"
    /\ q.pc = "delFamily" => q.todo = {}
ReqsGood == \A r \in Requests : Good(req[r])

TypeInv == TypeOK /\ OnlyIssued /\ ReqsGood

\* What is live in a family is still on the list of every revocation of it.
Sweeping ==
    \A r \in Requests : req[r].pc \in RevokingPcs /\ req[r].fam \in Undisturbed =>
        LiveOf(req[r].fam) \subseteq req[r].todo

\* OneLivePerFamily without counting.
LiveIsUnique == \A f \in Undisturbed : \A i, j \in LiveOf(f) : i = j

FamilyInv == LiveIsListed /\ Sweeping /\ RevocationReaches /\ LiveIsUnique

-----------------------------------------------------------------------------
(* Types.                                                                  *)

LEMMA IdleIsGood == Idle \in ReqType /\ Good(Idle)
  BY TokenAssumption DEF Idle, ReqType, Good, RevokingPcs

LEMMA TypeInvInit == Init => TypeInv
  <1> SUFFICES ASSUME Init PROVE TypeInv
    OBVIOUS
  <1>1. req \in [Requests -> ReqType] /\ ReqsGood
    BY IdleIsGood DEF Init, ReqsGood
  <1>2. OnlyIssued
    BY DEF Init, OnlyIssued, Issued
  <1>3. TypeOK
    BY <1>1, TokenAssumption DEF Init, TypeOK, ReqType
  <1> QED
    BY <1>1, <1>2, <1>3 DEF TypeInv

\* Tokens keep their family, and none comes back to life.
Ages == /\ issued' \in Nat /\ issued' >= issued
        /\ \A i \in Issued : family'[i] = family[i] /\ (token'[i] = "live" => token[i] = "live")

LEMMA GoodAges ==
  ASSUME TypeInv, Ages, NEW q, Good(q)
  PROVE  Good(q)'
  BY TokenAssumption DEF TypeInv, TypeOK, Ages, Good, Issued, RevokingPcs

\* One request goes on, the others stay as they are.
LEMMA ReqStep ==
  ASSUME TypeInv, Ages, NEW r \in Requests, NEW q \in ReqType, Good(q)',
         req' = [req EXCEPT ![r] = q]
  PROVE  req' \in [Requests -> ReqType] /\ ReqsGood'
  <1>1. req \in [Requests -> ReqType]
    BY DEF TypeInv, TypeOK, ReqType
  <1>2. ASSUME NEW s \in Requests PROVE Good(req[s])'
    <2>1. CASE s = r
      BY <1>1, <2>1 DEF Good, Issued
    <2>2. CASE s # r
      <3>1. req'[s] = req[s] /\ Good(req[s])
        BY <1>1, <2>2 DEF TypeInv, ReqsGood
      <3> QED
        BY <3>1, TokenAssumption DEF TypeInv, TypeOK, Ages, Good, Issued, RevokingPcs
    <2> QED
      BY <2>1, <2>2
  <1> QED
    BY <1>1, <1>2 DEF ReqsGood

LEMMA EndStep ==
  ASSUME TypeInv, Ages, NEW r \in Requests, End(r)
  PROVE  req' \in [Requests -> ReqType] /\ ReqsGood'
  <1>1. Good(Idle)'
    BY IdleIsGood, GoodAges
  <1> QED
    BY <1>1, IdleIsGood, ReqStep DEF End

LEMMA NoReqStep ==
  ASSUME TypeInv, Ages, UNCHANGED req
  PROVE  req' \in [Requests -> ReqType] /\ ReqsGood'
  <1>1. ASSUME NEW s \in Requests PROVE Good(req[s])'
    <2>1. req'[s] = req[s] /\ Good(req[s])
      BY DEF TypeInv, ReqsGood
    <2> QED
      BY <2>1, TokenAssumption DEF TypeInv, TypeOK, Ages, Good, Issued, RevokingPcs
  <1> QED
    BY <1>1 DEF ReqsGood, TypeInv, TypeOK, ReqType

\* What a pipeline leaves, however much of it was executed.
LEMMA RegisterTypes ==
  ASSUME TypeInv, issued < MaxTokens, NEW f \in 1 .. (issued + 1), NEW n \in 0 .. 4,
         Register(issued + 1, f, n), Executed(n)
  PROVE  /\ family' \in [Jtis -> 0 .. MaxTokens] /\ members' \in [Jtis -> SUBSET Jtis]
         /\ listed' \in SUBSET Jtis /\ issued' \in 0 .. MaxTokens /\ errors' \in 0 .. MaxErrors
         /\ broken' \in SUBSET Jtis
         /\ Issued' = Issued \cup {issued + 1}
         /\ \A j \in Issued' : family'[j] \in Issued'
         /\ \A j \in Issued : family'[j] = family[j]
         /\ \A g \in Jtis : members'[g] \subseteq Issued'
  <1> DEFINE j == issued + 1
  <1>1. j \in Jtis /\ f \in Jtis /\ issued \in Nat /\ issued' = issued + 1
    BY TokenAssumption DEF TypeInv, TypeOK, Register, Jtis
  <1>2. issued' \in 0 .. MaxTokens /\ Issued' = Issued \cup {j}
    BY <1>1, TokenAssumption DEF Issued, Jtis
  <1>3. family' \in [Jtis -> 0 .. MaxTokens]
    BY <1>1, TokenAssumption DEF Register, TypeInv, TypeOK, Jtis
  <1>4. members' \in [Jtis -> SUBSET Jtis]
    BY <1>1 DEF Register, TypeInv, TypeOK
  <1>5. listed' \in SUBSET Jtis /\ broken' \in SUBSET Jtis
    BY <1>1 DEF Register, TypeInv, TypeOK
  <1>6. errors' \in 0 .. MaxErrors
    BY TokenAssumption DEF Executed, Error, TypeInv, TypeOK
  <1>7. \A i \in Issued : i \in Jtis /\ i # j
    BY <1>1, TokenAssumption DEF Issued, Jtis, TypeInv, TypeOK
  <1>8. \A i \in Issued : family'[i] = family[i]
    BY <1>1, <1>7 DEF Register, TypeInv, TypeOK
  <1>9. family'[j] = f
    BY <1>1 DEF Register, TypeInv, TypeOK
  <1>9a. f \in Issued'
    BY <1>1 DEF Issued
  <1>10. \A i \in Issued' : family'[i] \in Issued'
    BY <1>2, <1>8, <1>9, <1>9a DEF TypeInv, OnlyIssued
  <1>11. \A g \in Jtis : members'[g] \subseteq Issued'
    <2> TAKE g \in Jtis
    <2>1. members[g] \subseteq Issued
      BY DEF TypeInv, OnlyIssued
    <2>2. members'[g] \subseteq members[g] \cup {j}
      BY <1>1 DEF Register, TypeInv, TypeOK
    <2> QED
      BY <1>2, <2>1, <2>2
  <1> QED
    BY <1>2, <1>3, <1>4, <1>5, <1>6, <1>8, <1>10, <1>11

\* The token a pipeline creates, and the one it consumes.
LEMMA LoginTokens ==
  ASSUME TypeInv, issued < MaxTokens, NEW n \in 1 .. 4, issued' = issued + 1,
         token' = [token EXCEPT ![issued + 1] = Created(n)]
  PROVE  /\ token' \in [Jtis -> {"none", "live", "consumed"}]
         /\ \A i \in Jtis : i > issued' => token'[i] = "none"
         /\ \A i \in Issued : token'[i] = token[i]
  <1>1. issued \in Nat /\ issued + 1 \in Jtis /\ token \in [Jtis -> {"none", "live", "consumed"}]
    BY TokenAssumption DEF TypeInv, TypeOK, Jtis
  <1>2. Created(n) \in {"none", "live", "consumed"}
    BY DEF Created
  <1>3. \A i \in Jtis : i > issued => token[i] = "none"
    BY DEF TypeInv, OnlyIssued
  <1>4. \A i \in Issued : i # issued + 1
    BY <1>1 DEF Issued
  <1>5. \A i \in Jtis : i > issued' => i > issued /\ i # issued + 1
    BY <1>1 DEF Jtis
  <1>6. \A i \in Issued : i \in Jtis
    BY <1>1, TokenAssumption DEF Issued, Jtis
  <1> QED
    BY <1>1, <1>2, <1>3, <1>4, <1>5, <1>6

LEMMA RotateTokens ==
  ASSUME TypeInv, issued < MaxTokens, NEW n \in 0 .. 4, NEW old \in Issued, issued' = issued + 1,
         token' = [token EXCEPT ![old] = Consumed(@, n), ![issued + 1] = Created(n)]
  PROVE  /\ token' \in [Jtis -> {"none", "live", "consumed"}]
         /\ \A i \in Jtis : i > issued' => token'[i] = "none"
         /\ \A i \in Issued : token'[i] = "live" => token[i] = "live"
         /\ n >= 1 => token'[old] = "consumed"
  <1>1. issued \in Nat /\ issued + 1 \in Jtis /\ token \in [Jtis -> {"none", "live", "consumed"}]
    BY TokenAssumption DEF TypeInv, TypeOK, Jtis
  <1>2. Created(n) \in {"none", "live", "consumed"}
        /\ Consumed(token[old], n) \in {token[old], "consumed"}
        /\ (n >= 1 => Consumed(token[old], n) = "consumed")
    BY DEF Created, Consumed
  <1>3. \A i \in Jtis : i > issued => token[i] = "none"
    BY DEF TypeInv, OnlyIssued
  <1>4. \A i \in Issued : i # issued + 1
    BY <1>1 DEF Issued
  <1>5. \A i \in Jtis : i > issued' => i > issued /\ i # issued + 1
    BY <1>1 DEF Jtis
  <1>6. \A i \in Issued : i \in Jtis
    BY <1>1, TokenAssumption DEF Issued, Jtis
  <1>7. \A i \in Jtis : i > issued => i # old
    BY <1>1 DEF Issued, Jtis
  <1>8. token' = [i \in Jtis |-> IF i = issued + 1 THEN Created(n)
                                 ELSE IF i = old THEN Consumed(token[old], n) ELSE token[i]]
    BY <1>1, <1>4, <1>6
  <1>9. token' \in [Jtis -> {"none", "live", "consumed"}]
    BY <1>1, <1>2, <1>6, <1>8
  <1>10. \A i \in Jtis : i > issued' => token'[i] = "none"
    BY <1>3, <1>5, <1>7, <1>8
  <1>11. \A i \in Issued : token'[i] = "live" => token[i] = "live"
    BY <1>2, <1>4, <1>6, <1>8
  <1>12. n >= 1 => token'[old] = "consumed"
    BY <1>2, <1>4, <1>6, <1>8
  <1> QED
    BY <1>9, <1>10, <1>11, <1>12

LEMMA TypeInvNext == TypeInv /\ [Next]_vars => TypeInv'
  <1> SUFFICES ASSUME TypeInv, [Next]_vars PROVE TypeInv'
    OBVIOUS
  <1> USE TokenAssumption
  <1> DEFINE Req == req' \in [Requests -> ReqType] /\ ReqsGood'
  <1>0. /\ issued \in 0 .. MaxTokens /\ Issued \subseteq Jtis
        /\ req \in [Requests -> ReqType] /\ token \in [Jtis -> {"none", "live", "consumed"}]
    BY DEF TypeInv, TypeOK, ReqType, Issued, Jtis
  <1>0a. \A r \in Requests : req[r] \in ReqType /\ Good(req[r])
    BY <1>0 DEF TypeInv, ReqsGood
  \* Steps of a handler that leave the keys of the tokens alone.
  <1>1. ASSUME UNCHANGED <<token, family, issued>> PROVE Ages
    BY <1>0, <1>1 DEF Ages
  <1>1a. ASSUME UNCHANGED <<token, family, issued>>, NEW q, Good(q) PROVE Good(q)'
    BY <1>1, <1>1a, GoodAges
  <1>2. ASSUME UNCHANGED <<redis, family, issued, raced, revoked>>, Req,
               errors' \in 0 .. MaxErrors, broken' \in SUBSET Jtis
        PROVE  TypeInv'
    BY <1>2 DEF TypeInv, TypeOK, OnlyIssued, Issued, ReqType, redis
  <1>3. Login => TypeInv'
    <2> SUFFICES ASSUME Login PROVE TypeInv'
      OBVIOUS
    <2>1. PICK n \in 1 .. 4 : /\ Executed(n) /\ Register(issued + 1, issued + 1, n)
                              /\ token' = [token EXCEPT ![issued + 1] = Created(n)]
      BY DEF Login
    <2>2. issued < MaxTokens /\ issued + 1 \in 1 .. (issued + 1) /\ n \in 0 .. 4
          /\ issued' = issued + 1
      BY <1>0, <2>1 DEF Login, Register
    <2>3. /\ family' \in [Jtis -> 0 .. MaxTokens] /\ members' \in [Jtis -> SUBSET Jtis]
          /\ listed' \in SUBSET Jtis /\ issued' \in 0 .. MaxTokens /\ errors' \in 0 .. MaxErrors
          /\ broken' \in SUBSET Jtis
          /\ Issued' = Issued \cup {issued + 1}
          /\ \A j \in Issued' : family'[j] \in Issued'
          /\ \A j \in Issued : family'[j] = family[j]
          /\ \A g \in Jtis : members'[g] \subseteq Issued'
      BY <2>1, <2>2, RegisterTypes
    <2>4. /\ token' \in [Jtis -> {"none", "live", "consumed"}]
          /\ \A i \in Jtis : i > issued' => token'[i] = "none"
          /\ \A i \in Issued : token'[i] = token[i]
      BY <2>1, <2>2, LoginTokens
    <2>5. Ages
      BY <1>0, <2>2, <2>3, <2>4 DEF Ages
    <2>6. Req
      BY <2>5, NoReqStep DEF Login
    <2>7. raced' \in SUBSET Jtis /\ revoked' \in SUBSET Jtis /\ revoked' \subseteq Issued'
      BY <2>3 DEF Login, TypeInv, TypeOK, OnlyIssued
    <2> QED
      BY <2>3, <2>4, <2>6, <2>7 DEF TypeInv, TypeOK, OnlyIssued, ReqType
  <1>4. ASSUME NEW r \in Requests, NEW j \in Jtis, Present(r, j) PROVE TypeInv'
    <2> DEFINE q == [Idle EXCEPT !.pc = "get", !.jti = j]
    <2>0. Idle \in ReqType /\ Idle.todo = {} /\ j \in 0 .. MaxTokens
      BY IdleIsGood DEF Idle, Jtis
    <2>1. q \in ReqType /\ q.pc = "get" /\ q.jti = j /\ q.todo = {}
      BY <2>0 DEF ReqType
    <2>2. Good(q)
      <3>1. j \in Issued
        BY <1>0, <1>4 DEF Present, Issued, Jtis
      <3> HIDE DEF q
      <3> QED
        BY <2>1, <3>1 DEF Good, RevokingPcs
    <2>3. req' = [req EXCEPT ![r] = q] /\ UNCHANGED <<redis, family, issued, errors, history>>
      BY <1>4 DEF Present
    <2> HIDE DEF q
    <2>4. Req
      BY <1>1, <1>1a, <2>1, <2>2, <2>3, ReqStep DEF redis
    <2> QED
      BY <1>2, <2>3, <2>4 DEF history, TypeInv, TypeOK
  <1>5. ASSUME NEW r \in Requests, GetTokenState(r) PROVE TypeInv'
    <2> DEFINE j == req[r].jti
    <2>0. j \in Issued /\ family[j] \in Issued /\ UNCHANGED <<redis, family, issued, history>>
          /\ UNCHANGED <<token, family, issued>> /\ req[r].todo \subseteq Issued
      BY <1>0a, <1>5 DEF GetTokenState, At, Good, TypeInv, OnlyIssued, redis
    <2>1. ASSUME NEW l \in {"smembers", "rotate"},
                 req' = [req EXCEPT ![r] = [@ EXCEPT !.pc = l, !.fam = family[j]]]
          PROVE  Req
      <3> DEFINE q == [req[r] EXCEPT !.pc = l, !.fam = family[j]]
      <3>1. q \in ReqType /\ q.pc = l /\ q.jti = j /\ q.fam = family[j] /\ q.todo = req[r].todo
        <4>1. family[j] \in 0 .. MaxTokens /\ req[r] \in ReqType
          BY <1>0, <1>0a, <2>0 DEF Issued
        <4> QED
          BY <4>1 DEF ReqType
      <3>2. req' = [req EXCEPT ![r] = q]
        BY <2>1
      <3>3. Good(q)
        <4> HIDE DEF q
        <4> QED
          BY <2>0, <3>1 DEF Good, RevokingPcs
      <3> HIDE DEF q
      <3> QED
        BY <1>1, <1>1a, <2>0, <3>1, <3>2, <3>3, ReqStep
    <2>2. ASSUME End(r) PROVE Req
      BY <1>1, <2>0, <2>2, EndStep
    <2>3. Req /\ errors' \in 0 .. MaxErrors
      BY <1>5, <2>1, <2>2 DEF GetTokenState, Error, TypeInv, TypeOK
    <2> QED
      BY <1>2, <2>0, <2>3 DEF history, TypeInv, TypeOK
  <1>6. ASSUME NEW r \in Requests, Rotate(r) PROVE TypeInv'
    <2> DEFINE old == req[r].jti
               f == req[r].fam
    <2>0. old \in Issued /\ f \in Issued /\ f \in Jtis /\ issued < MaxTokens
      BY <1>0, <1>0a, <1>6 DEF Rotate, At, Good
    <2>1. PICK n \in 0 .. 4 :
             /\ Executed(n) /\ Register(issued + 1, f, n)
             /\ token' = [token EXCEPT ![old] = Consumed(@, n), ![issued + 1] = Created(n)]
      BY <1>6 DEF Rotate
    <2>2. f \in 1 .. (issued + 1) /\ issued' = issued + 1
      BY <1>0, <2>0, <2>1 DEF Register, Issued
    <2>3. /\ family' \in [Jtis -> 0 .. MaxTokens] /\ members' \in [Jtis -> SUBSET Jtis]
          /\ listed' \in SUBSET Jtis /\ issued' \in 0 .. MaxTokens /\ errors' \in 0 .. MaxErrors
          /\ broken' \in SUBSET Jtis
          /\ Issued' = Issued \cup {issued + 1}
          /\ \A j \in Issued' : family'[j] \in Issued'
          /\ \A j \in Issued : family'[j] = family[j]
          /\ \A g \in Jtis : members'[g] \subseteq Issued'
      BY <2>0, <2>1, <2>2, RegisterTypes
    <2>4. /\ token' \in [Jtis -> {"none", "live", "consumed"}]
          /\ \A i \in Jtis : i > issued' => token'[i] = "none"
          /\ \A i \in Issued : token'[i] = "live" => token[i] = "live"
      BY <2>0, <2>1, <2>2, RotateTokens
    <2>5. Ages
      BY <1>0, <2>2, <2>3, <2>4 DEF Ages
    <2>6. Req
      BY <1>6, <2>5, EndStep DEF Rotate
    <2>7. raced' \in SUBSET Jtis /\ revoked' \in SUBSET Jtis /\ revoked' \subseteq Issued'
      BY <1>6, <2>0, <2>3 DEF Rotate, TypeInv, TypeOK, OnlyIssued
    <2> QED
      BY <2>3, <2>4, <2>6, <2>7 DEF TypeInv, TypeOK, OnlyIssued, ReqType
  <1>7. ASSUME NEW r \in Requests, Smembers(r) PROVE TypeInv'
    <2> DEFINE f == req[r].fam
               q == [req[r] EXCEPT !.pc = "del", !.todo = members[f]]
    <2>0. f \in Issued /\ f \in Jtis /\ members[f] \subseteq Issued /\ req[r].jti \in Issued
          /\ UNCHANGED <<redis, family, issued, history>> /\ UNCHANGED <<token, family, issued>>
      BY <1>0, <1>0a, <1>7 DEF Smembers, At, Good, TypeInv, OnlyIssued, redis
    <2>1. q \in ReqType /\ q.pc = "del" /\ q.jti = req[r].jti /\ q.fam = f /\ q.todo = members[f]
      BY <1>0, <1>0a, <2>0 DEF ReqType
    <2>2. Good(q)
      <3> HIDE DEF q
      <3> QED
        BY <2>0, <2>1 DEF Good, RevokingPcs
    <2>3. ASSUME req' = [req EXCEPT ![r] = q] PROVE Req
      <3> HIDE DEF q
      <3> QED
        BY <1>1, <1>1a, <2>0, <2>1, <2>2, <2>3, ReqStep
    <2>4. ASSUME End(r) PROVE Req
      BY <1>1, <2>0, <2>4, EndStep
    <2>5. Req /\ errors' \in 0 .. MaxErrors
      BY <1>7, <2>3, <2>4 DEF Smembers, Error, TypeInv, TypeOK
    <2> QED
      BY <1>2, <2>0, <2>5 DEF history, TypeInv, TypeOK
  <1>8. ASSUME NEW r \in Requests, DelToken(r) PROVE TypeInv'
    <2>1. PICK j \in req[r].todo :
             /\ token' = [token EXCEPT ![j] = "none"]
             /\ req' = [req EXCEPT ![r] = [req[r] EXCEPT !.pc = "srem", !.jti = j,
                                                         !.todo = Remaining(req[r].todo, j)]]
      BY <1>8 DEF DelToken
    <2>0. req[r].todo \subseteq Issued /\ req[r].fam \in Issued /\ j \in Issued /\ j \in Jtis
      BY <1>0, <1>0a, <1>8, <2>1 DEF DelToken, At, Good, RevokingPcs
    <2>1a. PICK q : q = [req[r] EXCEPT !.pc = "srem", !.jti = j, !.todo = req[r].todo \ {j}]
      OBVIOUS
    <2>2. q \in ReqType /\ q.pc = "srem" /\ q.jti = j /\ q.fam = req[r].fam
          /\ q.todo = req[r].todo \ {j}
      <3>1. req[r] \in ReqType /\ req[r].todo \ {j} \in SUBSET Jtis
        BY <1>0, <1>0a, <2>0
      <3>2. j \in 0 .. MaxTokens
        BY <2>0 DEF Jtis
      <3> QED
        BY <2>1a, <3>1, <3>2 DEF ReqType
    <2>3. token' \in [Jtis -> {"none", "live", "consumed"}] /\ token'[j] = "none"
          /\ \A i \in Jtis : token'[i] \in {token[i], "none"}
      BY <1>0, <2>0, <2>1
    <2>4. Ages
      BY <1>0, <1>8, <2>3 DEF DelToken, Ages
    <2>5. Good(q)'
      <3>1. Issued' = Issued
        BY <1>8 DEF DelToken, Issued
      <3>2. q.todo \subseteq Issued
        BY <2>0, <2>2
      <3> QED
        BY <2>0, <2>2, <2>3, <3>1, <3>2 DEF Good, RevokingPcs
    <2>6. req' = [req EXCEPT ![r] = q]
      <3>1. Remaining(req[r].todo, j) = req[r].todo \ {j}
        BY DEF Remaining
      <3> QED
        BY <2>1, <2>1a, <3>1, Zenon
    <2>7. Req
      BY <2>2, <2>4, <2>5, <2>6, ReqStep
    <2> QED
      BY <1>8, <2>3, <2>7 DEF DelToken, history, TypeInv, TypeOK, OnlyIssued, Issued, ReqType
  <1>9. ASSUME NEW r \in Requests, SremToken(r) PROVE TypeInv'
    <2> DEFINE l == IF req[r].todo = {} THEN "delFamily" ELSE "del"
               q == [req[r] EXCEPT !.pc = l]
    <2>1. q \in ReqType /\ q.pc = l /\ q.jti = req[r].jti /\ q.fam = req[r].fam
          /\ q.todo = req[r].todo
      BY <1>0, <1>0a DEF ReqType
    <2>2. Good(q)
      <3> HIDE DEF q
      <3> QED
        BY <1>0a, <1>9, <2>1 DEF SremToken, At, Good, RevokingPcs
    <2>3. req' = [req EXCEPT ![r] = q]
      BY <1>9 DEF SremToken
    <2>4. Req
      <3>1. UNCHANGED <<token, family, issued>>
        BY <1>9 DEF SremToken
      <3> HIDE DEF q
      <3> QED
        BY <1>1, <1>1a, <2>1, <2>2, <2>3, <3>1, ReqStep
    <2> QED
      BY <1>9, <2>4 DEF SremToken, history, TypeInv, TypeOK, OnlyIssued, Issued, ReqType
  <1>10. ASSUME NEW r \in Requests, DelFamily(r) PROVE TypeInv'
    <2>0. req[r].fam \in Issued /\ req[r].fam \in Jtis
      BY <1>0, <1>0a, <1>10 DEF DelFamily, At, Good, RevokingPcs
    <2>1. Req
      BY <1>1, <1>10, EndStep DEF DelFamily
    <2>2. members' \in [Jtis -> SUBSET Jtis] /\ \A g \in Jtis : members'[g] \subseteq members[g]
      BY <1>10, <2>0 DEF DelFamily, TypeInv, TypeOK
    <2>3. revoked' \subseteq Issued /\ revoked' \in SUBSET Jtis
      BY <1>0, <1>10, <2>0 DEF DelFamily, TypeInv, TypeOK, OnlyIssued
    <2> QED
      BY <1>10, <2>1, <2>2, <2>3 DEF DelFamily, TypeInv, TypeOK, OnlyIssued, Issued, ReqType
  <1>11. ASSUME NEW r \in Requests, RevocationFails(r) PROVE TypeInv'
    <2>0. req[r].fam \in Jtis
      BY <1>0, <1>0a, <1>11 DEF RevocationFails, Good, RevokingPcs
    <2>1. Req
      BY <1>1, <1>11, EndStep DEF RevocationFails, redis
    <2>2. errors' \in 0 .. MaxErrors /\ broken' \in SUBSET Jtis
      BY <1>11, <2>0 DEF RevocationFails, Error, TypeInv, TypeOK
    <2> QED
      BY <1>2, <1>11, <2>1, <2>2 DEF RevocationFails
  <1>12. ASSUME NEW j \in Jtis, TokenExpires(j) PROVE TypeInv'
    <2>1. token' \in [Jtis -> {"none", "live", "consumed"}]
          /\ \A i \in Jtis : token'[i] \in {token[i], "none"}
      BY <1>0, <1>12 DEF TokenExpires
    <2>2. Ages
      BY <1>0, <1>12, <2>1 DEF TokenExpires, Ages
    <2>3. Req
      BY <1>12, <2>2, NoReqStep DEF TokenExpires
    <2> QED
      BY <1>12, <2>1, <2>3
         DEF TokenExpires, history, TypeInv, TypeOK, OnlyIssued, Issued, ReqType
  <1>13. ASSUME Crash PROVE TypeInv'
    <2>1. Good(Idle)'
      BY <1>1a, <1>13, IdleIsGood DEF Crash, redis
    <2>2. Req
      BY <1>13, <2>1, IdleIsGood DEF Crash, ReqsGood, Good
    <2>3. errors' \in 0 .. MaxErrors /\ broken' \in SUBSET Jtis
      BY <1>13 DEF Crash, Error, TypeInv, TypeOK
    <2> QED
      BY <1>2, <1>13, <2>2, <2>3 DEF Crash
  <1>14. ASSUME UNCHANGED vars PROVE TypeInv'
    <2>1. Req
      BY <1>1, <1>14, NoReqStep DEF vars
    <2> QED
      BY <1>2, <1>14, <2>1 DEF vars, redis, TypeInv, TypeOK
  <1> QED
    BY <1>3, <1>4, <1>5, <1>6, <1>7, <1>8, <1>9, <1>10, <1>11, <1>12, <1>13, <1>14 DEF Next, Step

LEMMA TypeInvHolds == Spec => []TypeInv
  BY TypeInvInit, TypeInvNext, PTL DEF Spec

\* The Redis keys, the requests and the history keep their types, whatever part of a
\* pipeline was executed and wherever a handler was cut short.
THEOREM TypeCorrect == Spec => []TypeOK
  BY TypeInvHolds, PTL DEF TypeInv

-----------------------------------------------------------------------------
(* Families and their revocation.                                          *)

\* Every revocation still lists what is live when one request goes on and nothing is
\* issued.
LEMMA SweepStep ==
  ASSUME TypeInv, Sweeping, Undisturbed' \subseteq Undisturbed,
         \A g \in Jtis : LiveOf(g)' \subseteq LiveOf(g),
         NEW r \in Requests, NEW q, req' = [req EXCEPT ![r] = q],
         q.pc \in RevokingPcs /\ q.fam \in Undisturbed' => LiveOf(q.fam)' \subseteq q.todo
  PROVE  Sweeping'
  <1>1. req \in [Requests -> ReqType]
    BY DEF TypeInv, TypeOK, ReqType
  <1>2. ASSUME NEW s \in Requests, NEW f \in Undisturbed',
               req'[s].pc \in RevokingPcs, req'[s].fam = f
        PROVE  LiveOf(f)' \subseteq req'[s].todo
    <2>1. CASE s = r
      <3>1. req'[s] = q
        BY <1>1, <2>1
      <3> QED
        BY <1>2, <3>1
    <2>2. CASE s # r
      <3>1. req'[s] = req[s] /\ f \in Undisturbed /\ f \in Jtis
        BY <1>1, <2>2 DEF Undisturbed
      <3>2. LiveOf(f) \subseteq req[s].todo
        BY <1>2, <3>1 DEF Sweeping
      <3> QED
        BY <3>1, <3>2
    <2> QED
      BY <2>1, <2>2
  <1> QED
    BY <1>2 DEF Sweeping, LiveOf

LEMMA SweepEnd ==
  ASSUME TypeInv, Sweeping, Undisturbed' \subseteq Undisturbed,
         \A g \in Jtis : LiveOf(g)' \subseteq LiveOf(g),
         NEW r \in Requests, NEW q, req' = [req EXCEPT ![r] = q], q.pc \notin RevokingPcs
  PROVE  Sweeping'
  BY SweepStep

LEMMA SweepSame ==
  ASSUME TypeInv, Sweeping, Undisturbed' \subseteq Undisturbed,
         \A g \in Jtis : LiveOf(g)' \subseteq LiveOf(g), UNCHANGED req
  PROVE  Sweeping'
  <1>1. ASSUME NEW s \in Requests, NEW f \in Undisturbed',
               req'[s].pc \in RevokingPcs, req'[s].fam = f
        PROVE  LiveOf(f)' \subseteq req'[s].todo
    <2>1. req'[s] = req[s] /\ f \in Undisturbed /\ f \in Jtis
      BY DEF Undisturbed
    <2>2. LiveOf(f) \subseteq req[s].todo
      BY <1>1, <2>1 DEF Sweeping
    <2> QED
      BY <2>1, <2>2
  <1> QED
    BY <1>1 DEF Sweeping, LiveOf

\* A step that issues nothing and takes nothing off a list that is still live.
LEMMA FamilyStep ==
  ASSUME FamilyInv, Undisturbed' \subseteq Undisturbed,
         \A g \in Jtis : LiveOf(g)' \subseteq LiveOf(g),
         \A g \in Undisturbed' : LiveOf(g)' \subseteq members'[g] \cap listed',
         \A g \in revoked' \ revoked : g \in Undisturbed' => LiveOf(g)' = {},
         Sweeping'
  PROVE  FamilyInv'
  <1>1. Undisturbed \subseteq Jtis
    BY DEF Undisturbed
  <1>2. LiveIsListed'
    BY DEF LiveIsListed, LiveOf
  <1>3. LiveIsUnique'
    <2>1. \A f \in Undisturbed' : \A i, j \in LiveOf(f)' : i = j
      BY <1>1 DEF FamilyInv, LiveIsUnique
    <2> QED
      BY <2>1 DEF LiveIsUnique, LiveOf
  <1>4. RevocationReaches'
    <2>1. \A f \in revoked' \cap Undisturbed' : LiveOf(f)' = {}
      BY <1>1 DEF FamilyInv, RevocationReaches
    <2> QED
      BY <2>1 DEF RevocationReaches, LiveOf
  <1> QED
    BY <1>2, <1>3, <1>4 DEF FamilyInv

\* What is live after a token was issued.
LEMMA IssueStep ==
  ASSUME TypeInv, Ages, issued' = issued + 1, NEW f, family'[issued + 1] = f,
         \A i \in Jtis : i > issued' => token'[i] = "none"
  PROVE  \A g \in Jtis : LiveOf(g)' \subseteq LiveOf(g) \cup (IF g = f THEN {issued + 1} ELSE {})
  <1> SUFFICES ASSUME NEW g \in Jtis, NEW i \in Jtis, family'[i] = g, token'[i] = "live"
               PROVE  i \in LiveOf(g) \/ (i = issued + 1 /\ g = f)
    BY DEF LiveOf
  <1>1. issued \in Nat /\ ~(i > issued')
    BY TokenAssumption DEF TypeInv, TypeOK
  <1>2. CASE i = issued + 1
    BY <1>2
  <1>3. CASE i # issued + 1
    <2>1. i \in Issued
      BY <1>1, <1>3 DEF Issued, Jtis
    <2> QED
      BY <2>1 DEF Ages, LiveOf
  <1> QED
    BY <1>2, <1>3

\* Login, with the whole pipeline executed or some first part of it.
LEMMA FamilyLogin ==
  ASSUME TypeInv, FamilyInv, Login PROVE FamilyInv'
  <1>0. PICK j : j = issued + 1
    OBVIOUS
  <1>1. PICK n \in 1 .. 4 : /\ Executed(n) /\ Register(j, j, n)
                            /\ token' = [token EXCEPT ![j] = Created(n)]
    BY <1>0 DEF Login
  <1>2. issued < MaxTokens /\ j \in 1 .. (issued + 1) /\ n \in 0 .. 4 /\ issued' = issued + 1
        /\ issued \in Nat /\ j \in Jtis /\ j \notin Issued
    BY <1>0, <1>1, TokenAssumption DEF Login, Register, TypeInv, TypeOK, Jtis, Issued
  <1>3. \A i \in Issued : family'[i] = family[i]
    BY <1>0, <1>1, <1>2, RegisterTypes
  <1>4. /\ \A i \in Jtis : i > issued' => token'[i] = "none"
        /\ \A i \in Issued : token'[i] = token[i]
    BY <1>0, <1>1, <1>2, LoginTokens
  <1>5. family'[j] = j
    BY <1>1, <1>2 DEF Register, TypeInv, TypeOK
  <1>6. Ages
    BY <1>2, <1>3, <1>4 DEF Ages
  <1>7. \A g \in Jtis : LiveOf(g)' \subseteq LiveOf(g) \cup (IF g = j THEN {j} ELSE {})
    BY <1>0, <1>2, <1>4, <1>5, <1>6, IssueStep
  <1>8. LiveOf(j) = {}
    BY <1>0, <1>2, TokenAssumption DEF LiveOf, TypeInv, OnlyIssued, Issued, Jtis
  <1>9. Undisturbed' \subseteq Undisturbed /\ Undisturbed \subseteq Jtis
    BY <1>1 DEF Login, Register, Undisturbed
  <1>10. LiveOf(j)' \subseteq {j} /\ \A g \in Jtis \ {j} : LiveOf(g)' \subseteq LiveOf(g)
    BY <1>2, <1>7, <1>8
  <1>11. LiveIsListed'
    <2>1. ASSUME NEW g \in Undisturbed' PROVE LiveOf(g)' \subseteq members'[g] \cap listed'
      <3>1. CASE g = j
        <4>1. n = 4
          BY <1>1, <2>1, <3>1 DEF Register, Undisturbed
        <4>2. j \in members'[j] /\ j \in listed'
          BY <1>1, <1>2, <4>1 DEF Register, TypeInv, TypeOK
        <4> QED
          BY <1>10, <3>1, <4>2
      <3>2. CASE g # j
        <4>1. members'[g] = members[g] /\ listed \subseteq listed' /\ g \in Jtis
          BY <1>1, <1>9, <3>2 DEF Register, TypeInv, TypeOK
        <4>2. LiveOf(g) \subseteq members[g] \cap listed
          BY <1>9 DEF FamilyInv, LiveIsListed
        <4> QED
          BY <1>10, <3>2, <4>1, <4>2
      <3> QED
        BY <3>1, <3>2
    <2> QED
      BY <2>1 DEF LiveIsListed, LiveOf
  <1>12. LiveIsUnique'
    <2>1. \A g \in Undisturbed' : \A i, k \in LiveOf(g)' : i = k
      BY <1>9, <1>10 DEF FamilyInv, LiveIsUnique
    <2> QED
      BY <2>1 DEF LiveIsUnique, LiveOf
  <1>13. RevocationReaches'
    <2>1. revoked' = revoked /\ j \notin revoked
      BY <1>2 DEF Login, TypeInv, OnlyIssued
    <2>2. \A g \in revoked' \cap Undisturbed' : LiveOf(g)' = {}
      BY <1>9, <1>10, <2>1 DEF FamilyInv, RevocationReaches
    <2> QED
      BY <2>2 DEF RevocationReaches, LiveOf
  <1>14. Sweeping'
    <2>1. ASSUME NEW s \in Requests, NEW g \in Undisturbed',
                 req'[s].pc \in RevokingPcs, req'[s].fam = g
          PROVE  LiveOf(g)' \subseteq req'[s].todo
      <3>1. req'[s] = req[s] /\ g \in Undisturbed
        BY <1>9 DEF Login
      <3>2. g \in Issued /\ g # j /\ g \in Jtis
        BY <1>2, <1>9, <2>1, <3>1 DEF TypeInv, ReqsGood, Good
      <3>3. LiveOf(g) \subseteq req[s].todo
        BY <2>1, <3>1 DEF FamilyInv, Sweeping
      <3> QED
        BY <1>10, <3>1, <3>2, <3>3
    <2> QED
      BY <2>1 DEF Sweeping, LiveOf
  <1> QED
    BY <1>11, <1>12, <1>13, <1>14 DEF FamilyInv

\* A rotation leaves its family undisturbed only when its token was still live, when no
\* revocation was under way, and when the whole pipeline was executed.
LEMMA FamilyRotate ==
  ASSUME TypeInv, FamilyInv, NEW r \in Requests, Rotate(r) PROVE FamilyInv'
  <1>j. PICK j : j = issued + 1
    OBVIOUS
  <1>o. PICK old : old = req[r].jti
    OBVIOUS
  <1>f. PICK f : f = req[r].fam
    OBVIOUS
  <1>0. old \in Issued /\ f \in Issued /\ f = family[old]
    BY <1>o, <1>f DEF Rotate, At, TypeInv, ReqsGood, Good
  <1>1. PICK n \in 0 .. 4 :
           /\ Executed(n) /\ Register(j, f, n)
           /\ token' = [token EXCEPT ![old] = Consumed(@, n), ![j] = Created(n)]
    BY <1>j, <1>o, <1>f DEF Rotate
  <1>2. issued < MaxTokens /\ f \in 1 .. (issued + 1) /\ issued' = issued + 1 /\ issued \in Nat
        /\ j \in Jtis /\ f \in Jtis /\ old \in Jtis /\ j \notin Issued
    BY <1>j, <1>0, <1>1, TokenAssumption DEF Rotate, Register, TypeInv, TypeOK, Jtis, Issued
  <1>3. \A i \in Issued : family'[i] = family[i]
    BY <1>j, <1>1, <1>2, RegisterTypes
  <1>4. /\ \A i \in Jtis : i > issued' => token'[i] = "none"
        /\ \A i \in Issued : token'[i] = "live" => token[i] = "live"
        /\ n >= 1 => token'[old] = "consumed"
    BY <1>j, <1>0, <1>1, <1>2, RotateTokens
  <1>5. family'[j] = f
    BY <1>1, <1>2 DEF Register, TypeInv, TypeOK
  <1>6. Ages
    BY <1>2, <1>3, <1>4 DEF Ages
  <1>7. \A g \in Jtis : LiveOf(g)' \subseteq LiveOf(g) \cup (IF g = f THEN {j} ELSE {})
    BY <1>j, <1>2, <1>4, <1>5, <1>6, IssueStep
  <1>8. Undisturbed' \subseteq Undisturbed /\ Undisturbed \subseteq Jtis
    BY <1>1 DEF Rotate, Register, Undisturbed
  <1>9. \A g \in Jtis \ {f} : LiveOf(g)' \subseteq LiveOf(g)
    BY <1>7
  <1>10. ASSUME f \in Undisturbed'
         PROVE  /\ n = 4 /\ ~Revoking(f) /\ old \in LiveOf(f) /\ LiveOf(f)' \subseteq {j}
    <2>1. n = 4
      BY <1>1, <1>10 DEF Register, Undisturbed
    <2>2. token[old] = "live" /\ ~Revoking(f)
      BY <1>o, <1>f, <1>10 DEF Rotate, Undisturbed
    <2>3. old \in LiveOf(f)
      BY <1>0, <1>2, <2>2 DEF LiveOf
    <2>4. \A i \in LiveOf(f) : i = old
      BY <1>8, <1>10, <2>3 DEF FamilyInv, LiveIsUnique
    <2>5. old \notin LiveOf(f)'
      BY <1>4, <2>1 DEF LiveOf
    <2> QED
      BY <1>2, <1>7, <2>1, <2>2, <2>3, <2>4, <2>5
  <1>11. LiveIsListed'
    <2>1. ASSUME NEW g \in Undisturbed' PROVE LiveOf(g)' \subseteq members'[g] \cap listed'
      <3>1. CASE g = f
        <4>1. j \in members'[f] /\ j \in listed'
          BY <1>1, <1>2, <1>10, <2>1, <3>1 DEF Register, TypeInv, TypeOK
        <4> QED
          BY <1>10, <2>1, <3>1, <4>1
      <3>2. CASE g # f
        <4>1. members'[g] = members[g] /\ listed \subseteq listed' /\ g \in Jtis
          BY <1>1, <1>8, <3>2 DEF Register, TypeInv, TypeOK
        <4>2. LiveOf(g) \subseteq members[g] \cap listed
          BY <1>8 DEF FamilyInv, LiveIsListed
        <4> QED
          BY <1>9, <3>2, <4>1, <4>2
      <3> QED
        BY <3>1, <3>2
    <2> QED
      BY <2>1 DEF LiveIsListed, LiveOf
  <1>12. LiveIsUnique'
    <2>1. ASSUME NEW g \in Undisturbed' PROVE \A i, k \in LiveOf(g)' : i = k
      <3>1. CASE g = f
        BY <1>10, <3>1
      <3>2. CASE g # f
        BY <1>8, <1>9, <3>2 DEF FamilyInv, LiveIsUnique
      <3> QED
        BY <3>1, <3>2
    <2> QED
      BY <2>1 DEF LiveIsUnique, LiveOf
  <1>13. RevocationReaches'
    <2>1. ASSUME NEW g \in revoked' \cap Undisturbed' PROVE LiveOf(g)' = {}
      <3>1. LiveOf(g) = {}
        BY <1>8 DEF Rotate, FamilyInv, RevocationReaches
      <3>2. g # f
        BY <1>10, <3>1
      <3> QED
        BY <1>8, <1>9, <3>1, <3>2
    <2> QED
      BY <2>1 DEF RevocationReaches, LiveOf
  <1>14. Sweeping'
    <2>1. ASSUME NEW s \in Requests, NEW g \in Undisturbed',
                 req'[s].pc \in RevokingPcs, req'[s].fam = g
          PROVE  LiveOf(g)' \subseteq req'[s].todo
      <3>1. s # r
        BY <2>1 DEF Rotate, End, Idle, RevokingPcs, TypeInv, TypeOK
      <3>2. req'[s] = req[s] /\ g \in Undisturbed /\ g \in Jtis
        BY <1>8, <3>1 DEF Rotate, End, TypeInv, TypeOK
      <3>3. Revoking(g)
        BY <2>1, <3>2 DEF Revoking, RevokingPcs
      <3>4. g # f
        BY <1>10, <3>3
      <3>5. LiveOf(g) \subseteq req[s].todo
        BY <2>1, <3>2 DEF FamilyInv, Sweeping
      <3> QED
        BY <1>9, <3>2, <3>4, <3>5
    <2> QED
      BY <2>1 DEF Sweeping, LiveOf
  <1> QED
    BY <1>11, <1>12, <1>13, <1>14 DEF FamilyInv

LEMMA FamilyInvNext == TypeInv /\ FamilyInv /\ [Next]_vars => FamilyInv'
  <1> SUFFICES ASSUME TypeInv, FamilyInv, [Next]_vars PROVE FamilyInv'
    OBVIOUS
  <1>0. /\ req \in [Requests -> ReqType] /\ Undisturbed \subseteq Jtis
        /\ \A r \in Requests : Good(req[r])
    BY DEF TypeInv, TypeOK, ReqType, ReqsGood, Undisturbed
  <1>1. ASSUME UNCHANGED <<token, family>> PROVE \A g \in Jtis : LiveOf(g)' = LiveOf(g)
    BY <1>1 DEF LiveOf
  \* Redis stays as it is, and so do the revocations that ran to their end.
  <1>2. ASSUME UNCHANGED <<redis, family, revoked>>, Undisturbed' \subseteq Undisturbed, Sweeping'
        PROVE  FamilyInv'
    <2>1. \A g \in Jtis : LiveOf(g)' = LiveOf(g)
      BY <1>1, <1>2 DEF redis
    <2>2. \A g \in Undisturbed' : LiveOf(g)' \subseteq members'[g] \cap listed'
      BY <1>0, <1>2, <2>1 DEF FamilyInv, LiveIsListed, redis
    <2> QED
      BY <1>2, <2>1, <2>2, FamilyStep
  <1>3. ASSUME NEW r \in Requests, NEW q, req' = [req EXCEPT ![r] = q],
               q.pc \notin RevokingPcs, UNCHANGED <<redis, family, revoked>>,
               Undisturbed' \subseteq Undisturbed
        PROVE  FamilyInv'
    <2>1. \A g \in Jtis : LiveOf(g)' \subseteq LiveOf(g)
      BY <1>1, <1>3 DEF redis
    <2>2. Sweeping'
      BY <1>3, <2>1, SweepEnd DEF FamilyInv
    <2> QED
      BY <1>2, <1>3, <2>2
  <1>3a. Idle.pc \notin RevokingPcs
    BY DEF Idle, RevokingPcs
  <1>4. ASSUME NEW r \in Requests, NEW j \in Jtis, Present(r, j) PROVE FamilyInv'
    <2> DEFINE q == [Idle EXCEPT !.pc = "get", !.jti = j]
    <2>1. q.pc \notin RevokingPcs
      BY DEF Idle, RevokingPcs
    <2>2. req' = [req EXCEPT ![r] = q] /\ UNCHANGED <<redis, family, revoked>>
          /\ Undisturbed' \subseteq Undisturbed
      BY <1>4 DEF Present, history, Undisturbed
    <2> HIDE DEF q
    <2> QED
      BY <1>3, <2>1, <2>2
  <1>5. ASSUME NEW r \in Requests, GetTokenState(r) PROVE FamilyInv'
    <2>1. UNCHANGED <<redis, family, revoked>> /\ Undisturbed' \subseteq Undisturbed
      BY <1>5 DEF GetTokenState, history, Undisturbed
    <2>2. CASE End(r)
      BY <1>3, <1>3a, <2>1, <2>2 DEF End
    <2>3. ASSUME NEW l \in {"smembers", "rotate"},
                 req' = [req EXCEPT ![r] = [@ EXCEPT !.pc = l, !.fam = family[req[r].jti]]]
          PROVE  FamilyInv'
      <3> DEFINE q == [req[r] EXCEPT !.pc = l, !.fam = family[req[r].jti]]
      <3>1. q.pc \notin RevokingPcs /\ req' = [req EXCEPT ![r] = q]
        BY <1>0, <2>3 DEF ReqType, RevokingPcs
      <3> HIDE DEF q
      <3> QED
        BY <1>3, <2>1, <3>1
    <2> QED
      BY <1>5, <2>2, <2>3 DEF GetTokenState
  <1>7. ASSUME NEW r \in Requests, Smembers(r) PROVE FamilyInv'
    <2>1. UNCHANGED <<redis, family, revoked>> /\ Undisturbed' \subseteq Undisturbed
      BY <1>7 DEF Smembers, history, Undisturbed
    <2>2. CASE End(r)
      BY <1>3, <1>3a, <2>1, <2>2 DEF End
    <2>3. ASSUME req' = [req EXCEPT ![r] = [@ EXCEPT !.pc = "del", !.todo = members[req[r].fam]]]
          PROVE  FamilyInv'
      <3>0. \A g \in Jtis : LiveOf(g)' = LiveOf(g)
        BY <1>1, <2>1 DEF redis
      <3>1. PICK q : q = [req[r] EXCEPT !.pc = "del", !.todo = members[req[r].fam]]
        OBVIOUS
      <3>2. req' = [req EXCEPT ![r] = q] /\ q.fam = req[r].fam /\ q.todo = members[q.fam]
        BY <1>0, <2>3, <3>1 DEF ReqType
      <3>3. q.fam \in Undisturbed' => LiveOf(q.fam)' \subseteq q.todo
        BY <1>0, <2>1, <3>0, <3>2 DEF FamilyInv, LiveIsListed
      <3>4. Sweeping'
        BY <2>1, <3>0, <3>2, <3>3, SweepStep DEF FamilyInv
      <3> QED
        BY <1>2, <2>1, <3>4
    <2> QED
      BY <1>7, <2>2, <2>3 DEF Smembers
  <1>8. ASSUME NEW r \in Requests, DelToken(r) PROVE FamilyInv'
    <2>1. PICK j \in req[r].todo :
             /\ token' = [token EXCEPT ![j] = "none"]
             /\ req' = [req EXCEPT ![r] = [req[r] EXCEPT !.pc = "srem", !.jti = j,
                                                         !.todo = Remaining(req[r].todo, j)]]
      BY <1>8 DEF DelToken
    <2>2. PICK q : q = [req[r] EXCEPT !.pc = "srem", !.jti = j, !.todo = Remaining(req[r].todo, j)]
      OBVIOUS
    <2>3. q.fam = req[r].fam /\ q.todo = req[r].todo \ {j} /\ req' = [req EXCEPT ![r] = q]
      BY <1>0, <2>1, <2>2 DEF ReqType, Remaining
    <2>4. \A g \in Jtis : LiveOf(g)' \subseteq LiveOf(g) \ {j}
      BY <1>8, <2>1 DEF DelToken, LiveOf, TypeInv, TypeOK
    <2>5. UNCHANGED <<members, listed, revoked>> /\ Undisturbed' = Undisturbed
      BY <1>8 DEF DelToken, history, Undisturbed
    <2>6. q.fam \in Undisturbed' => LiveOf(q.fam)' \subseteq q.todo
      <3> SUFFICES ASSUME q.fam \in Undisturbed PROVE LiveOf(q.fam)' \subseteq q.todo
        BY <2>5
      <3>1. LiveOf(q.fam) \subseteq req[r].todo
        BY <1>8, <2>3 DEF DelToken, At, FamilyInv, Sweeping, RevokingPcs
      <3> QED
        BY <1>0, <2>3, <2>4, <3>1
    <2>7. Sweeping'
      BY <2>3, <2>4, <2>5, <2>6, SweepStep DEF FamilyInv
    <2>8. \A g \in Undisturbed' : LiveOf(g)' \subseteq members'[g] \cap listed'
      BY <1>0, <2>4, <2>5 DEF FamilyInv, LiveIsListed
    <2> QED
      BY <2>4, <2>5, <2>7, <2>8, FamilyStep
  <1>9. ASSUME NEW r \in Requests, SremToken(r) PROVE FamilyInv'
    <2>1. PICK q : q = [req[r] EXCEPT !.pc = IF req[r].todo = {} THEN "delFamily" ELSE "del"]
      OBVIOUS
    <2>2. q.fam = req[r].fam /\ q.todo = req[r].todo /\ req' = [req EXCEPT ![r] = q]
      BY <1>0, <1>9, <2>1 DEF SremToken, ReqType
    <2>3. UNCHANGED <<token, family, members, revoked>> /\ Undisturbed' = Undisturbed
          /\ listed' = listed \ {req[r].jti} /\ req[r].pc = "srem"
      BY <1>9 DEF SremToken, At, history, Undisturbed
    <2>4. \A g \in Jtis : LiveOf(g)' = LiveOf(g)
      BY <1>1, <2>3
    <2>5. q.fam \in Undisturbed' => LiveOf(q.fam)' \subseteq q.todo
      BY <1>0, <2>2, <2>3, <2>4 DEF FamilyInv, Sweeping, RevokingPcs
    <2>6. Sweeping'
      BY <2>2, <2>3, <2>4, <2>5, SweepStep DEF FamilyInv
    <2>7. token[req[r].jti] # "live"
      BY <1>0, <2>3 DEF Good
    <2>8. \A g \in Undisturbed' : LiveOf(g)' \subseteq members'[g] \cap listed'
      <3> TAKE g \in Undisturbed'
      <3>1. LiveOf(g) \subseteq members[g] \cap listed
        BY <2>3 DEF FamilyInv, LiveIsListed
      <3>2. req[r].jti \notin LiveOf(g)
        BY <2>7 DEF LiveOf
      <3> QED
        BY <1>0, <2>3, <2>4, <3>1, <3>2
    <2> QED
      BY <2>3, <2>4, <2>6, <2>8, FamilyStep
  <1>10. ASSUME NEW r \in Requests, DelFamily(r) PROVE FamilyInv'
    <2> DEFINE f == req[r].fam
    <2>1. req' = [req EXCEPT ![r] = Idle] /\ UNCHANGED <<token, listed, family>>
          /\ members' = [members EXCEPT ![f] = {}] /\ revoked' = revoked \cup {f}
          /\ Undisturbed' = Undisturbed
      BY <1>10 DEF DelFamily, End, Undisturbed
    <2>2. \A g \in Jtis : LiveOf(g)' = LiveOf(g)
      BY <1>1, <2>1
    <2>3. Sweeping'
      BY <1>3a, <2>1, <2>2, SweepEnd DEF FamilyInv
    <2>4. f \in Undisturbed => LiveOf(f) = {}
      BY <1>0, <1>10 DEF DelFamily, At, FamilyInv, Sweeping, RevokingPcs, Good
    <2>5. ASSUME NEW g \in Undisturbed' PROVE LiveOf(g)' \subseteq members'[g] \cap listed'
      <3>1. g \in Undisturbed /\ g \in Jtis /\ LiveOf(g)' = LiveOf(g)
        BY <1>0, <2>1, <2>2
      <3>2. CASE g = f
        <4>1. LiveOf(g)' = {}
          BY <2>4, <3>1, <3>2
        <4> QED
          BY <4>1
      <3>3. CASE g # f
        <4>1. members'[g] = members[g] /\ listed' = listed
          BY <2>1, <3>1, <3>3 DEF TypeInv, TypeOK
        <4>2. LiveOf(g) \subseteq members[g] \cap listed
          BY <3>1 DEF FamilyInv, LiveIsListed
        <4> QED
          BY <3>1, <4>1, <4>2
      <3> QED
        BY <3>2, <3>3
    <2>6. \A g \in revoked' \ revoked : g \in Undisturbed' => LiveOf(g)' = {}
      BY <1>0, <2>1, <2>2, <2>4
    <2> QED
      BY <2>1, <2>2, <2>3, <2>5, <2>6, FamilyStep
  <1>11. ASSUME NEW r \in Requests, RevocationFails(r) PROVE FamilyInv'
    <2>1. Undisturbed' \subseteq Undisturbed /\ UNCHANGED <<redis, family, revoked>>
          /\ req' = [req EXCEPT ![r] = Idle]
      BY <1>11 DEF RevocationFails, End, Undisturbed
    <2> QED
      BY <1>3, <1>3a, <2>1
  <1>12. ASSUME NEW j \in Jtis, TokenExpires(j) PROVE FamilyInv'
    <2>1. \A g \in Jtis : LiveOf(g)' \subseteq LiveOf(g)
      BY <1>12 DEF TokenExpires, LiveOf, TypeInv, TypeOK
    <2>2. UNCHANGED <<members, listed, revoked, req>> /\ Undisturbed' = Undisturbed
      BY <1>12 DEF TokenExpires, history, Undisturbed
    <2>3. Sweeping'
      BY <2>1, <2>2, SweepSame DEF FamilyInv
    <2>4. \A g \in Undisturbed' : LiveOf(g)' \subseteq members'[g] \cap listed'
      BY <1>0, <2>1, <2>2 DEF FamilyInv, LiveIsListed
    <2> QED
      BY <2>1, <2>2, <2>3, <2>4, FamilyStep
  <1>13. ASSUME Crash PROVE FamilyInv'
    <2>1. Undisturbed' \subseteq Undisturbed /\ UNCHANGED <<redis, family, revoked>>
      BY <1>13 DEF Crash, Undisturbed
    <2>2. Sweeping'
      BY <1>3a, <1>13 DEF Crash, Sweeping
    <2> QED
      BY <1>2, <2>1, <2>2
  <1>14. ASSUME UNCHANGED vars PROVE FamilyInv'
    <2>1. Undisturbed' = Undisturbed /\ UNCHANGED <<redis, family, revoked, req, token>>
      BY <1>14 DEF vars, redis, Undisturbed
    <2>2. Sweeping'
      BY <1>1, <2>1, SweepSame DEF FamilyInv
    <2> QED
      BY <1>2, <2>1, <2>2
  <1> QED
    BY <1>4, <1>5, <1>7, <1>8, <1>9, <1>10, <1>11, <1>12, <1>13, <1>14, FamilyLogin, FamilyRotate
       DEF Next, Step

LEMMA FamilyInvHolds == Spec => []FamilyInv
  <1>1. Init => FamilyInv
    <2> SUFFICES ASSUME Init PROVE FamilyInv
      OBVIOUS
    <2>1. \A g : LiveOf(g) = {}
      BY DEF Init, LiveOf
    <2>2. Sweeping
      BY <2>1 DEF Sweeping
    <2> QED
      BY <2>1, <2>2 DEF FamilyInv, LiveIsListed, LiveIsUnique, RevocationReaches
  <1> QED
    BY <1>1, TypeInvHolds, FamilyInvNext, PTL DEF Spec

\* However logins, rotations and revocations overlap, every live token of a family that
\* nothing has raced or cut short is in the set of its family and in that of its user.
THEOREM LiveListed == Spec => []LiveIsListed
  BY FamilyInvHolds, PTL DEF FamilyInv

\* While revokeFamily deletes member by member from a list it read earlier, every token
\* of the family that is still live is on what is left of that list, unless a rotation
\* overlapped the revocation or a call of either was cut short.
THEOREM ListCoversLive == Spec => []Sweeping
  BY FamilyInvHolds, PTL DEF FamilyInv

\* A revocation that has run to its end has reached every token of the family, and none
\* comes back: a consumed token that is presented again ends the family, unless a
\* rotation overlapped the revocation or a call of either was cut short.
THEOREM RevocationComplete == Spec => []RevocationReaches
  BY FamilyInvHolds, PTL DEF FamilyInv

\* A family never has two live tokens, whatever overlaps, unless a token was rotated
\* after it had been consumed or revoked, or a pipeline was cut short.
THEOREM OneLive == Spec => []OneLivePerFamily
  <1>1. TypeInv /\ FamilyInv => OneLivePerFamily
    <2> SUFFICES ASSUME FamilyInv, NEW f \in Undisturbed
                 PROVE  Cardinality(LiveOf(f)) <= 1
      BY DEF OneLivePerFamily
    <2>1. \A i, j \in LiveOf(f) : i = j
      BY DEF FamilyInv, LiveIsUnique
    <2>2. CASE LiveOf(f) = {}
      <3>1. Cardinality(LiveOf(f)) = 0
        BY <2>2, FS_EmptySet
      <3> QED
        BY <3>1
    <2>3. CASE LiveOf(f) # {}
      <3>1. PICK i : LiveOf(f) = {i}
        BY <2>1, <2>3
      <3>2. Cardinality(LiveOf(f)) = 1
        BY <3>1, FS_Singleton
      <3> QED
        BY <3>2
    <2> QED
      BY <2>2, <2>3
  <1> QED
    BY <1>1, TypeInvHolds, FamilyInvHolds, PTL
=============================================================================
