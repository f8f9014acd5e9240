-------------------------- MODULE McpGatewayProofs --------------------------
(***************************************************************************)
(* Proofs about McpGateway for any number of calls, members, threads and   *)
(* connections.                                                            *)
(***************************************************************************)
EXTENDS McpGateway, FiniteSetTheorems, TLAPS

-----------------------------------------------------------------------------

(* Requests, and what moving one of them does.                             *)

Types ==
    /\ names \in [Calls -> Asked]
    /\ call \in [Calls -> {"idle", "listing", "writing", "ok", "refused", "lost"}]
    /\ parts \in [Calls -> SUBSET Users]
    /\ phase \in [Requests -> {"unsent", "queued", "connecting", "authed", "running",
                               "checked", "done"}]
    /\ code \in [Requests -> {0, 200, 201, 401, 403, 500}]
    /\ listed \in [Calls -> SUBSET Users]
    /\ active \subseteq Users /\ token \in BOOLEAN
    /\ left \in [Calls -> SUBSET Users]
    /\ written \subseteq Calls

Pools == Cardinality(InThread) <= Threads /\ Cardinality(Connected) <= Connections

LEMMA Members == ASSUME NEW c \in Calls PROVE <<c, "members">> \in Requests /\ <<c, "write">> \in Requests
  BY DEF Requests

LEMMA TypesInit == Init => Types
<1> SUFFICES ASSUME Init PROVE Types
  OBVIOUS
<1> QED
  BY DEF Init, Types

(* Who stands for a name that is carried by somebody.                      *)
LEMMA LastListedIn ==
    ASSUME NEW S \in SUBSET Users, S # {}
    PROVE  LastListed(S) \in S
  BY ListingAssumption DEF LastListed

LEMMA ResolvedNamed ==
    ASSUME Types, NEW c \in Calls, Missing(c) = {}
    PROVE  /\ Resolved(c) \subseteq Users
           /\ {NameOf[u] : u \in Resolved(c)} = names[c]
<1>1. ASSUME NEW n \in names[c]
      PROVE  /\ LastListed(Carrying(n, listed[c])) \in Users
             /\ NameOf[LastListed(Carrying(n, listed[c]))] = n
  <2>1. Carrying(n, listed[c]) \in SUBSET Users /\ Carrying(n, listed[c]) # {}
    BY DEF Carrying, Missing, Types
  <2>2. LastListed(Carrying(n, listed[c])) \in Carrying(n, listed[c])
    BY <2>1, LastListedIn
  <2> QED
    BY <2>1, <2>2 DEF Carrying
<1> QED
  BY <1>1 DEF Resolved

LEMMA RespondTypes ==
    ASSUME Types, NEW r \in Requests, NEW status \in {200, 201, 401, 403, 500},
           Respond(r, status)
    PROVE  /\ phase' \in [Requests -> {"unsent", "queued", "connecting", "authed", "running",
                                       "checked", "done"}]
           /\ code' \in [Requests -> {0, 200, 201, 401, 403, 500}]
  BY DEF Types, Respond, To

LEMMA TypesNext == Types /\ [Next]_vars => Types'
<1> SUFFICES ASSUME Types, [Next]_vars PROVE Types'
  OBVIOUS
<1> USE DEF Types
<1>1. ASSUME NEW c \in Calls, Call(c) PROVE Types'
  BY <1>1, Members, ConstantsAssumption DEF Call, SendWrite, Gateway, To
<1>2. ASSUME NEW c \in Calls, Resolve(c) PROVE Types'
  BY <1>2, Members, ResolvedNamed, ConstantsAssumption DEF Resolve, SendWrite, Gateway, To
<1>3. ASSUME NEW c \in Calls, Answer(c) PROVE Types'
  BY <1>3 DEF Answer, Gateway, server
<1>4. ASSUME NEW c \in Calls, GiveUp(c) PROVE Types'
  BY <1>4 DEF GiveUp, Gateway, server
<1>5. ASSUME NEW r \in Requests, StartDependency(r) PROVE Types'
  BY <1>5 DEF StartDependency, To, gateway
<1>6. ASSUME NEW r \in Requests, Authenticate(r) PROVE Types'
  <2>1. CASE To(r, "authed") /\ UNCHANGED code
    BY <1>6, <2>1 DEF Authenticate, To, gateway
  <2>2. CASE Respond(r, 401)
    BY <1>6, <2>2 DEF Authenticate, Respond, To, gateway
  <2> QED
    BY <1>6, <2>1, <2>2 DEF Authenticate
<1>7. ASSUME NEW r \in Requests, PoolTimeout(r) PROVE Types'
  BY <1>7 DEF PoolTimeout, To, Respond, gateway
<1>8. ASSUME NEW r \in Requests, StartRoute(r) PROVE Types'
  BY <1>8 DEF StartRoute, To, gateway
<1>9. ASSUME NEW c \in Calls, ListMembers(c) PROVE Types'
  BY <1>9, Members DEF ListMembers, To, Respond, gateway
<1>10. ASSUME NEW c \in Calls, CheckWrite(c) PROVE Types'
  <2>1. CASE To(<<c, "write">>, "checked") /\ UNCHANGED code
    BY <1>10, <2>1, Members DEF CheckWrite, To, gateway
  <2>2. CASE Respond(<<c, "write">>, 403)
    <3>1. <<c, "write">> \in Requests
      BY Members
    <3> HIDE DEF Types
    <3>2. /\ phase' \in [Requests -> {"unsent", "queued", "connecting", "authed", "running",
                                      "checked", "done"}]
          /\ code' \in [Requests -> {0, 200, 201, 401, 403, 500}]
      BY <2>2, <3>1, RespondTypes, SMT
    <3> QED
      BY <1>10, <3>2 DEF CheckWrite, gateway, Types
  <2> QED
    BY <1>10, <2>1, <2>2 DEF CheckWrite
<1>11. ASSUME NEW c \in Calls, CommitWrite(c) PROVE Types'
  <2>1. Respond(<<c, "write">>, 201) /\ written' = written \union {c}
    BY <1>11 DEF CommitWrite
  <2>2. /\ phase' \in [Requests -> {"unsent", "queued", "connecting", "authed", "running",
                                    "checked", "done"}]
        /\ code' \in [Requests -> {0, 200, 201, 401, 403, 500}]
    <3>1. <<c, "write">> \in Requests
      BY Members
    <3> HIDE DEF Types
    <3> QED
      BY <2>1, <3>1, RespondTypes, SMT
  <2> QED
    BY <1>11, <2>1, <2>2 DEF CommitWrite, gateway
<1>12. ASSUME NEW u \in Users, Leave(u) PROVE Types'
  BY <1>12 DEF Leave, gateway, server
<1>13. CASE Revoke
  BY <1>13 DEF Revoke, gateway, server
<1>14. CASE UNCHANGED vars
  BY <1>14 DEF vars
<1>15. ASSUME NEW r \in Requests, Serve(r) PROVE Types'
  <2>1. r[1] \in Calls
    BY DEF Requests
  <2> QED
    BY <1>5, <1>6, <1>7, <1>8, <1>9, <1>10, <1>11, <1>15, <2>1 DEF Serve
<1> QED
  BY <1>1, <1>2, <1>3, <1>4, <1>12, <1>13, <1>14, <1>15 DEF Next

-----------------------------------------------------------------------------

(* The two pools are never overdrawn.                                      *)

LEMMA FiniteRequests == \A S \in SUBSET Requests : IsFiniteSet(S) /\ Cardinality(S) \in Nat
<1>1. IsFiniteSet({"members", "write"})
  <2>1. IsFiniteSet({} \union {"members"})
    BY FS_EmptySet, FS_AddElement, Zenon
  <2>2. IsFiniteSet(({} \union {"members"}) \union {"write"})
    BY <2>1, FS_AddElement, Zenon
  <2>3. {"members", "write"} = ({} \union {"members"}) \union {"write"}
    OBVIOUS
  <2> QED
    BY <2>2, <2>3, Zenon
<1>2. IsFiniteSet(Requests)
  BY <1>1, FS_Product, ConstantsAssumption DEF Requests
<1> QED
  BY <1>2, FS_Subset, FS_CardinalityType

(* A pool that grows by one when there was room, or does not grow.         *)
LEMMA Grows ==
    ASSUME NEW S \in SUBSET Requests, NEW T \in SUBSET Requests, NEW r, NEW n \in Nat,
           Cardinality(S) <= n, T \subseteq S \/ (T \subseteq S \union {r} /\ Cardinality(S) < n)
    PROVE  Cardinality(T) <= n
<1>1. IsFiniteSet(S) /\ Cardinality(S) \in Nat /\ Cardinality(T) \in Nat
  BY FiniteRequests
<1>2. CASE T \subseteq S
  BY <1>1, <1>2, FS_Subset
<1>3. CASE T \subseteq S \union {r} /\ Cardinality(S) < n
  <2>1. IsFiniteSet(S \union {r}) /\ Cardinality(S \union {r}) <= Cardinality(S) + 1
    BY <1>1, FS_AddElement
  <2>2. Cardinality(T) <= Cardinality(S \union {r})
    BY <1>3, <2>1, FS_Subset
  <2>3. Cardinality(S \union {r}) \in Nat
    BY <1>1, <2>1, FS_CardinalityType
  <2> QED
    BY <1>1, <1>3, <2>1, <2>2, <2>3
<1> QED
  BY <1>2, <1>3

(* What the move of one request does to the pools.                         *)
LEMMA Moves ==
    ASSUME Types, Pools, NEW r \in Requests, NEW p, To(r, p),
           p \in {"connecting", "running", "checked"} =>
               r \in InThread \/ FreeThread,
           p \in {"authed", "running", "checked"} =>
               r \in Connected \/ FreeConnection
    PROVE  Pools'
<1>1. \A q \in Requests : phase'[q] = IF q = r THEN p ELSE phase[q]
  BY DEF To, Types
<1>2. /\ InThread \in SUBSET Requests /\ InThread' \in SUBSET Requests
      /\ Connected \in SUBSET Requests /\ Connected' \in SUBSET Requests
  BY DEF InThread, Connected
<1>3. InThread' \subseteq InThread \/ (InThread' \subseteq InThread \union {r} /\ FreeThread)
  BY <1>1 DEF InThread
<1>4. Connected' \subseteq Connected \/ (Connected' \subseteq Connected \union {r} /\ FreeConnection)
  BY <1>1 DEF Connected
<1>5. Threads \in Nat /\ Connections \in Nat
  BY ConstantsAssumption
<1>6. Cardinality(InThread') <= Threads
  BY <1>2, <1>3, <1>5, Grows DEF Pools, FreeThread
<1>7. Cardinality(Connected') <= Connections
  BY <1>2, <1>4, <1>5, Grows DEF Pools, FreeConnection
<1> QED
  BY <1>6, <1>7 DEF Pools

LEMMA PoolsKept == ASSUME Pools, UNCHANGED phase PROVE Pools'
  BY DEF Pools, InThread, Connected

LEMMA PoolsInit == Init => Pools
<1> SUFFICES ASSUME Init PROVE Pools
  OBVIOUS
<1>1. InThread = {} /\ Connected = {}
  BY DEF Init, InThread, Connected
<1> QED
  BY <1>1, FS_EmptySet, ConstantsAssumption DEF Pools

LEMMA PoolsNext == Types /\ Pools /\ [Next]_vars => Pools'
<1> SUFFICES ASSUME Types, Pools, [Next]_vars PROVE Pools'
  OBVIOUS
<1>1. ASSUME NEW c \in Calls, Call(c) PROVE Pools'
  <2>1. CASE \E people \in {{}, {Actor}} : SendWrite(c, people)
    BY <2>1, Members, Moves DEF SendWrite
  <2>2. CASE To(<<c, "members">>, "queued")
    BY <2>2, Members, Moves
  <2> QED
    BY <1>1, <2>1, <2>2 DEF Call
<1>2. ASSUME NEW c \in Calls, Resolve(c) PROVE Pools'
  <2>1. CASE SendWrite(c, Resolved(c))
    BY <2>1, Members, Moves DEF SendWrite
  <2>2. CASE UNCHANGED phase
    BY <2>2, PoolsKept
  <2> QED
    BY <1>2, <2>1, <2>2 DEF Resolve
<1>3. ASSUME NEW c \in Calls, Answer(c) \/ GiveUp(c) PROVE Pools'
  BY <1>3, PoolsKept DEF Answer, GiveUp, server
<1>4. ASSUME NEW r \in Requests, Serve(r) PROVE Pools'
  <2>1. CASE StartDependency(r)
    BY <2>1, Moves DEF StartDependency
  <2>2. CASE Authenticate(r)
    BY <2>2, Moves DEF Authenticate, Respond
  <2>3. CASE PoolTimeout(r)
    BY <2>3, Moves DEF PoolTimeout, Respond
  <2>4. CASE StartRoute(r)
    BY <2>4, Moves DEF StartRoute, Connected
  <2>5. CASE r[2] = "members" /\ ListMembers(r[1])
    <3>1. r = <<r[1], "members">>
      BY <2>5 DEF Requests
    <3> QED
      BY <2>5, <3>1, Moves DEF ListMembers, Respond
  <2>6. CASE r[2] = "write" /\ (CheckWrite(r[1]) \/ CommitWrite(r[1]))
    <3>1. r = <<r[1], "write">>
      BY <2>6 DEF Requests
    <3>2. CASE CheckWrite(r[1])
      BY <3>1, <3>2, Moves DEF CheckWrite, Respond, InThread, Connected
    <3>3. CASE CommitWrite(r[1])
      BY <3>1, <3>3, Moves DEF CommitWrite, Respond
    <3> QED
      BY <2>6, <3>2, <3>3
  <2> QED
    BY <1>4, <2>1, <2>2, <2>3, <2>4, <2>5, <2>6 DEF Serve
<1>5. CASE (\E u \in Users : Leave(u)) \/ Revoke \/ UNCHANGED vars
  BY <1>5, PoolsKept DEF Leave, Revoke, server, vars
<1> QED
  BY <1>1, <1>2, <1>3, <1>4, <1>5 DEF Next

(* Every variable stays in its type and the pools within their limits, for *)
(* any number of threads and connections (database.py 6-7).                *)
THEOREM TypeCorrect == Spec => []TypeOK
<1>1. Types /\ Pools <=> TypeOK
  BY DEF Types, Pools, TypeOK
<1>2. Init => TypeOK
  BY <1>1, TypesInit, PoolsInit
<1>3. TypeOK /\ [Next]_vars => TypeOK'
  <2>1. TypeOK /\ [Next]_vars => Types' /\ Pools'
    BY <1>1, TypesNext, PoolsNext
  <2>2. Types' /\ Pools' => TypeOK'
    BY DEF Types, Pools, TypeOK
  <2> QED
    BY <2>1, <2>2
<1> QED
  BY <1>2, <1>3, PTL DEF Spec

-----------------------------------------------------------------------------

(* What a step may do to one call and its write.  The other call's steps   *)
(* leave both as they are.                                                 *)

W(c) == <<c, "write">>

Asks(c, people) ==
    IF names[c] = {} THEN people \subseteq {Actor}
    ELSE {NameOf[u] : u \in people} = names[c]

WriteStill(c) ==
    /\ phase'[W(c)] = phase[W(c)] /\ code'[W(c)] = code[W(c)]
    /\ c \in written' <=> c \in written

GatewayStill(c) ==
    /\ call'[c] = call[c] /\ parts'[c] = parts[c] /\ left'[c] = left[c]

(* The write is sent.                                                      *)
Sends(c) ==
    /\ call[c] \in {"idle", "listing"} /\ call'[c] = "writing"
    /\ Asks(c, parts'[c])
    /\ left'[c] = (Users \ active) \union (IF token THEN {} ELSE {Actor})
    /\ phase'[W(c)] = "queued" /\ code'[W(c)] = code[W(c)]
    /\ c \in written' <=> c \in written
    /\ active' = active /\ token' = token

(* The call goes on to the listing, or ends.                               *)
Ends(c) ==
    /\ \/ call[c] = "idle" /\ call'[c] = "listing"
       \/ call[c] \in {"listing", "writing"} /\ call'[c] = "lost"
       \/ call[c] = "listing" /\ call'[c] = "refused"
       \/ /\ call[c] = "writing" /\ phase[W(c)] = "done"
          /\ call'[c] = IF code[W(c)] = 201 THEN "ok" ELSE "refused"
    /\ parts'[c] = parts[c] /\ left'[c] = left[c]
    /\ WriteStill(c)
    /\ active' = active /\ token' = token

(* The server takes the write on, refuses it, or commits it.               *)
Goes(c) ==
    /\ phase[W(c)] \notin {"unsent", "done"}
    /\ \/ /\ phase'[W(c)] \in {"connecting", "authed", "running", "checked"}
          /\ phase'[W(c)] = "connecting" => phase[W(c)] = "queued"
          /\ phase'[W(c)] = "authed" => phase[W(c)] = "connecting" /\ token
          /\ phase'[W(c)] = "running" => phase[W(c)] = "authed"
          /\ phase'[W(c)] = "checked" => phase[W(c)] = "running" /\ Allowed(c)
          /\ code'[W(c)] = code[W(c)]
          /\ c \in written' <=> c \in written
       \/ /\ phase'[W(c)] = "done" /\ code'[W(c)] \in {401, 403, 500}
          /\ c \in written' <=> c \in written
       \/ /\ phase[W(c)] = "checked" /\ phase'[W(c)] = "done" /\ code'[W(c)] = 201
          /\ c \in written'
    /\ GatewayStill(c)
    /\ active' = active /\ token' = token

(* Somebody leaves or the token is revoked, or another call goes on.       *)
Waits(c) ==
    /\ WriteStill(c) /\ GatewayStill(c)
    /\ active' \subseteq active /\ (token' => token)

CallStep(c) == names'[c] = names[c] /\ (Sends(c) \/ Ends(c) \/ Goes(c) \/ Waits(c))

LEMMA Moved ==
    ASSUME Types, NEW r \in Requests, NEW p, To(r, p)
    PROVE  \A q \in Requests : phase'[q] = IF q = r THEN p ELSE phase[q]
  BY DEF To, Types

LEMMA Responded ==
    ASSUME Types, NEW r \in Requests, NEW status, Respond(r, status)
    PROVE  \A q \in Requests :
             /\ phase'[q] = IF q = r THEN "done" ELSE phase[q]
             /\ code'[q] = IF q = r THEN status ELSE code[q]
  BY DEF Respond, To, Types

LEMMA Writes ==
    /\ \A c \in Calls : W(c) \in Requests /\ <<c, "members">> \in Requests
    /\ \A c, d \in Calls : W(c) = W(d) <=> c = d
    /\ \A c, d \in Calls : <<c, "members">> # W(d)
  BY DEF W, Requests

(* The write of d is sent; the other writes stay.                          *)
LEMMA SendWriteStep ==
    ASSUME Types, NEW c \in Calls, NEW d \in Calls, NEW people,
           SendWrite(d, people), Asks(d, people), call[d] \in {"idle", "listing"},
           UNCHANGED <<names, code, listed, written, active, token>>
    PROVE  CallStep(c)
<1>1. To(W(d), "queued")
  BY DEF SendWrite, W
<1>2. phase'[W(c)] = IF c = d THEN "queued" ELSE phase[W(c)]
  <2>1. \A q \in Requests : phase'[q] = IF q = W(d) THEN "queued" ELSE phase[q]
    <3>1. W(d) \in Requests
      BY Writes
    <3> QED
      BY <1>1, <3>1, Moved
  <2> QED
    BY <2>1, Writes
<1>3. /\ call'[c] = IF c = d THEN "writing" ELSE call[c]
      /\ parts'[c] = IF c = d THEN people ELSE parts[c]
      /\ left'[c] = IF c = d THEN (Users \ active) \union (IF token THEN {} ELSE {Actor})
                    ELSE left[c]
  BY DEF SendWrite, Gateway, Types
<1>4. CASE c = d
  BY <1>2, <1>3, <1>4 DEF CallStep, Sends
<1>5. CASE c # d
  BY <1>2, <1>3, <1>5 DEF CallStep, Waits, WriteStill, GatewayStill
<1> QED
  BY <1>4, <1>5

LEMMA GatewayStep ==
    ASSUME Types, NEW c \in Calls, NEW d \in Calls,
           Call(d) \/ Resolve(d) \/ Answer(d) \/ GiveUp(d)
    PROVE  CallStep(c)
<1>1. ASSUME NEW state, Gateway(d, state)
      PROVE  call'[c] = IF c = d THEN state ELSE call[c]
  BY <1>1 DEF Gateway, Types
<1>2. CASE Call(d)
  <2>1. CASE names[d] = {} /\ \E people \in {{}, {Actor}} : SendWrite(d, people)
    <3>1. PICK people \in {{}, {Actor}} : SendWrite(d, people)
      BY <2>1
    <3>2. Asks(d, people)
      BY <2>1, <3>1 DEF Asks
    <3> QED
      BY <1>2, <3>1, <3>2, SendWriteStep DEF Call
  <2>2. CASE Gateway(d, "listing") /\ To(<<d, "members">>, "queued") /\ UNCHANGED <<parts, left>>
    <3>1. <<d, "members">> \in Requests /\ W(c) \in Requests /\ <<d, "members">> # W(c)
      BY Writes
    <3>2. \A q \in Requests : phase'[q] = IF q = <<d, "members">> THEN "queued" ELSE phase[q]
      BY <2>2, <3>1, Moved
    <3>3. phase'[W(c)] = phase[W(c)]
      BY <3>1, <3>2
    <3> QED
      BY <1>1, <1>2, <2>2, <3>3
      DEF Call, CallStep, Ends, Waits, WriteStill, GatewayStill
  <2> QED
    BY <1>2, <2>1, <2>2 DEF Call
<1>3. CASE Resolve(d)
  <2>1. CASE Missing(d) = {} /\ SendWrite(d, Resolved(d))
    <3>1. Resolved(d) = {} => names[d] = {}
      BY DEF Resolved
    <3>2. Asks(d, Resolved(d))
      BY <2>1, ResolvedNamed DEF Asks, Resolved
    <3> QED
      BY <1>3, <2>1, <3>2, SendWriteStep DEF Resolve
  <2>2. CASE Gateway(d, "refused") /\ UNCHANGED <<parts, phase, left>>
    BY <1>1, <1>3, <2>2 DEF Resolve, CallStep, Ends, Waits, WriteStill, GatewayStill
  <2> QED
    BY <1>3, <2>1, <2>2 DEF Resolve
<1>4. CASE Answer(d) \/ GiveUp(d)
  BY <1>1, <1>4 DEF Answer, GiveUp, server, W, CallStep, Ends, Waits, WriteStill, GatewayStill
<1> QED
  BY <1>2, <1>3, <1>4

LEMMA ServerStep ==
    ASSUME Types, NEW c \in Calls, NEW r \in Requests, Serve(r)
    PROVE  CallStep(c)
<1>1. UNCHANGED <<gateway, active, token>>
  BY DEF Serve, StartDependency, Authenticate, PoolTimeout, StartRoute, ListMembers,
         CheckWrite, CommitWrite
<1>2. CASE r # W(c)
  <2>1. ASSUME NEW p, To(r, p) PROVE phase'[W(c)] = phase[W(c)]
    BY <1>2, <2>1, Moved, Writes
  <2>2. ASSUME NEW status, Respond(r, status)
        PROVE  phase'[W(c)] = phase[W(c)] /\ code'[W(c)] = code[W(c)]
    BY <1>2, <2>2, Responded, Writes
  <2>3. ASSUME StartDependency(r) \/ StartRoute(r) PROVE WriteStill(c)
    BY <2>1, <2>3 DEF StartDependency, StartRoute, WriteStill
  <2>4. ASSUME Authenticate(r) \/ PoolTimeout(r) PROVE WriteStill(c)
    BY <2>1, <2>2, <2>4 DEF Authenticate, PoolTimeout, WriteStill
  <2>5. ASSUME r[2] = "members", ListMembers(r[1]) PROVE WriteStill(c)
    <3>1. r = <<r[1], "members">>
      BY <2>5 DEF Requests
    <3> QED
      BY <2>2, <2>5, <3>1 DEF ListMembers, WriteStill
  <2>6. ASSUME r[2] = "write", CheckWrite(r[1]) \/ CommitWrite(r[1]) PROVE WriteStill(c)
    <3>1. r = <<r[1], "write">> /\ r[1] # c
      BY <1>2, <2>6 DEF Requests, W
    <3> QED
      BY <2>1, <2>2, <2>6, <3>1 DEF CheckWrite, CommitWrite, WriteStill
  <2>7. WriteStill(c)
    BY <2>3, <2>4, <2>5, <2>6 DEF Serve
  <2> QED
    BY <1>1, <2>7 DEF CallStep, Waits, GatewayStill, gateway
<1>3. CASE r = W(c)
  <2>1. r[1] = c /\ r[2] = "write" /\ r = <<c, "write">>
    BY <1>3 DEF W
  <2>2. ASSUME NEW p, To(r, p) PROVE phase'[W(c)] = p
    BY <1>3, <2>2, Moved
  <2>3. ASSUME NEW status, Respond(r, status)
        PROVE  phase'[W(c)] = "done" /\ code'[W(c)] = status
    BY <1>3, <2>3, Responded
  <2>4. CASE StartDependency(r)
    BY <1>1, <1>3, <2>2, <2>4 DEF StartDependency, CallStep, Goes, GatewayStill, gateway
  <2>5. CASE Authenticate(r)
    BY <1>1, <1>3, <2>2, <2>3, <2>5 DEF Authenticate, CallStep, Goes, GatewayStill, gateway
  <2>6. CASE PoolTimeout(r)
    BY <1>1, <1>3, <2>3, <2>6 DEF PoolTimeout, CallStep, Goes, GatewayStill, gateway
  <2>7. CASE StartRoute(r)
    BY <1>1, <1>3, <2>2, <2>7 DEF StartRoute, CallStep, Goes, GatewayStill, gateway
  <2>8. CASE CheckWrite(c)
    BY <1>1, <1>3, <2>1, <2>2, <2>3, <2>8 DEF CheckWrite, CallStep, Goes, GatewayStill, gateway
  <2>9. CASE CommitWrite(c)
    BY <1>1, <1>3, <2>1, <2>3, <2>9 DEF CommitWrite, CallStep, Goes, GatewayStill, gateway
  <2> QED
    BY <2>1, <2>4, <2>5, <2>6, <2>7, <2>8, <2>9 DEF Serve
<1> QED
  BY <1>2, <1>3

LEMMA EveryStep == Types /\ [Next]_vars => \A c \in Calls : CallStep(c)
<1> SUFFICES ASSUME Types, [Next]_vars, NEW c \in Calls PROVE CallStep(c)
  OBVIOUS
<1>1. CASE (\E u \in Users : Leave(u)) \/ Revoke \/ UNCHANGED vars
  BY <1>1 DEF Leave, Revoke, gateway, server, vars, CallStep, Waits, WriteStill, GatewayStill
<1> QED
  BY <1>1, GatewayStep, ServerStep DEF Next

-----------------------------------------------------------------------------

(* What holds of each call.                                                *)

(* How far the write is, what the gateway knows, and what is committed.    *)
Fate(c) ==
    /\ call[c] \in {"idle", "listing"} => phase[W(c)] = "unsent"
    /\ c \in written <=> code[W(c)] = 201
    /\ c \in written => phase[W(c)] = "done"
    /\ call[c] = "ok" => c \in written
    /\ call[c] = "refused" => c \notin written /\ phase[W(c)] \in {"unsent", "done"}

(* Who had left does not come back; whose token was revoked gets no        *)
(* further than the dependency.                                            *)
Leavers(c) ==
    /\ \A u \in left[c] : u # Actor => u \notin active
    /\ Actor \in left[c] =>
          \/ Actor \notin active
          \/ ~token /\ phase[W(c)] \in {"queued", "connecting", "done"}
    /\ phase[W(c)] = "checked" \/ c \in written =>
          (parts[c] \union {Actor}) \cap left[c] = {}

Named(c) == phase[W(c)] # "unsent" => Asks(c, parts[c])

CallInv(c) == Fate(c) /\ Leavers(c) /\ Named(c)

GatewayInv == Types /\ \A c \in Calls : CallInv(c)

LEMMA FateKept == ASSUME NEW c \in Calls, Fate(c), CallStep(c) PROVE Fate(c)'
<1>1. CASE Sends(c)
  BY <1>1 DEF Sends, Fate, W
<1>2. CASE Ends(c)
  BY <1>2 DEF Ends, WriteStill, Fate, W
<1>3. CASE Goes(c)
  BY <1>3 DEF Goes, GatewayStill, Fate, W
<1>4. CASE Waits(c)
  BY <1>4 DEF Waits, WriteStill, GatewayStill, Fate, W
<1> QED
  BY <1>1, <1>2, <1>3, <1>4 DEF CallStep

LEMMA LeaversKept ==
    ASSUME Types, NEW c \in Calls, Fate(c), Leavers(c), CallStep(c) PROVE Leavers(c)'
<1>1. CASE Sends(c)
  BY <1>1 DEF Sends, Fate, Leavers, Types, W
<1>2. CASE Ends(c)
  BY <1>2 DEF Ends, WriteStill, Leavers, W
<1>3. CASE Goes(c)
  <2>1. CASE phase'[W(c)] = "checked"
    BY <1>3, <2>1 DEF Goes, GatewayStill, Leavers, Fate, Allowed, W
  <2>2. CASE phase'[W(c)] # "checked"
    BY <1>3, <2>2 DEF Goes, GatewayStill, Leavers, Fate, W
  <2> QED
    BY <2>1, <2>2
<1>4. CASE Waits(c)
  BY <1>4 DEF Waits, WriteStill, GatewayStill, Leavers, W
<1> QED
  BY <1>1, <1>2, <1>3, <1>4 DEF CallStep

LEMMA NamedKept == ASSUME NEW c \in Calls, Named(c), CallStep(c) PROVE Named(c)'
<1>1. CASE Sends(c)
  BY <1>1 DEF CallStep, Sends, Named, Asks, W
<1>2. CASE Ends(c)
  BY <1>2 DEF CallStep, Ends, WriteStill, Named, Asks, W
<1>3. CASE Goes(c)
  BY <1>3 DEF CallStep, Goes, GatewayStill, Named, Asks, W
<1>4. CASE Waits(c)
  BY <1>4 DEF CallStep, Waits, WriteStill, GatewayStill, Named, Asks, W
<1> QED
  BY <1>1, <1>2, <1>3, <1>4 DEF CallStep

LEMMA GatewayInvariant == Spec => []GatewayInv
<1>1. Init => GatewayInv
  <2> SUFFICES ASSUME Init PROVE GatewayInv
    OBVIOUS
  <2>1. ASSUME NEW c \in Calls PROVE CallInv(c)
    <3>1. /\ call[c] = "idle" /\ parts[c] = {} /\ left[c] = {} /\ written = {}
          /\ phase[W(c)] = "unsent" /\ code[W(c)] = 0
      BY Writes DEF Init
    <3> QED
      BY <3>1 DEF CallInv, Fate, Leavers, Named
  <2> QED
    BY <2>1, TypesInit DEF GatewayInv
<1>2. GatewayInv /\ [Next]_vars => GatewayInv'
  <2> SUFFICES ASSUME GatewayInv, [Next]_vars PROVE GatewayInv'
    OBVIOUS
  <2>1. Types'
    BY TypesNext DEF GatewayInv
  <2>2. ASSUME NEW c \in Calls PROVE CallInv(c)'
    <3>1. Types /\ Fate(c) /\ Leavers(c) /\ Named(c) /\ CallStep(c)
      BY EveryStep DEF GatewayInv, CallInv
    <3>2. Fate(c)' /\ Leavers(c)' /\ Named(c)'
      BY <3>1, FateKept, LeaversKept, NamedKept
    <3> QED
      BY <3>2 DEF CallInv
  <2> QED
    BY <2>1, <2>2 DEF GatewayInv
<1> QED
  BY <1>1, <1>2, PTL DEF Spec

(* An answer settles what became of a call (mcp_gateway.py 94-140).        *)
THEOREM FateTold == Spec => []AnswerTellsFate
<1>1. GatewayInv => AnswerTellsFate
  BY DEF GatewayInv, CallInv, Fate, AnswerTellsFate, W
<1> QED
  BY <1>1, GatewayInvariant, PTL

(* Nobody who had left when a write was sent takes part in it or makes it  *)
(* (mcp_gateway.py 164-182; services.py 113-137).                          *)
THEOREM LeaversStayOut == Spec => []LeaversTakeNoPart
<1>1. GatewayInv => LeaversTakeNoPart
  BY DEF GatewayInv, CallInv, Leavers, LeaversTakeNoPart, Types
<1> QED
  BY <1>1, GatewayInvariant, PTL

(* Names resolve to their bearers, whoever they are and however many share *)
(* a name (mcp_gateway.py 164-182).                                        *)
THEOREM NamesKept == Spec => []NamedTookPart
<1>1. GatewayInv => NamedTookPart
  BY DEF GatewayInv, CallInv, Fate, Named, Asks, NamedTookPart, Types
<1> QED
  BY <1>1, GatewayInvariant, PTL
=============================================================================
