---------------------------- MODULE McpGateway ----------------------------
(***************************************************************************)
(* Tool calls of the MCP gateway, the API requests they make, and the API  *)
(* server's threads and database connections.                              *)
(*                                                                         *)
(* A tool that names people first lists the members, resolves the names,   *)
(* and then writes: two API requests, each of which the gateway gives up   *)
(* after a while although the server goes on with it.  A request is served *)
(* in two pieces, each in a thread of its own: the dependency that         *)
(* resolves the bearer token, which takes a connection, and the route,     *)
(* which keeps it until the transaction ends.  Every call draws a fresh    *)
(* Idempotency-Key, so nothing is ever a replay here.  All calls are made  *)
(* with one member's token; the write stands for every writing tool.       *)
(***************************************************************************)
EXTENDS Naturals, FiniteSets

CONSTANTS
    Calls,          \* tool calls
    Users,          \* household members, numbered in the order of listings
    Actor,          \* whose token the gateway presents
    NameOf,         \* NameOf[u]: u's display name, casefolded
    Asked,          \* lists of names that calls ask for
    Threads,        \* handler threads of the API server
    Connections,    \* connections of its pool, overflow included
    MaxLeavers      \* bound: members that leave

ASSUME ConstantsAssumption ==
    /\ Users \subseteq Nat /\ Actor \in Users
    /\ DOMAIN NameOf = Users
    /\ IsFiniteSet(Calls)
    /\ Threads \in Nat \ {0} /\ Connections \in Nat \ {0} /\ MaxLeavers \in Nat

(* A listing ends: of the members in one there is a last.                  *)
ASSUME ListingAssumption ==
    \A S \in SUBSET Users : S # {} => \E u \in S : \A v \in S : v <= u

VARIABLES
    names,      \* names[c]: the names call c asks for
    call,       \* call[c]: what the gateway is doing for c, or how it ended
    parts,      \* parts[c]: the participants the write asks for
    phase,      \* phase[r]: how far the server is with request r
    code,       \* code[r]: the status of its answer
    listed,     \* listed[c]: the members found for c
    active,     \* the active members
    token,      \* whether the token is valid
    left,       \* left[c]: members that had left when c's write was sent
    written     \* calls whose write is committed

gateway == <<names, call, parts, left>>
server == <<phase, code, listed, written>>
vars == <<names, call, parts, phase, code, listed, active, token, left, written>>

-----------------------------------------------------------------------------

(* The two requests of a call.                                             *)
Requests == Calls \X {"members", "write"}

Init ==
    /\ names \in [Calls -> Asked]
    /\ call = [c \in Calls |-> "idle"]
    /\ parts = [c \in Calls |-> {}]
    /\ phase = [r \in Requests |-> "unsent"]
    /\ code = [r \in Requests |-> 0]
    /\ listed = [c \in Calls |-> {}]
    /\ active = Users /\ token = TRUE
    /\ left = [c \in Calls |-> {}]
    /\ written = {}

-----------------------------------------------------------------------------

(* The server.  Handlers in a thread, and requests with a connection.      *)

InThread == {r \in Requests : phase[r] \in {"connecting", "running", "checked"}}

Connected == {r \in Requests : phase[r] \in {"authed", "running", "checked"}}

FreeThread == Cardinality(InThread) < Threads

(* Mutant of FreeConnection: the pool's overflow is unlimited.             *)
FreeConnectionAlways == TRUE

FreeConnection == Cardinality(Connected) < Connections

To(r, p) == phase' = [phase EXCEPT ![r] = p]

(* The response; what the request held is returned.                        *)
Respond(r, status) ==
    /\ To(r, "done")
    /\ code' = [code EXCEPT ![r] = status]

(* get_actor_user_id runs in a thread of the server.                       *)
StartDependency(r) ==
    /\ phase[r] = "queued" /\ FreeThread
    /\ To(r, "connecting")
    /\ UNCHANGED <<gateway, code, listed, written, active, token>>

(* Its query takes a connection; the token decides.                        *)
Authenticate(r) ==
    /\ phase[r] = "connecting" /\ FreeConnection
    /\ \/ token /\ To(r, "authed") /\ UNCHANGED code
       \/ ~token /\ Respond(r, 401)
    /\ UNCHANGED <<gateway, listed, written, active, token>>

(* Mutant of PoolTimeout: the pool waits without a limit.                  *)
PoolWaits(r) == FALSE /\ UNCHANGED vars

(* No connection for as long as the pool waits: an uncaught TimeoutError.  *)
PoolTimeout(r) ==
    /\ phase[r] = "connecting" /\ ~FreeConnection
    /\ Respond(r, 500)
    /\ UNCHANGED <<gateway, listed, written, active, token>>

(* The route waits for a thread, with the connection in hand.              *)
StartRoute(r) ==
    /\ phase[r] = "authed" /\ FreeThread
    /\ To(r, "running")
    /\ UNCHANGED <<gateway, code, listed, written, active, token>>

(* list_household_members.                                                 *)
ListMembers(c) ==
    /\ phase[<<c, "members">>] = "running"
    /\ \/ Actor \notin active /\ Respond(<<c, "members">>, 403) /\ UNCHANGED listed
       \/ /\ Actor \in active
          /\ Respond(<<c, "members">>, 200)
          /\ listed' = [listed EXCEPT ![c] = active]
    /\ UNCHANGED <<gateway, written, active, token>>

(* Mutant of Allowed: participants are not checked, a listing is trusted.  *)
AllowedActor(c) == Actor \in active

(* _require_active_membership and _require_active_participants.            *)
Allowed(c) == Actor \in active /\ parts[c] \subseteq active

CheckWrite(c) ==
    /\ phase[<<c, "write">>] = "running"
    /\ \/ ~Allowed(c) /\ Respond(<<c, "write">>, 403)
       \/ Allowed(c) /\ To(<<c, "write">>, "checked") /\ UNCHANGED code
    /\ UNCHANGED <<gateway, listed, written, active, token>>

CommitWrite(c) ==
    /\ phase[<<c, "write">>] = "checked"
    /\ written' = written \union {c}
    /\ Respond(<<c, "write">>, 201)
    /\ UNCHANGED <<gateway, listed, active, token>>

Serve(r) ==
    \/ StartDependency(r) \/ Authenticate(r) \/ PoolTimeout(r) \/ StartRoute(r)
    \/ r[2] = "members" /\ ListMembers(r[1])
    \/ r[2] = "write" /\ (CheckWrite(r[1]) \/ CommitWrite(r[1]))

-----------------------------------------------------------------------------

(* The gateway.  A call ends with the API's answer ("ok"), with an error   *)
(* that names a status or a name ("refused"), or without an answer         *)
(* ("lost").                                                               *)

Gateway(c, state) == call' = [call EXCEPT ![c] = state]

(* The write is sent; who has left by then matters to the properties only. *)
SendWrite(c, people) ==
    /\ Gateway(c, "writing")
    /\ parts' = [parts EXCEPT ![c] = people]
    /\ left' = [left EXCEPT ![c] = (Users \ active) \union (IF token THEN {} ELSE {Actor})]
    /\ To(<<c, "write">>, "queued")

(* Without names nobody is looked up: work is credited to the caller, any  *)
(* other write names nobody.                                               *)
Call(c) ==
    /\ call[c] = "idle"
    /\ \/ names[c] = {} /\ \E people \in {{}, {Actor}} : SendWrite(c, people)
       \/ /\ names[c] # {}
          /\ Gateway(c, "listing")
          /\ To(<<c, "members">>, "queued")
          /\ UNCHANGED <<parts, left>>
    /\ UNCHANGED <<names, code, listed, written, active, token>>

Carrying(n, members) == {u \in members : NameOf[u] = n}

Missing(c) == {n \in names[c] : Carrying(n, listed[c]) = {}}

(* The member that is listed last.                                         *)
LastListed(members) == CHOOSE u \in members : \A v \in members : v <= u

(* Mutant of Resolved: the first name's bearer stands for everybody.       *)
ResolvedFirst(c) ==
    {LastListed(Carrying(n, listed[c])) : n \in {CHOOSE n \in names[c] : TRUE}}

(* members_by_name keeps the last member listed under each name.           *)
Resolved(c) == {LastListed(Carrying(n, listed[c])) : n \in names[c]}

(* resolve_member_names, on the answer of the members request.             *)
Resolve(c) ==
    /\ call[c] = "listing" /\ phase[<<c, "members">>] = "done"
    /\ \/ code[<<c, "members">>] = 200 /\ Missing(c) = {} /\ SendWrite(c, Resolved(c))
       \/ /\ code[<<c, "members">>] # 200 \/ Missing(c) # {}
          /\ Gateway(c, "refused")
          /\ UNCHANGED <<parts, phase, left>>
    /\ UNCHANGED <<names, code, listed, written, active, token>>

Answer(c) ==
    /\ call[c] = "writing" /\ phase[<<c, "write">>] = "done"
    /\ Gateway(c, IF code[<<c, "write">>] = 201 THEN "ok" ELSE "refused")
    /\ UNCHANGED <<names, parts, left, server, active, token>>

(* Mutant of GiveUp: a timeout is reported like an error of the API.       *)
GiveUpRefused(c) ==
    /\ call[c] \in {"listing", "writing"}
    /\ Gateway(c, "refused")
    /\ UNCHANGED <<names, parts, left, server, active, token>>

(* The timeout, or a connection that breaks.  A listing without an answer  *)
(* ends the call before it has written anything.                           *)
GiveUp(c) ==
    /\ call[c] \in {"listing", "writing"}
    /\ Gateway(c, "lost")
    /\ UNCHANGED <<names, parts, left, server, active, token>>

-----------------------------------------------------------------------------

(* The household's other actors: a member becomes inactive (by hand; no    *)
(* route does it), the caller revokes the token.                           *)
Leave(u) ==
    /\ u \in active /\ Cardinality(Users \ active) < MaxLeavers
    /\ active' = active \ {u}
    /\ UNCHANGED <<gateway, server, token>>

Revoke ==
    /\ token /\ token' = FALSE
    /\ UNCHANGED <<gateway, server, active>>

Next ==
    \/ \E c \in Calls : Call(c) \/ Resolve(c) \/ Answer(c) \/ GiveUp(c)
    \/ \E r \in Requests : Serve(r)
    \/ \E u \in Users : Leave(u)
    \/ Revoke

Spec == Init /\ [][Next]_vars

(* The server goes on with every request, and the gateway with every       *)
(* answer; its timer runs, but which calls are made is the caller's choice.*)
Fairness ==
    /\ \A r \in Requests : WF_vars(Serve(r))
    /\ \A c \in Calls : WF_vars(Resolve(c) \/ Answer(c) \/ GiveUp(c))

FairSpec == Spec /\ Fairness

-----------------------------------------------------------------------------

(* Types, and the limits of the two pools.                                 *)
TypeOK ==
    /\ names \in [Calls -> Asked]
    /\ call \in [Calls -> {"idle", "listing", "writing", "ok", "refused", "lost"}]
    /\ parts \in [Calls -> SUBSET Users]
    /\ phase \in [Requests -> {"unsent", "queued", "connecting", "authed", "running",
                               "checked", "done"}]
    /\ code \in [Requests -> {0, 200, 201, 401, 403, 500}]
    /\ listed \in [Calls -> SUBSET Users]
    /\ active \subseteq Users /\ token \in BOOLEAN
    /\ left \in [Calls -> SUBSET Users]
    /\ written \subseteq Calls
    /\ Cardinality(InThread) <= Threads /\ Cardinality(Connected) <= Connections

(* An answer settles what became of a call: after ok its write is          *)
(* committed, after an error of the API or of the look-up it is not and    *)
(* never will be.  Only a call without an answer may have been written, so *)
(* a caller that repeats nothing else duplicates nothing                   *)
(* (mcp_gateway.py 101-114: the key does not help).                        *)
AnswerTellsFate ==
    \A c \in Calls :
        /\ call[c] = "ok" => c \in written
        /\ call[c] = "refused" =>
              c \notin written /\ phase[<<c, "write">>] \in {"unsent", "done"}

(* Nobody who had left when a write was sent takes part in it or makes it, *)
(* though the names were resolved in an older listing (mcp_gateway.py      *)
(* 164-182; services.py 113-137), and a revoked token writes nothing.      *)
LeaversTakeNoPart ==
    \A c \in written : (parts[c] \union {Actor}) \cap left[c] = {}

(* Everybody asked for by name takes part, or somebody of the same name,   *)
(* and nobody else (mcp_gateway.py 164-182, 213-215).                      *)
NamedTookPart ==
    \A c \in written :
        IF names[c] = {} THEN parts[c] \subseteq {Actor}
        ELSE {NameOf[u] : u \in parts[c]} = names[c]

(* Threads that wait for connections and connections that wait for threads *)
(* do not stop the server: every request is answered in the end            *)
(* (api.py 97-117, database.py 6-11).                                      *)
Drains == \A r \in Requests : phase[r] = "queued" ~> phase[r] = "done"
=============================================================================
