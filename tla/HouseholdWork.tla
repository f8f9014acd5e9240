--------------------------- MODULE HouseholdWork ---------------------------
(***************************************************************************)
(* The domain services of one Household (services.py): Tasks, Time Blocks  *)
(* and Completion Records, one action per service, run one after another   *)
(* (what concurrent transactions add is the subject of other modules).     *)
(*                                                                         *)
(* An action is the whole route: the service, its audit events and the     *)
(* CHECK constraints at the flush; a refused request is rolled back and    *)
(* changes nothing (its status code names the disjunct).  Titles,          *)
(* descriptions and categories are left out.  Times are small integers.    *)
(***************************************************************************)
EXTENDS Naturals, FiniteSets, FiniteSetsExt

CONSTANTS
    Users, Active,              \* everybody; the active members
    TaskIds, BlockIds, WorkIds, \* ids that can be generated, each once
    Times,                      \* instants, in minutes
    Overrides,                  \* manual durations, in minutes
    Scopes, Flags, AskedRanges, \* scopes, fairness and times new rows ask for
    Lists,                      \* participant lists that requests name
    Unset, Null,                \* a field left out of a PATCH, or sent as null
    NoId,                       \* no parent, task or block
    NullsSent,                  \* whether clients send null fields
    MaxFields,                  \* bound: optional fields one request sends
    MaxWrites                   \* bound: successful writes

ASSUME ConstantsAssumption ==
    /\ Active \subseteq Users
    /\ Times \subseteq Nat /\ Overrides \subseteq Nat \ {0}
    /\ NoId \notin TaskIds \union BlockIds \union WorkIds
    /\ TaskIds \cap BlockIds = {} /\ TaskIds \cap WorkIds = {} /\ BlockIds \cap WorkIds = {}
    /\ Scopes \subseteq {"household", "personal"}
    /\ Flags \subseteq BOOLEAN /\ Lists \subseteq SUBSET Users
    /\ AskedRanges \subseteq {r \in Times \X Times : r[1] < r[2]}
    /\ MaxWrites \in Nat

VARIABLES
    tasks,      \* tasks[t]: the row of task t, with its participants
    blocks,     \* blocks[b]: a time block, its participants and its task links
    work,       \* work[w]: a completion record and its participants
    audit,      \* audit events <<action, id>>
    issued,     \* ids generated so far
    writes,     \* successful writes so far
    failed      \* whether the last request ended in a server error

data == <<tasks, blocks, work, audit, issued, writes>>
vars == <<tasks, blocks, work, audit, issued, writes, failed>>

-----------------------------------------------------------------------------

Statuses == {"active", "completed", "cancelled"}

AllScopes == {"household", "personal"}

Ranges == {r \in Times \X Times : r[1] < r[2]}

NoRange == <<>>

Task == [creator : Users, parent : TaskIds \union {NoId}, status : Statuses,
         stamps : SUBSET {"completed_at", "cancelled_at"},
         scope : AllScopes, parts : SUBSET Users]

Block == [kind : {"planned", "actual"}, status : {"planned", "completed", "cancelled"},
          range : Ranges, scope : AllScopes, parts : SUBSET Users,
          tasks : SUBSET TaskIds]

Work == [task : TaskIds \union {NoId}, block : BlockIds \union {NoId},
         range : Ranges \union {NoRange}, override : Overrides \union {0},
         fair : BOOLEAN, scope : AllScopes, parts : SUBSET Users]

(* Adding or replacing a row, and removing rows.                           *)
Put(f, k, v) == [x \in DOMAIN f \union {k} |-> IF x = k THEN v ELSE f[x]]

Without(f, K) == [x \in DOMAIN f \ K |-> f[x]]

(* The value a PATCH leaves in a column.                                   *)
New(change, old) == IF change = Unset THEN old ELSE change

-----------------------------------------------------------------------------

Init ==
    /\ tasks = <<>> /\ blocks = <<>> /\ work = <<>>
    /\ audit = {} /\ issued = {} /\ writes = 0 /\ failed = FALSE

(* The service raises, or a constraint does at the flush: rollback.        *)
Refuse(code) ==
    /\ failed' = (code = 500)
    /\ UNCHANGED data

(* The transaction commits.                                                *)
Accept ==
    /\ writes' = writes + 1
    /\ failed' = FALSE

(* _require_active_membership, the first step of every service.            *)
NotAMember(actor) == actor \notin Active /\ Refuse(403)

(* The look-up of the row to change.                                       *)
NotFound(id, rows) == id \notin DOMAIN rows /\ Refuse(404)

Audit(events) == audit' = audit \union events

(* _require_active_participants, of a list that may be empty or left out.  *)
Members(parts) == parts \in (SUBSET Active) \union {Unset}

(* tasks_lifecycle_timestamps_match: the stamps a status goes with.        *)
Stamps == [active |-> {}, completed |-> {"completed_at"}, cancelled |-> {"cancelled_at"}]

PlannedBlock(range, scope, parts, t) ==
    [kind |-> "planned", status |-> "planned", range |-> range, scope |-> scope,
     parts |-> parts, tasks |-> {t}]

CreateTask(actor, parts, parent, scope, range) ==
    \/ ~Members(parts) /\ Refuse(403)
    \/ /\ Members(parts)
       /\ parent \notin DOMAIN tasks \union {NoId}
       /\ Refuse(404)
    \/ /\ Members(parts)
       /\ parent \in DOMAIN tasks \union {NoId}
       /\ Accept
       /\ \E t \in TaskIds \ issued :
            /\ tasks' = Put(tasks, t, [creator |-> actor, parent |-> parent,
                               status |-> "active", stamps |-> {},
                               scope |-> scope, parts |-> parts])
            /\ \/ /\ range = NoRange
                  /\ issued' = issued \union {t}
                  /\ Audit({<<"create", t>>})
                  /\ UNCHANGED blocks
               \/ /\ range # NoRange
                  /\ \E b \in BlockIds \ issued :
                        /\ blocks' = Put(blocks, b, PlannedBlock(range, scope, parts, t))
                        /\ issued' = issued \union {t, b}
                        /\ Audit({<<"create", t>>, <<"create", b>>})
       /\ UNCHANGED work

(* The scope and the participants of a row after a PATCH.                  *)
Changed(row, scope, parts) ==
    [row EXCEPT !.scope = New(scope, @), !.parts = New(parts, @)]

(* The explicit null for the participants passes the schema and fails the  *)
(* service's assert.                                                       *)
UpdateTask(t, scope, parts) ==
    \/ NotFound(t, tasks)
    \/ t \in DOMAIN tasks /\ parts = Null /\ Refuse(500)
    \/ t \in DOMAIN tasks /\ parts # Null /\ ~Members(parts) /\ Refuse(403)
    \/ /\ t \in DOMAIN tasks /\ parts # Null /\ Members(parts)
       /\ Accept
       /\ tasks' = [tasks EXCEPT ![t] = Changed(tasks[t], scope, parts)]
       /\ Audit({<<"update", t>>})
       /\ UNCHANGED <<blocks, work, issued>>

(* Mutant of HasSubtask: finished subtasks do not hold their parent.       *)
HasActiveSubtask(t) ==
    \E s \in DOMAIN tasks : tasks[s].parent = t /\ tasks[s].status = "active"

HasSubtask(t) == \E s \in DOMAIN tasks : tasks[s].parent = t

(* Mutant of ServingOnly: the blocks that are still planned.               *)
ServingOnlyUncancelled(t) ==
    {b \in DOMAIN blocks :
        blocks[b].kind = "planned" /\ blocks[b].status = "planned" /\ blocks[b].tasks = {t}}

(* The planned blocks, cancelled or not, that serve only this task.        *)
ServingOnly(t) ==
    {b \in DOMAIN blocks : blocks[b].kind = "planned" /\ blocks[b].tasks = {t}}

(* Mutant of Unlinked: the work goes with the task.                        *)
UnlinkedCascade(t) == Without(work, {w \in DOMAIN work : work[w].task = t})

(* The work done for a task stays, unlinked.                               *)
Unlinked(t) ==
    [w \in DOMAIN work |-> [work[w] EXCEPT !.task = IF @ = t THEN NoId ELSE @]]

(* Blocks that serve other tasks too would only lose the link.             *)
DeleteTask(actor, t) ==
    \/ NotFound(t, tasks)
    \/ t \in DOMAIN tasks /\ tasks[t].creator # actor /\ Refuse(403)
    \/ /\ t \in DOMAIN tasks /\ tasks[t].creator = actor /\ HasSubtask(t)
       /\ Refuse(409)
    \/ /\ t \in DOMAIN tasks /\ tasks[t].creator = actor /\ ~HasSubtask(t)
       /\ Accept
       /\ blocks' = [b \in DOMAIN blocks \ ServingOnly(t) |->
                       [blocks[b] EXCEPT !.tasks = @ \ {t}]]
       /\ work' = Unlinked(t)
       /\ tasks' = Without(tasks, {t})
       /\ Audit({<<"delete", t>>})
       /\ UNCHANGED issued

(* Without a participant list the task's own participants are planned.     *)
ScheduleTask(t, range, parts) ==
    \/ NotFound(t, tasks)
    \/ /\ t \in DOMAIN tasks /\ ~Members(New(parts, tasks[t].parts))
       /\ Refuse(403)
    \/ /\ t \in DOMAIN tasks /\ Members(New(parts, tasks[t].parts))
       /\ Accept
       /\ \E b \in BlockIds \ issued :
            /\ blocks' = Put(blocks, b, PlannedBlock(range, tasks[t].scope,
                                            New(parts, tasks[t].parts), t))
            /\ issued' = issued \union {b}
            /\ Audit({<<"create", b>>})
       /\ UNCHANGED <<tasks, work>>

(* Mutant of UpdateTaskLifecycle: the other status' timestamp stays.       *)
UpdateLifecycleKeepsStamps(t, status) ==
    \/ NotFound(t, tasks)
    \/ /\ t \in DOMAIN tasks
       /\ Accept
       /\ tasks' = [tasks EXCEPT ![t] = [tasks[t] EXCEPT !.status = status,
                                                     !.stamps = @ \union Stamps[status]]]
       /\ Audit({<<"update", t>>})
       /\ UNCHANGED <<blocks, work, issued>>

UpdateTaskLifecycle(t, status) ==
    \/ NotFound(t, tasks)
    \/ /\ t \in DOMAIN tasks
       /\ Accept
       /\ tasks' = [tasks EXCEPT ![t] = [tasks[t] EXCEPT !.status = status,
                                                     !.stamps = Stamps[status]]]
       /\ Audit({<<"update", t>>})
       /\ UNCHANGED <<blocks, work, issued>>

(* start and end may be sent apart.  A null for either fails an assert, a  *)
(* null participant list another, a null status the NOT NULL column.       *)
UpdatePlannedTimeBlock(b, start, end, status, parts) ==
    LET range == <<New(start, blocks[b].range[1]), New(end, blocks[b].range[2])>>
        timed == range \in Ranges
    IN
    \/ NotFound(b, blocks)
    \/ b \in DOMAIN blocks /\ blocks[b].kind # "planned" /\ Refuse(409)
    \/ /\ b \in DOMAIN blocks /\ blocks[b].kind = "planned"
       /\ \/ Null \in {start, end} /\ Refuse(500)
          \/ Null \notin {start, end} /\ ~timed /\ Refuse(400)
          \/ timed /\ parts = Null /\ Refuse(500)
          \/ timed /\ parts # Null /\ ~Members(parts) /\ Refuse(403)
          \/ timed /\ parts = {} /\ Refuse(400)
          \/ /\ timed /\ parts \notin {Null, {}} /\ Members(parts) /\ status = Null
             /\ Refuse(500)
          \/ /\ timed /\ parts \notin {Null, {}} /\ Members(parts) /\ status # Null
             /\ Accept
             /\ blocks' = [blocks EXCEPT ![b] =
                   [blocks[b] EXCEPT !.range = range, !.status = New(status, @),
                                     !.parts = New(parts, @)]]
             /\ Audit({<<"update", b>>})
             /\ UNCHANGED <<tasks, work, issued>>

(* complete_task leaves cancelled_at alone: for a cancelled task the CHECK *)
(* on the lifecycle timestamps fails and the whole record is rolled back.  *)
RecordCompletedWork(parts, range, override, scope, fair, t, complete) ==
    LET resolved == IF scope # Unset THEN scope
                    ELSE IF t # NoId THEN tasks[t].scope ELSE "household"
        finished == [tasks[t] EXCEPT !.status = "completed",
                                     !.stamps = @ \union {"completed_at"}]
        fits == complete => finished.stamps = Stamps.completed
    IN
    \/ ~Members(parts) /\ Refuse(403)
    \/ /\ Members(parts)
       /\ t \notin DOMAIN tasks \union {NoId}
       /\ Refuse(404)
    \/ /\ Members(parts)
       /\ t \in DOMAIN tasks \union {NoId} /\ ~fits
       /\ Refuse(500)
    \/ /\ Members(parts)
       /\ t \in DOMAIN tasks \union {NoId} /\ fits
       /\ Accept
       /\ \E w \in WorkIds \ issued, b \in (BlockIds \ issued) \union {NoId} :
            /\ (b = NoId) <=> (range = NoRange)
            /\ work' = Put(work, w,
                  [task |-> t, block |-> b, range |-> range, override |-> override,
                   fair |-> New(fair, resolved = "household"),
                   scope |-> resolved, parts |-> parts])
            /\ \/ b = NoId /\ UNCHANGED blocks
               \/ /\ b # NoId
                  /\ blocks' = Put(blocks, b,
                        [kind |-> "actual", status |-> "completed", range |-> range,
                         scope |-> resolved, parts |-> parts, tasks |-> {}])
            /\ issued' = issued \union ({w, b} \ {NoId})
            /\ Audit({<<"create", x>> : x \in {w, b} \ {NoId}}
                     \union (IF complete THEN {<<"update", t>>} ELSE {}))
       /\ tasks' = IF complete THEN [tasks EXCEPT ![t] = finished] ELSE tasks

(* Mutant of Follow: the participants of the block are left as they were.  *)
FollowTimeAndScope(block, range, scope, parts) ==
    Changed([block EXCEPT !.range = IF range = NoRange THEN @ ELSE range], scope, Unset)

(* The actual block of a record follows what the record is changed to.     *)
Follow(block, range, scope, parts) ==
    Changed([block EXCEPT !.range = IF range = NoRange THEN @ ELSE range], scope, parts)

(* Both times are sent, or neither is (the schema refuses one alone, and a *)
(* null counts as not sent there).  A null that reaches the stored range   *)
(* fails an assert; a null fairness is stored as false.                    *)
UpdateCompletedWork(w, start, end, scope, fair, parts) ==
    LET old == IF work[w].range = NoRange THEN <<Null, Null>> ELSE work[w].range
        mixed == (New(start, old[1]) = Null) # (New(end, old[2]) = Null)
        sent == start # Unset /\ end # Unset
        range == IF sent THEN <<start, end>> ELSE NoRange
    IN
    \/ NotFound(w, work)
    \/ /\ w \in DOMAIN work
       /\ \/ mixed /\ Refuse(500)
          \/ ~mixed /\ parts = Null /\ Refuse(500)
          \/ ~mixed /\ parts # Null /\ ~Members(parts) /\ Refuse(403)
          \/ ~mixed /\ parts = {} /\ Refuse(400)
          \/ /\ ~mixed /\ parts \notin {Null, {}} /\ Members(parts)
             /\ sent /\ start = Null
             /\ Refuse(500)
          \/ /\ ~mixed /\ parts \notin {Null, {}} /\ Members(parts)
             /\ ~(sent /\ start = Null)
             /\ Accept
             /\ work' = [work EXCEPT ![w] =
                   [work[w] EXCEPT !.range = IF sent THEN range ELSE @,
                                   !.override = IF sent THEN 0 ELSE @,
                                   !.scope = New(scope, @),
                                   !.fair = IF fair = Null THEN FALSE ELSE New(fair, @),
                                   !.parts = New(parts, @)]]
             /\ blocks' = [b \in DOMAIN blocks |->
                   IF b = work[w].block THEN Follow(blocks[b], range, scope, parts)
                                        ELSE blocks[b]]
             /\ Audit({<<"update", w>>})
             /\ UNCHANGED <<tasks, issued>>

(* Mutant of DeleteCompletedWork: no audit event.                          *)
DeleteWorkUnaudited(w) ==
    \/ NotFound(w, work)
    \/ /\ w \in DOMAIN work
       /\ Accept
       /\ work' = Without(work, {w})
       /\ blocks' = Without(blocks, {work[w].block})
       /\ UNCHANGED <<tasks, audit, issued>>

(* The actual time block goes with the record.                             *)
DeleteCompletedWork(w) ==
    \/ NotFound(w, work)
    \/ /\ w \in DOMAIN work
       /\ Accept
       /\ work' = Without(work, {w})
       /\ blocks' = Without(blocks, {work[w].block})
       /\ Audit({<<"delete", w>>})
       /\ UNCHANGED <<tasks, issued>>

-----------------------------------------------------------------------------
(* The requests that pass the schemas (schemas.py).                        *)

Nulls == IF NullsSent THEN {Null} ELSE {}

(* The optional fields a request sends are few enough (a PATCH with none   *)
(* of these changes a title, description or category).                     *)
Sends(fields) == Cardinality({i \in DOMAIN fields : fields[i] # Unset}) <= MaxFields

CreateTaskRequest ==
    \E actor \in Active, parts \in Lists, parent \in TaskIds \union {NoId},
       scope \in Scopes, range \in AskedRanges \union {NoRange} :
          CreateTask(actor, parts, parent, scope, range)

UpdateTaskRequest ==
    \E t \in TaskIds, scope \in Scopes \union {Unset},
       parts \in Lists \union {Unset} \union Nulls :
          Sends(<<scope, parts>>) /\ UpdateTask(t, scope, parts)

DeleteTaskRequest == \E actor \in Active, t \in TaskIds : DeleteTask(actor, t)

ScheduleTaskRequest ==
    \E t \in TaskIds, range \in AskedRanges, parts \in Lists \union {Unset} :
       ScheduleTask(t, range, parts)

LifecycleRequest ==
    \E t \in TaskIds, status \in Statuses : UpdateTaskLifecycle(t, status)

UpdateBlockRequest ==
    \E b \in BlockIds, start, end \in Times \union {Unset} \union Nulls,
       status \in {"planned", "cancelled", Unset} \union Nulls,
       parts \in Lists \union {Unset} \union Nulls :
          /\ {start, end} \subseteq Times => start < end
          /\ Sends(<<start, end, status, parts>>)
          /\ UpdatePlannedTimeBlock(b, start, end, status, parts)

RecordRequest ==
    \E parts \in Lists \ {{}}, range \in AskedRanges \union {NoRange},
       override \in Overrides \union {0}, scope \in Scopes \union {Unset},
       fair \in Flags \union {Unset}, t \in TaskIds \union {NoId},
       complete \in BOOLEAN :
          /\ complete => t # NoId
          /\ range # NoRange \/ override # 0
          /\ Sends(<<scope, fair, IF range # NoRange /\ override # 0
                                  THEN override ELSE Unset>>)
          /\ RecordCompletedWork(parts, range, override, scope, fair, t, complete)

UpdateWorkRequest ==
    \E w \in WorkIds,
       times \in Ranges \union ({Unset} \union Nulls) \X ({Unset} \union Nulls),
       scope \in Scopes \union {Unset}, fair \in Flags \union {Unset} \union Nulls,
       parts \in Lists \union {Unset} \union Nulls :
          /\ Sends(<<times[1], scope, fair, parts>>)
          /\ UpdateCompletedWork(w, times[1], times[2], scope, fair, parts)

DeleteWorkRequest == \E w \in WorkIds : DeleteCompletedWork(w)

Request ==
    \/ \E actor \in Users : NotAMember(actor)
    \/ CreateTaskRequest \/ UpdateTaskRequest \/ DeleteTaskRequest
    \/ ScheduleTaskRequest \/ LifecycleRequest \/ UpdateBlockRequest
    \/ RecordRequest \/ UpdateWorkRequest \/ DeleteWorkRequest

Next == writes < MaxWrites /\ Request

Spec == Init /\ [][Next]_vars

-----------------------------------------------------------------------------

(* The rows have the columns of models.py, and a task's timestamps match   *)
(* its lifecycle status.                                                   *)
TypeOK ==
    /\ DOMAIN tasks \subseteq TaskIds \cap issued
    /\ \A t \in DOMAIN tasks : tasks[t] \in Task /\ tasks[t].stamps = Stamps[tasks[t].status]
    /\ DOMAIN blocks \subseteq BlockIds \cap issued
    /\ \A b \in DOMAIN blocks : blocks[b] \in Block
    /\ DOMAIN work \subseteq WorkIds \cap issued
    /\ \A w \in DOMAIN work : work[w] \in Work
    /\ audit \subseteq {"create", "update", "delete"} \X (TaskIds \union BlockIds \union WorkIds)
    /\ issued \subseteq TaskIds \union BlockIds \union WorkIds
    /\ writes \in 0..MaxWrites
    /\ failed \in BOOLEAN

(* What the calendar shows as done is what was recorded as done: every     *)
(* actual block belongs to exactly one completion record, the two agree on *)
(* time, scope and participants, and no record points at a planned block   *)
(* or at none.                                                             *)
ActualBlocksRecordWork ==
    /\ \A w \in DOMAIN work : work[w].block # NoId =>
          /\ work[w].block \in DOMAIN blocks
          /\ LET b == blocks[work[w].block]
             IN  /\ b.kind = "actual" /\ b.status = "completed"
                 /\ b.range = work[w].range
                 /\ b.scope = work[w].scope
                 /\ b.parts = work[w].parts
    /\ \A b \in DOMAIN blocks : blocks[b].kind = "actual" =>
          /\ blocks[b].tasks = {}
          /\ \E w \in DOMAIN work : work[w].block = b
    /\ \A w, x \in DOMAIN work : work[w].block = work[x].block =>
          w = x \/ work[w].block = NoId

(* No plan without a task: every planned block, cancelled ones included,   *)
(* is linked to exactly one task, and that task exists.                    *)
PlannedBlocksServeTask ==
    \A b \in DOMAIN blocks : blocks[b].kind = "planned" =>
        \E t \in DOMAIN tasks : blocks[b].tasks = {t}

(* Parents exist, and every set of tasks has one whose parent is outside:  *)
(* the hierarchy has no cycle.  Work refers to tasks that exist.           *)
TaskTree ==
    /\ \A t \in DOMAIN tasks : tasks[t].parent \in DOMAIN tasks \union {NoId}
    /\ \A S \in SUBSET DOMAIN tasks :
          S # {} => \E t \in S : tasks[t].parent \notin S
    /\ \A w \in DOMAIN work : work[w].task \in DOMAIN tasks \union {NoId}

(* Nothing leaves without a trace: the audit tells for every task and      *)
(* completion record whether it was created, and whether it still exists.  *)
AuditTellsFate ==
    /\ \A id \in issued : <<"create", id>> \in audit
    /\ \A id \in TaskIds \union WorkIds :
          <<"delete", id>> \in audit
            <=> id \in issued \ (DOMAIN tasks \union DOMAIN work)

(* effective_duration_minutes of a record, and a member's contribution.    *)
Duration(w) ==
    IF work[w].override # 0 THEN work[w].override
    ELSE work[w].range[2] - work[w].range[1]

Contribution(u) ==
    MapThenSumSet(Duration, {w \in DOMAIN work : work[w].fair /\ u \in work[w].parts})

(* Planning is not doing, and what is done outlives its plan: changing,    *)
(* completing, cancelling or deleting a task leaves everybody's            *)
(* contribution as it is, unless the same request records work.            *)
PlanningKeepsContributions ==
    [][tasks' # tasks /\ DOMAIN work' \subseteq DOMAIN work
       => \A u \in Users : Contribution(u)' = Contribution(u)]_vars

(* A well-formed request without null fields is never answered by a server *)
(* error: completed work that matches a task is linked to it and marks it  *)
(* completed.                                                              *)
NoServerError == ~failed
=============================================================================
