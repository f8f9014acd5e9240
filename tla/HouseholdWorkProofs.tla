------------------------ MODULE HouseholdWorkProofs ------------------------
(***************************************************************************)
(* Proofs about HouseholdWork for any number of members, tasks, blocks and *)
(* records, and any requests: the types; the structure of blocks, plans    *)
(* and tasks; the audit trail; the contributions.                          *)
(***************************************************************************)
EXTENDS HouseholdWork, TLAPS

USE DEF AllScopes, Statuses

(* What the rows of each table look like.                                  *)
TaskRow == {r \in Task : r.stamps = Stamps[r.status]}

Rows(f, R) == \A x \in DOMAIN f : f[x] \in R

Ids == TaskIds \union BlockIds \union WorkIds

Events == {"create", "update", "delete"} \X Ids

(* Rows of a table after a row is put in or rows are taken out.            *)
LEMMA PutRow ==
    ASSUME NEW f, NEW k, NEW v
    PROVE  /\ DOMAIN Put(f, k, v) = DOMAIN f \union {k}
           /\ Put(f, k, v)[k] = v
           /\ \A x \in DOMAIN f : x # k => Put(f, k, v)[x] = f[x]
           /\ \A R : Rows(f, R) /\ v \in R => Rows(Put(f, k, v), R)
BY DEF Put, Rows

LEMMA WithoutRows ==
    ASSUME NEW f, NEW K
    PROVE  /\ DOMAIN Without(f, K) = DOMAIN f \ K
           /\ \A x \in DOMAIN f \ K : Without(f, K)[x] = f[x]
           /\ \A R : Rows(f, R) => Rows(Without(f, K), R)
BY DEF Without, Rows

LEMMA TypeParts ==
    TypeOK <=> /\ DOMAIN tasks \subseteq TaskIds \cap issued
               /\ Rows(tasks, TaskRow)
               /\ DOMAIN blocks \subseteq BlockIds \cap issued
               /\ Rows(blocks, Block)
               /\ DOMAIN work \subseteq WorkIds \cap issued
               /\ Rows(work, Work)
               /\ audit \subseteq Events
               /\ issued \subseteq Ids
               /\ writes \in 0..MaxWrites
               /\ failed \in BOOLEAN
BY DEF TypeOK, Rows, TaskRow, Ids, Events

(* The same of the next state, for a step that commits.                    *)
LEMMA TypeAfter ==
    ASSUME TypeOK, writes < MaxWrites, Accept,
           DOMAIN tasks' \subseteq TaskIds \cap issued',
           Rows(tasks', TaskRow),
           DOMAIN blocks' \subseteq BlockIds \cap issued',
           Rows(blocks', Block),
           DOMAIN work' \subseteq WorkIds \cap issued',
           Rows(work', Work),
           audit' \subseteq Events,
           issued' \subseteq Ids
    PROVE  TypeOK'
<1>1. writes' \in 0..MaxWrites
  BY ConstantsAssumption DEF TypeOK, Accept
<1>2. failed' \in BOOLEAN
  BY DEF Accept
<1> QED
  BY <1>1, <1>2 DEF TypeOK, Rows, TaskRow, Ids, Events

LEMMA StampsOfStatus ==
    \A s \in Statuses : Stamps[s] \in SUBSET {"completed_at", "cancelled_at"}
<1> SUFFICES ASSUME NEW s \in Statuses
             PROVE  Stamps[s] \in SUBSET {"completed_at", "cancelled_at"}
  OBVIOUS
<1>1. CASE s = "active"
  BY <1>1 DEF Stamps
<1>2. CASE s = "completed"
  BY <1>2 DEF Stamps
<1>3. CASE s = "cancelled"
  BY <1>3 DEF Stamps
<1> QED
  BY <1>1, <1>2, <1>3

LEMMA EventsAreTyped ==
    \A x \in Ids, a \in {"create", "update", "delete"} : <<a, x>> \in Events
BY DEF Events

LEMMA EmptyTable == DOMAIN <<>> = {}
OBVIOUS

LEMMA TypeInit == Init => TypeOK
<1> SUFFICES ASSUME Init PROVE TypeOK
  OBVIOUS
<1>1. DOMAIN tasks = {} /\ DOMAIN blocks = {} /\ DOMAIN work = {}
  BY EmptyTable DEF Init
<1>2. Rows(tasks, TaskRow) /\ Rows(blocks, Block) /\ Rows(work, Work)
  BY <1>1 DEF Rows
<1>3. writes \in 0..MaxWrites
  BY ConstantsAssumption DEF Init
<1> QED
  BY <1>1, <1>2, <1>3, TypeParts DEF Init

LEMMA TypeRefuse ==
    ASSUME TypeOK, NEW code, Refuse(code)
    PROVE  TypeOK'
BY DEF TypeOK, Refuse, data

-----------------------------------------------------------------------------
(* One lemma for each request: the rows it commits are well typed.         *)

LEMMA TypeCreateTask ==
    ASSUME TypeOK, writes < MaxWrites, CreateTaskRequest
    PROVE  TypeOK'
<1> USE ConstantsAssumption
<1>1. PICK actor \in Active, parts \in Lists, parent \in TaskIds \union {NoId},
           scope \in Scopes, range \in AskedRanges \union {NoRange} :
              CreateTask(actor, parts, parent, scope, range)
  BY DEF CreateTaskRequest
<1>2. CASE Refuse(403) \/ Refuse(404)
  BY <1>2, TypeRefuse
<1>3. CASE ~(Refuse(403) \/ Refuse(404))
  <2> DEFINE row == [creator |-> actor, parent |-> parent, status |-> "active",
                     stamps |-> {}, scope |-> scope, parts |-> parts]
  <2>1. /\ Accept /\ UNCHANGED work
        /\ \E t \in TaskIds \ issued :
             /\ tasks' = Put(tasks, t, row)
             /\ \/ /\ issued' = issued \union {t}
                   /\ Audit({<<"create", t>>})
                   /\ UNCHANGED blocks
                \/ /\ range # NoRange
                   /\ \E b \in BlockIds \ issued :
                         /\ blocks' = Put(blocks, b, PlannedBlock(range, scope, parts, t))
                         /\ issued' = issued \union {t, b}
                         /\ Audit({<<"create", t>>, <<"create", b>>})
    BY <1>1, <1>3 DEF CreateTask
  <2>2. row \in TaskRow
    BY DEF TaskRow, Task, Stamps
  <2>3. \A t \in TaskIds : range # NoRange => PlannedBlock(range, scope, parts, t) \in Block
    BY DEF PlannedBlock, Block, Ranges
  <2>4. PICK t \in TaskIds \ issued :
             /\ tasks' = Put(tasks, t, row)
             /\ \/ /\ issued' = issued \union {t}
                   /\ Audit({<<"create", t>>})
                   /\ UNCHANGED blocks
                \/ /\ range # NoRange
                   /\ \E b \in BlockIds \ issued :
                         /\ blocks' = Put(blocks, b, PlannedBlock(range, scope, parts, t))
                         /\ issued' = issued \union {t, b}
                         /\ Audit({<<"create", t>>, <<"create", b>>})
    BY <2>1
  <2> HIDE DEF row
  <2>5. Rows(tasks', TaskRow) /\ DOMAIN tasks' = DOMAIN tasks \union {t}
    BY <2>2, <2>4, PutRow, TypeParts
  <2>6. /\ Rows(blocks', Block)
        /\ DOMAIN blocks' \subseteq BlockIds \cap issued'
        /\ issued \union {t} \subseteq issued'
        /\ issued' \subseteq Ids
        /\ audit' \subseteq Events
    <3>1. CASE issued' = issued \union {t} /\ Audit({<<"create", t>>}) /\ UNCHANGED blocks
      BY <3>1, TypeParts, EventsAreTyped DEF Audit, Ids
    <3>2. ASSUME range # NoRange, NEW b \in BlockIds \ issued,
                 blocks' = Put(blocks, b, PlannedBlock(range, scope, parts, t)),
                 issued' = issued \union {t, b},
                 Audit({<<"create", t>>, <<"create", b>>})
          PROVE  <2>6!1 /\ <2>6!2 /\ <2>6!3 /\ <2>6!4 /\ <2>6!5
      <4>1. <2>6!1 /\ DOMAIN blocks' = DOMAIN blocks \union {b}
        BY <2>3, <3>2, PutRow, TypeParts
      <4>2. <2>6!5
        BY <3>2, TypeParts, EventsAreTyped DEF Audit, Ids
      <4> QED
        BY <3>2, <4>1, <4>2, TypeParts DEF Ids
    <3> QED
      BY <2>4, <3>1, <3>2
  <2> QED
    BY <2>1, <2>5, <2>6, TypeAfter, TypeParts
<1> QED
  BY <1>2, <1>3

LEMMA TypeUpdateTask ==
    ASSUME TypeOK, writes < MaxWrites, UpdateTaskRequest
    PROVE  TypeOK'
<1> USE ConstantsAssumption
<1>1. PICK t \in TaskIds, scope \in Scopes \union {Unset},
           parts \in Lists \union {Unset} \union Nulls : UpdateTask(t, scope, parts)
  BY DEF UpdateTaskRequest
<1>2. CASE Refuse(403) \/ Refuse(404) \/ Refuse(500)
  BY <1>2, TypeRefuse
<1>3. CASE ~(Refuse(403) \/ Refuse(404) \/ Refuse(500))
  <2> DEFINE row == Changed(tasks[t], scope, parts)
  <2>1. /\ t \in DOMAIN tasks /\ Members(parts) /\ Accept
        /\ tasks' = [tasks EXCEPT ![t] = row]
        /\ Audit({<<"update", t>>})
        /\ UNCHANGED <<blocks, work, issued>>
    BY <1>1, <1>3 DEF UpdateTask, NotFound
  <2>2. tasks[t] \in TaskRow
    BY <2>1, TypeParts DEF Rows
  <2>3. New(parts, tasks[t].parts) \in SUBSET Users /\ New(scope, tasks[t].scope) \in AllScopes
    BY <2>1, <2>2 DEF New, Members, TaskRow, Task
  <2>4. row \in TaskRow
    BY <2>2, <2>3 DEF TaskRow, Task, Changed
  <2> HIDE DEF row
  <2>5. Rows(tasks', TaskRow) /\ DOMAIN tasks' = DOMAIN tasks
    BY <2>1, <2>4, TypeParts DEF Rows
  <2>6. audit' \subseteq Events
    BY <2>1, TypeParts, EventsAreTyped DEF Audit, Ids
  <2> QED
    BY <2>1, <2>5, <2>6, TypeAfter, TypeParts
<1> QED
  BY <1>2, <1>3

LEMMA TypeDeleteTask ==
    ASSUME TypeOK, writes < MaxWrites, DeleteTaskRequest
    PROVE  TypeOK'
<1> USE ConstantsAssumption
<1>1. PICK actor \in Active, t \in TaskIds : DeleteTask(actor, t)
  BY DEF DeleteTaskRequest
<1>2. CASE Refuse(403) \/ Refuse(404) \/ Refuse(409)
  BY <1>2, TypeRefuse
<1>3. CASE ~(Refuse(403) \/ Refuse(404) \/ Refuse(409))
  <2>1. /\ Accept
        /\ blocks' = [b \in DOMAIN blocks \ ServingOnly(t) |->
                        [blocks[b] EXCEPT !.tasks = @ \ {t}]]
        /\ work' = Unlinked(t)
        /\ tasks' = Without(tasks, {t})
        /\ Audit({<<"delete", t>>})
        /\ UNCHANGED issued
    BY <1>1, <1>3 DEF DeleteTask, NotFound
  <2>2. Rows(tasks', TaskRow) /\ DOMAIN tasks' = DOMAIN tasks \ {t}
    BY <2>1, TypeParts, WithoutRows
  <2>3. Rows(blocks', Block) /\ DOMAIN blocks' \subseteq DOMAIN blocks
    <3>1. ASSUME NEW b \in DOMAIN blocks PROVE [blocks[b] EXCEPT !.tasks = @ \ {t}] \in Block
      BY TypeParts DEF Rows, Block
    <3> QED
      BY <2>1, <3>1 DEF Rows
  <2>4. Rows(work', Work) /\ DOMAIN work' = DOMAIN work
    <3>1. ASSUME NEW w \in DOMAIN work
          PROVE  [work[w] EXCEPT !.task = IF @ = t THEN NoId ELSE @] \in Work
      BY TypeParts DEF Rows, Work
    <3> QED
      BY <2>1, <3>1 DEF Rows, Unlinked
  <2>5. audit' \subseteq Events
    BY <2>1, TypeParts, EventsAreTyped DEF Audit, Ids
  <2> QED
    BY <2>1, <2>2, <2>3, <2>4, <2>5, TypeAfter, TypeParts
<1> QED
  BY <1>2, <1>3

LEMMA TypeScheduleTask ==
    ASSUME TypeOK, writes < MaxWrites, ScheduleTaskRequest
    PROVE  TypeOK'
<1> USE ConstantsAssumption
<1>1. PICK t \in TaskIds, range \in AskedRanges, parts \in Lists \union {Unset} :
              ScheduleTask(t, range, parts)
  BY DEF ScheduleTaskRequest
<1>2. CASE Refuse(403) \/ Refuse(404)
  BY <1>2, TypeRefuse
<1>3. CASE ~(Refuse(403) \/ Refuse(404))
  <2> DEFINE row == PlannedBlock(range, tasks[t].scope, New(parts, tasks[t].parts), t)
  <2>1. t \in DOMAIN tasks /\ Accept /\ UNCHANGED <<tasks, work>>
    BY <1>1, <1>3 DEF ScheduleTask, NotFound
  <2>2. PICK b \in BlockIds \ issued :
              /\ blocks' = Put(blocks, b, row)
              /\ issued' = issued \union {b}
              /\ Audit({<<"create", b>>})
    BY <1>1, <1>3 DEF ScheduleTask, NotFound
  <2>3. tasks[t] \in Task
    BY <2>1, TypeParts DEF Rows, TaskRow
  <2>4. row \in Block
    BY <2>3 DEF PlannedBlock, Block, Ranges, Task, New
  <2> HIDE DEF row
  <2>5. Rows(blocks', Block) /\ DOMAIN blocks' = DOMAIN blocks \union {b}
    BY <2>2, <2>4, PutRow, TypeParts
  <2>6. audit' \subseteq Events
    BY <2>2, TypeParts, EventsAreTyped DEF Audit, Ids
  <2>7. issued' \subseteq Ids /\ issued \subseteq issued' /\ b \in BlockIds \cap issued'
    BY <2>2, TypeParts DEF Ids
  <2> QED
    BY <2>1, <2>5, <2>6, <2>7, TypeAfter, TypeParts
<1> QED
  BY <1>2, <1>3

LEMMA TypeLifecycle ==
    ASSUME TypeOK, writes < MaxWrites, LifecycleRequest
    PROVE  TypeOK'
<1> USE ConstantsAssumption
<1>1. PICK t \in TaskIds, status \in Statuses : UpdateTaskLifecycle(t, status)
  BY DEF LifecycleRequest
<1>2. CASE Refuse(404)
  BY <1>2, TypeRefuse
<1>3. CASE ~Refuse(404)
  <2> DEFINE row == [tasks[t] EXCEPT !.status = status, !.stamps = Stamps[status]]
  <2>1. /\ t \in DOMAIN tasks /\ Accept
        /\ tasks' = [tasks EXCEPT ![t] = row]
        /\ Audit({<<"update", t>>})
        /\ UNCHANGED <<blocks, work, issued>>
    BY <1>1, <1>3 DEF UpdateTaskLifecycle, NotFound
  <2>2. tasks[t] \in Task
    BY <2>1, TypeParts DEF Rows, TaskRow
  <2>3. row \in TaskRow
    BY <2>2, StampsOfStatus DEF TaskRow, Task
  <2> HIDE DEF row
  <2>5. Rows(tasks', TaskRow) /\ DOMAIN tasks' = DOMAIN tasks
    BY <2>1, <2>3, TypeParts DEF Rows
  <2>6. audit' \subseteq Events
    BY <2>1, TypeParts, EventsAreTyped DEF Audit, Ids
  <2> QED
    BY <2>1, <2>5, <2>6, TypeAfter, TypeParts
<1> QED
  BY <1>2, <1>3

LEMMA TypeUpdateBlock ==
    ASSUME TypeOK, writes < MaxWrites, UpdateBlockRequest
    PROVE  TypeOK'
<1> USE ConstantsAssumption
<1>1. PICK b \in BlockIds, start \in Times \union {Unset} \union Nulls,
           end \in Times \union {Unset} \union Nulls,
           status \in {"planned", "cancelled", Unset} \union Nulls,
           parts \in Lists \union {Unset} \union Nulls :
              UpdatePlannedTimeBlock(b, start, end, status, parts)
  BY DEF UpdateBlockRequest
<1>2. CASE \E code \in {400, 403, 404, 409, 500} : Refuse(code)
  BY <1>2, TypeRefuse
<1>3. CASE ~ \E code \in {400, 403, 404, 409, 500} : Refuse(code)
  <2> DEFINE range == <<New(start, blocks[b].range[1]), New(end, blocks[b].range[2])>>
             row == [blocks[b] EXCEPT !.range = range, !.status = New(status, @),
                                      !.parts = New(parts, @)]
  <2>1. /\ b \in DOMAIN blocks /\ range \in Ranges /\ Members(parts)
        /\ status # Null /\ Accept
        /\ blocks' = [blocks EXCEPT ![b] = row]
        /\ Audit({<<"update", b>>})
        /\ UNCHANGED <<tasks, work, issued>>
    BY <1>1, <1>3 DEF UpdatePlannedTimeBlock, NotFound
  <2> HIDE DEF range
  <2>2. blocks[b] \in Block
    BY <2>1, TypeParts DEF Rows
  <2>3. New(parts, blocks[b].parts) \in SUBSET Users
    BY <2>1, <2>2 DEF New, Members, Block
  <2>4. New(status, blocks[b].status) \in {"planned", "completed", "cancelled"}
    BY <2>1, <2>2 DEF New, Block, Nulls
  <2>5. row \in Block
    BY <2>1, <2>2, <2>3, <2>4 DEF Block
  <2> HIDE DEF row
  <2>6. Rows(blocks', Block) /\ DOMAIN blocks' = DOMAIN blocks
    BY <2>1, <2>5, TypeParts DEF Rows
  <2>7. audit' \subseteq Events
    BY <2>1, TypeParts, EventsAreTyped DEF Audit, Ids
  <2> QED
    BY <2>1, <2>6, <2>7, TypeAfter, TypeParts
<1> QED
  BY <1>2, <1>3

LEMMA TypeRecord ==
    ASSUME TypeOK, writes < MaxWrites, RecordRequest
    PROVE  TypeOK'
<1> USE ConstantsAssumption
<1>1. PICK parts \in Lists \ {{}}, range \in AskedRanges \union {NoRange},
           override \in Overrides \union {0}, scope \in Scopes \union {Unset},
           fair \in Flags \union {Unset}, t \in TaskIds \union {NoId},
           complete \in BOOLEAN :
              /\ complete => t # NoId
              /\ RecordCompletedWork(parts, range, override, scope, fair, t, complete)
  BY DEF RecordRequest
<1>2. CASE Refuse(403) \/ Refuse(404) \/ Refuse(500)
  BY <1>2, TypeRefuse
<1>3. CASE ~(Refuse(403) \/ Refuse(404) \/ Refuse(500))
  <2> DEFINE resolved == IF scope # Unset THEN scope
                         ELSE IF t # NoId THEN tasks[t].scope ELSE "household"
             finished == [tasks[t] EXCEPT !.status = "completed",
                                          !.stamps = @ \union {"completed_at"}]
             row(b) == [task |-> t, block |-> b, range |-> range, override |-> override,
                        fair |-> New(fair, resolved = "household"),
                        scope |-> resolved, parts |-> parts]
             actual == [kind |-> "actual", status |-> "completed", range |-> range,
                        scope |-> resolved, parts |-> parts, tasks |-> {}]
  <2>1. /\ t \in DOMAIN tasks \union {NoId} /\ Accept
        /\ complete => finished.stamps = Stamps.completed
        /\ tasks' = IF complete THEN [tasks EXCEPT ![t] = finished] ELSE tasks
        /\ \E w \in WorkIds \ issued, b \in (BlockIds \ issued) \union {NoId} :
            /\ (b = NoId) <=> (range = NoRange)
            /\ work' = Put(work, w, row(b))
            /\ \/ b = NoId /\ UNCHANGED blocks
               \/ b # NoId /\ blocks' = Put(blocks, b, actual)
            /\ issued' = issued \union ({w, b} \ {NoId})
            /\ Audit({<<"create", x>> : x \in {w, b} \ {NoId}}
                     \union (IF complete THEN {<<"update", t>>} ELSE {}))
    BY <1>1, <1>3 DEF RecordCompletedWork
  <2>2. t # NoId => t \in DOMAIN tasks /\ tasks[t] \in Task
    BY <2>1, TypeParts DEF Rows, TaskRow
  <2>3. resolved \in AllScopes
    BY <2>2 DEF Task
  <2>4. complete => finished \in TaskRow
    BY <1>1, <2>1, <2>2 DEF TaskRow, Task, Stamps
  <2>5. Rows(tasks', TaskRow) /\ DOMAIN tasks' = DOMAIN tasks
    <3> HIDE DEF finished
    <3> QED
      BY <1>1, <2>1, <2>2, <2>4, TypeParts DEF Rows
  <2>6. \A b \in BlockIds \union {NoId} : row(b) \in Work
    BY <2>1, <2>3 DEF Work, Ranges, New
  <2>7. range # NoRange => actual \in Block
    BY <2>3 DEF Block, Ranges
  <2> HIDE DEF resolved, finished, row, actual
  <2>8. PICK w \in WorkIds \ issued, b \in (BlockIds \ issued) \union {NoId} :
            /\ (b = NoId) <=> (range = NoRange)
            /\ work' = Put(work, w, row(b))
            /\ \/ b = NoId /\ UNCHANGED blocks
               \/ b # NoId /\ blocks' = Put(blocks, b, actual)
            /\ issued' = issued \union ({w, b} \ {NoId})
            /\ Audit({<<"create", x>> : x \in {w, b} \ {NoId}}
                     \union (IF complete THEN {<<"update", t>>} ELSE {}))
    BY <2>1
  <2>9. issued' \subseteq Ids /\ issued \subseteq issued' /\ w \in WorkIds \cap issued'
        /\ (b # NoId => b \in BlockIds \cap issued')
    BY <2>8, TypeParts DEF Ids
  <2>10. Rows(work', Work) /\ DOMAIN work' = DOMAIN work \union {w}
    BY <2>6, <2>8, PutRow, TypeParts
  <2>11. Rows(blocks', Block) /\ DOMAIN blocks' \subseteq DOMAIN blocks \union ({b} \ {NoId})
    <3>1. CASE b = NoId
      BY <2>8, <3>1, TypeParts
    <3>2. CASE b # NoId
      <4>1. blocks' = Put(blocks, b, actual) /\ actual \in Block
        BY <2>7, <2>8, <3>2
      <4>2. Rows(blocks', Block) /\ DOMAIN blocks' = DOMAIN blocks \union {b}
        BY <4>1, PutRow, TypeParts
      <4> QED
        BY <4>2, <3>2
    <3> QED
      BY <3>1, <3>2
  <2>12. audit' \subseteq Events
    <3>1. \A x \in {w, b} \ {NoId} : <<"create", x>> \in Events
      BY EventsAreTyped DEF Ids
    <3>2. complete => <<"update", t>> \in Events
      BY <1>1, EventsAreTyped DEF Ids
    <3> QED
      BY <2>8, <3>1, <3>2, TypeParts DEF Audit
  <2> QED
    BY <2>1, <2>5, <2>9, <2>10, <2>11, <2>12, TypeAfter, TypeParts
<1> QED
  BY <1>2, <1>3

LEMMA TypeUpdateWork ==
    ASSUME TypeOK, writes < MaxWrites, UpdateWorkRequest
    PROVE  TypeOK'
<1> USE ConstantsAssumption
<1>1. PICK w \in WorkIds,
           times \in Ranges \union ({Unset} \union Nulls) \X ({Unset} \union Nulls),
           scope \in Scopes \union {Unset}, fair \in Flags \union {Unset} \union Nulls,
           parts \in Lists \union {Unset} \union Nulls :
              UpdateCompletedWork(w, times[1], times[2], scope, fair, parts)
  BY DEF UpdateWorkRequest
<1>2. CASE \E code \in {400, 403, 404, 500} : Refuse(code)
  BY <1>2, TypeRefuse
<1>3. CASE ~ \E code \in {400, 403, 404, 500} : Refuse(code)
  <2> DEFINE sent == times[1] # Unset /\ times[2] # Unset
             range == IF sent THEN <<times[1], times[2]>> ELSE NoRange
             row == [work[w] EXCEPT !.range = IF sent THEN range ELSE @,
                                    !.override = IF sent THEN 0 ELSE @,
                                    !.scope = New(scope, @),
                                    !.fair = IF fair = Null THEN FALSE ELSE New(fair, @),
                                    !.parts = New(parts, @)]
  <2>1. /\ w \in DOMAIN work /\ Members(parts) /\ ~(sent /\ times[1] = Null) /\ Accept
        /\ work' = [work EXCEPT ![w] = row]
        /\ blocks' = [b \in DOMAIN blocks |->
                IF b = work[w].block THEN Follow(blocks[b], range, scope, parts)
                                     ELSE blocks[b]]
        /\ Audit({<<"update", w>>})
        /\ UNCHANGED <<tasks, issued>>
    BY <1>1, <1>3 DEF UpdateCompletedWork, NotFound
  <2>2. work[w] \in Work
    BY <2>1, TypeParts DEF Rows
  <2>3. sent => range \in Ranges
    BY <2>1 DEF Ranges, Nulls
  <2>4. range \in Ranges \union {NoRange}
    BY <2>3
  <2> HIDE DEF sent, range
  <2>5. New(parts, work[w].parts) \in SUBSET Users /\ New(scope, work[w].scope) \in AllScopes
        /\ (IF fair = Null THEN FALSE ELSE New(fair, work[w].fair)) \in BOOLEAN
        /\ (IF sent THEN range ELSE work[w].range) \in Ranges \union {NoRange}
        /\ (IF sent THEN 0 ELSE work[w].override) \in Overrides \union {0}
    <3>1. work[w].range \in Ranges \union {NoRange} /\ work[w].override \in Overrides \union {0}
      BY <2>2 DEF Work
    <3> QED
      BY <2>1, <2>2, <2>3, <3>1 DEF New, Members, Work, Nulls
  <2>6. row \in Work
    <3> DEFINE r1 == IF sent THEN range ELSE work[w].range
               r2 == IF sent THEN 0 ELSE work[w].override
               r3 == New(scope, work[w].scope)
               r4 == IF fair = Null THEN FALSE ELSE New(fair, work[w].fair)
               r5 == New(parts, work[w].parts)
    <3>1. /\ r1 \in Ranges \union {NoRange} /\ r2 \in Overrides \union {0}
          /\ r3 \in AllScopes /\ r4 \in BOOLEAN /\ r5 \in SUBSET Users
      BY <2>5
    <3>2. row = [work[w] EXCEPT !.range = r1, !.override = r2, !.scope = r3,
                                !.fair = r4, !.parts = r5]
      OBVIOUS
    <3> HIDE DEF row, r1, r2, r3, r4, r5
    <3> DEFINE timed == [work[w] EXCEPT !.range = r1, !.override = r2]
               scoped == [timed EXCEPT !.scope = r3, !.fair = r4]
    <3>3. timed \in Work
      BY <2>2, <3>1 DEF Work
    <3>4. scoped \in Work
      <4> HIDE DEF timed
      <4> QED
        BY <3>1, <3>3 DEF Work
    <3>5. [scoped EXCEPT !.parts = r5] \in Work
      <4> HIDE DEF scoped
      <4> QED
        BY <3>1, <3>4 DEF Work
    <3>6. row = [scoped EXCEPT !.parts = r5]
      BY <3>2
    <3> QED
      BY <3>5, <3>6
  <2>7. ASSUME NEW b \in DOMAIN blocks PROVE Follow(blocks[b], range, scope, parts) \in Block
    <3>1. blocks[b] \in Block
      BY TypeParts DEF Rows
    <3>2. New(parts, blocks[b].parts) \in SUBSET Users /\ New(scope, blocks[b].scope) \in AllScopes
      BY <2>1, <3>1 DEF New, Members, Block
    <3>3. (IF range = NoRange THEN blocks[b].range ELSE range) \in Ranges
      BY <2>4, <3>1 DEF Block
    <3> QED
      BY <3>1, <3>2, <3>3 DEF Follow, Changed, Block
  <2> HIDE DEF row
  <2>8. Rows(work', Work) /\ DOMAIN work' = DOMAIN work
    BY <2>1, <2>6, TypeParts DEF Rows
  <2>9. Rows(blocks', Block) /\ DOMAIN blocks' = DOMAIN blocks
    BY <2>1, <2>7, TypeParts DEF Rows
  <2>10. audit' \subseteq Events
    BY <2>1, TypeParts, EventsAreTyped DEF Audit, Ids
  <2> QED
    BY <2>1, <2>8, <2>9, <2>10, TypeAfter, TypeParts
<1> QED
  BY <1>2, <1>3

LEMMA TypeDeleteWork ==
    ASSUME TypeOK, writes < MaxWrites, DeleteWorkRequest
    PROVE  TypeOK'
<1>1. PICK w \in WorkIds : DeleteCompletedWork(w)
  BY DEF DeleteWorkRequest
<1>2. CASE Refuse(404)
  BY <1>2, TypeRefuse
<1>3. CASE ~Refuse(404)
  <2>1. /\ Accept
        /\ work' = Without(work, {w})
        /\ blocks' = Without(blocks, {work[w].block})
        /\ Audit({<<"delete", w>>})
        /\ UNCHANGED <<tasks, issued>>
    BY <1>1, <1>3 DEF DeleteCompletedWork, NotFound
  <2>2. Rows(work', Work) /\ DOMAIN work' \subseteq DOMAIN work
    BY <2>1, TypeParts, WithoutRows
  <2>3. Rows(blocks', Block) /\ DOMAIN blocks' \subseteq DOMAIN blocks
    BY <2>1, TypeParts, WithoutRows
  <2>4. audit' \subseteq Events
    BY <2>1, TypeParts, EventsAreTyped DEF Audit, Ids
  <2> QED
    BY <2>1, <2>2, <2>3, <2>4, TypeAfter, TypeParts
<1> QED
  BY <1>2, <1>3

LEMMA TypeStep == TypeOK /\ [Next]_vars => TypeOK'
<1> SUFFICES ASSUME TypeOK, [Next]_vars PROVE TypeOK'
  OBVIOUS
<1>1. CASE UNCHANGED vars
  BY <1>1 DEF vars, TypeOK
<1>2. ASSUME NEW actor \in Users, NotAMember(actor) PROVE TypeOK'
  BY <1>2, TypeRefuse DEF NotAMember
<1>3. CASE Next
  BY <1>2, <1>3, TypeCreateTask, TypeUpdateTask, TypeDeleteTask, TypeScheduleTask,
     TypeLifecycle, TypeUpdateBlock, TypeRecord, TypeUpdateWork, TypeDeleteWork
  DEF Next, Request
<1> QED
  BY <1>1, <1>3

(* Rows have the columns and timestamps of models.py in every reachable    *)
(* state, whatever requests are made.                                      *)
THEOREM TypeCorrect == Spec => []TypeOK
BY TypeInit, TypeStep, PTL DEF Spec

-----------------------------------------------------------------------------
(* The structural invariants, proved together: that an actual block        *)
(* belongs to one record needs that planned blocks never carry work, and   *)
(* that plans serve existing tasks needs the task tree.                    *)

BlocksInv == ActualBlocksRecordWork /\ PlannedBlocksServeTask

IInv == TypeOK /\ BlocksInv /\ TaskTree

(* A refused request changes no row.                                       *)
LEMMA KeepRefuse ==
    ASSUME IInv, NEW code, Refuse(code)
    PROVE  BlocksInv' /\ TaskTree'
BY DEF IInv, BlocksInv, ActualBlocksRecordWork, PlannedBlocksServeTask, TaskTree, Refuse, data

-----------------------------------------------------------------------------
(* What several requests have in common.                                   *)

LEMMA SameTree ==
    ASSUME TaskTree, DOMAIN tasks' = DOMAIN tasks,
           \A t \in DOMAIN tasks : tasks'[t].parent = tasks[t].parent,
           \A w \in DOMAIN work' : work'[w].task \in DOMAIN tasks \union {NoId}
    PROVE  TaskTree'
<1>1. \A t \in DOMAIN tasks' : tasks'[t].parent \in DOMAIN tasks' \union {NoId}
  BY DEF TaskTree
<1>2. ASSUME NEW S \in SUBSET DOMAIN tasks', S # {}
      PROVE  \E t \in S : tasks'[t].parent \notin S
  BY <1>2 DEF TaskTree
<1> QED
  BY <1>1, <1>2 DEF TaskTree

LEMMA SameBlocks ==
    ASSUME BlocksInv, UNCHANGED <<blocks, work>>, DOMAIN tasks \subseteq DOMAIN tasks'
    PROVE  BlocksInv'
<1>1. ActualBlocksRecordWork'
  BY DEF BlocksInv, ActualBlocksRecordWork
<1>2. PlannedBlocksServeTask'
  BY DEF BlocksInv, PlannedBlocksServeTask
<1> QED
  BY <1>1, <1>2 DEF BlocksInv

(* A new plan for a task that exists.                                      *)
LEMMA NewPlan ==
    ASSUME TypeOK, BlocksInv, UNCHANGED work,
           NEW b, b \notin DOMAIN blocks,
           NEW row, blocks' = Put(blocks, b, row),
           NEW t \in DOMAIN tasks', row.kind = "planned", row.tasks = {t},
           DOMAIN tasks \subseteq DOMAIN tasks'
    PROVE  BlocksInv'
<1>1. /\ DOMAIN blocks' = DOMAIN blocks \union {b} /\ blocks'[b] = row
      /\ \A x \in DOMAIN blocks : blocks'[x] = blocks[x]
  BY DEF Put
<1>2. ActualBlocksRecordWork'
  <2>1. ASSUME NEW w \in DOMAIN work', work'[w].block # NoId
        PROVE  /\ work'[w].block \in DOMAIN blocks'
               /\ LET c == blocks'[work'[w].block]
                  IN  /\ c.kind = "actual" /\ c.status = "completed"
                      /\ c.range = work'[w].range
                      /\ c.scope = work'[w].scope
                      /\ c.parts = work'[w].parts
    BY <1>1, <2>1 DEF BlocksInv, ActualBlocksRecordWork
  <2>2. ASSUME NEW c \in DOMAIN blocks', blocks'[c].kind = "actual"
        PROVE  blocks'[c].tasks = {} /\ \E w \in DOMAIN work' : work'[w].block = c
    BY <1>1, <2>2 DEF BlocksInv, ActualBlocksRecordWork
  <2>3. \A w, x \in DOMAIN work' : work'[w].block = work'[x].block =>
           w = x \/ work'[w].block = NoId
    BY DEF BlocksInv, ActualBlocksRecordWork
  <2> QED
    BY <2>1, <2>2, <2>3 DEF ActualBlocksRecordWork
<1>3. PlannedBlocksServeTask'
  BY <1>1 DEF BlocksInv, PlannedBlocksServeTask
<1> QED
  BY <1>2, <1>3 DEF BlocksInv

-----------------------------------------------------------------------------
(* One lemma for each request.                                             *)

LEMMA KeepCreateTask ==
    ASSUME IInv, CreateTaskRequest
    PROVE  BlocksInv' /\ TaskTree'
<1> USE ConstantsAssumption
<1>1. PICK actor \in Active, parts \in Lists, parent \in TaskIds \union {NoId},
           scope \in Scopes, range \in AskedRanges \union {NoRange} :
              CreateTask(actor, parts, parent, scope, range)
  BY DEF CreateTaskRequest
<1>2. CASE Refuse(403) \/ Refuse(404)
  BY <1>2, KeepRefuse
<1>3. CASE ~(Refuse(403) \/ Refuse(404))
  <2> DEFINE row == [creator |-> actor, parent |-> parent, status |-> "active",
                     stamps |-> {}, scope |-> scope, parts |-> parts]
  <2>1. PICK t \in TaskIds \ issued :
          /\ parent \in DOMAIN tasks \union {NoId}
          /\ UNCHANGED work
          /\ tasks' = Put(tasks, t, row)
          /\ \/ UNCHANGED blocks
             \/ \E b \in BlockIds \ issued :
                   blocks' = Put(blocks, b, PlannedBlock(range, scope, parts, t))
    BY <1>1, <1>3 DEF CreateTask
  <2>2. row.parent = parent
    OBVIOUS
  <2> HIDE DEF row
  <2>3. /\ DOMAIN tasks' = DOMAIN tasks \union {t} /\ tasks'[t] = row
        /\ \A x \in DOMAIN tasks : tasks'[x] = tasks[x]
        /\ t \notin DOMAIN tasks /\ t # NoId
    <3>1. t \notin DOMAIN tasks /\ t # NoId
      BY DEF IInv, TypeOK
    <3> QED
      BY <2>1, <3>1 DEF Put
  <2>4. BlocksInv'
    <3>1. CASE UNCHANGED blocks
      BY <2>1, <2>3, <3>1, SameBlocks DEF IInv
    <3>2. ASSUME NEW b \in BlockIds \ issued,
                 blocks' = Put(blocks, b, PlannedBlock(range, scope, parts, t))
          PROVE  BlocksInv'
      <4> DEFINE plan == PlannedBlock(range, scope, parts, t)
      <4>1. plan.kind = "planned" /\ plan.tasks = {t} /\ blocks' = Put(blocks, b, plan)
        BY <3>2 DEF PlannedBlock
      <4>2. b \notin DOMAIN blocks
        BY DEF IInv, TypeOK
      <4> HIDE DEF plan
      <4> QED
        BY <2>1, <2>3, <4>1, <4>2, NewPlan DEF IInv
    <3> QED
      BY <2>1, <3>1, <3>2
  <2>5. TaskTree'
    <3>1. \A x \in DOMAIN tasks : tasks[x].parent \in DOMAIN tasks \union {NoId}
      BY DEF IInv, TaskTree
    <3>2. ASSUME NEW S \in SUBSET DOMAIN tasks', S # {}
          PROVE  \E x \in S : tasks'[x].parent \notin S
      <4>1. CASE S = {t}
        BY <2>1, <2>2, <2>3, <4>1
      <4>2. CASE S # {t}
        <5>1. S \ {t} # {} /\ S \ {t} \in SUBSET DOMAIN tasks
          BY <2>3, <3>2, <4>2
        <5>2. PICK x \in S \ {t} : tasks[x].parent \notin S \ {t}
          BY <5>1 DEF IInv, TaskTree
        <5> QED
          BY <2>3, <3>1, <5>1, <5>2
      <4> QED
        BY <4>1, <4>2
    <3>3. \A x \in DOMAIN tasks' : tasks'[x].parent \in DOMAIN tasks' \union {NoId}
      BY <2>1, <2>2, <2>3, <3>1
    <3>4. \A w \in DOMAIN work' : work'[w].task \in DOMAIN tasks' \union {NoId}
      BY <2>1, <2>3 DEF IInv, TaskTree
    <3> QED
      BY <3>2, <3>3, <3>4 DEF TaskTree
  <2> QED
    BY <2>4, <2>5
<1> QED
  BY <1>2, <1>3

LEMMA KeepUpdateTask ==
    ASSUME IInv, UpdateTaskRequest
    PROVE  BlocksInv' /\ TaskTree'
<1>1. PICK t \in TaskIds, scope \in Scopes \union {Unset},
           parts \in Lists \union {Unset} \union Nulls : UpdateTask(t, scope, parts)
  BY DEF UpdateTaskRequest
<1>2. CASE Refuse(403) \/ Refuse(404) \/ Refuse(500)
  BY <1>2, KeepRefuse
<1>3. CASE ~(Refuse(403) \/ Refuse(404) \/ Refuse(500))
  <2>1. /\ t \in DOMAIN tasks /\ UNCHANGED <<blocks, work>>
        /\ tasks' = [tasks EXCEPT ![t] = Changed(tasks[t], scope, parts)]
    BY <1>1, <1>3 DEF UpdateTask, NotFound
  <2>2. tasks[t] \in Task
    BY <2>1 DEF IInv, TypeOK
  <2>3. Changed(tasks[t], scope, parts).parent = tasks[t].parent
    BY <2>2 DEF Changed, Task
  <2>4. DOMAIN tasks' = DOMAIN tasks /\ \A x \in DOMAIN tasks : tasks'[x].parent = tasks[x].parent
    BY <2>1, <2>3
  <2>5. \A w \in DOMAIN work' : work'[w].task \in DOMAIN tasks \union {NoId}
    BY <2>1 DEF IInv, TaskTree
  <2> QED
    BY <2>1, <2>4, <2>5, SameBlocks, SameTree DEF IInv
<1> QED
  BY <1>2, <1>3

LEMMA KeepLifecycle ==
    ASSUME IInv, LifecycleRequest
    PROVE  BlocksInv' /\ TaskTree'
<1>1. PICK t \in TaskIds, status \in Statuses : UpdateTaskLifecycle(t, status)
  BY DEF LifecycleRequest
<1>2. CASE Refuse(404)
  BY <1>2, KeepRefuse
<1>3. CASE ~Refuse(404)
  <2> DEFINE row == [tasks[t] EXCEPT !.status = status, !.stamps = Stamps[status]]
  <2>1. t \in DOMAIN tasks /\ UNCHANGED <<blocks, work>> /\ tasks' = [tasks EXCEPT ![t] = row]
    BY <1>1, <1>3 DEF UpdateTaskLifecycle, NotFound
  <2>2. tasks[t] \in Task
    BY <2>1 DEF IInv, TypeOK
  <2>3. row.parent = tasks[t].parent
    BY <2>2 DEF Task
  <2> HIDE DEF row
  <2>4. DOMAIN tasks' = DOMAIN tasks /\ \A x \in DOMAIN tasks : tasks'[x].parent = tasks[x].parent
    BY <2>1, <2>3
  <2>5. \A w \in DOMAIN work' : work'[w].task \in DOMAIN tasks \union {NoId}
    BY <2>1 DEF IInv, TaskTree
  <2> QED
    BY <2>1, <2>4, <2>5, SameBlocks, SameTree DEF IInv
<1> QED
  BY <1>2, <1>3

LEMMA KeepScheduleTask ==
    ASSUME IInv, ScheduleTaskRequest
    PROVE  BlocksInv' /\ TaskTree'
<1>1. PICK t \in TaskIds, range \in AskedRanges, parts \in Lists \union {Unset} :
              ScheduleTask(t, range, parts)
  BY DEF ScheduleTaskRequest
<1>2. CASE Refuse(403) \/ Refuse(404)
  BY <1>2, KeepRefuse
<1>3. CASE ~(Refuse(403) \/ Refuse(404))
  <2> DEFINE plan == PlannedBlock(range, tasks[t].scope, New(parts, tasks[t].parts), t)
  <2>1. t \in DOMAIN tasks /\ UNCHANGED <<tasks, work>>
    BY <1>1, <1>3 DEF ScheduleTask, NotFound
  <2>2. PICK b \in BlockIds \ issued : blocks' = Put(blocks, b, plan)
    BY <1>1, <1>3 DEF ScheduleTask, NotFound
  <2>3. plan.kind = "planned" /\ plan.tasks = {t}
    BY DEF PlannedBlock
  <2>4. b \notin DOMAIN blocks
    BY DEF IInv, TypeOK
  <2> HIDE DEF plan
  <2>5. BlocksInv'
    BY <2>1, <2>2, <2>3, <2>4, NewPlan DEF IInv
  <2>6. TaskTree'
    BY <2>1 DEF IInv, TaskTree
  <2> QED
    BY <2>5, <2>6
<1> QED
  BY <1>2, <1>3

LEMMA KeepUpdateBlock ==
    ASSUME IInv, UpdateBlockRequest
    PROVE  BlocksInv' /\ TaskTree'
<1>1. PICK b \in BlockIds, start \in Times \union {Unset} \union Nulls,
           end \in Times \union {Unset} \union Nulls,
           status \in {"planned", "cancelled", Unset} \union Nulls,
           parts \in Lists \union {Unset} \union Nulls :
              UpdatePlannedTimeBlock(b, start, end, status, parts)
  BY DEF UpdateBlockRequest
<1>2. CASE \E code \in {400, 403, 404, 409, 500} : Refuse(code)
  BY <1>2, KeepRefuse
<1>3. CASE ~ \E code \in {400, 403, 404, 409, 500} : Refuse(code)
  <2> DEFINE range == <<New(start, blocks[b].range[1]), New(end, blocks[b].range[2])>>
             row == [blocks[b] EXCEPT !.range = range, !.status = New(status, @),
                                      !.parts = New(parts, @)]
  <2>1. /\ b \in DOMAIN blocks /\ blocks[b].kind = "planned"
        /\ blocks' = [blocks EXCEPT ![b] = row]
        /\ UNCHANGED <<tasks, work>>
    BY <1>1, <1>3 DEF UpdatePlannedTimeBlock, NotFound
  <2>2. blocks[b] \in Block
    BY <2>1 DEF IInv, TypeOK
  <2>3. row.kind = "planned" /\ row.tasks = blocks[b].tasks
    BY <2>1, <2>2 DEF Block
  <2> HIDE DEF row
  <2>4. /\ DOMAIN blocks' = DOMAIN blocks /\ blocks'[b] = row
        /\ \A x \in DOMAIN blocks : x # b => blocks'[x] = blocks[x]
    BY <2>1
  <2>5. ActualBlocksRecordWork'
    <3>1. ASSUME NEW w \in DOMAIN work', work'[w].block # NoId
          PROVE  /\ work'[w].block \in DOMAIN blocks' /\ work'[w].block # b
                 /\ blocks'[work'[w].block] = blocks[work[w].block]
      BY <2>1, <2>4, <3>1 DEF IInv, BlocksInv, ActualBlocksRecordWork
    <3>2. ASSUME NEW c \in DOMAIN blocks', blocks'[c].kind = "actual"
          PROVE  blocks'[c].tasks = {} /\ \E w \in DOMAIN work' : work'[w].block = c
      BY <2>1, <2>3, <2>4, <3>2 DEF IInv, BlocksInv, ActualBlocksRecordWork
    <3> QED
      BY <2>1, <3>1, <3>2 DEF IInv, BlocksInv, ActualBlocksRecordWork
  <2>6. PlannedBlocksServeTask'
    BY <2>1, <2>3, <2>4 DEF IInv, BlocksInv, PlannedBlocksServeTask
  <2>7. TaskTree'
    BY <2>1 DEF IInv, TaskTree
  <2> QED
    BY <2>5, <2>6, <2>7 DEF BlocksInv
<1> QED
  BY <1>2, <1>3

LEMMA KeepDeleteTask ==
    ASSUME IInv, DeleteTaskRequest
    PROVE  BlocksInv' /\ TaskTree'
<1>1. PICK actor \in Active, t \in TaskIds : DeleteTask(actor, t)
  BY DEF DeleteTaskRequest
<1>2. CASE Refuse(403) \/ Refuse(404) \/ Refuse(409)
  BY <1>2, KeepRefuse
<1>3. CASE ~(Refuse(403) \/ Refuse(404) \/ Refuse(409))
  <2>1. /\ t \in DOMAIN tasks /\ ~HasSubtask(t)
        /\ blocks' = [b \in DOMAIN blocks \ ServingOnly(t) |->
                        [blocks[b] EXCEPT !.tasks = @ \ {t}]]
        /\ work' = Unlinked(t)
        /\ tasks' = Without(tasks, {t})
    BY <1>1, <1>3 DEF DeleteTask, NotFound
  <2>2. ASSUME NEW b \in DOMAIN blocks'
        PROVE  /\ b \in DOMAIN blocks /\ b \notin ServingOnly(t)
               /\ blocks'[b].kind = blocks[b].kind /\ blocks'[b].status = blocks[b].status
               /\ blocks'[b].range = blocks[b].range /\ blocks'[b].scope = blocks[b].scope
               /\ blocks'[b].parts = blocks[b].parts /\ blocks'[b].tasks = blocks[b].tasks \ {t}
    <3>1. b \in DOMAIN blocks /\ b \notin ServingOnly(t)
          /\ blocks'[b] = [blocks[b] EXCEPT !.tasks = @ \ {t}]
      BY <2>1, <2>2
    <3>2. blocks[b] \in Block
      BY <3>1 DEF IInv, TypeOK
    <3> QED
      BY <3>1, <3>2 DEF Block
  <2>3. /\ DOMAIN work' = DOMAIN work
        /\ \A w \in DOMAIN work :
             /\ work'[w].block = work[w].block /\ work'[w].range = work[w].range
             /\ work'[w].scope = work[w].scope /\ work'[w].parts = work[w].parts
             /\ work'[w].task = IF work[w].task = t THEN NoId ELSE work[w].task
    <3>1. DOMAIN work' = DOMAIN work
      BY <2>1 DEF Unlinked
    <3>2. ASSUME NEW w \in DOMAIN work
          PROVE  work[w] \in Work /\ work'[w] = [work[w] EXCEPT !.task = IF @ = t THEN NoId ELSE @]
      BY <2>1 DEF Unlinked, IInv, TypeOK
    <3> QED
      BY <3>1, <3>2 DEF Work
  <2>4. ActualBlocksRecordWork'
    <3>1. ASSUME NEW w \in DOMAIN work', work'[w].block # NoId
          PROVE  work'[w].block \in DOMAIN blocks'
      <4>1. work[w].block \in DOMAIN blocks /\ blocks[work[w].block].kind = "actual"
        BY <2>3, <3>1 DEF IInv, BlocksInv, ActualBlocksRecordWork
      <4> QED
        BY <2>1, <2>3, <4>1 DEF ServingOnly
    <3>2. ASSUME NEW w \in DOMAIN work', work'[w].block # NoId
          PROVE  LET c == blocks'[work'[w].block]
                 IN  /\ c.kind = "actual" /\ c.status = "completed"
                     /\ c.range = work'[w].range
                     /\ c.scope = work'[w].scope
                     /\ c.parts = work'[w].parts
      BY <2>2, <2>3, <3>1, <3>2 DEF IInv, BlocksInv, ActualBlocksRecordWork
    <3>3. ASSUME NEW c \in DOMAIN blocks', blocks'[c].kind = "actual"
          PROVE  blocks'[c].tasks = {} /\ \E w \in DOMAIN work' : work'[w].block = c
      BY <2>2, <2>3, <3>3 DEF IInv, BlocksInv, ActualBlocksRecordWork
    <3>4. \A w, x \in DOMAIN work' : work'[w].block = work'[x].block =>
             w = x \/ work'[w].block = NoId
      BY <2>3 DEF IInv, BlocksInv, ActualBlocksRecordWork
    <3> QED
      BY <3>1, <3>2, <3>3, <3>4 DEF ActualBlocksRecordWork
  <2>5. DOMAIN tasks' = DOMAIN tasks \ {t} /\ \A x \in DOMAIN tasks' : tasks'[x] = tasks[x]
    BY <2>1 DEF Without
  <2>6. PlannedBlocksServeTask'
    <3> SUFFICES ASSUME NEW b \in DOMAIN blocks', blocks'[b].kind = "planned"
                 PROVE  \E x \in DOMAIN tasks' : blocks'[b].tasks = {x}
      BY DEF PlannedBlocksServeTask
    <3>1. PICK x \in DOMAIN tasks : blocks[b].tasks = {x}
      BY <2>2 DEF IInv, BlocksInv, PlannedBlocksServeTask
    <3>2. x # t
      BY <2>2, <3>1 DEF ServingOnly
    <3> QED
      BY <2>2, <2>5, <3>1, <3>2
  <2>7. TaskTree'
    <3>1. \A x \in DOMAIN tasks' : tasks'[x].parent \in DOMAIN tasks' \union {NoId}
      <4>1. \A x \in DOMAIN tasks :
               tasks[x].parent # t /\ tasks[x].parent \in DOMAIN tasks \union {NoId}
        BY <2>1 DEF IInv, TaskTree, HasSubtask
      <4> QED
        BY <2>5, <4>1
    <3>2. ASSUME NEW S \in SUBSET DOMAIN tasks', S # {}
          PROVE  \E x \in S : tasks'[x].parent \notin S
      BY <2>5, <3>2 DEF IInv, TaskTree
    <3>3. \A w \in DOMAIN work' : work'[w].task \in DOMAIN tasks' \union {NoId}
      BY <2>3, <2>5 DEF IInv, TaskTree
    <3> QED
      BY <3>1, <3>2, <3>3 DEF TaskTree
  <2> QED
    BY <2>4, <2>6, <2>7 DEF BlocksInv
<1> QED
  BY <1>2, <1>3

LEMMA KeepRecord ==
    ASSUME IInv, RecordRequest
    PROVE  BlocksInv' /\ TaskTree'
<1> USE ConstantsAssumption
<1>1. PICK parts \in Lists \ {{}}, range \in AskedRanges \union {NoRange},
           override \in Overrides \union {0}, scope \in Scopes \union {Unset},
           fair \in Flags \union {Unset}, t \in TaskIds \union {NoId},
           complete \in BOOLEAN :
              /\ complete => t # NoId
              /\ RecordCompletedWork(parts, range, override, scope, fair, t, complete)
  BY DEF RecordRequest
<1>2. CASE Refuse(403) \/ Refuse(404) \/ Refuse(500)
  BY <1>2, KeepRefuse
<1>3. CASE ~(Refuse(403) \/ Refuse(404) \/ Refuse(500))
  <2> DEFINE resolved == IF scope # Unset THEN scope
                         ELSE IF t # NoId THEN tasks[t].scope ELSE "household"
             finished == [tasks[t] EXCEPT !.status = "completed",
                                          !.stamps = @ \union {"completed_at"}]
             row(b) == [task |-> t, block |-> b, range |-> range, override |-> override,
                        fair |-> New(fair, resolved = "household"),
                        scope |-> resolved, parts |-> parts]
             actual == [kind |-> "actual", status |-> "completed", range |-> range,
                        scope |-> resolved, parts |-> parts, tasks |-> {}]
  <2>1. /\ t \in DOMAIN tasks \union {NoId}
        /\ tasks' = IF complete THEN [tasks EXCEPT ![t] = finished] ELSE tasks
        /\ \E w \in WorkIds \ issued, b \in (BlockIds \ issued) \union {NoId} :
            /\ (b = NoId) <=> (range = NoRange)
            /\ work' = Put(work, w, row(b))
            /\ \/ b = NoId /\ UNCHANGED blocks
               \/ b # NoId /\ blocks' = Put(blocks, b, actual)
            /\ issued' = issued \union ({w, b} \ {NoId})
    BY <1>1, <1>3 DEF RecordCompletedWork
  <2>2. PICK w \in WorkIds \ issued, b \in (BlockIds \ issued) \union {NoId} :
            /\ (b = NoId) <=> (range = NoRange)
            /\ work' = Put(work, w, row(b))
            /\ \/ b = NoId /\ UNCHANGED blocks
               \/ b # NoId /\ blocks' = Put(blocks, b, actual)
    BY <2>1
  <2>3. /\ row(b).block = b /\ row(b).range = range /\ row(b).scope = resolved
        /\ row(b).parts = parts /\ row(b).task = t
        /\ actual.kind = "actual" /\ actual.status = "completed" /\ actual.range = range
        /\ actual.scope = resolved /\ actual.parts = parts /\ actual.tasks = {}
    OBVIOUS
  <2>4. t # NoId => finished.parent = tasks[t].parent
    BY <2>1 DEF IInv, TypeOK, Task
  <2> DEFINE r == row(b)
  <2>5. work' = Put(work, w, r) /\ r.block = b /\ r.range = range /\ r.scope = resolved
        /\ r.parts = parts /\ r.task = t
    BY <2>2, <2>3
  <2> HIDE DEF r, row, actual, finished, resolved
  <2>6. w \notin DOMAIN work /\ b \notin DOMAIN blocks
    BY DEF IInv, TypeOK
  <2>7. /\ DOMAIN work' = DOMAIN work \union {w} /\ work'[w] = r
        /\ \A x \in DOMAIN work : work'[x] = work[x]
    BY <2>5, <2>6 DEF Put
  <2>8. /\ DOMAIN blocks' = DOMAIN blocks \union ({b} \ {NoId})
        /\ b # NoId => blocks'[b] = actual
        /\ \A x \in DOMAIN blocks : blocks'[x] = blocks[x]
    BY <2>2, <2>6 DEF Put
  <2>9. ActualBlocksRecordWork'
    <3>1. \A x \in DOMAIN work : work[x].block \in DOMAIN blocks \union {NoId}
      BY DEF IInv, BlocksInv, ActualBlocksRecordWork
    <3>2. ASSUME NEW x \in DOMAIN work', work'[x].block # NoId
          PROVE  /\ work'[x].block \in DOMAIN blocks'
                 /\ LET c == blocks'[work'[x].block]
                    IN  /\ c.kind = "actual" /\ c.status = "completed"
                        /\ c.range = work'[x].range
                        /\ c.scope = work'[x].scope
                        /\ c.parts = work'[x].parts
      <4>1. CASE x = w
        BY <2>3, <2>5, <2>7, <2>8, <3>2, <4>1
      <4>2. CASE x # w
        BY <2>7, <2>8, <3>2, <4>2 DEF IInv, BlocksInv, ActualBlocksRecordWork
      <4> QED
        BY <4>1, <4>2
    <3>3. ASSUME NEW c \in DOMAIN blocks', blocks'[c].kind = "actual"
          PROVE  blocks'[c].tasks = {} /\ \E x \in DOMAIN work' : work'[x].block = c
      <4>1. CASE c = b
        BY <2>3, <2>5, <2>7, <2>8, <2>6, <3>3, <4>1
      <4>2. CASE c # b
        BY <2>7, <2>8, <3>3, <4>2 DEF IInv, BlocksInv, ActualBlocksRecordWork
      <4> QED
        BY <4>1, <4>2
    <3>4. ASSUME NEW x \in DOMAIN work', NEW y \in DOMAIN work',
                 work'[x].block = work'[y].block, x # y
          PROVE  work'[x].block = NoId
      <4>1. CASE x \in DOMAIN work /\ y \in DOMAIN work
        BY <2>7, <3>4, <4>1 DEF IInv, BlocksInv, ActualBlocksRecordWork
      <4>2. CASE x = w \/ y = w
        BY <2>5, <2>6, <2>7, <3>1, <3>4, <4>2
      <4> QED
        BY <2>7, <4>1, <4>2
    <3> QED
      BY <3>2, <3>3, <3>4 DEF ActualBlocksRecordWork
  <2>10. /\ DOMAIN tasks' = DOMAIN tasks
         /\ \A x \in DOMAIN tasks : tasks'[x].parent = tasks[x].parent
    BY <1>1, <2>1, <2>4
  <2>11. PlannedBlocksServeTask'
    BY <2>3, <2>8, <2>10 DEF IInv, BlocksInv, PlannedBlocksServeTask
  <2>12. \A x \in DOMAIN work' : work'[x].task \in DOMAIN tasks \union {NoId}
    BY <2>1, <2>5, <2>7 DEF IInv, TaskTree
  <2> QED
    BY <2>9, <2>10, <2>11, <2>12, SameTree DEF BlocksInv, IInv
<1> QED
  BY <1>2, <1>3

LEMMA KeepUpdateWork ==
    ASSUME IInv, UpdateWorkRequest
    PROVE  BlocksInv' /\ TaskTree'
<1> USE ConstantsAssumption
<1>1. PICK w \in WorkIds,
           times \in Ranges \union ({Unset} \union Nulls) \X ({Unset} \union Nulls),
           scope \in Scopes \union {Unset}, fair \in Flags \union {Unset} \union Nulls,
           parts \in Lists \union {Unset} \union Nulls :
              UpdateCompletedWork(w, times[1], times[2], scope, fair, parts)
  BY DEF UpdateWorkRequest
<1>2. CASE \E code \in {400, 403, 404, 500} : Refuse(code)
  BY <1>2, KeepRefuse
<1>3. CASE ~ \E code \in {400, 403, 404, 500} : Refuse(code)
  <2> DEFINE sent == times[1] # Unset /\ times[2] # Unset
             range == IF sent THEN <<times[1], times[2]>> ELSE NoRange
             row == [work[w] EXCEPT !.range = IF sent THEN range ELSE @,
                                    !.override = IF sent THEN 0 ELSE @,
                                    !.scope = New(scope, @),
                                    !.fair = IF fair = Null THEN FALSE ELSE New(fair, @),
                                    !.parts = New(parts, @)]
  <2>1. /\ w \in DOMAIN work
        /\ work' = [work EXCEPT ![w] = row]
        /\ blocks' = [b \in DOMAIN blocks |->
                IF b = work[w].block THEN Follow(blocks[b], range, scope, parts)
                                     ELSE blocks[b]]
        /\ UNCHANGED tasks
    BY <1>1, <1>3 DEF UpdateCompletedWork, NotFound
  <2>2. work[w] \in Work
    BY <2>1 DEF IInv, TypeOK
  <2>3. sent <=> range # NoRange
    BY DEF NoRange
  <2> HIDE DEF sent, range
  <2>4. /\ row.block = work[w].block /\ row.task = work[w].task
        /\ row.range = IF range = NoRange THEN work[w].range ELSE range
        /\ row.scope = New(scope, work[w].scope)
        /\ row.parts = New(parts, work[w].parts)
    BY <2>2, <2>3 DEF Work
  <2> HIDE DEF row
  <2>5. /\ DOMAIN work' = DOMAIN work /\ work'[w] = row
        /\ \A x \in DOMAIN work : x # w => work'[x] = work[x]
    BY <2>1
  <2>6. DOMAIN blocks' = DOMAIN blocks
    BY <2>1
  <2>7. ASSUME NEW b \in DOMAIN blocks
        PROVE  /\ blocks'[b].kind = blocks[b].kind /\ blocks'[b].tasks = blocks[b].tasks
               /\ b # work[w].block => blocks'[b] = blocks[b]
               /\ b = work[w].block =>
                     /\ blocks'[b].status = blocks[b].status
                     /\ blocks'[b].range = IF range = NoRange THEN blocks[b].range ELSE range
                     /\ blocks'[b].scope = New(scope, blocks[b].scope)
                     /\ blocks'[b].parts = New(parts, blocks[b].parts)
    <3>1. blocks[b] \in Block
      BY DEF IInv, TypeOK
    <3>2. CASE b # work[w].block
      BY <2>1, <3>2
    <3>3. CASE b = work[w].block
      <4>1. blocks'[b] = Follow(blocks[b], range, scope, parts)
        BY <2>1, <3>3
      <4> QED
        BY <3>1, <3>3, <4>1 DEF Follow, Changed, Block
    <3> QED
      BY <3>2, <3>3
  <2>8. ActualBlocksRecordWork'
    <3>1. ASSUME NEW x \in DOMAIN work', work'[x].block # NoId
          PROVE  /\ work'[x].block \in DOMAIN blocks'
                 /\ LET c == blocks'[work'[x].block]
                    IN  /\ c.kind = "actual" /\ c.status = "completed"
                        /\ c.range = work'[x].range
                        /\ c.scope = work'[x].scope
                        /\ c.parts = work'[x].parts
      <4>1. work'[x].block = work[x].block
        BY <2>4, <2>5, <3>1
      <4>2. /\ work[x].block \in DOMAIN blocks
            /\ LET c == blocks[work[x].block]
               IN  /\ c.kind = "actual" /\ c.status = "completed"
                   /\ c.range = work[x].range
                   /\ c.scope = work[x].scope
                   /\ c.parts = work[x].parts
        BY <2>5, <3>1, <4>1 DEF IInv, BlocksInv, ActualBlocksRecordWork
      <4>3. CASE x = w
        BY <2>4, <2>5, <2>6, <2>7, <4>1, <4>2, <4>3
      <4>4. CASE x # w
        <5>1. work[x].block # work[w].block
          BY <2>1, <2>5, <3>1, <4>1, <4>4 DEF IInv, BlocksInv, ActualBlocksRecordWork
        <5> QED
          BY <2>5, <2>6, <2>7, <4>1, <4>2, <4>4, <5>1
      <4> QED
        BY <4>3, <4>4
    <3>2. \A x \in DOMAIN work' : work'[x].block = work[x].block
      BY <2>4, <2>5
    <3>3. ASSUME NEW c \in DOMAIN blocks', blocks'[c].kind = "actual"
          PROVE  blocks'[c].tasks = {} /\ \E x \in DOMAIN work' : work'[x].block = c
      BY <2>5, <2>6, <2>7, <3>2, <3>3 DEF IInv, BlocksInv, ActualBlocksRecordWork
    <3>4. \A x, y \in DOMAIN work' : work'[x].block = work'[y].block =>
             x = y \/ work'[x].block = NoId
      BY <2>5, <3>2 DEF IInv, BlocksInv, ActualBlocksRecordWork
    <3> QED
      BY <3>1, <3>3, <3>4 DEF ActualBlocksRecordWork
  <2>9. PlannedBlocksServeTask'
    BY <2>1, <2>6, <2>7 DEF IInv, BlocksInv, PlannedBlocksServeTask
  <2>10. TaskTree'
    <3>1. \A x \in DOMAIN work' : work'[x].task \in DOMAIN tasks \union {NoId}
      BY <2>1, <2>4, <2>5 DEF IInv, TaskTree
    <3> QED
      BY <2>1, <3>1, SameTree DEF IInv
  <2> QED
    BY <2>8, <2>9, <2>10 DEF BlocksInv
<1> QED
  BY <1>2, <1>3

LEMMA KeepDeleteWork ==
    ASSUME IInv, DeleteWorkRequest
    PROVE  BlocksInv' /\ TaskTree'
<1>1. PICK w \in WorkIds : DeleteCompletedWork(w)
  BY DEF DeleteWorkRequest
<1>2. CASE Refuse(404)
  BY <1>2, KeepRefuse
<1>3. CASE ~Refuse(404)
  <2>1. /\ w \in DOMAIN work
        /\ work' = Without(work, {w})
        /\ blocks' = Without(blocks, {work[w].block})
        /\ UNCHANGED tasks
    BY <1>1, <1>3 DEF DeleteCompletedWork, NotFound
  <2>2. /\ DOMAIN work' = DOMAIN work \ {w}
        /\ \A x \in DOMAIN work' : work'[x] = work[x]
        /\ DOMAIN blocks' = DOMAIN blocks \ {work[w].block}
        /\ \A b \in DOMAIN blocks' : blocks'[b] = blocks[b]
    BY <2>1 DEF Without
  <2>3. ActualBlocksRecordWork'
    <3>1. ASSUME NEW x \in DOMAIN work', work'[x].block # NoId
          PROVE  work[x].block \in DOMAIN blocks'
      BY <2>1, <2>2, <3>1 DEF IInv, BlocksInv, ActualBlocksRecordWork
    <3>2. ASSUME NEW c \in DOMAIN blocks', blocks'[c].kind = "actual"
          PROVE  /\ blocks'[c].tasks = {}
                 /\ \E x \in DOMAIN work' : work'[x].block = c
      <4>1. c \in DOMAIN blocks /\ c # work[w].block /\ blocks[c].kind = "actual"
            /\ blocks'[c] = blocks[c]
        BY <2>2, <3>2
      <4>2. PICK x \in DOMAIN work : work[x].block = c
        BY <4>1 DEF IInv, BlocksInv, ActualBlocksRecordWork
      <4>3. x \in DOMAIN work' /\ work'[x].block = c
        BY <2>2, <4>1, <4>2
      <4> QED
        BY <4>1, <4>3 DEF IInv, BlocksInv, ActualBlocksRecordWork
    <3>3. ASSUME NEW x \in DOMAIN work', work'[x].block # NoId
          PROVE  /\ work'[x].block \in DOMAIN blocks'
                 /\ LET c == blocks'[work'[x].block]
                    IN  /\ c.kind = "actual" /\ c.status = "completed"
                        /\ c.range = work'[x].range
                        /\ c.scope = work'[x].scope
                        /\ c.parts = work'[x].parts
      BY <2>2, <3>1, <3>3 DEF IInv, BlocksInv, ActualBlocksRecordWork
    <3>4. \A x, y \in DOMAIN work' : work'[x].block = work'[y].block =>
             x = y \/ work'[x].block = NoId
      BY <2>2 DEF IInv, BlocksInv, ActualBlocksRecordWork
    <3> QED
      BY <3>2, <3>3, <3>4 DEF ActualBlocksRecordWork
  <2>4. PlannedBlocksServeTask'
    <3> SUFFICES ASSUME NEW b \in DOMAIN blocks', blocks'[b].kind = "planned"
                 PROVE  \E t \in DOMAIN tasks' : blocks'[b].tasks = {t}
      BY DEF PlannedBlocksServeTask
    <3>1. b \in DOMAIN blocks /\ blocks'[b] = blocks[b]
      BY <2>2
    <3> QED
      BY <2>1, <3>1 DEF IInv, BlocksInv, PlannedBlocksServeTask
  <2>5. TaskTree'
    <3>1. \A x \in DOMAIN work' : work'[x].task \in DOMAIN tasks \union {NoId}
      BY <2>1, <2>2 DEF IInv, TaskTree
    <3> QED
      BY <2>1, <3>1, SameTree DEF IInv
  <2> QED
    BY <2>3, <2>4, <2>5 DEF BlocksInv
<1> QED
  BY <1>2, <1>3

-----------------------------------------------------------------------------

LEMMA IInvInit == Init => IInv
<1> SUFFICES ASSUME Init PROVE IInv
  OBVIOUS
<1>1. DOMAIN tasks = {} /\ DOMAIN blocks = {} /\ DOMAIN work = {}
  BY EmptyTable DEF Init
<1>2. BlocksInv /\ TaskTree
  BY <1>1 DEF BlocksInv, ActualBlocksRecordWork, PlannedBlocksServeTask, TaskTree
<1> QED
  BY <1>2, TypeInit DEF IInv

LEMMA IInvStep == IInv /\ [Next]_vars => IInv'
<1> SUFFICES ASSUME IInv, [Next]_vars PROVE IInv'
  OBVIOUS
<1>1. TypeOK'
  BY TypeStep DEF IInv
<1>2. CASE UNCHANGED vars
  BY <1>1, <1>2 DEF vars, IInv, BlocksInv, ActualBlocksRecordWork,
                    PlannedBlocksServeTask, TaskTree
<1>3. ASSUME NEW actor \in Users, NotAMember(actor) PROVE BlocksInv' /\ TaskTree'
  BY <1>3, KeepRefuse DEF NotAMember
<1>4. CASE Next
  BY <1>1, <1>3, <1>4, KeepCreateTask, KeepUpdateTask, KeepDeleteTask, KeepScheduleTask,
     KeepLifecycle, KeepUpdateBlock, KeepRecord, KeepUpdateWork, KeepDeleteWork
  DEF Next, Request, IInv
<1> QED
  BY <1>2, <1>4

LEMMA IInvHolds == Spec => []IInv
BY IInvInit, IInvStep, PTL DEF Spec

(* Every actual block belongs to exactly one completion record and shows   *)
(* its time, scope and participants, whatever is edited or deleted.        *)
THEOREM ActualBlocksHold == Spec => []ActualBlocksRecordWork
<1>1. IInv => ActualBlocksRecordWork
  BY DEF IInv, BlocksInv
<1> QED
  BY IInvHolds, <1>1, PTL

(* Deleting tasks never leaves a plan without a task.                      *)
THEOREM PlannedBlocksHold == Spec => []PlannedBlocksServeTask
<1>1. IInv => PlannedBlocksServeTask
  BY DEF IInv, BlocksInv
<1> QED
  BY IInvHolds, <1>1, PTL

(* The task hierarchy has no cycle and no dangling parent.                 *)
THEOREM TaskTreeHolds == Spec => []TaskTree
<1>1. IInv => TaskTree
  BY DEF IInv
<1> QED
  BY IInvHolds, <1>1, PTL

-----------------------------------------------------------------------------
(* What a request does to the ids in use, to the trail of audit events and *)
(* to recorded work.                                                       *)

Live == DOMAIN tasks \union DOMAIN work

(* Rows with new ids are created, and some rows removed, each with its     *)
(* event.                                                                  *)
Effect(new, removed) ==
    /\ new \cap issued = {} /\ removed \subseteq Live
    /\ issued' = issued \union new
    /\ Live' = (Live \union (new \ BlockIds)) \ removed
    /\ \A id \in Ids : /\ <<"create", id>> \in audit' <=> <<"create", id>> \in audit \/ id \in new
                       /\ <<"delete", id>> \in audit' <=> <<"delete", id>> \in audit \/ id \in removed

Traced == \E new, removed \in SUBSET Ids : Effect(new, removed)

(* A request that changes tasks leaves the records as they are, unlinks    *)
(* them from a task, or adds one.                                          *)
WorkStays ==
    \/ tasks' = tasks
    \/ work' = work
    \/ \E t \in TaskIds : work' = Unlinked(t)
    \/ ~(DOMAIN work' \subseteq DOMAIN work)

LEMMA TraceNothing ==
    ASSUME UNCHANGED <<tasks, work, audit, issued>>
    PROVE  Traced /\ WorkStays
<1>1. Effect({}, {})
  BY DEF Effect, Live
<1> QED
  BY <1>1 DEF Traced, WorkStays

LEMMA TraceRefuse ==
    ASSUME NEW code, Refuse(code)
    PROVE  Traced /\ WorkStays
  BY TraceNothing DEF Refuse, data

(* An update: the same rows, and an event for one of them.                 *)
LEMMA TraceUpdate ==
    ASSUME NEW id, DOMAIN tasks' = DOMAIN tasks, DOMAIN work' = DOMAIN work, issued' = issued,
           Audit({<<"update", id>>})
    PROVE  Traced
<1>1. Effect({}, {})
  BY DEF Effect, Live, Audit
<1> QED
  BY <1>1 DEF Traced

LEMMA TraceCreateTask ==
    ASSUME TypeOK, CreateTaskRequest
    PROVE  Traced /\ WorkStays
<1> USE ConstantsAssumption
<1>1. PICK actor \in Active, parts \in Lists, parent \in TaskIds \union {NoId},
           scope \in Scopes, range \in AskedRanges \union {NoRange} :
              CreateTask(actor, parts, parent, scope, range)
  BY DEF CreateTaskRequest
<1>2. CASE Refuse(403) \/ Refuse(404)
  BY <1>2, TraceRefuse
<1>3. CASE ~(Refuse(403) \/ Refuse(404))
  <2> DEFINE row == [creator |-> actor, parent |-> parent, status |-> "active",
                     stamps |-> {}, scope |-> scope, parts |-> parts]
  <2>1. PICK t \in TaskIds \ issued :
          /\ tasks' = Put(tasks, t, row)
          /\ work' = work
          /\ \/ issued' = issued \union {t} /\ Audit({<<"create", t>>})
             \/ \E b \in BlockIds \ issued :
                   /\ issued' = issued \union {t, b}
                   /\ Audit({<<"create", t>>, <<"create", b>>})
    BY <1>1, <1>3 DEF CreateTask
  <2> HIDE DEF row
  <2>2. DOMAIN tasks' = DOMAIN tasks \union {t}
    BY <2>1, PutRow
  <2>3. t \notin BlockIds /\ t \in Ids /\ t \notin Live
    BY DEF Ids, Live, TypeOK
  <2>4. CASE issued' = issued \union {t} /\ Audit({<<"create", t>>})
    <3>1. Effect({t}, {})
      BY <2>1, <2>2, <2>3, <2>4 DEF Effect, Live, Audit
    <3> QED
      BY <2>1, <2>3, <3>1 DEF Traced, WorkStays
  <2>5. ASSUME NEW b \in BlockIds \ issued,
               issued' = issued \union {t, b}, Audit({<<"create", t>>, <<"create", b>>})
        PROVE  Traced /\ WorkStays
    <3>1. Effect({t, b}, {})
      BY <2>1, <2>2, <2>3, <2>5 DEF Effect, Live, Audit
    <3>2. {t, b} \in SUBSET Ids
      BY <2>3 DEF Ids
    <3> QED
      BY <2>1, <3>1, <3>2 DEF Traced, WorkStays
  <2> QED
    BY <2>1, <2>4, <2>5
<1> QED
  BY <1>2, <1>3

LEMMA TraceUpdateTask ==
    ASSUME TypeOK, UpdateTaskRequest
    PROVE  Traced /\ WorkStays
<1>1. PICK t \in TaskIds, scope \in Scopes \union {Unset},
           parts \in Lists \union {Unset} \union Nulls : UpdateTask(t, scope, parts)
  BY DEF UpdateTaskRequest
<1>2. CASE Refuse(403) \/ Refuse(404) \/ Refuse(500)
  BY <1>2, TraceRefuse
<1>3. CASE ~(Refuse(403) \/ Refuse(404) \/ Refuse(500))
  <2>1. /\ tasks' = [tasks EXCEPT ![t] = Changed(tasks[t], scope, parts)]
        /\ work' = work /\ issued' = issued /\ Audit({<<"update", t>>})
    BY <1>1, <1>3 DEF UpdateTask, NotFound
  <2>2. DOMAIN tasks' = DOMAIN tasks
    BY <2>1
  <2> QED
    BY <2>1, <2>2, TraceUpdate DEF WorkStays
<1> QED
  BY <1>2, <1>3

LEMMA TraceLifecycle ==
    ASSUME TypeOK, LifecycleRequest
    PROVE  Traced /\ WorkStays
<1>1. PICK t \in TaskIds, status \in Statuses : UpdateTaskLifecycle(t, status)
  BY DEF LifecycleRequest
<1>2. CASE Refuse(404)
  BY <1>2, TraceRefuse
<1>3. CASE ~Refuse(404)
  <2> DEFINE row == [tasks[t] EXCEPT !.status = status, !.stamps = Stamps[status]]
  <2>1. /\ tasks' = [tasks EXCEPT ![t] = row]
        /\ work' = work /\ issued' = issued /\ Audit({<<"update", t>>})
    BY <1>1, <1>3 DEF UpdateTaskLifecycle, NotFound
  <2> HIDE DEF row
  <2>2. DOMAIN tasks' = DOMAIN tasks
    BY <2>1
  <2> QED
    BY <2>1, <2>2, TraceUpdate DEF WorkStays
<1> QED
  BY <1>2, <1>3

LEMMA TraceScheduleTask ==
    ASSUME TypeOK, ScheduleTaskRequest
    PROVE  Traced /\ WorkStays
<1>1. PICK t \in TaskIds, range \in AskedRanges, parts \in Lists \union {Unset} :
              ScheduleTask(t, range, parts)
  BY DEF ScheduleTaskRequest
<1>2. CASE Refuse(403) \/ Refuse(404)
  BY <1>2, TraceRefuse
<1>3. CASE ~(Refuse(403) \/ Refuse(404))
  <2>1. tasks' = tasks /\ work' = work
    BY <1>1, <1>3 DEF ScheduleTask, NotFound
  <2>2. PICK b \in BlockIds \ issued : issued' = issued \union {b} /\ Audit({<<"create", b>>})
    BY <1>1, <1>3 DEF ScheduleTask, NotFound
  <2>3. Effect({b}, {})
    BY <2>1, <2>2 DEF Effect, Live, Audit
  <2>4. {b} \in SUBSET Ids
    BY DEF Ids
  <2> QED
    BY <2>1, <2>3, <2>4 DEF Traced, WorkStays
<1> QED
  BY <1>2, <1>3

LEMMA TraceUpdateBlock ==
    ASSUME TypeOK, UpdateBlockRequest
    PROVE  Traced /\ WorkStays
<1>1. PICK b \in BlockIds, start \in Times \union {Unset} \union Nulls,
           end \in Times \union {Unset} \union Nulls,
           status \in {"planned", "cancelled", Unset} \union Nulls,
           parts \in Lists \union {Unset} \union Nulls :
              UpdatePlannedTimeBlock(b, start, end, status, parts)
  BY DEF UpdateBlockRequest
<1>2. CASE \E code \in {400, 403, 404, 409, 500} : Refuse(code)
  BY <1>2, TraceRefuse
<1>3. CASE ~ \E code \in {400, 403, 404, 409, 500} : Refuse(code)
  <2>1. tasks' = tasks /\ work' = work /\ issued' = issued /\ Audit({<<"update", b>>})
    BY <1>1, <1>3 DEF UpdatePlannedTimeBlock, NotFound
  <2> QED
    BY <2>1, TraceUpdate DEF WorkStays
<1> QED
  BY <1>2, <1>3

LEMMA TraceDeleteTask ==
    ASSUME TypeOK, DeleteTaskRequest
    PROVE  Traced /\ WorkStays
<1> USE ConstantsAssumption
<1>1. PICK actor \in Active, t \in TaskIds : DeleteTask(actor, t)
  BY DEF DeleteTaskRequest
<1>2. CASE Refuse(403) \/ Refuse(404) \/ Refuse(409)
  BY <1>2, TraceRefuse
<1>3. CASE ~(Refuse(403) \/ Refuse(404) \/ Refuse(409))
  <2>1. /\ t \in DOMAIN tasks /\ work' = Unlinked(t) /\ tasks' = Without(tasks, {t})
        /\ issued' = issued /\ Audit({<<"delete", t>>})
    BY <1>1, <1>3 DEF DeleteTask, NotFound
  <2>2. DOMAIN tasks' = DOMAIN tasks \ {t} /\ DOMAIN work' = DOMAIN work
    BY <2>1 DEF Without, Unlinked
  <2>3. t \notin DOMAIN work /\ t \in Live
    BY <2>1 DEF TypeOK, Live
  <2>4. Effect({}, {t})
    BY <2>1, <2>2, <2>3 DEF Effect, Live, Audit
  <2>5. {t} \in SUBSET Ids
    BY DEF Ids
  <2> QED
    BY <2>1, <2>4, <2>5 DEF Traced, WorkStays
<1> QED
  BY <1>2, <1>3

LEMMA TraceRecord ==
    ASSUME TypeOK, RecordRequest
    PROVE  Traced /\ WorkStays
<1> USE ConstantsAssumption
<1>1. PICK parts \in Lists \ {{}}, range \in AskedRanges \union {NoRange},
           override \in Overrides \union {0}, scope \in Scopes \union {Unset},
           fair \in Flags \union {Unset}, t \in TaskIds \union {NoId},
           complete \in BOOLEAN :
              RecordCompletedWork(parts, range, override, scope, fair, t, complete)
  BY DEF RecordRequest
<1>2. CASE Refuse(403) \/ Refuse(404) \/ Refuse(500)
  BY <1>2, TraceRefuse
<1>3. CASE ~(Refuse(403) \/ Refuse(404) \/ Refuse(500))
  <2> DEFINE resolved == IF scope # Unset THEN scope
                         ELSE IF t # NoId THEN tasks[t].scope ELSE "household"
             finished == [tasks[t] EXCEPT !.status = "completed",
                                          !.stamps = @ \union {"completed_at"}]
             row(b) == [task |-> t, block |-> b, range |-> range, override |-> override,
                        fair |-> New(fair, resolved = "household"),
                        scope |-> resolved, parts |-> parts]
             updates == IF complete THEN {<<"update", t>>} ELSE {}
  <2>1. /\ tasks' = IF complete THEN [tasks EXCEPT ![t] = finished] ELSE tasks
        /\ \E w \in WorkIds \ issued, b \in (BlockIds \ issued) \union {NoId} :
            /\ work' = Put(work, w, row(b))
            /\ issued' = issued \union ({w, b} \ {NoId})
            /\ Audit({<<"create", x>> : x \in {w, b} \ {NoId}} \union updates)
    BY <1>1, <1>3 DEF RecordCompletedWork
  <2>2. \A x : <<"create", x>> \notin updates /\ <<"delete", x>> \notin updates
    OBVIOUS
  <2> HIDE DEF row, finished, updates
  <2>3. PICK w \in WorkIds \ issued, b \in (BlockIds \ issued) \union {NoId} :
            /\ work' = Put(work, w, row(b))
            /\ issued' = issued \union ({w, b} \ {NoId})
            /\ Audit({<<"create", x>> : x \in {w, b} \ {NoId}} \union updates)
    BY <2>1
  <2> DEFINE new == {w, b} \ {NoId}
  <2>4. DOMAIN tasks' = DOMAIN tasks /\ DOMAIN work' = DOMAIN work \union {w}
    BY <2>1, <2>3, PutRow
  <2>5. w \notin BlockIds /\ w # NoId /\ w \notin DOMAIN work /\ b \in BlockIds \union {NoId}
    BY DEF TypeOK
  <2>6. new \ BlockIds = {w} /\ new \cap issued = {} /\ new \in SUBSET Ids
    BY <2>5 DEF Ids
  <2>7. \A id : (<<"create", id>> \in audit' <=> <<"create", id>> \in audit \/ id \in new)
               /\ (<<"delete", id>> \in audit' <=> <<"delete", id>> \in audit)
    BY <2>2, <2>3 DEF Audit
  <2>8. Effect(new, {})
    BY <2>3, <2>4, <2>6, <2>7 DEF Effect, Live
  <2> QED
    BY <2>4, <2>5, <2>6, <2>8 DEF Traced, WorkStays
<1> QED
  BY <1>2, <1>3

LEMMA TraceUpdateWork ==
    ASSUME TypeOK, UpdateWorkRequest
    PROVE  Traced /\ WorkStays
<1>1. PICK w \in WorkIds,
           times \in Ranges \union ({Unset} \union Nulls) \X ({Unset} \union Nulls),
           scope \in Scopes \union {Unset}, fair \in Flags \union {Unset} \union Nulls,
           parts \in Lists \union {Unset} \union Nulls :
              UpdateCompletedWork(w, times[1], times[2], scope, fair, parts)
  BY DEF UpdateWorkRequest
<1>2. CASE \E code \in {400, 403, 404, 500} : Refuse(code)
  BY <1>2, TraceRefuse
<1>3. CASE ~ \E code \in {400, 403, 404, 500} : Refuse(code)
  <2>1. /\ \E row : work' = [work EXCEPT ![w] = row]
        /\ tasks' = tasks /\ issued' = issued /\ Audit({<<"update", w>>})
    BY <1>1, <1>3 DEF UpdateCompletedWork, NotFound
  <2>2. DOMAIN work' = DOMAIN work
    BY <2>1
  <2> QED
    BY <2>1, <2>2, TraceUpdate DEF WorkStays
<1> QED
  BY <1>2, <1>3

LEMMA TraceDeleteWork ==
    ASSUME TypeOK, DeleteWorkRequest
    PROVE  Traced /\ WorkStays
<1> USE ConstantsAssumption
<1>1. PICK w \in WorkIds : DeleteCompletedWork(w)
  BY DEF DeleteWorkRequest
<1>2. CASE Refuse(404)
  BY <1>2, TraceRefuse
<1>3. CASE ~Refuse(404)
  <2>1. /\ w \in DOMAIN work /\ work' = Without(work, {w})
        /\ tasks' = tasks /\ issued' = issued /\ Audit({<<"delete", w>>})
    BY <1>1, <1>3 DEF DeleteCompletedWork, NotFound
  <2>2. DOMAIN work' = DOMAIN work \ {w}
    BY <2>1 DEF Without
  <2>3. w \notin DOMAIN tasks /\ w \in Live
    BY <2>1 DEF TypeOK, Live
  <2>4. Effect({}, {w})
    BY <2>1, <2>2, <2>3 DEF Effect, Live, Audit
  <2>5. {w} \in SUBSET Ids
    BY DEF Ids
  <2> QED
    BY <2>1, <2>4, <2>5 DEF Traced, WorkStays
<1> QED
  BY <1>2, <1>3

LEMMA StepIsTraced ==
    ASSUME TypeOK, [Next]_vars
    PROVE  Traced /\ WorkStays
<1>1. CASE UNCHANGED vars
  BY <1>1, TraceNothing DEF vars
<1>2. ASSUME NEW actor \in Users, NotAMember(actor) PROVE Traced /\ WorkStays
  BY <1>2, TraceRefuse DEF NotAMember
<1> QED
  BY <1>1, <1>2, TraceCreateTask, TraceUpdateTask, TraceDeleteTask, TraceScheduleTask,
     TraceLifecycle, TraceUpdateBlock, TraceRecord, TraceUpdateWork, TraceDeleteWork
  DEF Next, Request

LEMMA AuditStep ==
    ASSUME TypeOK, AuditTellsFate, [Next]_vars
    PROVE  AuditTellsFate'
<1>1. PICK new, removed \in SUBSET Ids : Effect(new, removed)
  BY StepIsTraced DEF Traced
<1>2. issued \subseteq Ids /\ Live \subseteq issued
  BY DEF TypeOK, Ids, Live
<1>3. \A id \in issued' : <<"create", id>> \in audit'
  BY <1>1, <1>2 DEF Effect, AuditTellsFate
<1>4. ASSUME NEW id \in TaskIds \union WorkIds
      PROVE  <<"delete", id>> \in audit' <=> id \in issued' \ Live'
  <2>1. id \in Ids /\ id \notin BlockIds
    BY ConstantsAssumption DEF Ids
  <2>2. <<"delete", id>> \in audit <=> id \in issued \ Live
    BY <1>4 DEF AuditTellsFate, Live
  <2> QED
    BY <1>1, <1>2, <2>1, <2>2 DEF Effect
<1> QED
  BY <1>3, <1>4 DEF AuditTellsFate, Live

(* Whatever the requests, every id handed out has a create event, and a    *)
(* task or a record has a delete event exactly when it is gone: the trail  *)
(* that the services write along with each change misses none.             *)
THEOREM AuditIsComplete == Spec => []AuditTellsFate
<1>1. Init => AuditTellsFate
  BY EmptyTable DEF Init, AuditTellsFate
<1>2. TypeOK /\ AuditTellsFate /\ [Next]_vars => AuditTellsFate'
  BY AuditStep
<1> QED
  BY <1>1, <1>2, TypeCorrect, PTL DEF Spec

-----------------------------------------------------------------------------
(* What a member is credited with.                                         *)

Counted(u) == {w \in DOMAIN work : work[w].fair /\ u \in work[w].parts}

(* The sum only looks at the durations of the records it runs over.        *)
LEMMA SameContribution ==
    ASSUME NEW u, Counted(u)' = Counted(u), \A w \in Counted(u) : Duration(w)' = Duration(w)
    PROVE  Contribution(u)' = Contribution(u)
<1> DEFINE S == Counted(u)
           first(s) == CHOOSE w \in s : TRUE
           Sums(it) == it = [s \in SUBSET S |->
                               IF s = {} THEN 0 ELSE Duration(first(s)) + it[s \ {first(s)}]]
           SumsNext(it) == it = [s \in SUBSET S |->
                               IF s = {} THEN 0 ELSE Duration(first(s))' + it[s \ {first(s)}]]
<1>1. ASSUME NEW s \in SUBSET S, s # {}
      PROVE  Duration(first(s))' = Duration(first(s))
  <2>1. first(s) \in s
    BY <1>1
  <2> QED
    BY <2>1
<1>2. ASSUME NEW it
      PROVE  Sums(it) <=> SumsNext(it)
  BY <1>1
<1>3. (CHOOSE it : Sums(it)) = (CHOOSE it : SumsNext(it))
  <2> HIDE DEF Sums, SumsNext
  <2> QED
    BY <1>2, Zenon
<1>4. Contribution(u) = (CHOOSE it : Sums(it))[S]
  BY DEF Contribution, Counted, MapThenSumSet, MapThenFoldSet
<1>5. Contribution(u)' = (CHOOSE it : SumsNext(it))[S]
  <2>1. S = {w \in DOMAIN work' : work'[w].fair /\ u \in work'[w].parts}
    BY DEF Counted
  <2> HIDE DEF S
  <2> QED
    BY <2>1 DEF Contribution, MapThenSumSet, MapThenFoldSet
<1> QED
  BY <1>3, <1>4, <1>5

(* A record without its task counts as before.                             *)
LEMMA UnlinkedCounts ==
    ASSUME TypeOK, NEW t \in TaskIds, work' = Unlinked(t), NEW u
    PROVE  Contribution(u)' = Contribution(u)
<1>1. DOMAIN work' = DOMAIN work
      /\ \A w \in DOMAIN work : /\ work'[w].fair = work[w].fair /\ work'[w].parts = work[w].parts
                               /\ work'[w].override = work[w].override
                               /\ work'[w].range = work[w].range
  BY DEF TypeOK, Unlinked, Work
<1>2. Counted(u)' = Counted(u)
  BY <1>1 DEF Counted
<1>3. \A w \in Counted(u) : Duration(w)' = Duration(w)
  BY <1>1 DEF Counted, Duration
<1> QED
  BY <1>2, <1>3, SameContribution

(* No change, completion, cancellation or deletion of a task, with its     *)
(* plans, changes what any member has contributed: only a request that     *)
(* records work may change tasks and contributions at once.                *)
THEOREM PlanningChangesNoShare == Spec => PlanningKeepsContributions
<1>1. ASSUME TypeOK, [Next]_vars, tasks' # tasks, DOMAIN work' \subseteq DOMAIN work, NEW u \in Users
      PROVE  Contribution(u)' = Contribution(u)
  <2>1. CASE work' = work
    <3>1. Counted(u)' = Counted(u) /\ \A w \in Counted(u) : Duration(w)' = Duration(w)
      BY <2>1 DEF Counted, Duration
    <3> QED
      BY <3>1, SameContribution
  <2>2. CASE \E t \in TaskIds : work' = Unlinked(t)
    BY <1>1, <2>2, UnlinkedCounts
  <2> QED
    BY <1>1, <2>1, <2>2, StepIsTraced DEF WorkStays
<1>2. TypeOK /\ [Next]_vars =>
        [tasks' # tasks /\ DOMAIN work' \subseteq DOMAIN work
           => \A u \in Users : Contribution(u)' = Contribution(u)]_vars
  BY <1>1
<1> QED
  BY <1>2, TypeCorrect, PTL DEF Spec, PlanningKeepsContributions
=============================================================================
