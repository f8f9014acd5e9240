-------------------------- MODULE ConcurrentWork --------------------------
(***************************************************************************)
(* Concurrent requests about one Task and one Completion Record.  Every    *)
(* request is a transaction of its own at READ COMMITTED; HouseholdWork    *)
(* runs the same services one after another.                               *)
(*                                                                         *)
(* The database is the set of committed rows <<table, id, ref>>, where ref *)
(* is the task the row refers to, or the request that wrote it.  A         *)
(* transaction keeps the rows it deleted (an update deletes a version and  *)
(* inserts one) and those it inserted; the commit applies both.  What a    *)
(* statement waits for is derived from these sets, as PostgreSQL's row     *)
(* locks, foreign keys and unique indexes have it.  Membership checks,     *)
(* times, titles and audit events are left out.                            *)
(***************************************************************************)
EXTENDS Naturals, FiniteSets

CONSTANTS
    Requests,   \* the concurrent requests
    Users,      \* members a participant list may name
    Kinds,      \* the services these requests call
    Task,       \* the task, there at the start, without subtasks
    Old,        \* the record of earlier work for it, and its actual block
    None        \* no task, no answer yet

Codes == {200, 201, 204, 404, 409, 500}

ASSUME KindsAssumption ==
    Kinds \subseteq {"schedule", "subtask", "record", "delete", "edit", "remove"}

ASSUME DistinctAssumption == Task # None /\ Old \notin Requests /\ None \notin Codes

VARIABLES
    db,         \* the committed rows
    kind,       \* kind[p]: the service p calls
    list,       \* list[p]: the participants an edit asks for
    first,      \* first[p]: the list whose rows p's flush deletes first
    at,         \* at[p]: what p's transaction has done so far
    seen,       \* seen[p]: the rows the next statement of p has listed
    gone, new,  \* gone[p], new[p]: the rows p deleted and inserted
    answer      \* answer[p]: the status code p got

request == <<kind, list, first>>
vars == <<db, kind, list, first, at, seen, gone, new, answer>>

-----------------------------------------------------------------------------

Key(r) == <<r[1], r[2]>>

TaskRow == <<"task", Task, Task>>

Rows(table) == {r \in db : r[1] = table}

(* The rows of a table that refer to the task.                             *)
Linked(table) == {r \in Rows(table) : r[3] = Task}

Lists == {"credit", "shown"}

(* The row a foreign key of r refers to: links, subtasks and records refer *)
(* to a task, the two participant lists to the record and to its block.    *)
Parent(r) ==
    CASE r[1] = "credit" -> <<"work", Old>>
      [] r[1] = "shown"  -> <<"block", Old>>
      [] OTHER           -> <<"task", r[3]>>

(* Mutant of HasKey: the foreign key of parent_task_id is missing.         *)
HasKeyNoParent(r) == r[1] \in Lists \/ (r[1] \in {"link", "work"} /\ r[3] # None)

(* Tasks and blocks refer to nothing here; a row without a task neither.   *)
HasKey(r) == r[1] \in Lists \/ (r[1] \in {"link", "subtask", "work"} /\ r[3] # None)

Init ==
    /\ db = {TaskRow, <<"work", Old, Task>>, <<"block", Old, None>>}
              \union {<<table, u, Old>> : table \in Lists, u \in Users}
    /\ kind \in [Requests -> Kinds]
    /\ list \in [Requests -> SUBSET Users \ {{}}]
    /\ first \in [Requests -> Lists]
    /\ \A p \in Requests :
          /\ kind[p] # "edit" => list[p] = Users
          /\ kind[p] # "remove" => first[p] = "credit"
    /\ at = [p \in Requests |-> "start"]
    /\ seen = [p \in Requests |-> {}]
    /\ gone = [p \in Requests |-> {}]
    /\ new = [p \in Requests |-> {}]
    /\ answer = [p \in Requests |-> None]

-----------------------------------------------------------------------------

(* The statements.  For each service: where its transaction stands before  *)
(* a statement, where after it, the rows the statement deletes and those   *)
(* it inserts.                                                             *)

St(from, to, del, ins) == [from |-> from, to |-> to, del |-> del, ins |-> ins]

Schedule(p) ==
    {St("found", "written", {}, {<<"plan", p, None>>, <<"link", p, Task>>})}

Subtask(p) == {St("found", "written", {}, {<<"subtask", p, Task>>})}

Record(p) == {St("found", "written", {}, {<<"work", p, Task>>})}

Detached(rows) == {<<r[1], r[2], None>> : r \in rows}

(* Mutant of DeleteTask: the foreign key of records cascades and nothing   *)
(* is unlinked first.                                                      *)
DeleteTaskCascade(p) ==
    {St("found", "unlinked", {r \in db : r[1] \in {"plan", "link"} /\ r[2] \in seen[p]}, {}),
     St("unlinked", "emptied", Linked("subtask"), Detached(Linked("subtask"))),
     St("emptied", "written", {TaskRow} \union Linked("link") \union Linked("work"), {})}

(* The listed blocks and their links are deleted and the task's records    *)
(* unlinked; the flush of session.delete(task) loads the subtasks there    *)
(* are by then and clears their parent; the DELETE cascades to the links.  *)
DeleteTask(p) ==
    {St("found", "unlinked",
        {r \in db : r[1] \in {"plan", "link"} /\ r[2] \in seen[p]} \union Linked("work"),
        Detached(Linked("work"))),
     St("unlinked", "emptied", Linked("subtask"), Detached(Linked("subtask"))),
     St("emptied", "written", {TaskRow} \union Linked("link"), {})}

(* Mutant of EditOrder: the block's list is replaced before the record's.  *)
EditOrderShownFirst == <<"shown", "credit">>

(* An edit replaces the record's participants, then the block's.           *)
EditOrder == <<"credit", "shown">>

(* Each DELETE removes the rows its own snapshot listed; the INSERTs are   *)
(* flushed before the next statement.                                      *)
EditWork(p) ==
    LET asked(table) == {<<table, u, p>> : u \in list[p]}
    IN {St("found", "cleared", seen[p], {}),
        St("cleared", "relisted", {}, asked(EditOrder[1])),
        St("relisted", "hidden", seen[p], {}),
        St("hidden", "written", {}, asked(EditOrder[2]))}

(* The rows session.delete() loaded, by primary key, one list after the    *)
(* other, then the record, which cascades, and its block.                  *)
RemoveWork(p) ==
    LET loaded(tables) ==
            {r \in db : r[1] \in tables /\ Key(r) \in {Key(s) : s \in seen[p]}}
    IN {St("found", "half", loaded({first[p]}), {}),
        St("half", "unlisted", loaded(Lists), {}),
        St("unlisted", "removed", {r \in Rows("work") : r[2] = Old}, {}),
        St("removed", "written", Rows("credit") \union Rows("shown") \union Rows("block"), {})}

Statements(p) ==
    CASE kind[p] = "schedule" -> Schedule(p)
      [] kind[p] = "subtask"  -> Subtask(p)
      [] kind[p] = "record"   -> Record(p)
      [] kind[p] = "delete"   -> DeleteTask(p)
      [] kind[p] = "edit"     -> EditWork(p)
      [] kind[p] = "remove"   -> RemoveWork(p)

-----------------------------------------------------------------------------

(* Rows a transaction removes for good, and not to write a new version.    *)
Removing(q) == {r \in gone[q] : ~ \E s \in new[q] : Key(s) = Key(r)}

(* The transactions that s, a statement of p, waits for: they wrote a row  *)
(* it deletes, inserted a row referring to a row it removes, removed a row *)
(* it refers to, or inserted or deleted a row with the key of one of its   *)
(* new rows.                                                               *)
Blockers(p, s) ==
    LET removed == {Key(r) : r \in {d \in s.del : ~ \E i \in s.ins : Key(i) = Key(d)}}
        ins == {i \in s.ins : ~ \E d \in s.del : Key(i) = Key(d)}
    IN {q \in Requests \ {p} :
           \/ gone[q] \cap s.del # {}
           \/ \E r \in new[q] : HasKey(r) /\ Parent(r) \in removed
           \/ \E i \in ins : HasKey(i) /\ Parent(i) \in {Key(r) : r \in Removing(q)}
           \/ \E i \in ins : Key(i) \in {Key(r) : r \in new[q] \union gone[q]}}

(* The constraint a statement of p breaks, once nobody is in its way: the  *)
(* row it refers to is gone, a row of its key is there, or the task it     *)
(* removes is still referred to (no ON DELETE action).                     *)
Breaks(p, s) ==
    \/ \E i \in s.ins : HasKey(i) /\ ~ \E r \in db : Key(r) = Parent(i)
    \/ \E i \in s.ins, r \in db \ (gone[p] \union s.del) : Key(r) = Key(i)
    \/ /\ TaskRow \in s.del \cap db
       /\ \E r \in (Linked("subtask") \union Linked("work")) \ (gone[p] \union s.del) : HasKey(r)

Answer(p, code) ==
    /\ answer' = [answer EXCEPT ![p] = code]
    /\ at' = [at EXCEPT ![p] = "done"]
    /\ UNCHANGED request

(* Mutant of Refuse: a failed request keeps its transaction open.          *)
RefuseHolding(p, code) ==
    /\ Answer(p, code)
    /\ UNCHANGED <<db, seen, gone, new>>

(* The session is closed: rollback, and the locks are released.            *)
Refuse(p, code) ==
    /\ Answer(p, code)
    /\ seen' = [seen EXCEPT ![p] = {}]
    /\ gone' = [gone EXCEPT ![p] = {}]
    /\ new' = [new EXCEPT ![p] = {}]
    /\ UNCHANGED db

(* The look-up, with the checks and the listing that follow it: the blocks *)
(* linked to a task, the participants of a record.                         *)
Find(p) ==
    LET wanted == IF kind[p] \in {"edit", "remove"} THEN <<"work", Old>> ELSE Key(TaskRow)
        found == \E r \in db : Key(r) = wanted
    IN
    /\ at[p] = "start"
    /\ \/ ~found /\ Refuse(p, 404)
       \/ found /\ kind[p] = "delete" /\ Linked("subtask") # {} /\ Refuse(p, 409)
       \/ /\ found
          /\ kind[p] = "delete" => Linked("subtask") = {}
          /\ at' = [at EXCEPT ![p] = "found"]
          /\ seen' = [seen EXCEPT ![p] =
                CASE kind[p] = "delete" -> {r[2] : r \in Linked("link")}
                  [] kind[p] = "edit"   -> Rows(EditOrder[1])
                  [] kind[p] = "remove" -> Rows("credit") \union Rows("shown")
                  [] OTHER              -> {}]
          /\ UNCHANGED <<db, request, gone, new, answer>>

(* A statement runs when nobody is in its way any more.                    *)
Execute(p) ==
    \E s \in Statements(p) :
        /\ at[p] = s.from
        /\ Blockers(p, s) = {}
        /\ \/ Breaks(p, s) /\ Refuse(p, 500)
           \/ /\ ~Breaks(p, s)
              /\ at' = [at EXCEPT ![p] = s.to]
              /\ gone' = [gone EXCEPT ![p] = @ \union (s.del \cap db)]
              /\ new' = [new EXCEPT ![p] = @ \union s.ins]
              /\ seen' = [seen EXCEPT ![p] = IF s.to = "relisted" THEN Rows(EditOrder[2]) ELSE @]
              /\ UNCHANGED <<db, request, answer>>

Commit(p) ==
    /\ at[p] = "written"
    /\ db' = (db \ gone[p]) \union new[p]
    /\ Answer(p, CASE kind[p] \in {"delete", "remove"} -> 204
                   [] kind[p] = "edit" -> 200
                   [] OTHER -> 201)
    /\ seen' = [seen EXCEPT ![p] = {}]
    /\ gone' = [gone EXCEPT ![p] = {}]
    /\ new' = [new EXCEPT ![p] = {}]

(* Whom p waits for.                                                       *)
WaitsFor(p) == UNION {Blockers(p, s) : s \in {t \in Statements(p) : t.from = at[p]}}

InCycle(p) ==
    \E q \in WaitsFor(p) :
        p \in WaitsFor(q) \/ \E r \in WaitsFor(q) : p \in WaitsFor(r)

(* The deadlock detector aborts one of those that wait for each other.     *)
Deadlocked(p) == InCycle(p) /\ Refuse(p, 500)

Step(p) == Find(p) \/ Execute(p) \/ Commit(p) \/ Deadlocked(p)

Next == \E p \in Requests : Step(p)

Spec == Init /\ [][Next]_vars

(* A handler thread goes on, and the database grants a lock once free and  *)
(* looks for deadlocks (deadlock_timeout).                                 *)
FairSpec == Spec /\ \A p \in Requests : WF_vars(Step(p))

-----------------------------------------------------------------------------

Stages == {"start", "found", "unlinked", "emptied", "cleared", "relisted", "hidden",
           "half", "unlisted", "removed", "written", "done"}

(* Types; one committed row per key; only an open transaction holds rows.  *)
TypeOK ==
    /\ at \in [Requests -> Stages]
    /\ answer \in [Requests -> Codes \union {None}]
    /\ \A p \in Requests :
          /\ (at[p] = "done") = (answer[p] # None)
          /\ at[p] \in {"start", "found", "done"} => gone[p] = {} /\ new[p] = {}
    /\ \A r, s \in db : Key(r) = Key(s) => r = s

(* Whatever the interleaving, no committed row refers to a row that is     *)
(* gone: a link, a subtask or a record to a deleted task (services.py      *)
(* 476-587, 231-326, 865-985), a participant to removed work (683-828).    *)
NothingDangles ==
    \A r \in db :
        r[1] \in Lists \/ (r[1] \in {"link", "subtask", "work"} /\ r[3] # None) =>
            \E s \in db : Key(s) = Parent(r)

(* Deleting a task loses neither the work recorded for it nor the subtasks *)
(* created under it while the deletion runs (delete_task, services.py      *)
(* 487-521): what was answered 201 stays until somebody removes it.        *)
WorkOutlivesTask ==
    /\ \A p \in Requests :
          kind[p] \in {"record", "subtask"} /\ answer[p] = 201 =>
              \E r \in db : Key(r) = <<IF kind[p] = "record" THEN "work" ELSE "subtask", p>>
    /\ \/ \E r \in db : Key(r) = <<"work", Old>>
       \/ \E p \in Requests : kind[p] = "remove" /\ answer[p] = 204

(* Everybody the calendar shows on a block of done work is credited with   *)
(* it: concurrent edits may leave more people credited than the page       *)
(* shows, never fewer (update_completed_work, services.py 735-766, which   *)
(* replaces the record's list before the block's).                         *)
ShownIsCredited ==
    \A r \in Rows("shown") : \E s \in Rows("credit") : s[2] = r[2]

(* Every request is answered: nobody waits for ever for another request's  *)
(* locks, whatever fails (rollback on every way out; deadlock detection).  *)
Answered == \A p \in Requests : <>(at[p] = "done")

(* A test (tests/test_task_management_api.py:232) says of a deleted task   *)
(* that its task-only planned time goes with it.                           *)
DeletedTaskLeavesNoPlan == TaskRow \notin db => Rows("plan") = {}
=============================================================================
