------------------------ MODULE ConcurrentWorkProofs ------------------------
(***************************************************************************)
(* Proofs about ConcurrentWork for any number of requests and members.     *)
(* A statement that runs, a look-up, a rollback and a commit are the only  *)
(* steps; Inv relates what one transaction holds to what is committed and  *)
(* to what the others hold, so that each of the four preserves it.         *)
(***************************************************************************)
EXTENDS ConcurrentWork, TLAPS

-----------------------------------------------------------------------------

(* The rows there can be, committed or not.                                *)
RowSet ==
    {TaskRow, <<"block", Old, None>>}
      \union {<<"plan", p, None>> : p \in Requests}
      \union {<<"link", p, Task>> : p \in Requests}
      \union {<<"subtask", p, t>> : p \in Requests, t \in {Task, None}}
      \union {<<"work", w, t>> : w \in Requests \union {Old}, t \in {Task, None}}
      \union {<<table, u, w>> : table \in Lists, u \in Users, w \in Requests \union {Old}}

Types ==
    /\ db \subseteq RowSet
    /\ kind \in [Requests -> Kinds]
    /\ list \in [Requests -> SUBSET Users]
    /\ first \in [Requests -> Lists]
    /\ at \in [Requests -> Stages]
    /\ seen \in [Requests -> SUBSET (Requests \union RowSet)]
    /\ gone \in [Requests -> SUBSET RowSet]
    /\ new \in [Requests -> SUBSET RowSet]
    /\ answer \in [Requests -> Codes \union {None}]

(* What a transaction of each service may hold.                            *)

SmallHeld(p) ==
    /\ kind[p] \in {"schedule", "subtask", "record"} =>
          gone[p] = {} /\ at[p] \in {"start", "found", "written", "done"}
    /\ kind[p] = "schedule" => new[p] \subseteq {<<"plan", p, None>>, <<"link", p, Task>>}
    /\ kind[p] = "subtask" => new[p] \subseteq {<<"subtask", p, Task>>}
    /\ kind[p] = "record" => new[p] \subseteq {<<"work", p, Task>>}
    /\ kind[p] = "subtask" /\ at[p] = "written" => <<"subtask", p, Task>> \in new[p]
    /\ kind[p] = "record" /\ at[p] = "written" => <<"work", p, Task>> \in new[p]

(* A deletion removes no work and no subtask: each comes back without its  *)
(* task.                                                                   *)
DeleteHeld(p) ==
    kind[p] = "delete" =>
        /\ at[p] \in {"start", "found", "unlinked", "emptied", "written", "done"}
        /\ \A i \in new[p] : i[1] \in {"work", "subtask"} /\ i[3] = None
        /\ \A r \in gone[p] :
              \/ r[1] \in {"plan", "link", "task"}
              \/ r[1] \in {"work", "subtask"} /\ \E i \in new[p] : Key(i) = Key(r)

(* An edit credits everybody before it shows anybody.                      *)
EditHeld(p) ==
    kind[p] = "edit" =>
        /\ at[p] \in {"start", "found", "cleared", "relisted", "hidden", "written", "done"}
        /\ \A i \in new[p] : i[1] \in Lists /\ i[2] \in list[p] /\ i[3] = p
        /\ \A r \in gone[p] \union seen[p] : r \in RowSet /\ r[1] \in Lists
        /\ at[p] \in {"relisted", "hidden", "written"} =>
              \A u \in list[p] : <<"credit", u, p>> \in new[p]
        /\ at[p] \in {"found", "cleared"} => \A i \in new[p] : i[1] = "credit"
        /\ at[p] = "relisted" => \A r \in seen[p] : r[1] = "shown"

RemoveHeld(p) ==
    kind[p] = "remove" =>
        /\ at[p] \in {"start", "found", "half", "unlisted", "removed", "written", "done"}
        /\ new[p] = {}
        /\ \A r \in gone[p] :
              r[1] \in Lists \union {"work", "block"} /\ (r[1] = "work" => r[2] = Old)

Held(p) ==
    /\ at[p] \in {"start", "found", "done"} => gone[p] = {} /\ new[p] = {}
    /\ SmallHeld(p) /\ DeleteHeld(p) /\ EditHeld(p) /\ RemoveHeld(p)

(* Row locks: what a transaction has deleted is there until it commits,    *)
(* and no two have deleted the same row.                                   *)
Locks ==
    /\ \A p \in Requests : gone[p] \subseteq db
    /\ \A p, q \in Requests : p # q => gone[p] \cap gone[q] = {}

(* Unique keys, of the committed rows and of every way to commit what is   *)
(* pending.                                                                *)
Keys ==
    /\ \A r, s \in db : Key(r) = Key(s) => r = s
    /\ \A p \in Requests : \A i \in new[p], r \in db \ gone[p] : Key(i) # Key(r)
    /\ \A p, q \in Requests : p # q => \A i \in new[p], j \in new[q] : Key(i) # Key(j)

(* Foreign keys: of what is committed; of what is pending; and no          *)
(* transaction removes what a row refers to that it does not remove.       *)
Refers(r, rows) == HasKey(r) /\ \E s \in rows : Key(s) = Parent(r)

ForeignKeys ==
    /\ NothingDangles
    /\ \A p \in Requests : \A i \in new[p] : HasKey(i) => Refers(i, db)
    /\ \A p, q \in Requests : p # q => \A i \in new[p] : ~Refers(i, Removing(q))
    /\ \A p \in Requests : at[p] = "written" =>
          \A r \in db \ gone[p] : ~Refers(r, Removing(p))

(* Where a transaction has taken a credit away, it takes away what is      *)
(* shown for it too.                                                       *)
Takes(p, rows) ==
    \A c \in gone[p], r \in db :
        c[1] = "credit" /\ r[1] = "shown" /\ c[2] = r[2] => r \in rows

Credits ==
    /\ ShownIsCredited
    /\ \A p \in Requests :
          /\ kind[p] = "edit" /\ at[p] = "relisted" => Takes(p, seen[p])
          /\ at[p] \in {"hidden", "written"} => Takes(p, gone[p])

Answers == \A p \in Requests : (at[p] = "done") = (answer[p] # None)

Inv ==
    /\ Types /\ \A p \in Requests : Held(p)
    /\ Locks /\ Keys /\ ForeignKeys /\ Credits /\ Answers /\ WorkOutlivesTask

-----------------------------------------------------------------------------

(* Rows, their keys, and what they refer to.                               *)

LEMMA RowFacts ==
    ASSUME NEW r \in RowSet
    PROVE  /\ r = <<r[1], r[2], r[3]>>
           /\ r[1] \in {"task", "block", "plan", "link", "subtask", "work", "credit", "shown"}
           /\ r[1] = "task" => r = TaskRow
           /\ r[1] = "block" => r = <<"block", Old, None>>
           /\ r[1] = "plan" => r[2] \in Requests /\ r[3] = None
           /\ r[1] = "link" => r[2] \in Requests /\ r[3] = Task
           /\ r[1] = "subtask" => r[2] \in Requests /\ r[3] \in {Task, None}
           /\ r[1] = "work" => r[2] \in Requests \union {Old} /\ r[3] \in {Task, None}
           /\ r[1] \in Lists => r[2] \in Users
  BY DEF RowSet, TaskRow, Lists

LEMMA RowsMade ==
    /\ TaskRow \in RowSet /\ <<"block", Old, None>> \in RowSet
    /\ \A p \in Requests : /\ <<"plan", p, None>> \in RowSet
                           /\ <<"link", p, Task>> \in RowSet
                           /\ <<"subtask", p, Task>> \in RowSet
                           /\ <<"work", p, Task>> \in RowSet
    /\ \A table \in Lists, u \in Users, w \in Requests \union {Old} : <<table, u, w>> \in RowSet
    /\ \A r \in RowSet : r[1] \in {"work", "subtask"} => <<r[1], r[2], None>> \in RowSet
<1>1. \A r \in RowSet : r[1] \in {"work", "subtask"} => <<r[1], r[2], None>> \in RowSet
  <2> SUFFICES ASSUME NEW r \in RowSet, r[1] \in {"work", "subtask"}
               PROVE  <<r[1], r[2], None>> \in RowSet
    OBVIOUS
  <2>1. CASE r[1] = "work"
    BY <2>1, RowFacts DEF RowSet
  <2>2. CASE r[1] = "subtask"
    BY <2>2, RowFacts DEF RowSet
  <2> QED
    BY <2>1, <2>2
<1> QED
  BY <1>1 DEF RowSet

LEMMA KeyFacts == \A r, s : Key(r) = Key(s) <=> r[1] = s[1] /\ r[2] = s[2]
  BY DEF Key

(* Which rows refer to what.                                               *)
LEMMA Referring ==
    ASSUME NEW r \in RowSet, NEW s \in RowSet, HasKey(r), Key(s) = Parent(r)
    PROVE  \/ r[1] = "credit" /\ s[1] = "work" /\ s[2] = Old
           \/ r[1] = "shown" /\ s = <<"block", Old, None>>
           \/ r[1] \in {"link", "subtask", "work"} /\ r[3] = Task /\ s = TaskRow
<1>1. r[1] \in {"credit", "shown", "link", "subtask", "work"}
  BY DEF HasKey, Lists
<1>2. CASE r[1] = "credit"
  BY <1>2 DEF Parent, Key
<1>3. CASE r[1] = "shown"
  <2>1. s[1] = "block"
    BY <1>3 DEF Parent, Key
  <2> QED
    BY <1>3, <2>1, RowFacts
<1>4. CASE r[1] \in {"link", "subtask", "work"}
  <2>1. s[1] = "task"
    BY <1>4 DEF Parent, Key
  <2>2. s = TaskRow
    BY <2>1, RowFacts
  <2>3. r[3] # None
    BY <1>4 DEF HasKey, Lists
  <2> QED
    BY <1>4, <2>2, <2>3, RowFacts
<1> QED
  BY <1>1, <1>2, <1>3, <1>4

LEMMA NothingDanglesIs == NothingDangles <=> \A r \in db : HasKey(r) => Refers(r, db)
  BY DEF NothingDangles, HasKey, Refers

-----------------------------------------------------------------------------

(* A statement that runs.                                                  *)
Run(p, s) ==
    /\ s \in Statements(p) /\ at[p] = s.from
    /\ Blockers(p, s) = {} /\ ~Breaks(p, s)
    /\ at' = [at EXCEPT ![p] = s.to]
    /\ gone' = [gone EXCEPT ![p] = @ \union (s.del \cap db)]
    /\ new' = [new EXCEPT ![p] = @ \union s.ins]
    /\ seen' = [seen EXCEPT ![p] = IF s.to = "relisted" THEN Rows(EditOrder[2]) ELSE @]
    /\ UNCHANGED <<db, request, answer>>

(* What all statements have in common: rows they insert are fresh, or new  *)
(* versions of rows they delete that refer to nothing.                     *)
Sound(p, s) ==
    /\ s.ins \subseteq RowSet
    /\ \A i \in s.ins :
          s.del = {} \/ (~HasKey(i) /\ \E d \in s.del \cap db : Key(d) = Key(i))
    /\ s.from # "done" /\ s.to \in Stages \ {"start", "found", "done"}

LEMMA RunMoves ==
    ASSUME Types, NEW p \in Requests, NEW s, Run(p, s)
    PROVE  /\ at'[p] = s.to
           /\ gone'[p] = gone[p] \union (s.del \cap db)
           /\ new'[p] = new[p] \union s.ins
           /\ seen'[p] = IF s.to = "relisted" THEN Rows("shown") ELSE seen[p]
           /\ db' = db /\ kind' = kind /\ list' = list /\ answer' = answer
           /\ \A q \in Requests : q # p =>
                 at'[q] = at[q] /\ gone'[q] = gone[q] /\ new'[q] = new[q] /\ seen'[q] = seen[q]
  BY DEF Types, Run, EditOrder, request

(* The three creations have one statement each.                            *)
LEMMA SmallStatement ==
    ASSUME NEW p \in Requests, NEW s \in Statements(p),
           kind[p] \in {"schedule", "subtask", "record"}
    PROVE  /\ s.from = "found" /\ s.to = "written" /\ s.del = {}
           /\ kind[p] = "schedule" => s.ins = {<<"plan", p, None>>, <<"link", p, Task>>}
           /\ kind[p] = "subtask" => s.ins = {<<"subtask", p, Task>>}
           /\ kind[p] = "record" => s.ins = {<<"work", p, Task>>}
<1>1. CASE kind[p] = "schedule"
  <2>1. s \in Schedule(p)
    BY <1>1 DEF Statements
  <2> QED
    BY <1>1, <2>1 DEF Schedule, St
<1>2. CASE kind[p] = "subtask"
  <2>1. s \in Subtask(p)
    BY <1>2 DEF Statements
  <2> QED
    BY <1>2, <2>1 DEF Subtask, St
<1>3. CASE kind[p] = "record"
  <2>1. s \in Record(p)
    BY <1>3 DEF Statements
  <2> QED
    BY <1>3, <2>1 DEF Record, St
<1> QED
  BY <1>1, <1>2, <1>3

LEMMA SmallRun ==
    ASSUME Types, NEW p \in Requests, Held(p), NEW s, Run(p, s),
           kind[p] \in {"schedule", "subtask", "record"}
    PROVE  Sound(p, s) /\ Held(p)'
<1>1. s.from = "found" /\ s.to = "written" /\ s.del = {}
  BY SmallStatement DEF Run
<1>2. /\ kind[p] = "schedule" => s.ins = {<<"plan", p, None>>, <<"link", p, Task>>}
      /\ kind[p] = "subtask" => s.ins = {<<"subtask", p, Task>>}
      /\ kind[p] = "record" => s.ins = {<<"work", p, Task>>}
  BY SmallStatement DEF Run
<1>3. s.ins \subseteq RowSet
  <2>1. {<<"plan", p, None>>, <<"link", p, Task>>} \subseteq RowSet
        /\ {<<"subtask", p, Task>>} \subseteq RowSet /\ {<<"work", p, Task>>} \subseteq RowSet
    BY RowsMade
  <2> QED
    BY <1>2, <2>1
<1>4. Sound(p, s)
  BY <1>1, <1>3 DEF Sound, Stages
<1>5. gone[p] = {} /\ new[p] = {}
  BY <1>1 DEF Run, Held
<1>6. gone'[p] = {} /\ new'[p] = s.ins /\ at'[p] = "written" /\ kind'[p] = kind[p]
  <2>1. /\ gone'[p] = gone[p] \union (s.del \cap db) /\ new'[p] = new[p] \union s.ins
        /\ at'[p] = s.to /\ kind' = kind
    BY RunMoves
  <2> QED
    BY <1>1, <1>5, <2>1
<1>7. Held(p)'
  BY <1>2, <1>6 DEF Held, SmallHeld, DeleteHeld, EditHeld, RemoveHeld
<1> QED
  BY <1>4, <1>7

(* Rows of a table that lose their task.                                   *)
LEMMA DetachedRows ==
    ASSUME Types, NEW table \in {"work", "subtask"}
    PROVE  /\ Linked(table) \subseteq db
           /\ Detached(Linked(table)) \subseteq RowSet
           /\ \A i \in Detached(Linked(table)) :
                 /\ i[1] = table /\ i[3] = None /\ ~HasKey(i)
                 /\ \E d \in Linked(table) : Key(d) = Key(i)
           /\ \A d \in Linked(table) :
                 d[1] = table /\ \E i \in Detached(Linked(table)) : Key(d) = Key(i)
<1>1. Linked(table) \subseteq db /\ \A d \in Linked(table) : d \in RowSet /\ d[1] = table
  BY DEF Linked, Rows, Types
<1>2. \A d \in Linked(table) : <<d[1], d[2], None>> \in Detached(Linked(table))
  BY DEF Detached
<1>3. ASSUME NEW i \in Detached(Linked(table))
      PROVE  /\ i \in RowSet /\ i[1] = table /\ i[3] = None /\ ~HasKey(i)
             /\ \E d \in Linked(table) : Key(d) = Key(i)
  <2>1. PICK d \in Linked(table) : i = <<d[1], d[2], None>>
    BY DEF Detached
  <2>2. i \in RowSet
    BY <1>1, <2>1, RowsMade
  <2>3. i[1] = table /\ i[3] = None /\ Key(d) = Key(i)
    BY <1>1, <2>1 DEF Key
  <2> QED
    BY <2>2, <2>3 DEF HasKey, Lists
<1> QED
  BY <1>1, <1>2, <1>3, KeyFacts

LEMMA DeleteRun ==
    ASSUME Types, NEW p \in Requests, Held(p), NEW s, Run(p, s), kind[p] = "delete"
    PROVE  /\ Sound(p, s) /\ Held(p)'
           /\ s.to = "written" => TaskRow \in s.del /\ Linked("link") \subseteq s.del
<1>1. s \in DeleteTask(p)
  BY DEF Run, Statements
<1>2. DeleteHeld(p)
  BY DEF Held
<1>3. at'[p] = s.to /\ gone'[p] = gone[p] \union (s.del \cap db) /\ new'[p] = new[p] \union s.ins
      /\ kind'[p] = "delete"
  BY RunMoves
<1>4. SUFFICES ASSUME TRUE
      PROVE  /\ Sound(p, s)
             /\ s.to \in {"unlinked", "emptied", "written"}
             /\ s.to = "written" => TaskRow \in s.del /\ Linked("link") \subseteq s.del
             /\ \A i \in s.ins : i[1] \in {"work", "subtask"} /\ i[3] = None
             /\ \A r \in s.del \cap db :
                   \/ r[1] \in {"plan", "link", "task"}
                   \/ r[1] \in {"work", "subtask"} /\ \E i \in s.ins : Key(i) = Key(r)
  BY <1>2, <1>3 DEF Held, SmallHeld, DeleteHeld, EditHeld, RemoveHeld
<1>5. CASE s = St("found", "unlinked",
              {r \in db : r[1] \in {"plan", "link"} /\ r[2] \in seen[p]} \union Linked("work"),
              Detached(Linked("work")))
  <2>1. /\ s.from = "found" /\ s.to = "unlinked" /\ s.ins = Detached(Linked("work"))
        /\ s.del = {r \in db : r[1] \in {"plan", "link"} /\ r[2] \in seen[p]} \union Linked("work")
    BY <1>5 DEF St
  <2> QED
    BY <2>1, DetachedRows DEF Sound, Stages
<1>6. CASE s = St("unlinked", "emptied", Linked("subtask"), Detached(Linked("subtask")))
  <2>1. s.from = "unlinked" /\ s.to = "emptied" /\ s.ins = Detached(Linked("subtask")) /\ s.del = Linked("subtask")
    BY <1>6 DEF St
  <2> QED
    BY <2>1, DetachedRows DEF Sound, Stages
<1>7. CASE s = St("emptied", "written", {TaskRow} \union Linked("link"), {})
  <2>1. s.from = "emptied" /\ s.to = "written" /\ s.ins = {} /\ s.del = {TaskRow} \union Linked("link")
    BY <1>7 DEF St
  <2>2. TaskRow[1] = "task" /\ \A r \in Linked("link") : r[1] = "link"
    BY DEF TaskRow, Linked, Rows
  <2> QED
    BY <2>1, <2>2 DEF Sound, Stages
<1> QED
  BY <1>1, <1>5, <1>6, <1>7 DEF DeleteTask

LEMMA EditRun ==
    ASSUME Types, NEW p \in Requests, Held(p), NEW s, Run(p, s), kind[p] = "edit"
    PROVE  /\ Sound(p, s) /\ Held(p)'
           /\ s.to = "hidden" => at[p] = "relisted" /\ s.del = seen[p]
           /\ s.to = "written" => at[p] = "hidden" /\ s.del = {}
<1> DEFINE asked(table) == {<<table, u, p>> : u \in list[p]}
<1>1. s \in {St("found", "cleared", seen[p], {}),
             St("cleared", "relisted", {}, asked("credit")),
             St("relisted", "hidden", seen[p], {}),
             St("hidden", "written", {}, asked("shown"))}
  BY DEF Run, Statements, EditWork, EditOrder
<1>2. EditHeld(p)
  BY DEF Held
<1>3. /\ at'[p] = s.to /\ gone'[p] = gone[p] \union (s.del \cap db)
      /\ new'[p] = new[p] \union s.ins /\ kind'[p] = "edit" /\ list' = list
      /\ seen'[p] = IF s.to = "relisted" THEN Rows("shown") ELSE seen[p]
  BY RunMoves
<1>4. /\ \A table \in Lists : asked(table) \subseteq RowSet
      /\ \A table \in Lists : \A i \in asked(table) : i[1] = table /\ i[2] \in list[p] /\ i[3] = p
  <2>1. list[p] \subseteq Users
    BY DEF Types
  <2> QED
    BY <2>1, RowsMade
<1>5. "credit" \in Lists /\ "shown" \in Lists
  BY DEF Lists
<1>6. \A r \in Rows("shown") : r \in RowSet /\ r[1] = "shown"
  BY DEF Rows, Types
<1>7. \A r \in gone[p] \union seen[p] : r \in RowSet /\ r[1] \in Lists
  BY <1>2 DEF EditHeld
<1>8. CASE s = St("found", "cleared", seen[p], {})
  <2>1. s.from = "found" /\ s.to = "cleared" /\ s.ins = {} /\ s.del = seen[p]
    BY <1>8 DEF St
  <2>2. Sound(p, s)
    BY <2>1 DEF Sound, Stages
  <2>3. EditHeld(p)'
    BY <1>2, <1>3, <1>7, <2>1 DEF EditHeld, Run
  <2> QED
    BY <1>3, <2>1, <2>2, <2>3 DEF Held, SmallHeld, DeleteHeld, RemoveHeld, Run
<1>9. CASE s = St("cleared", "relisted", {}, asked("credit"))
  <2>1. s.from = "cleared" /\ s.to = "relisted" /\ s.ins = asked("credit") /\ s.del = {}
    BY <1>9 DEF St
  <2>2. Sound(p, s)
    BY <1>4, <1>5, <2>1 DEF Sound, Stages
  <2>3. EditHeld(p)'
    BY <1>2, <1>3, <1>4, <1>5, <1>6, <1>7, <2>1 DEF EditHeld, Run
  <2> QED
    BY <1>3, <2>1, <2>2, <2>3 DEF Held, SmallHeld, DeleteHeld, RemoveHeld, Run
<1>10. CASE s = St("relisted", "hidden", seen[p], {})
  <2>1. s.from = "relisted" /\ s.to = "hidden" /\ s.ins = {} /\ s.del = seen[p]
    BY <1>10 DEF St
  <2>2. Sound(p, s)
    BY <2>1 DEF Sound, Stages
  <2>3. EditHeld(p)'
    BY <1>2, <1>3, <1>7, <2>1 DEF EditHeld, Run
  <2> QED
    BY <1>3, <2>1, <2>2, <2>3 DEF Held, SmallHeld, DeleteHeld, RemoveHeld, Run
<1>11. CASE s = St("hidden", "written", {}, asked("shown"))
  <2>1. s.from = "hidden" /\ s.to = "written" /\ s.ins = asked("shown") /\ s.del = {}
    BY <1>11 DEF St
  <2>2. Sound(p, s)
    BY <1>4, <1>5, <2>1 DEF Sound, Stages
  <2>3. EditHeld(p)'
    BY <1>2, <1>3, <1>4, <1>5, <1>7, <2>1 DEF EditHeld, Run
  <2> QED
    BY <1>3, <2>1, <2>2, <2>3 DEF Held, SmallHeld, DeleteHeld, RemoveHeld, Run
<1> QED
  BY <1>1, <1>8, <1>9, <1>10, <1>11

LEMMA RemoveRun ==
    ASSUME Types, NEW p \in Requests, Held(p), NEW s, Run(p, s), kind[p] = "remove"
    PROVE  /\ Sound(p, s) /\ Held(p)'
           /\ s.to = "written" => Rows("credit") \union Rows("shown") \subseteq s.del
<1> DEFINE loaded(tables) ==
        {r \in db : r[1] \in tables /\ Key(r) \in {Key(x) : x \in seen[p]}}
<1>1. s \in {St("found", "half", loaded({first[p]}), {}),
             St("half", "unlisted", loaded(Lists), {}),
             St("unlisted", "removed", {r \in Rows("work") : r[2] = Old}, {}),
             St("removed", "written", Rows("credit") \union Rows("shown") \union Rows("block"), {})}
  BY DEF Run, Statements, RemoveWork
<1>2. /\ s.ins = {} /\ s.from # "done" /\ s.to \in {"half", "unlisted", "removed", "written"}
      /\ s.to = "written" => Rows("credit") \union Rows("shown") \subseteq s.del
  BY <1>1 DEF St
<1>3. \A r \in s.del : r[1] \in Lists \union {"work", "block"} /\ (r[1] = "work" => r[2] = Old)
  <2>1. first[p] \in Lists
    BY DEF Types
  <2> QED
    BY <1>1, <2>1 DEF St, Rows, Lists
<1>4. at'[p] = s.to /\ gone'[p] = gone[p] \union (s.del \cap db) /\ new'[p] = new[p]
      /\ kind'[p] = "remove"
  BY <1>2, RunMoves
<1>5. Held(p)'
  BY <1>2, <1>3, <1>4 DEF Held, SmallHeld, DeleteHeld, EditHeld, RemoveHeld
<1> QED
  BY <1>2, <1>5 DEF Sound, Stages

(* Every statement of every service is sound.                              *)
LEMMA AnyRun ==
    ASSUME Types, NEW p \in Requests, Held(p), NEW s, Run(p, s)
    PROVE  Sound(p, s) /\ Held(p)'
<1>1. kind[p] \in {"schedule", "subtask", "record", "delete", "edit", "remove"}
  BY KindsAssumption DEF Types
<1> QED
  BY <1>1, SmallRun, DeleteRun, EditRun, RemoveRun

-----------------------------------------------------------------------------

(* What a statement that runs knows of the other transactions and of the   *)
(* committed rows.                                                         *)
LEMMA RunGuards ==
    ASSUME NEW p \in Requests, NEW s, Run(p, s), Sound(p, s)
    PROVE  /\ \A i \in s.ins : HasKey(i) => Refers(i, db)
           /\ \A i \in s.ins : \A r \in db \ (gone[p] \union s.del) : Key(i) # Key(r)
           /\ \A q \in Requests : q # p =>
                 /\ gone[q] \cap s.del = {}
                 /\ \A r \in new[q] :
                       ~Refers(r, {d \in s.del : ~ \E i \in s.ins : Key(i) = Key(d)})
                 /\ \A i \in s.ins : ~Refers(i, Removing(q))
                 /\ \A i \in s.ins :
                       \/ \E d \in s.del \cap db : Key(d) = Key(i)
                       \/ \A r \in new[q] \union gone[q] : Key(i) # Key(r)
<1> DEFINE removed == {Key(r) : r \in {d \in s.del : ~ \E i \in s.ins : Key(i) = Key(d)}}
           ins == {i \in s.ins : ~ \E d \in s.del : Key(i) = Key(d)}
<1>1. /\ \A i \in s.ins : HasKey(i) => Refers(i, db)
      /\ \A i \in s.ins : \A r \in db \ (gone[p] \union s.del) : Key(i) # Key(r)
  BY DEF Run, Breaks, Refers
<1>2. ASSUME NEW q \in Requests, q # p
      PROVE  /\ gone[q] \cap s.del = {}
             /\ \A r \in new[q] : ~(HasKey(r) /\ Parent(r) \in removed)
             /\ \A i \in ins : ~(HasKey(i) /\ Parent(i) \in {Key(r) : r \in Removing(q)})
             /\ \A i \in ins : ~(Key(i) \in {Key(r) : r \in new[q] \union gone[q]})
  <2>1. q \notin Blockers(p, s)
    BY DEF Run
  <2> QED
    BY <1>2, <2>1 DEF Blockers
<1>3. \A i \in s.ins : i \in ins \/ (~HasKey(i) /\ \E d \in s.del \cap db : Key(d) = Key(i))
  BY DEF Sound
<1>4. ASSUME NEW q \in Requests, q # p
      PROVE  /\ \A r \in new[q] :
                   ~Refers(r, {d \in s.del : ~ \E i \in s.ins : Key(i) = Key(d)})
             /\ \A i \in s.ins : ~Refers(i, Removing(q))
             /\ \A i \in s.ins :
                   \/ \E d \in s.del \cap db : Key(d) = Key(i)
                   \/ \A r \in new[q] \union gone[q] : Key(i) # Key(r)
  <2> HIDE DEF ins
  <2>1. \A r \in new[q] :
            ~Refers(r, {d \in s.del : ~ \E i \in s.ins : Key(i) = Key(d)})
    BY <1>2, <1>4 DEF Refers
  <2>2. \A i \in s.ins : ~Refers(i, Removing(q))
    BY <1>2, <1>3, <1>4 DEF Refers
  <2>3. \A i \in s.ins :
                   \/ \E d \in s.del \cap db : Key(d) = Key(i)
                   \/ \A r \in new[q] \union gone[q] : Key(i) # Key(r)
    BY <1>2, <1>3, <1>4
  <2> QED
    BY <2>1, <2>2, <2>3
<1> QED
  BY <1>1, <1>2, <1>4

LEMMA RunTypes ==
    ASSUME Types, NEW p \in Requests, NEW s, Run(p, s), Sound(p, s)
    PROVE  Types'
<1>1. s.del \cap db \subseteq RowSet /\ s.ins \subseteq RowSet /\ Rows(EditOrder[2]) \subseteq RowSet
      /\ s.to \in Stages
  BY DEF Types, Sound, Rows
<1>2. /\ at' \in [Requests -> Stages]
      /\ gone' \in [Requests -> SUBSET RowSet]
      /\ new' \in [Requests -> SUBSET RowSet]
  BY <1>1 DEF Types, Run
<1>3. seen' \in [Requests -> SUBSET (Requests \union RowSet)]
  BY <1>1 DEF Types, Run
<1> QED
  BY <1>2, <1>3 DEF Types, Run, request

(* A transaction's keys are locked, unique and safe to refer to.           *)
LEMMA RunLocksAndKeys ==
    ASSUME Types, Locks, Keys, NEW p \in Requests, NEW s, Run(p, s), Sound(p, s)
    PROVE  Locks' /\ Keys'
<1>1. /\ gone'[p] = gone[p] \union (s.del \cap db) /\ new'[p] = new[p] \union s.ins /\ db' = db
      /\ \A q \in Requests : q # p => gone'[q] = gone[q] /\ new'[q] = new[q]
  BY RunMoves
<1>2. /\ \A i \in s.ins : \A r \in db \ (gone[p] \union s.del) : Key(i) # Key(r)
      /\ \A q \in Requests : q # p =>
            /\ gone[q] \cap s.del = {}
            /\ \A i \in s.ins :
                  \/ \E d \in s.del \cap db : Key(d) = Key(i)
                  \/ \A r \in new[q] \union gone[q] : Key(i) # Key(r)
  BY RunGuards
<1>3. Locks'
  <2>1. \A q \in Requests : gone'[q] \subseteq db'
    BY <1>1 DEF Locks
  <2>2. ASSUME NEW q \in Requests, NEW r \in Requests, q # r
        PROVE  gone'[q] \cap gone'[r] = {}
    <3>1. CASE q = p
      BY <1>1, <1>2, <2>2, <3>1 DEF Locks
    <3>2. CASE r = p
      BY <1>1, <1>2, <2>2, <3>2 DEF Locks
    <3>3. CASE q # p /\ r # p
      BY <1>1, <2>2, <3>3 DEF Locks
    <3> QED
      BY <3>1, <3>2, <3>3
  <2> QED
    BY <2>1, <2>2 DEF Locks
<1>4. \A r, x \in db' : Key(r)' = Key(x)' => r = x
  BY <1>1 DEF Keys, Key
<1>5. ASSUME NEW q \in Requests, NEW i \in new'[q], NEW r \in db' \ gone'[q]
      PROVE  Key(i) # Key(r)
  <2>1. CASE q # p
    BY <1>1, <1>5, <2>1 DEF Keys
  <2>2. CASE q = p /\ i \in new[p]
    BY <1>1, <1>5, <2>2 DEF Keys
  <2>3. CASE q = p /\ i \in s.ins
    <3>1. r \in db \ (gone[p] \union s.del)
      BY <1>1, <2>3
    <3> QED
      BY <1>2, <2>3, <3>1
  <2> QED
    BY <1>1, <2>1, <2>2, <2>3
<1>6. ASSUME NEW q \in Requests, q # p, NEW i \in s.ins, NEW j \in new[q]
      PROVE  Key(i) # Key(j)
  <2>1. CASE \E d \in s.del \cap db : Key(d) = Key(i)
    <3>1. PICK d \in s.del \cap db : Key(d) = Key(i)
      BY <2>1
    <3>2. d \in db \ gone[q]
      BY <1>2, <1>6
    <3> QED
      BY <3>1, <3>2 DEF Keys
  <2> QED
    BY <1>2, <1>6, <2>1
<1>7. ASSUME NEW q \in Requests, NEW r \in Requests, q # r, NEW i \in new'[q], NEW j \in new'[r]
      PROVE  Key(i) # Key(j)
  <2>1. CASE i \in new[q] /\ j \in new[r]
    BY <1>7, <2>1 DEF Keys
  <2>2. CASE q = p /\ i \in s.ins
    BY <1>1, <1>6, <1>7, <2>2
  <2>3. CASE r = p /\ j \in s.ins
    BY <1>1, <1>6, <1>7, <2>3
  <2> QED
    BY <1>1, <1>7, <2>1, <2>2, <2>3
<1>8. Keys'
  BY <1>4, <1>5, <1>7 DEF Keys, Key
<1> QED
  BY <1>3, <1>8

(* What p removes grows by what the statement removes.                     *)
LEMMA RemovingGrows ==
    ASSUME Types, NEW p \in Requests, NEW s, Run(p, s)
    PROVE  /\ Removing(p)' \subseteq
                 Removing(p) \union {d \in s.del : ~ \E i \in s.ins : Key(i) = Key(d)}
           /\ \A q \in Requests : q # p => Removing(q)' = Removing(q)
<1>1. /\ gone'[p] = gone[p] \union (s.del \cap db) /\ new'[p] = new[p] \union s.ins
      /\ \A q \in Requests : q # p => gone'[q] = gone[q] /\ new'[q] = new[q]
  BY RunMoves
<1> QED
  BY <1>1 DEF Removing, Key

(* Nothing a transaction leaves refers to what it removes, once it is      *)
(* ready to commit.                                                        *)
LEMMA RunOrphansNothing ==
    ASSUME Types, Locks, NEW p \in Requests, Held(p), NEW s, Run(p, s), s.to = "written",
           NEW r \in db \ gone'[p]
    PROVE  ~Refers(r, Removing(p)')
<1>1. /\ gone'[p] = gone[p] \union (s.del \cap db) /\ new'[p] = new[p] \union s.ins
      /\ db' = db /\ kind' = kind
  BY RunMoves
<1>2. gone'[p] \subseteq db /\ Removing(p)' \subseteq gone'[p] /\ db \subseteq RowSet
  BY <1>1 DEF Locks, Types, Removing
<1>3. SUFFICES ASSUME HasKey(r), NEW x \in Removing(p)', Key(x) = Parent(r)
               PROVE  FALSE
  BY DEF Refers
<1>4. r \in RowSet /\ x \in RowSet /\ x \in gone'[p]
  BY <1>2
<1>5. \/ r[1] = "credit" /\ x[1] = "work" /\ x[2] = Old
      \/ r[1] = "shown" /\ x = <<"block", Old, None>>
      \/ r[1] \in {"link", "subtask", "work"} /\ r[3] = Task /\ x = TaskRow
  BY <1>3, <1>4, Referring
<1>6. x[1] \in {"work", "block", "task"}
  BY <1>5 DEF TaskRow
<1>7. Held(p)'
  BY AnyRun
<1>8. CASE kind[p] \in {"schedule", "subtask", "record"}
  BY <1>1, <1>4, <1>7, <1>8 DEF Held, SmallHeld
<1>9. CASE kind[p] = "edit"
  <2>1. x[1] \in Lists
    BY <1>1, <1>4, <1>7, <1>9 DEF Held, EditHeld
  <2> QED
    BY <1>6, <2>1 DEF Lists
<1>10. CASE kind[p] = "remove"
  <2>1. x[1] \in Lists \union {"work", "block"}
    BY <1>1, <1>4, <1>7, <1>10 DEF Held, RemoveHeld
  <2>2. r \in Rows("credit") \union Rows("shown")
    BY <1>5, <2>1 DEF Rows, TaskRow, Lists
  <2>3. r \in s.del
    BY <1>10, <2>2, RemoveRun
  <2> QED
    BY <1>1, <2>3
<1>11. CASE kind[p] = "delete"
  <2>1. x[1] \in {"work", "subtask"} => \E i \in new'[p] : Key(i) = Key(x)
    BY <1>1, <1>4, <1>7, <1>11 DEF Held, DeleteHeld, Key
  <2>2. x[1] \notin {"work", "subtask"}
    BY <2>1 DEF Removing, Key
  <2>3. x[1] \in {"plan", "link", "task", "work", "subtask"}
    BY <1>1, <1>4, <1>7, <1>11 DEF Held, DeleteHeld
  <2>4. r[1] \in {"link", "subtask", "work"} /\ r[3] = Task /\ x = TaskRow
    BY <1>5, <2>2, <2>3
  <2>5. TaskRow \in s.del \cap db /\ Linked("link") \subseteq s.del
    BY <1>2, <1>4, <1>11, <2>4, DeleteRun
  <2>6. r \notin Linked("link")
    BY <1>1, <2>5
  <2>7. r \in Linked("subtask") \union Linked("work")
    BY <2>4, <2>6 DEF Linked, Rows
  <2>8. r \notin gone[p] \union s.del
    BY <1>1
  <2> QED
    BY <1>3, <2>5, <2>7, <2>8 DEF Run, Breaks
<1> QED
  BY <1>8, <1>9, <1>10, <1>11, KindsAssumption DEF Types

LEMMA RunForeignKeys ==
    ASSUME Types, Locks, ForeignKeys, NEW p \in Requests, Held(p), NEW s, Run(p, s), Sound(p, s)
    PROVE  ForeignKeys'
<1>1. /\ new'[p] = new[p] \union s.ins /\ db' = db /\ at'[p] = s.to
      /\ \A q \in Requests : q # p => at'[q] = at[q] /\ gone'[q] = gone[q] /\ new'[q] = new[q]
  BY RunMoves
<1>2. /\ \A i \in s.ins : HasKey(i) => Refers(i, db)
      /\ \A q \in Requests : q # p =>
            /\ \A r \in new[q] :
                  ~Refers(r, {d \in s.del : ~ \E i \in s.ins : Key(i) = Key(d)})
            /\ \A i \in s.ins : ~Refers(i, Removing(q))
  BY RunGuards
<1>3. /\ Removing(p)' \subseteq
            Removing(p) \union {d \in s.del : ~ \E i \in s.ins : Key(i) = Key(d)}
      /\ \A q \in Requests : q # p => Removing(q)' = Removing(q)
  BY RemovingGrows
<1>4. NothingDangles'
  BY <1>1 DEF ForeignKeys, NothingDangles, Key, Parent
<1>5. \A q \in Requests : \A i \in new'[q] : HasKey(i) => Refers(i, db')
  BY <1>1, <1>2 DEF ForeignKeys
<1>6. ASSUME NEW q \in Requests, NEW r \in Requests, q # r, NEW i \in new'[q]
      PROVE  ~Refers(i, Removing(r)')
  <2>1. CASE q # p /\ r # p
    BY <1>1, <1>3, <1>6, <2>1 DEF ForeignKeys
  <2>2. CASE q = p /\ i \in s.ins
    BY <1>2, <1>3, <1>6, <2>2
  <2>3. CASE q = p /\ i \in new[p]
    BY <1>3, <1>6, <2>3 DEF ForeignKeys
  <2>4. CASE r = p
    <3>1. i \in new[q]
      BY <1>1, <1>6, <2>4
    <3>2. ~Refers(i, Removing(p))
      BY <1>6, <2>4, <3>1 DEF ForeignKeys
    <3>3. ~Refers(i, {d \in s.del : ~ \E j \in s.ins : Key(j) = Key(d)})
      BY <1>2, <1>6, <2>4, <3>1
    <3> QED
      BY <1>3, <2>4, <3>2, <3>3 DEF Refers
  <2> QED
    BY <1>1, <2>1, <2>2, <2>3, <2>4
<1>7. ASSUME NEW q \in Requests, at'[q] = "written", NEW r \in db \ gone'[q]
      PROVE  ~Refers(r, Removing(q)')
  <2>1. CASE q = p
    BY <1>1, <1>7, <2>1, RunOrphansNothing
  <2>2. CASE q # p
    BY <1>1, <1>3, <1>7, <2>2 DEF ForeignKeys
  <2> QED
    BY <2>1, <2>2
<1>8. (\A q \in Requests : \A i \in new[q] : HasKey(i) => Refers(i, db))'
  BY <1>5 DEF Refers, HasKey, Key, Parent
<1>9. (\A q, r \in Requests : q # r => \A i \in new[q] : ~Refers(i, Removing(r)))'
  BY <1>6 DEF Refers, HasKey, Key, Parent
<1>10. (\A q \in Requests : at[q] = "written" =>
           \A r \in db \ gone[q] : ~Refers(r, Removing(q)))'
  BY <1>1, <1>7 DEF Refers, HasKey, Key, Parent
<1> QED
  BY <1>4, <1>8, <1>9, <1>10 DEF ForeignKeys

(* Whoever takes a credit away takes away what is shown for it: an edit    *)
(* has listed all of it, a removal deletes all of it, nobody else deletes  *)
(* credits.                                                                *)
LEMMA RunCredits ==
    ASSUME Types, Credits, NEW p \in Requests, Held(p), NEW s, Run(p, s)
    PROVE  Credits'
<1>1. /\ at'[p] = s.to /\ gone'[p] = gone[p] \union (s.del \cap db) /\ db' = db /\ kind' = kind
      /\ seen'[p] = IF s.to = "relisted" THEN Rows("shown") ELSE seen[p]
      /\ \A q \in Requests : q # p =>
            at'[q] = at[q] /\ gone'[q] = gone[q] /\ seen'[q] = seen[q]
  BY RunMoves
<1>2. ShownIsCredited'
  BY <1>1 DEF Credits, ShownIsCredited, Rows
<1>3. kind[p] = "edit" /\ at'[p] = "relisted" => Takes(p, seen[p])'
  BY <1>1 DEF Takes, Rows
<1>4. Held(p)'
  BY AnyRun
<1>5. ASSUME at'[p] \in {"hidden", "written"}
      PROVE  Takes(p, gone[p])'
  <2>1. CASE kind[p] = "edit" /\ at'[p] = "hidden"
    <3>1. at[p] = "relisted" /\ s.del = seen[p]
      BY <1>1, <2>1, EditRun
    <3>2. \A r \in seen[p] : r[1] = "shown"
      BY <2>1, <3>1 DEF Held, EditHeld
    <3>3. Takes(p, seen[p])
      BY <2>1, <3>1 DEF Credits
    <3> QED
      BY <1>1, <3>1, <3>2, <3>3 DEF Takes
  <2>2. CASE kind[p] = "edit" /\ at'[p] = "written"
    <3>1. at[p] = "hidden" /\ s.del = {}
      BY <1>1, <2>2, EditRun
    <3> QED
      BY <1>1, <3>1 DEF Credits, Takes
  <2>3. CASE kind[p] = "remove"
    <3>1. s.to = "written"
      BY <1>1, <1>4, <1>5, <2>3 DEF Held, RemoveHeld
    <3>2. Rows("shown") \subseteq s.del
      BY <2>3, <3>1, RemoveRun
    <3> QED
      BY <1>1, <3>2 DEF Takes, Rows
  <2>4. CASE kind[p] \in {"schedule", "subtask", "record"}
    <3>1. gone'[p] = {}
      BY <1>1, <1>4, <2>4 DEF Held, SmallHeld
    <3> QED
      BY <3>1 DEF Takes
  <2>5. CASE kind[p] = "delete"
    <3>1. \A c \in gone'[p] : c[1] # "credit"
      BY <1>1, <1>4, <2>5 DEF Held, DeleteHeld
    <3> QED
      BY <3>1 DEF Takes
  <2> QED
    BY <1>5, <2>1, <2>2, <2>3, <2>4, <2>5, KindsAssumption DEF Types
<1>6. ASSUME NEW q \in Requests, q # p
      PROVE  /\ kind'[q] = "edit" /\ at'[q] = "relisted" => Takes(q, seen[q])'
             /\ at'[q] \in {"hidden", "written"} => Takes(q, gone[q])'
  BY <1>1, <1>6 DEF Credits, Takes
<1> QED
  BY <1>1, <1>2, <1>3, <1>5, <1>6 DEF Credits

(* A statement that runs preserves the invariant.                          *)
LEMMA RunKeeps ==
    ASSUME Inv, NEW p \in Requests, NEW s, Run(p, s)
    PROVE  Inv'
<1>1. Types /\ Held(p) /\ Locks /\ Keys /\ ForeignKeys /\ Credits
  BY DEF Inv
<1>2. Sound(p, s) /\ Held(p)'
  BY <1>1, AnyRun
<1>3. Types' /\ Locks' /\ Keys' /\ ForeignKeys' /\ Credits'
  BY <1>1, <1>2, RunTypes, RunLocksAndKeys, RunForeignKeys, RunCredits
<1>4. /\ at'[p] = s.to /\ at[p] = s.from /\ db' = db /\ kind' = kind /\ list' = list
      /\ answer' = answer
      /\ \A q \in Requests : q # p =>
            at'[q] = at[q] /\ gone'[q] = gone[q] /\ new'[q] = new[q] /\ seen'[q] = seen[q]
  BY <1>1, RunMoves DEF Run
<1>5. ASSUME NEW q \in Requests
      PROVE  Held(q)'
  <2>1. CASE q = p
    BY <1>2, <2>1
  <2>2. CASE q # p
    BY <1>4, <2>2 DEF Inv, Held, SmallHeld, DeleteHeld, EditHeld, RemoveHeld
  <2> QED
    BY <2>1, <2>2
<1>6. Answers'
  BY <1>2, <1>4 DEF Inv, Answers, Sound
<1>7. WorkOutlivesTask'
  BY <1>4 DEF Inv, WorkOutlivesTask, Key
<1> QED
  BY <1>3, <1>5, <1>6, <1>7 DEF Inv

-----------------------------------------------------------------------------

(* A step that writes nothing and removes nothing more.                    *)
LEMMA ForeignKeysKept ==
    ASSUME ForeignKeys, db' = db,
           \A q \in Requests :
              /\ new'[q] \subseteq new[q] /\ Removing(q)' \subseteq Removing(q)
              /\ at'[q] = "written" => at[q] = "written" /\ gone'[q] = gone[q]
    PROVE  ForeignKeys'
<1>1. NothingDangles'
  BY DEF ForeignKeys, NothingDangles, Key, Parent
<1>2. \A q \in Requests : \A i \in new'[q] : HasKey(i) => Refers(i, db')
  BY DEF ForeignKeys
<1>3. \A q, r \in Requests : q # r => \A i \in new'[q] : ~Refers(i, Removing(r)')
  BY DEF ForeignKeys, Refers
<1>4. \A q \in Requests : at'[q] = "written" =>
         \A r \in db' \ gone'[q] : ~Refers(r, Removing(q)')
  BY DEF ForeignKeys, Refers
<1>5. (\A q \in Requests : \A i \in new[q] : HasKey(i) => Refers(i, db))'
  BY <1>2 DEF Refers, HasKey, Key, Parent
<1>6. (\A q, r \in Requests : q # r => \A i \in new[q] : ~Refers(i, Removing(r)))'
  BY <1>3 DEF Refers, HasKey, Key, Parent
<1>7. (\A q \in Requests : at[q] = "written" =>
         \A r \in db \ gone[q] : ~Refers(r, Removing(q)))'
  BY <1>4 DEF Refers, HasKey, Key, Parent
<1> QED
  BY <1>1, <1>5, <1>6, <1>7 DEF ForeignKeys

(* The look-up that finds what it looks for, and lists the rows.           *)
LEMMA FindKeeps ==
    ASSUME Inv, NEW p \in Requests, at[p] = "start", at' = [at EXCEPT ![p] = "found"],
           seen' = [seen EXCEPT ![p] =
                CASE kind[p] = "delete" -> {r[2] : r \in Linked("link")}
                  [] kind[p] = "edit"   -> Rows(EditOrder[1])
                  [] kind[p] = "remove" -> Rows("credit") \union Rows("shown")
                  [] OTHER              -> {}],
           UNCHANGED <<db, request, gone, new, answer>>
    PROVE  Inv'
<1> DEFINE listed == CASE kind[p] = "delete" -> {r[2] : r \in Linked("link")}
                       [] kind[p] = "edit"   -> Rows(EditOrder[1])
                       [] kind[p] = "remove" -> Rows("credit") \union Rows("shown")
                       [] OTHER              -> {}
<1>1. Types /\ Held(p)
  BY DEF Inv
<1>2. listed \in SUBSET (Requests \union RowSet)
  <2>1. {r[2] : r \in Linked("link")} \subseteq Requests
    <3>1. \A r \in Linked("link") : r \in RowSet /\ r[1] = "link"
      BY <1>1 DEF Linked, Rows, Types
    <3> QED
      BY <3>1, RowFacts
  <2>2. Rows("credit") \subseteq RowSet /\ Rows("shown") \subseteq RowSet
    BY <1>1 DEF Rows, Types
  <2> QED
    BY <2>1, <2>2 DEF EditOrder
<1>3. kind[p] = "edit" => \A r \in listed : r \in RowSet /\ r[1] \in Lists
  BY <1>1 DEF Rows, Types, EditOrder, Lists
<1>4. seen' = [seen EXCEPT ![p] = listed]
  OBVIOUS
<1> HIDE DEF listed
<1>5. /\ at'[p] = "found" /\ seen'[p] = listed
      /\ \A q \in Requests : q # p => at'[q] = at[q] /\ seen'[q] = seen[q]
      /\ db' = db /\ kind' = kind /\ list' = list /\ first' = first /\ gone' = gone /\ new' = new
      /\ answer' = answer
  BY <1>1, <1>4 DEF Types, request
<1>6. Types'
  BY <1>1, <1>2, <1>4, <1>5 DEF Types, Stages
<1>7. gone[p] = {} /\ new[p] = {}
  BY <1>1 DEF Held
<1>8. Held(p)'
  BY <1>1, <1>3, <1>5, <1>7 DEF Held, SmallHeld, DeleteHeld, EditHeld, RemoveHeld
<1>9. ASSUME NEW q \in Requests, q # p
      PROVE  Held(q)'
  BY <1>5, <1>9 DEF Inv, Held, SmallHeld, DeleteHeld, EditHeld, RemoveHeld
<1>10. Locks' /\ Keys'
  BY <1>5 DEF Inv, Locks, Keys, Key
<1>11. ForeignKeys'
  <2>1. \A q \in Requests : Removing(q)' = Removing(q)
    BY <1>5 DEF Removing, Key
  <2>2. \A q \in Requests : at'[q] = "written" => at[q] = "written"
    BY <1>5
  <2> QED
    BY <1>5, <2>1, <2>2, ForeignKeysKept DEF Inv
<1>12. Credits'
  BY <1>5 DEF Inv, Credits, ShownIsCredited, Takes, Rows
<1>13. Answers' /\ WorkOutlivesTask'
  BY <1>5 DEF Inv, Answers, WorkOutlivesTask, Key
<1> QED
  BY <1>6, <1>8, <1>9, <1>10, <1>11, <1>12, <1>13 DEF Inv

(* A rollback.                                                             *)
LEMMA RefuseKeeps ==
    ASSUME Inv, NEW p \in Requests, at[p] # "done",
           NEW code \in {404, 409, 500}, Refuse(p, code)
    PROVE  Inv'
<1>1. Types /\ Held(p)
  BY DEF Inv
<1>2. /\ at'[p] = "done" /\ answer'[p] = code /\ seen'[p] = {} /\ gone'[p] = {} /\ new'[p] = {}
      /\ \A q \in Requests : q # p =>
            /\ at'[q] = at[q] /\ seen'[q] = seen[q] /\ gone'[q] = gone[q] /\ new'[q] = new[q]
            /\ answer'[q] = answer[q]
      /\ db' = db /\ kind' = kind /\ list' = list /\ first' = first
  BY <1>1 DEF Types, Refuse, Answer, request
<1>3. Types'
  BY <1>1 DEF Types, Refuse, Answer, request, Stages, Codes
<1>4. Held(p)'
  BY <1>1, <1>2 DEF Held, SmallHeld, DeleteHeld, EditHeld, RemoveHeld
<1>5. ASSUME NEW q \in Requests, q # p
      PROVE  Held(q)'
  BY <1>2, <1>5 DEF Inv, Held, SmallHeld, DeleteHeld, EditHeld, RemoveHeld
<1>6. Locks'
  BY <1>2 DEF Inv, Locks
<1>7. Keys'
  BY <1>2 DEF Inv, Keys, Key
<1>8. ForeignKeys'
  <2>1. Removing(p)' = {} /\ \A q \in Requests : q # p => Removing(q)' = Removing(q)
    BY <1>2 DEF Removing, Key
  <2>2. \A q \in Requests :
           /\ new'[q] \subseteq new[q] /\ Removing(q)' \subseteq Removing(q)
           /\ at'[q] = "written" => at[q] = "written" /\ gone'[q] = gone[q]
    BY <1>2, <2>1
  <2> QED
    BY <1>2, <2>2, ForeignKeysKept DEF Inv
<1>9. Credits'
  BY <1>2 DEF Inv, Credits, ShownIsCredited, Takes, Rows
<1>10. code # None /\ code # 201 /\ None # 204 /\ answer[p] = None
  <2>1. code # None /\ None # 204
    BY DistinctAssumption DEF Codes
  <2> QED
    BY <2>1 DEF Inv, Answers
<1>11. Answers'
  BY <1>2, <1>10 DEF Inv, Answers
<1>12. WorkOutlivesTask'
  BY <1>2, <1>10 DEF Inv, WorkOutlivesTask, Key
<1> QED
  BY <1>3, <1>4, <1>5, <1>6, <1>7, <1>8, <1>9, <1>11, <1>12 DEF Inv

-----------------------------------------------------------------------------

(* What a transaction that is ready to commit holds: one row per key, none *)
(* referring to what it removes; every record and subtask it has deleted   *)
(* comes back, unless it removes Old; who is shown is credited.            *)
LEMMA Committing ==
    ASSUME Types, NEW p \in Requests, Held(p), at[p] = "written"
    PROVE  /\ \A i, j \in new[p] : Key(i) = Key(j) => i = j
           /\ \A i \in new[p] : ~Refers(i, Removing(p))
           /\ \A d \in gone[p] : d[1] \in {"work", "subtask"} =>
                 \/ \E i \in new[p] : Key(i) = Key(d)
                 \/ kind[p] = "remove" /\ d[1] = "work" /\ d[2] = Old
           /\ \A i \in new[p] : i[1] = "shown" => <<"credit", i[2], p>> \in new[p]
<1>1. /\ new[p] \subseteq RowSet /\ gone[p] \subseteq RowSet
      /\ \A i \in new[p] : i = <<i[1], i[2], i[3]>>
  <2>1. new[p] \subseteq RowSet /\ gone[p] \subseteq RowSet
    BY DEF Types
  <2> QED
    BY <2>1, RowFacts
<1>2. CASE kind[p] \in {"schedule", "subtask", "record"}
  <2>1. gone[p] = {}
    BY <1>2 DEF Held, SmallHeld
  <2>2. \/ new[p] \subseteq {<<"plan", p, None>>, <<"link", p, Task>>}
        \/ new[p] \subseteq {<<"subtask", p, Task>>}
        \/ new[p] \subseteq {<<"work", p, Task>>}
    BY <1>2 DEF Held, SmallHeld
  <2>3. \A i, j \in new[p] : Key(i) = Key(j) => i = j
    BY <2>2, KeyFacts
  <2>4. \A i \in new[p] : i[1] # "shown"
    BY <2>2
  <2> QED
    BY <2>1, <2>3, <2>4 DEF Refers, Removing
<1>3. CASE kind[p] = "delete"
  <2>1. \A i \in new[p] : i[1] \in {"work", "subtask"} /\ i[3] = None
    BY <1>3 DEF Held, DeleteHeld
  <2>2. \A i, j \in new[p] : Key(i) = Key(j) => i = j
    BY <1>1, <2>1, KeyFacts
  <2>3. \A i \in new[p] : ~HasKey(i)
    BY <2>1 DEF HasKey, Lists
  <2>4. \A d \in gone[p] : d[1] \in {"work", "subtask"} => \E i \in new[p] : Key(i) = Key(d)
    BY <1>3 DEF Held, DeleteHeld
  <2> QED
    BY <2>1, <2>2, <2>3, <2>4 DEF Refers
<1>4. CASE kind[p] = "edit"
  <2>1. /\ \A i \in new[p] : i[1] \in Lists /\ i[2] \in list[p] /\ i[3] = p
        /\ \A r \in gone[p] : r[1] \in Lists
        /\ \A u \in list[p] : <<"credit", u, p>> \in new[p]
    BY <1>4 DEF Held, EditHeld
  <2>2. \A i, j \in new[p] : Key(i) = Key(j) => i = j
    BY <1>1, <2>1, KeyFacts
  <2>3. \A i \in new[p] : ~Refers(i, Removing(p))
    <3> SUFFICES ASSUME NEW i \in new[p], HasKey(i), NEW x \in gone[p], Key(x) = Parent(i)
                 PROVE  FALSE
      BY DEF Refers, Removing
    <3>1. x[1] \in {"work", "block", "task"}
      BY <1>1, Referring DEF TaskRow
    <3> QED
      BY <2>1, <3>1 DEF Lists
  <2> QED
    BY <2>1, <2>2, <2>3 DEF Lists
<1>5. CASE kind[p] = "remove"
  <2>1. new[p] = {} /\ \A r \in gone[p] : r[1] \in Lists \union {"work", "block"}
                                        /\ (r[1] = "work" => r[2] = Old)
    BY <1>5 DEF Held, RemoveHeld
  <2> QED
    BY <1>5, <2>1 DEF Lists
<1> QED
  BY <1>2, <1>3, <1>4, <1>5, KindsAssumption DEF Types

(* The commit publishes what p holds, and p holds nothing any more.        *)
LEMMA CommitMoves ==
    ASSUME Inv, NEW p \in Requests, Commit(p)
    PROVE  /\ Types'
           /\ at[p] = "written" /\ db' = (db \ gone[p]) \union new[p]
           /\ at'[p] = "done" /\ seen'[p] = {} /\ gone'[p] = {} /\ new'[p] = {}
           /\ answer[p] = None /\ answer'[p] # None
           /\ kind[p] \in {"delete", "remove"} => answer'[p] = 204
           /\ \A q \in Requests : q # p =>
                 /\ at'[q] = at[q] /\ seen'[q] = seen[q] /\ gone'[q] = gone[q]
                 /\ new'[q] = new[q] /\ answer'[q] = answer[q]
           /\ kind' = kind /\ list' = list /\ first' = first
<1> DEFINE code == CASE kind[p] \in {"delete", "remove"} -> 204
                     [] kind[p] = "edit" -> 200
                     [] OTHER -> 201
<1>1. Types
  BY DEF Inv
<1>2. code \in Codes /\ code # None /\ (kind[p] \in {"delete", "remove"} => code = 204)
  BY DistinctAssumption DEF Codes
<1>3. /\ answer' = [answer EXCEPT ![p] = code] /\ at' = [at EXCEPT ![p] = "done"]
      /\ UNCHANGED request
  BY DEF Commit, Answer
<1> HIDE DEF code
<1>4. Types'
  <2>1. db' \subseteq RowSet
    BY <1>1 DEF Types, Commit
  <2>2. answer' \in [Requests -> Codes \union {None}] /\ at' \in [Requests -> Stages]
    BY <1>1, <1>2, <1>3 DEF Types, Stages
  <2>3. /\ seen' \in [Requests -> SUBSET (Requests \union RowSet)]
        /\ gone' \in [Requests -> SUBSET RowSet] /\ new' \in [Requests -> SUBSET RowSet]
    BY <1>1 DEF Types, Commit
  <2> QED
    BY <1>1, <1>3, <2>1, <2>2, <2>3 DEF Types, request
<1>5. answer[p] = None
  BY DEF Inv, Answers, Commit
<1>6. answer'[p] = code /\ at'[p] = "done" /\ seen'[p] = {} /\ gone'[p] = {} /\ new'[p] = {}
  BY <1>1, <1>3 DEF Types, Commit
<1>7. \A q \in Requests : q # p =>
         /\ at'[q] = at[q] /\ seen'[q] = seen[q] /\ gone'[q] = gone[q]
         /\ new'[q] = new[q] /\ answer'[q] = answer[q]
  BY <1>1, <1>3 DEF Types, Commit
<1> QED
  BY <1>2, <1>3, <1>4, <1>5, <1>6, <1>7 DEF Commit, request

(* The others' locks and pending keys stay clear of what is published.     *)
LEMMA CommitKeys ==
    ASSUME Inv, NEW p \in Requests, Commit(p)
    PROVE  Locks' /\ Keys'
<1>1. /\ db' = (db \ gone[p]) \union new[p] /\ gone'[p] = {} /\ new'[p] = {}
      /\ \A q \in Requests : q # p => gone'[q] = gone[q] /\ new'[q] = new[q]
  BY CommitMoves
<1>2. \A i, j \in new[p] : Key(i) = Key(j) => i = j
  BY Committing, CommitMoves DEF Inv
<1>3. Locks /\ Keys
  BY DEF Inv
<1>4. Locks'
  <2>1. ASSUME NEW q \in Requests
        PROVE  gone'[q] \subseteq db'
    <3>1. CASE q = p
      BY <1>1, <3>1
    <3>2. CASE q # p
      <4>1. gone[q] \subseteq db /\ gone[q] \cap gone[p] = {}
        BY <1>3, <3>2 DEF Locks
      <4> QED
        BY <1>1, <3>2, <4>1
    <3> QED
      BY <3>1, <3>2
  <2>2. ASSUME NEW q \in Requests, NEW r \in Requests, q # r
        PROVE  gone'[q] \cap gone'[r] = {}
    BY <1>1, <1>3, <2>2 DEF Locks
  <2> QED
    BY <2>1, <2>2 DEF Locks
<1>5. ASSUME NEW r \in db', NEW x \in db', Key(r) = Key(x)
      PROVE  r = x
  <2>1. CASE r \in new[p] /\ x \in new[p]
    BY <1>2, <1>5, <2>1
  <2>2. CASE r \in new[p] /\ x \in db \ gone[p]
    BY <1>3, <1>5, <2>2 DEF Keys
  <2>3. CASE r \in db \ gone[p] /\ x \in new[p]
    BY <1>3, <1>5, <2>3 DEF Keys
  <2>4. CASE r \in db \ gone[p] /\ x \in db \ gone[p]
    BY <1>3, <1>5, <2>4 DEF Keys
  <2> QED
    BY <1>1, <2>1, <2>2, <2>3, <2>4
<1>6. ASSUME NEW q \in Requests, NEW i \in new'[q], NEW r \in db' \ gone'[q]
      PROVE  Key(i) # Key(r)
  <2>1. q # p /\ i \in new[q]
    BY <1>1
  <2>2. CASE r \in new[p]
    BY <1>3, <2>1, <2>2 DEF Keys
  <2>3. CASE r \in db \ gone[q]
    BY <1>3, <2>1, <2>3 DEF Keys
  <2> QED
    BY <1>1, <2>1, <2>2, <2>3
<1>7. \A q, r \in Requests : q # r => \A i \in new'[q], j \in new'[r] : Key(i) # Key(j)
  BY <1>1, <1>3 DEF Keys
<1>8. Keys'
  BY <1>5, <1>6, <1>7 DEF Keys, Key
<1> QED
  BY <1>4, <1>8

(* What a row that stays, or that another transaction is about to write,   *)
(* refers to is there after the commit.                                    *)
LEMMA CommitForeignKeys ==
    ASSUME Inv, NEW p \in Requests, Commit(p)
    PROVE  ForeignKeys'
<1>1. /\ at[p] = "written" /\ at'[p] = "done"
      /\ db' = (db \ gone[p]) \union new[p] /\ gone'[p] = {} /\ new'[p] = {}
      /\ \A q \in Requests : q # p => at'[q] = at[q] /\ gone'[q] = gone[q] /\ new'[q] = new[q]
  BY CommitMoves
<1>2. \A i \in new[p] : ~Refers(i, Removing(p))
  BY <1>1, Committing DEF Inv
<1>3. ForeignKeys
  BY DEF Inv
<1>4. \A r \in db : HasKey(r) => Refers(r, db)
  BY <1>3, NothingDanglesIs DEF ForeignKeys
<1>5. ASSUME NEW r, HasKey(r), Refers(r, db), ~Refers(r, Removing(p))
      PROVE  Refers(r, db')
  <2>1. PICK x \in db : Key(x) = Parent(r)
    BY <1>5 DEF Refers
  <2>2. CASE x \in gone[p]
    <3>1. x \notin Removing(p)
      BY <1>5, <2>1 DEF Refers
    <3>2. PICK i \in new[p] : Key(i) = Key(x)
      BY <2>2, <3>1 DEF Removing
    <3> QED
      BY <1>1, <1>5, <2>1, <3>2 DEF Refers
  <2>3. CASE x \notin gone[p]
    BY <1>1, <1>5, <2>1, <2>3 DEF Refers
  <2> QED
    BY <2>2, <2>3
<1>6. ASSUME NEW r \in db', HasKey(r)
      PROVE  Refers(r, db')
  <2>1. CASE r \in new[p]
    BY <1>2, <1>3, <1>5, <1>6, <2>1 DEF ForeignKeys
  <2>2. CASE r \in db \ gone[p]
    BY <1>1, <1>3, <1>4, <1>5, <1>6, <2>2 DEF ForeignKeys
  <2> QED
    BY <1>1, <2>1, <2>2
<1>7. ASSUME NEW q \in Requests, NEW i \in new'[q], HasKey(i)
      PROVE  Refers(i, db')
  <2>1. q # p /\ i \in new[q]
    BY <1>1
  <2> QED
    BY <1>3, <1>5, <1>7, <2>1 DEF ForeignKeys
<1>8. Removing(p)' = {} /\ \A q \in Requests : q # p => Removing(q)' = Removing(q)
  BY <1>1 DEF Removing, Key
<1>9. ASSUME NEW q \in Requests, NEW r \in Requests, q # r, NEW i \in new'[q]
      PROVE  ~Refers(i, Removing(r)')
  <2>1. q # p /\ i \in new[q]
    BY <1>1
  <2>2. CASE r = p
    BY <1>8, <2>2 DEF Refers
  <2>3. CASE r # p
    BY <1>3, <1>8, <1>9, <2>1, <2>3 DEF ForeignKeys
  <2> QED
    BY <2>2, <2>3
<1>10. ASSUME NEW q \in Requests, at'[q] = "written", NEW r \in db' \ gone'[q]
       PROVE  ~Refers(r, Removing(q)')
  <2>1. q # p /\ at[q] = "written" /\ gone'[q] = gone[q] /\ Removing(q)' = Removing(q)
    BY <1>1, <1>8, <1>10
  <2>2. CASE r \in new[p]
    BY <1>3, <2>1, <2>2 DEF ForeignKeys
  <2>3. CASE r \in db
    BY <1>3, <2>1, <2>3 DEF ForeignKeys
  <2> QED
    BY <1>1, <2>2, <2>3
<1>11. NothingDangles'
  BY <1>6 DEF NothingDangles, Refers, HasKey, Key, Parent
<1>12. (\A q \in Requests : \A i \in new[q] : HasKey(i) => Refers(i, db))'
  BY <1>7 DEF Refers, HasKey, Key, Parent
<1>13. (\A q, r \in Requests : q # r => \A i \in new[q] : ~Refers(i, Removing(r)))'
  BY <1>9 DEF Refers, HasKey, Key, Parent
<1>14. (\A q \in Requests : at[q] = "written" =>
           \A r \in db \ gone[q] : ~Refers(r, Removing(q)))'
  BY <1>10 DEF Refers, HasKey, Key, Parent
<1> QED
  BY <1>11, <1>12, <1>13, <1>14 DEF ForeignKeys

(* A row newly shown comes with its credit, whose key tells that nobody    *)
(* else has deleted a credit of that member.                               *)
LEMMA CommitCredits ==
    ASSUME Inv, NEW p \in Requests, Commit(p)
    PROVE  Credits'
<1>1. /\ at[p] = "written" /\ at'[p] = "done" /\ db' = (db \ gone[p]) \union new[p]
      /\ gone'[p] = {} /\ kind' = kind
      /\ \A q \in Requests : q # p =>
            at'[q] = at[q] /\ gone'[q] = gone[q] /\ seen'[q] = seen[q]
  BY CommitMoves
<1>2. \A i \in new[p] : i[1] = "shown" => <<"credit", i[2], p>> \in new[p]
  BY <1>1, Committing DEF Inv
<1>3. Credits /\ Keys /\ Locks
  BY DEF Inv
<1>4. ASSUME NEW r \in db', r[1] = "shown"
      PROVE  \E c \in db' : c[1] = "credit" /\ c[2] = r[2]
  <2>1. CASE r \in new[p]
    <3>1. <<"credit", r[2], p>> \in db'
      BY <1>1, <1>2, <1>4, <2>1
    <3> QED
      BY <3>1
  <2>2. CASE r \in db \ gone[p]
    <3>1. PICK c \in db : c[1] = "credit" /\ c[2] = r[2]
      BY <1>3, <1>4, <2>2 DEF Credits, ShownIsCredited, Rows
    <3>2. c \notin gone[p]
      BY <1>1, <1>3, <1>4, <2>2, <3>1 DEF Credits, Takes
    <3> QED
      BY <1>1, <3>1, <3>2
  <2> QED
    BY <1>1, <2>1, <2>2
<1>5. ASSUME NEW q \in Requests, q # p, NEW rows, Takes(q, rows)
      PROVE  \A c \in gone'[q], r \in db' :
                c[1] = "credit" /\ r[1] = "shown" /\ c[2] = r[2] => r \in rows
  <2> SUFFICES ASSUME NEW c \in gone'[q], NEW r \in db',
                      c[1] = "credit", r[1] = "shown", c[2] = r[2]
               PROVE  r \in rows
    OBVIOUS
  <2>1. c \in gone[q] /\ c \in db \ gone[p]
    <3>1. c \in gone[q]
      BY <1>1, <1>5
    <3> QED
      BY <1>3, <1>5, <3>1 DEF Locks
  <2>2. r \notin new[p]
    <3> SUFFICES ASSUME r \in new[p]
                 PROVE  FALSE
      OBVIOUS
    <3>1. <<"credit", r[2], p>> \in new[p]
      BY <1>2
    <3>2. Key(<<"credit", r[2], p>>) = Key(c)
      BY KeyFacts
    <3> QED
      BY <1>3, <2>1, <3>1, <3>2 DEF Keys
  <2> QED
    BY <1>1, <1>5, <2>1, <2>2 DEF Takes
<1>6. ASSUME NEW q \in Requests
      PROVE  /\ kind'[q] = "edit" /\ at'[q] = "relisted" => Takes(q, seen[q])'
             /\ at'[q] \in {"hidden", "written"} => Takes(q, gone[q])'
  <2>1. CASE q = p
    BY <1>1, <2>1
  <2>2. CASE q # p
    BY <1>1, <1>3, <1>5, <2>2 DEF Credits, Takes
  <2> QED
    BY <2>1, <2>2
<1>7. ShownIsCredited'
  BY <1>4 DEF ShownIsCredited, Rows
<1> QED
  BY <1>6, <1>7 DEF Credits

(* Work and subtasks that p deleted come back with the commit.             *)
LEMMA CommitKeepsWork ==
    ASSUME Inv, NEW p \in Requests, Commit(p)
    PROVE  WorkOutlivesTask'
<1>1. /\ at[p] = "written" /\ db' = (db \ gone[p]) \union new[p] /\ kind' = kind
      /\ answer[p] = None /\ (kind[p] \in {"delete", "remove"} => answer'[p] = 204)
      /\ \A q \in Requests : q # p => answer'[q] = answer[q]
  BY CommitMoves
<1>2. \A d \in gone[p] : d[1] \in {"work", "subtask"} =>
         \/ \E i \in new[p] : Key(i) = Key(d)
         \/ kind[p] = "remove" /\ d[1] = "work" /\ d[2] = Old
  BY <1>1, Committing DEF Inv
<1>3. WorkOutlivesTask
  BY DEF Inv
<1>4. ASSUME NEW q \in Requests, kind[q] \in {"record", "subtask"}, answer'[q] = 201
      PROVE  \E r \in db' : Key(r) = <<IF kind[q] = "record" THEN "work" ELSE "subtask", q>>
  <2>1. CASE q = p
    <3>1. \/ kind[p] = "record" /\ <<"work", p, Task>> \in new[p]
          \/ kind[p] = "subtask" /\ <<"subtask", p, Task>> \in new[p]
      BY <1>1, <1>4, <2>1 DEF Inv, Held, SmallHeld
    <3> QED
      BY <1>1, <1>4, <2>1, <3>1 DEF Key
  <2>2. CASE q # p
    <3>1. PICK d \in db : Key(d) = <<IF kind[q] = "record" THEN "work" ELSE "subtask", q>>
      BY <1>1, <1>3, <1>4, <2>2 DEF WorkOutlivesTask
    <3>2. d[1] \in {"work", "subtask"} /\ d[2] = q
      BY <3>1 DEF Key
    <3>3. d \in gone[p] => \E i \in new[p] : Key(i) = Key(d)
      BY <1>2, <3>2, DistinctAssumption
    <3> QED
      BY <1>1, <3>1, <3>3
  <2> QED
    BY <2>1, <2>2
<1>5. \/ \E r \in db' : Key(r) = <<"work", Old>>
      \/ \E q \in Requests : kind[q] = "remove" /\ answer'[q] = 204
  <2>1. CASE \E r \in db : Key(r) = <<"work", Old>>
    <3>1. PICK d \in db : Key(d) = <<"work", Old>>
      BY <2>1
    <3>2. d[1] = "work"
      BY <3>1 DEF Key
    <3> QED
      BY <1>1, <1>2, <3>1, <3>2
  <2>2. CASE \E q \in Requests : kind[q] = "remove" /\ answer[q] = 204
    BY <1>1, <2>2
  <2> QED
    BY <1>3, <2>1, <2>2 DEF WorkOutlivesTask
<1> QED
  BY <1>1, <1>4, <1>5 DEF WorkOutlivesTask, Key

LEMMA CommitKeeps ==
    ASSUME Inv, NEW p \in Requests, Commit(p)
    PROVE  Inv'
<1>1. ASSUME NEW q \in Requests
      PROVE  Held(q)'
  BY CommitMoves DEF Inv, Held, SmallHeld, DeleteHeld, EditHeld, RemoveHeld
<1>2. Answers'
  BY CommitMoves DEF Inv, Answers
<1> QED
  BY <1>1, <1>2, CommitMoves, CommitKeys, CommitForeignKeys, CommitCredits, CommitKeepsWork
     DEF Inv

-----------------------------------------------------------------------------

LEMMA InitHolds == Init => Inv
<1> SUFFICES ASSUME Init
             PROVE  Inv
  OBVIOUS
<1>1. db = {TaskRow, <<"work", Old, Task>>, <<"block", Old, None>>}
              \union {<<table, u, Old>> : table \in Lists, u \in Users}
  BY DEF Init
<1>2. \A r \in db : \/ r = TaskRow \/ r = <<"work", Old, Task>> \/ r = <<"block", Old, None>>
                    \/ \E u \in Users : r = <<"credit", u, Old>> \/ r = <<"shown", u, Old>>
  BY <1>1 DEF Lists
<1>3. \A p \in Requests :
         /\ at[p] = "start" /\ seen[p] = {} /\ gone[p] = {} /\ new[p] = {} /\ answer[p] = None
  BY DEF Init
<1>4. Types
  <2>1. db \subseteq RowSet
    BY <1>1 DEF RowSet
  <2>2. list \in [Requests -> SUBSET Users]
    BY DEF Init
  <2>3. kind \in [Requests -> Kinds] /\ first \in [Requests -> Lists]
    BY DEF Init
  <2>4. at \in [Requests -> Stages] /\ answer \in [Requests -> Codes \union {None}]
    BY DEF Init, Stages
  <2>5. /\ seen \in [Requests -> SUBSET (Requests \union RowSet)]
        /\ gone \in [Requests -> SUBSET RowSet] /\ new \in [Requests -> SUBSET RowSet]
    BY DEF Init
  <2> QED
    BY <2>1, <2>2, <2>3, <2>4, <2>5 DEF Types
<1>5. ASSUME NEW p \in Requests
      PROVE  Held(p)
  BY <1>3 DEF Held, SmallHeld, DeleteHeld, EditHeld, RemoveHeld
<1>6. Locks
  BY <1>3 DEF Locks
<1>7. Keys
  <2>1. ASSUME NEW r \in db, NEW s \in db, Key(r) = Key(s)
        PROVE  r = s
    <3>1. r[1] = s[1] /\ r[2] = s[2]
      BY <2>1, KeyFacts
    <3> QED
      BY <1>2, <3>1 DEF TaskRow
  <2> QED
    BY <1>3, <2>1 DEF Keys
<1>8. /\ TaskRow \in db /\ <<"work", Old, Task>> \in db /\ <<"block", Old, None>> \in db
      /\ \A u \in Users : <<"credit", u, Old>> \in db
  BY <1>1 DEF Lists
<1>9. NothingDangles
  <2> SUFFICES ASSUME NEW r \in db, HasKey(r)
               PROVE  Refers(r, db)
    BY NothingDanglesIs
  <2>1. CASE r = TaskRow \/ r = <<"block", Old, None>>
    BY <2>1 DEF HasKey, TaskRow, Lists
  <2>2. CASE r = <<"work", Old, Task>>
    BY <1>8, <2>2 DEF Refers, Parent, Key, TaskRow
  <2>3. CASE \E u \in Users : r = <<"credit", u, Old>>
    BY <1>8, <2>3 DEF Refers, Parent, Key
  <2>4. CASE \E u \in Users : r = <<"shown", u, Old>>
    BY <1>8, <2>4 DEF Refers, Parent, Key
  <2> QED
    BY <1>2, <2>1, <2>2, <2>3, <2>4
<1>10. ForeignKeys
  BY <1>3, <1>9 DEF ForeignKeys
<1>11. ShownIsCredited
  <2> SUFFICES ASSUME NEW r \in db, r[1] = "shown"
               PROVE  \E s \in Rows("credit") : s[2] = r[2]
    BY DEF ShownIsCredited, Rows
  <2>1. PICK u \in Users : r = <<"shown", u, Old>>
    BY <1>2 DEF TaskRow
  <2>2. <<"credit", u, Old>> \in Rows("credit")
    BY <1>8 DEF Rows
  <2> QED
    BY <2>1, <2>2
<1>12. Credits
  BY <1>3, <1>11 DEF Credits
<1>13. Answers
  BY <1>3 DEF Answers
<1>14. WorkOutlivesTask
  <2>1. \E r \in db : Key(r) = <<"work", Old>>
    BY <1>8 DEF Key
  <2>2. None # 201
    BY DistinctAssumption DEF Codes
  <2> QED
    BY <1>3, <2>1, <2>2 DEF WorkOutlivesTask
<1> QED
  BY <1>4, <1>5, <1>6, <1>7, <1>10, <1>12, <1>13, <1>14 DEF Inv

LEMMA StepKeeps ==
    ASSUME Inv, [Next]_vars
    PROVE  Inv'
<1>1. CASE UNCHANGED vars
  <2>1. /\ db' = db /\ kind' = kind /\ list' = list /\ first' = first /\ at' = at
        /\ seen' = seen /\ gone' = gone /\ new' = new /\ answer' = answer
    BY <1>1 DEF vars
  <2>2. Types'
    BY <2>1 DEF Inv, Types
  <2>3. \A p \in Requests : Held(p)'
    BY <2>1 DEF Inv, Held, SmallHeld, DeleteHeld, EditHeld, RemoveHeld
  <2>4. Locks' /\ Keys'
    BY <2>1 DEF Inv, Locks, Keys, Key
  <2>5. ForeignKeys'
    <3>1. \A q \in Requests : Removing(q)' = Removing(q)
      BY <2>1 DEF Removing, Key
    <3> QED
      BY <2>1, <3>1, ForeignKeysKept DEF Inv
  <2>6. Credits'
    BY <2>1 DEF Inv, Credits, ShownIsCredited, Takes, Rows
  <2>7. Answers' /\ WorkOutlivesTask'
    BY <2>1 DEF Inv, Answers, WorkOutlivesTask, Key
  <2> QED
    BY <2>2, <2>3, <2>4, <2>5, <2>6, <2>7 DEF Inv
<1>2. ASSUME NEW p \in Requests, Find(p)
      PROVE  Inv'
  <2>1. at[p] # "done"
    BY <1>2 DEF Find
  <2>2. CASE Refuse(p, 404) \/ Refuse(p, 409)
    BY <2>1, <2>2, RefuseKeeps
  <2>3. CASE ~(Refuse(p, 404) \/ Refuse(p, 409))
    BY <1>2, <2>3, FindKeeps DEF Find
  <2> QED
    BY <2>2, <2>3
<1>3. ASSUME NEW p \in Requests, NEW s \in Statements(p)
      PROVE  s.from # "done"
  BY <1>3, KindsAssumption DEF Inv, Types, Statements, Schedule, Subtask, Record,
     DeleteTask, EditWork, RemoveWork, St
<1>4. ASSUME NEW p \in Requests, Execute(p)
      PROVE  Inv'
  <2>1. PICK s \in Statements(p) :
           /\ at[p] = s.from
           /\ Blockers(p, s) = {}
           /\ \/ Breaks(p, s) /\ Refuse(p, 500)
              \/ /\ ~Breaks(p, s)
                 /\ at' = [at EXCEPT ![p] = s.to]
                 /\ gone' = [gone EXCEPT ![p] = @ \union (s.del \cap db)]
                 /\ new' = [new EXCEPT ![p] = @ \union s.ins]
                 /\ seen' = [seen EXCEPT ![p] =
                                IF s.to = "relisted" THEN Rows(EditOrder[2]) ELSE @]
                 /\ UNCHANGED <<db, request, answer>>
    BY <1>4 DEF Execute
  <2>2. at[p] # "done"
    BY <1>3, <2>1
  <2>3. CASE Refuse(p, 500)
    BY <2>2, <2>3, RefuseKeeps
  <2>4. CASE ~Refuse(p, 500)
    <3>1. Run(p, s)
      BY <2>1, <2>4 DEF Run
    <3> QED
      BY <3>1, RunKeeps
  <2> QED
    BY <2>3, <2>4
<1>5. ASSUME NEW p \in Requests, Commit(p)
      PROVE  Inv'
  BY <1>5, CommitKeeps
<1>6. ASSUME NEW p \in Requests, Deadlocked(p)
      PROVE  Inv'
  <2>1. PICK q \in WaitsFor(p) : TRUE
    BY <1>6 DEF Deadlocked, InCycle
  <2>2. \E s \in Statements(p) : s.from = at[p]
    BY <2>1 DEF WaitsFor
  <2>3. at[p] # "done"
    BY <1>3, <2>2
  <2> QED
    BY <1>6, <2>3, RefuseKeeps DEF Deadlocked
<1> QED
  BY <1>1, <1>2, <1>4, <1>5, <1>6 DEF Next, Step

LEMMA Invariance == Spec => []Inv
  BY InitHolds, StepKeeps, PTL DEF Spec

(* Types; no two committed rows have one key; only an open transaction     *)
(* holds deleted and inserted rows.                                        *)
THEOREM TypeCorrect == Spec => []TypeOK
<1>1. Inv => TypeOK
  BY DEF Inv, Types, TypeOK, Held, Answers, Keys
<1> QED
  BY <1>1, Invariance, PTL

(* However the requests interleave, no committed row refers to a row that  *)
(* is gone: the waits for a pending insertion or removal of the row a      *)
(* foreign key refers to are enough, since a transaction only inserts      *)
(* references to committed rows, and what it removes at its commit was     *)
(* referred to by nothing it leaves.                                       *)
THEOREM ReferencesHold == Spec => []NothingDangles
<1>1. Inv => NothingDangles
  BY DEF Inv, ForeignKeys
<1> QED
  BY <1>1, Invariance, PTL

(* A deletion of the task never takes along work or subtasks that a 201    *)
(* has acknowledged, whenever in the deletion they were committed.         *)
THEOREM WorkIsKept == Spec => []WorkOutlivesTask
<1>1. Inv => WorkOutlivesTask
  BY DEF Inv
<1> QED
  BY <1>1, Invariance, PTL

(* Concurrent edits and removals of one record never leave somebody shown  *)
(* who is not credited.  An edit lists what is shown after it has inserted *)
(* its credits, so that whoever's credit it deleted is on that list.       *)
THEOREM CreditsCover == Spec => []ShownIsCredited
<1>1. Inv => ShownIsCredited
  BY DEF Inv, Credits
<1> QED
  BY <1>1, Invariance, PTL
=============================================================================
