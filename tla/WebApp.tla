------------------------------- MODULE WebApp -------------------------------
(***************************************************************************)
(* The page (web/app.js): loads of a week that overlap, the form that      *)
(* creates work or edits a planned item, and signing out meanwhile.        *)
(*                                                                         *)
(* The page is one thread: an action is what runs between two awaits.  The *)
(* API answers or not, in any order.  A load stands for its three requests *)
(* and is told apart by its calendar range.  An edit of a planned item     *)
(* sends two PATCHes, for its task and then for its time block; new work   *)
(* is one POST.  While a dialog is open the page behind it is inert, but a *)
(* dialog may be closed while its form is being saved.                     *)
(***************************************************************************)
EXTENDS Naturals, FiniteSets

CONSTANTS
    Weeks,      \* weeks the calendar can show
    Items,      \* planned items
    Nothing,    \* no item: the form creates work
    Loads,      \* loads that can be started
    Presses     \* presses of the Save button

ASSUME DistinctAssumption == Nothing \notin Items

VARIABLES
    signedIn,   \* whether state.accessToken is set
    week,       \* state.weekStart
    view,       \* "connect" or "app"
    grid,       \* the week the calendar is headed with, and <<item, its week>> drawn
    load,       \* load[n]: its state, the week it asks for, what it found
    place,      \* place[i]: the week of item i, in the database
    form,       \* whether the form is open
    editing,    \* state.editingCalendarItem
    press,      \* press[k]: its state, the item it saves, the week asked for
    write,      \* write[<<k, n>>]: what became of the n-th write of press k
    target      \* target[<<k, n>>]: the item that write is about

page == <<signedIn, week, view, grid, form, editing>>
vars == <<page, load, place, press, write, target>>

-----------------------------------------------------------------------------

Writes == Presses \X {1, 2}

(* The last write of a save: new work is one request, an edit is two.      *)
Last(item) == IF item = Nothing THEN 1 ELSE 2

Init ==
    /\ signedIn = TRUE /\ view = "app"
    /\ week \in Weeks
    /\ place \in [Items -> Weeks]
    /\ grid = [week |-> week, items |-> {<<i, week>> : i \in {j \in Items : place[j] = week}}]
    /\ load = [n \in Loads |-> [state |-> "unsent", week |-> week, found |-> {}]]
    /\ form = FALSE /\ editing = Nothing
    /\ press = [k \in Presses |-> [state |-> "unused", item |-> Nothing, week |-> week]]
    /\ write = [r \in Writes |-> "unsent"]
    /\ target = [r \in Writes |-> Nothing]

-----------------------------------------------------------------------------

(* loadAll.  Signed out it shows the connection page and asks for nothing. *)
LoadAll(w) ==
    \/ ~signedIn /\ view' = "connect" /\ UNCHANGED load
    \/ /\ signedIn
       /\ \E n \in Loads :
             /\ load[n].state = "unsent"
             /\ load' = [load EXCEPT ![n] = [@ EXCEPT !.state = "sent", !.week = w]]
       /\ UNCHANGED view

(* list_calendar_items, at some moment while the load is under way.        *)
FindItems(n) ==
    /\ load[n].state = "sent"
    /\ load' = [load EXCEPT ![n] = [@ EXCEPT !.state = "found",
                     !.found = {i \in Items : place[i] = load[n].week}]]
    /\ UNCHANGED <<page, place, press, write, target>>

Found(n) == {<<i, load[n].week>> : i \in load[n].found}

(* Mutant of Drawn: everything the answer holds is drawn.                  *)
DrawnAll(n) == Found(n)

(* renderCalendar draws, day by day, what lies in the week of the title.   *)
Drawn(n) == {e \in Found(n) : e[2] = week}

(* The answers arrive: the page is shown, whatever happened meanwhile.     *)
ShowLoad(n) ==
    /\ load[n].state = "found"
    /\ load' = [load EXCEPT ![n] = [@ EXCEPT !.state = "done", !.found = {}]]
    /\ grid' = [week |-> week, items |-> Drawn(n)]
    /\ view' = "app"
    /\ UNCHANGED <<signedIn, week, form, editing, place, press, write, target>>

(* One of the three requests fails.                                        *)
LoadFails(n) ==
    /\ load[n].state \in {"sent", "found"}
    /\ load' = [load EXCEPT ![n] = [@ EXCEPT !.state = "done", !.found = {}]]
    /\ view' = "connect"
    /\ UNCHANGED <<signedIn, week, grid, form, editing, place, press, write, target>>

(* The week buttons, and the one for today, which are never disabled.      *)
Go(w) ==
    /\ view = "app" /\ ~form
    /\ week' = w
    /\ LoadAll(w)
    /\ UNCHANGED <<signedIn, grid, form, editing, place, press, write, target>>

(* signOut drops the token and forgets nothing else; the header with the   *)
(* account is always there.                                                *)
SignOut ==
    /\ signedIn /\ ~form
    /\ signedIn' = FALSE
    /\ view' = "connect"
    /\ UNCHANGED <<week, grid, form, editing, load, place, press, write, target>>

(* The same member signs in again: bootstrap ends in a load.               *)
SignIn ==
    /\ ~signedIn /\ ~form
    /\ signedIn' = TRUE
    /\ \E n \in Loads :
          /\ load[n].state = "unsent"
          /\ load' = [load EXCEPT ![n] = [@ EXCEPT !.state = "sent", !.week = week]]
    /\ UNCHANGED <<week, view, grid, form, editing, place, press, write, target>>

-----------------------------------------------------------------------------

(* The form opens for new work or for an item of the calendar.             *)
Open(item) ==
    /\ view = "app" /\ ~form
    /\ item \in {Nothing} \union {e[1] : e \in grid.items}
    /\ form' = TRUE /\ editing' = item
    /\ UNCHANGED <<signedIn, week, view, grid, load, place, press, write, target>>

Close ==
    /\ form
    /\ form' = FALSE /\ editing' = Nothing
    /\ UNCHANGED <<signedIn, week, view, grid, load, place, press, write, target>>

Busy(k) == press[k].state \in {"first", "second"}

(* The request a save waits for.                                           *)
Current(k) == IF press[k].state = "first" THEN 1 ELSE 2

(* The button is disabled until a save has ended; the item and the values  *)
(* of the form are read once.                                              *)
Save(k, w) ==
    /\ form /\ press[k].state = "unused"
    /\ \A j \in Presses : ~Busy(j)
    /\ press' = [press EXCEPT ![k] = [state |-> "first", item |-> editing, week |-> w]]
    /\ write' = [write EXCEPT ![<<k, 1>>] = "sent"]
    /\ target' = [target EXCEPT ![<<k, 1>>] = editing]
    /\ UNCHANGED <<page, load, place>>

(* The API runs a write, or refuses it, also after the page has given up.  *)
Execute(r) ==
    /\ write[r] = "sent"
    /\ \/ write' = [write EXCEPT ![r] = "refused"] /\ UNCHANGED place
       \/ /\ write' = [write EXCEPT ![r] = "applied"]
          /\ IF r[2] = 2 THEN place' = [place EXCEPT ![target[r]] = press[r[1]].week]
             ELSE UNCHANGED place
    /\ UNCHANGED <<page, load, press, target>>

(* Mutant of Subject: the second request is about the item in the form now.*)
SubjectNow(k) == IF editing # Nothing THEN editing ELSE press[k].item

Subject(k) == press[k].item

(* The first PATCH succeeded.  The second one has the token of this moment:*)
(* signed out in between, it is refused.                                   *)
SendSecond(k) ==
    /\ press[k].state = "first" /\ write[<<k, 1>>] = "applied" /\ Last(press[k].item) = 2
    /\ press' = [press EXCEPT ![k].state = "second"]
    /\ write' = [write EXCEPT ![<<k, 2>>] = IF signedIn THEN "sent" ELSE "refused"]
    /\ target' = [target EXCEPT ![<<k, 2>>] = Subject(k)]
    /\ UNCHANGED <<page, load, place>>

(* The last request succeeded: whichever form is open closes, the calendar *)
(* goes to the week of the form and loads.                                 *)
Saved(k) ==
    /\ Busy(k) /\ Current(k) = Last(press[k].item)
    /\ write[<<k, Current(k)>>] = "applied"
    /\ press' = [press EXCEPT ![k].state = "saved"]
    /\ form' = FALSE /\ editing' = Nothing
    /\ week' = press[k].week
    /\ LoadAll(press[k].week)
    /\ UNCHANGED <<signedIn, grid, place, write, target>>

(* An error of the API: it is shown in the form, and the button is enabled.*)
Failed(k) ==
    /\ Busy(k) /\ write[<<k, Current(k)>>] = "refused"
    /\ press' = [press EXCEPT ![k].state = "failed"]
    /\ UNCHANGED <<page, load, place, write, target>>

(* No answer: fetch rejects, and the form shows that too.                  *)
Lost(k) ==
    /\ Busy(k)
    /\ press' = [press EXCEPT ![k].state = "lost"]
    /\ UNCHANGED <<page, load, place, write, target>>

Next ==
    \/ \E n \in Loads : FindItems(n) \/ ShowLoad(n) \/ LoadFails(n)
    \/ \E w \in Weeks : Go(w) \/ \E k \in Presses : Save(k, w)
    \/ SignOut \/ SignIn
    \/ \E item \in Items \union {Nothing} : Open(item)
    \/ Close
    \/ \E r \in Writes : Execute(r)
    \/ \E k \in Presses : SendSecond(k) \/ Saved(k) \/ Failed(k) \/ Lost(k)

Spec == Init /\ [][Next]_vars

-----------------------------------------------------------------------------

(* What the page says of a save is true.  Saved: every write is applied,   *)
(* to the item that was open, whatever was opened since.  Failed: the      *)
(* write that failed is not applied and those after it never are, only the *)
(* task may have been changed and not its block (app.js 553-576).  Without *)
(* an answer either may be; only then can pressing Save again repeat what  *)
(* was done, the key being new (app.js 92).                                *)
SaveTellsFate ==
    \A k \in Presses :
        LET done == {n \in {1, 2} : write[<<k, n>>] = "applied"}
        IN /\ press[k].state = "saved" => done = 1 .. Last(press[k].item)
           /\ press[k].state = "failed" =>
                 /\ done = {} \/ (done = {1} /\ press[k].item # Nothing)
                 /\ \A n \in {1, 2} : write[<<k, n>>] # "sent"
           /\ 2 \in done => 1 \in done
           /\ \A n \in done : target[<<k, n>>] = press[k].item

(* Answers may arrive in any order and after the week has changed: under   *)
(* the title of a week there is never an item of another one, though there *)
(* may be none where there should be (app.js 150-156, 196-207).            *)
GridShowsItsWeek == \A e \in grid.items : e[2] = grid.week
=============================================================================
