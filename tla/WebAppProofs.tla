---------------------------- MODULE WebAppProofs ----------------------------
(***************************************************************************)
(* Proofs about WebApp for any weeks, items, loads and presses.            *)
(***************************************************************************)
EXTENDS WebApp, TLAPS

-----------------------------------------------------------------------------

LoadStates == {"unsent", "sent", "found", "done"}

PressStates == {"unused", "first", "second", "saved", "failed", "lost"}

WriteStates == {"unsent", "sent", "refused", "applied"}

Types ==
    /\ week \in Weeks
    /\ load \in [Loads -> [state : LoadStates, week : Weeks, found : SUBSET Items]]
    /\ place \in [Items -> Weeks]
    /\ editing \in Items \union {Nothing}
    /\ \A e \in grid.items : e[1] \in Items
    /\ press \in [Presses -> [state : PressStates, item : Items \union {Nothing}, week : Weeks]]
    /\ write \in [Writes -> WriteStates]
    /\ target \in [Writes -> Items \union {Nothing}]

(* What is under way for press k: a write is about the item that was open, *)
(* the second follows an applied first one of an edit, and the state of    *)
(* the press bounds how far its writes are.                                *)
PressInv(k) ==
    LET one == write[<<k, 1>>]
        two == write[<<k, 2>>]
    IN /\ \A n \in {1, 2} : write[<<k, n>>] # "unsent" => target[<<k, n>>] = press[k].item
       /\ two # "unsent" => one = "applied" /\ press[k].item # Nothing
       /\ press[k].state = "unused" => one = "unsent"
       /\ press[k].state = "first" => two = "unsent"
       /\ press[k].state = "saved" =>
             one = "applied" /\ (press[k].item # Nothing => two = "applied")
       /\ press[k].state = "failed" =>
             (one = "refused" /\ two = "unsent") \/ (one = "applied" /\ two = "refused")

Inv == Types /\ \A k \in Presses : PressInv(k)

LEMMA Pairs ==
    /\ \A k \in Presses : <<k, 1>> \in Writes /\ <<k, 2>> \in Writes
    /\ \A r \in Writes : r = <<r[1], r[2]>> /\ r[1] \in Presses /\ r[2] \in {1, 2}
  BY DEF Writes

LEMMA InvInit == Init => Inv
<1> SUFFICES ASSUME Init PROVE Inv
  OBVIOUS
<1>1. Types
  BY DEF Init, Types, LoadStates, PressStates, WriteStates
<1>2. ASSUME NEW k \in Presses PROVE PressInv(k)
  BY Pairs DEF Init, PressInv
<1> QED
  BY <1>1, <1>2 DEF Inv

-----------------------------------------------------------------------------

(* The loads.                                                              *)

LEMMA LoadMoves ==
    ASSUME Types, NEW n \in Loads, NEW s \in LoadStates, NEW F \in SUBSET Items,
           load' = [load EXCEPT ![n] = [@ EXCEPT !.state = s, !.found = F]]
    PROVE  load' \in [Loads -> [state : LoadStates, week : Weeks, found : SUBSET Items]]
<1>1. load[n] \in [state : LoadStates, week : Weeks, found : SUBSET Items]
  BY DEF Types
<1>2. [load[n] EXCEPT !.state = s, !.found = F]
        \in [state : LoadStates, week : Weeks, found : SUBSET Items]
  BY <1>1
<1> QED
  BY <1>2 DEF Types

LEMMA LoadSent ==
    ASSUME Types, NEW n \in Loads, NEW w \in Weeks,
           load' = [load EXCEPT ![n] = [@ EXCEPT !.state = "sent", !.week = w]]
    PROVE  load' \in [Loads -> [state : LoadStates, week : Weeks, found : SUBSET Items]]
<1>1. "sent" \in LoadStates
  BY DEF LoadStates
<1>2. load[n] \in [state : LoadStates, week : Weeks, found : SUBSET Items]
  BY DEF Types
<1>3. [load[n] EXCEPT !.state = "sent", !.week = w]
        \in [state : LoadStates, week : Weeks, found : SUBSET Items]
  BY <1>1, <1>2
<1> QED
  BY <1>3 DEF Types

LEMMA LoadAllTypes ==
    ASSUME Types, NEW w \in Weeks, LoadAll(w)
    PROVE  load' \in [Loads -> [state : LoadStates, week : Weeks, found : SUBSET Items]]
<1>1. CASE UNCHANGED load
  BY <1>1 DEF Types
<1> QED
  BY <1>1, LoadSent DEF LoadAll

LEMMA DrawnTypes ==
    ASSUME Types, NEW n \in Loads
    PROVE  \A e \in Drawn(n) : e[1] \in Items /\ e[2] = week
<1>1. load[n].found \subseteq Items
  BY DEF Types
<1> QED
  BY <1>1 DEF Drawn, Found

(* Steps that leave the presses and their writes alone.                    *)
LEMMA PageStep ==
    ASSUME Inv,
           \/ \E n \in Loads : FindItems(n) \/ ShowLoad(n) \/ LoadFails(n)
           \/ \E w \in Weeks : Go(w)
           \/ SignOut \/ SignIn
           \/ \E item \in Items \union {Nothing} : Open(item)
           \/ Close
    PROVE  Inv'
<1> USE DEF Inv
<1>1. UNCHANGED <<place, press, write, target>>
  BY DEF FindItems, ShowLoad, LoadFails, Go, SignOut, SignIn, Open, Close
<1>2. ASSUME NEW k \in Presses PROVE PressInv(k)'
  BY <1>1 DEF PressInv
<1>3. Types'
  <2>1. ASSUME NEW n \in Loads, FindItems(n) PROVE Types'
    <3>1. {i \in Items : place[i] = load[n].week} \in SUBSET Items /\ "found" \in LoadStates
      BY DEF LoadStates
    <3>2. load' \in [Loads -> [state : LoadStates, week : Weeks, found : SUBSET Items]]
      BY <2>1, <3>1, LoadMoves DEF FindItems
    <3> QED
      BY <1>1, <2>1, <3>2 DEF FindItems, Types, page
  <2>2. ASSUME NEW n \in Loads, ShowLoad(n) \/ LoadFails(n) PROVE Types'
    <3>1. {} \in SUBSET Items /\ "done" \in LoadStates
      BY DEF LoadStates
    <3>2. load' \in [Loads -> [state : LoadStates, week : Weeks, found : SUBSET Items]]
      BY <2>2, <3>1, LoadMoves DEF ShowLoad, LoadFails
    <3>3. \A e \in grid'.items : e[1] \in Items
      <4>1. CASE ShowLoad(n)
        <5>1. grid'.items = Drawn(n)
          BY <4>1 DEF ShowLoad
        <5> QED
          BY <5>1, DrawnTypes
      <4>2. CASE LoadFails(n)
        BY <4>2 DEF LoadFails, Types
      <4> QED
        BY <2>2, <4>1, <4>2
    <3> QED
      BY <1>1, <2>2, <3>2, <3>3 DEF ShowLoad, LoadFails, Types
  <2>3. ASSUME NEW w \in Weeks, Go(w) PROVE Types'
    BY <1>1, <2>3, LoadAllTypes DEF Go, Types
  <2>4. CASE SignOut
    BY <1>1, <2>4 DEF SignOut, Types
  <2>5. CASE SignIn
    <3>1. week \in Weeks
      BY DEF Types
    <3>2. load' \in [Loads -> [state : LoadStates, week : Weeks, found : SUBSET Items]]
      BY <2>5, <3>1, LoadSent DEF SignIn
    <3> QED
      BY <1>1, <2>5, <3>2 DEF SignIn, Types
  <2>6. ASSUME NEW item \in Items \union {Nothing}, Open(item) PROVE Types'
    BY <1>1, <2>6 DEF Open, Types
  <2>7. CASE Close
    BY <1>1, <2>7 DEF Close, Types
  <2> QED
    BY <2>1, <2>2, <2>3, <2>4, <2>5, <2>6, <2>7
<1> QED
  BY <1>2, <1>3

-----------------------------------------------------------------------------

(* The saves.  Another press keeps its state and its writes.               *)
LEMMA OtherPress ==
    ASSUME Inv, NEW k \in Presses, NEW j \in Presses,
           press'[j] = press[j],
           \A n \in {1, 2} : write'[<<j, n>>] = write[<<j, n>>] /\ target'[<<j, n>>] = target[<<j, n>>]
    PROVE  PressInv(j)'
  BY DEF Inv, PressInv

(* An update of one write, or of one press, leaves the others.             *)
LEMMA WriteMoves ==
    ASSUME Inv, NEW r \in Writes, NEW s \in WriteStates, write' = [write EXCEPT ![r] = s]
    PROVE  /\ write' \in [Writes -> WriteStates]
           /\ \A q \in Writes : write'[q] = IF q = r THEN s ELSE write[q]
  BY DEF Inv, Types

LEMMA PressMoves ==
    ASSUME Inv, NEW k \in Presses, NEW s \in PressStates, press' = [press EXCEPT ![k].state = s]
    PROVE  /\ press' \in [Presses -> [state : PressStates, item : Items \union {Nothing},
                                      week : Weeks]]
           /\ \A j \in Presses : j # k => press'[j] = press[j]
           /\ press'[k].state = s /\ press'[k].item = press[k].item
           /\ press'[k].week = press[k].week
  BY DEF Inv, Types

LEMMA SaveStep ==
    ASSUME Inv, NEW k \in Presses, NEW w \in Weeks, Save(k, w)
    PROVE  Inv'
<1> DEFINE row == [state |-> "first", item |-> editing, week |-> w]
<1>1. row \in [state : PressStates, item : Items \union {Nothing}, week : Weeks]
  BY DEF Inv, Types, PressStates
<1>2. /\ \A j \in Presses : press'[j] = IF j = k THEN row ELSE press[j]
      /\ press' \in [Presses -> [state : PressStates, item : Items \union {Nothing},
                                 week : Weeks]]
  BY <1>1 DEF Save, Inv, Types
<1>3. /\ write' \in [Writes -> WriteStates]
      /\ \A q \in Writes : write'[q] = IF q = <<k, 1>> THEN "sent" ELSE write[q]
  BY Pairs, WriteMoves DEF Save, WriteStates
<1>4. /\ target' \in [Writes -> Items \union {Nothing}]
      /\ \A q \in Writes : target'[q] = IF q = <<k, 1>> THEN editing ELSE target[q]
  BY Pairs DEF Save, Inv, Types
<1>5. Types'
  BY <1>2, <1>3, <1>4 DEF Save, Inv, Types, page
<1>6. PressInv(k)'
  <2>1. write[<<k, 2>>] = "unsent"
    BY DEF Save, Inv, PressInv
  <2>2. /\ write'[<<k, 1>>] = "sent" /\ target'[<<k, 1>>] = editing
        /\ write'[<<k, 2>>] = "unsent"
    BY <1>3, <1>4, <2>1, Pairs
  <2>3. press'[k].state = "first" /\ press'[k].item = editing
    BY <1>2
  <2> QED
    BY <2>2, <2>3 DEF PressInv
<1>7. ASSUME NEW j \in Presses, j # k PROVE PressInv(j)'
  BY <1>2, <1>3, <1>4, <1>7, Pairs, OtherPress
<1> QED
  BY <1>5, <1>6, <1>7 DEF Inv

LEMMA ExecuteStep ==
    ASSUME Inv, NEW r \in Writes, Execute(r)
    PROVE  Inv'
<1> DEFINE k == r[1]
<1>1. k \in Presses /\ r[2] \in {1, 2} /\ r = <<k, r[2]>> /\ PressInv(k)
  BY Pairs DEF Inv
<1>2. PICK s \in {"refused", "applied"} : write' = [write EXCEPT ![r] = s]
  BY DEF Execute
<1>3. /\ write' \in [Writes -> WriteStates]
      /\ \A q \in Writes : write'[q] = IF q = r THEN s ELSE write[q]
  BY <1>2, WriteMoves DEF WriteStates
<1>4. place' \in [Items -> Weeks]
  <2>1. r[2] = 2 => target[r] \in Items
    BY <1>1 DEF Execute, PressInv, Inv, Types
  <2>2. press[k].week \in Weeks
    BY <1>1 DEF Inv, Types
  <2> QED
    BY <2>1, <2>2 DEF Execute, Inv, Types
<1>5. Types'
  BY <1>3, <1>4 DEF Execute, Inv, Types, page
<1>6. press' = press /\ target' = target
  BY DEF Execute
<1>7. PressInv(k)'
  BY <1>1, <1>3, <1>6, Pairs DEF PressInv, Execute
<1>8. ASSUME NEW j \in Presses, j # k PROVE PressInv(j)'
  <2>1. <<j, 1>> # r /\ <<j, 2>> # r
    BY <1>1, <1>8
  <2> QED
    BY <1>3, <1>6, <2>1, Pairs, OtherPress
<1> QED
  BY <1>5, <1>7, <1>8 DEF Inv

LEMMA SendSecondStep ==
    ASSUME Inv, NEW k \in Presses, SendSecond(k)
    PROVE  Inv'
<1>1. PICK s \in {"sent", "refused"} : write' = [write EXCEPT ![<<k, 2>>] = s]
  BY DEF SendSecond
<1>2. /\ write' \in [Writes -> WriteStates]
      /\ \A q \in Writes : write'[q] = IF q = <<k, 2>> THEN s ELSE write[q]
  BY <1>1, Pairs, WriteMoves DEF WriteStates
<1>3. /\ target' \in [Writes -> Items \union {Nothing}]
      /\ \A q \in Writes : target'[q] = IF q = <<k, 2>> THEN press[k].item ELSE target[q]
  BY Pairs DEF SendSecond, Subject, Inv, Types
<1>4. /\ press' \in [Presses -> [state : PressStates, item : Items \union {Nothing},
                                 week : Weeks]]
      /\ \A j \in Presses : j # k => press'[j] = press[j]
      /\ press'[k].state = "second" /\ press'[k].item = press[k].item
  BY PressMoves DEF SendSecond, PressStates
<1>5. Types'
  BY <1>2, <1>3, <1>4 DEF SendSecond, Inv, Types, page
<1>6. PressInv(k)'
  <2>1. write[<<k, 1>>] = "applied" /\ press[k].item # Nothing
    BY DEF SendSecond, Last
  <2>2. target[<<k, 1>>] = press[k].item
    BY <2>1 DEF Inv, PressInv
  <2>3. /\ write'[<<k, 1>>] = "applied" /\ target'[<<k, 1>>] = press[k].item
        /\ write'[<<k, 2>>] = s /\ target'[<<k, 2>>] = press[k].item
    BY <1>2, <1>3, <2>1, <2>2, Pairs
  <2> QED
    BY <1>4, <2>1, <2>3 DEF PressInv
<1>7. ASSUME NEW j \in Presses, j # k PROVE PressInv(j)'
  BY <1>2, <1>3, <1>4, <1>7, Pairs, OtherPress
<1> QED
  BY <1>5, <1>6, <1>7 DEF Inv

(* A save ends, one way or another.                                        *)
LEMMA EndStep ==
    ASSUME Inv, NEW k \in Presses, Saved(k) \/ Failed(k) \/ Lost(k)
    PROVE  Inv'
<1>1. PICK s \in {"saved", "failed", "lost"} : press' = [press EXCEPT ![k].state = s]
  BY DEF Saved, Failed, Lost
<1>2. /\ press' \in [Presses -> [state : PressStates, item : Items \union {Nothing},
                                 week : Weeks]]
      /\ \A j \in Presses : j # k => press'[j] = press[j]
      /\ press'[k].state = s /\ press'[k].item = press[k].item
  BY <1>1, PressMoves DEF PressStates
<1>3. UNCHANGED <<grid, place, write, target>>
  BY DEF Saved, Failed, Lost, page
<1>4. Types'
  <2>1. press[k].week \in Weeks
    BY DEF Inv, Types
  <2>2. CASE Saved(k)
    BY <1>2, <1>3, <2>1, <2>2, LoadAllTypes DEF Saved, Inv, Types
  <2>3. CASE Failed(k) \/ Lost(k)
    BY <1>2, <1>3, <2>3 DEF Failed, Lost, Inv, Types, page
  <2> QED
    BY <2>2, <2>3
<1>5. PressInv(k)'
  <2>0. PressInv(k)
    BY DEF Inv
  <2>1. CASE Saved(k)
    <3>1. press'[k].state = "saved"
      BY <2>1, PressMoves DEF Saved, PressStates
    <3> QED
      BY <1>2, <1>3, <2>0, <2>1, <3>1 DEF Saved, Busy, Current, Last, PressInv
  <2>2. CASE Failed(k)
    <3>1. press'[k].state = "failed"
      BY <2>2, PressMoves DEF Failed, PressStates
    <3> QED
      BY <1>2, <1>3, <2>0, <2>2, <3>1 DEF Failed, Busy, Current, PressInv
  <2>3. CASE Lost(k)
    <3>1. press'[k].state = "lost"
      BY <2>3, PressMoves DEF Lost, PressStates
    <3> QED
      BY <1>2, <1>3, <2>0, <3>1 DEF PressInv
  <2> QED
    BY <2>1, <2>2, <2>3
<1>6. ASSUME NEW j \in Presses, j # k PROVE PressInv(j)'
  BY <1>2, <1>3, <1>6, OtherPress
<1> QED
  BY <1>4, <1>5, <1>6 DEF Inv

LEMMA InvHolds == Spec => []Inv
<1>1. Inv /\ [Next]_vars => Inv'
  <2>1. CASE UNCHANGED vars
    BY <2>1 DEF vars, page, Inv, Types, PressInv
  <2> QED
    BY <2>1, PageStep, SaveStep, ExecuteStep, SendSecondStep, EndStep DEF Next
<1> QED
  BY <1>1, InvInit, PTL DEF Spec

-----------------------------------------------------------------------------

(* The page and the writes of its saves stay well typed; in particular a   *)
(* second PATCH is always about an item, never about new work              *)
(* (app.js 553-576).                                                       *)
THEOREM TypesHold == Spec => []Types
<1>1. Inv => Types
  BY DEF Inv
<1> QED
  BY <1>1, InvHolds, PTL

(* What the page says of a save is true (app.js 553-576).                  *)
THEOREM SavesTellFate == Spec => []SaveTellsFate
<1>1. Inv => SaveTellsFate
  <2> SUFFICES ASSUME Inv, NEW k \in Presses
               PROVE  LET done == {n \in {1, 2} : write[<<k, n>>] = "applied"}
                      IN /\ press[k].state = "saved" => done = 1 .. Last(press[k].item)
                         /\ press[k].state = "failed" =>
                               /\ done = {} \/ (done = {1} /\ press[k].item # Nothing)
                               /\ \A n \in {1, 2} : write[<<k, n>>] # "sent"
                         /\ 2 \in done => 1 \in done
                         /\ \A n \in done : target[<<k, n>>] = press[k].item
    BY DEF SaveTellsFate
  <2>1. PressInv(k)
    BY DEF Inv
  <2>2. 1 .. 1 = {1} /\ 1 .. 2 = {1, 2}
    OBVIOUS
  <2> QED
    BY <2>1, <2>2 DEF PressInv, Last
<1> QED
  BY <1>1, InvHolds, PTL

(* Under the title of a week there is never an item of another one, in     *)
(* whatever order answers arrive (app.js 150-156, 196-207).                *)
THEOREM GridIsOfItsWeek == Spec => []GridShowsItsWeek
<1>1. Init => GridShowsItsWeek
  BY DEF Init, GridShowsItsWeek
<1>2. Inv /\ GridShowsItsWeek /\ [Next]_vars => GridShowsItsWeek'
  <2> SUFFICES ASSUME Inv, GridShowsItsWeek, [Next]_vars PROVE GridShowsItsWeek'
    OBVIOUS
  <2>1. CASE UNCHANGED grid
    BY <2>1 DEF GridShowsItsWeek
  <2>2. ASSUME NEW n \in Loads, ShowLoad(n) PROVE GridShowsItsWeek'
    <3>1. grid' = [week |-> week, items |-> Drawn(n)]
      BY <2>2 DEF ShowLoad
    <3>2. \A e \in Drawn(n) : e[2] = week
      BY DrawnTypes DEF Inv
    <3> QED
      BY <3>1, <3>2 DEF GridShowsItsWeek
  <2> QED
    BY <2>1, <2>2 DEF Next, vars, page, FindItems, LoadFails, Go, Save, SignOut, SignIn,
                     Open, Close, Execute, SendSecond, Saved, Failed, Lost
<1> QED
  BY <1>1, <1>2, InvHolds, PTL DEF Spec
=============================================================================
