-------------------------- MODULE WorkTimesProofs --------------------------
(***************************************************************************)
(* Proofs about WorkTimes: for all units, zones, times and manual          *)
(* durations.                                                              *)
(***************************************************************************)
EXTENDS WorkTimes, TLAPS

-----------------------------------------------------------------------------

(* Integer division, and the two ways of counting minutes.                 *)

LEMMA DivFacts ==
    ASSUME NEW x \in Int, NEW m \in Nat \ {0}
    PROVE  /\ x \div m \in Int
           /\ m * (x \div m) <= x
           /\ x < m * (x \div m) + m
  BY SMT

LEMMA ModFacts ==
    ASSUME NEW x \in Int, NEW m \in Nat \ {0}, x % m = 0
    PROVE  x = m * (x \div m)
  BY SMT

(* What fits between two multiples of m fits between their factors.        *)
LEMMA Between ==
    ASSUME NEW m \in Nat \ {0}, NEW a \in Int, NEW b \in Int, m * a < m * b + m
    PROVE  a <= b
<1>1. SUFFICES ASSUME a >= b + 1 PROVE FALSE
  OBVIOUS
<1>2. PICK d \in Nat : a = b + 1 + d
  BY <1>1
<1>3. m * a = m * b + m + m * d
  BY <1>2
<1>4. m * d >= 0
  OBVIOUS
<1> QED
  BY <1>3, <1>4

(* A second is not longer than a minute.                                   *)
LEMMA SecondFits == Second <= Minute
<1>1. Minute = Second * (Minute \div Second)
  BY UnitsAssumption, ModFacts
<1>2. Minute \div Second >= 1
  BY <1>1, UnitsAssumption, DivFacts
<1> QED
  BY <1>1, <1>2, UnitsAssumption

(* SqlMinutes rounds up.                                                   *)
LEMMA SqlRoundsUp ==
    ASSUME NEW t \in Int
    PROVE  /\ SqlMinutes(t) \in Int
           /\ t <= Minute * SqlMinutes(t)
           /\ Minute * SqlMinutes(t) < t + Minute
<1> DEFINE q == (-t) \div Minute
<1>1. q \in Int /\ Minute * q <= -t /\ -t < Minute * q + Minute
  BY UnitsAssumption, DivFacts
<1>2. SqlMinutes(t) = -q
  BY DEF SqlMinutes
<1>3. Minute * (-q) = -(Minute * q)
  BY <1>1, UnitsAssumption
<1> QED
  BY <1>1, <1>2, <1>3, UnitsAssumption

(* Something is at least a minute.                                         *)
LEMMA SqlCounts ==
    ASSUME NEW t \in Int, t > 0
    PROVE  SqlMinutes(t) >= 1
<1>1. Minute * 0 < Minute * SqlMinutes(t)
  BY SqlRoundsUp, UnitsAssumption
<1> QED
  BY <1>1, SqlRoundsUp, UnitsAssumption

LEMMA PyBounds ==
    ASSUME NEW t \in Int
    PROVE  /\ PyMinutes(t) \in Int
           /\ Minute * PyMinutes(t) <= t + Minute - Second
           /\ t + Minute - Second < Minute * PyMinutes(t) + Minute
<1> DEFINE x == t + Minute - Second
<1>1. x \in Int /\ Minute \in Nat \ {0}
  BY UnitsAssumption
<1>2. PyMinutes(t) = x \div Minute
  BY DEF PyMinutes
<1> QED
  BY <1>1, <1>2, DivFacts

(* PyMinutes is one less at most.                                          *)
LEMMA PyNearSql ==
    ASSUME NEW t \in Int
    PROVE  PyMinutes(t) \in {SqlMinutes(t), SqlMinutes(t) - 1}
<1> DEFINE c == SqlMinutes(t)
           p == PyMinutes(t)
<1>1. /\ c \in Int /\ p \in Int
      /\ t <= Minute * c /\ Minute * c < t + Minute
      /\ Minute * p <= t + Minute - Second /\ t + Minute - Second < Minute * p + Minute
  BY SqlRoundsUp, PyBounds
<1> HIDE DEF c, p
<1>2. p <= c
  <2>1. Minute * p < Minute * c + Minute
    BY <1>1, UnitsAssumption
  <2> QED
    BY <1>1, <2>1, Between, UnitsAssumption
<1>3. c - 1 <= p
  <2>1. Minute * (c - 1) = Minute * c - Minute
    BY <1>1, UnitsAssumption
  <2>2. Minute * (c - 1) < Minute * p + Minute
    BY <1>1, <2>1, SecondFits, UnitsAssumption
  <2>3. c - 1 \in Int
    BY <1>1
  <2> QED
    BY <1>1, <2>2, <2>3, Between, UnitsAssumption
<1>4. p \in {c, c - 1}
  BY <1>1, <1>2, <1>3
<1> QED
  BY <1>4 DEF c, p

LEMMA Regroup ==
    ASSUME NEW s \in Int, NEW b \in Int, NEW c \in Int
    PROVE  (s * b) * c = s * (b * c) /\ b * c \in Int
  OBVIOUS

(* For whole seconds the two agree.                                        *)
LEMMA PyIsSql ==
    ASSUME NEW t \in Int, t % Second = 0
    PROVE  PyMinutes(t) = SqlMinutes(t)
<1>1. PICK a \in Int : t = Second * a
  BY ModFacts, DivFacts, UnitsAssumption
<1>2. PICK b \in Int : Minute = Second * b
  <2>1. Minute \in Int /\ Second \in Nat \ {0} /\ Minute % Second = 0
    BY UnitsAssumption
  <2>2. Minute = Second * (Minute \div Second) /\ Minute \div Second \in Int
    BY <2>1, ModFacts, DivFacts
  <2> QED
    BY <2>2
<1> DEFINE c == SqlMinutes(t)
           p == PyMinutes(t)
<1>3. /\ c \in Int /\ p \in Int
      /\ Minute * c < t + Minute
      /\ t + Minute - Second < Minute * p + Minute
      /\ p \in {c, c - 1}
  BY SqlRoundsUp, PyBounds, PyNearSql
<1> HIDE DEF c, p
<1>4. Minute * c = Second * (b * c) /\ b * c \in Int
  <2>1. Second \in Int
    BY UnitsAssumption
  <2> QED
    BY <1>2, <1>3, <2>1, Regroup
<1>5. Second * (a + b - 1) = t + Minute - Second
  BY <1>1, <1>2, UnitsAssumption
<1>6. b * c <= a + b - 1
  <2>1. Second * (b * c) < Second * (a + b - 1) + Second
    BY <1>1, <1>3, <1>4, <1>5, UnitsAssumption
  <2>2. a + b - 1 \in Int
    OBVIOUS
  <2> QED
    BY <1>4, <2>1, <2>2, Between, UnitsAssumption
<1>7. Second * (b * c) <= Second * (a + b - 1)
  BY <1>4, <1>6, UnitsAssumption
<1>8. Minute * c < Minute * p + Minute
  BY <1>1, <1>3, <1>4, <1>5, <1>7, UnitsAssumption
<1>9. c <= p
  BY <1>3, <1>8, Between, UnitsAssumption
<1>10. p = c
  BY <1>3, <1>9
<1> QED
  BY <1>10 DEF c, p

-----------------------------------------------------------------------------

(* The invariant: a record is well typed and was stored with its answer.   *)

RowOK == row \in [start : Int, end : Int, override : Nat] /\ row.start < row.end

AnswerOK == answer # Listed(row) => asked # <<>> /\ asked[3] = zone /\ Crosses(asked)

(* What was told in the household's zone ends when that clock shows it, or *)
(* later on a clock that never does.                                       *)
ClockOK ==
    asked # <<>> /\ asked[3] = zone =>
        /\ asked[2] \in Int
        /\ Local(zone, row.end) # asked[2] =>
              Skipped(zone, asked[2]) /\ Local(zone, row.end) > asked[2]

Inv ==
    /\ zone \in Zones /\ gateway \in Zones \union LocalZones
    /\ row # NoRow => RowOK /\ AnswerOK /\ ClockOK

(* A wall clock time in a zone becomes an instant at which the clock shows *)
(* it; a skipped one an instant at which it shows a later time.            *)
LEMMA ClockKept ==
    ASSUME NEW z \in Zones \union LocalZones, NEW w \in Instants
    PROVE  /\ w \in Int /\ Abs(z, w) \in Int
           /\ Local(z, Abs(z, w)) # w => Skipped(z, w) /\ Local(z, Abs(z, w)) > w
<1>1. z.change \in Int /\ z.before \in Int /\ z.after \in Int /\ w \in Int
  BY InputsAssumption
<1>2. CASE w - z.before < z.change
  BY <1>1, <1>2 DEF Abs, Local
<1>3. CASE w - z.before >= z.change /\ w - z.after < z.change
  <2>1. Abs(z, w) = w - z.before /\ Local(z, Abs(z, w)) = w - z.before + z.after
    BY <1>1, <1>3 DEF Abs, Local
  <2>2. z.change + z.before <= w /\ w < z.change + z.after
    BY <1>1, <1>3
  <2> QED
    BY <1>1, <2>1, <2>2 DEF Skipped
<1>4. CASE w - z.before >= z.change /\ w - z.after >= z.change
  BY <1>1, <1>4 DEF Abs, Local
<1> QED
  BY <1>1, <1>2, <1>3, <1>4

(* A later time is never on an earlier date.                               *)
LEMMA DateFollowsClock ==
    ASSUME NEW a \in Int, NEW b \in Int, a > b, a \div Day # b \div Day
    PROVE  a \div Day > b \div Day
<1>1. Day \in Nat \ {0}
  BY UnitsAssumption
<1>2. /\ a \div Day \in Int /\ a < Day * (a \div Day) + Day
      /\ b \div Day \in Int /\ Day * (b \div Day) <= b
  BY <1>1, DivFacts
<1>3. Day * (b \div Day) < Day * (a \div Day) + Day
  <2> DEFINE p == Day * (b \div Day)
             q == Day * (a \div Day)
  <2>1. p \in Int /\ q \in Int /\ Day \in Int
    BY <1>1, <1>2
  <2>2. p <= b /\ a < q + Day
    BY <1>2
  <2> HIDE DEF p, q
  <2>3. p < q + Day
    BY <2>1, <2>2
  <2> QED
    BY <2>3 DEF p, q
<1>4. b \div Day <= a \div Day
  BY <1>1, <1>2, <1>3, Between
<1> QED
  BY <1>2, <1>4

LEMMA InitInv == Init => Inv
  BY DEF Init, Inv

(* A request that stores what it is answered with keeps the invariant.     *)
LEMMA StoreKeeps ==
    ASSUME Inv, NEW start \in Int, NEW end \in Int, NEW override \in Nat,
           NEW minutes, NEW wall,
           minutes # Listed([start |-> start, end |-> end, override |-> override])
               => wall # <<>> /\ wall[3] = zone /\ Crosses(wall),
           wall # <<>> /\ wall[3] = zone =>
               /\ wall[2] \in Int
               /\ Local(zone, end) # wall[2] =>
                     Skipped(zone, wall[2]) /\ Local(zone, end) > wall[2],
           Store(start, end, override, minutes, wall)
    PROVE  Inv'
<1>1. CASE Refuse(500)
  BY <1>1 DEF Inv, RowOK, AnswerOK, ClockOK, Refuse, Listed, Crosses, Skipped, Local, Abs
<1>2. CASE /\ Check(start, end)
           /\ row' = [start |-> start, end |-> end, override |-> override]
           /\ answer' = minutes /\ asked' = wall /\ status' = 201
           /\ UNCHANGED <<zone, gateway>>
  <2>1. zone' \in Zones /\ gateway' \in Zones \union LocalZones
    BY <1>2 DEF Inv
  <2>2. RowOK'
    BY <1>2 DEF RowOK, Check
  <2>3. AnswerOK'
    BY <1>2 DEF AnswerOK, Listed, Crosses, Abs
  <2>4. ClockOK'
    BY <1>2 DEF ClockOK, Skipped, Local
  <2> QED
    BY <2>1, <2>2, <2>3, <2>4 DEF Inv
<1> QED
  BY <1>1, <1>2 DEF Store

LEMMA RefuseKeeps ==
    ASSUME Inv, NEW c, Refuse(c)
    PROVE  Inv'
  BY DEF Inv, RowOK, AnswerOK, ClockOK, Refuse, Listed, Crosses, Skipped, Local, Abs

LEMMA NextInv == Inv /\ [Next]_vars => Inv'
<1> SUFFICES ASSUME Inv, [Next]_vars PROVE Inv'
  OBVIOUS
<1>1. ASSUME NEW d \in Dates, NEW s \in WallTimes(d), NEW e \in WallTimes(d), Sentence(s, e)
      PROVE  Inv'
  <2>1. /\ s \in Instants /\ e \in Instants /\ zone \in Zones
    BY DEF WallTimes, Inv
  <2>2. CASE Refuse(422)
    BY <2>2, RefuseKeeps
  <2>3. CASE Store(Abs(zone, s), Abs(zone, e), 0, PyMinutes(e - s), <<s, e, zone>>)
    <3> DEFINE wall == <<s, e, zone>>
    <3>1. wall # <<>> /\ wall[1] = s /\ wall[2] = e /\ wall[3] = zone
      OBVIOUS
    <3>2. PyMinutes(e - s) # Listed([start |-> Abs(zone, s), end |-> Abs(zone, e), override |-> 0])
              => Crosses(wall)
      BY <3>1 DEF Listed, Crosses
    <3>3. /\ Abs(zone, s) \in Int /\ Abs(zone, e) \in Int /\ e \in Int
          /\ Local(zone, Abs(zone, e)) # e =>
                Skipped(zone, e) /\ Local(zone, Abs(zone, e)) > e
      BY <2>1, ClockKept
    <3> HIDE DEF wall
    <3>4. Store(Abs(zone, s), Abs(zone, e), 0, PyMinutes(e - s), wall)
      BY <2>3 DEF wall
    <3> QED
      BY <3>1, <3>2, <3>3, <3>4, StoreKeeps
  <2> QED
    BY <1>1, <2>2, <2>3 DEF Sentence
<1>2. ASSUME NEW d \in Dates, NEW s \in WallTimes(d), NEW e \in WallTimes(d), Tool(s, e)
      PROVE  Inv'
  <2> DEFINE start == Abs(gateway, s)
             end == Abs(gateway, e)
             wall == <<s, e, gateway>>
  <2>1. s \in Instants /\ e \in Instants /\ gateway \in Zones \union LocalZones
    BY DEF WallTimes, Inv
  <2>2. /\ start \in Int /\ end \in Int /\ e \in Int
        /\ Local(gateway, end) # e => Skipped(gateway, e) /\ Local(gateway, end) > e
    BY <2>1, ClockKept
  <2>3. wall # <<>> /\ wall[2] = e /\ wall[3] = gateway
    OBVIOUS
  <2>4. PyMinutes(end - start) = Listed([start |-> start, end |-> end, override |-> 0])
    BY DEF Listed
  <2>5. Refuse(422) \/ Store(start, end, 0, PyMinutes(end - start), wall)
    BY <1>2 DEF Tool
  <2> HIDE DEF start, end, wall
  <2> QED
    BY <2>2, <2>3, <2>4, <2>5, StoreKeeps, RefuseKeeps
<1>3. ASSUME NEW s \in Instants, NEW e \in Instants, NEW o \in Overrides \union {0},
             Record(s, e, o)
      PROVE  Inv'
  <2>1. s \in Int /\ e \in Int /\ o \in Nat
    BY InputsAssumption
  <2>2. CASE Refuse(422)
    BY <2>2, RefuseKeeps
  <2>3. CASE Store(s, e, o, IF o # 0 THEN o ELSE PyMinutes(e - s), <<>>)
    <3>1. (IF o # 0 THEN o ELSE PyMinutes(e - s))
              = Listed([start |-> s, end |-> e, override |-> o])
      BY DEF Listed
    <3> QED
      BY <2>1, <2>3, <3>1, StoreKeeps
  <2> QED
    BY <1>3, <2>2, <2>3 DEF Record
<1>4. ASSUME NEW s \in Instants, NEW e \in Instants, Edit(s, e)
      PROVE  Inv'
  <2>1. s \in Int /\ e \in Int
    BY InputsAssumption
  <2>2. CASE Refuse(422)
    BY <2>2, RefuseKeeps
  <2>3. CASE Store(s, e, 0, PyMinutes(e - s), <<>>)
    <3>1. PyMinutes(e - s) = Listed([start |-> s, end |-> e, override |-> 0])
      BY DEF Listed
    <3> QED
      BY <2>1, <2>3, <3>1, StoreKeeps
  <2> QED
    BY <1>4, <2>2, <2>3 DEF Edit
<1>5. CASE UNCHANGED vars
  BY <1>5 DEF vars, Inv, RowOK, AnswerOK, ClockOK, Listed, Crosses, Skipped, Local, Abs
<1> QED
  BY <1>1, <1>2, <1>3, <1>4, <1>5 DEF Next

LEMMA InvHolds == Spec => []Inv
  BY InitInv, NextInv, PTL DEF Spec

-----------------------------------------------------------------------------

(* Whichever door a record came through, and over any clock change, its    *)
(* range runs forward and counts for at least a minute                     *)
(* (natural_language.py 37-53, models.py 689-693).                         *)
THEOREM RangesRunForward == Spec => []StoredRangeForward
<1>1. Inv => StoredRangeForward
  <2> SUFFICES ASSUME Inv, row # NoRow PROVE row.start < row.end /\ Reported(row) >= 1
    BY DEF StoredRangeForward
  <2>1. /\ row.start \in Int /\ row.end \in Int /\ row.override \in Nat
        /\ row.start < row.end
    BY DEF Inv, RowOK
  <2>2. row.end - row.start \in Int /\ row.end - row.start > 0
    BY <2>1
  <2>3. SqlMinutes(row.end - row.start) >= 1
    BY <2>2, SqlCounts
  <2> QED
    BY <2>1, <2>3 DEF Reported
<1> QED
  BY <1>1, InvHolds, PTL

(* The list, the report and the answer show one length, and what was told  *)
(* in the household's zone is reported on the date that was told, but for  *)
(* an end that the clock skips, which may be reported on a later one.      *)
(* This is so in every zone (models.py 646-656, fb99f249208d 377-425,      *)
(* natural_language.py 37-53).                                             *)
THEOREM LengthsAgree == Spec => []ShownLengthsAgree
<1>1. Inv => ShownLengthsAgree
  <2> SUFFICES ASSUME Inv, row # NoRow
               PROVE  /\ Listed(row) \in {Reported(row), Reported(row) - 1}
                      /\ (row.end - row.start) % Second = 0 => Listed(row) = Reported(row)
                      /\ answer # Listed(row) =>
                            asked # <<>> /\ asked[3] = zone /\ Crosses(asked)
                      /\ asked # <<>> /\ asked[3] = zone
                            /\ ReportDay(row) # asked[2] \div Day =>
                            Skipped(zone, asked[2]) /\ ReportDay(row) > asked[2] \div Day
    BY DEF ShownLengthsAgree
  <2>1. row.end \in Int /\ row.end - row.start \in Int
    BY DEF Inv, RowOK
  <2>2. Listed(row) \in {Reported(row), Reported(row) - 1}
    BY <2>1, PyNearSql DEF Listed, Reported
  <2>3. (row.end - row.start) % Second = 0 => Listed(row) = Reported(row)
    BY <2>1, PyIsSql DEF Listed, Reported
  <2>4. ASSUME asked # <<>>, asked[3] = zone, ReportDay(row) # asked[2] \div Day
        PROVE  Skipped(zone, asked[2]) /\ ReportDay(row) > asked[2] \div Day
    <3> DEFINE shown == Local(zone, row.end)
    <3>1. asked[2] \in Int /\ (shown # asked[2] => Skipped(zone, asked[2]) /\ shown > asked[2])
      BY <2>4 DEF Inv, ClockOK
    <3>2. shown \in Int
      BY <2>1, InputsAssumption DEF Inv, Local
    <3>3. ReportDay(row) = shown \div Day
      BY DEF ReportDay
    <3> HIDE DEF shown
    <3>4. shown # asked[2]
      BY <2>4, <3>3
    <3> QED
      BY <2>4, <3>1, <3>2, <3>3, <3>4, DateFollowsClock
  <2> QED
    BY <2>2, <2>3, <2>4 DEF Inv, AnswerOK
<1> QED
  BY <1>1, InvHolds, PTL
=============================================================================
