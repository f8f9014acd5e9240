----------------------------- MODULE WorkTimes -----------------------------
(***************************************************************************)
(* The times of one Completion Record: from a clock on the wall to the     *)
(* stored instants, and from there to the minutes and the day that are     *)
(* answered, listed and reported.                                          *)
(*                                                                         *)
(* Work comes in by three doors: a sentence gives a date and two times of  *)
(* day in the household's zone, a tool of the gateway gives them in the    *)
(* gateway's, and the API (and the page, which converts in the browser)    *)
(* gives instants.  A zone changes its offset once.  Time counts in ticks, *)
(* because the stored values have fractions of seconds and Python and SQL  *)
(* round them differently.                                                 *)
(***************************************************************************)
EXTENDS Integers

CONSTANTS
    Second, Minute, Day,    \* their lengths in ticks
    Zones,                  \* [change, before, after]: when, and the offsets
    LocalZones,             \* values of DISHPUTE_TIMEZONE, for the local gateway
    Instants,               \* instants that requests name, in ticks
    Dates,                  \* dates that sentences and tools name
    Overrides               \* manual durations, in minutes

ASSUME UnitsAssumption ==
    /\ Second \in Nat \ {0} /\ Minute \in Nat \ {0} /\ Day \in Nat \ {0}
    /\ Minute % Second = 0 /\ Day % Minute = 0

ASSUME InputsAssumption ==
    /\ Zones \union LocalZones \subseteq [change : Int, before : Int, after : Int]
    /\ Instants \subseteq Int /\ Dates \subseteq Int
    /\ Overrides \subseteq Nat \ {0}

VARIABLES
    zone,       \* the household's time zone
    gateway,    \* the zone the gateway reads its tools' times in
    row,        \* the stored record, or NoRow
    answer,     \* the minutes of the last successful answer
    asked,      \* <<start, end, zone>> on the wall, if it was asked with those
    status      \* the status code of the last request

vars == <<zone, gateway, row, answer, asked, status>>

-----------------------------------------------------------------------------

(* The instant of a wall clock time w (fold = 0): the first of two, and    *)
(* the offset before the change for one that is skipped.                   *)
Abs(z, w) ==
    IF w - z.before < z.change \/ w - z.after < z.change
    THEN w - z.before ELSE w - z.after

(* AT TIME ZONE: what the wall clock shows at an instant.                  *)
Local(z, a) == IF a < z.change THEN a + z.before ELSE a + z.after

(* int((seconds + 59) // 60)                                               *)
PyMinutes(ticks) == (ticks + Minute - Second) \div Minute

(* Mutant of SqlMinutes: without ceil, only full minutes count.            *)
SqlMinutesFull(ticks) == ticks \div Minute

(* ceil(extract(epoch from ...) / 60.0)                                    *)
SqlMinutes(ticks) == -((-ticks) \div Minute)

NoRow == [start |-> 0, end |-> 0, override |-> -1]

(* effective_duration_minutes, and the view's duration: 0 is no override.  *)
Listed(r) == IF r.override # 0 THEN r.override ELSE PyMinutes(r.end - r.start)

Reported(r) == IF r.override # 0 THEN r.override ELSE SqlMinutes(r.end - r.start)

(* contribution_day, from completed_at, which is the end.                  *)
ReportDay(r) == Local(zone, r.end) \div Day

(* With OAuth the gateway's zone is the household's, from the token; the   *)
(* local gateway's is set where it is started, whatever the household's.   *)
Init ==
    /\ zone \in Zones /\ gateway \in {zone} \union LocalZones
    /\ row = NoRow /\ answer = 0 /\ asked = <<>> /\ status = 0

-----------------------------------------------------------------------------

Refuse(code) ==
    /\ status' = code
    /\ UNCHANGED <<zone, gateway, row, answer, asked>>

(* Mutant of Check: the constraint on the range is missing.                *)
NoCheck(start, end) == TRUE

(* time_blocks_time_range_valid and completion_records_time_range_valid.   *)
Check(start, end) == end > start

(* The flush: the row is stored, or a CHECK fails and the answer is 500.   *)
Store(start, end, override, minutes, wall) ==
    \/ ~Check(start, end) /\ Refuse(500)
    \/ /\ Check(start, end)
       /\ row' = [start |-> start, end |-> end, override |-> override]
       /\ answer' = minutes /\ asked' = wall /\ status' = 201
       /\ UNCHANGED <<zone, gateway>>

(* A sentence, to the minute.  The two times are compared on the wall, no  *)
(* schema sees them, and the answer is computed from the same two values,  *)
(* which Python subtracts on the wall.                                     *)
Sentence(s, e) ==
    /\ row = NoRow
    /\ \/ e <= s /\ Refuse(422)
       \/ e > s /\ Store(Abs(zone, s), Abs(zone, e), 0, PyMinutes(e - s), <<s, e, zone>>)

(* A tool, whose times may have seconds.  The gateway compares on the wall *)
(* and sends offsets; the API's schema compares the instants.              *)
Tool(s, e) ==
    /\ row = NoRow
    /\ LET start == Abs(gateway, s)
           end == Abs(gateway, e)
       IN \/ (e <= s \/ end <= start) /\ Refuse(422)
          \/ /\ e > s /\ end > start
             /\ Store(start, end, 0, PyMinutes(end - start), <<s, e, gateway>>)

(* The API, with or without a manual duration.                             *)
Record(start, end, override) ==
    /\ row = NoRow
    /\ \/ end <= start /\ Refuse(422)
       \/ /\ end > start
          /\ Store(start, end, override,
                   IF override # 0 THEN override ELSE PyMinutes(end - start), <<>>)

(* New times clear the manual duration.                                    *)
Edit(start, end) ==
    /\ row # NoRow
    /\ \/ end <= start /\ Refuse(422)
       \/ end > start /\ Store(start, end, 0, PyMinutes(end - start), <<>>)

(* Two times of one date.                                                  *)
WallTimes(date) == {w \in Instants : w \div Day = date}

Next ==
    \/ \E d \in Dates : \E s, e \in WallTimes(d) :
          \/ s % Minute = 0 /\ e % Minute = 0 /\ Sentence(s, e)
          \/ Tool(s, e)
    \/ \E s, e \in Instants :
          \/ \E o \in Overrides \union {0} : Record(s, e, o)
          \/ Edit(s, e)

Spec == Init /\ [][Next]_vars

-----------------------------------------------------------------------------

(* Whichever door it came through, and over a clock change too, a stored   *)
(* range runs forward and counts for at least a minute: an end after its   *)
(* start on the wall may be before it in time (natural_language.py 37-53,  *)
(* mcp_gateway.py 197-200, models.py 531, 689-693).                        *)
StoredRangeForward ==
    row # NoRow => row.start < row.end /\ Reported(row) >= 1

(* Whether the clock changes between two wall clock times.                 *)
Crosses(wall) ==
    Abs(wall[3], wall[2]) - Abs(wall[3], wall[1]) # wall[2] - wall[1]

(* A time the clocks of a zone never show, because they are put forward.   *)
Skipped(z, w) == z.change + z.before <= w /\ w < z.change + z.after

(* The same work has the same length wherever it is shown: the list        *)
(* (Python) and the report (SQL) agree to the second and are a minute      *)
(* apart at most; the answer agrees with the list, except that a sentence  *)
(* over a clock change is answered with what the wall clock shows.  And    *)
(* what was told with a date is reported on that date, unless the gateway  *)
(* was set to another zone than the household's, or the time told for the  *)
(* end is one the clock skips: it is read as a later one, which may fall   *)
(* on a later date and never on an earlier one (models.py 646-656,         *)
(* fb99f249208d 300-319 and 377-425, natural_language.py 37-53,            *)
(* mcp_gateway.py 60-63).                                                  *)
ShownLengthsAgree ==
    row # NoRow =>
        /\ Listed(row) \in {Reported(row), Reported(row) - 1}
        /\ (row.end - row.start) % Second = 0 => Listed(row) = Reported(row)
        /\ answer # Listed(row) =>
              asked # <<>> /\ asked[3] = zone /\ Crosses(asked)
        /\ asked # <<>> /\ asked[3] = zone /\ ReportDay(row) # asked[2] \div Day =>
              Skipped(zone, asked[2]) /\ ReportDay(row) > asked[2] \div Day
=============================================================================
