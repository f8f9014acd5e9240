----------------------------- MODULE MCWorkTimes -----------------------------
(* An instance of WorkTimes for TLC: a minute of two seconds of two ticks  *)
(* and days of four minutes.  The zones change by a minute, forward and    *)
(* back, in the middle of a day and from midnight on.  Nuuk is west of UTC *)
(* and skips the last minute of a day, Apia a whole day.                   *)
EXTENDS WorkTimes, TLC

Zone(change, before, after) == [change |-> change, before |-> before, after |-> after]

UTC == Zone(0, 0, 0)
Nuuk == Zone(20, -8, -4)
Apia == Zone(20, -4, 12)

MCZones == {UTC, Zone(4, 0, 4), Zone(4, 4, 0), Zone(16, 0, 4), Zone(12, 4, 0), Nuuk, Apia}

MCLocalZones == {UTC, Nuuk}

MCInstants == 0 .. 31
=============================================================================
