------------------------------ MODULE Calendar ------------------------------
(***************************************************************************)
(* next_occurrence of models/scan_schedule.py.  An instant is a number of  *)
(* minutes since some Monday at 00:00 UTC: every candidate the code builds *)
(* is on the hour, so rounding `after' down to its minute changes no       *)
(* comparison.                                                             *)
(***************************************************************************)
EXTENDS Integers

Hour == 60
Day  == 1440
Week == 10080

Cadence ==
         [every: {"hour"}]
    \cup [every: {"day"}, hour: 0 .. 23]
    \cup [every: {"week"}, hour: 0 .. 23, weekday: 0 .. 6]

\* datetime.weekday(): Monday is 0.
Weekday(t) == (t \div Day) % 7

\* after.replace(hour=hour, minute=0, second=0, microsecond=0)
AtHour(after, hour) == (after - (after % Day)) + hour * Hour

\* `<=', so that `after' itself is never returned.
Later(candidate, after, period) ==
    IF candidate <= after THEN candidate + period ELSE candidate

NextOccurrence(c, after) ==
    LET today == AtHour(after, c.hour) IN
    CASE c.every = "hour" -> (after - (after % Hour)) + Hour
      [] c.every = "day"  -> Later(today, after, Day)
      [] c.every = "week" -> Later(today + Day * ((c.weekday - Weekday(today)) % 7), after, Week)
-----------------------------------------------------------------------------
(* What describe() tells the user a cadence means.                         *)

Occurs(c, t) ==
    \/ c.every = "hour" /\ t % Hour = 0
    \/ c.every = "day"  /\ t % Day = c.hour * Hour
    \/ c.every = "week" /\ t % Day = c.hour * Hour /\ Weekday(t) = c.weekday

\* n is the first instant of the cadence strictly after `after'.
IsNext(c, after, n) ==
    /\ n > after
    /\ Occurs(c, n)
    /\ \A t \in after + 1 .. n - 1 : ~Occurs(c, t)
=============================================================================
