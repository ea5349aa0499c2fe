---------------------------- MODULE MCScheduler ----------------------------
(***************************************************************************)
(* Instances of Scheduler for TLC.                                         *)
(***************************************************************************)
EXTENDS Scheduler, TLC

DailyAtOne    == [every |-> "day", hour |-> 1]
TuesdaysAtOne == [every |-> "week", hour |-> 1, weekday |-> 1]
Hourly        == [every |-> "hour"]

DailyOrWeekly == {DailyAtOne, TuesdaysAtOne}

OnlyHourly    == {Hourly}

\* Monday 00:30 and Tuesday 01:00.
TwoMoments == {30, 1500}
\* Half past, on the hour, and past the next hour.
LateMoments == {30, 60, 125}

Interchangeable == Permutations(Schedules) \cup Permutations(Dispatchers) \cup Permutations(Handlers)
=============================================================================
