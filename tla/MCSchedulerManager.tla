------------------------- MODULE MCSchedulerManager -------------------------
(* Instances of SchedulerManager for TLC: which schedules exist. *)
EXTENDS SchedulerManager, TLC

CONSTANTS s1

OneSchedule == {s1}

(* Schedule kinds, periods and recovery policies of the runs. *)
AllIntervals == [s \in Schedules |-> "interval"]
AllCron == [s \in Schedules |-> "cron"]
EveryUnit == [s \in Schedules |-> 1]
AllCatchUp == [s \in Schedules |-> "catch_up"]
AllBackfill == [s \in Schedules |-> "backfill"]

(* Service operations of the runs. *)
CreateDeletePause == {"create", "delete", "pause", "resume"}
=============================================================================
