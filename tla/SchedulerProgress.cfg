\* One backfilling interval schedule under fair loops; recovery fits in the queue or does not, calls do not overlap.
CONSTANTS
    s1 = s1
    Schedules <- OneSchedule
    Kind <- AllIntervals
    Param <- EveryUnit
    Missed <- AllBackfill
    QueueCapacity = 1
    BackfillCap = 2
    Retention = 2
    MaxTime = 2
    MaxExecutions = 8
    Operations <- CreateDeletePause
    Outcomes = {"completed"}
    OneShot = FALSE
    MaxCalls = 2
    MaxOpen = 1
    MaxFaults = 0
SPECIFICATION FairSpec
INVARIANT StoreMirrorsRows
PROPERTIES
    BackfillExact
    DueFires
    StartCompletes
CHECK_DEADLOCK FALSE
