\* One cron schedule with failing writes, restarts, stops, evictions and a command line.
CONSTANTS
    s1 = s1
    Schedules <- OneSchedule
    Kind <- AllCron
    Param <- EveryUnit
    Missed <- AllCatchUp
    QueueCapacity = 2
    BackfillCap = 2
    Retention = 1
    MaxTime = 2
    MaxExecutions = 3
    Operations <- Ops
    Outcomes = {"completed"}
    OneShot = TRUE
    MaxCalls = 2
    MaxOpen = 2
    MaxFaults = 1
SPECIFICATION Spec
INVARIANTS
    TypeOK
    DurableBeforeDispatch
    RowsTrailMemory
CHECK_DEADLOCK FALSE
