\* Every graph of three tasks, repeated and absent entries included; one task retries and
\* may have no executor; every mixture of failures; recovery from the latest checkpoint.
CONSTANTS
    t1 = t1
    t2 = t2
    t3 = t3
    gone = gone
    Tasks <- ThreeTasks
    Absent <- OneAbsent
    MaxRepeat = 2
    MaxOdd = 1
    Rank <- ByNumber
    Strategies <- SomeStrategies
    MaxAttempts <- SecondRetries
    MaxConcurrent = 2
    Needs <- SomeNeeds
    Rigor = "deep"
    MaxRecoveries = 1
SPECIFICATION FairSpec
INVARIANTS
    TypeOK
    ValidateExact
    DependencyOrder
    OkMeansAll
    FirstFailureReported
PROPERTIES
    RestoredNotRerun
    Terminates
CHECK_DEADLOCK FALSE
