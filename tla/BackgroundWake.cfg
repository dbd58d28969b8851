\* Two tasks of a session that had a wake turn complete; one client polls or kills them, the user starts a turn, something fails.
CONSTANTS
    t0 = t0
    t1 = t1
    t2 = t2
    s1 = s1
    NoTask = NoTask
    Tasks <- ThreeTasks
    Sessions <- OneSession
    Early <- WokenOnce
    SessionOf <- SameOwner
    Callers = {c1}
    Cooldown = 1
    Window = 3
    MaxWakes = 2
    AllowDuringPlan = FALSE
    MaxTime = 3
    MaxActs = 2
SPECIFICATION FairSpec
INVARIANTS
    TypeOK
    CompletionsKept
PROPERTIES
    BudgetKept
    SettledStaysQuiet
    CompletionDecided
CHECK_DEADLOCK FALSE
