\* One run whose events one client follows over a channel that may lag.
CONSTANTS
    first = first
    second = second
    page = page
    todo = todo
    Runs <- OneRun
    Clients <- OneClient
    Todos <- OneTodo
    Capacity = 2
    MaxFaults = 1
    MaxBreaks = 1
    MaxSteps = 2
    MaxMoves = 0
SPECIFICATION FairSpec
INVARIANT QuestionShown
PROPERTIES
    FeedSpec
    RunEndReaches
    TurnsEnd
CHECK_DEADLOCK FALSE
