\* Two runs of the session that may overlap, without subscribers.
CONSTANTS
    first = first
    second = second
    page = page
    todo = todo
    Runs <- TwoRuns
    Clients <- NoClient
    Todos <- OneTodo
    Capacity = 2
    MaxFaults = 0
    MaxBreaks = 1
    MaxSteps = 1
    MaxMoves = 2
SPECIFICATION Spec
INVARIANT TypeOK
PROPERTIES
    TodosKept
CHECK_DEADLOCK FALSE
