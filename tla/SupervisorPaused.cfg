\* Two processes that may be paused for longer than the lease lasts.
CONSTANTS
    p1 = p1
    p2 = p2
    p3 = p3
    NoInstance = NoInstance
    Instances <- TwoProcesses
    Ttl = 3
    Renewal = 2
    TickSlack = 3
    StartTime = 4
    StopTime = 4
    MaxToken = 3
    MaxFaults = 1
SPECIFICATION Spec
INVARIANT TokensFence
PROPERTY HandoverOrder
CHECK_DEADLOCK FALSE
