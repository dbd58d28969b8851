\* Three processes that keep within the margin of the lease, with the fairness of their runtime.
CONSTANTS
    p1 = p1
    p2 = p2
    p3 = p3
    NoInstance = NoInstance
    Instances <- ThreeProcesses
    Ttl = 6
    Renewal = 2
    TickSlack = 1
    StartTime = 1
    StopTime = 1
    MaxToken = 6
    MaxFaults = 2
SPECIFICATION FairSpec
INVARIANTS
    TypeOK
    AtMostOneRunning
PROPERTIES
    RoleSpec
    RoleTakenOver
CHECK_DEADLOCK FALSE
