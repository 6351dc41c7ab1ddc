SPECIFICATION TasksFairSpec
CONSTANTS
    n1 = n1
    n2 = n2
    Canary = n1
    Second = n2
    Profiled = {n1}
    MaxTasks = 2
    MaxWaves = 1
    MaxRetries = 1
INVARIANTS
    NextAfterSuccess
    AloneOnNode
PROPERTIES
    QueuedIsLeased
CHECK_DEADLOCK FALSE
