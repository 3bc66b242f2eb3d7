\* One worker, and one API thread that runs jobs inline; two jobs.
CONSTANTS
    Jobs = {1, 2}
    Workers = {w1}
    Requests = {r1}
    Ops = {"run"}
    MaxAttempts = 2
    MaxClaims = 2
    MaxFaults = 1
SPECIFICATION FairSpec
PROPERTIES
    QueuedIsPickedUp
CHECK_DEADLOCK FALSE
