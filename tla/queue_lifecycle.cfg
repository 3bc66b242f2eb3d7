\* One worker, two jobs, one decision at a time.
CONSTANTS
    Jobs = {1, 2}
    Workers = {w1}
    Requests = {r1}
    Ops = {"decide"}
    MaxAttempts = 2
    MaxClaims = 4
    MaxFaults = 2
SPECIFICATION Spec
PROPERTIES
    LifecycleFollowed
CHECK_DEADLOCK FALSE
