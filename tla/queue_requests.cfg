\* One worker, one job, two API threads that cancel and decide.
CONSTANTS
    Jobs = {1}
    Workers = {w1}
    Requests = {r1, r2}
    Ops = {"cancel", "decide"}
    MaxAttempts = 2
    MaxClaims = 4
    MaxFaults = 2
SPECIFICATION Spec
INVARIANTS
    TypeOK
    RetryingHasAttemptsLeft
    ParkedNotExecuted
PROPERTIES
    AttemptsKept
CHECK_DEADLOCK FALSE
