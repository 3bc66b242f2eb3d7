\* docs/WORKFLOW.md:28 with two workers.
CONSTANTS
    Jobs = {1}
    Workers = {w1, w2}
    Requests = {}
    Ops = {}
    MaxAttempts = 2
    MaxClaims = 3
    MaxFaults = 0
SPECIFICATION Spec
INVARIANTS
    SoleExecutor
CHECK_DEADLOCK FALSE
