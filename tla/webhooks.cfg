CONSTANTS
    h1 = h1
    Hooks = {h1}
    EventTypes = {"job.completed", "job.failed"}
    Subscribed <- CompletedOnly
    Workers = {w1}
    Requests = {r1}
    MaxAttempts = 2
    MaxBatch = 2
    MaxRows = 2
    MaxJobs = 1
    MaxFaults = 1
SPECIFICATION FairSpec
INVARIANTS
    TypeOK
    OpenHasTriesLeft
    DeliveredWasAccepted
PROPERTIES
    EveryDeliverySettles
CHECK_DEADLOCK FALSE
