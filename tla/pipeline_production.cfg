\* The twenty stages with their real inputs and repair targets; every repair strategy; up to two claims.
\* A live executor keeps executing.
CONSTANTS
    NStages = 20
    Needs <- ProductionNeeds
    Raises <- ProductionRaises
    AudioMix = 11
    EditorialAssembly = 8
    AssetAcquisition = 5
    FinalRender = 13
    ApprovalRequired = FALSE
    MaxTaskRetries = 3
    RepairBudget = 2
    MaxAttempts = 3
    MaxClaims = 2
SPECIFICATION FairSpec
INVARIANTS
    StagesInOrder
    CompletedMeansAllDone
    RepairBudgetRespected
    TaskAttemptsBounded
PROPERTIES
    ProgressKept
    ImplementsProgress
    EveryClaimEnds
CHECK_DEADLOCK FALSE
