\* Seven stages, the delivery gate requires an approval; up to four claims.
CONSTANTS
    NStages = 7
    Needs <- SmallNeeds
    Raises <- GateRaises
    AudioMix = 1
    EditorialAssembly = 0
    AssetAcquisition = 0
    FinalRender = 3
    ApprovalRequired = TRUE
    MaxTaskRetries = 3
    RepairBudget = 1
    MaxAttempts = 2
    MaxClaims = 4
SPECIFICATION Spec
INVARIANTS
    TypeOK
    OneLiveRow
    ParkedHasRequest
CHECK_DEADLOCK FALSE
