\* docs/QA_AND_REPAIR.md:53 with the delivery gate.
CONSTANTS
    NStages = 7
    Needs <- SmallNeeds
    Raises <- GateRaises
    AudioMix = 1
    EditorialAssembly = 0
    AssetAcquisition = 0
    FinalRender = 3
    ApprovalRequired = TRUE
    MaxTaskRetries = 3
    RepairBudget = 2
    MaxAttempts = 2
    MaxClaims = 2
SPECIFICATION Spec
PROPERTIES
    ApprovedGateOpens
CHECK_DEADLOCK FALSE
