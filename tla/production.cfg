\* Failures and crashes, and weeks after which the cleanup runs; and the timing of
\* productions of a few briefs.
CONSTANTS
    MaxFaults = 2
    Briefs <- SmallBriefs
    Answers <- SmallAnswers
    Paces <- SpokenPaces
SPECIFICATION MCSpec
INVARIANTS
    TypeOK
    InputsRestored
    FilesAgree
    DeliveredWasChecked
    DeliveredIsComplete
    CuesFollowSpeech
    CaptionsFitMedia
    DriftOnlyFromShortClips
PROPERTIES
    RetainedKept
CHECK_DEADLOCK FALSE
