SPECIFICATION FairSpec
CONSTANTS
    Retry = 3
    MaxTries = 4
INVARIANTS TypeOK CallbackMatchesClient LossIsRecorded
PROPERTIES LiveConnectionKept LossIsNoticed AttemptEnds ImplementsLink
CHECK_DEADLOCK FALSE
