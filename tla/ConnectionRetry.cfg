SPECIFICATION FairSpec
CONSTANTS
    Retry = 2
    MaxTries = 3
PROPERTIES LossIsRetried
CHECK_DEADLOCK FALSE
