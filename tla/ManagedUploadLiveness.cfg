CONSTANTS
    MaxParts = 2
    Concurrency = 1
    MaxAttempts = 2
    MaxVersion = 2
    MaxRuns = 2
SPECIFICATION FairSpec
PROPERTY CallReturns
CHECK_DEADLOCK FALSE
