CONSTANTS
    Keys = 3
    UploadsPerKey = 2
    Limit = 1
    BatchSize = 2
SPECIFICATION FairCleanupSpec
INVARIANTS
    CleanupTypeOK
    ListsWhatStayed
    FailsForAReason
    ResultIsTrue
    CleanupIsThorough
PROPERTY ListingEnds
CHECK_DEADLOCK FALSE
