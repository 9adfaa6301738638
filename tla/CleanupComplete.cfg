CONSTANTS
    Keys = 3
    UploadsPerKey = 2
    Limit = 1
    BatchSize = 2
SPECIFICATION CleanupSpec
INVARIANT CompleteMeansDeleted
CHECK_DEADLOCK FALSE
