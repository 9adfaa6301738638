CONSTANTS
    MaxParts = 1
    Concurrency = 1
    MaxAttempts = 1
    MaxVersion = 1
    MaxRuns = 1
SPECIFICATION Spec
INVARIANT SnapshotWheneverRemote
CHECK_DEADLOCK FALSE
