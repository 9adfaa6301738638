CONSTANTS
    MaxParts = 3
    Concurrency = 2
    MaxAttempts = 2
    MaxVersion = 2
    MaxRuns = 2
SPECIFICATION Spec
INVARIANTS
    TypeOK
    ObjectIsOneVersion
    CompletionIsSound
    ProgressIsTrue
    BuffersWithinBudget
PROPERTIES
    KeepsContract
CHECK_DEADLOCK FALSE
