CONSTANTS
    MaxObjectSize = 24
    MinPartSize = 2
    MaxPartSize = 6
    MaxParts = 5
    CountWidth = 8
    MaxConcurrency = 2
    MaxBudget = 13
SPECIFICATION Spec
INVARIANTS
    TypeOK
    ReaderFollowsPlan
    PlanTilesFile
    AdaptiveSizeAlwaysFits
    BuffersFitBudget
CHECK_DEADLOCK FALSE
