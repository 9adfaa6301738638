CONSTANTS
    MaxVersion = 3
    Chunks = 2
    MaxSignals = 2
SPECIFICATION FairSpec
INVARIANTS
    TypeOK
    OkIsOneVersion
    RolledBackIsGone
PROPERTIES
    GoodObjectStays
    CancelReturns
CHECK_DEADLOCK FALSE
