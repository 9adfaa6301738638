CONSTANTS
    Declared = 6
    Concurrency = 2
    Budget = 4
SPECIFICATION FairSpec
INVARIANTS
    TypeOK
    BuffersBounded
    NoPartLost
    ShortSourceIsReported
PROPERTIES
    KeepsContract
    CancelEnds
    StreamEnds
    ReaderIsReaped
CHECK_DEADLOCK FALSE
