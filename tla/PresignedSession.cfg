CONSTANTS
    PartCount = 3
    PageSize = 1
    Bodies = {b1, b2}
    Exact = {b1}
    NoBody = NoBody
    MaxRestarts = 1
SPECIFICATION FairSpec
INVARIANTS
    TypeOK
    ObjectIsWhole
    VerifiedIsExact
    ReconcileSeesAll
PROPERTY ListingEnds
CHECK_DEADLOCK FALSE
