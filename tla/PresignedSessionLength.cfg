CONSTANTS
    PartCount = 3
    PageSize = 1
    Bodies = {b1, b2}
    Exact = {b1}
    NoBody = NoBody
    MaxRestarts = 1
SPECIFICATION Spec
INVARIANT SignedLengthsHold
CHECK_DEADLOCK FALSE
