CONSTANTS
    Theirs = {e1, e2}
    Mine = mine
    MaxTime = 4
    MaxWire = 1
    Chunks = 2
SPECIFICATION Spec
SYMMETRY Symmetry
INVARIANTS
    TypeOK
    AnswerWasTrue
    DownloadIsWhole
CHECK_DEADLOCK FALSE
