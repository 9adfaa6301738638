CONSTANTS
    Declared = 4
    Concurrency = 2
    Budget = 2
SPECIFICATION Spec
INVARIANT MemoryWithinBudget
CHECK_DEADLOCK FALSE
