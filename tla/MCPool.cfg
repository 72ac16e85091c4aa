SPECIFICATION Spec
CONSTANTS
    NumWorkers = 3
    Totals = {1, 2, 3, 4, 5}
    BatchSizes = {1, 2}
    Modes = {"embed", "stream", "py"}
    MayFail = TRUE
INVARIANTS OutIncreases DeliversAll
PROPERTY CallEnds
CHECK_DEADLOCK FALSE
