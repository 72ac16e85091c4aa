SPECIFICATION Spec
CONSTANTS
    Owners = {w1, w2}
    Options <- MCOptions
    MaxCalls = 2
CHECK_DEADLOCK FALSE
INVARIANTS OwnersApart HandlesWhole NothingOrphaned
