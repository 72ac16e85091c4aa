SPECIFICATION Spec
CONSTANTS
    Procs = {p1, p2, p3}
    Inodes = {1, 2, 3}
    Tables = {1, 2}
    Reasons = {0, 3}
    MayRefuse = TRUE
    MaxSaves = 3
    MaxCrashes = 1
SYMMETRY ProcSymmetry
INVARIANTS LoadsOneDocument NothingLeftBehind
