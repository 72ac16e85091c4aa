SPECIFICATION CacheSpec
CONSTANTS
    Procs = {p1}
    NumFiles = 2
    Required = {1}
    Chunks = 2
    n1 = n1  n2 = n2  n3 = n3
    Inodes <- MCInodes
    None = None
    MaxCalls = 2
    MaxCrashes = 1
    MayFail = TRUE
    DiskMayFill = FALSE
    Code <- Xenova
    ModelName <- Baai
    OtherRepos <- MCOthers
    Strays <- MCStrays
    KeepLists <- MCNamedLists
    NullList = NullList
    MaxCleanups = 2
INVARIANT NamedIsEnsured
SYMMETRY Sym
CHECK_DEADLOCK FALSE
