SPECIFICATION HandleSpec
CONSTANTS
    k1 = k1  k2 = k2  k3 = k3
    v1 = v1  v2 = v2  v3 = v3
    a = a  b = b  c = c  d = d
    Keys <- MCKeys
    Vecs <- MCVecs
    VecOf <- MCVecOf
    Tokens <- MCTokens
    TextSeqs <- MCTextSeqs
    Queries <- MCQueries
    Documents <- MCDocuments
    Score <- MCScore
    DocSeqs <- MCDocSeqs
    Capacity = 2
    TTL = 0
    MaxTime = 0
    Strategies = {"bucket", "fixed", "sequential"}
    Backends = {"onnx", "llama"}
    BatchSizes = {1, 2}
    MaxCalls = 2
    Unset = Unset
    Miss = Miss  TooSmall = TooSmall  Done = Done
INVARIANTS EmbedsRight RanksRight CachesRight RepeatIsServed
CHECK_DEADLOCK FALSE
