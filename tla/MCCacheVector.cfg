SPECIFICATION ClientSpec
CONSTANTS
    k1 = k1  k2 = k2  k3 = k3
    u1 = u1  u2 = u2  v1 = v1  w1 = w1  w2 = w2
    b1 = b1  b2 = b2  b3 = b3
    t1 = t1  t2 = t2
    Keys <- MCKeys
    Vecs <- MCVecs
    Bufs <- MCBufs
    Threads <- MCThreads
    VecsFor <- MCVecsFor
    DimOf <- MCDimOf
    Capacity = 1
    TTL = 1
    MaxTime = 2
    Free = Free  Garbage = Garbage
    Miss = Miss  TooSmall = TooSmall  Done = Done
SYMMETRY Sym
INVARIANT AnswersAreStored
