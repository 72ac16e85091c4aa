SPECIFICATION SchedSpec
CONSTANTS
    Callers = {c1, c2, c3}
    BatchLimits = {1, 2}
INVARIANTS TakenInOrder OwnEmbedding NoUseAfterFree
PROPERTIES SettledOnce QueueDrains StopEnds
