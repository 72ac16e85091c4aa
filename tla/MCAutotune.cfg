SPECIFICATION TuneSpec
CONSTANTS
    Cores = 8
    DefaultModel = "a"
    DocsOf <- MCDocsOf
    NDocs <- MCNDocs
    Points <- MCPoints
    Timings <- MCTimings
    Requests <- MCRequests
    MaxRunning = 2
    MaxCalls = 2
CHECK_DEADLOCK FALSE
INVARIANTS AnswersBest FailsOnlyWhenAllFail ConstraintsKept
