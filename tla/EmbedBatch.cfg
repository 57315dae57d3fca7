CONSTANTS
    Batches = 4
    Concurrency = 3
SPECIFICATION FairSpec
INVARIANTS
    NoGaps
    EachBatchOnce
    OriginalErrorSurfaces
PROPERTIES
    AbortEndsEveryWorker
CHECK_DEADLOCK FALSE
