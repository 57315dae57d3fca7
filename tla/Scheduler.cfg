CONSTANTS
    coder = coder
    thinker = thinker
    Models <- MCModels
    CandidateLists <- MCCandidateLists
    Runs = {r1, r2, r3}
    ConcurrentModels = 1
    PerModelConcurrency = 1
    PsCacheTtl = 0
    Disposals = {d1}
SPECIFICATION FairSpec
INVARIANTS
    BoundsHold
    NothingStartableWaits
    EveryTaskInOnePlace
PROPERTIES
    HotUntilDrained
    WorkRunsOut
CHECK_DEADLOCK FALSE
