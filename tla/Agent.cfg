CONSTANTS
    Calls = {"search", "fetch", "gone"}
    Known = {"search", "fetch"}
    Timed = {"fetch"}
    MaxConcurrency = 2
    MaxIterations = 3
    MaxToolCalls = 4
    MaxRepeatedToolCalls = 2
    MaxBatch = 3
SPECIFICATION FairSpec
INVARIANTS
    HistoryAnswersInOrder
    BudgetsHold
PROPERTIES
    SettledRunStartsNoTool
    RunSettles
CHECK_DEADLOCK FALSE
