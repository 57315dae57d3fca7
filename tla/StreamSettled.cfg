CONSTANTS
    Batches <- MCBatches
    MaxReads = 3
    FiredBefore <- NoReason
    ListenersMayThrow = FALSE
SPECIFICATION Spec
INVARIANT FinishedWorkIsSettled
CHECK_DEADLOCK FALSE
