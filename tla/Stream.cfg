CONSTANTS
    Batches <- MCBatches
    MaxReads = 3
    FiredBefore <- BothReasons
    ListenersMayThrow = TRUE
SPECIFICATION FairSpec
INVARIANTS IterationSettles PendingStreamsListen OverMeansClosed
PROPERTY SlotComesBack
CHECK_DEADLOCK FALSE
