CONSTANTS
    Invocations = {i1, i2}
SPECIFICATION RuntimeSpec
INVARIANT ActiveStreamsAreReachable
CHECK_DEADLOCK FALSE
