CONSTANTS
    gpu = gpu
    cloud = cloud
    llama = llama
    qwen = qwen
    phi = phi
    NoModel = NoModel
    NoEndpoint = NoEndpoint
    NoCap = NoCap
    Endpoints <- MCEndpoints
    Position <- MCPosition
    Priority <- MCPriority
    Models <- MCModels
    Serves <- MCServes
    Kinds <- MCKinds
    FailoverCodes <- MCFailoverCodes
    FailureThreshold = 2
    Cooldown = 1
    Strategy = "least-connections"
    RoundRobinModulus = 2
    Cap = 1
    Requests = {r1, r2, r3}
SPECIFICATION Spec
SYMMETRY Interchangeable
INVARIANTS
    SlotsAreHeld
    FirstAttemptsWithinCap
    QueueHoldsTheWaiting
    DestroyReachesEveryRequest
    StaysOnItsEndpoints
PROPERTIES
    ImplementsSlotPool
    FailsOpenOnly
CHECK_DEADLOCK FALSE
