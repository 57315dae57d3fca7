CONSTANTS
    gpu = gpu
    cloud = cloud
    llama = llama
    qwen = qwen
    phi = phi
    NoModel = NoModel
    NoEndpoint = NoEndpoint
    NoCap = NoCap
    Endpoints <- MCEndpoints
    Position <- MCPosition
    Priority <- MCPriority
    Models <- MCModels
    Serves <- MCServes
    Kinds <- MCLiveKinds
    FailoverCodes <- MCFailoverCodes
    FailureThreshold = 2
    Cooldown = 1
    Strategy = "round-robin"
    RoundRobinModulus = 2
    Cap = 1
    Requests = {r1, r2}
SPECIFICATION FairSpec
PROPERTY EveryCallIsAnswered
CHECK_DEADLOCK FALSE
