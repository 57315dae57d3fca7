SPECIFICATION MCSpec
CONSTANTS
    WindowCount = 2
    WindowMs <- MCWindowMs
    MaxRequests <- MCMaxRequests
    MaxTokens <- MCMaxTokens
    NoLimit = NoLimit
    Callers = {c1, c2}
    MaxCost = 2

    Turns <- MCTurns
    MessageTokens <- MCMessageTokens
    HasSystem = TRUE
    Budgets = {0, 4, 6}
    MinTails = {0, 2}

    Hosts = {"a", "b", "c"}
    HostTier <- MCHostTier
    Loadable = {"m"}
    TtlMs = 1
    FailureRetryMs = 1

    Formats = {"sse", "ndjson"}
    MaxLength = 4

    Modes = {"create", "stream", "raw"}
    EndpointCount = 2
    MaxRetries = 1
    Statuses = {400, 401, 404, 429, 503}

    Protocols = {"chat", "completion", "responses", "messages"}
    Slots = {0}
    Channels = {"text", "call"}
    MaxEvents = 3

    Endpoints = {e1, e2}
    e1 = e1
    e2 = e2
    Position <- MCPosition
    Priority <- MCPriority
    Models = {}
    Serves <- MCServes
    FailureThreshold = 2
    Cooldown = 1
    Cap = 1
    NoCap = NoCap
    Strategy = "priority"
    RoundRobinModulus = 2
    NoModel = NoModel
    Requests = {}
    ShardCount = 2
    MaxCallRetries = 1
    NoEndpoint = NoEndpoint

    Ids = {i1, i2}
    NoId = NoId
    MaxChunks = 3
    MaxCalls = 2

    MaxObserved = 3

    Deciders = {d1, d2, d3}
    Servers = {s1, s2}
    s1 = s1
    s2 = s2
    Release <- MCRelease
    Policies = {"auto", "strict"}
    MaxProbes = 3
    NoProbe = NoProbe
    NoServer = NoServer

    Invocations = {v1, v2}

    Images = {p1, p2}
    MaxRedirects = 1
    MaxImageSize = 1
    PromptSizes = {2048, 3150, 3687, 8000}
    WindowSizes = {4096}
    NoWindow = NoWindow
    Thresholds = {75, 77, 110}
    NoThreshold = NoThreshold

    ToolNames = {n1, n2, n3}
    Listings = {l1, l2}
    PageSize = 1
    MaxPages = 2
    MaxChanges = 1
    Local = Local
    NobodyOwns = NobodyOwns
SYMMETRY MCSymmetry
INVARIANTS
    OverrunBounded
    PromptStaysCached
    CompactionIsOptimal
    AffinityBreaksTies
    ChunksDoNotMatter
    FinalResultIsWhatWasShown
    ShardsAreSomewhere
    CallsAreThoseAnnounced
    ObserverSeesTheStream
    ProbesAreShared
    GeneratedCallsGiveBack
    AbortStopsEveryFetch
    AdviceIsAccepted
    CatalogueArrivesWhole
PROPERTIES
    RequestsAreJustified
CHECK_DEADLOCK FALSE
