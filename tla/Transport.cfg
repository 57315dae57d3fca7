CONSTANTS
    Modes = {"create", "stream", "raw"}
    EndpointCount = 2
    MaxRetries = 1
    Statuses = {400, 401, 404, 429, 503}
SPECIFICATION TransportSpec
INVARIANT OldServersAreServed
CHECK_DEADLOCK FALSE
