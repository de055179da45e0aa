SPECIFICATION Spec
CONSTANTS
    None = None
    Controllers = {"a", "b"}
    Streams = {"receive"}
    Replay = FALSE
    Capacity = 1
    MaxRetries = 1
    InitialBackoff = 1
    MaxBackoff = 3
    BackoffMultiplier = 2
    MaxStarts = 3
    MaxEvents = 1
INVARIANTS
    OneGoroutinePerStream
CHECK_DEADLOCK FALSE
