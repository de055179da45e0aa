SPECIFICATION FairSpec
CONSTANTS
    None = None
    Controllers = {"main"}
    Streams = {"receive"}
    Replay = TRUE
    Capacity = 2
    MaxRetries = 2
    InitialBackoff = 1
    MaxBackoff = 3
    BackoffMultiplier = 2
    MaxStarts = 2
    MaxEvents = 3
INVARIANTS
    TypeOK
    OneGoroutinePerStream
    NothingSentIsLost
    RetryPolicyKept
PROPERTIES
    StopReturns
\* Every start is used up and every event handled.
CHECK_DEADLOCK FALSE
