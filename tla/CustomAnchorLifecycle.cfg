SPECIFICATION FairSpec
CONSTANTS
    None = None
    MaxSatoshi = 21
    P2AScript = "p2a"
    Plans <- MCPlans
    Answers <- MCAnswers
    Profiles <- MCProfiles
    RejectionCodes = {"FailedPrecondition", "Unknown"}
    FailureCodes = {"Unavailable", "Unknown"}
    MaxAttempts = 4
INVARIANTS
    TypeOK
    LeasesAreAccounted
    DoneMeansLogged
    P2AParentNotBroadcast
    LoggedWithinBudget
PROPERTIES
    ImplementsTransfer
    LoggedTransfersComplete
\* The transfer is done, or the bound on calls is used up.
CHECK_DEADLOCK FALSE
