SPECIFICATION Spec
CONSTANTS
    None = None
    NoGroup = NoGroup
    MaxAmount = 3
    MaxSatoshi = 21
    P2AScript = "p2a"
    WalletKeys = {"mine"}
    Requests <- MCRequests
    Edits <- MCEdits
    Genuine <- MCGenuine
    Signatures <- MCSignatures
    Answers <- MCAnswers
    HostEdits <- MCHostEdits
INVARIANTS
    OutputsAsRequested
    BurnsAllowed
    ValueConserved
    SignersAsRequested
    WalletCostBounded
    CallerValueKept
    InventoryIsTheWallets
    EveryOutputIsProven
    PreviewIsFinal
\* A transfer is committed once.
CHECK_DEADLOCK FALSE
