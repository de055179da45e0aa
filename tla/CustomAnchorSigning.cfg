SPECIFICATION Spec
CONSTANTS
    None = None
    w1 = w1
    w2 = w2
    Workers <- MCWorkers
    Inputs <- MCInputs
    Txs <- MCTxs
    Metas <- MCMetas
    Bodies <- MCBodies
    PlanOf <- MCPlanOf
    SealedBody = "sealed"
    CommittedPsbt <- MCCommitted
    SuppliedPsbts <- MCSupplied
    DamagedPsbts <- MCDamaged
SYMMETRY Symmetry
INVARIANTS
    TypeOK
    HeldIsGenuine
    PublishedIsAuthorized
    RequestsStayAnswerable
PROPERTIES
    AuthorizationsAreKept
\* A damaged store no worker can reload is the end of the line.
CHECK_DEADLOCK FALSE
