SPECIFICATION Spec
CONSTANTS
    None = None
    w1 = w1
    w2 = w2
    Workers <- MCWorkers
    Inputs <- MCInputs
    Txs <- MCTxs
    Metas <- MCMetas
    Bodies <- MCBodies
    PlanOf <- MCPlanOf
    SealedBody = "sealed"
    CommittedPsbt <- MCCommitted
    SuppliedPsbts <- MCSupplied
    DamagedPsbts <- MCDamaged
INVARIANTS
    VerifiedMetadataMatches
CHECK_DEADLOCK FALSE
