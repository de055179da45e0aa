SPECIFICATION Spec
CONSTANTS
    Transactions <- MCTransactions
    Plans <- MCPlans
    Blocks <- MCBlocks
    MaxSteps = 2
    MaxCoPaths = 1
    MaxNesting = 1
    MaxPathSize = 68
    ProofSize = 8
    Slots = {s1, s2}
    MaxBlocks = 2
    MaxReorgs = 1
INVARIANTS
    StoredPathsLoad
SYMMETRY SlotSymmetry
CHECK_DEADLOCK FALSE
