\* Two calls for one asset, one with an external signer, on a daemon where somebody
\* else mints a lookalike and requests may outlive their calls.
SPECIFICATION FairSpec
CONSTANTS
    c1 = c1
    c2 = c2
    f1 = f1
    None = None
    Calls = {c1, c2}
    External = {c2}
    Foreign = {f1}
    Odd = {}
    SpecOf <- MCSpecOf
    Late = TRUE
INVARIANTS TypeOK ResultIsOwn TimeoutMeansAccepted
PROPERTY CallsReturn
\* Every call ends; nothing is left to do.
CHECK_DEADLOCK FALSE
