\* Two sessions, late requests, and another minter on the daemon.
SPECIFICATION CoordinatorSpec
CONSTANTS
    s1 = s1
    s2 = s2
    f1 = f1
    None = None
    Calls = {s1, s2}
    External = {s1, s2}
    Foreign = {f1}
    Grouped = {f1}
    SpecOf <- MCSpecOf
    Late = TRUE
    Mines = TRUE
SYMMETRY Symmetry
INVARIANTS NoRecordReturnedTwice StrandedOnlyByLoss
PROPERTY SessionsEndOnce
\* A session may wait for ever, and every session ends.
CHECK_DEADLOCK FALSE
