\* Cap 1 (3 in the code), so that it is reached; one batch of another tab.
CONSTANTS
    Batches = {b1, b2, b3}
    Foreign = {b3}
    Fetches = {f1, f2, f3, f4}
    MaxContinues = 1
    None = None
SPECIFICATION PageSpec
SYMMETRY FetchSymmetry
CHECK_DEADLOCK FALSE
INVARIANTS CapPerTurn SentOnce
PROPERTY LossesAreKnown
