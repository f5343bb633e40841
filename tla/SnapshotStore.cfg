\* Three calls on two files, two at a time, a cap of two snapshots.
SPECIFICATION Spec
CONSTANTS
    Calls = {c1, c2, c3}
    Paths = {p1, p2}
    None = none
    Torn = torn
    MaxSnapshots = 2
    MaxActive = 2
SYMMETRY CallSymmetry
INVARIANTS RestoreWorks StoreInOrder
PROPERTY NothingLost
\* Every call is made once: a run ends when all are over.
CHECK_DEADLOCK FALSE
