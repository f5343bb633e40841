\* The cap is reached: restoring the oldest snapshot.
SPECIFICATION Spec
CONSTANTS
    Calls = {c1, c2}
    Paths = {p1}
    None = none
    Torn = torn
    MaxSnapshots = 1
    MaxActive = 1
INVARIANT ListedCanBeRestored
CHECK_DEADLOCK FALSE
