\* Two runs of setup, two overlapping `deckagent secret`.
SPECIFICATION Spec
CONSTANTS
    MaxRuns = 2
    Clis = {c1, c2}
    Names = {n1, n2}
    Values = {v1}
    Torn = torn
    Absent = absent
INVARIANT RunsWithItsSecrets
PROPERTY SetUpServes
\* Without commands of the user nothing happens.
CHECK_DEADLOCK FALSE
