\* An interval longer than the acknowledgement timeout (48 s and more), so that
\* every timer fires.
SPECIFICATION Spec
CONSTANTS
    Conns = {c1, c2}
    None = none
    HeartbeatEvery = 4
    AckTimeout = 3
    InitialDelay = 1
    MaxDelay = 3
    LateClose = FALSE
INVARIANTS NoOrphans SilenceBounded
PROPERTIES GivingUpIsFinal Reconnects
