\* The wait's timer is due between the expiry and the sweep, so that every
\* party can win (the daemon's own delays: 60 s, 90 s, a sweep every 5 s).
SPECIFICATION Spec
CONSTANTS
    Approvals = {a1, a2}
    Expire = 4
    Wait = 5
    Keep = 2
    SweepEvery = 2
INVARIANTS ToldIsTrue WaitBounded RecordsDrain
PROPERTY ImplementsGate
\* The daemon exits after Stop.
CHECK_DEADLOCK FALSE
