\* Two pids for the service, so that one is free when a crash left daemon.pid
\* naming the other, and two daemons in terminals.
CONSTANTS
    Pids = {p1, p2, m1, m2}
    Manual = {m1, m2}
    ClosesIdle = TRUE
    MaxEvents = 5
    None = None
SPECIFICATION Spec
CHECK_DEADLOCK FALSE
INVARIANT StatusTells
PROPERTIES ServiceComesUp StopStops
