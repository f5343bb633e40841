\* Two devices, two tokens, two operations in KV at a time; presence outlives
\* a heartbeat interval by one tick, as 90 s outlive the default 15 s.
SPECIFICATION Spec
CONSTANTS
    Devices = {d1, d2}
    Tokens = {t1, t2}
    Handlers = {h1, h2}
    None = none
    Ttl = 2
    Interval = 1
    MaxEvents = 3
INVARIANT LastWriteStands
PROPERTIES SteadyIsServed SettlesOnSole
