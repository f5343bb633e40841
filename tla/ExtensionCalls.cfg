\* A batch of two calls; two switches of the popup: off and on again.
CONSTANTS
    Sockets = {s1, s2}
    Batches = {b1}
    Size = 2
    None = None
    MaxToggles = 2
SPECIFICATION Spec
CHECK_DEADLOCK FALSE
INVARIANTS SocketsBounded ResultsTrue
PROPERTIES EveryBatchDelivered Reconnects
