\* Two connections, a buffered call and a streamed one.  No symmetry, because of
\* the liveness of the refinement.
SPECIFICATION Spec
CONSTANTS
    Sockets = {s1, s2}
    Tools = {t1}
    Streams = {st1}
    Resources = {}
    Device = d
    None = none
    MaxChunks = 2
INVARIANTS PendingUntilAnswered OneReply SessionWhole OutputComplete
PROPERTY ImplementsRemoteCall
\* Every id is used once: a run ends when all sockets and requests are spent.
CHECK_DEADLOCK FALSE
