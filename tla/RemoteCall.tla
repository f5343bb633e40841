----------------------------- MODULE RemoteCall -----------------------------
(***************************************************************************)
(* What the tunnel promises an MCP client, with neither sockets nor        *)
(* timers.  A request is refused outright, and then nothing runs on the    *)
(* user's machine, or it waits; a waiting request gets exactly one answer: *)
(* the daemon's own, which the daemon can only give after it ran the       *)
(* request, or a failure, after which the daemon may have run it or may    *)
(* still run it.  The daemon runs a request at most once.                  *)
(***************************************************************************)
CONSTANT Requests      \* the ids of the requests MCP clients make

VARIABLES
    phase,             \* what the client of each request has been told
    ran                \* the requests the daemon has started

vars == <<phase, ran>>

Phases == {"idle", "refused", "waiting", "answered", "failed"}

Init ==
    /\ phase = [r \in Requests |-> "idle"]
    /\ ran = {}

Refuse(r) ==
    /\ phase[r] = "idle"
    /\ phase' = [phase EXCEPT ![r] = "refused"]
    /\ UNCHANGED ran

Submit(r) ==
    /\ phase[r] = "idle"
    /\ phase' = [phase EXCEPT ![r] = "waiting"]
    /\ UNCHANGED ran

Run(r) ==
    /\ phase[r] \notin {"idle", "refused"}
    /\ r \notin ran
    /\ ran' = ran \union {r}
    /\ UNCHANGED phase

Answer(r) ==
    /\ phase[r] = "waiting"
    /\ r \in ran
    /\ phase' = [phase EXCEPT ![r] = "answered"]
    /\ UNCHANGED ran

\* Several requests may fail in one step: a lost connection fails them all.
Fail(rs) ==
    /\ \A r \in rs : phase[r] = "waiting"
    /\ phase' = [r \in Requests |-> IF r \in rs THEN "failed" ELSE phase[r]]
    /\ UNCHANGED ran

Next ==
    \/ \E r \in Requests : Refuse(r) \/ Submit(r) \/ Run(r) \/ Answer(r)
    \/ \E rs \in SUBSET Requests : Fail(rs)

Safety == Init /\ [][Next]_vars

Served(r) == phase[r] = "waiting" ~> phase[r] \in {"answered", "failed"}

Spec == Safety /\ \A r \in Requests : Served(r)
=============================================================================
