------------------------------ MODULE UserGate ------------------------------
(***************************************************************************)
(* What the confirmation server promises the tool executor, without pages, *)
(* timers or time: a call that asks waits, and gets one decision, which    *)
(* never changes.  Several calls may be decided in one step.               *)
(***************************************************************************)
CONSTANT Requests

VARIABLE gate      \* per request: "none", "waiting", or the decision

Decisions == {"approved", "denied", "expired", "timeout"}

Init == gate = [r \in Requests |-> "none"]

Ask(r) ==
    /\ gate[r] = "none"
    /\ gate' = [gate EXCEPT ![r] = "waiting"]

Decide(rs, d) ==
    /\ \A r \in rs : gate[r] = "waiting"
    /\ gate' = [r \in Requests |-> IF r \in rs THEN d ELSE gate[r]]

Next ==
    \/ \E r \in Requests : Ask(r)
    \/ \E rs \in SUBSET Requests, d \in Decisions : Decide(rs, d)

Safety == Init /\ [][Next]_gate

Spec == Safety /\ \A r \in Requests : gate[r] = "waiting" ~> gate[r] \in Decisions
=============================================================================
