---------------------------- MODULE ToolExecutor ----------------------------
(***************************************************************************)
(* The daemon's tool executor                                              *)
(* (packages/desktop-daemon/src/tool-executor.ts) with the budgets         *)
(* (budgets.ts), the child processes of the terminal tools                 *)
(* (mcp-server/src/tools/terminal.ts) and the daemon's shutdown (index.ts).*)
(*                                                                         *)
(* One action is the code between two awaits.  execute() awaits the user's *)
(* decision and the tool; everything else of it is synchronous.  The       *)
(* confirmation server is UserGate, which Confirmation implements.         *)
(***************************************************************************)
EXTENDS Integers, FiniteSets

CONSTANTS
    Calls,          \* invocations of execute()
    Ids,            \* the ids clients give them
    IdOf,           \* the id of each call; local clients may repeat one
    Shell,          \* calls that run a child process
    Writes,         \* calls that write files
    Local,          \* calls of the extension, the others are the Worker's
    Confirmable,    \* calls policy wants confirmed
    Limit,          \* policy.budgets
    None

Buckets == {"calls", "shell", "bytes", "confirmations"}

ASSUME CallsAssumption ==
    /\ IsFiniteSet(Calls)
    /\ None \notin Calls
    /\ IdOf \in [Calls -> Ids]
    /\ Shell \subseteq Calls /\ Writes \subseteq Calls \ Shell
    /\ Local \subseteq Calls /\ Confirmable \subseteq Calls

ASSUME LimitAssumption == Limit \in [Buckets -> Nat \ {0}]

VARIABLES
    stage,      \* where execute() is
    code,       \* its outcome
    active,     \* activeExecutions: the call whose controller an id has
    gate,       \* the confirmation server, see UserGate
    op,         \* the tool's own work, which outlives an abort
    killed,     \* children that were sent SIGTERM and SIGKILL
    used,       \* budgets.json, entries of the last hour
    readOnly,   \* policy.read_only
    phase,      \* of the daemon's process
    peak,       \* history: the most calls in flight at once
    expired     \* history: calls whose timeout fired

runVars  == <<stage, code, active, op, killed, used>>
pastVars == <<peak, expired>>
vars == <<runVars, gate, readOnly, phase, pastVars>>

Gate == INSTANCE UserGate WITH Requests <- Calls

Outcomes == {"ok", "failed", "blocked", "budget", "denied", "required",
             "timeout", "error"}
Mutating == Shell \union Writes

TypeOK ==
    /\ stage \in [Calls -> {"idle", "confirming", "running", "done"}]
    /\ code \in [Calls -> {"none"} \union Outcomes]
    /\ active \in [Ids -> Calls \union {None}]
    /\ gate \in [Calls -> {"none", "waiting"} \union Gate!Decisions]
    /\ op \in [Calls -> {"none", "going", "finished"}]
    /\ killed \subseteq Shell
    /\ used \in [Buckets -> Nat]
    /\ readOnly \in BOOLEAN
    /\ phase \in {"up", "stopping", "down"}
    /\ peak \in Nat
    /\ expired \subseteq Calls

Init ==
    /\ stage = [c \in Calls |-> "idle"]
    /\ code = [c \in Calls |-> "none"]
    /\ active = [i \in Ids |-> None]
    /\ Gate!Init
    /\ op = [c \in Calls |-> "none"]
    /\ killed = {}
    /\ used = [b \in Buckets |-> 0]
    /\ readOnly \in BOOLEAN
    /\ phase = "up"
    /\ peak = 0 /\ expired = {}

-----------------------------------------------------------------------------
(* Budgets.                                                                *)

CheckBudget_OffByOne(forConfirmation) ==
    \A b \in Buckets \ (IF forConfirmation THEN {} ELSE {"confirmations"}) :
        used[b] <= Limit[b]

\* checkBudget
CheckBudget(forConfirmation) ==
    \A b \in Buckets \ (IF forConfirmation THEN {} ELSE {"confirmations"}) :
        used[b] < Limit[b]

\* recordToolCall, recordShellSeconds and recordBytesWritten after a tool that
\* did not throw; amounts are counted in units of one call.
Spent(c) ==
    {"calls"} \union (IF c \in Shell THEN {"shell"} ELSE {})
              \union (IF c \in Writes THEN {"bytes"} ELSE {})

Record(bs) == used' = [b \in Buckets |-> IF b \in bs THEN used[b] + 1 ELSE used[b]]

\* pruneState: the oldest entry is an hour old.
AgeOut(b) ==
    /\ used[b] > 0
    /\ used' = [used EXCEPT ![b] = @ - 1]
    /\ UNCHANGED <<stage, code, active, op, killed, gate, readOnly, phase, pastVars>>

-----------------------------------------------------------------------------
(* execute().                                                              *)

InFlight == {c \in Calls : stage[c] \in {"confirming", "running"}}

Ended(cs, what) ==
    /\ stage' = [c \in Calls |-> IF c \in cs THEN "done" ELSE stage[c]]
    /\ code' = [c \in Calls |-> IF c \in cs THEN what ELSE code[c]]

\* The call gets its controller, its timer and its tool.
Start(c) ==
    /\ stage' = [stage EXCEPT ![c] = "running"]
    /\ active' = [active EXCEPT ![IdOf[c]] = c]
    /\ op' = [op EXCEPT ![c] = "going"]
    /\ UNCHANGED code

\* checkFileReadSize is about reads; whether a file is too large is left open.
MayBeTooLarge(c) == c \notin Mutating

StartOrRefuse(c) ==
    \/ Start(c)
    \/ MayBeTooLarge(c) /\ Ended({c}, "blocked") /\ UNCHANGED <<active, op>>

PolicyBlocks(c) == readOnly /\ c \in Mutating

Refuse(c) ==
    /\ \/ PolicyBlocks(c) /\ Ended({c}, "blocked")
       \/ ~PolicyBlocks(c) /\ ~CheckBudget(c \in Confirmable) /\ Ended({c}, "budget")
    /\ UNCHANGED <<active, op, gate, used, peak>>

\* The check, the count of a confirmation and the question are one stretch.
Admit(c) ==
    /\ ~PolicyBlocks(c) /\ CheckBudget(c \in Confirmable)
    /\ IF c \in Confirmable
       THEN /\ Record({"confirmations"})
            /\ Gate!Ask(c)
            /\ stage' = [stage EXCEPT ![c] = "confirming"]
            /\ UNCHANGED <<code, active, op>>
       ELSE StartOrRefuse(c) /\ UNCHANGED <<gate, used>>
    /\ peak' = IF Cardinality(InFlight') > peak THEN Cardinality(InFlight') ELSE peak

\* Until the process exits calls come in, the last ones from local clients.
Execute(c) ==
    /\ phase # "down" /\ stage[c] = "idle"
    /\ Refuse(c) \/ Admit(c)
    /\ UNCHANGED <<killed, readOnly, phase, expired>>

CodeOf(d) == IF d = "denied" THEN "denied" ELSE "required"

Decided_UnlessDenied(c, d) ==
    /\ stage[c] = "confirming"
    /\ Gate!Decide({c}, d)
    /\ IF d # "denied" THEN StartOrRefuse(c)
                       ELSE Ended({c}, CodeOf(d)) /\ UNCHANGED <<active, op>>
    /\ UNCHANGED <<killed, used, readOnly, phase, pastVars>>

\* awaitLocalConfirmation goes on.
Decided(c, d) ==
    /\ stage[c] = "confirming"
    /\ Gate!Decide({c}, d)
    /\ IF d = "approved" THEN StartOrRefuse(c)
                         ELSE Ended({c}, CodeOf(d)) /\ UNCHANGED <<active, op>>
    /\ UNCHANGED <<killed, used, readOnly, phase, pastVars>>

\* activeExecutions.delete(id), whoever's controller it has.
Forget(cs) ==
    active' = [i \in Ids |-> IF \E c \in cs : IdOf[c] = i THEN None ELSE active[i]]

\* The tool's promise settles: it returns ("ok", or "failed" with isError, as
\* most killed commands do) or throws ("error", which is not counted).  After an
\* abort nobody listens.
ToolEnds(c, what) ==
    /\ phase # "down" /\ op[c] = "going"
    /\ op' = [op EXCEPT ![c] = "finished"]
    /\ IF stage[c] = "running"
       THEN /\ Ended({c}, what) /\ Forget({c})
            /\ Record(IF what = "error" THEN {} ELSE Spent(c))
       ELSE UNCHANGED <<stage, code, active, used>>
    /\ UNCHANGED <<killed, gate, readOnly, phase, pastVars>>

\* killAllActiveCommands
KillAll == killed' = killed \union {c \in Shell : op[c] = "going"}

Timeout_ByMap(c) ==
    /\ phase # "down" /\ stage[c] = "running" /\ active[IdOf[c]] = c
    /\ Ended({c}, "timeout") /\ Forget({c})
    /\ KillAll
    /\ expired' = expired \union {c}
    /\ UNCHANGED <<op, used, gate, readOnly, phase, peak>>

\* The call's timer aborts its controller.
Timeout(c) ==
    /\ phase # "down" /\ stage[c] = "running"
    /\ Ended({c}, "timeout") /\ Forget({c})
    /\ KillAll
    /\ expired' = expired \union {c}
    /\ UNCHANGED <<op, used, gate, readOnly, phase, peak>>

-----------------------------------------------------------------------------
(* The connection to the Worker, the control UI and the process.           *)

AbortAll_KeepsMap ==
    LET aborted == {c \in Calls : \E i \in Ids : active[i] = c}
    IN  /\ Ended(aborted, "timeout")
        /\ UNCHANGED active
        /\ KillAll

\* abortAll: every controller in the map, then every command.
AbortAll ==
    LET aborted == {c \in Calls : \E i \in Ids : active[i] = c}
    IN  /\ Ended(aborted, "timeout")
        /\ active' = [i \in Ids |-> None]
        /\ KillAll

\* The tunnel client's onClose.
TunnelLost ==
    /\ phase # "down"
    /\ AbortAll
    /\ UNCHANGED <<op, used, gate, readOnly, phase, pastVars>>

\* setPolicy for the control UI.
UpdatePolicy ==
    /\ phase # "down"
    /\ readOnly' = ~readOnly
    /\ UNCHANGED <<runVars, gate, phase, pastVars>>

\* shutdown, up to its first await: disconnect(), abortAll() and the kill.
Shutdown ==
    /\ phase = "up"
    /\ phase' = "stopping"
    /\ AbortAll
    /\ UNCHANGED <<op, used, gate, readOnly, pastVars>>

\* The servers stop, what waits for the user expires, the process exits.
Exit ==
    /\ phase = "stopping"
    /\ phase' = "down"
    /\ LET waiting == {c \in Calls : gate[c] = "waiting"}
       IN  Gate!Decide(waiting, "expired") /\ Ended(waiting, "required")
    /\ UNCHANGED <<active, op, killed, used, readOnly, pastVars>>

CallStep(c) ==
    \/ Execute(c)
    \/ \E d \in Gate!Decisions : phase # "down" /\ Decided(c, d)
    \/ \E what \in {"ok", "failed", "error"} : ToolEnds(c, what)
    \/ Timeout(c)

Next ==
    \/ \E c \in Calls : CallStep(c)
    \/ \E b \in Buckets : AgeOut(b)
    \/ TunnelLost \/ UpdatePolicy \/ Shutdown \/ Exit

\* Timers fire, and the confirmation server decides (Confirmation's
\* ImplementsGate).  Nothing is assumed of the tools.
Fairness ==
    \A c \in Calls :
        /\ WF_vars(Timeout(c))
        /\ WF_vars(\E d \in Gate!Decisions : phase # "down" /\ Decided(c, d))

Spec == Init /\ [][Next]_vars /\ Fairness

-----------------------------------------------------------------------------
(* Properties.                                                             *)

\* No tool that policy wants confirmed starts unless the user approved this
\* very call.
NothingUnconfirmed ==
    \A c \in Confirmable : op[c] # "none" => gate[c] = "approved"

\* However many calls overlap, the user is asked no more often than the budget
\* says: nothing awaits between the check and the count.
ConfirmationsCapped == used["confirmations"] <= Limit["confirmations"]

\* The budget of tool calls is counted late, so overlapping calls overshoot
\* it, but by fewer calls than overlap; calls made one after the other never
\* do.
OvershootBounded ==
    used["calls"] + Cardinality(InFlight) <= Limit["calls"] + peak - 1

\* The map only has controllers of running calls: an abort can do nothing to
\* one that ended, and nothing leaks.
ActiveAreRunning ==
    \A i \in Ids : active[i] # None => stage[active[i]] = "running" /\ IdOf[active[i]] = i

\* A running call whose id no other call repeats can be aborted.
RunningAreActive ==
    \A c \in Calls :
        /\ stage[c] = "running"
        /\ \A d \in Calls : IdOf[d] = IdOf[c] => d = c
        => active[IdOf[c]] = c

\* The outcome of a call is final: a tool that ends after its call was aborted,
\* or a second abort, changes nothing.
OutcomeIsFinal ==
    [][\A c \in Calls : stage[c] = "done" => stage'[c] = "done" /\ code'[c] = code[c]]_vars

\* Every call ends, even if its tool never does, the user never looks or its
\* id is used twice.
EveryCallEnds ==
    \A c \in Calls : c \in InFlight ~> (stage[c] = "done" \/ phase = "down")

-----------------------------------------------------------------------------
(* What the repository says and the code does not do.                      *)

\* README.md: "read_only - disable all mutation tools".  None starts while it
\* is on.
ReadOnlyStops ==
    [][\A c \in Mutating : op[c] = "none" /\ op'[c] # "none" => ~readOnly]_vars

\* system_prompt.md: "TOOL_TIMEOUT - The command took too long".
TimeoutMeansTooLong == \A c \in Local : code[c] = "timeout" => phase # "up" \/ c \in expired

\* terminal.ts: "Kill all tracked child processes (for abort/shutdown)."
ShutdownKillsAll ==
    phase = "down" => \A c \in Shell : op[c] = "going" => c \in killed
=============================================================================
