------------------------------ MODULE Commands ------------------------------
(***************************************************************************)
(* The executor together with the processes of its terminal tools          *)
(* (packages/mcp-server/src/tools/terminal.ts): an abort of the executor   *)
(* becomes a SIGTERM, half a second later a SIGKILL, the end of the shell, *)
(* the close of its pipes and, at last, the end of the tool.               *)
(*                                                                         *)
(* A call of Shell runs one shell.  What the shell itself started may hold *)
(* its pipes open, so the close may come late or never.  Left out are      *)
(* commands that run as another user, which the daemon may not signal.     *)
(***************************************************************************)
EXTENDS ToolExecutor

VARIABLES
    child,      \* the process of each command
    tracked,    \* activeChildren
    ticking,    \* commands whose own timer (timeoutMs) is armed
    doomed,     \* children whose SIGKILL timer is armed
    stopped     \* the children killAllActiveCommands found at the shutdown

commandVars == <<child, tracked, ticking, doomed, stopped>>
allVars == <<vars, commandVars>>

CommandsTypeOK ==
    /\ TypeOK
    /\ child \in [Shell -> {"none", "runs", "gone"}]
    /\ tracked \subseteq Shell /\ ticking \subseteq Shell
    /\ doomed \subseteq Shell /\ stopped \subseteq Shell

CommandsInit ==
    /\ Init
    /\ child = [c \in Shell |-> "none"]
    /\ tracked = {} /\ ticking = {} /\ doomed = {} /\ stopped = {}

-----------------------------------------------------------------------------
(* A command.                                                              *)

\* The tool is called in the stretch that starts its call.  Arguments that do
\* not parse make it throw before anything is spawned, a spawn that fails leaves
\* no process; a stream has no timer of its own.
RunShellCommand(c) ==
    \/ UNCHANGED commandVars
    \/ \E state \in {"runs", "gone"}, timed \in SUBSET {c} :
          /\ child' = [child EXCEPT ![c] = state]
          /\ tracked' = tracked \union {c}
          /\ ticking' = ticking \union timed
          /\ UNCHANGED <<doomed, stopped>>

\* execute(), and its end after the user's decision.
ExecuteTool(c) ==
    /\ \/ Execute(c)
       \/ \E d \in Gate!Decisions : phase # "down" /\ Decided(c, d)
    /\ IF c \in Shell /\ op[c] # op'[c] THEN RunShellCommand(c)
                                        ELSE UNCHANGED commandVars

\* The shell ends, by itself or by a SIGTERM.
ShellExits(c) ==
    /\ child[c] = "runs"
    /\ child' = [child EXCEPT ![c] = "gone"]
    /\ UNCHANGED <<vars, tracked, ticking, doomed, stopped>>

\* 'close' (or 'error', of a spawn that failed): the tool returns, it never
\* throws once there was a process.  The SIGKILL timer is not cleared.
CommandCloses(c) ==
    /\ c \in tracked /\ child[c] = "gone"
    /\ \E what \in {"ok", "failed"} : ToolEnds(c, what)
    /\ tracked' = tracked \ {c} /\ ticking' = ticking \ {c}
    /\ UNCHANGED <<child, doomed, stopped>>

\* The other tools, and the commands that were never spawned.
OtherToolEnds(c) ==
    /\ IF c \in Shell THEN c \notin tracked /\ ToolEnds(c, "error")
       ELSE \E what \in {"ok", "failed", "error"} : ToolEnds(c, what)
    /\ UNCHANGED commandVars

-----------------------------------------------------------------------------
(* Its end by force.                                                       *)

\* forceKill: a SIGTERM, which a shell may ignore, and a timer for the SIGKILL.
ForceKill(cs) ==
    /\ doomed' = doomed \union cs
    /\ UNCHANGED <<child, tracked>>

SigkillDue_UnlessSent(c) ==
    /\ phase # "down" /\ c \in doomed
    /\ doomed' = doomed \ {c}
    /\ UNCHANGED <<vars, child, tracked, ticking, stopped>>

\* SIGKILL_DELAY_MS later, if the shell has not ended meanwhile.
SigkillDue(c) ==
    /\ phase # "down" /\ c \in doomed
    /\ doomed' = doomed \ {c}
    /\ child' = [child EXCEPT ![c] = "gone"]
    /\ UNCHANGED <<vars, tracked, ticking, stopped>>

\* The command's own timer, which no executor's timer clears.
CommandTimeout(c) ==
    /\ phase # "down" /\ c \in ticking
    /\ ticking' = ticking \ {c}
    /\ ForceKill({c})
    /\ UNCHANGED <<vars, stopped>>

\* Every abort of the executor kills every command (killAllActiveCommands).
AbortCall(c) ==
    /\ Timeout(c)
    /\ ForceKill(tracked)
    /\ UNCHANGED <<ticking, stopped>>

AbortCalls ==
    /\ TunnelLost
    /\ ForceKill(tracked)
    /\ UNCHANGED <<ticking, stopped>>

\* The shutdown's own killAllActiveCommands is awaited for SIGKILL_DELAY_MS and
\* 50 ms more: what it found has had its SIGKILL when the process goes on.
BeginShutdown ==
    /\ Shutdown
    /\ ForceKill(tracked)
    /\ stopped' = tracked
    /\ UNCHANGED ticking

WaitIsOver_AtOnce == TRUE

WaitIsOver == stopped \intersect doomed = {}

\* The process takes its timers with it, not its children.
EndProcess ==
    /\ WaitIsOver
    /\ Exit
    /\ ticking' = {} /\ doomed' = {}
    /\ UNCHANGED <<child, tracked, stopped>>

-----------------------------------------------------------------------------

CommandsNext ==
    \/ \E c \in Calls : ExecuteTool(c) \/ OtherToolEnds(c) \/ AbortCall(c)
    \/ \E c \in Shell : \/ ShellExits(c) \/ CommandCloses(c)
                        \/ SigkillDue(c) \/ CommandTimeout(c)
    \/ AbortCalls \/ BeginShutdown \/ EndProcess
    \/ /\ UpdatePolicy \/ \E b \in Buckets : AgeOut(b)
       /\ UNCHANGED commandVars

\* As for the executor; and the SIGKILL timers fire.  Nothing is assumed of the
\* shells, nor of the processes that hold their pipes.
CommandsFairness ==
    /\ \A c \in Calls :
         /\ WF_allVars(AbortCall(c))
         /\ WF_allVars(stage[c] = "confirming" /\ ExecuteTool(c))
    /\ \A c \in Shell : WF_allVars(SigkillDue(c))

CommandsSpec == CommandsInit /\ [][CommandsNext]_allVars /\ CommandsFairness

-----------------------------------------------------------------------------
(* Properties.                                                             *)

\* The command of a call that was reported as timed out does not run for ever,
\* whatever it does about the SIGTERM and whoever's abort ended the call
\* (terminal.ts:32-47, tool-executor.ts:244).
TimedOutCommandsEnd ==
    \A c \in Shell : code[c] = "timeout" ~> child[c] # "runs" \/ phase = "down"

\* What ran when the shutdown began is gone when the process is: the wait of
\* killAllActiveCommands is longer than the delay of its SIGKILL, and timers of
\* earlier aborts do not get in the way (index.ts:255).  (For what starts later
\* see ShutdownKillsAll.)
ShutdownEndsCommands ==
    phase = "down" => \A c \in stopped : child[c] = "gone"
=============================================================================
