------------------------------- MODULE Daemon -------------------------------
(***************************************************************************)
(* The life of the daemon's process: start, shutdown and daemon.pid        *)
(* (packages/desktop-daemon/src/index.ts), the three servers that bind     *)
(* fixed loopback ports, the service that restarts it, and the commands    *)
(* that start, stop and ask for it (packages/cli/src/install-daemon.ts,    *)
(* `deckagent-daemon --stop` and `--status`).                              *)
(*                                                                         *)
(* One action of a daemon is the code between two awaits.  A pid is used   *)
(* again once the process is gone, but not while daemon.pid still names    *)
(* it: an unrelated process with that pid is left out.                     *)
(***************************************************************************)
EXTENDS Integers, Sequences, FiniteSets

CONSTANTS
    Pids,           \* process ids
    Manual,         \* those of daemons started in a terminal
    ClosesIdle,     \* http.Server.close ends idle connections (Node 19 on)
    MaxEvents,      \* bound: commands, crashes and edits
    None

ASSUME PidsAssumption ==
    IsFiniteSet(Pids) /\ Manual \subseteq Pids /\ None \notin Pids
ASSUME BoundsAssumption == ClosesIdle \in BOOLEAN /\ MaxEvents \in Nat

\* In the order of main: confirmation server, control UI, local server.
Ports == <<"confirmation", "control", "local">>

VARIABLES
    phase,      \* of each process
    started,    \* servers it has started
    port,       \* the process that listens on each port
    pidFile,    \* ~/.deckagent/daemon.pid
    signalled,  \* processes with a SIGTERM they have not handled
    service,    \* what the service manager was told
    main,       \* the service's process
    cli,        \* `deckagent stop` waiting for the service to stop
    readable,   \* config.json and policy.json are there and valid
    tab,        \* a browser tab shows the control page
    wanted,     \* history: the last command was to run or to stop the daemon
    clash,      \* history: two daemons were alive at once
    events

procVars == <<phase, started, port, signalled>>
svcVars  == <<service, main>>
userVars == <<cli, readable, tab, wanted, events>>
vars == <<procVars, pidFile, svcVars, userVars, clash>>

Alive == {p \in Pids : phase[p] # "none"}
Up    == {p \in Pids : phase[p] = "up"}
Held(p) == {i \in 1..3 : port[i] = p}

TypeOK ==
    /\ phase \in [Pids -> {"none", "starting", "up", "stopping", "closed"}]
    /\ started \in [Pids -> 0..3]
    /\ port \in [1..3 -> Pids \union {None}]
    /\ pidFile \in Pids \union {None}
    /\ signalled \subseteq Pids
    /\ service \in {"off", "on", "stopping"}
    /\ main \in (Pids \ Manual) \union {None}
    /\ cli \in {"idle", "waiting"}
    /\ readable \in BOOLEAN /\ tab \in BOOLEAN
    /\ wanted \in {"run", "stop"}
    /\ clash \in BOOLEAN
    /\ events \in 0..MaxEvents

Init ==
    /\ phase = [p \in Pids |-> "none"]
    /\ started = [p \in Pids |-> 0]
    /\ port = [i \in 1..3 |-> None]
    /\ pidFile = None
    /\ signalled = {}
    /\ service = "off" /\ main = None
    /\ cli = "idle" /\ readable \in BOOLEAN /\ tab = FALSE
    /\ wanted = "stop" /\ clash = FALSE
    /\ events = 0

Event == events < MaxEvents /\ events' = events + 1

-----------------------------------------------------------------------------
(* The process.                                                            *)

\* main up to the first await.  With unreadable configuration the process ends
\* before it has written its pid, which changes nothing here.
Boot(p) ==
    /\ phase[p] = "none" /\ pidFile # p
    /\ readable
    /\ phase' = [phase EXCEPT ![p] = "starting"]
    /\ started' = [started EXCEPT ![p] = 0]
    /\ pidFile' = p
    /\ clash' = (clash \/ Alive # {})
    /\ UNCHANGED <<port, signalled, readable, tab>>

\* One of the three starts: listening, or EADDRINUSE and the end of the process,
\* after the servers already started are stopped.
StartServer(p) ==
    LET i == started[p] + 1 IN
    /\ phase[p] = "starting"
    /\ \/ /\ port[i] = None
          /\ port' = [port EXCEPT ![i] = p]
          /\ started' = [started EXCEPT ![p] = i]
          /\ phase' = IF i = 3 THEN [phase EXCEPT ![p] = "up"] ELSE phase
       \/ /\ port[i] # None
          /\ phase' = [phase EXCEPT ![p] = "stopping"]
          /\ UNCHANGED <<port, started>>
    /\ UNCHANGED <<pidFile, signalled, svcVars, userVars, clash>>

HandleSignal_OnceStarted(p) ==
    /\ p \in signalled
    /\ signalled' = signalled \ {p}
    /\ phase' = IF phase[p] = "up" THEN [phase EXCEPT ![p] = "stopping"] ELSE phase
    /\ UNCHANGED <<started, port, pidFile, svcVars, userVars, clash>>

\* SIGTERM: shutdown, unless it is already under way.
HandleSignal(p) ==
    /\ p \in signalled
    /\ signalled' = signalled \ {p}
    /\ phase' = IF phase[p] \in {"starting", "up"} THEN [phase EXCEPT ![p] = "stopping"]
                ELSE phase
    /\ UNCHANGED <<started, port, pidFile, svcVars, userVars, clash>>

\* The listening sockets go with stop(), or with the process.
Release(p) == port' = [i \in 1..3 |-> IF port[i] = p THEN None ELSE port[i]]

Close_OnlyWhole(p) ==
    /\ phase[p] = "stopping" /\ started[p] = 3
    /\ Release(p)
    /\ phase' = [phase EXCEPT ![p] = "closed"]
    /\ UNCHANGED <<started, pidFile, signalled, svcVars, userVars, clash>>

\* controlUi.stop waits for the connections of the control page, the others'
\* are short.
Close(p) ==
    /\ phase[p] = "stopping"
    /\ ClosesIdle \/ ~tab \/ 2 \notin Held(p)
    /\ Release(p)
    /\ phase' = [phase EXCEPT ![p] = "closed"]
    /\ UNCHANGED <<started, pidFile, signalled, svcVars, userVars, clash>>

\* The manager sees its process end; Restart=always spawns another while "on".
Ended(p) ==
    /\ phase' = [phase EXCEPT ![p] = "none"]
    /\ signalled' = signalled \ {p}
    /\ main' = IF main = p THEN None ELSE main
    /\ service' = IF main = p /\ service = "stopping" THEN "off" ELSE service

\* removePid, whatever pid the file names by now, and the end.
Exit(p) ==
    /\ phase[p] = "closed"
    /\ Ended(p)
    /\ pidFile' = None
    /\ UNCHANGED <<started, port, userVars, clash>>

\* A SIGKILL, a power cut: daemon.pid stays.
Crash(p) ==
    /\ p \in Alive /\ Event
    /\ Ended(p)
    /\ Release(p)
    /\ UNCHANGED <<started, pidFile, cli, readable, tab, wanted, clash>>

-----------------------------------------------------------------------------
(* The service and the commands.                                           *)

ServiceSpawns(p) ==
    /\ service = "on" /\ main = None
    /\ p \notin Manual /\ Boot(p)
    /\ main' = p
    /\ UNCHANGED <<service, cli, wanted, events>>

\* runDaemonForeground
RunForeground(p) ==
    /\ p \in Manual /\ Event /\ Boot(p)
    /\ wanted' = "run"
    /\ UNCHANGED <<svcVars, cli>>

StartDaemon ==
    /\ service = "off" /\ cli = "idle" /\ Event
    /\ service' = "on"
    /\ wanted' = "run"
    /\ UNCHANGED <<procVars, pidFile, main, cli, readable, tab, clash>>

\* stopDaemon of the command line, or uninstallDaemonService: the service first,
\* which systemctl waits for,
StopService ==
    /\ cli = "idle" /\ Event
    /\ cli' = "waiting"
    /\ wanted' = "stop"
    /\ service' = IF main # None THEN "stopping" ELSE "off"
    /\ signalled' = signalled \union ({main} \ {None})
    /\ UNCHANGED <<phase, started, port, pidFile, main, readable, tab, clash>>

\* then whatever daemon.pid names, and the file.
StopByPid ==
    /\ cli = "waiting" /\ service = "off"
    /\ cli' = "idle"
    /\ signalled' = signalled \union ({pidFile} \intersect Alive)
    /\ pidFile' = None
    /\ UNCHANGED <<phase, started, port, svcVars, readable, tab, wanted, events, clash>>

\* `deckagent-daemon --stop`, which a service restarts after
DaemonStop ==
    /\ Event
    /\ signalled' = signalled \union ({pidFile} \intersect Alive)
    /\ pidFile' = IF pidFile \in Alive THEN pidFile ELSE None
    /\ UNCHANGED <<phase, started, port, svcVars, cli, readable, tab, wanted, clash>>

SaysRunning == pidFile \in Alive

CheckStatus_Cleans ==
    /\ pidFile' = None
    /\ UNCHANGED <<procVars, svcVars, userVars, clash>>

\* `deckagent-daemon --status` removes a file that names no process.
CheckStatus ==
    /\ pidFile' = IF SaysRunning THEN pidFile ELSE None
    /\ UNCHANGED <<procVars, svcVars, userVars, clash>>

\* The user, or a torn write, changes whether the configuration can be read.
Configure ==
    /\ Event
    /\ readable' = ~readable
    /\ UNCHANGED <<procVars, pidFile, svcVars, cli, tab, wanted, clash>>

\* A tab of the control page keeps a connection by asking every two seconds.
Browse ==
    /\ tab \/ (\E p \in Up : port[2] = p)
    /\ tab' = ~tab
    /\ UNCHANGED <<procVars, pidFile, svcVars, cli, readable, wanted, events, clash>>

Next ==
    \/ \E p \in Pids :
         \/ StartServer(p) \/ HandleSignal(p) \/ Close(p) \/ Exit(p) \/ Crash(p)
         \/ ServiceSpawns(p) \/ RunForeground(p)
    \/ StartDaemon \/ StopService \/ StopByPid
    \/ DaemonStop \/ CheckStatus \/ Configure \/ Browse

\* A running process gets on, a pending signal is handled, systemd spawns the
\* service's process again (every 5 s: fewer than its start limit), and a
\* command that was started goes on.  Nothing makes the user, the tab or a
\* crash act.
Fairness ==
    /\ \A p \in Pids : /\ WF_vars(StartServer(p)) /\ WF_vars(HandleSignal(p))
                       /\ WF_vars(Close(p)) /\ WF_vars(Exit(p))
    /\ WF_vars(\E p \in Pids : ServiceSpawns(p))
    /\ WF_vars(StopByPid)

Spec == Init /\ [][Next]_vars /\ Fairness

-----------------------------------------------------------------------------
(* Properties.                                                             *)

\* As long as no two daemons were alive at once, --status, and --stop with it,
\* know of the one that runs, over crashes, restarts and stale files
\* (index.ts:95, install-daemon.ts:267).
StatusTells == ~clash => \A p \in Up \ signalled : SaysRunning /\ pidFile = p

\* The same without the condition: "Check if the daemon is running"
\* (packages/cli/src/index.ts:43).  A second start that finds the ports taken
\* overwrites daemon.pid and removes it.
StatusTrue == \A p \in Up \ signalled : SaysRunning

\* With the service on, a readable configuration and no daemon in a terminal,
\* the service's daemon is up in the end, whoever held the ports or was
\* signalled before.
ServiceComesUp ==
    <>[](service = "on" /\ readable /\ Manual \intersect Alive = {})
        => <>[](Up \ Manual # {})

\* When the last command was to stop, nothing runs in the end, unless two
\* daemons were alive at once (install-daemon.ts:234).
StopStops == <>[](wanted = "stop" /\ ~clash) => <>[](Alive = {})
=============================================================================
