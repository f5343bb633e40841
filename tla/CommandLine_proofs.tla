------------------------- MODULE CommandLine_proofs -------------------------
(***************************************************************************)
(* Theorems about the commands and what they leave behind: the daemon's    *)
(* process (Daemon), for any pids and any number of events, and the setup  *)
(* and its secrets (Setup), for any number of runs, processes, names and   *)
(* values.                                                                 *)
(***************************************************************************)
EXTENDS Daemon, Vault, TLAPS

\* Setup's own parameters and state.  Its `service` is coarser than Daemon's,
\* and is kept apart.
CONSTANT MaxRuns
VARIABLES stage, run, sure, wrangler, cloud, devices, config, policy, kept, daemon,
          boot, raced

Setup == INSTANCE Setup WITH service <- kept

-----------------------------------------------------------------------------
(* One daemon, and what --status says of it.                               *)

Phases == {"none", "starting", "up", "stopping", "closed"}

Types == phase \in [Pids -> Phases]

Alone == \A p, q \in Alive : p = q

\* A daemon that starts or runs, and was not told to stop, is the one that
\* daemon.pid names.
Named == \A p \in Alive \ signalled :
            phase[p] \in {"starting", "up"} => pidFile = p

\* StatusTells says nothing of a daemon that is still starting, nor of two that
\* are alive with one of them ending: its removePid would take the other's file.
IInv == Types /\ (~clash => Alone /\ Named)

LEMMA InitIInv == Init => IInv
  BY DEF Init, IInv, Types, Phases, Alone, Named, Alive

\* main writes the file; if another daemon was alive, they clash.
LEMMA BootIInv ==
    ASSUME IInv, NEW p \in Pids, Boot(p)
    PROVE  IInv'
  <1>1. Types'
    BY DEF Boot, IInv, Types, Phases
  <1>2. ASSUME ~clash' PROVE \A q \in Pids : phase'[q] # "none" => q = p
    BY <1>2 DEF Boot, IInv, Types, Alive
  <1>3. QED
    BY <1>1, <1>2 DEF Boot, IInv, Alone, Named, Alive

\* A step of one process, which is the only one unless they clash.
LEMMA ProcessIInv ==
    ASSUME IInv, NEW p \in Pids,
           \/ StartServer(p) \/ HandleSignal(p) \/ Close(p) \/ Exit(p)
           \/ Crash(p)
    PROVE  IInv'
  <1> USE DEF IInv, Types, Phases, Alone, Named, Alive
  <1>1. CASE StartServer(p)
    BY <1>1 DEF StartServer
  <1>2. CASE HandleSignal(p)
    BY <1>2 DEF HandleSignal
  <1>3. CASE Close(p)
    BY <1>3 DEF Close
  <1>4. CASE Exit(p)
    BY <1>4 DEF Exit, Ended
  <1>5. CASE Crash(p)
    BY <1>5 DEF Crash, Ended
  <1>6. QED
    BY <1>1, <1>2, <1>3, <1>4, <1>5

\* The commands signal the daemon the file names before they remove the file.
LEMMA CommandIInv ==
    ASSUME IInv, StopService \/ StopByPid \/ DaemonStop \/ CheckStatus
    PROVE  IInv'
  <1> USE DEF IInv, Types, Alone, Named, Alive
  <1>1. CASE StopService
    BY <1>1 DEF StopService
  <1>2. CASE StopByPid
    BY <1>2 DEF StopByPid
  <1>3. CASE DaemonStop
    BY <1>3 DEF DaemonStop
  <1>4. CASE CheckStatus
    BY <1>4 DEF CheckStatus, SaysRunning, procVars
  <1>5. QED
    BY <1>1, <1>2, <1>3, <1>4

LEMMA NextIInv == IInv /\ [Next]_vars => IInv'
  <1> SUFFICES ASSUME IInv, [Next]_vars PROVE IInv'
    OBVIOUS
  <1>1. ASSUME NEW p \in Pids, ServiceSpawns(p) \/ RunForeground(p) PROVE IInv'
    BY <1>1, BootIInv DEF ServiceSpawns, RunForeground
  <1>2. CASE StartDaemon \/ Configure \/ Browse \/ UNCHANGED vars
    BY <1>2 DEF StartDaemon, Configure, Browse, vars, procVars, IInv, Types,
                Alone, Named, Alive
  <1>3. QED
    BY <1>1, <1>2, ProcessIInv, CommandIInv DEF Next

\* As long as no two daemons were alive at once, --status and --stop know of
\* the daemon that runs, over any crashes, restarts, stale files and commands
\* (index.ts:95).
THEOREM StatusIsRight == Spec => []StatusTells
  <1>1. IInv => StatusTells
    BY DEF IInv, StatusTells, Types, Named, Alive, Up, SaysRunning
  <1>2. QED
    BY InitIInv, NextIInv, <1>1, PTL DEF Spec

-----------------------------------------------------------------------------
(* What is left running by a stop, and who has the ports: what can be      *)
(* proved of StopStops and ServiceComesUp without fairness.                *)

\* A command that stops stops the service first.
StopTold ==
    wanted = "stop" => /\ service # "on"
                       /\ cli = "idle" => service = "off"

\* When the stop has returned, every daemon that still lives is ending, or has
\* a SIGTERM to handle.
StopReaches ==
    wanted = "stop" /\ ~clash /\ cli = "idle" =>
        \A p \in Alive : p \in signalled \/ phase[p] \in {"stopping", "closed"}

StopInv == IInv /\ StopTold /\ StopReaches

LEMMA StopStep == StopInv /\ [Next]_vars => StopInv'
  <1> SUFFICES ASSUME StopInv, [Next]_vars PROVE StopInv'
    OBVIOUS
  <1> USE DEF StopInv, StopTold, StopReaches, Alive
  <1>a. IInv'
    BY NextIInv
  <1>t. Types
    BY DEF IInv
  <1>1. ASSUME NEW p \in Pids, StartServer(p) PROVE StopInv'
    BY <1>1, <1>a, <1>t DEF StartServer, svcVars, userVars, Types
  <1>2. ASSUME NEW p \in Pids, HandleSignal(p) PROVE StopInv'
    BY <1>2, <1>a, <1>t DEF HandleSignal, svcVars, userVars, Types, Phases
  <1>3. ASSUME NEW p \in Pids, Close(p) PROVE StopInv'
    BY <1>3, <1>a, <1>t DEF Close, svcVars, userVars, Types
  <1>4. ASSUME NEW p \in Pids, Exit(p) \/ Crash(p) PROVE StopInv'
    BY <1>4, <1>a, <1>t DEF Exit, Crash, Ended, userVars, Types
  <1>5. ASSUME NEW p \in Pids, ServiceSpawns(p) PROVE StopInv'
    BY <1>5, <1>a DEF ServiceSpawns
  <1>6. ASSUME NEW p \in Pids, RunForeground(p) PROVE StopInv'
    BY <1>6, <1>a DEF RunForeground
  <1>7. CASE StartDaemon
    BY <1>7, <1>a DEF StartDaemon
  <1>8. CASE StopService
    BY <1>8, <1>a DEF StopService
  <1>9. CASE StopByPid
    <2>1. ~clash => \A p \in Alive \ signalled :
                       phase[p] \in {"starting", "up"} => pidFile = p
      BY DEF IInv, Named
    <2>2. \A p \in Alive : phase[p] \in {"starting", "up", "stopping", "closed"}
      BY <1>t DEF Types, Phases
    <2>3. StopReaches'
      BY <1>9, <2>1, <2>2 DEF StopByPid
    <2>4. StopTold'
      BY <1>9 DEF StopByPid, svcVars
    <2>5. QED
      BY <1>a, <2>3, <2>4
  <1>10. CASE DaemonStop
    BY <1>10, <1>a DEF DaemonStop, svcVars
  <1>11. CASE CheckStatus \/ Configure \/ Browse \/ UNCHANGED vars
    BY <1>11, <1>a DEF CheckStatus, Configure, Browse, vars, procVars, svcVars, userVars
  <1>12. QED
    BY <1>1, <1>2, <1>3, <1>4, <1>5, <1>6, <1>7, <1>8, <1>9, <1>10, <1>11 DEF Next

\* `deckagent stop` misses no daemon, over any crashes, restarts and stale
\* files, as long as no two were alive at once (install-daemon.ts:234).
THEOREM StopMissesNoDaemon == Spec => []StopReaches
  <1>1. Init => StopInv
    BY InitIInv DEF Init, StopInv, StopTold, StopReaches, Alive
  <1>2. StopInv => StopReaches
    BY DEF StopInv
  <1>3. QED
    BY <1>1, <1>2, StopStep, PTL DEF Spec

\* A port is held by a living process that started its server and has not
\* stopped it; a daemon that is up has all three.
Holds(p, i) ==
    phase[p] \in {"starting", "up", "stopping"} /\ i <= started[p]

PortsOwned ==
    /\ port \in [1..3 -> Pids \union {None}]
    /\ started \in [Pids -> 0..3]
    /\ \A p \in Pids : /\ phase[p] = "up" => started[p] = 3
                       /\ phase[p] = "starting" => started[p] < 3
                       /\ \A i \in 1..3 : port[i] = p <=> Holds(p, i)

\* The service knows its process: it lives, and no other of its processes does.
MainLives ==
    /\ main # None => main \in Alive \ Manual
    /\ \A p \in Alive \ Manual : p = main

ServedInv == Types /\ PortsOwned /\ MainLives

\* Whoever clashed before, the ports make one daemon the one that is up, and no
\* port is kept by a process that is gone.
OneServes ==
    /\ \A p, q \in Up : p = q
    /\ \A p \in Up : Held(p) = 1..3
    /\ \A i \in 1..3 : port[i] # None => port[i] \in Alive
    /\ main # None => main \in Alive

LEMMA ReleasePorts ==
    ASSUME Types, PortsOwned, NEW p \in Pids, Release(p), UNCHANGED started,
           NEW how \in {"none", "closed"}, phase' = [phase EXCEPT ![p] = how]
    PROVE  Types' /\ PortsOwned'
  <1> USE PidsAssumption DEF Types, Phases, PortsOwned, Holds, Release
  <1>1. \A q \in Pids : phase'[q] = IF q = p THEN how ELSE phase[q]
    OBVIOUS
  <1>2. port' \in [1..3 -> Pids \union {None}]
    OBVIOUS
  <1>3. \A q \in Pids, i \in 1..3 : port'[i] = q <=> q # p /\ port[i] = q
    OBVIOUS
  <1>4. QED
    BY <1>1, <1>2, <1>3

LEMMA BootServed ==
    ASSUME ServedInv, NEW p \in Pids, Boot(p),
           main' = IF p \in Manual THEN main ELSE p,
           p \in Manual \/ main = None
    PROVE  ServedInv'
  <1>1. Types'
    BY DEF Boot, ServedInv, Types, Phases
  <1>2. PortsOwned'
    BY DEF Boot, ServedInv, Types, Phases, PortsOwned, Holds
  <1>3. MainLives'
    BY PidsAssumption DEF Boot, ServedInv, Types, MainLives, Alive
  <1>4. QED
    BY <1>1, <1>2, <1>3 DEF ServedInv

LEMMA ServedStep == ServedInv /\ [Next]_vars => ServedInv'
  <1> SUFFICES ASSUME ServedInv, [Next]_vars PROVE ServedInv'
    OBVIOUS
  <1>1. ASSUME NEW p \in Pids, StartServer(p) PROVE ServedInv'
    <2> USE DEF ServedInv, Types, Phases
    <2>1. started[p] \in 0..2 /\ started[p] + 1 \in 1..3 /\ phase[p] = "starting"
      BY <1>1 DEF StartServer, PortsOwned
    <2>2. MainLives'
      BY <1>1 DEF StartServer, svcVars, MainLives, Alive
    <2>3. CASE /\ port[started[p] + 1] = None
               /\ port' = [port EXCEPT ![started[p] + 1] = p]
               /\ started' = [started EXCEPT ![p] = started[p] + 1]
               /\ phase' = IF started[p] + 1 = 3 THEN [phase EXCEPT ![p] = "up"] ELSE phase
      <3>1. Types'
        BY <2>3
      <3>2. \A q \in Pids \ {p} : phase'[q] = phase[q] /\ started'[q] = started[q]
        BY <2>3 DEF PortsOwned
      <3>3. /\ started'[p] = started[p] + 1
            /\ phase'[p] = IF started[p] = 2 THEN "up" ELSE "starting"
        BY <2>1, <2>3 DEF PortsOwned
      <3>4. \A i \in 1..3 : port'[i] = IF i = started[p] + 1 THEN p ELSE port[i]
        BY <2>1, <2>3 DEF PortsOwned
      <3>5. \A i \in 1..3 : port'[i] = p <=> Holds(p, i)'
        BY <2>1, <3>3, <3>4 DEF PortsOwned, Holds
      <3>6. \A q \in Pids \ {p}, i \in 1..3 : port'[i] = q <=> Holds(q, i)'
        BY <2>1, <2>3, <3>2, <3>4, PidsAssumption DEF PortsOwned, Holds
      <3>7. port' \in [1..3 -> Pids \union {None}] /\ started' \in [Pids -> 0..3]
        BY <2>1, <2>3 DEF PortsOwned
      <3>8. \A q \in Pids : /\ phase'[q] = "up" => started'[q] = 3
                            /\ phase'[q] = "starting" => started'[q] < 3
        BY <2>1, <3>2, <3>3 DEF PortsOwned
      <3>9. PortsOwned'
        BY <3>5, <3>6, <3>7, <3>8 DEF PortsOwned
      <3>10. QED
        BY <2>2, <3>1, <3>9
    <2>4. CASE phase' = [phase EXCEPT ![p] = "stopping"] /\ UNCHANGED <<port, started>>
      BY <2>1, <2>2, <2>4 DEF PortsOwned, Holds
    <2>5. QED
      BY <1>1, <2>3, <2>4 DEF StartServer
  <1>2. ASSUME NEW p \in Pids, HandleSignal(p) PROVE ServedInv'
    <2> USE DEF ServedInv, Types, Phases
    <2>1. /\ phase' = [phase EXCEPT ![p] = "stopping"] /\ phase[p] \in {"starting", "up"}
          \/ phase' = phase
      BY <1>2 DEF HandleSignal
    <2>2. UNCHANGED <<started, port, main>>
      BY <1>2 DEF HandleSignal, svcVars
    <2>3. Types'
      BY <2>1
    <2>4. PortsOwned'
      BY <2>1, <2>2 DEF PortsOwned, Holds
    <2>5. MainLives'
      BY <2>1, <2>2 DEF MainLives, Alive
    <2>6. QED
      BY <2>3, <2>4, <2>5
  <1>3. ASSUME NEW p \in Pids, Close(p) PROVE ServedInv'
    <2>1. Types' /\ PortsOwned'
      BY <1>3, ReleasePorts DEF Close, ServedInv
    <2>2. MainLives'
      BY <1>3 DEF Close, svcVars, ServedInv, Types, MainLives, Alive
    <2>3. QED
      BY <2>1, <2>2 DEF ServedInv
  <1>4. ASSUME NEW p \in Pids, Exit(p) \/ Crash(p) PROVE ServedInv'
    <2>1. MainLives'
      BY <1>4 DEF Exit, Crash, Ended, ServedInv, Types, MainLives, Alive
    <2>2. Types' /\ PortsOwned'
      <3>1. CASE Crash(p)
        BY <3>1, ReleasePorts DEF Crash, Ended, ServedInv
      <3>2. CASE Exit(p)
        BY <3>2 DEF Exit, Ended, ServedInv, Types, Phases, PortsOwned, Holds
      <3>3. QED
        BY <1>4, <3>1, <3>2
    <2>3. QED
      BY <2>1, <2>2 DEF ServedInv
  <1>5. ASSUME NEW p \in Pids, ServiceSpawns(p) \/ RunForeground(p) PROVE ServedInv'
    <2>1. CASE ServiceSpawns(p)
      BY <2>1, BootServed DEF ServiceSpawns
    <2>2. CASE RunForeground(p)
      BY <2>2, BootServed DEF RunForeground, svcVars
    <2>3. QED
      BY <1>5, <2>1, <2>2
  <1>6. CASE StartDaemon \/ StopService \/ StopByPid \/ DaemonStop
    BY <1>6 DEF StartDaemon, StopService, StopByPid, DaemonStop, procVars, svcVars,
                ServedInv, Types, PortsOwned, Holds, MainLives, Alive
  <1>7. CASE CheckStatus \/ Configure \/ Browse \/ UNCHANGED vars
    BY <1>7 DEF CheckStatus, Configure, Browse, vars, procVars, svcVars,
                ServedInv, Types, PortsOwned, Holds, MainLives, Alive
  <1>8. QED
    BY <1>1, <1>2, <1>3, <1>4, <1>5, <1>6, <1>7 DEF Next

\* Two daemons are never up at once, whoever started them, and a port taken is
\* taken by a process that lives: none is lost to a crash or a start that failed
\* half way (index.ts:304-325, 255).
THEOREM OneDaemonServes == Spec => []OneServes
  <1>1. Init => ServedInv
    BY PidsAssumption DEF Init, ServedInv, Types, Phases, PortsOwned, Holds, MainLives, Alive
  <1>2. ASSUME ServedInv PROVE OneServes
    <2> USE <1>2, PidsAssumption
        DEF ServedInv, Types, Phases, PortsOwned, Holds, MainLives, OneServes, Up, Alive
    <2>1. \A p \in Up, i \in 1..3 : port[i] = p
      OBVIOUS
    <2>2. \A p, q \in Up : p = q
      BY <2>1
    <2>3. \A p \in Up : Held(p) = 1..3
      BY <2>1 DEF Held
    <2>4. \A i \in 1..3 : port[i] # None => port[i] \in Alive
      OBVIOUS
    <2>5. QED
      BY <2>2, <2>3, <2>4
  <1>3. QED
    BY <1>1, <1>2, ServedStep, PTL DEF Spec

-----------------------------------------------------------------------------
(* The secrets that a command gets.                                        *)

\* What a reader of the vault can rely on: the file is torn, or it is what was
\* written last from beginning to end.
VaultWhole == vault \in {Torn, whole}

\* RunsWithItsSecrets is not inductive alone: a reader that got a half written
\* vault which can be parsed would break it at the next command.
VaultInv == VaultWhole /\ RunsWithItsSecrets

LEMMA InitVault == Setup!Init => VaultInv
  BY DEF Setup!Init, Setup!VaultInit, VaultInv, VaultWhole, RunsWithItsSecrets

\* `deckagent secret` leaves the file torn, or as it wrote it.
LEMMA SecretKeepsVault ==
    ASSUME VaultInv, NEW c \in Clis, Setup!EditSecrets(c)
    PROVE  VaultInv'
  <1> USE DEF VaultInv, VaultWhole, RunsWithItsSecrets
  <1>1. ASSUME NEW edited, Setup!ReadSecretsFile(c, edited) PROVE VaultInv'
    BY <1>1 DEF Setup!ReadSecretsFile
  <1>2. ASSUME NEW n \in Names, Setup!DeleteSecret(c, n) PROVE VaultInv'
    BY <1>1, <1>2 DEF Setup!DeleteSecret
  <1>3. ASSUME NEW n \in Names, NEW v \in Values, Setup!SetSecret(c, n, v) PROVE VaultInv'
    BY <1>1, <1>3 DEF Setup!SetSecret
  <1>4. CASE Setup!WriteSecretsFile(c)
    BY <1>4 DEF Setup!WriteSecretsFile
  <1>5. CASE Setup!SecretCommandDies(c)
    BY <1>5 DEF Setup!SecretCommandDies
  <1>6. QED
    BY <1>2, <1>3, <1>4, <1>5 DEF Setup!EditSecrets, Setup!RunSecretCommand

\* A command that starts reads a vault that is not torn, so the last whole one.
LEMMA InjectionVault ==
    ASSUME VaultInv, NEW names \in SUBSET Names, Setup!UseSecrets(names)
    PROVE  VaultInv'
  <1>1. PICK v \in Setup!ReadVault :
            right' = (right /\ Setup!GetSecrets(v, names) = Setup!GetSecrets(whole, names))
    BY DEF Setup!UseSecrets, Setup!ApplySecretInjection
  <1>2. v = whole
    BY <1>1 DEF Setup!ReadVault, VaultInv, VaultWhole
  <1>3. right'
    BY <1>1, <1>2 DEF VaultInv, RunsWithItsSecrets
  <1>4. QED
    BY <1>3 DEF Setup!UseSecrets, Setup!ApplySecretInjection, VaultInv, VaultWhole, RunsWithItsSecrets

\* setup and the daemon's start and end leave the vault alone; an uninstall
\* removes it whole.
LEMMA OthersVault ==
    ASSUME VaultInv,
           \/ \E skipDeploy \in BOOLEAN : Setup!StartSetup(skipDeploy)
           \/ Setup!SetupStep \/ Setup!Interrupted \/ Setup!DaemonStarts
           \/ Setup!ReadPolicy \/ Setup!WriteDefaultPolicy \/ Setup!DaemonDies
           \/ Setup!Uninstall
    PROVE  VaultInv'
  <1> USE DEF VaultInv, VaultWhole, RunsWithItsSecrets, Setup!vaultVars
  <1>1. CASE \E skipDeploy \in BOOLEAN : Setup!StartSetup(skipDeploy)
    BY <1>1 DEF Setup!StartSetup
  <1>2. CASE Setup!SetupStep
    BY <1>2 DEF Setup!SetupStep, Setup!CreateKVNamespace, Setup!WriteWorkerConfig,
                Setup!SetWranglerSecret, Setup!DeployWorker, Setup!RegisterDevice,
                Setup!PromptForPolicy, Setup!WriteConfig, Setup!WritePolicy,
                Setup!InstallDaemonService, Setup!StartDaemon
  <1>3. CASE \/ Setup!Interrupted \/ Setup!DaemonStarts \/ Setup!ReadPolicy
             \/ Setup!WriteDefaultPolicy \/ Setup!DaemonDies
    BY <1>3 DEF Setup!Interrupted, Setup!DaemonStarts, Setup!ReadPolicy,
                Setup!WriteDefaultPolicy, Setup!DaemonDies
  <1>4. CASE Setup!Uninstall
    BY <1>4 DEF Setup!Uninstall, Setup!RemoveVault, Setup!Empty
  <1>5. QED
    BY <1>1, <1>2, <1>3, <1>4

LEMMA NextVault == VaultInv /\ [Setup!Next]_(Setup!vars) => VaultInv'
  <1> SUFFICES ASSUME VaultInv, [Setup!Next]_(Setup!vars) PROVE VaultInv'
    OBVIOUS
  <1>1. CASE Setup!Next
    BY <1>1, SecretKeepsVault, InjectionVault, OthersVault DEF Setup!Next
  <1>2. CASE UNCHANGED (Setup!vars)
    BY <1>2 DEF Setup!vars, Setup!vaultVars, VaultInv, VaultWhole, RunsWithItsSecrets
  <1>3. QED
    BY <1>1, <1>2

\* A command gets exactly the secrets of the vault as it was last completely
\* written, however many `deckagent secret` overlap and wherever they die
\* (cli/src/secrets.ts:46, desktop-daemon/src/secrets.ts:41).
THEOREM SecretsAreRight == Setup!Spec => []RunsWithItsSecrets
  <1>1. VaultInv => RunsWithItsSecrets
    BY DEF VaultInv
  <1>2. QED
    BY InitVault, NextVault, <1>1, PTL DEF Setup!Spec

-----------------------------------------------------------------------------
(* What a setup has done when it says so: what can be proved of            *)
(* SetUpServes without fairness.                                           *)

\* A setup that ended well leaves a service that is on, its own configuration,
\* a policy.json, and a deployed Worker that has its token and its device.  The
\* policy is the one it asked the user for, unless a daemon that found none in
\* the meantime wrote the default.
SetUpDone ==
    stage = "done" /\ sure =>
        /\ kept
        /\ policy # "none" /\ (raced \/ policy = "chosen")
        /\ run \in Setup!Runs /\ config = run
        /\ cloud.token = run /\ Setup!Accepted(run)

Configured == {"policy", "fill policy", "install", "start", "done"}
Enrolled   == Configured \union {"prompt", "config", "fill config"}

\* What each step has left for the next.
SoFar ==
    /\ cloud \in [token : {0} \union Setup!Runs, kv : {0} \union Setup!Runs]
    /\ run \in {0} \union Setup!Runs /\ sure \in BOOLEAN
    /\ stage # "idle" => run \in Setup!Runs
    /\ stage \in {"secret", "deploy"} => wrangler = run
    /\ stage \in {"deploy", "register"} => cloud.token = run
    /\ stage = "register" => cloud.kv = run
    /\ sure = TRUE /\ stage \in Enrolled => cloud.token = run /\ Setup!Accepted(run)
    /\ sure = TRUE /\ stage \in Configured => config = run
    /\ sure = TRUE /\ stage = "done" => kept = TRUE

LEMMA NextRun ==
    ASSUME MaxRuns \in Nat, run \in {0} \union Setup!Runs, run < MaxRuns
    PROVE  run + 1 \in Setup!Runs
  BY DEF Setup!Runs

LEMMA NoWorker ==
    [token |-> 0, kv |-> 0] \in [token : {0} \union Setup!Runs, kv : {0} \union Setup!Runs]
  OBVIOUS

\* The steps up to the deployment have the Worker take the run's own token and
\* namespace.
LEMMA DeploySoFar ==
    ASSUME MaxRuns \in Nat, SoFar,
           \/ \E skipDeploy \in BOOLEAN : Setup!StartSetup(skipDeploy)
           \/ Setup!CreateKVNamespace \/ Setup!WriteWorkerConfig
           \/ Setup!SetWranglerSecret \/ Setup!DeployWorker
    PROVE  SoFar'
  <1> USE DEF SoFar, Setup!Runs, Enrolled, Configured, Setup!Goes, Setup!Exits,
              Setup!fileVars, Setup!daemonVars
  <1>1. ASSUME NEW skipDeploy \in BOOLEAN, Setup!StartSetup(skipDeploy) PROVE SoFar'
    <2>1. run' = run + 1 /\ run < MaxRuns /\ UNCHANGED <<cloud, kept>>
      BY <1>1, Zenon DEF Setup!StartSetup, Setup!cloudVars
    <2>2. run' \in Setup!Runs
      BY <2>1, NextRun, Zenon
    <2>3. CASE skipDeploy = TRUE
      <3>1. sure' = FALSE /\ stage' \in {"idle", "install"}
        BY <1>1, <2>3, Zenon DEF Setup!StartSetup
      <3>2. QED
        BY <2>1, <2>2, <3>1
    <2>4. CASE skipDeploy = FALSE
      <3>1. sure' = TRUE /\ stage' \in {"idle", "namespace"}
        BY <1>1, <2>4, Zenon DEF Setup!StartSetup
      <3>2. QED
        BY <2>1, <2>2, <3>1
    <2>5. QED
      BY <2>3, <2>4
  <1>2. CASE Setup!CreateKVNamespace
    BY <1>2 DEF Setup!CreateKVNamespace, Setup!cloudVars
  <1>3. CASE Setup!WriteWorkerConfig
    BY <1>3 DEF Setup!WriteWorkerConfig
  <1>4. CASE Setup!SetWranglerSecret
    BY <1>4 DEF Setup!SetWranglerSecret
  <1>5. CASE Setup!DeployWorker
    BY <1>5 DEF Setup!DeployWorker
  <1>6. QED
    BY <1>1, <1>2, <1>3, <1>4, <1>5

LEMMA RegisterSoFar == SoFar /\ Setup!RegisterDevice => SoFar'
  <1> SUFFICES ASSUME SoFar, Setup!RegisterDevice PROVE SoFar'
    OBVIOUS
  <1>1. /\ stage = "register" /\ UNCHANGED <<cloud, run>>
        /\ stage' \in {"prompt", "idle"}
        /\ sure' \in {sure, FALSE}
        /\ stage' = "prompt" /\ sure' = TRUE => Setup!Registered
    BY DEF Setup!RegisterDevice, Setup!Goes, Setup!Exits, Setup!WavedThrough
  <1>2. QED
    BY <1>1 DEF SoFar, Enrolled, Configured, Setup!Registered, Setup!Accepted

\* The steps that follow change neither the Worker nor its devices.
LEMMA FilesSoFar ==
    ASSUME SoFar,
           \/ Setup!PromptForPolicy \/ Setup!WriteConfig \/ Setup!WritePolicy
           \/ Setup!InstallDaemonService \/ Setup!StartDaemon \/ Setup!Interrupted
    PROVE  SoFar'
  <1> USE DEF SoFar, Enrolled, Configured, Setup!Goes, Setup!Exits, Setup!WavedThrough,
              Setup!daemonVars
  <1>1. UNCHANGED <<run, cloud, devices, wrangler>>
    BY DEF Setup!PromptForPolicy, Setup!WriteConfig, Setup!WritePolicy,
           Setup!InstallDaemonService, Setup!StartDaemon, Setup!Interrupted,
           Setup!cloudVars
  <1>2. Setup!Accepted(run)' = Setup!Accepted(run)
    BY <1>1 DEF Setup!Accepted
  <1>3. CASE Setup!PromptForPolicy
    BY <1>1, <1>2, <1>3 DEF Setup!PromptForPolicy, Setup!fileVars
  <1>4. CASE Setup!WriteConfig
    BY <1>1, <1>2, <1>4 DEF Setup!WriteConfig
  <1>5. CASE Setup!WritePolicy
    BY <1>1, <1>2, <1>5 DEF Setup!WritePolicy
  <1>6. CASE Setup!InstallDaemonService
    BY <1>1, <1>2, <1>6 DEF Setup!InstallDaemonService, Setup!fileVars
  <1>7. CASE Setup!StartDaemon
    BY <1>1, <1>2, <1>7 DEF Setup!StartDaemon, Setup!fileVars
  <1>8. CASE Setup!Interrupted
    BY <1>1, <1>8 DEF Setup!Interrupted
  <1>9. QED
    BY <1>3, <1>4, <1>5, <1>6, <1>7, <1>8

LEMMA NextSoFar ==
    ASSUME MaxRuns \in Nat, SoFar, [Setup!Next]_(Setup!vars)
    PROVE  SoFar'
  <1>1. CASE Setup!Uninstall
    <2>1. stage' = "idle" /\ run' = run
      BY <1>1 DEF Setup!Uninstall, Setup!Goes
    <2>2. cloud' \in {cloud, [token |-> 0, kv |-> 0]}
      BY <1>1 DEF Setup!Uninstall
    <2>3. cloud' \in [token : {0} \union Setup!Runs, kv : {0} \union Setup!Runs]
      BY <2>2, NoWorker DEF SoFar
    <2>4. sure' = sure
      BY <1>1 DEF Setup!Uninstall, Setup!Goes
    <2>5. QED
      BY <2>1, <2>3, <2>4 DEF SoFar, Enrolled, Configured
  <1>2. CASE \/ Setup!DaemonStarts \/ Setup!ReadPolicy \/ Setup!WriteDefaultPolicy
             \/ Setup!DaemonDies
             \/ \E c \in Clis : Setup!EditSecrets(c)
             \/ \E names \in SUBSET Names : Setup!UseSecrets(names)
             \/ UNCHANGED Setup!vars
    <2>1. UNCHANGED <<stage, run, sure, wrangler, cloud, devices, config, kept>>
      BY <1>2
      DEF Setup!DaemonStarts, Setup!ReadPolicy, Setup!WriteDefaultPolicy,
          Setup!DaemonDies, Setup!EditSecrets, Setup!UseSecrets,
          Setup!vars, Setup!othersVars, Setup!setupVars, Setup!cloudVars,
          Setup!fileVars, Setup!daemonVars
    <2>2. QED
      BY <2>1 DEF SoFar, Setup!Accepted
  <1>3. QED
    BY <1>1, <1>2, DeploySoFar, RegisterSoFar, FilesSoFar DEF Setup!Next, Setup!SetupStep

\* policy.json from its opening by setup on: as long as no daemon found none, no
\* daemon writes it, and setup fills the file that it emptied.
PolicySoFar ==
    /\ ~raced => boot.at \notin {"open", "fill"}
    /\ ~raced /\ stage = "fill policy" => policy = Torn
    /\ sure = TRUE /\ stage \in {"fill policy", "install", "start", "done"} =>
          policy # "none"
    /\ sure = TRUE /\ ~raced /\ stage \in {"install", "start", "done"} =>
          policy = "chosen"

LEMMA StartPolicy ==
    ASSUME NEW skipDeploy \in BOOLEAN, Setup!StartSetup(skipDeploy)
    PROVE  PolicySoFar'
  <1>1. ~raced' => boot'.at \notin {"open", "fill"}
    BY DEF Setup!StartSetup
  <1>2. CASE skipDeploy = TRUE
    <2>1. sure' = FALSE /\ stage' \in {"idle", "install"}
      BY <1>2, Zenon DEF Setup!StartSetup
    <2>2. QED
      BY <1>1, <2>1 DEF PolicySoFar
  <1>3. CASE skipDeploy = FALSE
    <2>1. stage' \in {"idle", "namespace"}
      BY <1>3, Zenon DEF Setup!StartSetup
    <2>2. QED
      BY <1>1, <2>1 DEF PolicySoFar
  <1>4. QED
    BY <1>2, <1>3

\* Before the file is opened nothing is claimed, and afterwards only setup's own
\* step fills it.
LEMMA SetupPolicy ==
    ASSUME Torn \notin {"none", "default", "chosen"}, PolicySoFar,
           Setup!SetupStep \/ Setup!Interrupted \/ Setup!Uninstall
    PROVE  PolicySoFar'
  <1> USE DEF PolicySoFar, Setup!Goes, Setup!Exits, Setup!WavedThrough
  <1>1. CASE \/ Setup!CreateKVNamespace \/ Setup!WriteWorkerConfig
             \/ Setup!SetWranglerSecret \/ Setup!DeployWorker
             \/ Setup!RegisterDevice \/ Setup!PromptForPolicy
             \/ Setup!WriteConfig \/ Setup!Interrupted
    <2>1. /\ stage' \in {"idle", "configure", "secret", "deploy", "register",
                         "prompt", "config", "fill config", "policy"}
          /\ UNCHANGED <<boot, raced>>
      BY <1>1 DEF Setup!CreateKVNamespace, Setup!WriteWorkerConfig,
                  Setup!SetWranglerSecret, Setup!DeployWorker, Setup!RegisterDevice,
                  Setup!PromptForPolicy, Setup!WriteConfig, Setup!Interrupted,
                  Setup!daemonVars
    <2>2. QED
      BY <2>1
  <1>2. CASE Setup!WritePolicy
    BY <1>2 DEF Setup!WritePolicy, Setup!Filled, Setup!daemonVars
  <1>3. CASE Setup!InstallDaemonService
    BY <1>3 DEF Setup!InstallDaemonService, Setup!fileVars, Setup!daemonVars
  <1>4. CASE Setup!StartDaemon
    BY <1>4 DEF Setup!StartDaemon, Setup!fileVars
  <1>5. CASE Setup!Uninstall
    <2>1. stage' = "idle" /\ boot' = Idle /\ raced' = raced
      BY <1>5 DEF Setup!Uninstall, Setup!UninstallDaemonService, Setup!Idle, Idle
    <2>2. QED
      BY <2>1 DEF Idle
  <1>6. QED
    BY <1>1, <1>2, <1>3, <1>4, <1>5 DEF Setup!SetupStep

\* A daemon writes policy.json only after it found none, and removes it never.
LEMMA DaemonPolicy ==
    ASSUME Torn \notin {"none", "default", "chosen"}, PolicySoFar,
           \/ Setup!DaemonStarts \/ Setup!ReadPolicy \/ Setup!WriteDefaultPolicy
           \/ Setup!DaemonDies
    PROVE  PolicySoFar'
  <1> USE DEF PolicySoFar, Setup!setupVars, Setup!fileVars, Setup!Idle, Idle
  <1>1. CASE Setup!DaemonStarts
    BY <1>1 DEF Setup!DaemonStarts
  <1>2. CASE Setup!ReadPolicy
    <2>1. UNCHANGED <<stage, sure, policy>>
      BY <1>2 DEF Setup!ReadPolicy
    <2>2. raced' = TRUE \/ (raced' = raced /\ boot' = Idle)
      BY <1>2 DEF Setup!ReadPolicy, Setup!Serves
    <2>3. CASE raced' = TRUE
      BY <2>1, <2>3
    <2>4. CASE raced' = raced /\ boot' = Idle
      BY <2>1, <2>4
    <2>5. QED
      BY <2>2, <2>3, <2>4
  <1>3. CASE Setup!WriteDefaultPolicy
    BY <1>3 DEF Setup!WriteDefaultPolicy, Setup!Filled, Setup!Serves
  <1>4. CASE Setup!DaemonDies
    BY <1>4 DEF Setup!DaemonDies
  <1>5. QED
    BY <1>1, <1>2, <1>3, <1>4

LEMMA NextPolicy ==
    ASSUME Torn \notin {"none", "default", "chosen"}, PolicySoFar,
           [Setup!Next]_(Setup!vars)
    PROVE  PolicySoFar'
  <1>1. CASE \/ \E c \in Clis : Setup!EditSecrets(c)
             \/ \E names \in SUBSET Names : Setup!UseSecrets(names)
             \/ UNCHANGED Setup!vars
    <2>1. UNCHANGED <<stage, sure, policy, boot, raced>>
      BY <1>1
      DEF Setup!EditSecrets, Setup!UseSecrets, Setup!vars, Setup!othersVars,
          Setup!setupVars, Setup!fileVars, Setup!daemonVars
    <2>2. QED
      BY <2>1 DEF PolicySoFar
  <1>2. QED
    BY <1>1, StartPolicy, SetupPolicy, DaemonPolicy DEF Setup!Next

\* Whatever earlier runs, interruptions and uninstalls left in the Worker,
\* wrangler.jsonc and the files (setup.ts:159), and whatever a daemon that starts
\* meanwhile reads and writes (policy.ts:145).
THEOREM SetUpIsDone ==
    ASSUME MaxRuns \in Nat, Torn \notin {"none", "default", "chosen"}
    PROVE  Setup!Spec => []SetUpDone
  <1>1. Setup!Init => SoFar /\ PolicySoFar
    <2>1. Setup!Init => SoFar
      BY NoWorker DEF Setup!Init, SoFar, Enrolled, Configured
    <2>2. Setup!Init => stage = "idle" /\ ~raced /\ boot.at = "idle"
      BY DEF Setup!Init, Setup!Idle
    <2>3. QED
      BY <2>1, <2>2 DEF PolicySoFar
  <1>2. SoFar /\ PolicySoFar => SetUpDone
    BY DEF SoFar, PolicySoFar, SetUpDone, Enrolled, Configured
  <1>3. SoFar /\ PolicySoFar /\ [Setup!Next]_(Setup!vars) => (SoFar /\ PolicySoFar)'
    BY NextSoFar, NextPolicy
  <1>4. QED
    BY <1>1, <1>2, <1>3, PTL DEF Setup!Spec
=============================================================================
