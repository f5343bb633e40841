------------------------------- MODULE Setup -------------------------------
(***************************************************************************)
(* What the command line leaves behind: `deckagent setup`                  *)
(* (packages/cli/src/setup.ts, deploy-worker.ts, configure.ts,             *)
(* install-daemon.ts), `deckagent uninstall` (index.ts) and `deckagent     *)
(* secret` (secrets.ts), with the daemon that reads config.json and        *)
(* policy.json when it starts, writes a policy.json when there is none     *)
(* (desktop-daemon/src/policy.ts), and reads the vault at each command     *)
(* (desktop-daemon/src/secrets.ts).                                        *)
(*                                                                         *)
(* A run of setup makes one API token, one device and one KV namespace:    *)
(* all are named by the number of the run.  One action is the code between *)
(* two moments at which another process can look, or at which the user or  *)
(* the system can end the command: a call of wrangler, a question, and the *)
(* two system calls of writeFileSync, which empties a file and fills it.   *)
(***************************************************************************)
EXTENDS Integers, FiniteSets, Vault

CONSTANTS
    MaxRuns     \* bound: runs of setup

ASSUME MaxRunsAssumption == MaxRuns \in Nat \ {0}
ASSUME TornIsNoPolicy == Torn \notin {"none", "default", "chosen"}

VARIABLES
    stage,      \* the next step of setup
    run,        \* the number of the last setup
    sure,       \* history: it deployed, and no failed step was waved through
    wrangler,   \* the namespace wrangler.jsonc names, 0 at first
    cloud,      \* the deployed Worker: its token and namespace
    devices,    \* registered devices, with the namespace that holds them
    config,     \* config.json: the run that wrote it, 0 when there is none
    policy,     \* policy.json: the daemon's default, or what setup asked for
    service,    \* the service manager keeps a daemon running
    daemon,     \* the configuration the running daemon read, 0 when it is down
    boot,       \* a daemon that starts: its next step, the configuration it read
    raced       \* history: since the setup began, a daemon found no policy.json

setupVars  == <<stage, run, sure>>
cloudVars  == <<wrangler, cloud, devices>>
fileVars   == <<config, policy>>
daemonVars == <<service, daemon, boot, raced>>
vars == <<setupVars, cloudVars, fileVars, daemonVars, vaultVars>>

Runs   == 1..MaxRuns
Stages == {"idle", "namespace", "configure", "secret", "deploy", "register",
           "prompt", "config", "fill config", "policy", "fill policy",
           "install", "start", "done"}

TypeOK ==
    /\ stage \in Stages /\ run \in {0} \union Runs /\ sure \in BOOLEAN
    /\ wrangler \in {0} \union Runs
    /\ cloud \in [token : {0} \union Runs, kv : {0} \union Runs]
    /\ devices \subseteq (Runs \X Runs)
    /\ config \in {0, Torn} \union Runs
    /\ policy \in {"none", "default", "chosen", Torn}
    /\ service \in BOOLEAN /\ daemon \in {0} \union Runs
    /\ boot \in {Idle} \union [at : {"policy", "open", "fill"}, config : Runs]
    /\ raced \in BOOLEAN
    /\ VaultTypeOK

Init ==
    /\ stage = "idle" /\ run = 0 /\ sure = FALSE
    /\ wrangler = 0 /\ cloud = [token |-> 0, kv |-> 0] /\ devices = {}
    /\ config = 0 /\ policy = "none"
    /\ service = FALSE /\ daemon = 0 /\ boot = Idle /\ raced = FALSE
    /\ VaultInit

-----------------------------------------------------------------------------
(* deckagent setup.                                                        *)

Goes(s) == stage' = s /\ UNCHANGED <<run, sure>>

\* process.exit(1): after an error, or when the user does not want to continue.
Exits == Goes("idle")

\* A prerequisite may be missing.  With --skip-deploy, which needs
\* --worker-url, nothing is deployed, registered or written.
StartSetup(skipDeploy) ==
    /\ stage \in {"idle", "done"} /\ run < MaxRuns
    /\ run' = run + 1 /\ sure' = ~skipDeploy
    /\ stage' \in {"idle", IF skipDeploy THEN "install" ELSE "namespace"}
    /\ raced' = (boot.at \in {"open", "fill"})
    /\ UNCHANGED <<service, daemon, boot, cloudVars, fileVars, vaultVars>>

\* Every run makes a namespace of its own, whatever wrangler.jsonc names.
CreateKVNamespace ==
    /\ stage = "namespace"
    /\ Goes("configure") \/ Exits
    /\ UNCHANGED <<cloudVars, fileVars, daemonVars, vaultVars>>

WriteWorkerConfig ==
    /\ stage = "configure"
    /\ wrangler' = run
    /\ Goes("secret")
    /\ UNCHANGED <<cloud, devices, fileVars, daemonVars, vaultVars>>

\* The Worker that is already deployed has the new token at once.
SetWranglerSecret ==
    /\ stage = "secret"
    /\ \/ cloud' = [cloud EXCEPT !.token = run] /\ Goes("deploy")
       \/ UNCHANGED cloud /\ Exits
    /\ UNCHANGED <<wrangler, devices, fileVars, daemonVars, vaultVars>>

\* Setup may also end after the deployment, when it finds no URL in the output.
DeployWorker ==
    /\ stage = "deploy"
    /\ \/ cloud' = [cloud EXCEPT !.kv = wrangler] /\ (Goes("register") \/ Exits)
       \/ UNCHANGED cloud /\ Exits
    /\ UNCHANGED <<wrangler, devices, fileVars, daemonVars, vaultVars>>

\* "Continue without registering device?" and "Continue anyway?"
WavedThrough(s) == stage' = s /\ sure' = FALSE /\ UNCHANGED run

Registered == devices' = devices \union {<<cloud.kv, run>>}

RegisterDevice_Unasked ==
    /\ stage = "register"
    /\ (Registered \/ UNCHANGED devices) /\ Goes("prompt")
    /\ UNCHANGED <<wrangler, cloud, fileVars, daemonVars, vaultVars>>

\* POST /api/devices.  The answer of a registration that worked may be lost.
RegisterDevice ==
    /\ stage = "register"
    /\ \/ Registered /\ Goes("prompt")
       \/ (Registered \/ UNCHANGED devices) /\ (WavedThrough("prompt") \/ Exits)
    /\ UNCHANGED <<wrangler, cloud, fileVars, daemonVars, vaultVars>>

\* The questions of the policy; Ctrl-C there is Interrupted.
PromptForPolicy ==
    /\ stage = "prompt"
    /\ Goes("config")
    /\ UNCHANGED <<cloudVars, fileVars, daemonVars, vaultVars>>

WriteConfig ==
    /\ \/ stage = "config" /\ config' = Torn /\ Goes("fill config")
       \/ stage = "fill config" /\ config' = run /\ Goes("policy")
    /\ UNCHANGED <<policy, cloudVars, daemonVars, vaultVars>>

\* writeFileSync fills the file from its start.  When another process has filled
\* it since this one emptied it, the end of a longer text may be left behind.
Filled(text) == policy' = text \/ (policy # Torn /\ policy' = Torn)

WritePolicy ==
    /\ \/ stage = "policy" /\ policy' = Torn /\ Goes("fill policy")
       \/ stage = "fill policy" /\ Filled("chosen") /\ Goes("install")
    /\ UNCHANGED <<config, cloudVars, daemonVars, vaultVars>>

\* installPrerequisites and installDaemonService; the service is not started.
InstallDaemonService ==
    /\ stage = "install"
    /\ Goes("start") \/ WavedThrough("done") \/ Exits
    /\ UNCHANGED <<cloudVars, fileVars, daemonVars, vaultVars>>

\* `systemctl --user start`: a daemon that runs is left as it is.
StartDaemon ==
    /\ stage = "start"
    /\ \/ service' = TRUE /\ Goes("done")
       \/ UNCHANGED service /\ (WavedThrough("done") \/ Exits)
    /\ UNCHANGED <<daemon, boot, raced, cloudVars, fileVars, vaultVars>>

\* Ctrl-C, a closed terminal, a crash.
Interrupted ==
    /\ stage \notin {"idle", "done"}
    /\ Exits
    /\ UNCHANGED <<cloudVars, fileVars, daemonVars, vaultVars>>

-----------------------------------------------------------------------------
(* The daemon, and deckagent uninstall.                                    *)

\* readConfig.  Without a configuration the process exits, and the service
\* manager tries again.
DaemonStarts ==
    /\ service /\ daemon = 0 /\ boot = Idle
    /\ config \in Runs
    /\ boot' = [at |-> "policy", config |-> config]
    /\ UNCHANGED <<service, daemon, raced, setupVars, cloudVars, fileVars, vaultVars>>

Serves == daemon' = boot.config /\ boot' = Idle

\* readPolicy.  With a policy that cannot be parsed the process exits; with none
\* it writes the default.
ReadPolicy ==
    /\ boot.at = "policy"
    /\ \/ policy \in {"default", "chosen"} /\ Serves /\ UNCHANGED raced
       \/ policy = Torn /\ boot' = Idle /\ UNCHANGED <<daemon, raced>>
       \/ /\ policy = "none"
          /\ boot' = [boot EXCEPT !.at = "open"] /\ raced' = TRUE
          /\ UNCHANGED daemon
    /\ UNCHANGED <<service, setupVars, cloudVars, fileVars, vaultVars>>

\* The daemon goes on with the default, whatever the file then holds.
WriteDefaultPolicy ==
    /\ \/ /\ boot.at = "open"
          /\ policy' = Torn
          /\ boot' = [boot EXCEPT !.at = "fill"] /\ UNCHANGED daemon
       \/ boot.at = "fill" /\ Filled("default") /\ Serves
    /\ UNCHANGED <<service, raced, config, setupVars, cloudVars, vaultVars>>

DaemonDies ==
    /\ daemon # 0 \/ boot # Idle
    /\ daemon' = 0 /\ boot' = Idle
    /\ UNCHANGED <<service, raced, setupVars, cloudVars, fileVars, vaultVars>>

\* The service is disabled and removed, and its daemon stopped.
UninstallDaemonService ==
    service' = FALSE /\ daemon' = 0 /\ boot' = Idle /\ UNCHANGED raced

\* The user may keep the Worker.  Its namespace and wrangler.jsonc stay.
Uninstall ==
    /\ stage \in {"idle", "done"}
    /\ Goes("idle")
    /\ cloud' \in {cloud, [token |-> 0, kv |-> 0]}
    /\ UninstallDaemonService
    /\ config' = 0 /\ policy' = "none"
    /\ RemoveVault
    /\ UNCHANGED <<wrangler, devices>>

-----------------------------------------------------------------------------
(* deckagent secret, and the commands of the daemon that read the vault.   *)

othersVars == <<setupVars, cloudVars, fileVars, daemonVars>>

EditSecrets(c) == RunSecretCommand(c) /\ UNCHANGED othersVars

UseSecrets(names) ==
    daemon # 0 /\ ApplySecretInjection(names) /\ UNCHANGED othersVars

-----------------------------------------------------------------------------

SetupStep ==
    \/ CreateKVNamespace \/ WriteWorkerConfig \/ SetWranglerSecret
    \/ DeployWorker \/ RegisterDevice \/ PromptForPolicy
    \/ WriteConfig \/ WritePolicy \/ InstallDaemonService \/ StartDaemon

Next ==
    \/ \E skipDeploy \in BOOLEAN : StartSetup(skipDeploy)
    \/ SetupStep \/ Interrupted
    \/ DaemonStarts \/ ReadPolicy \/ WriteDefaultPolicy \/ DaemonDies
    \/ Uninstall
    \/ \E c \in Clis : EditSecrets(c)
    \/ \E names \in SUBSET Names : UseSecrets(names)

\* The service manager starts the daemon again and again (Restart=always), and
\* it does not die at every start.  Nothing is assumed of the user's commands.
Fairness ==
    WF_vars(DaemonStarts) /\ SF_vars(ReadPolicy) /\ WF_vars(WriteDefaultPolicy)

Spec == Init /\ [][Next]_vars /\ Fairness

-----------------------------------------------------------------------------
(* Properties.                                                             *)

\* The Worker's auth finds the device, with its token, in the namespace the
\* deployed Worker is bound to.
Accepted(d) == <<cloud.kv, d>> \in devices

\* A setup that says "DeckAgent is set up!", without a failed step the user
\* waved through, ends with a daemon the deployed Worker accepts and with the
\* API token in config.json being the Worker's, whatever earlier runs left in
\* the Worker, wrangler.jsonc and the files, when no older daemon still runs or
\* starts.  Only a daemon that wrote its default policy over setup's, or under
\* it, may leave a policy.json with which no daemon starts.
SetUpServes ==
    stage = "done" /\ sure /\ daemon = 0 /\ (boot # Idle => boot.config = config)
        ~> \/ Accepted(daemon) /\ daemon = config /\ cloud.token = config
           \/ stage # "done"
           \/ raced /\ policy = Torn

-----------------------------------------------------------------------------
(* What the repository says and the code does not do.                      *)

\* setup.ts prints "Daemon installed and started." and "DeckAgent is set up!".
\* A daemon that ran before keeps the configuration of the run before, whose
\* device the new namespace does not know (install-daemon.ts starts the service
\* and does not restart it).
EverySetupServes ==
    stage = "done" /\ sure /\ daemon # 0 => Accepted(daemon)

\* setup.ts and configure.ts ask for the policy and write it.  A daemon that was
\* installed before (setup --skip-deploy) and finds no policy.json writes the
\* default, and may do so after setup wrote the user's (policy.ts:146).
ChosenPolicyHolds == stage = "done" /\ sure => policy = "chosen"

\* deploy-worker.ts: "leaves the configured file in place so subsequent deploys
\* keep the user's KV id".  setup passes no id, so each run makes a namespace
\* and every device registered before is unknown to the Worker.
DeploysKeepTheNamespace ==
    [][cloud.kv # 0 /\ cloud'.kv # 0 => cloud'.kv = cloud.kv]_vars
=============================================================================
