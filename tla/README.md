# A TLA+ model of DeckAgent

DeckAgent lets an AI client use a person's computer. An MCP client (or a
browser extension in a chat page) asks for a tool; a Cloudflare Worker forwards
the request over a WebSocket to a daemon on the user's machine; the daemon
checks policy, asks the user where policy wants it, runs the tool, and the
answer goes back the same way. This directory holds TLA+ modules of the parts
that make that reliable, the TLC runs that check them on small instances, and
TLAPS proofs of safety properties for every instance.

Run `tlc -config X.cfg M` for the runs listed in `PROJECT.json` and
`tlapm M.tla` for the `_proofs` modules. Paths below are relative to
`packages/`.

## The system

| Part | State it keeps | Operations | Hard because |
|---|---|---|---|
| **Worker tunnel object** (`cloudflare-worker/src/tunnel-do.ts`) | current socket, device, session id; maps of pending tool calls and resource reads with their timers and buffered output | accept socket, auth, heartbeat, forward a call, progress, result or error, timeout, cleanup | handlers await KV and other events run meanwhile; close events come late; answers race timers |
| **Device registry** (`device-registry.ts`, device API of `index.ts`) | KV record per device, presence key with a TTL | authenticate, update status, register, remove, patch, pick the target device | read-modify-write on KV from handlers that overlap |
| **Worker edge and MCP handler** (`index.ts`, `mcp-handler.ts`, `auth.ts`) | none | routing, JSON-RPC, catalogues | stateless |
| **Daemon tunnel client** (`desktop-daemon/src/tunnel-client.ts`) | connection state, socket, three timers, reconnect delay | connect, disconnect, open, message, close, error, timers | four event sources share one `ws` field; timers restart each other |
| **Tool executor** (`tool-executor.ts`, `budgets.ts`) | active executions, policy, hourly usage on disk | execute, abort, abort all, update policy | concurrent calls between check and count; one abort kills all commands |
| **Confirmation server** (`confirmation-server.ts`, buttons of `control-ui.ts`) | map of approvals, waiters, sweep timer | create, wait, page view, approve or deny from two places, sweep, stop | five parties settle one approval, around three deadlines |
| **Policy** (`policy.ts`, `control-ui.ts`, `cli/src/workspace.ts`) | `policy.json`, `config.json`, the daemon's copy of both | decide on a call; change the policy by hand, in the UI, on the command line | two programs compare paths; memory and file diverge |
| **Snapshots and file tools** (`mcp-server/src/tools/snapshots.ts`, `filesystem.ts`) | files, snapshot blobs and metadata | snapshot before a change, retention, restore, write, edit, move | several files change in several steps; retention inside restore |
| **Terminal and browser tools** (`terminal.ts`, `browser.ts`) | child processes, one browser | run, stream, kill; launch and reuse | kill escalation; launch is awaited |
| **Extension background** (`v2-extension/src/entrypoints/background.ts`) and the daemon's **local server** (`local-server.ts`) | socket, waiters per call, batches; connections and their calls | connect, run a batch of calls, reconnect, enable and disable | an old socket's listeners act on the new one; 60 s timeout |
| **Extension page script** (`lib/fetch-patch.ts`, `lib/auto-continue.ts`) | cached request, queue of results, count of automatic continues | patched fetch, queue, debounce, resubmit | debounce, fetch and user race around shared flags |
| **Daemon process** (`desktop-daemon/src/index.ts`, `cli/src/install-daemon.ts`) | `daemon.pid`, three fixed ports, a service | start, shutdown, crash, stop, status | two processes share one pid file and the ports |
| **Command line** (`cli/src`), **vault** (`secrets.ts` of both) | Worker, `wrangler.jsonc`, registration, `config.json`, `secrets.json` | setup, uninstall, secret, workspace | any step fails or is interrupted; files are emptied, then filled |
| **Catalogues, adapters, logs** | append-only files, static data | parsing, logging | sequential |

`cli/assets/worker` holds the same files as `cloudflare-worker`, byte for byte.

How they interact: the Worker's edge hands a request to the device's tunnel
object (a Durable Object named after the device). The object and the daemon's
tunnel client exchange newline-delimited JSON over one WebSocket: `auth`,
`auth_ok`, `auth_error`, `heartbeat`, `heartbeat_ack`, `execute_tool`,
`read_resource`, `tool_progress`, results and errors. The tunnel client, and the
local server for the extension, call the executor, which calls policy, budgets,
the confirmation server and the tools. The object updates the registry in KV
at authentication, heartbeats and cleanup. The extension's background passes
results of tool calls to the page script, which sends them to the chat.
`deckagent setup` makes all of it, and the daemon reads what it left.

What makes each part correct:

- *tunnel object*: every request is answered exactly once, by the daemon or by
  a failure; output is complete and in order; the session fields agree.
- *tunnel client*: never without a way back to a connection; no orphaned
  socket; a silent Worker is noticed; stopping is final.
- *confirmation*: the user is told the truth; every wait ends, in time; no
  record leaks.
- *executor*: nothing runs that was not confirmed where that is wanted;
  budgets hold; aborting one call does not disturb another.
- *registry*: a registration survives status updates; presence follows the
  connection.
- *snapshots*: what a call overwrites can be had back; the store stays whole.
- *policy*: what was switched off stays off; tools stay where they may be.
- *extension*: results are true and delivered; sockets do not multiply; the
  cap on automatic continues holds and no result is lost silently.
- *process and command line*: one daemon, which `--status` and `--stop` know of;
  a setup that succeeds ends with a daemon the Worker accepts; a secret is
  given to a command as the user set it, or the command does not run.

## Modules

| Module | Models | Checked by | Proofs |
|---|---|---|---|
| `RemoteCall` | what the tunnel promises an MCP client, without sockets or timers | `TunnelCalls` (as a property) | |
| `TunnelDO` | `tunnel-do.ts` | `TunnelCalls` | `TunnelDO_proofs` |
| `TunnelClient` | `tunnel-client.ts` | `ClientTimers` | `TunnelClient_proofs` |
| `UserGate` | what the confirmation server promises the executor, without pages, timers or time | `ConfirmRaces` (as a property); used by `ToolExecutor` | safety part in `Confirmation_proofs` |
| `Confirmation` | `confirmation-server.ts` | `ConfirmRaces` | `Confirmation_proofs` |
| `ToolExecutor` | `tool-executor.ts`, `budgets.ts`, the shutdown of `index.ts` | `ExecutorGuards`, through `Commands` | `ToolExecutor_proofs` |
| `Commands` | `terminal.ts`: the processes of commands, composed with `ToolExecutor` | `ExecutorGuards` | `ToolExecutor_proofs` |
| `DeviceRegistry` | `device-registry.ts` with its users in `tunnel-do.ts`, `index.ts`, `mcp-handler.ts` | `Registry` | `DeviceRegistry_proofs` |
| `Snapshots` | `snapshots.ts`, the writing tools of `filesystem.ts` | `SnapshotStore`, `SnapshotUndo` | `Snapshots_proofs` |
| `Bridge` | what the two scripts of the extension share: the batches of results | with the next two | |
| `Extension` | `background.ts`, `local-server.ts` | `ExtensionCalls` | `Browser_proofs` |
| `PageScript` | `fetch-patch.ts`, `auto-continue.ts` | `PageAuto` | `Browser_proofs` |
| `Policy` | `policy.ts` and every way a policy changes | `PolicyWays` | `Confirmation_proofs` |
| `Daemon` | the process: `index.ts`, `install-daemon.ts` | `DaemonLife` | `CommandLine_proofs` |
| `Vault` | `secrets.json` and both `secrets.ts` | `SetupRuns`, through `Setup` | `CommandLine_proofs` |
| `Setup` | `setup.ts`, `deploy-worker.ts`, `configure.ts`, with `Vault` | `SetupRuns` | `CommandLine_proofs` |

`MCToolExecutor`, `MCSnapshots`, `MCPageScript` and `MCPolicy` hold the
instances a `.cfg` cannot express: functions, records, symmetry. Operators named
`X_Something` next to an operator `X` are faulty variants of it: each property
is shown to fail when its variant replaces `X`, and `PROJECT.json` ("mutants")
lists the pairs. `kept`, `clean`, `clash` and the like are history variables:
no action reads them, properties do.

### TunnelDO

One action is the code between two awaits. `ws`, `deviceId`, `sessionId`
are the object's fields; `pending` is the key set of `pendingTools` and
`pendingResources` together (their ids are fresh, so they never collide);
`timers` the armed `setTimeout`s; `chunks` the buffered progress. `auth` holds
how far each socket's auth message is: waiting for `authenticateDevice`
(`VerifyAuth` continues there), or for the presence update (`FinishAuth`).
A heartbeat's presence update is awaited in the same way (`FinishHeartbeat`).
KV may throw at either await (`HandlerThrows`), which the message listener turns
into `auth_error`.

The network is what the object sees of it: a connection dies at any time
(`LinkLost`), its `close` or `error` event comes any time later (`SocketClose`,
`SocketError`), also after the daemon's next connection was accepted. The
daemon has one connection open at a time. Its job per request is abstract:
it receives the message if it arrives, streams up to `MaxChunks` chunks,
then answers, or finds its socket closed (`AnswerLost`). The object takes
answers from any socket, as the code does. A `send` on a dead socket may throw,
whereupon the request is undone and refused (`SendFails`), or be lost.

`told`, `toldSession`, `replies`, `delivered` record what went out, so that
properties can speak of it; no action reads them except for guards that say
"once".

A session id is represented by the socket that authenticated: the random UUID
is only ever compared. Every socket sends `auth` once, as the daemon does.

### TunnelClient

One WebSocket object per element of `Conns`, recycled after its close event.
The listeners `Open`, `AuthOk`, `HandleAuthError`, `HeartbeatAck`, `OnError`,
`OnClose` act on `this.ws` whichever object emitted the event, as in the code.
Time is discrete: `Tick` counts the three timers down and waits for one that is
due (`HeartbeatDue`, `HeartbeatTimeout`, `ReconnectDue`). `alive` tells which
connections still reach the Worker; `LinkDies` takes one away without a word.
`silence` counts ticks since the Worker last spoke on a connection the client
believes in. `closeCode` is what the last close event came with: after 1008
`onClose` schedules nothing, whoever closed (`Codes`). `LateClose` says whether a timer may run before the close event of
a socket that was terminated: only after the event loop was blocked for a
reconnect delay, so the runs set it to FALSE.

Left out: messages other than those three (tool calls change nothing here), the
constructor failing on an invalid URL, and `abortAll`, whose effects are in
`ToolExecutor` (`TunnelLost`).

### Confirmation

`record` is the `pending` map with each approval's decision; an expired or timed
out approval is deleted by `settle` itself, so it needs no value of its own.
`outcome` is what the promise of `waitForDecision` gave the tool call: the
executor creates and waits in one synchronous stretch (`tool-executor.ts:345-374`),
so `Create` does both. `told` collects what the user was told by the page or
the control UI. `age` counts from `createdAt`; `sweepIn` is the sweep's
interval. `approve` and `deny`, used by the control UI, ignore the expiry;
`handleDecision`, used by the page, does not: both are modelled as they are.

### ToolExecutor

`stage` is where a call's `execute()` is: waiting for the user, running its
tool, ended; `code` its outcome. `active` is the map of abort controllers by id;
ids of the extension's calls are the page's, so two calls may share one
(`IdOf`). `op` is the tool's own work: an abort ends the call, not the work, so
a tool goes on and its late end is ignored (`ToolEnds`). `killed` are the
child processes that were sent SIGTERM and SIGKILL, `used` is `budgets.json`.

Everything between two awaits is one action. `Execute` checks policy and
budgets and then asks the user or starts the tool; a refusal ends it there.
`Decided` goes on after the user's decision and may still refuse a read for the
file's size. `Timeout`, `TunnelLost` and `Shutdown` abort controllers; every
abort kills all commands, whoever's they are. A call that throws
(`"error"`) is not counted, a result with `isError` is: that is the code's rule,
and killed commands return such a result.

The confirmation server is `INSTANCE UserGate`, so what is shown here holds of
the executor with any server that implements the gate, as `Confirmation` does.
`readOnly` stands for the policy the control UI replaces; `Confirmable` for
what policy wants confirmed, which does not change. Usage is counted in units
of one call: a tool's seconds and bytes are one unit of their budget. The file
`budgets.json` is read and written whole in one stretch, so it is a variable;
that it may fail to be written is left out. The process goes down in two
actions, the awaits of `shutdown` between them: calls of local clients still
come in.

Left out: arguments, paths and secrets, the audit log and `abort(id)`, which
nothing calls.

### Commands

`Commands` EXTENDS `ToolExecutor` and refines its `op`: a call of `Shell` gets
a process (`child`), an entry of `activeChildren` (`tracked`) and, unless it is
a stream, a timer of its own (`ticking`) in the step that starts its tool. An
abort of the executor sends SIGTERM to all tracked processes and arms their
SIGKILL timers (`doomed`); the tool ends when the process has ended and its
pipes are closed (`CommandCloses`). What the command itself started may hold
them for ever, and a shell may ignore SIGTERM. Each action is one of the
executor with what it does to the processes, or one of the processes alone, so
the executor's behaviour is unchanged (`CommandsAreTheExecutors`).

`forceKill` arms a timer at each call and clears none. The model keeps one per
process: a second SIGKILL changes nothing. The shutdown waits 50 ms longer than
that delay for what it found (`stopped`), which is `WaitIsOver`. Left out are
the processes of `list_processes`, which only read, and commands of another
user, which the daemon may not signal.

### DeviceRegistry

`record` and `presence` are the two KV keys of a device. KV has no
transactions, so a status update is three actions: `UpdateStatus` reads the
record, `PutRecord` puts the copy back, `PutPresence` puts or deletes the
presence key; each of `Handlers` is in one such operation or in a removal, and
may end anywhere when KV throws (`KvFails`). A registration is one put, a
removal two deletes. The tunnel objects appear as what they call: `Authenticate`
and `Heartbeat` update to online, `Cleanup`, which is not awaited, to offline.
`Resolve` is the choice of a call's device; `Forward` finds it with a session or
without. A KV operation takes less than a tick and sees the last write: that
Workers KV may serve a value up to a minute old elsewhere is left out, since the
code does not say where its users run.

`last`, `clean` and `calm` remember what the last registration or removal left,
whether an update held a copy of the record at that moment, and whether
presence was written and left alone since.

### Snapshots

A call of a mutating tool goes through the file operations of its code one by
one: `stat` and read with the blob's write (`TakeBlob`), metadata, then the two
loops of the retention sweep, each over a listing of its own (`Collect`,
`Recollect`): the expired snapshots newest first, then those beyond the cap
oldest first, each victim's blob before its metadata (`PurgeBlob`, `PurgeMeta`);
and then its own change: a rename of a temporary file (`write_file`, `restore_snapshot`), a
truncation and a fill (`edit_file`), a rename (`move_file`). Other calls run
between any two, and `Crash` stops all of them. A sweep removes what it listed,
also when another call has changed the store since. A file holds the set of calls
whose text is in it, so that "edit" is what was read plus its own text; a
writer that has opened a file keeps it through renames (`Renamed`: `dest` is the
name it has by then, while the snapshot keeps the path of the call). `Age` makes
the oldest snapshot expire, also between two operations of a call, for which a
sweep reads the clock at its listing (`Collect`); it is assumed only that no call
takes `maxAgeMs` (a week by default), so that its own snapshot does not expire
under it. `spared` are the restores that run alone, of a snapshot below the cap
that is not expired when the restore's own sweep looks. `shared` are the calls that overlapped on a file,
which the code does not order.

### Extension

Every WebSocket keeps its listeners for its life, and they act on the one field
`activeSocket` whichever socket they belong to: `Open`, `LocalReady`,
`SocketError` and `SocketClose` take the socket as a parameter and show what
they really touch. `saving` are the popup's messages whose storage write is not
over; `Saved` does the rest of the handler. A batch is the loop of
`handleToolCalls`: `ExecuteTool` sends the next call or fails at once, its
waiter ends by the answer, the 60 s timer or a close, and `Deliver` sends all
results to the tab (a timeout and a close are both a `failed` call there: only the
text differs). The daemon's local server starts a call for the connection
it came by and answers there if that is still open. A WebSocket object is
recycled after its close event.

Left out: what the executor decides (`ToolExecutor`), the message formats,
`get_state` and other queries, and the end of the service worker by the
browser, after which everything starts with `Init`.

### PageScript

What the patched `fetch` does up to `originalFetch` is synchronous, so one
action: `SendRequest` drains the queue into the body (which may have no messages
to append to; then what was drained is gone, as in the code), and `CountRequest`
counts it as an auto-continue or resets the count. The code's one queue is two
variables: `pending` has the results of the page's own adapter, and `parked`
those of another one's chats, which `drainPendingResults` leaves there for ever. `Scheduled` is the arrival of
a batch with its debounce, `Queue` and `AutoContinue` the two outcomes of
`tryAutoResubmit`, `Respond` and `Fail` the end of a fetch. `autos` counts what
really was an auto-continue; the code's own `count` is inflated by page requests
made while one is out.

### Policy

A path is a sequence of names; as written it is absolute, below `~` or relative
and may contain `..`. `Walk` enters its names one after the other (`Enter`), a
recursive function so that it can be proved about. `Absolutize`, `Followed` and
`RealPath` are `path.resolve`, the operating system and `realpathSync` with its
fallback for what does not exist; `Again` is the second resolution inside
`isPathAllowed` and `isPathInsideWorkspace`. The file system is POSIX's: the
code's branches for Windows are left out, and so is a directory written `~\...`,
which the daemon takes for one below home and the command line does not.

The policy converts what it compares, and the tools open the path unconverted.
Both conversions are data of the instance. `Parts` gives for each name with a
backslash the names that `normalizePathForCompare` makes of it (`Compared`), once the
path is resolved, so that they are not resolved again. `Trimmed` gives for each
name that ends in blanks what `trim` leaves of it where it ends the text: once when
the argument is resolved, once more in `Again` (`a /` loses its separator the first
time and its blank the second). Excluded by `PartsAssumption` is a name that ends in
two backslashes or is one. The daemon resolves what is relative against its
own directory (`Cwd`), `deckagent workspace` against the one it is run in (`Shell`). `Decision` is `checkToolAllowed` with the workspace boundary: refused,
asked or allowed. The state is where policies live: the file, `config.json`'s
workspace, and what the daemon holds in memory since `Boot` or the last
`SetPolicy`, which writes the whole memory over the file. `Execute` makes the
file a write creates. A command is known by the entries and dangerous patterns
it matches.

### Daemon

A process boots (writes `daemon.pid`), starts three servers one after the other
in the order of `main`, is up, stops, closes its ports and exits, removing
`daemon.pid` whoever it names. A port in use ends it. A SIGTERM during the start is
taken for the end of the start: in the code `main` goes on binding servers beside the
shutdown until `process.exit` releases them. `ServiceSpawns` is the
manager's restart; `StopService` and `StopByPid` are the two halves of
`deckagent stop`. A browser tab on the control page keeps a connection open
(`tab`). `ClosesIdle` says whether `http.Server.close` ends idle connections,
which it does since Node 19.

### Vault and Setup

`Vault` is `secrets.json` with the processes that write it and the daemon that
reads it; `Setup` EXTENDS it, as `uninstall` removes the file and only a running
daemon reads it. `writeFileSync` is two actions, emptying and filling, for the
files that another process reads. `WriteSecretsFile` includes the overlap of two
processes: a shorter text over a longer one. `ApplySecretInjection` is the
daemon's reading of the vault for one command and records in `right` whether it
got the secrets that were set.

`stage` walks through `deckagent setup`; every step may fail, be waved through
where the code asks, or be interrupted. A run's number names its token, device
and KV namespace. Alongside, a daemon that an earlier run installed, or one with
`--skip-deploy`, starts: `DaemonStarts` reads `config.json`, `ReadPolicy` reads
`policy.json`, and a daemon that finds none is a second writer of it
(`WriteDefaultPolicy`; `boot` is its next step, `raced` remembers that there was
one). A daemon that finds a torn file exits and is started again.

## Runs

| Run | Asks | Bounds and why they suffice |
|---|---|---|
| `TunnelCalls` | no request forgotten or answered twice, timers match requests; session fields whole; output complete and in order; the object implements `RemoteCall`, liveness included | 2 sockets (one can be replaced while the other authenticates), one buffered and one streamed request, 2 chunks in all (of one request, in order, or of both; before or after the answer, lost or not); 1.2 million states. No symmetry because of liveness |
| `ClientTimers` | no orphan, silence bounded, giving up final, always connected again | 2 connections; interval 4, acknowledgement 3, delays 1 to 3: every order of the three timers occurs, the delay reaches its cap |
| `ConfirmRaces` | user told the truth, waits end in time, records drain, `UserGate` implemented | 2 approvals; expiry 4, wait 5, sweep every 2 out of phase with creation: the wait's timer, the sweep and the user can each be first. The proofs hold for every order of the delays |
| `ExecutorGuards` | nothing unconfirmed, overshoot bounded, map of controllers sound, every call ends; timed out commands end, and so does what the shutdown found | 3 calls: a command and a write that share an id and need the user, a read; budgets of 1: every budget runs out and is refilled; a timeout, the loss of the Worker and the shutdown can meet one process. 0.45 million states |
| `Registry` | a registration that overlaps no update stands; a steady device is served; calls settle on the only device left | 2 devices (ambiguity), 2 tokens, 2 operations in KV at once (a late update of an old connection and another), presence outlives the heartbeat interval by a tick, 3 events of administration or failure |
| `SnapshotStore` | no text lost, restores below the cap work, store paired and capped | 3 calls, 2 at a time, on 2 files, a cap of 2: retention removes, the third call finds two snapshots; one crash |
| `SnapshotUndo` | expected violation, see Findings | 2 calls, 1 file, a cap of 1 |
| `ExtensionCalls` | sockets bounded, results true, every batch delivered, connected again | 2 sockets (an old one and its successor), a batch of 2 calls, 2 switches of the popup (off and on again, or a second socket opened during a reconnect wait), any number of losses; 0.43 million states |
| `PageAuto` | the cap, nothing sent twice, losses known | a cap of 1, 3 batches (one of another chat), 4 fetches: one auto-continue, one beyond the cap, a failure and a page request can meet |
| `PolicyWays` | a workspace works, switching off only restricts, tools stay inside | 3 changes (one in each of the three places), a project inside and one outside home, a link that lies outside every allowed directory, names with a backslash, with `\..` and with a blank at the end, a safe and a dangerous command |
| `DaemonLife` | status, service and stop are right | 4 pids, 2 of the service (a stale `daemon.pid` may hold one) and 2 of terminals; 5 commands, crashes or edits |
| `SetupRuns` | a setup serves; secrets are right | 2 runs of setup (what the first left, with a daemon that starts in between or alongside), 2 overlapping `deckagent secret`, 2 names; 0.5 million states |

The tunnel object's requests interact only through the session, so two
requests of different kinds show every interaction of one with another; two
sockets show a new connection while the old one is cleaned up, and the session
invariants are proved for any number. Three calls are one to act, one to be
disturbed and one whose id or budget is shared. The larger sizes of what is
proved (next section) need no run.

Identifiers are used once in `TunnelDO`, `ToolExecutor`, `Snapshots`,
`PageScript` and `Policy`, so their runs end; the confirmation server and the
daemon really stop, the extension may be switched off, and without a user's
command `Setup` does nothing: these runs say `CHECK_DEADLOCK FALSE`.
`ClientTimers` and `Registry` are checked for deadlock: time goes on.

## Fairness

- `TunnelDO`: weak fairness of `Timeout` only. `setTimeout` of a live object
  fires; nothing is assumed of network, daemon or close events, so the answer
  promised by `RemoteCall` rests on the object's own timer.
- `TunnelClient`: weak fairness of time and due timers, of the close event after
  `close()` or `terminate()`, and of TCP reporting a peer that cannot be
  reached (the keepalive and retransmission timeouts of the system). Strong
  fairness of `Open` and `AuthOk`: of connections attempted again and again,
  not every one fails before it is authenticated. Without it `Reconnects` is
  false for a Worker that is down for ever.
- `Confirmation`: weak fairness of time, the sweep and the wait's timer; none of
  the user.
- `ToolExecutor`: weak fairness of each call's timer, and of the gate's decision,
  which is the liveness part of `UserGate` that `ConfirmRaces` checks of
  `Confirmation`. None of the tools: they may run for ever. `Commands` adds the SIGKILL timers
  and nothing of the shells or their pipes.
- `DeviceRegistry`: weak fairness of each operation in KV, of the heartbeat of a
  device with a session, and of time. None of connecting, administration, calls.
- `Extension`: weak fairness of a socket's opening and of its close event, of the
  reconnect timer, the storage write, the loop of a batch and the 60 s timer.
  None of error events, of the daemon's answers or of the popup.
- `Daemon`: weak fairness of the steps of a live process, of the manager's
  restart (`Restart=always`, every 5 s) and of the second half of a stop.
- `Setup`: weak fairness of the daemon's start by the manager and of its writing
  of the default policy; strong fairness of `ReadPolicy`: of the starts tried again
  and again, not every one is killed half way. None of the user's commands.
- `PageScript`, `Policy` and `Snapshots` state none and check safety only.

## Proofs

`TunnelDO_proofs` proves for any sets of sockets and requests and any number of
chunks:

- `TypeCorrect`, `NoneForgotten`, `AtMostOneReply`, `AnsweredStaysAnswered`,
  from the inductive invariant `IInv`. That a request is answered at most once
  is not inductive: it needs that every unanswered received request is pending
  and every pending one unanswered (`PendingUntilAnswered`), because each path
  that answers tests membership in `pending`, and that nothing was sent to a
  client before its request (`NothingBeforeTheCall`).
- `SessionAgrees` and `NoneOrphaned`, from `SessionInv`.
- `ImplementsSafely`: Init implies `RemoteCall`'s, and every step under `IInv`
  maps to one of its steps or a stutter. `DaemonHasOnlyForwarded` is there for
  this: a request the daemon runs was not refused.
- `OutputIsComplete`, from `OutputInv`: a finished command's output says nothing
  of the way to it, so the invariant follows the chunks from the first one. A
  request reaches the daemon once (`ForwardedOnce`), nothing is buffered before
  it runs (`NoOutputBeforeTheJob`), a pending tool has buffered, and a pending
  stream passed on, exactly the chunks that arrived (`OutputSoFar`), and after
  the result nothing arrives any more (`OutputAtTheEnd`).

`TunnelClient_proofs` proves for any delays:

- `TypeCorrect`, whatever timer overtakes a close event.
- Under `~LateClose`, that no socket but the current one is open or being opened
  (`NoneForgotten`) and that giving up is final (`StaysGivenUp`). The invariant
  adds that sockets other than the current one are on their way out
  (`OneSocket`), that a reconnect is armed only without a socket and while one
  is wanted (`ArmedAlone`), that a socket closed with `close()` was closed to
  stay so (`ClosedOnPurpose`), and that a reconnect falls due only after the
  close event of a terminated socket (`CloseFirst`), which is what `~LateClose`
  says.
- `AlwaysAnAttemptToCome`, under `~LateClose`: a client that wants its connection,
  and whose last close did not come with code 1008, has a socket that opens or is open, or an armed reconnect that `connect` does not
  turn away because of the state (`AttemptToCome`). Fairness only has to bring it.
- `SilentWorkerGivenUp`, under `~LateClose` and `AckTimeout < HeartbeatEvery`:
  while a connection is in use a heartbeat is to come, as far away as the wait
  for the acknowledgement says (`HeartbeatToCome`), and the Worker has spoken
  since the last heartbeat or the one before (`SpokenSince`). The acknowledgement
  has 45 s, so this is for configured intervals above that.
- `DefaultHeartbeatGivesUpNobody`, under `~LateClose` and
  `HeartbeatEvery < AckTimeout`, the order of the defaults: the timeout never
  falls due on a connection in use, since the next heartbeat restarts it first
  (`RestartedInTime`). This is the theorem behind the row of `SilenceBounded`
  under "What does not hold".

`Confirmation_proofs` proves for any number of approvals and any positive
delays `UserIsTold`, `WaitersReleased`, `WaitsAreBounded` and
`RecordsAreDropped`. The bounds on ages are not inductive: past its expiry, an
approval's age and the time to the next sweep together stay below a bound
(`InTime`), which `Tick` keeps and the sweep resets. `GateKept` shows that it
implements the safety part of `UserGate`: under the invariant every settle,
sweep and stop is a `Decide` of the gate, the others stutter.

The same module proves of `Policy`, which decides what is asked, for any calls,
paths, links and lists:

- `PoliciesAreValid`: file and memory hold what `PolicySchema` accepts, in any order
  of hand edits, settings and `workspace use`. It assumes that of the hand edits
  (`HandMadeAssumption`), as `readPolicy` refuses to start on another file.
- `SwitchesOnlyRestrict`: only a setting changes the memory of a running daemon, it
  changes one field, and `Decision` is monotone in the three switches when the
  other fields are the same (`StricterRestricts`).
- `ExistingFilesStayInside`, wherever links lead: a file that exists is reached in
  an allowed directory only, and outside the workspace only after a question; for
  plain names, in which the policy converts nothing (`Plain`: no backslash, no blank
  at the end). For those, resolving again and comparing change nothing
  (`PlainStays`, `PlainCompared`); for the others the code does not guarantee it
  (`AllToolsStayInside` below).
- `WritesStayInside`, the same for what a tool creates, under `LinksAside`: no allowed
  directory and no link lies below the other, as in the run's instance. Then the path
  judged is the path written, because what is inside an allowed directory is not
  changed by following links. What does not exist yet has no real path to compare, so
  without the hypothesis neither the run nor the theorem says anything of it.
- `WorkspaceIsUsable`, for all names, under `LinksAside`, `DirectoriesAgree` (no
  allowed directory is relative to where a program was started) and `WorkspacesStay`
  (no workspace's own name ends in blanks). The invariant is that the file covers the
  workspace until somebody undoes it (`Added`), whatever was set since. What is
  written relative to the workspace stays below it when it is resolved twice
  (`RelativeStaysInside`), and what is below a directory is compared as being below
  it, whatever the conversion makes of both (`ComparedInside`).

What `Walk` computes for every path is an induction over its names. The library's
induction theorems take an operator, which the provers cannot give them, so it is
done on a set (`Induction`): what is not reached has a least element, by
`WellFoundedInduction`, and that one is reached from the one before it. `WalkDef`,
`WalkDown` (names without `..` are appended) and `WalkNormal` (no `..` remains) are
proved this way.

`ToolExecutor_proofs` proves for any calls, ids (repeated or not) and budgets:

- `OnlyWithConsent`, `AbortsHitRunningCalls`, `AbortsReachRunningCalls` and
  `OutcomesAreFinal`, from `IInv`. `Stages` strengthens them: who waits at the
  gate is exactly who is confirming, and a running call's tool is going. That an
  abort leaves ended calls alone rests on the map naming running calls only,
  which a repeated id could break if a call left the map to another.
- `UserIsNotFlooded`, by itself inductive: only `Admit` counts a confirmation,
  in the step that checks.
- `OvershootIsBounded`: the count plus the calls in flight stay below the cap
  plus the most calls that ever overlapped. Admitting a call raises both sides,
  an end moves a call from the second term to the first.
- `CommandsAreTheExecutors`: every step of `Commands` is a step of the executor
  or leaves its variables alone, so all of the above holds with the processes.
- `ShutdownLeavesNoCommand`: `Processes` says that what the shutdown found has
  ended or still has its SIGKILL to come, and that no call gets a second
  process; the latter needs `Stages` of the executor's invariant.
- `TimedOutCommandsAreDoomed`: until the shutdown, a command that was reported as timed
  out and still runs has its SIGKILL to come. `Tracking` adds that a running process
  is tracked, so that the timeout finds it, and that a call has no outcome
  before its end.

`DeviceRegistry_proofs` proves for any devices, tokens, handlers and delays:

- `TypeCorrect`, and `WritesStand`: an update is dangerous only by the copy it
  holds, so the invariant says of a device whose last registration or removal met
  no copy that every copy taken since agrees with it (`CopiesAgree`).
- `SteadyDevicesServed`, when presence outlives the heartbeat interval
  (`Interval < Ttl`; 90 s is the TTL and 15 s the default interval, which may be
  configured from 5 s to 300 s). From `SteadyInv`: who works on a calm device
  has a copy that is a record and does not take its presence away
  (`CopiesAreRecords`, `CalmIsUndisturbed`), and its presence lives at least
  until the heartbeat that is due next, unless the update that renews it is
  under way (`PresenceOutlives`).

`Snapshots_proofs` proves for any calls, files and cap `TypeCorrect`,
`StoreStaysInOrder`, `LoneRestoreWorks` and `NothingIsLost`. Neither half of
`StoreInOrder` is inductive.

- That snapshots keep their blobs (`Paired`) needs `RecordsInv`: only what had
  its metadata written is ever a victim, and a sweep at a victim's metadata has
  removed its blob.
- The cap (`Capped`) is the hard part, as sweeps overlap: two of them may list the same
  surplus, and each trusts its old listing. `CappedInv` says it of every set X of
  sweeps that are in their second loop: without what X will still remove, the
  store has the cap and one for each sweep outside X. A sweep that lists
  (`Recollect`) joins X with what brings the store to the cap; one that ends
  leaves X with nothing to remove. `Capped` is the case of the empty X.
- That nothing is removed that could stay is `DoomedInv`: a victim is
  expired or has the cap's number of newer snapshots (`Doomed`), which a later
  snapshot does not change and which needs that the expired are the oldest
  (`AgedFirst`).
- A spared restore's snapshot had its blob when it was found, by `DoomedInv`. The
  one snapshot the restore takes leaves it below the cap, no other call runs, and
  it was not expired at `Collect`, so that it is a victim of neither loop, although
  it may have expired since (`Safe`, `SparedInv`).
- A call outside `shared` is the only one on its files (`Apart`; a rename moves
  only the opened files of calls that touch the same name), so that what its file
  holds is still what its snapshot took (`Taken`). Where a sweep has removed that
  snapshot, even before the call makes its change, it had the cap's number of newer
  ones (`GoneInv`, again from `Doomed`). That is `NothingLost`.

`Browser_proofs` proves, of the background script for any sockets, batches and
switches:

- `TypeCorrect` and `SocketsStayBounded`. Only a `set_enabled` adds a socket or an
  armed timer, and it does so after its storage write: `RoomForSaves` keeps room
  for those that are not written yet.
- `ReconnectIsToCome`: enabled and without a socket, the extension has a reconnect
  timer armed or a switch to store (`BackToCome`). It rests on what is stored last
  being what it acts on (`LatestSaved`), as a switch may be stored after another
  was made. `BackInv` says the same with booleans as values.
- `NoBatchIsStuck`: a batch that is not delivered can go on, or waits for one call
  only, whose timer is armed (`BatchesGoOn`, from `OneCallAtATime`).
- `ResultsAreTrue`, from `ResultsInv`: a batch waits for at most its last call
  (`OneCallAtATime`), a call is in one message at most and only what was passed on
  is sent or run (`IssuedOnce`, `RunsOnce`), and what is noted as an answer is of
  a call that is done (`AnswersAreOfRuns`).

and of the page's script for any batches, fetches and cap:

- `ContinuesAreCapped`. The code bounds its own counter, not the auto-continues;
  the invariant is that the counter is never behind them (`Counted`), though flag
  and counter are shared with the page's requests.
- `ResultsAreSentOnce`, from `OnceInv`: a batch whose auto-continue has not failed
  is in one place only, its timer, the queue or the last request, which the next
  auto-continue repeats (`OnePlace`), and one that has not come is nowhere
  (`Unseen`).
- `OnlyKnownLosses`: by cases on the step, where each place a batch leaves is
  another's gain or one of the three losses.

`CommandLine_proofs` proves of `Daemon`, for any pids and any number of events:

- `StatusIsRight`: without a clash only one process is alive (`Alone`), and from
  its boot until it is told to stop `daemon.pid` names it (`Named`).
- `StopMissesNoDaemon`, without a clash: once `deckagent stop` has returned, who
  still lives is ending or has a SIGTERM to handle (`StopReaches`), because its
  first half has switched the service off (`StopTold`) and its second half finds
  by `daemon.pid` who was not told yet (`Named`).
- `OneDaemonServes`, also after a clash: at most one daemon is up, and it has all
  three ports; no port is kept by a process that is gone, and the service's process
  lives. Two starts are told apart by the ports alone: a port is held by a process
  that started its server and has not stopped it (`PortsOwned`). The service never
  has two processes (`MainLives`).

and of the setup:

- `SecretsAreRight`, for any number of overlapping or dying `deckagent secret`: the
  vault is torn, or as it was last completely written (`VaultWhole`), and the reader
  refuses a torn one.
- `SetUpIsDone`, for any number of runs that fail, are waved through or are
  interrupted, and any daemon that starts meanwhile: one that reports success leaves a
  service that is on, its own configuration, a `policy.json`, and a Worker that has its
  token and knows its device. The policy is the one the user chose, unless a daemon
  found no `policy.json` since the setup began. `SoFar` says what each step leaves for
  the next: the configuration of Wrangler until the deployment, the Worker's token and
  namespace until the registration, and so on; `PolicySoFar` says who may have
  written `policy.json` since setup opened it.

`AlwaysAnAttemptToCome`, `TimedOutCommandsAreDoomed`, `ReconnectIsToCome`,
`NoBatchIsStuck`, `StopMissesNoDaemon`, `OneDaemonServes` and `SetUpIsDone` are the
safety part of liveness properties that only the runs check: no order of events leads
to a state from which nothing will bring what was promised.

Assumptions are the named `ASSUME`s of the modules: the kinds of request are
disjoint, `None` and the like are no values, the delays, budgets, sizes and caps are
positive (the policy's schema demands it of the budgets), the calls are finitely
many, and the home, the working directories and the workspaces are resolved paths.
The hypotheses that only some configurations meet (`~LateClose`, `LinksAside`,
`DirectoriesAgree`, `WorkspacesStay`, the order of two delays) and the bound of `Setup`
(`MaxRuns \in Nat`, and that a torn file is none of the policies) stand in the theorems. Nothing else is taken on trust.

Every invariant and every action property of the passing runs is proved, and so is
the safety of both refinements. Only model-checked is liveness, which is out of the
prover's reach: of `RemoteCall` and `UserGate`, `Reconnects` of both
modules, `EveryCallEnds`, `TimedOutCommandsEnd`, `SettlesOnSole`,
`EveryBatchDelivered`, `ServiceComesUp`, `StopStops` and `SetUpServes`.

## Findings

`SnapshotUndo` ends with a counterexample; `PROJECT.json` quotes the lines.
`restore_snapshot` snapshots the current file first, and the retention sweep of
that snapshot removes the oldest ones beyond the cap. Restoring the oldest
listed snapshot of a full store deletes it before it is read. `RestoreWorks`
says when a restore is safe: alone, with its snapshot below the cap, and not
expired when the sweep of the restore's own snapshot reads the clock.

### What does not hold

The modules state more that the repository says of itself and the code does not
do. To see the counterexample, put the definition in place of a run's
properties, with the constants given.

| Module | Definition | Where | In short |
|---|---|---|---|
| `TunnelDO` | `OfflineMeansDisconnected` (`TunnelCalls.cfg`) | `tunnel-do.ts:158` | the close event of a replaced socket fails the live session's requests with `DEVICE_OFFLINE` |
| `TunnelDO` | `AuthOkNamesSession` | `tunnel-do.ts:223` | the same event during the presence update makes `auth_ok` carry `session_id: null` |
| `TunnelClient` | `SilenceBounded` with `HeartbeatEvery = 2`, the default order of the two delays | `tunnel-client.ts:279` | each heartbeat restarts the acknowledgement timer, so that it never fires |
| `TunnelClient` | `NoOrphans`, `GivingUpIsFinal` with `LateClose = TRUE` | `tunnel-client.ts:230` | `onClose` clears `this.ws` without asking whose close it is; takes an event loop blocked for 1 s or more |
| `TunnelClient` | `NoLossIsTheLast` | `tunnel-client.ts:240` | a close with code 1008 is never followed by a reconnect, whoever closed and whatever for; the daemon runs on, offline |
| `Confirmation` | `OpenForTheWait` with `Wait = 7` | `confirmation-server.ts:111` | the user is told 90 s, the approval expires after 60 s |
| `ToolExecutor` | `ReadOnlyStops` | `tool-executor.ts:204` | a mutating call whose confirmation is pending when the policy becomes read-only still runs once approved |
| `ToolExecutor` | `TimeoutMeansTooLong` | `tool-executor.ts:290` | the loss of the Worker's connection ends the extension's calls with `TOOL_TIMEOUT` |
| `ToolExecutor` | `ShutdownKillsAll` | `index.ts:252` | a command started while the daemon shuts down is not killed and outlives it |
| `Snapshots` | `ListedCanBeRestored` with `MaxSnapshots = 3` (`SnapshotUndo.cfg`) | `snapshots.ts:137` | also far below the cap: a snapshot that expires after `restore_snapshot` found it is removed by the restore's own sweep before it is read |
| `PageScript` | `QueuedReachChat` | `fetch-patch.ts:312` | any request on the adapter's host empties the queue, also one without messages |
| `PageScript` | `BatchesCoalesce` | `auto-continue.ts:6` | the debounce keeps the last batch only |
| `Policy` | `WorkspaceSurvives` | `control-ui.ts:193` | a setting in the control UI writes the daemon's memory over what `workspace use` added |
| `Policy` | `WorkspaceWorks` with a relative directory in a policy of `HandMade`, and `Shell` other than `Cwd` | `workspace.ts:74` | `workspace use` finds the new workspace covered by a directory that the daemon resolves to another one |
| `Policy` | `WorkspaceWorks` with a workspace whose name ends in blanks | `policy.ts:654` | given with a separator after it, the name is kept by `workspace use`, and trimmed by the daemon's comparison, which takes the workspace's files for files outside it |
| `Policy` | `AllToolsStayInside` | `policy.ts:671`, `policy.ts:654` | what is compared is not what is opened: a name with a backslash counts as a directory and a file in it, and one that ends in blanks, written with a separator after it, as the name without them |
| `Policy` | `FlagIsForTheSession` | `index.ts:235` | a setting made under `--enable-browser` stores the flag |
| `Daemon` | `StatusTrue` | `index.ts:95` | a second start that finds the ports taken removes `daemon.pid` of the first |
| `Daemon` | `ServiceComesUp`, `StopStops` with `ClosesIdle = FALSE` | `control-ui.ts` | before Node 19, an open control page keeps a daemon from ending |
| `Setup` | `EverySetupServes` | `install-daemon.ts:226` | the service is started, not restarted: an old daemon keeps the old configuration |
| `Setup` | `ChosenPolicyHolds` | `policy.ts:146` | a daemon that finds no `policy.json` writes the default, and may do so over, or mixed with, the one setup writes; `SetUpServes` excepts a file left torn in this way |
| `Setup` | `DeploysKeepTheNamespace` | `deploy-worker.ts:174` | every setup makes a namespace, earlier devices are unknown |
| `Vault` | `SecretsCanBeRead` | `cli/src/secrets.ts:51` | a crash or an overlap leaves a vault that must be removed by hand |

Budgets are checked when a call starts and counted when it ends, so calls that
overlap exceed the hourly caps; `OvershootBounded` says by how many calls. An
update of a device's status that overlaps a registration or a removal undoes it,
which is why `LastWriteStands` speaks of those that meet no update. Two
`deckagent secret` that overlap lose one of the two changes. `--stop` of a
daemon that the service runs is followed by a restart. `setup --skip-deploy`
writes no configuration. `cleanupOldLogs` (`logger.ts:118`) looks for names
ending in `.log`, which rotated logs do not; `cleanup` therefore never applies to
them. Two concurrent `browser_navigate` each launch a browser
(`browser.ts:65`) and one is lost.

## Not modelled

- Contents of messages and catalogues, chat adapters, rendering: data without
  state. The readers of chat streams in `fetch-patch.ts` are parsers.
- Logs, audit log and resources: append-only or read-only files of one process.
- The browser session; its effect on a call is that the tool returns, or does not
  (`ToolExecutor`).
- The macOS and Windows services, whose managers differ from systemd's rules that
  `Daemon` relies on; `doctor` and `tunnel` print or start other programs.
- Hibernation of Durable Objects does not occur: `tunnel-do.ts` uses
  `server.accept()`, so sockets and object live and die together; a restart of
  the object is a fresh `Init` with every socket closed and every waiting client
  disconnected.
- The tunnel's two ends are modelled each against what it sees of the other. The
  exception of KV in a heartbeat's handler, which the object reports as
  `auth_error` (`TunnelDO`, `HandlerThrows`) and after which the client gives up
  (`TunnelClient`, `HandleAuthError`), spans both and has no property.
