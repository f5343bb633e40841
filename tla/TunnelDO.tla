------------------------------ MODULE TunnelDO ------------------------------
(***************************************************************************)
(* The Worker's Durable Object for one device                              *)
(* (packages/cloudflare-worker/src/tunnel-do.ts): it accepts the daemon's  *)
(* WebSockets, authenticates them, forwards MCP tool calls and resource    *)
(* reads over the current one, and answers every MCP request once.         *)
(*                                                                         *)
(* The object is single threaded, but its handlers await KV (Workers KV,   *)
(* outside the object's own storage, so other events run meanwhile): one   *)
(* action stands for the code between two awaits.  Each accepted upgrade   *)
(* is one socket; the daemon authenticates once per socket, so the random  *)
(* session id of an authentication is represented by its socket.           *)
(*                                                                         *)
(* Sockets, requests and daemon are what the object sees of the network:   *)
(* the close event of a dead connection arrives late, after a reconnect if *)
(* the network is slow; a send on a dead socket may throw or be lost;      *)
(* answers may come after the timeout, or not at all.                      *)
(***************************************************************************)
EXTENDS Integers, Sequences, FiniteSets

CONSTANTS
    Sockets,    \* the WebSockets accepted in the object's life
    Tools,      \* tools/call requests answered as one JSON-RPC response
    Streams,    \* execute_command_stream requests answered as an SSE stream
    Resources,  \* resources/read requests for a daemon resource
    Device,     \* the device id this object was created for
    None,       \* null
    MaxChunks   \* bound: tool_progress chunks of any two requests together

ASSUME RequestKinds ==
    /\ Tools \intersect Streams = {}
    /\ Tools \intersect Resources = {}
    /\ Streams \intersect Resources = {}

ASSUME NoneIsNoValue == None \notin Sockets /\ None # Device

ASSUME ChunkBound == MaxChunks \in Nat

Requests == Tools \union Streams \union Resources

VARIABLES
    \* the fields of TunnelDO
    ws, deviceId, sessionId,
    pending,    \* keys of pendingTools and pendingResources: the ids differ
    chunks,     \* the progress each pending tool has buffered
    timers,     \* the requests whose setTimeout is armed
    \* the handlers that wait for KV, per socket
    auth,       \* how far the auth message of the socket got
    beating,    \* sockets with a heartbeat handler waiting for KV
    \* the sockets as the object sees them
    link,       \* state of each socket
    told,       \* what the object last told the daemon on the socket
    toldSession,\* the session_id of the auth_ok sent on the socket
    \* the MCP clients
    called,     \* requests received so far
    replies,    \* every resolve (JSON) or final event and close (SSE)
    delivered,  \* the progress chunks the client has been given
    \* the daemon
    wire,       \* execute_tool / read_resource messages in transit
    job,        \* the daemon's handling of each request
    arrived     \* how many progress chunks of each request have arrived

sessionVars == <<ws, deviceId, sessionId>>
pendingVars == <<pending, chunks, timers>>
socketVars  == <<auth, beating, link, told, toldSession>>
clientVars  == <<called, replies, delivered>>
daemonVars  == <<wire, job, arrived>>
vars == <<sessionVars, pendingVars, socketVars, clientVars, daemonVars>>

LinkStates == {"unused", "open", "lost", "closing", "errored", "closed"}
AuthStates == {"none", "verifying", "marking", "done", "refused"}
Answers    == {"result", "error"}
Replies    == Answers \union {"timeout", "offline", "refused"}
Chunk      == 1..MaxChunks

TypeOK ==
    /\ ws \in Sockets \union {None}
    /\ deviceId \in {Device, None}
    /\ sessionId \in Sockets \union {None}
    /\ pending \subseteq Requests
    /\ chunks \in [Requests -> Seq(Chunk)]
    /\ timers \subseteq Requests
    /\ auth \in [Sockets -> AuthStates]
    /\ beating \subseteq Sockets
    /\ link \in [Sockets -> LinkStates]
    /\ told \in [Sockets -> {"nothing", "auth_ok", "auth_error"}]
    /\ toldSession \in [Sockets -> Sockets \union {None}]
    /\ called \subseteq Requests
    /\ replies \in [Requests -> Seq(Replies)]
    /\ delivered \in [Requests -> Seq(Chunk)]
    /\ wire \subseteq Sockets \X Requests
    /\ job \in [Requests -> {"none", "running", "done"}]
    /\ arrived \in [Requests -> 0..MaxChunks]

Init ==
    /\ ws = None /\ deviceId = None /\ sessionId = None
    /\ pending = {} /\ timers = {}
    /\ chunks = [r \in Requests |-> <<>>]
    /\ auth = [s \in Sockets |-> "none"]
    /\ beating = {}
    /\ link = [s \in Sockets |-> "unused"]
    /\ told = [s \in Sockets |-> "nothing"]
    /\ toldSession = [s \in Sockets |-> None]
    /\ called = {}
    /\ replies = [r \in Requests |-> <<>>]
    /\ delivered = [r \in Requests |-> <<>>]
    /\ wire = {}
    /\ job = [r \in Requests |-> "none"]
    /\ arrived = [r \in Requests |-> 0]

-----------------------------------------------------------------------------
(* Sockets: accepted, lost, reported lost.                                 *)

\* handleWebSocketUpgrade.  A daemon holds one connection at a time: it opens
\* another only after it gave the last one up, which the object may not know.
\* Every upgrade of this object names Device (index.ts routes by device_id),
\* so expectedDeviceId is Device from the first accept on.  The names of the
\* sockets mean nothing, so they are used in one order.
Accept(s) ==
    /\ link[s] = "unused"
    /\ s = CHOOSE t \in Sockets : link[t] = "unused"
    /\ \A t \in Sockets : link[t] # "open"
    /\ link' = [link EXCEPT ![s] = "open"]
    /\ UNCHANGED <<sessionVars, pendingVars, auth, beating, told, toldSession,
                   clientVars, daemonVars>>

\* The daemon closes the connection, or the network drops it: what is in
\* transit to the daemon is gone, and the object does not know yet.
LinkLost(s) ==
    /\ link[s] = "open"
    /\ link' = [link EXCEPT ![s] = "lost"]
    /\ wire' = {m \in wire : m[1] # s}
    /\ UNCHANGED <<sessionVars, pendingVars, auth, beating, told, toldSession,
                   clientVars, job, arrived>>

CleanupWebSocket_KeepsTimers ==
    /\ replies' = [r \in Requests |->
                     IF r \in pending THEN Append(replies[r], "offline")
                                      ELSE replies[r]]
    /\ pending' = {}
    /\ chunks' = [r \in Requests |-> <<>>]
    /\ ws' = None /\ deviceId' = None /\ sessionId' = None
    /\ UNCHANGED timers

CleanupWebSocket_KeepsSession ==
    /\ replies' = [r \in Requests |->
                     IF r \in pending THEN Append(replies[r], "offline")
                                      ELSE replies[r]]
    /\ timers' = timers \ pending
    /\ pending' = {}
    /\ chunks' = [r \in Requests |-> <<>>]
    /\ ws' = None /\ deviceId' = None
    /\ UNCHANGED sessionId

\* cleanupWebSocket: every pending request is answered DEVICE_OFFLINE and the
\* session forgotten, whichever socket the event is about.  The fire-and-
\* forget presence update it starts lives in KV, outside this module.
CleanupWebSocket ==
    /\ replies' = [r \in Requests |->
                     IF r \in pending THEN Append(replies[r], "offline")
                                      ELSE replies[r]]
    /\ timers' = timers \ pending
    /\ pending' = {}
    /\ chunks' = [r \in Requests |-> <<>>]
    /\ ws' = None /\ deviceId' = None /\ sessionId' = None

SocketError(s) ==
    /\ link[s] = "lost"
    /\ link' = [link EXCEPT ![s] = "errored"]
    /\ CleanupWebSocket
    /\ UNCHANGED <<auth, beating, told, toldSession, called, delivered,
                   daemonVars>>

\* The close event follows an error event, or comes alone.
SocketClose(s) ==
    /\ link[s] \in {"lost", "errored", "closing"}
    /\ link' = [link EXCEPT ![s] = "closed"]
    /\ CleanupWebSocket
    /\ UNCHANGED <<auth, beating, told, toldSession, called, delivered,
                   daemonVars>>

-----------------------------------------------------------------------------
(* The auth and heartbeat messages, cut at their awaits.                   *)

\* Messages of a lost connection that were already received are delivered.
Receiving(s) == link[s] \in {"open", "lost"}

\* server.send on a socket whose close event has been handled has no effect.
Tell(s, what) ==
    told' = IF link[s] = "closed" THEN told ELSE [told EXCEPT ![s] = what]

\* auth_error, then server.close(1008).
Refuse(s) ==
    /\ auth' = [auth EXCEPT ![s] = "refused"]
    /\ Tell(s, "auth_error")
    /\ link' = [link EXCEPT ![s] =
                  IF link[s] \in {"closed", "errored"} THEN @ ELSE "closing"]

\* device_id and protocol_version are checked, then authenticateDevice waits.
ReceiveAuth(s) ==
    /\ Receiving(s) /\ auth[s] = "none"
    /\ \/ Refuse(s)
       \/ /\ auth' = [auth EXCEPT ![s] = "verifying"]
          /\ UNCHANGED <<link, told>>
    /\ UNCHANGED <<sessionVars, pendingVars, beating, toldSession, clientVars,
                   daemonVars>>

\* The session is this socket's from here on; the socket it replaces is not
\* closed, and the requests it carried stay pending.
Authenticated(s) ==
    /\ ws' = s /\ deviceId' = Device /\ sessionId' = s
    /\ auth' = [auth EXCEPT ![s] = "marking"]
    /\ UNCHANGED <<link, told>>

\* The catch of the message listener: auth_error, the socket stays open.
HandlerThrows(s) ==
    /\ Tell(s, "auth_error")
    /\ UNCHANGED <<sessionVars, link>>

\* authenticateDevice returned a device, returned null, or threw.
VerifyAuth(s) ==
    /\ auth[s] = "verifying"
    /\ \/ Authenticated(s)
       \/ Refuse(s) /\ UNCHANGED sessionVars
       \/ auth' = [auth EXCEPT ![s] = "refused"] /\ HandlerThrows(s)
    /\ UNCHANGED <<pendingVars, beating, toldSession, clientVars, daemonVars>>

\* updateDeviceStatus returned: auth_ok carries the object's session id as it
\* is now.  If it threw, the daemon is told auth_error but the session stays.
FinishAuth(s) ==
    /\ auth[s] = "marking"
    /\ auth' = [auth EXCEPT ![s] = "done"]
    /\ \/ /\ Tell(s, "auth_ok")
          /\ toldSession' = IF link[s] = "closed" THEN toldSession
                            ELSE [toldSession EXCEPT ![s] = sessionId]
       \/ Tell(s, "auth_error") /\ UNCHANGED toldSession
    /\ UNCHANGED <<sessionVars, pendingVars, beating, link, clientVars,
                   daemonVars>>

\* A heartbeat waits for the presence update of the object's current device,
\* whoever sent it; with no device it is acknowledged at once (no change).
\* The daemon's heartbeats are further apart than a KV write takes.
ReceiveHeartbeat(s) ==
    /\ Receiving(s) /\ told[s] = "auth_ok"
    /\ s \notin beating
    /\ deviceId # None
    /\ beating' = beating \union {s}
    /\ UNCHANGED <<sessionVars, pendingVars, auth, link, told, toldSession,
                   clientVars, daemonVars>>

\* heartbeat_ack, or auth_error if the update threw.
FinishHeartbeat(s) ==
    /\ s \in beating
    /\ beating' = beating \ {s}
    /\ \/ UNCHANGED told
       \/ Tell(s, "auth_error")
    /\ UNCHANGED <<sessionVars, pendingVars, auth, link, toldSession,
                   clientVars, daemonVars>>

-----------------------------------------------------------------------------
(* MCP requests and the daemon's answers.                                  *)

\* No daemon, or an unknown tool or uri: answered without the daemon.
RefuseCall(r) ==
    /\ r \notin called
    /\ called' = called \union {r}
    /\ replies' = [replies EXCEPT ![r] = Append(@, "refused")]
    /\ UNCHANGED <<sessionVars, pendingVars, socketVars, delivered, daemonVars>>

SendFails_KeepsTimer(r) ==
    /\ link[ws] \in {"closing", "errored", "closed"}
    /\ replies' = [replies EXCEPT ![r] = Append(@, "refused")]
    /\ timers' = timers \union {r}
    /\ UNCHANGED <<pending, wire>>

\* this.ws.send threw: the entry and its timer are taken back.
SendFails(r) ==
    /\ link[ws] \in {"closing", "errored", "closed"}
    /\ replies' = [replies EXCEPT ![r] = Append(@, "refused")]
    /\ UNCHANGED <<pending, timers, wire>>

\* The message is on its way, or lost on a dead socket.
SendWorks(r) ==
    /\ pending' = pending \union {r}
    /\ timers' = timers \union {r}
    /\ wire' = IF link[ws] = "open" THEN wire \union {<<ws, r>>} ELSE wire
    /\ UNCHANGED replies

ForwardCall(r) ==
    /\ r \notin called
    /\ ws # None /\ deviceId # None
    /\ called' = called \union {r}
    /\ SendWorks(r) \/ SendFails(r)
    /\ UNCHANGED <<sessionVars, chunks, socketVars, delivered, job, arrived>>

\* The timer of a request fires: TOOL_TIMEOUT or RESOURCE_TIMEOUT.
Timeout(r) ==
    /\ r \in timers
    /\ timers' = timers \ {r}
    /\ pending' = pending \ {r}
    /\ chunks' = [chunks EXCEPT ![r] = <<>>]
    /\ replies' = [replies EXCEPT ![r] = Append(@, "timeout")]
    /\ UNCHANGED <<sessionVars, socketVars, called, delivered, daemonVars>>

\* The daemon receives the message and starts on it.
Receive(s, r) ==
    /\ <<s, r>> \in wire
    /\ wire' = wire \ {<<s, r>>}
    /\ job' = [job EXCEPT ![r] = "running"]
    /\ UNCHANGED <<sessionVars, pendingVars, socketVars, clientVars, arrived>>

\* The daemon's next message about r gets through on some connection.
Connected == \E s \in Sockets : Receiving(s)

\* tool_progress: only execute_command_stream sends it.
Progress(r) ==
    /\ r \in Tools \union Streams
    /\ job[r] = "running" /\ Connected
    /\ arrived[r] < MaxChunks
    /\ \A q \in Requests \ {r} : arrived[r] + arrived[q] < MaxChunks
    /\ arrived' = [arrived EXCEPT ![r] = @ + 1]
    /\ chunks' = IF r \in pending \ Streams
                 THEN [chunks EXCEPT ![r] = Append(@, arrived[r] + 1)]
                 ELSE chunks
    /\ delivered' = IF r \in pending \intersect Streams
                    THEN [delivered EXCEPT ![r] = Append(@, arrived[r] + 1)]
                    ELSE delivered
    /\ UNCHANGED <<sessionVars, pending, timers, socketVars, called, replies,
                   wire, job>>

Merged_NewestFirst(r, a) ==
    IF a = "result" /\ r \notin Streams
    THEN [delivered EXCEPT ![r] = [i \in DOMAIN chunks[r] |->
                                      chunks[r][Len(chunks[r]) + 1 - i]]]
    ELSE delivered

\* mergeProgressIntoResult: a buffered tool's result carries its progress; an
\* error does not.  A stream's client has its progress already.
Merged(r, a) ==
    IF a = "result" /\ r \notin Streams
    THEN [delivered EXCEPT ![r] = chunks[r]]
    ELSE delivered

Resolve_EvenIfSettled(r, a) ==
    /\ pending' = pending \ {r}
    /\ timers' = timers \ {r}
    /\ chunks' = [chunks EXCEPT ![r] = <<>>]
    /\ delivered' = Merged(r, a)
    /\ replies' = [replies EXCEPT ![r] = Append(@, a)]

\* resolveToolResult and resolveResourceResult: ignored unless pending.
Resolve(r, a) ==
    IF r \in pending
    THEN /\ pending' = pending \ {r}
         /\ timers' = timers \ {r}
         /\ chunks' = [chunks EXCEPT ![r] = <<>>]
         /\ delivered' = Merged(r, a)
         /\ replies' = [replies EXCEPT ![r] = Append(@, a)]
    ELSE UNCHANGED <<pendingVars, delivered, replies>>

\* tool_result, tool_error, resource_result or resource_error, on any socket.
DaemonAnswers(r, a) ==
    /\ job[r] = "running" /\ Connected
    /\ job' = [job EXCEPT ![r] = "done"]
    /\ Resolve(r, a)
    /\ UNCHANGED <<sessionVars, socketVars, called, wire, arrived>>

\* The daemon gives up the answer: its own connection is not open.
AnswerLost(r) ==
    /\ job[r] = "running"
    /\ job' = [job EXCEPT ![r] = "done"]
    /\ UNCHANGED <<sessionVars, pendingVars, socketVars, clientVars, wire,
                   arrived>>

SocketStep(s) ==
    \/ Accept(s) \/ LinkLost(s) \/ SocketError(s) \/ SocketClose(s)
    \/ ReceiveAuth(s) \/ VerifyAuth(s) \/ FinishAuth(s)
    \/ ReceiveHeartbeat(s) \/ FinishHeartbeat(s)
    \/ \E r \in Requests : Receive(s, r)

RequestStep(r) ==
    \/ RefuseCall(r) \/ ForwardCall(r) \/ Timeout(r)
    \/ Progress(r) \/ AnswerLost(r)
    \/ \E a \in Answers : DaemonAnswers(r, a)

Next == (\E s \in Sockets : SocketStep(s)) \/ (\E r \in Requests : RequestStep(r))

\* Armed timers fire; nothing else is promised: not the network, not the
\* daemon, not even the close event of a dead connection.
Fairness == \A r \in Requests : WF_vars(Timeout(r))

Spec == Init /\ [][Next]_vars /\ Fairness

-----------------------------------------------------------------------------
(* Properties.                                                             *)

\* The session's three fields change together, across every await: there is
\* a socket exactly when there is a device and a session, the session is the
\* socket's own, and the socket passed authenticateDevice.
SessionWhole ==
    /\ (ws = None) <=> (deviceId = None)
    /\ sessionId = ws
    /\ ws # None => auth[ws] \in {"marking", "done"}

\* A request that was forwarded stays in the pending maps, with its timer
\* armed, until it is answered, and leaves both then: none is forgotten, no
\* timer outlives its request.
PendingUntilAnswered ==
    /\ timers = pending
    /\ pending = {r \in called : replies[r] = <<>>}

\* Of the timer, the daemon's late answer, a lost connection and a failed
\* send, only one ever resolves a request or ends its stream.
OneReply == \A r \in Requests : Len(replies[r]) <= 1

\* No request waits while there is no session to answer it: cleanupWebSocket
\* leaves none behind and none is accepted until the next authentication.
NoOrphans == ws = None => pending = {}

\* The client of a finished command has all of its output, in order, whether
\* it was streamed or buffered; a streaming client has all so far.
OutputComplete ==
    \A r \in Tools \union Streams :
        replies[r] = <<"result">> \/ r \in pending \intersect Streams
            => delivered[r] = [i \in 1..arrived[r] |-> i]

\* Once a request is answered nothing is added to what its client received:
\* late progress, answers and timers find no entry.
AnswerIsFinal ==
    [][\A r \in Requests :
          replies[r] # <<>> => /\ replies'[r] = replies[r]
                               /\ delivered'[r] = delivered[r]]_vars

-----------------------------------------------------------------------------
(* The object implements RemoteCall.                                       *)

PhaseOf(r) ==
    CASE r \in called /\ replies[r] = <<>> /\ r \in pending -> "waiting"
      [] r \notin called -> "idle"
      [] replies[r] \in {<<"result">>, <<"error">>} -> "answered"
      [] replies[r] \in {<<"timeout">>, <<"offline">>} -> "failed"
      [] replies[r] = <<"refused">> -> "refused"
      [] OTHER -> "inconsistent"

Phase == [r \in Requests |-> PhaseOf(r)]
Ran   == {r \in Requests : job[r] # "none"}

Call == INSTANCE RemoteCall WITH phase <- Phase, ran <- Ran

\* What the MCP client sees of the object is what RemoteCall promises.
ImplementsRemoteCall == Call!Spec

-----------------------------------------------------------------------------
(* The inductive invariant behind the theorems of TunnelDO_proofs.         *)

\* The daemon hears of a request only after it was received and not refused.
DaemonHasOnlyForwarded ==
    \A r \in Requests :
        (job[r] # "none" \/ \E s \in Sockets : <<s, r>> \in wire)
            => r \in called /\ replies[r] # <<"refused">>

NothingBeforeTheCall == \A r \in Requests \ called : replies[r] = <<>>

IInv ==
    /\ TypeOK
    /\ PendingUntilAnswered
    /\ OneReply
    /\ NothingBeforeTheCall
    /\ DaemonHasOnlyForwarded

SessionInv == TypeOK /\ SessionWhole /\ NoOrphans

\* The output of a command that has sent n chunks.
Output(n) == [i \in 1..n |-> i]

\* A request is sent to the daemon once, so it is run once.
ForwardedOnce ==
    /\ \A m \in wire : job[m[2]] = "none"
    /\ \A m, n \in wire : m[2] = n[2] => m = n

NoOutputBeforeTheJob ==
    /\ \A r \in Requests : job[r] = "none" => arrived[r] = 0
    /\ \A r \in Requests \ called : chunks[r] = <<>> /\ delivered[r] = <<>>

\* A pending tool has buffered all that arrived, a pending stream passed it on.
OutputSoFar ==
    /\ \A r \in pending \intersect Tools : chunks[r] = Output(arrived[r])
    /\ \A r \in pending \intersect Streams : delivered[r] = Output(arrived[r])

\* Nothing arrives any more for a command whose result was passed on.
OutputAtTheEnd ==
    \A r \in Tools \union Streams :
        replies[r] = <<"result">>
            => job[r] = "done" /\ delivered[r] = Output(arrived[r])

OutputInv ==
    IInv /\ ForwardedOnce /\ NoOutputBeforeTheJob /\ OutputSoFar /\ OutputAtTheEnd

-----------------------------------------------------------------------------
(* What the repository says and the code does not do.                      *)

\* system_prompt.md: "DEVICE_OFFLINE - The daemon disconnected."  A request
\* is not failed for a lost connection while the daemon has a working one
\* that was accepted with auth_ok.
OfflineMeansDisconnected ==
    [][\A r \in Requests :
          replies'[r] # replies[r] /\ replies'[r] = <<"offline">>
              => ~ \E s \in Sockets : link[s] = "open" /\ told[s] = "auth_ok"]_vars

\* types.ts: session_id of auth_ok is a string, and test.ts checks it is not
\* empty: an auth_ok on a working connection names a session.
AuthOkNamesSession ==
    \A s \in Sockets :
        link[s] = "open" /\ told[s] = "auth_ok" => toldSession[s] # None
=============================================================================
