------------------------------ MODULE Extension -----------------------------
(***************************************************************************)
(* The background script of the browser extension                          *)
(* (packages/v2-extension/src/entrypoints/background.ts) and the daemon's   *)
(* local server it talks to (packages/desktop-daemon/src/local-server.ts). *)
(*                                                                         *)
(* A chat's answer with tool calls is a batch: its calls run one after the *)
(* other on the daemon, and all results go to the tab together.  The       *)
(* background holds one field for its socket, and every socket ever opened *)
(* keeps its listeners; the popup switches the extension off and on.       *)
(***************************************************************************)
EXTENDS Integers, Sequences, FiniteSets, Bridge

CONSTANTS
    Sockets,    \* WebSocket objects, used again after their close event
    Size,       \* the number of tool calls of each batch
    MaxToggles  \* bound: set_enabled messages from the popup

ASSUME Bounds == Size \in Nat \ {0} /\ MaxToggles \in Nat
ASSUME NoneIsNoSocket == None \notin Sockets

VARIABLES
    enabled,    \* config.enabled
    saving,     \* set_enabled messages whose saveConfig is not over
    toggles,    \* how many there were
    active,     \* activeSocket
    connected,  \* daemonConnected
    sock,       \* the state of each socket
    greeted,    \* the sockets whose local_ready has arrived
    reconnects, \* armed reconnect timers
    \* batches and calls
    waiter,     \* keys of pendingToolWaiters, each with its 60 s timer
    buffer,     \* messages buffered in a socket that is not open, as <<s, id>>
    results,    \* the results of each batch so far
    begun,      \* how many of its calls were passed to executeToolOnDaemon
    tab,        \* how far each batch is
    \* the daemon
    wire,       \* execute_tool messages in transit
    run,        \* what the daemon does with each call
    via,        \* the socket each call came by
    back        \* answers in transit, as <<socket, call>>

configVars == <<enabled, saving, toggles>>
socketVars == <<active, connected, sock, greeted, reconnects>>
batchVars  == <<waiter, results, begun, tab>>
daemonVars == <<run, via, back>>
vars == <<configVars, socketVars, batchVars, buffer, wire, daemonVars>>

Ids == Batches \X (1..Size)
SocketStates == {"unused", "connecting", "open", "lost", "errored", "closing"}
Results == {"answer", "unsent", "failed"}

TypeOK ==
    /\ enabled \in BOOLEAN
    /\ saving \in Seq(BOOLEAN) /\ Len(saving) <= toggles
    /\ toggles \in 0..MaxToggles
    /\ active \in Sockets \union {None}
    /\ active # None => sock[active] # "unused"
    /\ connected \in BOOLEAN
    /\ sock \in [Sockets -> SocketStates]
    /\ greeted \subseteq {s \in Sockets : sock[s] # "unused"}
    /\ reconnects \in Nat
    /\ waiter \subseteq Ids
    /\ buffer \subseteq Sockets \X Ids
    /\ results \in [Batches -> Seq(Results)]
    /\ begun \in [Batches -> 0..Size]
    /\ tab \in [Batches -> {"none", "running", "delivered"}]
    /\ wire \subseteq Sockets \X Ids
    /\ run \in [Ids -> {"none", "running", "done"}]
    /\ via \in [Ids -> Sockets \union {None}]
    /\ back \subseteq Sockets \X Ids

\* init: with the stored configuration.
Init ==
    /\ enabled \in BOOLEAN
    /\ saving = <<>> /\ toggles = 0
    /\ IF enabled
       THEN \E s \in Sockets :
              /\ active = s
              /\ sock = [t \in Sockets |-> IF t = s THEN "connecting"
                                                    ELSE "unused"]
       ELSE active = None /\ sock = [t \in Sockets |-> "unused"]
    /\ connected = FALSE /\ greeted = {} /\ reconnects = 0
    /\ waiter = {} /\ buffer = {}
    /\ results = [b \in Batches |-> <<>>]
    /\ begun = [b \in Batches |-> 0]
    /\ tab = [b \in Batches |-> "none"]
    /\ wire = {} /\ back = {}
    /\ run = [id \in Ids |-> "none"]
    /\ via = [id \in Ids |-> None]

-----------------------------------------------------------------------------
(* Connections.                                                            *)

\* connectDaemon, whether or not there is a socket already.
ConnectDaemon ==
    IF ~ enabled THEN UNCHANGED <<active, sock>>
    ELSE \E s \in Sockets :
           /\ sock[s] = "unused"
           /\ active' = s
           /\ sock' = [sock EXCEPT ![s] = "connecting"]

\* createBufferedSocket's open listener sends what was buffered, and
\* connectDaemon's sets the flag, whichever socket opened.
Open(s) ==
    /\ sock[s] = "connecting"
    /\ sock' = [sock EXCEPT ![s] = "open"]
    /\ connected' = TRUE
    /\ wire' = wire \union {m \in buffer : m[1] = s}
    /\ buffer' = {m \in buffer : m[1] # s}
    /\ UNCHANGED <<configVars, active, greeted, reconnects, batchVars, daemonVars>>

\* The server's hello.
LocalReady(s) ==
    /\ sock[s] = "open" /\ s \notin greeted
    /\ greeted' = greeted \union {s}
    /\ connected' = TRUE
    /\ UNCHANGED <<configVars, active, sock, reconnects, batchVars, buffer,
                   wire, daemonVars>>

\* The daemon stops, cannot be reached, or the connection breaks.
Lost(s) ==
    /\ sock[s] \in {"connecting", "open"}
    /\ sock' = [sock EXCEPT ![s] = "lost"]
    /\ wire' = {m \in wire : m[1] # s}
    /\ back' = {m \in back : m[1] # s}
    /\ UNCHANGED <<configVars, active, connected, greeted, reconnects,
                   batchVars, buffer, run, via>>

\* socket.close() of the current socket; the connection that is not open yet
\* fails.
CloseActive ==
    IF active = None THEN sock
    ELSE [sock EXCEPT ![active] = CASE @ = "connecting" -> "lost"
                                    [] @ = "open"       -> "closing"
                                    [] OTHER            -> @]

SocketError_Reconnects(s) ==
    /\ sock[s] = "lost"
    /\ sock' = [CloseActive EXCEPT ![s] = "errored"]
    /\ connected' = FALSE
    /\ reconnects' = reconnects + 1
    /\ UNCHANGED <<configVars, active, greeted, batchVars, buffer, wire,
                   daemonVars>>

\* The error listener closes the current socket, whichever had the error.
SocketError(s) ==
    /\ sock[s] = "lost"
    /\ sock' = [CloseActive EXCEPT ![s] = "errored"]
    /\ connected' = FALSE
    /\ UNCHANGED <<configVars, active, greeted, reconnects, batchVars, buffer,
                   wire, daemonVars>>

\* What was on its way over a socket, or to a call that came by it, is gone.
ForgetSocket(s) ==
    /\ sock' = [sock EXCEPT ![s] = "unused"]
    /\ greeted' = greeted \ {s}
    /\ buffer' = {m \in buffer : m[1] # s}
    /\ wire' = {m \in wire : m[1] # s}
    /\ back' = {m \in back : m[1] # s}
    /\ via' = [id \in Ids |-> IF via[id] = s THEN None ELSE via[id]]

Ended == {"lost", "errored", "closing"}

SocketClose_NoReconnect(s) ==
    /\ sock[s] \in Ended
    /\ ForgetSocket(s)
    /\ active' = None /\ connected' = FALSE
    /\ waiter' = {}
    /\ results' = [b \in Batches |->
                     IF \E id \in waiter : id[1] = b
                     THEN Append(results[b], "failed") ELSE results[b]]
    /\ UNCHANGED <<configVars, reconnects, begun, tab, run>>

SocketClose_DropsWaiters(s) ==
    /\ sock[s] \in Ended
    /\ ForgetSocket(s)
    /\ active' = None /\ connected' = FALSE
    /\ waiter' = {}
    /\ reconnects' = reconnects + 1
    /\ UNCHANGED <<configVars, results, begun, tab, run>>

\* The close listener forgets the current socket, whichever closed, rejects
\* every waiting call and arms a reconnect timer.
SocketClose(s) ==
    /\ sock[s] \in Ended
    /\ ForgetSocket(s)
    /\ active' = None /\ connected' = FALSE
    /\ waiter' = {}
    /\ results' = [b \in Batches |->
                     IF \E id \in waiter : id[1] = b
                     THEN Append(results[b], "failed") ELSE results[b]]
    /\ reconnects' = reconnects + 1
    /\ UNCHANGED <<configVars, begun, tab, run>>

\* Five seconds after a close.
ReconnectDue ==
    /\ reconnects > 0
    /\ reconnects' = reconnects - 1
    /\ ConnectDaemon
    /\ UNCHANGED <<configVars, connected, greeted, batchVars, buffer, wire,
                   daemonVars>>

\* set_enabled from the popup: the configuration changes at once,
SetEnabled(v) ==
    /\ toggles < MaxToggles
    /\ toggles' = toggles + 1
    /\ enabled' = v
    /\ saving' = Append(saving, v)
    /\ UNCHANGED <<socketVars, batchVars, buffer, wire, daemonVars>>

\* the rest follows when it is stored.
Saved ==
    /\ saving # <<>>
    /\ saving' = Tail(saving)
    /\ CASE Head(saving) /\ active = None  -> ConnectDaemon /\ UNCHANGED connected
         [] ~ Head(saving) /\ active # None ->
              sock' = CloseActive /\ active' = None /\ connected' = FALSE
         [] OTHER -> UNCHANGED <<active, sock, connected>>
    /\ UNCHANGED <<enabled, toggles, greeted, reconnects, batchVars, buffer,
                   wire, daemonVars>>

-----------------------------------------------------------------------------
(* Batches of tool calls.                                                  *)

\* handleAdapterMessage: an answer with tool calls arrives from a tab.
Answered(b) ==
    /\ tab[b] = "none"
    /\ tab' = [tab EXCEPT ![b] = "running"]
    /\ UNCHANGED <<configVars, socketVars, waiter, results, begun, buffer, wire,
                   daemonVars>>

\* The loop of handleToolCalls is not awaiting a call.
Ready(b) == tab[b] = "running" /\ begun[b] = Len(results[b])

ExecuteTool_BuffersUnsent(b) ==
    LET id == <<b, begun[b] + 1>> IN
    /\ Ready(b) /\ begun[b] < Size
    /\ begun' = [begun EXCEPT ![b] = @ + 1]
    /\ IF active = None \/ ~ connected
       THEN results' = [results EXCEPT ![b] = Append(@, "unsent")] /\ UNCHANGED waiter
       ELSE waiter' = waiter \union {id} /\ UNCHANGED results
    /\ IF active # None
       THEN IF sock[active] = "open"
            THEN wire' = wire \union {<<active, id>>} /\ UNCHANGED buffer
            ELSE buffer' = buffer \union {<<active, id>>} /\ UNCHANGED wire
       ELSE UNCHANGED <<buffer, wire>>
    /\ UNCHANGED <<configVars, socketVars, tab, daemonVars>>

\* executeToolOnDaemon for the next call of the batch.  The flag may have been
\* set by another socket than the current one, whose messages are buffered
\* until it opens.
ExecuteTool(b) ==
    LET id == <<b, begun[b] + 1>> IN
    /\ Ready(b) /\ begun[b] < Size
    /\ begun' = [begun EXCEPT ![b] = @ + 1]
    /\ IF active = None \/ ~ connected
       THEN /\ results' = [results EXCEPT ![b] = Append(@, "unsent")]
            /\ UNCHANGED <<waiter, buffer, wire>>
       ELSE /\ waiter' = waiter \union {id}
            /\ IF sock[active] = "open"
               THEN wire' = wire \union {<<active, id>>} /\ UNCHANGED buffer
               ELSE buffer' = buffer \union {<<active, id>>} /\ UNCHANGED wire
            /\ UNCHANGED results
    /\ UNCHANGED <<configVars, socketVars, tab, daemonVars>>

\* The waiter's 60 s are over.
CallTimeout(id) ==
    /\ id \in waiter
    /\ waiter' = waiter \ {id}
    /\ results' = [results EXCEPT ![id[1]] = Append(@, "failed")]
    /\ UNCHANGED <<configVars, socketVars, begun, tab, buffer, wire, daemonVars>>

\* handleDaemonLine: the answer resolves its waiter, if it has one yet.
ReceiveResult(s, id) ==
    /\ <<s, id>> \in back /\ sock[s] = "open"
    /\ back' = back \ {<<s, id>>}
    /\ waiter' = waiter \ {id}
    /\ results' = IF id \in waiter
                  THEN [results EXCEPT ![id[1]] = Append(@, "answer")]
                  ELSE results
    /\ UNCHANGED <<configVars, socketVars, begun, tab, buffer, wire, run, via>>

\* deliverToolResultsToTab: all results together.
Deliver(b) ==
    /\ Ready(b) /\ begun[b] = Size
    /\ tab' = [tab EXCEPT ![b] = "delivered"]
    /\ UNCHANGED <<configVars, socketVars, waiter, results, begun, buffer, wire,
                   daemonVars>>

-----------------------------------------------------------------------------
(* The daemon's local server.                                              *)

\* onMessageLine: the executor starts the call for this connection.
HandleExecuteTool(s, id) ==
    /\ <<s, id>> \in wire /\ sock[s] \in {"open", "closing"}
    /\ wire' = wire \ {<<s, id>>}
    /\ run' = [run EXCEPT ![id] = "running"]
    /\ via' = [via EXCEPT ![id] = s]
    /\ UNCHANGED <<configVars, socketVars, batchVars, buffer, back>>

\* The call ends; its answer goes to the connection it came by, if that is
\* still open.
SendAnswer(id) ==
    /\ run[id] = "running"
    /\ run' = [run EXCEPT ![id] = "done"]
    /\ back' = IF via[id] # None /\ sock[via[id]] = "open"
               THEN back \union {<<via[id], id>>} ELSE back
    /\ UNCHANGED <<configVars, socketVars, batchVars, buffer, wire, via>>

-----------------------------------------------------------------------------

Next ==
    \/ \E s \in Sockets : Open(s) \/ LocalReady(s) \/ Lost(s) \/ SocketError(s)
                          \/ SocketClose(s)
    \/ ReconnectDue
    \/ \E v \in BOOLEAN : SetEnabled(v)
    \/ Saved
    \/ \E b \in Batches : Answered(b) \/ ExecuteTool(b) \/ Deliver(b)
    \/ \E id \in Ids : CallTimeout(id) \/ SendAnswer(id)
    \/ \E s \in Sockets, id \in Ids : \/ ReceiveResult(s, id)
                                      \/ HandleExecuteTool(s, id)

\* The browser ends what is closing and fires its timers, storage answers,
\* the background goes on with its batches, and a connection that does not
\* break opens.
Fairness ==
    /\ \A s \in Sockets : WF_vars(SocketClose(s)) /\ WF_vars(Open(s))
    /\ WF_vars(ReconnectDue)
    /\ WF_vars(Saved)
    /\ \A b \in Batches : WF_vars(ExecuteTool(b)) /\ WF_vars(Deliver(b))
    /\ \A id \in Ids : WF_vars(CallTimeout(id))

Spec == Init /\ [][Next]_vars /\ Fairness

-----------------------------------------------------------------------------
(* Properties.                                                             *)

\* The sockets the background has not seen closed.
Used == {s \in Sockets : sock[s] # "unused"}

\* However sockets fail, error and close, and whichever is current when they
\* do, the background has no more sockets and armed reconnect timers together
\* than one and one for each set_enabled: each close arms one timer, each
\* timer opens one socket, and an error opens none.
SocketsBounded == Cardinality(Used) + reconnects <= 1 + toggles

\* What a delivered batch says of its calls is so: it has one result for each,
\* in their order, an answer is that of a call that ran, and a call reported
\* as not sent never runs, now or after a reconnect.
ResultsTrue ==
    \A b \in Batches :
      /\ tab[b] = "delivered" => Len(results[b]) = Size
      /\ \A k \in 1..Len(results[b]) :
           /\ results[b][k] = "answer" => run[<<b, k>>] = "done"
           /\ results[b][k] = "unsent" =>
                /\ run[<<b, k>>] = "none"
                /\ \A s \in Sockets : <<s, <<b, k>>>> \notin wire \union buffer

\* Whatever happens to the sockets and the daemon, every batch's results are
\* delivered to its tab.
EveryBatchDelivered ==
    \A b \in Batches : tab[b] = "running" ~> tab[b] = "delivered"

\* An extension that stays enabled, whose connections stop breaking and whose
\* error events are over, comes back to a connected current socket for good,
\* however it was switched before and whichever socket closed.  (The error of
\* an old socket closes the current one, so that two sockets which fail in turn
\* could keep each other from opening.)
Reconnects ==
    (/\ <>[]enabled
     /\ <>[][\A s \in Sockets : ~ Lost(s) /\ ~ SocketError(s)]_vars)
      => <>[](connected /\ active # None)

-----------------------------------------------------------------------------
(* The inductive invariants behind the theorems of Browser_proofs.         *)

\* A set_enabled that is not stored yet may open a socket, too.
RoomForSaves ==
    /\ IsFiniteSet(Used)
    /\ Cardinality(Used) + reconnects + Len(saving) <= 1 + toggles

SocketsInv == TypeOK /\ RoomForSaves

\* A batch waits for the last call begun, or for none; delivered, it is over.
OneCallAtATime ==
    /\ \A b \in Batches :
          /\ begun[b] \in {Len(results[b]), Len(results[b]) + 1}
          /\ tab[b] = "delivered" => begun[b] = Size /\ Len(results[b]) = Size
          /\ begun[b] # Len(results[b]) => <<b, begun[b]>> \in waiter
    /\ \A id \in waiter : /\ id[2] = begun[id[1]]
                          /\ id[2] = Len(results[id[1]]) + 1

\* A call was passed to a socket: it was begun and not reported as unsent.
PassedOn(id) ==
    /\ id[2] <= begun[id[1]]
    /\ id[2] <= Len(results[id[1]]) => results[id[1]][id[2]] # "unsent"

\* A call is in one message at most, until the daemon runs it.
IssuedOnce ==
    /\ \A m \in wire \union buffer : run[m[2]] = "none" /\ PassedOn(m[2])
    /\ \A m, n \in wire \union buffer : m[2] = n[2] => m = n
    /\ wire \intersect buffer = {}

\* The daemon runs what it was passed, and answers when it is done.
RunsOnce ==
    /\ \A id \in Ids : run[id] # "none" => PassedOn(id)
    /\ \A m \in back : run[m[2]] = "done"

AnswersAreOfRuns ==
    \A b \in Batches : \A k \in 1..Len(results[b]) :
        results[b][k] = "answer" => <<b, k>> \in Ids /\ run[<<b, k>>] = "done"

ResultsInv ==
    TypeOK /\ OneCallAtATime /\ IssuedOnce /\ RunsOnce /\ AnswersAreOfRuns
=============================================================================
