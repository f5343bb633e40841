---------------------------- MODULE TunnelClient ----------------------------
(***************************************************************************)
(* The daemon's end of the tunnel                                          *)
(* (packages/desktop-daemon/src/tunnel-client.ts): connect, authenticate,  *)
(* heartbeat, and reconnect with a doubling delay after a loss.            *)
(*                                                                         *)
(* A connection is one WebSocket object.  Its listeners call the client's  *)
(* methods, which act on this.ws, the client's newest WebSocket, whoever's *)
(* event they handle; an id is used again once its close event is over.    *)
(*                                                                         *)
(* Time is discrete: the client's three timers count down with Tick, which *)
(* waits for a timer that is due.  Delays keep the order they have in the  *)
(* code, not their ratio.                                                  *)
(***************************************************************************)
EXTENDS Integers, FiniteSets

CONSTANTS
    Conns,            \* WebSocket objects, recycled
    None,             \* null
    HeartbeatEvery,   \* heartbeat_interval less HEARTBEAT_GRACE_MS
    AckTimeout,       \* HEARTBEAT_ACK_TIMEOUT_MS
    InitialDelay,     \* INITIAL_RECONNECT_DELAY_MS
    MaxDelay,         \* MAX_RECONNECT_DELAY_MS
    LateClose         \* may a timer run before a terminated socket's close
                      \* event?  Only if the event loop was blocked that long.

ASSUME ConnsAssumption == None \notin Conns /\ LateClose \in BOOLEAN

ASSUME DelaysAssumption ==
    /\ {HeartbeatEvery, AckTimeout, InitialDelay, MaxDelay} \subseteq Nat \ {0}
    /\ InitialDelay <= MaxDelay

VARIABLES
    state,            \* ConnectionState
    ws,               \* this.ws
    shouldReconnect,
    reconnectDelay,
    heartbeatTimer, heartbeatTimeoutTimer, reconnectTimer,  \* ticks left
    conn,             \* what each WebSocket object is doing
    alive,            \* connections whose peer can still be reached
    peer,             \* what the Worker has heard and said on each
    silence,          \* ticks since the Worker last spoke, while connected
    closeCode         \* of the last close event since the last connect(),
                      \* "other" while there was none

timers == <<heartbeatTimer, heartbeatTimeoutTimer, reconnectTimer>>
vars == <<state, ws, shouldReconnect, reconnectDelay, timers, conn, alive,
          peer, silence, closeCode>>

Off == -1      \* a timer that is not armed

ConnStates == {"closed", "connecting", "open", "closing", "terminated"}

\* silence is counted no further than this: far enough to see it is too long.
MaxSilence == HeartbeatEvery + AckTimeout + 1

MaxOf(a, b) == IF a >= b THEN a ELSE b

TypeOK ==
    /\ state \in {"stopped", "connecting", "authenticating", "connected"}
    /\ ws \in Conns \union {None}
    /\ shouldReconnect \in BOOLEAN
    /\ reconnectDelay \in InitialDelay..MaxDelay
    /\ heartbeatTimer \in Off..HeartbeatEvery
    /\ heartbeatTimeoutTimer \in Off..AckTimeout
    /\ reconnectTimer \in Off..MaxDelay
    /\ conn \in [Conns -> ConnStates]
    /\ alive \subseteq Conns
    /\ peer \in [Conns -> {"idle", "auth", "accepted"}]
    /\ silence \in 0..MaxSilence
    /\ closeCode \in {"1008", "other"}

IsOpen(c) == c # None /\ conn[c] = "open"

\* The daemon has just called connect() for the first time.
Init ==
    /\ state = "connecting"
    /\ \E c \in Conns :
          /\ ws = c
          /\ conn = [d \in Conns |-> IF d = c THEN "connecting" ELSE "closed"]
          /\ alive = {c}
    /\ shouldReconnect = TRUE
    /\ reconnectDelay = InitialDelay
    /\ heartbeatTimer = Off /\ heartbeatTimeoutTimer = Off
    /\ reconnectTimer = Off
    /\ peer = [d \in Conns |-> "idle"]
    /\ silence = 0
    /\ closeCode = "other"

-----------------------------------------------------------------------------
(* The pieces the event handlers are made of.                              *)

\* scheduleReconnect
ScheduleReconnect ==
    /\ reconnectTimer' = IF shouldReconnect THEN reconnectDelay ELSE Off
    /\ state' = IF shouldReconnect /\ state \in {"connecting", "connected"}
                THEN "stopped" ELSE state

ScheduleIfWanted ==
    IF shouldReconnect THEN ScheduleReconnect
                       ELSE UNCHANGED <<reconnectTimer, state>>

SendHeartbeat_NotArmed ==
    UNCHANGED heartbeatTimeoutTimer

\* sendHeartbeat, if the socket is open: the acknowledgement timer starts
\* again from its full length.
SendHeartbeat ==
    heartbeatTimeoutTimer' =
        IF IsOpen(ws) THEN AckTimeout ELSE heartbeatTimeoutTimer

\* ws.terminate() (or close) on this.ws, then this.ws = null.
DropSocket(how) ==
    /\ conn' = IF ws = None THEN conn ELSE [conn EXCEPT ![ws] = how]
    /\ ws' = None

-----------------------------------------------------------------------------
(* Events of a WebSocket object.                                           *)

\* onOpen: auth is sent on this.ws.
Open(c) ==
    /\ conn[c] = "connecting" /\ c \in alive
    /\ conn' = [conn EXCEPT ![c] = "open"]
    /\ state' = "authenticating"
    /\ reconnectDelay' = InitialDelay
    /\ reconnectTimer' = Off
    /\ peer' = IF ws # None /\ conn'[ws] = "open"
               THEN [peer EXCEPT ![ws] = "auth"] ELSE peer
    /\ UNCHANGED <<ws, shouldReconnect, heartbeatTimer, heartbeatTimeoutTimer,
                   alive, silence, closeCode>>

\* A message of the Worker gets through on c.
Hears(c) == conn[c] = "open" /\ c \in alive

\* startHeartbeat: one at once, then one per interval.
StartHeartbeat ==
    /\ SendHeartbeat
    /\ heartbeatTimer' = HeartbeatEvery

\* handleAuthOk
AuthOk(c) ==
    /\ Hears(c) /\ peer[c] = "auth"
    /\ peer' = [peer EXCEPT ![c] = "accepted"]
    /\ state' = "connected"
    /\ StartHeartbeat
    /\ silence' = 0
    /\ UNCHANGED <<ws, shouldReconnect, reconnectDelay, reconnectTimer, conn,
                   alive, closeCode>>

\* handleAuthError: final.  The Worker sends it for a refused auth and for
\* any exception in a handler, so also after a failed heartbeat.
HandleAuthError(c) ==
    /\ Hears(c) /\ peer[c] # "idle"
    /\ shouldReconnect' = FALSE
    /\ conn' = IF IsOpen(ws) THEN [conn EXCEPT ![ws] = "closing"] ELSE conn
    /\ UNCHANGED <<state, ws, reconnectDelay, timers, alive, peer, silence,
                   closeCode>>

\* handleHeartbeatAck
HeartbeatAck(c) ==
    /\ Hears(c) /\ peer[c] = "accepted"
    /\ heartbeatTimeoutTimer # Off
    /\ heartbeatTimeoutTimer' = Off
    /\ silence' = 0
    /\ UNCHANGED <<state, ws, shouldReconnect, reconnectDelay, heartbeatTimer,
                   reconnectTimer, conn, alive, peer, closeCode>>

\* onError: a failed connect, a reset, or TCP giving up on a dead peer.  The
\* object that failed emits close later.
OnError(c) ==
    /\ conn[c] \in {"connecting", "open"}
    /\ conn' = [d \in Conns |-> IF d \in {c, ws} /\ conn[d] # "closed"
                                THEN "terminated" ELSE conn[d]]
    /\ ws' = None
    /\ ScheduleIfWanted
    /\ UNCHANGED <<shouldReconnect, reconnectDelay, heartbeatTimer,
                   heartbeatTimeoutTimer, alive, peer, silence, closeCode>>

\* The codes a close event of c may come with.  Only a peer that was reached
\* sends 1008: the Worker, which sends auth_error first (HandleAuthError), or
\* whatever stands before it.
Codes(c) ==
    IF conn[c] = "open" \/ peer[c] # "idle" THEN {"1008", "other"} ELSE {"other"}

OnClose_NoReconnect(c) ==
    /\ conn[c] \in {"open", "closing", "terminated"}
    /\ conn' = [conn EXCEPT ![c] = "closed"]
    /\ alive' = alive \ {c}
    /\ peer' = [peer EXCEPT ![c] = "idle"]
    /\ ws' = None
    /\ heartbeatTimer' = Off /\ heartbeatTimeoutTimer' = Off
    /\ state' = "stopped"
    /\ silence' = 0
    /\ closeCode' \in Codes(c)
    /\ UNCHANGED <<shouldReconnect, reconnectDelay, reconnectTimer>>

\* onClose: whichever object closed, this.ws is forgotten, and a reconnect is
\* scheduled unless the code is 1008.
OnClose(c) ==
    /\ conn[c] \in {"open", "closing", "terminated"}
    /\ conn' = [conn EXCEPT ![c] = "closed"]
    /\ alive' = alive \ {c}
    /\ peer' = [peer EXCEPT ![c] = "idle"]
    /\ ws' = None
    /\ heartbeatTimer' = Off /\ heartbeatTimeoutTimer' = Off
    /\ state' = "stopped"
    /\ closeCode' \in Codes(c)
    /\ reconnectTimer' = IF shouldReconnect /\ closeCode' # "1008"
                         THEN reconnectDelay ELSE reconnectTimer
    /\ silence' = 0
    /\ UNCHANGED <<shouldReconnect, reconnectDelay>>

\* The peer cannot be reached any more and nobody says so (sleep, NAT).
LinkDies(c) ==
    /\ c \in alive
    /\ alive' = alive \ {c}
    /\ UNCHANGED <<state, ws, shouldReconnect, reconnectDelay, timers, conn,
                   peer, silence, closeCode>>

-----------------------------------------------------------------------------
(* Timers, and the daemon's shutdown.                                      *)

HeartbeatDue ==
    /\ heartbeatTimer = 0
    /\ heartbeatTimer' = HeartbeatEvery
    /\ SendHeartbeat
    /\ UNCHANGED <<state, ws, shouldReconnect, reconnectDelay, reconnectTimer,
                   conn, alive, peer, silence, closeCode>>

HeartbeatTimeout_NoTerminate ==
    /\ heartbeatTimeoutTimer = 0
    /\ heartbeatTimeoutTimer' = Off
    /\ ws' = None
    /\ ScheduleIfWanted
    /\ UNCHANGED <<shouldReconnect, reconnectDelay, heartbeatTimer, conn, alive,
                   peer, silence, closeCode>>

\* "Heartbeat timeout; reconnecting"
HeartbeatTimeout ==
    /\ heartbeatTimeoutTimer = 0
    /\ heartbeatTimeoutTimer' = Off
    /\ DropSocket("terminated")
    /\ ScheduleIfWanted
    /\ UNCHANGED <<shouldReconnect, reconnectDelay, heartbeatTimer, alive,
                   peer, silence, closeCode>>

\* connect() on a fresh WebSocket.
Connect(c) ==
    /\ state' = "connecting"
    /\ shouldReconnect' = TRUE
    /\ ws' = c
    /\ conn' = [conn EXCEPT ![c] = "connecting"]
    /\ alive' = alive \union {c}
    /\ closeCode' = "other"

\* The delay of the next attempt doubles before this one starts.
ReconnectDue ==
    /\ reconnectTimer = 0
    /\ reconnectTimer' = Off
    /\ reconnectDelay' = IF 2 * reconnectDelay <= MaxDelay
                         THEN 2 * reconnectDelay ELSE MaxDelay
    /\ IF state \in {"connecting", "connected"}
       THEN UNCHANGED <<state, shouldReconnect, ws, conn, alive, closeCode>>
       ELSE \E c \in Conns : conn[c] = "closed" /\ Connect(c)
    /\ UNCHANGED <<heartbeatTimer, heartbeatTimeoutTimer, peer, silence>>

Disconnect_KeepsTimer ==
    /\ shouldReconnect' = FALSE
    /\ heartbeatTimer' = Off /\ heartbeatTimeoutTimer' = Off
    /\ DropSocket(IF IsOpen(ws) THEN "closing" ELSE "terminated")
    /\ state' = "stopped"
    /\ UNCHANGED <<reconnectDelay, reconnectTimer, alive, peer, silence,
                   closeCode>>

\* disconnect(), on SIGINT or SIGTERM.
Disconnect ==
    /\ shouldReconnect' = FALSE
    /\ heartbeatTimer' = Off /\ heartbeatTimeoutTimer' = Off
    /\ reconnectTimer' = Off
    /\ DropSocket(IF IsOpen(ws) THEN "closing" ELSE "terminated")
    /\ state' = "stopped"
    /\ UNCHANGED <<reconnectDelay, alive, peer, silence, closeCode>>

\* One unit of time, when no timer is due and, unless LateClose, no close
\* event is overdue.
Tick ==
    /\ \A t \in {heartbeatTimer, heartbeatTimeoutTimer, reconnectTimer} : t # 0
    /\ LateClose \/ \A c \in Conns : conn[c] # "terminated"
    /\ heartbeatTimer' = MaxOf(heartbeatTimer - 1, Off)
    /\ heartbeatTimeoutTimer' = MaxOf(heartbeatTimeoutTimer - 1, Off)
    /\ reconnectTimer' = MaxOf(reconnectTimer - 1, Off)
    /\ silence' = IF IsOpen(ws) /\ state = "connected" /\ silence < MaxSilence
                  THEN silence + 1 ELSE silence
    /\ UNCHANGED <<state, ws, shouldReconnect, reconnectDelay, conn, alive, peer,
                   closeCode>>

ConnStep(c) ==
    \/ Open(c) \/ AuthOk(c) \/ HandleAuthError(c) \/ HeartbeatAck(c)
    \/ OnError(c) \/ OnClose(c) \/ LinkDies(c)

Next ==
    \/ \E c \in Conns : ConnStep(c)
    \/ HeartbeatDue \/ HeartbeatTimeout \/ ReconnectDue
    \/ Disconnect \/ Tick

\* Time passes and due timers run; what was closed says so; TCP reports a dead
\* peer in the end; and of the connections attempted again and again, not all
\* fail before the Worker has answered auth.
Fairness ==
    /\ WF_vars(Tick) /\ WF_vars(HeartbeatDue) /\ WF_vars(HeartbeatTimeout)
    /\ WF_vars(ReconnectDue)
    /\ \A c \in Conns :
          /\ WF_vars(conn[c] \in {"closing", "terminated"} /\ OnClose(c))
          /\ WF_vars(c \notin alive /\ OnError(c))
    /\ SF_vars(\E c \in Conns : Open(c))
    /\ SF_vars(\E c \in Conns : AuthOk(c))

Spec == Init /\ [][Next]_vars /\ Fairness

-----------------------------------------------------------------------------
(* Properties.                                                             *)

\* No WebSocket is left open or opening that the client has forgotten.
NoOrphans == \A c \in Conns : conn[c] \in {"connecting", "open"} => c = ws

\* After disconnect() or auth_error no further connection is made.
GivingUpIsFinal ==
    [][~shouldReconnect =>
          /\ ~shouldReconnect'
          /\ \A c \in Conns :
                conn'[c] = "connecting" => conn[c] = "connecting"]_vars

\* Unless the client is stopped or refused, by auth_error or by a close with
\* code 1008, no loss is the last: it is connected to a Worker it can reach,
\* always again.
Reconnects ==
    <>[](shouldReconnect /\ closeCode # "1008") =>
        []<>(state = "connected" /\ ws \in alive)

\* Does not hold, see README: a client that did not give up comes back.  After a
\* close with code 1008 it does not, though shouldReconnect is still TRUE.
NoLossIsTheLast ==
    <>[]shouldReconnect => []<>(state = "connected" /\ ws \in alive)

\* A Worker that has not spoken for a heartbeat interval and the time allowed
\* for the acknowledgement is given up.
SilenceBounded == silence <= HeartbeatEvery + AckTimeout

-----------------------------------------------------------------------------
(* The inductive invariants behind the theorems of TunnelClient_proofs.    *)

\* There is one WebSocket at a time that is not on its way out.
OneSocket == \A c \in Conns : ws \notin {c, None} => conn[c] = "closed"

\* A reconnect is armed for a client without a socket that wants one,
ArmedAlone == reconnectTimer # Off => ws = None /\ shouldReconnect

\* a socket is closed, rather than terminated, by a client that gives up,
ClosedOnPurpose == \A c \in Conns : conn[c] = "closing" => ~shouldReconnect

\* and a reconnect is not due before the terminated socket has said close.
CloseFirst == reconnectTimer = 0 => \A c \in Conns : conn[c] # "terminated"

IInv == /\ TypeOK /\ NoOrphans
        /\ OneSocket /\ ArmedAlone /\ ClosedOnPurpose /\ CloseFirst

\* The connection is authenticated, as far as the client knows.
InUse == IsOpen(ws) /\ state = "connected"

\* On a connection in use a heartbeat is always to come, and the time since
\* the last one is that since its acknowledgement is awaited, if it is.
HeartbeatToCome ==
    InUse =>
        /\ heartbeatTimer # Off
        /\ heartbeatTimeoutTimer # Off
             => HeartbeatEvery - heartbeatTimer
                  = AckTimeout - heartbeatTimeoutTimer

\* If it is not awaited the Worker has spoken since the last heartbeat, else
\* since the one before.
SpokenSince ==
    InUse =>
        silence <= HeartbeatEvery - heartbeatTimer +
                     (IF heartbeatTimeoutTimer = Off THEN 0 ELSE HeartbeatEvery)

SilenceInv == IInv /\ HeartbeatToCome /\ SpokenSince /\ SilenceBounded

\* With the two delays in their default order (13 s and 45 s) each heartbeat
\* restarts the wait for the acknowledgement of the one before.
RestartedInTime ==
    InUse =>
        /\ heartbeatTimer # Off
        /\ heartbeatTimeoutTimer # Off
             => AckTimeout - heartbeatTimeoutTimer
                  <= HeartbeatEvery - heartbeatTimer

\* No acknowledgement timeout is ever due on a connection in use.
AckTimeoutNeverDue ==
    InUse => heartbeatTimeoutTimer # 0
=============================================================================
