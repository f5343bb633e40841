------------------------- MODULE TunnelClient_proofs -------------------------
(***************************************************************************)
(* Theorems about TunnelClient, for any delays, when the event loop is not *)
(* blocked for so long that a timer overtakes a close event.               *)
(***************************************************************************)
EXTENDS TunnelClient, TLAPS

LEMMA DelayFacts ==
    /\ InitialDelay \in Nat \ {0} /\ MaxDelay \in Nat \ {0}
    /\ HeartbeatEvery \in Nat \ {0} /\ AckTimeout \in Nat \ {0}
    /\ InitialDelay <= MaxDelay
    /\ MaxSilence \in Nat /\ MaxSilence = HeartbeatEvery + AckTimeout + 1
  BY DelaysAssumption DEF MaxSilence

LEMMA TypeInit == Init => TypeOK
  BY DelayFacts, ConnsAssumption DEF Init, TypeOK, ConnStates, Off

LEMMA TypeConn ==
    ASSUME TypeOK, NEW c \in Conns, ConnStep(c)
    PROVE  TypeOK'
  <1> USE DelayFacts DEF TypeOK, ConnStates, Off, timers
  <1>1. CASE Open(c)
    BY <1>1 DEF Open
  <1>2. CASE AuthOk(c)
    BY <1>2 DEF AuthOk, StartHeartbeat, SendHeartbeat
  <1>3. CASE HandleAuthError(c)
    BY <1>3 DEF HandleAuthError
  <1>4. CASE HeartbeatAck(c)
    BY <1>4 DEF HeartbeatAck
  <1>5. CASE OnError(c)
    <2>1. reconnectTimer' \in Off..MaxDelay /\ state' \in {state, "stopped"}
      BY <1>5 DEF OnError, ScheduleIfWanted, ScheduleReconnect
    <2>2. conn' \in [Conns -> ConnStates]
      BY <1>5 DEF OnError
    <2>3. QED
      BY <1>5, <2>1, <2>2 DEF OnError
  <1>6. CASE OnClose(c)
    BY <1>6 DEF OnClose, Codes
  <1>7. CASE LinkDies(c)
    BY <1>7 DEF LinkDies
  <1>8. QED
    BY <1>1, <1>2, <1>3, <1>4, <1>5, <1>6, <1>7 DEF ConnStep

LEMMA TypeStep ==
    ASSUME TypeOK, [Next]_vars
    PROVE  TypeOK'
  <1> USE DelayFacts DEF TypeOK, ConnStates, Off, timers
  <1>1. CASE HeartbeatDue
    BY <1>1 DEF HeartbeatDue, SendHeartbeat
  <1>2. CASE HeartbeatTimeout
    <2>1. reconnectTimer' \in Off..MaxDelay /\ state' \in {state, "stopped"}
      BY <1>2 DEF HeartbeatTimeout, ScheduleIfWanted, ScheduleReconnect
    <2>2. conn' \in [Conns -> ConnStates] /\ ws' = None
      BY <1>2 DEF HeartbeatTimeout, DropSocket
    <2>3. QED
      BY <1>2, <2>1, <2>2 DEF HeartbeatTimeout
  <1>3. CASE ReconnectDue
    <2>1. reconnectDelay' \in InitialDelay..MaxDelay /\ reconnectTimer' = Off
      BY <1>3 DEF ReconnectDue
    <2>2. CASE UNCHANGED <<state, shouldReconnect, ws, conn, alive, closeCode>>
      BY <1>3, <2>1, <2>2 DEF ReconnectDue
    <2>3. CASE \E c \in Conns : conn[c] = "closed" /\ Connect(c)
      BY <1>3, <2>1, <2>3 DEF ReconnectDue, Connect
    <2>4. QED
      BY <1>3, <2>2, <2>3 DEF ReconnectDue
  <1>4. CASE Disconnect
    <2>1. PICK how \in {"closing", "terminated"} : DropSocket(how)
      BY <1>4 DEF Disconnect
    <2>2. conn' \in [Conns -> ConnStates] /\ ws' = None
      BY <2>1 DEF DropSocket
    <2>3. shouldReconnect' \in BOOLEAN
      BY <1>4, Zenon DEF Disconnect
    <2>4. /\ reconnectTimer' = Off /\ heartbeatTimer' = Off
          /\ heartbeatTimeoutTimer' = Off /\ state' = "stopped"
          /\ UNCHANGED <<reconnectDelay, alive, peer, silence, closeCode>>
      BY <1>4 DEF Disconnect
    <2>5. QED
      BY <2>2, <2>3, <2>4
  <1>5. CASE Tick
    <2>1. silence' \in 0..MaxSilence
      BY <1>5 DEF Tick
    <2>2. /\ heartbeatTimer' \in Off..HeartbeatEvery
          /\ heartbeatTimeoutTimer' \in Off..AckTimeout
          /\ reconnectTimer' \in Off..MaxDelay
      BY <1>5 DEF Tick, MaxOf
    <2>3. QED
      BY <1>5, <2>1, <2>2 DEF Tick
  <1>6. CASE UNCHANGED vars
    BY <1>6 DEF vars
  <1>7. QED
    BY <1>1, <1>2, <1>3, <1>4, <1>5, <1>6, TypeConn DEF Next

\* The client's timers, delay and sockets stay what TypeOK says they are, for
\* any delays, even when a timer overtakes a close event.
THEOREM TypeCorrect == Spec => []TypeOK
  BY TypeInit, TypeStep, PTL DEF Spec

-----------------------------------------------------------------------------
LEMMA InitIInv == Init => IInv
  <1> SUFFICES ASSUME Init PROVE IInv
    OBVIOUS
  <1>1. TypeOK
    BY TypeInit
  <1>2. NoOrphans /\ OneSocket /\ ArmedAlone /\ ClosedOnPurpose /\ CloseFirst
    BY DelayFacts, ConnsAssumption
    DEF Init, Off, NoOrphans, OneSocket, ArmedAlone, ClosedOnPurpose, CloseFirst
  <1>3. QED
    BY <1>1, <1>2 DEF IInv

\* What the proofs below use of TypeOK.
Types ==
    /\ ws \in Conns \union {None}
    /\ shouldReconnect \in BOOLEAN
    /\ reconnectDelay \in Nat \ {0}
    /\ reconnectTimer \in Nat \union {Off}
    /\ conn \in [Conns -> ConnStates]

LEMMA TypesHold == TypeOK => Types
  BY DelayFacts DEF TypeOK, Types, Off

\* The events of one WebSocket object.
LEMMA ConnIInv ==
    ASSUME IInv, TypeOK', NEW c \in Conns, ConnStep(c)
    PROVE  IInv'
  <1> USE ConnsAssumption
      DEF IInv, Types, ConnStates, Off, NoOrphans, OneSocket, ArmedAlone,
          ClosedOnPurpose, CloseFirst
  <1>a. Types
    BY TypesHold
  <1>1. CASE Open(c)
    BY <1>1, <1>a DEF Open
  <1>2. CASE AuthOk(c) \/ HeartbeatAck(c) \/ LinkDies(c)
    BY <1>2, <1>a DEF AuthOk, HeartbeatAck, LinkDies, timers
  <1>3. CASE HandleAuthError(c)
    <2>1. c = ws /\ IsOpen(ws) /\ reconnectTimer = Off
      BY <1>3, <1>a DEF HandleAuthError, Hears, IsOpen
    <2>2. QED
      BY <1>3, <2>1, <1>a DEF HandleAuthError, timers
  <1>4. CASE OnError(c)
    <2>1. c = ws /\ reconnectTimer = Off
      BY <1>4, <1>a DEF OnError
    <2>2. \A d \in Conns : conn'[d] \in {"closed", "terminated"}
      BY <1>4, <2>1, <1>a DEF OnError
    <2>3. reconnectTimer' \in {Off, reconnectDelay}
      BY <1>4, <2>1, <1>a DEF OnError, ScheduleIfWanted, ScheduleReconnect
    <2>4. reconnectTimer' # Off => shouldReconnect
      BY <1>4, <2>1, <1>a DEF OnError, ScheduleIfWanted, ScheduleReconnect
    <2>5. UNCHANGED <<shouldReconnect, reconnectDelay>> /\ ws' = None
      BY <1>4 DEF OnError
    <2>6. QED
      BY <2>2, <2>3, <2>4, <2>5, <1>a
  <1>5. CASE OnClose(c)
    BY <1>5, <1>a DEF OnClose
  <1>6. QED
    BY <1>1, <1>2, <1>3, <1>4, <1>5 DEF ConnStep

LEMMA HeartbeatTimeoutIInv == IInv /\ TypeOK' /\ HeartbeatTimeout => IInv'
  <1> SUFFICES ASSUME IInv, TypeOK', HeartbeatTimeout PROVE IInv'
    OBVIOUS
  <1> USE ConnsAssumption
      DEF IInv, Types, ConnStates, Off, NoOrphans, OneSocket, ArmedAlone,
          ClosedOnPurpose, CloseFirst
  <1>a. Types
    BY TypesHold
  <1>1. UNCHANGED <<shouldReconnect, reconnectDelay>> /\ ws' = None
    BY DEF HeartbeatTimeout, DropSocket
  <1>2. conn' = IF ws = None THEN conn ELSE [conn EXCEPT ![ws] = "terminated"]
    BY DEF HeartbeatTimeout, DropSocket
  <1>3. reconnectTimer' = IF shouldReconnect THEN reconnectDelay
                                             ELSE reconnectTimer
    BY DEF HeartbeatTimeout, ScheduleIfWanted, ScheduleReconnect
  <1>4. QED
    BY <1>1, <1>2, <1>3, <1>a

\* A reconnect that is due finds every WebSocket closed.
LEMMA ReconnectIInv == IInv /\ TypeOK' /\ ReconnectDue => IInv'
  <1> SUFFICES ASSUME IInv, TypeOK', ReconnectDue PROVE IInv'
    OBVIOUS
  <1> USE ConnsAssumption
      DEF IInv, Types, ConnStates, Off, NoOrphans, OneSocket, ArmedAlone,
          ClosedOnPurpose, CloseFirst
  <1>a. Types
    BY TypesHold
  <1>1. ws = None /\ \A c \in Conns : conn[c] = "closed"
    BY <1>a DEF ReconnectDue
  <1>2. reconnectTimer' = Off
    BY DEF ReconnectDue
  <1>3. CASE UNCHANGED <<state, shouldReconnect, ws, conn, alive, closeCode>>
    BY <1>1, <1>2, <1>3, <1>a
  <1>4. CASE \E c \in Conns : conn[c] = "closed" /\ Connect(c)
    BY <1>1, <1>2, <1>4, <1>a DEF Connect
  <1>5. QED
    BY <1>3, <1>4 DEF ReconnectDue

LEMMA NextIInv ==
    ASSUME ~LateClose, IInv, [Next]_vars
    PROVE  IInv'
  <1> USE ConnsAssumption
      DEF IInv, Types, ConnStates, Off, NoOrphans, OneSocket, ArmedAlone,
          ClosedOnPurpose, CloseFirst
  <1>a. Types
    BY TypesHold
  <1>b. TypeOK'
    BY TypeStep
  <1>1. CASE HeartbeatDue \/ UNCHANGED vars
    BY <1>1, <1>a, <1>b DEF HeartbeatDue, vars, timers
  <1>2. CASE Disconnect
    <2>1. /\ ws' = None /\ shouldReconnect' = FALSE /\ reconnectTimer' = Off
      BY <1>2 DEF Disconnect, DropSocket
    <2>2. PICK how \in {"closing", "terminated"} :
              conn' = IF ws = None THEN conn ELSE [conn EXCEPT ![ws] = how]
      BY <1>2 DEF Disconnect, DropSocket
    <2>3. \A c \in Conns : conn'[c] \notin {"connecting", "open"}
      BY <2>2, <1>a
    <2>4. NoOrphans' /\ OneSocket' /\ ArmedAlone' /\ ClosedOnPurpose'
      BY <2>1, <2>3
    <2>5. CloseFirst'
      BY <2>1
    <2>6. QED
      BY <1>b, <2>4, <2>5
  <1>3. CASE Tick
    BY <1>3, <1>a, <1>b DEF Tick, MaxOf
  <1>4. QED
    BY <1>1, <1>2, <1>3, <1>b, ConnIInv, HeartbeatTimeoutIInv, ReconnectIInv
    DEF Next

\* No socket is left open that the client has forgotten, for any delays
\* (tunnel-client.ts:227).
THEOREM NoneForgotten ==
    ASSUME ~LateClose
    PROVE  Spec => []NoOrphans
  <1>1. IInv => NoOrphans
    BY DEF IInv
  <1>2. IInv /\ [Next]_vars => IInv'
    BY NextIInv
  <1>3. QED
    BY InitIInv, <1>1, <1>2, PTL DEF Spec

\* A client that was stopped or refused never connects again, whatever timers
\* and events were pending (tunnel-client.ts:95, 212).
THEOREM StaysGivenUp ==
    ASSUME ~LateClose
    PROVE  Spec => GivingUpIsFinal
  <1> DEFINE Final == ~shouldReconnect =>
                        /\ ~shouldReconnect'
                        /\ \A c \in Conns : conn'[c] = "connecting"
                                              => conn[c] = "connecting"
  <1>1. ASSUME IInv, Next, ~shouldReconnect PROVE Final
    <2>1. ~ ReconnectDue
      BY <1>1 DEF ReconnectDue, IInv, ArmedAlone, Off
    <2>2. CASE \E c \in Conns : ConnStep(c)
      BY <1>1, <2>2 DEF ConnStep, Open, AuthOk, HandleAuthError, HeartbeatAck,
                        OnError, OnClose, LinkDies, IInv, TypeOK
    <2>3. CASE HeartbeatDue \/ HeartbeatTimeout \/ Disconnect \/ Tick
      BY <1>1, <2>3 DEF HeartbeatDue, HeartbeatTimeout, Disconnect, Tick,
                        DropSocket, IsOpen, IInv, TypeOK
    <2>4. QED
      BY <1>1, <2>1, <2>2, <2>3 DEF Next
  <1>2. IInv /\ [Next]_vars => [Final]_vars
    BY <1>1
  <1>3. IInv /\ [Next]_vars => IInv'
    BY NextIInv
  <1>4. QED
    BY InitIInv, <1>2, <1>3, PTL DEF Spec, GivingUpIsFinal

-----------------------------------------------------------------------------
(* A client that wants its connection is never left with nothing to come,  *)
(* unless the last close had code 1008: what can be proved of Reconnects   *)
(* without fairness.                                                       *)

\* Its socket is open or opening, or a reconnect is armed which connect() will
\* not turn away because of the state.
AttemptToCome ==
    shouldReconnect /\ closeCode # "1008" =>
        \/ ws # None /\ conn[ws] \in {"connecting", "open"}
        \/ reconnectTimer # Off /\ state \notin {"connecting", "connected"}

LEMMA AttemptConn ==
    ASSUME IInv, AttemptToCome, NEW c \in Conns, ConnStep(c)
    PROVE  AttemptToCome'
  <1> USE ConnsAssumption DEF AttemptToCome, Types
  <1>a. Types
    BY TypesHold DEF IInv
  <1>b. conn[c] \in {"connecting", "open"} => c = ws /\ c # None
    BY ConnsAssumption DEF IInv, NoOrphans
  <1>1. CASE Open(c)
    BY <1>1, <1>a, <1>b DEF Open
  <1>2. CASE AuthOk(c)
    BY <1>2, <1>a, <1>b DEF AuthOk, Hears
  <1>3. CASE HeartbeatAck(c) \/ LinkDies(c)
    BY <1>3, <1>a DEF HeartbeatAck, LinkDies, timers
  <1>4. CASE HandleAuthError(c)
    BY <1>4 DEF HandleAuthError
  <1>5. CASE OnError(c)
    <2>1. shouldReconnect => reconnectTimer' = reconnectDelay
      BY <1>5 DEF OnError, ScheduleIfWanted, ScheduleReconnect
    <2>2. shouldReconnect => state' \notin {"connecting", "connected"}
      BY <1>5 DEF OnError, ScheduleIfWanted, ScheduleReconnect
    <2>3. shouldReconnect' = shouldReconnect
      BY <1>5 DEF OnError
    <2>4. QED
      BY <2>1, <2>2, <2>3, <1>a DEF Off
  <1>6. CASE OnClose(c)
    BY <1>6, <1>a DEF OnClose, Off
  <1>7. QED
    BY <1>1, <1>2, <1>3, <1>4, <1>5, <1>6 DEF ConnStep

LEMMA AttemptStep ==
    ASSUME IInv, AttemptToCome, [Next]_vars
    PROVE  AttemptToCome'
  <1> USE ConnsAssumption DEF AttemptToCome, Types
  <1>a. Types
    BY TypesHold DEF IInv
  <1>1. CASE HeartbeatDue \/ UNCHANGED vars
    BY <1>1, <1>a DEF HeartbeatDue, vars, timers
  <1>2. CASE HeartbeatTimeout
    <2>1. shouldReconnect => reconnectTimer' = reconnectDelay
      BY <1>2 DEF HeartbeatTimeout, ScheduleIfWanted, ScheduleReconnect
    <2>2. shouldReconnect => state' \notin {"connecting", "connected"}
      BY <1>2 DEF HeartbeatTimeout, ScheduleIfWanted, ScheduleReconnect
    <2>3. shouldReconnect' = shouldReconnect
      BY <1>2 DEF HeartbeatTimeout
    <2>4. QED
      BY <2>1, <2>2, <2>3, <1>a DEF Off
  <1>3. CASE ReconnectDue
    <2>1. ws = None /\ shouldReconnect
      BY <1>3 DEF ReconnectDue, IInv, ArmedAlone, Off
    <2>2. CASE state \in {"connecting", "connected"}
      BY <1>3, <2>1, <2>2 DEF ReconnectDue
    <2>3. CASE \E c \in Conns : conn[c] = "closed" /\ Connect(c)
      BY <2>3, <1>a DEF Connect
    <2>4. QED
      BY <1>3, <2>2, <2>3 DEF ReconnectDue
  <1>4. CASE Disconnect
    BY <1>4 DEF Disconnect
  <1>5. CASE Tick
    <2>1. reconnectTimer # Off => reconnectTimer' # Off
      BY <1>5, <1>a DEF Tick, MaxOf, Off
    <2>2. UNCHANGED <<state, ws, shouldReconnect, conn, closeCode>>
      BY <1>5 DEF Tick
    <2>3. QED
      BY <2>1, <2>2
  <1>6. QED
    BY <1>1, <1>2, <1>3, <1>4, <1>5, AttemptConn DEF Next

\* Whatever is lost, given up or closed, and in whatever order: unless it was
\* stopped, or refused by auth_error or by a close with code 1008, the client
\* has a socket it waits for or uses, or a reconnect armed
\* (tunnel-client.ts:177, 240, 258, 285).
THEOREM AlwaysAnAttemptToCome ==
    ASSUME ~LateClose
    PROVE  Spec => []AttemptToCome
  <1>1. Init => AttemptToCome
    BY ConnsAssumption DEF Init, AttemptToCome
  <1>2. IInv /\ AttemptToCome /\ [Next]_vars => AttemptToCome'
    BY AttemptStep
  <1>3. IInv /\ [Next]_vars => IInv'
    BY NextIInv
  <1>4. QED
    BY InitIInv, <1>1, <1>2, <1>3, PTL DEF Spec

-----------------------------------------------------------------------------
(* How long a silent Worker is waited for.                                 *)

\* Only an auth_ok puts a connection to use, and on the client's own socket.
LEMMA PutToUse ==
    ASSUME IInv, NEW c \in Conns, ConnStep(c), InUse'
    PROVE  \/ AuthOk(c) /\ c = ws
           \/ InUse /\ HeartbeatAck(c)
           \/ InUse /\ LinkDies(c)
           \/ InUse /\ UNCHANGED <<heartbeatTimer, heartbeatTimeoutTimer, silence>>
  <1>a. Types
    BY TypesHold DEF IInv
  <1>1. CASE Open(c)
    BY <1>1 DEF Open, InUse
  <1>2. CASE AuthOk(c)
    BY <1>2 DEF AuthOk, Hears, IInv, NoOrphans
  <1>3. CASE HandleAuthError(c)
    BY <1>3, <1>a, ConnsAssumption
    DEF HandleAuthError, InUse, IsOpen, timers, Types
  <1>4. CASE HeartbeatAck(c) \/ LinkDies(c)
    BY <1>4 DEF HeartbeatAck, LinkDies, InUse, IsOpen
  <1>5. CASE OnError(c) \/ OnClose(c)
    BY <1>5 DEF OnError, OnClose, InUse, IsOpen
  <1>6. QED
    BY <1>1, <1>2, <1>3, <1>4, <1>5 DEF ConnStep

LEMMA SilenceInit == Init => SilenceInv
  <1> SUFFICES ASSUME Init PROVE SilenceInv
    OBVIOUS
  <1>1. IInv
    BY InitIInv
  <1>2. state # "connected" /\ silence = 0
    BY DEF Init
  <1>3. QED
    BY <1>1, <1>2, DelayFacts
    DEF SilenceInv, HeartbeatToCome, SpokenSince, SilenceBounded, InUse

LEMMA SilenceConn ==
    ASSUME SilenceInv, IInv', NEW c \in Conns, ConnStep(c)
    PROVE  SilenceInv'
  <1> USE DelayFacts DEF Off
  <1>a. TypeOK /\ TypeOK' /\ IInv
    BY DEF SilenceInv, IInv
  <1>1. SilenceBounded'
    BY <1>a DEF ConnStep, Open, AuthOk, HandleAuthError, HeartbeatAck, OnError,
                OnClose, LinkDies, SilenceInv, SilenceBounded, timers
  <1>2. ASSUME InUse' PROVE HeartbeatToCome' /\ SpokenSince'
    <2>1. CASE AuthOk(c) /\ c = ws
      <3>1. IsOpen(ws)
        BY <2>1, <1>a, ConnsAssumption DEF AuthOk, Hears, IsOpen
      <3>2. /\ heartbeatTimer' = HeartbeatEvery /\ silence' = 0
            /\ heartbeatTimeoutTimer' = AckTimeout
        BY <2>1, <3>1 DEF AuthOk, StartHeartbeat, SendHeartbeat
      <3>3. QED
        BY <3>2 DEF HeartbeatToCome, SpokenSince
    <2>2. CASE InUse /\ HeartbeatAck(c)
      <3>1. heartbeatTimer \in 0..HeartbeatEvery
        BY <2>2, <1>a DEF SilenceInv, HeartbeatToCome, InUse, TypeOK
      <3>2. QED
        BY <2>2, <3>1 DEF HeartbeatAck, HeartbeatToCome, SpokenSince
    <2>3. CASE InUse /\ LinkDies(c)
      BY <2>3 DEF LinkDies, InUse, SilenceInv, HeartbeatToCome, SpokenSince, timers
    <2>4. CASE InUse /\ UNCHANGED <<heartbeatTimer, heartbeatTimeoutTimer, silence>>
      BY <2>4 DEF InUse, SilenceInv, HeartbeatToCome, SpokenSince
    <2>5. QED
      BY <1>2, <1>a, <2>1, <2>2, <2>3, <2>4, PutToUse
  <1>3. ASSUME ~InUse' PROVE HeartbeatToCome' /\ SpokenSince'
    BY <1>3 DEF InUse, HeartbeatToCome, SpokenSince
  <1>4. QED
    BY <1>1, <1>2, <1>3 DEF SilenceInv

LEMMA SilenceStep ==
    ASSUME ~LateClose, AckTimeout < HeartbeatEvery, SilenceInv, [Next]_vars
    PROVE  SilenceInv'
  <1> USE DelayFacts DEF Off
  <1>a. IInv /\ TypeOK
    BY DEF SilenceInv, IInv
  <1>b. IInv'
    BY <1>a, NextIInv
  <1>1. CASE HeartbeatDue
    <2>1. SilenceBounded'
      BY <1>1 DEF HeartbeatDue, SilenceInv, SilenceBounded
    <2>2. ASSUME InUse' PROVE HeartbeatToCome' /\ SpokenSince'
      <3>1. InUse
        BY <1>1, <2>2 DEF HeartbeatDue, InUse, IsOpen
      <3>2. heartbeatTimeoutTimer = Off
        BY <1>1, <3>1, <1>a
        DEF HeartbeatDue, InUse, SilenceInv, HeartbeatToCome, TypeOK
      <3>3. silence <= HeartbeatEvery
        BY <1>1, <3>1, <3>2 DEF HeartbeatDue, InUse, SilenceInv, SpokenSince
      <3>4. /\ heartbeatTimer' = HeartbeatEvery /\ silence' = silence
            /\ heartbeatTimeoutTimer' = AckTimeout
        BY <1>1, <3>1 DEF HeartbeatDue, SendHeartbeat, InUse
      <3>5. QED
        BY <3>3, <3>4 DEF HeartbeatToCome, SpokenSince
    <2>3. QED
      BY <1>b, <2>1, <2>2 DEF SilenceInv, InUse, HeartbeatToCome, SpokenSince
  <1>2. CASE HeartbeatTimeout \/ Disconnect \/ ReconnectDue
    <2>1. silence' = silence
      BY <1>2 DEF HeartbeatTimeout, Disconnect, ReconnectDue
    <2>2. ~InUse'
      <3>1. CASE HeartbeatTimeout \/ Disconnect
        BY <3>1 DEF HeartbeatTimeout, Disconnect, DropSocket, InUse, IsOpen
      <3>2. CASE ReconnectDue
        <4>1. ws = None
          BY <3>2, <1>a DEF ReconnectDue, IInv, ArmedAlone
        <4>2. CASE UNCHANGED <<state, shouldReconnect, ws, conn, alive, closeCode>>
          BY <4>1, <4>2 DEF InUse, IsOpen
        <4>3. CASE \E c \in Conns : conn[c] = "closed" /\ Connect(c)
          BY <4>3 DEF Connect, InUse
        <4>4. QED
          BY <3>2, <4>2, <4>3 DEF ReconnectDue
      <3>3. QED
        BY <1>2, <3>1, <3>2
    <2>3. QED
      BY <1>b, <2>1, <2>2
      DEF SilenceInv, InUse, HeartbeatToCome, SpokenSince, SilenceBounded
  <1>3. CASE Tick
    <2>1. CASE InUse
      <3>1. /\ heartbeatTimer \in 1..HeartbeatEvery
            /\ heartbeatTimeoutTimer \in {Off} \union 1..AckTimeout
            /\ silence \in Nat
        BY <1>3, <2>1, <1>a DEF Tick, SilenceInv, HeartbeatToCome, InUse, TypeOK
      <3>2. /\ heartbeatTimer' = heartbeatTimer - 1
            /\ heartbeatTimeoutTimer' = IF heartbeatTimeoutTimer = Off THEN Off
                                        ELSE heartbeatTimeoutTimer - 1
            /\ silence' \in {silence, silence + 1}
        BY <1>3, <3>1 DEF Tick, MaxOf
      <3>3. /\ heartbeatTimeoutTimer # Off
                 => HeartbeatEvery - heartbeatTimer
                      = AckTimeout - heartbeatTimeoutTimer
            /\ silence <= HeartbeatEvery - heartbeatTimer +
                 (IF heartbeatTimeoutTimer = Off THEN 0 ELSE HeartbeatEvery)
        BY <2>1 DEF SilenceInv, InUse, HeartbeatToCome, SpokenSince
      <3>4. HeartbeatToCome' /\ SpokenSince'
        BY <3>1, <3>2, <3>3 DEF HeartbeatToCome, SpokenSince
      <3>5. SilenceBounded'
        BY <3>1, <3>2, <3>3 DEF SilenceBounded
      <3>6. QED
        BY <1>b, <3>4, <3>5 DEF SilenceInv
    <2>2. CASE ~InUse
      <3>1. silence' = silence /\ ~InUse'
        BY <1>3, <2>2 DEF Tick, InUse, IsOpen
      <3>2. QED
        BY <1>b, <3>1
        DEF SilenceInv, InUse, HeartbeatToCome, SpokenSince, SilenceBounded
    <2>3. QED
      BY <2>1, <2>2
  <1>4. CASE UNCHANGED vars
    BY <1>b, <1>4
    DEF vars, timers, SilenceInv, HeartbeatToCome, SpokenSince, SilenceBounded,
        InUse, IsOpen
  <1>5. QED
    BY <1>b, <1>1, <1>2, <1>3, <1>4, SilenceConn DEF Next

\* If the acknowledgement is due before the next heartbeat, a Worker that has
\* fallen silent is given up within an interval and the acknowledgement's
\* time, however heartbeats, acknowledgements and losses fall
\* (tunnel-client.ts:279).
THEOREM SilentWorkerGivenUp ==
    ASSUME ~LateClose, AckTimeout < HeartbeatEvery
    PROVE  Spec => []SilenceBounded
  <1>1. SilenceInv => SilenceBounded
    BY DEF SilenceInv
  <1>2. SilenceInv /\ [Next]_vars => SilenceInv'
    BY SilenceStep
  <1>3. QED
    BY SilenceInit, <1>1, <1>2, PTL DEF Spec

-----------------------------------------------------------------------------
(* The default order of the two delays.                                    *)

LEMMA RestartedStep ==
    ASSUME ~LateClose, HeartbeatEvery < AckTimeout,
           IInv, RestartedInTime, [Next]_vars
    PROVE  RestartedInTime'
  <1> SUFFICES ASSUME InUse'
               PROVE  /\ heartbeatTimer' # Off
                      /\ heartbeatTimeoutTimer' # Off
                           => AckTimeout - heartbeatTimeoutTimer'
                                <= HeartbeatEvery - heartbeatTimer'
    BY DEF RestartedInTime, InUse
  <1> USE DelayFacts DEF Off
  <1>a. TypeOK
    BY DEF IInv
  <1>1. ASSUME NEW c \in Conns, ConnStep(c) PROVE RestartedInTime'
    <2>1. CASE AuthOk(c) /\ c = ws
      <3>1. IsOpen(ws)
        BY <2>1, <1>a, ConnsAssumption DEF AuthOk, Hears, IsOpen
      <3>2. heartbeatTimer' = HeartbeatEvery /\ heartbeatTimeoutTimer' = AckTimeout
        BY <2>1, <3>1 DEF AuthOk, StartHeartbeat, SendHeartbeat
      <3>3. QED
        BY <3>2 DEF RestartedInTime
    <2>2. CASE InUse /\ HeartbeatAck(c)
      BY <2>2 DEF HeartbeatAck, InUse, RestartedInTime
    <2>3. CASE InUse /\ LinkDies(c)
      BY <2>3 DEF LinkDies, InUse, RestartedInTime, timers
    <2>4. CASE InUse /\ UNCHANGED <<heartbeatTimer, heartbeatTimeoutTimer, silence>>
      BY <2>4 DEF InUse, RestartedInTime
    <2>5. QED
      BY <1>1, <2>1, <2>2, <2>3, <2>4, PutToUse
  <1>2. CASE HeartbeatDue
    <2>1. InUse
      BY <1>2 DEF HeartbeatDue, InUse, IsOpen
    <2>2. heartbeatTimer' = HeartbeatEvery /\ heartbeatTimeoutTimer' = AckTimeout
      BY <1>2, <2>1 DEF HeartbeatDue, SendHeartbeat, InUse
    <2>3. QED
      BY <2>2
  <1>3. CASE HeartbeatTimeout \/ Disconnect
    BY <1>3 DEF HeartbeatTimeout, Disconnect, DropSocket, InUse, IsOpen
  <1>4. CASE ReconnectDue
    <2>1. ws = None
      BY <1>4 DEF ReconnectDue, IInv, ArmedAlone
    <2>2. CASE UNCHANGED <<state, shouldReconnect, ws, conn, alive, closeCode>>
      BY <2>1, <2>2 DEF InUse, IsOpen
    <2>3. CASE \E c \in Conns : conn[c] = "closed" /\ Connect(c)
      BY <2>3 DEF Connect, InUse
    <2>4. QED
      BY <1>4, <2>2, <2>3 DEF ReconnectDue
  <1>5. CASE Tick
    <2>1. InUse
      BY <1>5 DEF Tick, InUse, IsOpen
    <2>2. /\ heartbeatTimer \in 1..HeartbeatEvery
          /\ heartbeatTimeoutTimer \in {Off} \union 1..AckTimeout
      BY <1>5, <2>1, <1>a DEF Tick, RestartedInTime, InUse, TypeOK
    <2>3. /\ heartbeatTimer' = heartbeatTimer - 1
          /\ heartbeatTimeoutTimer' = IF heartbeatTimeoutTimer = Off THEN Off
                                      ELSE heartbeatTimeoutTimer - 1
      BY <1>5, <2>2 DEF Tick, MaxOf
    <2>4. heartbeatTimeoutTimer # Off
            => AckTimeout - heartbeatTimeoutTimer <= HeartbeatEvery - heartbeatTimer
      BY <2>1 DEF RestartedInTime, InUse
    <2>5. QED
      BY <2>2, <2>3, <2>4
  <1>6. CASE UNCHANGED vars
    BY <1>6 DEF vars, timers, RestartedInTime, InUse, IsOpen
  <1>7. QED
    BY <1>1, <1>2, <1>3, <1>4, <1>5, <1>6 DEF Next, RestartedInTime, InUse

\* With the default delays a Worker that accepted a connection and fell silent
\* is never given up by the heartbeat: the acknowledgement's timer is
\* restarted before it is due, whatever else happens (tunnel-client.ts:279).
THEOREM DefaultHeartbeatGivesUpNobody ==
    ASSUME ~LateClose, HeartbeatEvery < AckTimeout
    PROVE  Spec => []AckTimeoutNeverDue
  <1>1. Init => RestartedInTime
    BY DEF Init, RestartedInTime, InUse
  <1>2. IInv /\ RestartedInTime => AckTimeoutNeverDue
    BY DelayFacts
    DEF IInv, TypeOK, RestartedInTime, AckTimeoutNeverDue, Off
  <1>3. IInv /\ RestartedInTime /\ [Next]_vars => IInv' /\ RestartedInTime'
    BY NextIInv, RestartedStep
  <1>4. QED
    BY InitIInv, <1>1, <1>2, <1>3, PTL DEF Spec
=============================================================================
