--------------------------- MODULE Browser_proofs ---------------------------
(***************************************************************************)
(* Theorems about the browser extension: its background script (Extension), *)
(* for any sockets, batches and sizes of them and any number of switches,   *)
(* and its script in a chat page (PageScript), for any batches, fetches and *)
(* cap.                                                                     *)
(***************************************************************************)
EXTENDS Extension, PageScript, FiniteSetTheorems, TLAPS

LEMMA SizeFacts == Size \in Nat \ {0} /\ MaxToggles \in Nat /\ None \notin Sockets
  BY Bounds, NoneIsNoSocket

LEMMA EmptyType == \A S : <<>> \in Seq(S)
  OBVIOUS

LEMMA AppendType ==
    ASSUME NEW S, NEW q \in Seq(S), NEW e \in S
    PROVE  /\ Append(q, e) \in Seq(S)
           /\ Len(Append(q, e)) = Len(q) + 1
           /\ \A k \in 1..Len(q) : Append(q, e)[k] = q[k]
           /\ Append(q, e)[Len(q) + 1] = e
  OBVIOUS

LEMMA TailType ==
    ASSUME NEW S, NEW q \in Seq(S), q # <<>>
    PROVE  Tail(q) \in Seq(S) /\ Len(Tail(q)) = Len(q) - 1 /\ Head(q) \in S
  OBVIOUS

-----------------------------------------------------------------------------
(* The state has the shape TypeOK gives it.                                *)

LEMMA TypeInit == Init => TypeOK
  <1> SUFFICES ASSUME Init PROVE TypeOK
    OBVIOUS
  <1>1. saving \in Seq(BOOLEAN) /\ Len(saving) = 0 /\ toggles = 0
    BY DEF Init
  <1>2. /\ active \in Sockets \union {None}
        /\ active # None => sock[active] # "unused"
        /\ sock \in [Sockets -> SocketStates]
    BY DEF Init, SocketStates
  <1>3. enabled \in BOOLEAN /\ connected \in BOOLEAN
    BY Zenon DEF Init
  <1>4. results \in [Batches -> Seq(Results)]
    BY EmptyType DEF Init
  <1>5. QED
    BY <1>1, <1>2, <1>3, <1>4, SizeFacts DEF Init, TypeOK

\* What CloseActive makes of the sockets.
LEMMA CloseActiveType ==
    ASSUME TypeOK
    PROVE  /\ CloseActive \in [Sockets -> SocketStates]
           /\ \A s \in Sockets : CloseActive[s] = "unused" <=> sock[s] = "unused"
  <1>1. CASE active = None
    BY <1>1 DEF CloseActive, TypeOK
  <1>2. CASE active # None
    <2>1. PICK v \in SocketStates :
            /\ CloseActive = [sock EXCEPT ![active] = v]
            /\ v = "unused" <=> sock[active] = "unused"
      <3>1. sock[active] \in SocketStates /\ sock \in [Sockets -> SocketStates]
        BY <1>2 DEF TypeOK
      <3>2. CASE sock[active] = "connecting"
        BY <1>2, <3>1, <3>2 DEF CloseActive, SocketStates
      <3>3. CASE sock[active] = "open"
        BY <1>2, <3>1, <3>3 DEF CloseActive, SocketStates
      <3>4. CASE sock[active] \notin {"connecting", "open"}
        BY <1>2, <3>1, <3>4 DEF CloseActive, SocketStates
      <3>5. QED
        BY <3>2, <3>3, <3>4
    <2>2. QED
      BY <1>2, <2>1 DEF TypeOK
  <1>3. QED
    BY <1>1, <1>2

LEMMA ConnectType ==
    ASSUME TypeOK, ConnectDaemon
    PROVE  /\ active' \in Sockets \union {None}
           /\ active' # None => sock'[active'] # "unused"
           /\ sock' \in [Sockets -> SocketStates]
           /\ \A s \in Sockets : sock[s] # "unused" => sock'[s] # "unused"
  <1>1. CASE ~ enabled
    BY <1>1 DEF ConnectDaemon, TypeOK
  <1>2. CASE enabled
    <2>1. PICK s \in Sockets : /\ sock[s] = "unused" /\ active' = s
                               /\ sock' = [sock EXCEPT ![s] = "connecting"]
      BY <1>2 DEF ConnectDaemon
    <2>2. QED
      BY <2>1 DEF TypeOK, SocketStates
  <1>3. QED
    BY <1>1, <1>2

LEMMA TypeSocket ==
    ASSUME TypeOK, NEW s \in Sockets,
           \/ Open(s) \/ LocalReady(s) \/ Lost(s) \/ SocketError(s)
           \/ SocketClose(s)
    PROVE  TypeOK'
  <1> USE DEF configVars, socketVars, batchVars, daemonVars
  <1>t. connected' \in BOOLEAN
    <2>1. connected' \in {TRUE, FALSE, connected}
      BY DEF Open, LocalReady, Lost, SocketError, SocketClose
    <2>2. QED
      BY <2>1, Zenon DEF TypeOK
  <1>1. CASE Open(s)
    <2>1. sock' \in [Sockets -> SocketStates]
      BY <1>1 DEF Open, TypeOK, SocketStates
    <2>2. \A t \in Sockets : sock[t] # "unused" => sock'[t] # "unused"
      BY <1>1 DEF Open, TypeOK
    <2>3. QED
      BY <1>1, <1>t, <2>1, <2>2 DEF Open, TypeOK
  <1>2. CASE LocalReady(s)
    BY <1>2, <1>t DEF LocalReady, TypeOK
  <1>3. CASE Lost(s)
    <2>1. sock' \in [Sockets -> SocketStates]
      BY <1>3 DEF Lost, TypeOK, SocketStates
    <2>2. \A t \in Sockets : sock[t] # "unused" => sock'[t] # "unused"
      BY <1>3 DEF Lost, TypeOK
    <2>3. QED
      BY <1>3, <1>t, <2>1, <2>2 DEF Lost, TypeOK
  <1>4. CASE SocketError(s)
    <2>1. sock' \in [Sockets -> SocketStates]
      BY <1>4, CloseActiveType DEF SocketError, SocketStates
    <2>2. \A t \in Sockets : sock[t] # "unused" => sock'[t] # "unused"
      BY <1>4, CloseActiveType DEF SocketError
    <2>3. QED
      BY <1>4, <1>t, <2>1, <2>2 DEF SocketError, TypeOK
  <1>5. CASE SocketClose(s)
    <2>1. /\ sock' = [sock EXCEPT ![s] = "unused"] /\ active' = None
          /\ greeted' = greeted \ {s}
          /\ buffer' \subseteq buffer /\ wire' \subseteq wire /\ back' \subseteq back
          /\ waiter' = {} /\ reconnects' = reconnects + 1
          /\ UNCHANGED <<configVars, begun, tab, run>>
      BY <1>5 DEF SocketClose, ForgetSocket
    <2>2. via' \in [Ids -> Sockets \union {None}]
      BY <1>5 DEF SocketClose, ForgetSocket, TypeOK
    <2>3. results' \in [Batches -> Seq(Results)]
      <3>1. \A b \in Batches : Append(results[b], "failed") \in Seq(Results)
        BY AppendType DEF TypeOK, Results
      <3>2. QED
        BY <1>5, <3>1 DEF SocketClose, TypeOK
    <2>4. sock' \in [Sockets -> SocketStates]
      BY <2>1 DEF TypeOK, SocketStates
    <2>5. greeted' \subseteq {t \in Sockets : sock'[t] # "unused"}
      BY <2>1 DEF TypeOK
    <2>6. QED
      BY <1>t, <2>1, <2>2, <2>3, <2>4, <2>5 DEF TypeOK
  <1>6. QED
    BY <1>1, <1>2, <1>3, <1>4, <1>5

LEMMA TypeConfig ==
    ASSUME TypeOK,
           ReconnectDue \/ Saved \/ \E v \in BOOLEAN : SetEnabled(v)
    PROVE  TypeOK'
  <1> USE DEF configVars, socketVars, batchVars, daemonVars
  <1>1. CASE ReconnectDue
    <2>1. reconnects' \in Nat
      BY <1>1 DEF ReconnectDue, TypeOK
    <2>2. ConnectDaemon
      BY <1>1 DEF ReconnectDue
    <2>3. QED
      BY <1>1, <2>1, <2>2, ConnectType DEF ReconnectDue, TypeOK
  <1>2. CASE Saved
    <2>1. /\ saving' \in Seq(BOOLEAN) /\ Len(saving') <= toggles
          /\ UNCHANGED <<enabled, toggles, greeted, reconnects, batchVars,
                         buffer, wire, daemonVars>>
      <3>1. saving # <<>> /\ saving' = Tail(saving)
        BY <1>2 DEF Saved
      <3>2. UNCHANGED <<enabled, toggles, greeted, reconnects, batchVars,
                        buffer, wire, daemonVars>>
        BY <1>2 DEF Saved
      <3>3. saving \in Seq(BOOLEAN) /\ Len(saving) <= toggles /\ toggles \in Nat
        BY DEF TypeOK
      <3>4. saving' \in Seq(BOOLEAN) /\ Len(saving') = Len(saving) - 1
        BY <3>1, <3>3, TailType
      <3>5. QED
        BY <3>2, <3>3, <3>4
    <2>2. \/ ConnectDaemon /\ UNCHANGED connected
          \/ sock' = CloseActive /\ active' = None /\ connected' = FALSE
          \/ UNCHANGED <<active, sock, connected>>
      BY <1>2 DEF Saved
    <2>3. connected' \in BOOLEAN
      <3>1. connected' \in {FALSE, connected}
        BY <2>2
      <3>2. QED
        BY <3>1, Zenon DEF TypeOK
    <2>4. /\ active' \in Sockets \union {None}
          /\ active' # None => sock'[active'] # "unused"
          /\ sock' \in [Sockets -> SocketStates]
          /\ \A s \in Sockets : sock[s] # "unused" => sock'[s] # "unused"
      BY <2>2, ConnectType, CloseActiveType DEF TypeOK
    <2>5. QED
      BY <2>1, <2>3, <2>4 DEF TypeOK
  <1>3. ASSUME NEW v \in BOOLEAN, SetEnabled(v) PROVE TypeOK'
    <2>1. saving' \in Seq(BOOLEAN) /\ Len(saving') = Len(saving) + 1
      BY <1>3, AppendType DEF SetEnabled, TypeOK
    <2>2. enabled' \in BOOLEAN
      BY <1>3, Zenon DEF SetEnabled
    <2>3. toggles' \in 0..MaxToggles /\ toggles' = toggles + 1
      BY <1>3, SizeFacts DEF SetEnabled, TypeOK
    <2>4. Len(saving) \in Nat /\ toggles \in Nat
      BY DEF TypeOK
    <2>5. QED
      BY <1>3, <2>1, <2>2, <2>3, <2>4 DEF SetEnabled, TypeOK
  <1>4. QED
    BY <1>1, <1>2, <1>3

LEMMA TypeBatch ==
    ASSUME TypeOK, NEW b \in Batches, Answered(b) \/ ExecuteTool(b) \/ Deliver(b)
    PROVE  TypeOK'
  <1> USE DEF configVars, socketVars, batchVars, daemonVars
  <1>1. CASE Answered(b)
    BY <1>1 DEF Answered, TypeOK
  <1>2. CASE ExecuteTool(b)
    <2> DEFINE id == <<b, begun[b] + 1>>
    <2>1. id \in Ids /\ begun' \in [Batches -> 0..Size]
      BY <1>2, SizeFacts DEF ExecuteTool, TypeOK, Ids
    <2>2. results' \in [Batches -> Seq(Results)]
      <3>1. Append(results[b], "unsent") \in Seq(Results)
        BY AppendType DEF TypeOK, Results
      <3>2. QED
        BY <1>2, <3>1 DEF ExecuteTool, TypeOK
    <2>3. /\ waiter' \subseteq waiter \union {id}
          /\ wire' \subseteq wire \union {<<active, id>>}
          /\ buffer' \subseteq buffer \union {<<active, id>>}
          /\ active = None => wire' = wire /\ buffer' = buffer
      <3>1. CASE active = None \/ ~ connected
        BY <1>2, <3>1 DEF ExecuteTool
      <3>2. CASE active # None /\ connected /\ sock[active] = "open"
        BY <1>2, <3>2 DEF ExecuteTool
      <3>3. CASE active # None /\ connected /\ sock[active] # "open"
        BY <1>2, <3>3 DEF ExecuteTool
      <3>4. QED
        BY <3>1, <3>2, <3>3
    <2>4. /\ waiter' \subseteq Ids
          /\ wire' \subseteq Sockets \X Ids /\ buffer' \subseteq Sockets \X Ids
      <3>1. CASE active = None
        BY <2>1, <2>3, <3>1 DEF TypeOK
      <3>2. CASE active # None
        <4>1. <<active, id>> \in Sockets \X Ids
          BY <2>1, <3>2 DEF TypeOK
        <4>2. QED
          BY <2>1, <2>3, <4>1 DEF TypeOK
      <3>3. QED
        BY <3>1, <3>2
    <2>5. QED
      BY <1>2, <2>1, <2>2, <2>4 DEF ExecuteTool, TypeOK
  <1>3. CASE Deliver(b)
    BY <1>3 DEF Deliver, TypeOK
  <1>4. QED
    BY <1>1, <1>2, <1>3

LEMMA TypeCall ==
    ASSUME TypeOK, NEW id \in Ids,
           \/ CallTimeout(id) \/ SendAnswer(id)
           \/ \E s \in Sockets : ReceiveResult(s, id) \/ HandleExecuteTool(s, id)
    PROVE  TypeOK'
  <1> USE DEF configVars, socketVars, batchVars, daemonVars
  <1>a. id[1] \in Batches
    BY DEF Ids
  <1>b. \A r \in Results : Append(results[id[1]], r) \in Seq(Results)
    BY <1>a, AppendType DEF TypeOK
  <1>1. CASE CallTimeout(id)
    BY <1>1, <1>a, <1>b DEF CallTimeout, TypeOK, Results
  <1>2. CASE SendAnswer(id)
    <2>1. via[id] # None => <<via[id], id>> \in Sockets \X Ids
      BY DEF TypeOK
    <2>2. QED
      BY <1>2, <2>1 DEF SendAnswer, TypeOK
  <1>3. ASSUME NEW s \in Sockets, ReceiveResult(s, id) PROVE TypeOK'
    BY <1>3, <1>a, <1>b DEF ReceiveResult, TypeOK, Results
  <1>4. ASSUME NEW s \in Sockets, HandleExecuteTool(s, id) PROVE TypeOK'
    BY <1>4 DEF HandleExecuteTool, TypeOK
  <1>5. QED
    BY <1>1, <1>2, <1>3, <1>4

LEMMA TypeStep == ASSUME TypeOK, [Next]_vars PROVE TypeOK'
  <1>1. CASE UNCHANGED vars
    BY <1>1 DEF vars, configVars, socketVars, batchVars, daemonVars, TypeOK
  <1>2. QED
    BY <1>1, TypeSocket, TypeConfig, TypeBatch, TypeCall DEF Next

\* Sockets, batches and calls of the background stay what TypeOK says.
THEOREM TypeCorrect == Spec => []TypeOK
  BY TypeInit, TypeStep, PTL DEF Spec

-----------------------------------------------------------------------------
(* Sockets and timers are bounded.                                         *)

LEMMA UsedTogether ==
    ASSUME \A s \in Sockets : sock'[s] = "unused" <=> sock[s] = "unused"
    PROVE  Used' = Used
  BY DEF Used

\* connectDaemon uses one more socket at most.
LEMMA ConnectUses ==
    ASSUME TypeOK, IsFiniteSet(Used), ConnectDaemon
    PROVE  IsFiniteSet(Used') /\ Cardinality(Used') <= Cardinality(Used) + 1
  <1>1. CASE ~ enabled
    <2>1. Used' = Used
      BY <1>1 DEF ConnectDaemon, Used
    <2>2. QED
      BY <2>1, FS_CardinalityType
  <1>2. CASE enabled
    <2>1. PICK s \in Sockets : sock' = [sock EXCEPT ![s] = "connecting"]
      BY <1>2 DEF ConnectDaemon
    <2>2. Used' = Used \union {s}
      BY <2>1 DEF Used, TypeOK
    <2>3. IsFiniteSet(Used') /\ Cardinality(Used') \in {Cardinality(Used), Cardinality(Used) + 1}
      BY <2>2, FS_AddElement
    <2>4. Cardinality(Used) \in Nat
      BY FS_CardinalityType
    <2>5. QED
      BY <2>3, <2>4
  <1>3. QED
    BY <1>1, <1>2

LEMMA SocketsInit == Init => SocketsInv
  <1> SUFFICES ASSUME Init PROVE SocketsInv
    OBVIOUS
  <1>1. TypeOK
    BY TypeInit
  <1>2. IsFiniteSet(Used) /\ Cardinality(Used) <= 1
    <2>1. CASE enabled
      <3>1. PICK s \in Sockets :
              sock = [t \in Sockets |-> IF t = s THEN "connecting" ELSE "unused"]
        BY <2>1 DEF Init
      <3>2. Used = {s}
        BY <3>1 DEF Used
      <3>3. QED
        BY <3>2, FS_Singleton
    <2>2. CASE ~ enabled
      <3>1. Used = {}
        BY <2>2 DEF Init, Used
      <3>2. QED
        BY <3>1, FS_EmptySet
    <2>3. QED
      BY <2>1, <2>2
  <1>3. reconnects = 0 /\ Len(saving) = 0 /\ toggles = 0
    BY DEF Init
  <1>4. QED
    BY <1>1, <1>2, <1>3, FS_CardinalityType DEF SocketsInv, RoomForSaves

LEMMA SocketsStep == ASSUME SocketsInv, [Next]_vars PROVE SocketsInv'
  <1> USE DEF configVars, socketVars, batchVars, daemonVars
  <1>t. TypeOK /\ TypeOK'
    BY TypeStep DEF SocketsInv
  <1> SUFFICES RoomForSaves'
    BY <1>t DEF SocketsInv
  <1>f. /\ IsFiniteSet(Used) /\ Cardinality(Used) \in Nat
        /\ reconnects \in Nat /\ Len(saving) \in Nat /\ toggles \in Nat
        /\ Cardinality(Used) + reconnects + Len(saving) <= 1 + toggles
    BY <1>t, FS_CardinalityType DEF SocketsInv, RoomForSaves, TypeOK
  <1>1. ASSUME Used' = Used, UNCHANGED <<reconnects, saving, toggles>>
        PROVE  RoomForSaves'
    BY <1>f, <1>1 DEF RoomForSaves
  <1>2. ASSUME NEW s \in Sockets, Open(s) \/ LocalReady(s) \/ Lost(s)
        PROVE  RoomForSaves'
    <2>1. \A t \in Sockets : sock'[t] = "unused" <=> sock[t] = "unused"
      BY <1>t, <1>2 DEF Open, LocalReady, Lost, TypeOK
    <2>2. UNCHANGED <<reconnects, saving, toggles>>
      BY <1>2 DEF Open, LocalReady, Lost
    <2>3. QED
      BY <1>1, <2>1, <2>2, UsedTogether
  <1>3. ASSUME NEW s \in Sockets, SocketError(s) PROVE RoomForSaves'
    <2>1. \A t \in Sockets : sock'[t] = "unused" <=> sock[t] = "unused"
      BY <1>t, <1>3, CloseActiveType DEF SocketError
    <2>2. UNCHANGED <<reconnects, saving, toggles>>
      BY <1>3 DEF SocketError
    <2>3. QED
      BY <1>1, <2>1, <2>2, UsedTogether
  <1>4. ASSUME NEW s \in Sockets, SocketClose(s) PROVE RoomForSaves'
    <2>1. /\ sock' = [sock EXCEPT ![s] = "unused"] /\ sock[s] # "unused"
          /\ reconnects' = reconnects + 1 /\ UNCHANGED <<saving, toggles>>
      BY <1>4 DEF SocketClose, ForgetSocket, Ended
    <2>2. Used' = Used \ {s} /\ s \in Used
      BY <1>t, <2>1 DEF Used, TypeOK
    <2>3. IsFiniteSet(Used') /\ Cardinality(Used') = Cardinality(Used) - 1
      BY <1>f, <2>2, FS_RemoveElement
    <2>4. QED
      BY <1>f, <2>1, <2>3 DEF RoomForSaves
  <1>5. CASE ReconnectDue
    <2>1. /\ ConnectDaemon /\ reconnects' = reconnects - 1
          /\ UNCHANGED <<saving, toggles>>
      BY <1>5 DEF ReconnectDue
    <2>2. IsFiniteSet(Used') /\ Cardinality(Used') <= Cardinality(Used) + 1
      BY <1>t, <1>f, <2>1, ConnectUses
    <2>3. Cardinality(Used') \in Nat
      BY <2>2, FS_CardinalityType
    <2>4. QED
      BY <1>f, <2>1, <2>2, <2>3 DEF RoomForSaves
  <1>6. ASSUME NEW v \in BOOLEAN, SetEnabled(v) PROVE RoomForSaves'
    <2>1. Len(saving') = Len(saving) + 1
      BY <1>t, <1>6, AppendType DEF SetEnabled, TypeOK
    <2>2. UNCHANGED <<sock, reconnects>> /\ toggles' = toggles + 1
      BY <1>6 DEF SetEnabled
    <2>3. QED
      BY <1>f, <2>1, <2>2 DEF RoomForSaves, Used
  <1>7. CASE Saved
    <2>1. Len(saving') = Len(saving) - 1
      BY <1>t, <1>7, TailType DEF Saved, TypeOK
    <2>2. UNCHANGED <<reconnects, toggles>>
      BY <1>7 DEF Saved
    <2>3. ConnectDaemon \/ sock' = CloseActive \/ sock' = sock
      BY <1>7 DEF Saved
    <2>4. CASE ConnectDaemon
      <3>1. IsFiniteSet(Used') /\ Cardinality(Used') <= Cardinality(Used) + 1
        BY <1>t, <1>f, <2>4, ConnectUses
      <3>2. Cardinality(Used') \in Nat
        BY <3>1, FS_CardinalityType
      <3>3. QED
        BY <1>f, <2>1, <2>2, <3>1, <3>2 DEF RoomForSaves
    <2>5. CASE sock' = CloseActive \/ sock' = sock
      <3>1. Used' = Used
        BY <1>t, <2>5, CloseActiveType, UsedTogether
      <3>2. QED
        BY <1>f, <2>1, <2>2, <3>1 DEF RoomForSaves
    <2>6. QED
      BY <2>3, <2>4, <2>5
  <1>8. ASSUME NEW b \in Batches, Answered(b) \/ ExecuteTool(b) \/ Deliver(b)
        PROVE  RoomForSaves'
    <2>1. UNCHANGED <<configVars, socketVars>>
      BY <1>8 DEF Answered, ExecuteTool, Deliver
    <2>2. QED
      BY <1>1, <2>1 DEF Used
  <1>9. ASSUME NEW id \in Ids,
               \/ CallTimeout(id) \/ SendAnswer(id)
               \/ \E s \in Sockets : ReceiveResult(s, id) \/ HandleExecuteTool(s, id)
        PROVE  RoomForSaves'
    <2>1. UNCHANGED <<configVars, socketVars>>
      BY <1>9 DEF CallTimeout, SendAnswer, ReceiveResult, HandleExecuteTool
    <2>2. QED
      BY <1>1, <2>1 DEF Used
  <1>10. CASE UNCHANGED vars
    <2>1. UNCHANGED <<configVars, socketVars>>
      BY <1>10 DEF vars
    <2>2. QED
      BY <1>1, <2>1 DEF Used
  <1>11. QED
    BY <1>2, <1>3, <1>4, <1>5, <1>6, <1>7, <1>8, <1>9, <1>10 DEF Next

\* However sockets fail, error and close, whichever is current when they do and
\* however the extension is switched, sockets and armed reconnect timers
\* together stay within one and one for each set_enabled
\* (background.ts: connectDaemon and its listeners).
THEOREM SocketsStayBounded == Spec => []SocketsBounded
  <1>1. SocketsInv => SocketsBounded
    <2> SUFFICES ASSUME SocketsInv PROVE SocketsBounded
      OBVIOUS
    <2>1. /\ Cardinality(Used) \in Nat /\ reconnects \in Nat
          /\ Len(saving) \in Nat /\ toggles \in Nat
      BY FS_CardinalityType DEF SocketsInv, RoomForSaves, TypeOK
    <2>2. QED
      BY <2>1 DEF SocketsInv, RoomForSaves, SocketsBounded
  <1>2. QED
    BY SocketsInit, SocketsStep, <1>1, PTL DEF Spec

-----------------------------------------------------------------------------
(* What a batch reports is so.                                             *)

LEMMA ResultsInit == Init => ResultsInv
  <1> SUFFICES ASSUME Init PROVE ResultsInv
    OBVIOUS
  <1>1. /\ waiter = {} /\ wire = {} /\ buffer = {} /\ back = {}
        /\ results = [b \in Batches |-> <<>>]
        /\ begun = [b \in Batches |-> 0]
        /\ tab = [b \in Batches |-> "none"]
        /\ run = [id \in Ids |-> "none"]
    BY DEF Init
  <1>2. OneCallAtATime
    BY <1>1 DEF OneCallAtATime
  <1>3. IssuedOnce /\ RunsOnce
    BY <1>1 DEF IssuedOnce, RunsOnce
  <1>4. AnswersAreOfRuns
    BY <1>1 DEF AnswersAreOfRuns
  <1>5. QED
    BY TypeInit, <1>2, <1>3, <1>4 DEF ResultsInv

LEMMA IdParts ==
    \A id \in Ids : /\ id[1] \in Batches /\ id[2] \in 1..Size
                    /\ id = <<id[1], id[2]>>
  BY DEF Ids

\* A call that was passed on stays so while the results of its batch grow,
\* unless the call waited for is the one reported as unsent.
LEMMA PassedOnStays ==
    ASSUME TypeOK, TypeOK', NEW id \in Ids, PassedOn(id),
           begun'[id[1]] >= begun[id[1]],
           \/ results'[id[1]] = results[id[1]]
           \/ \E r \in Results :
                /\ results'[id[1]] = Append(results[id[1]], r)
                /\ r # "unsent" \/ begun[id[1]] = Len(results[id[1]])
    PROVE  PassedOn(id)'
  <1> DEFINE b == id[1]
  <1>1. /\ b \in Batches /\ id[2] \in 1..Size
        /\ begun[b] \in Nat /\ begun'[b] \in Nat
        /\ results[b] \in Seq(Results)
    BY IdParts, SizeFacts DEF TypeOK
  <1>2. id[2] <= begun'[b]
    BY <1>1 DEF PassedOn
  <1>3. ASSUME id[2] <= Len(results'[b]) PROVE results'[b][id[2]] # "unsent"
    <2>1. CASE results'[b] = results[b]
      BY <1>3, <2>1 DEF PassedOn
    <2>2. ASSUME NEW r \in Results, results'[b] = Append(results[b], r),
                 r # "unsent" \/ begun[b] = Len(results[b])
          PROVE  results'[b][id[2]] # "unsent"
      <3>1. /\ Len(results'[b]) = Len(results[b]) + 1
            /\ \A k \in 1..Len(results[b]) : results'[b][k] = results[b][k]
            /\ results'[b][Len(results[b]) + 1] = r
        BY <1>1, <2>2, AppendType
      <3>2. Len(results[b]) \in Nat
        BY <1>1
      <3>3. CASE id[2] <= Len(results[b])
        BY <1>1, <3>1, <3>2, <3>3 DEF PassedOn
      <3>4. CASE id[2] = Len(results[b]) + 1
        <4>1. r # "unsent"
          BY <1>1, <2>2, <3>2, <3>4 DEF PassedOn
        <4>2. QED
          BY <3>1, <3>4, <4>1
      <3>5. QED
        BY <1>1, <1>3, <3>1, <3>2, <3>3, <3>4
    <2>3. QED
      BY <2>1, <2>2
  <1>4. QED
    BY <1>2, <1>3 DEF PassedOn

\* The calls in W end with result r: a close, a timeout, an answer, or none.
LEMMA CallsEnd ==
    ASSUME ResultsInv, TypeOK', NEW W \in SUBSET waiter,
           NEW r \in Results \ {"unsent"},
           r = "answer" => \A id \in W : run[id] = "done",
           waiter' = waiter \ W,
           results' = [b \in Batches |->
                         IF \E id \in W : id[1] = b
                         THEN Append(results[b], r) ELSE results[b]],
           UNCHANGED <<begun, tab, run>>,
           wire' \union buffer' \subseteq wire \union buffer,
           wire' \intersect buffer' = {},
           back' \subseteq back
    PROVE  ResultsInv'
  <1>t. TypeOK /\ OneCallAtATime /\ IssuedOnce /\ RunsOnce /\ AnswersAreOfRuns
    BY DEF ResultsInv
  <1>a. \A b \in Batches :
          /\ results[b] \in Seq(Results) /\ Len(results[b]) \in Nat
          /\ begun[b] \in Nat
    BY <1>t, SizeFacts DEF TypeOK
  <1>w. \A id \in waiter : /\ id \in Ids /\ id[1] \in Batches
                           /\ id = <<id[1], Len(results[id[1]]) + 1>>
                           /\ begun[id[1]] = Len(results[id[1]]) + 1
    BY <1>t, IdParts DEF OneCallAtATime, TypeOK
  <1>g. ASSUME NEW b \in Batches, \E id \in W : id[1] = b
        PROVE  /\ results'[b] = Append(results[b], r)
               /\ Len(results'[b]) = Len(results[b]) + 1
               /\ \A k \in 1..Len(results[b]) : results'[b][k] = results[b][k]
               /\ results'[b][Len(results[b]) + 1] = r
               /\ begun[b] = Len(results[b]) + 1
               /\ <<b, begun[b]>> \in W
               /\ \A id \in waiter : id[1] = b => id \in W
    <2>1. results'[b] = Append(results[b], r)
      BY <1>g
    <2>2. r \in Results /\ results[b] \in Seq(Results)
      BY <1>a
    <2>3. /\ Len(results'[b]) = Len(results[b]) + 1
          /\ \A k \in 1..Len(results[b]) : results'[b][k] = results[b][k]
          /\ results'[b][Len(results[b]) + 1] = r
      BY <2>1, <2>2, AppendType
    <2>4. PICK id \in W : id[1] = b
      BY <1>g
    <2>5. id = <<b, begun[b]>> /\ begun[b] = Len(results[b]) + 1
      BY <1>w, <2>4
    <2>6. \A x \in waiter : x[1] = b => x = id
      BY <1>w, <2>4, <2>5
    <2>7. QED
      BY <2>1, <2>3, <2>4, <2>5, <2>6
  <1>s. ASSUME NEW b \in Batches, ~ \E id \in W : id[1] = b
        PROVE  results'[b] = results[b]
    BY <1>s
  <1>p. ASSUME NEW id \in Ids, PassedOn(id) PROVE PassedOn(id)'
    <2>1. id[1] \in Batches
      BY IdParts
    <2>2. \/ results'[id[1]] = results[id[1]]
          \/ results'[id[1]] = Append(results[id[1]], r)
      BY <1>g, <1>s, <2>1
    <2>3. begun'[id[1]] >= begun[id[1]]
      BY <1>a, <2>1
    <2>4. r \in Results /\ r # "unsent"
      OBVIOUS
    <2>5. QED
      BY <1>t, <1>p, <2>2, <2>3, <2>4, PassedOnStays
  <1>1. OneCallAtATime'
    <2>1. ASSUME NEW b \in Batches
          PROVE  /\ begun'[b] \in {Len(results'[b]), Len(results'[b]) + 1}
                 /\ tab'[b] = "delivered"
                       => begun'[b] = Size /\ Len(results'[b]) = Size
                 /\ begun'[b] # Len(results'[b]) => <<b, begun'[b]>> \in waiter'
      <3>1. CASE \E id \in W : id[1] = b
        <4>1. tab[b] # "delivered"
          <5>1. begun[b] = Len(results[b]) + 1 /\ Len(results[b]) \in Nat
            BY <1>a, <1>g, <3>1
          <5>2. tab[b] = "delivered" => begun[b] = Len(results[b])
            BY <1>t DEF OneCallAtATime
          <5>3. QED
            BY <5>1, <5>2
        <4>2. QED
          BY <1>a, <1>g, <3>1, <4>1
      <3>2. CASE ~ \E id \in W : id[1] = b
        <4>1. begun[b] # Len(results[b]) => <<b, begun[b]>> \in waiter \ W
          BY <1>t, <3>2 DEF OneCallAtATime
        <4>2. QED
          BY <1>s, <1>t, <3>2, <4>1 DEF OneCallAtATime
      <3>3. QED
        BY <3>1, <3>2
    <2>2. ASSUME NEW id \in waiter'
          PROVE  id[2] = begun'[id[1]] /\ id[2] = Len(results'[id[1]]) + 1
      <3>1. id \in waiter /\ id \notin W /\ id[1] \in Batches
        BY <1>w
      <3>2. results'[id[1]] = results[id[1]]
        BY <1>g, <1>s, <3>1
      <3>3. QED
        BY <1>t, <3>1, <3>2 DEF OneCallAtATime
    <2>3. QED
      BY <2>1, <2>2 DEF OneCallAtATime
  <1>2. IssuedOnce'
    <2>1. ASSUME NEW m \in wire' \union buffer'
          PROVE  run'[m[2]] = "none" /\ PassedOn(m[2])'
      <3>1. m \in wire \union buffer /\ m[2] \in Ids
        BY <1>t DEF TypeOK
      <3>2. QED
        BY <1>p, <1>t, <3>1 DEF IssuedOnce
    <2>2. \A m, n \in wire' \union buffer' : m[2] = n[2] => m = n
      BY <1>t DEF IssuedOnce
    <2>3. QED
      BY <2>1, <2>2 DEF IssuedOnce
  <1>3. RunsOnce'
    BY <1>p, <1>t DEF RunsOnce
  <1>4. AnswersAreOfRuns'
    <2>1. ASSUME NEW b \in Batches, NEW k \in 1..Len(results'[b]),
                 results'[b][k] = "answer"
          PROVE  <<b, k>> \in Ids /\ run'[<<b, k>>] = "done"
      <3>1. CASE \E id \in W : id[1] = b
        <4>1. CASE k \in 1..Len(results[b])
          BY <1>g, <1>t, <2>1, <3>1, <4>1 DEF AnswersAreOfRuns
        <4>2. CASE k = Len(results[b]) + 1
          <5>1. <<b, k>> \in W /\ r = "answer"
            BY <1>g, <2>1, <3>1, <4>2
          <5>2. QED
            BY <1>w, <5>1
        <4>3. QED
          BY <1>a, <1>g, <3>1, <4>1, <4>2
      <3>2. CASE ~ \E id \in W : id[1] = b
        BY <1>s, <1>t, <2>1, <3>2 DEF AnswersAreOfRuns
      <3>3. QED
        BY <3>1, <3>2
    <2>2. QED
      BY <2>1 DEF AnswersAreOfRuns
  <1>5. QED
    BY <1>1, <1>2, <1>3, <1>4 DEF ResultsInv

\* A step that leaves batches, calls and messages as they are.
LEMMA ResultsUntouched ==
    ASSUME ResultsInv, TypeOK',
           UNCHANGED <<batchVars, run, wire, buffer, back>>
    PROVE  ResultsInv'
  <1>1. UNCHANGED <<OneCallAtATime, IssuedOnce, RunsOnce, AnswersAreOfRuns>>
    BY DEF OneCallAtATime, IssuedOnce, RunsOnce, AnswersAreOfRuns, PassedOn,
           batchVars
  <1>2. QED
    BY <1>1 DEF ResultsInv

\* A step in which no call ends, begins or is run: messages only get lost, or
\* move from a buffer to the wire.
LEMMA ResultsOfSocket ==
    ASSUME ResultsInv, TypeOK', NEW s \in Sockets,
           \/ Open(s) \/ LocalReady(s) \/ Lost(s) \/ SocketError(s)
           \/ SocketClose(s)
    PROVE  ResultsInv'
  <1> USE DEF batchVars, daemonVars, configVars, socketVars
  <1>t. TypeOK /\ IssuedOnce
    BY DEF ResultsInv
  <1>r. "failed" \in Results \ {"unsent"}
    BY DEF Results
  <1>n. ASSUME UNCHANGED <<waiter, results, begun, tab, run>>,
               wire' \union buffer' \subseteq wire \union buffer,
               wire' \intersect buffer' = {}, back' \subseteq back
        PROVE  ResultsInv'
    <2> DEFINE W == {}
    <2>1. W \in SUBSET waiter /\ waiter' = waiter \ W
      BY <1>n
    <2>2. results' = [b \in Batches |->
                        IF \E id \in W : id[1] = b
                        THEN Append(results[b], "failed") ELSE results[b]]
      BY <1>n, <1>t DEF TypeOK
    <2>3. "failed" = "answer" => \A id \in W : run[id] = "done"
      OBVIOUS
    <2> HIDE DEF W
    <2>4. QED
      BY <1>n, <1>r, <2>1, <2>2, <2>3, CallsEnd
  <1>1. CASE Open(s)
    <2>1. /\ wire' \union buffer' \subseteq wire \union buffer
          /\ wire' \intersect buffer' = {}
      BY <1>1, <1>t DEF Open, IssuedOnce
    <2>2. QED
      BY <1>1, <1>n, <2>1 DEF Open
  <1>2. CASE LocalReady(s)
    BY <1>2, ResultsUntouched DEF LocalReady
  <1>3. CASE Lost(s)
    <2>1. /\ wire' \union buffer' \subseteq wire \union buffer
          /\ wire' \intersect buffer' = {} /\ back' \subseteq back
      BY <1>3, <1>t DEF Lost, IssuedOnce
    <2>2. QED
      BY <1>3, <1>n, <2>1 DEF Lost
  <1>4. CASE SocketError(s)
    BY <1>4, ResultsUntouched DEF SocketError
  <1>5. CASE SocketClose(s)
    <2>1. /\ wire' \union buffer' \subseteq wire \union buffer
          /\ wire' \intersect buffer' = {} /\ back' \subseteq back
      BY <1>5, <1>t DEF SocketClose, ForgetSocket, IssuedOnce
    <2>2. /\ waiter' = waiter \ waiter /\ waiter \in SUBSET waiter
          /\ results' = [b \in Batches |->
                           IF \E id \in waiter : id[1] = b
                           THEN Append(results[b], "failed") ELSE results[b]]
          /\ UNCHANGED <<begun, tab, run>>
      BY <1>5 DEF SocketClose
    <2>3. "failed" = "answer" => \A id \in waiter : run[id] = "done"
      OBVIOUS
    <2>4. QED
      BY <1>r, <2>1, <2>2, <2>3, CallsEnd
  <1>6. QED
    BY <1>1, <1>2, <1>3, <1>4, <1>5

\* A timeout or an answer: the call ends, when it is waited for.
LEMMA ResultsOfEnd ==
    ASSUME ResultsInv, TypeOK', NEW id \in Ids,
           CallTimeout(id) \/ \E s \in Sockets : ReceiveResult(s, id)
    PROVE  ResultsInv'
  <1> USE DEF batchVars, daemonVars, configVars, socketVars
  <1>t. TypeOK /\ IssuedOnce /\ RunsOnce
    BY DEF ResultsInv
  <1>v. PICK W \in SUBSET waiter : W = waiter \intersect {id}
    OBVIOUS
  <1>w. waiter \ {id} = waiter \ W /\ \A x : x \in W <=> x = id /\ id \in waiter
    BY <1>v
  <1>e. \A r \in Results : id \in waiter =>
          [results EXCEPT ![id[1]] = Append(@, r)] =
            [b \in Batches |-> IF \E x \in W : x[1] = b
                              THEN Append(results[b], r) ELSE results[b]]
    BY <1>t, <1>w, IdParts DEF TypeOK
  <1>n. id \notin waiter =>
          results = [b \in Batches |-> IF \E x \in W : x[1] = b
                              THEN Append(results[b], "answer") ELSE results[b]]
    BY <1>t, <1>w DEF TypeOK
  <1>m. wire \intersect buffer = {}
    BY <1>t DEF IssuedOnce
  <1>1. CASE CallTimeout(id)
    <2>1. /\ waiter' = waiter \ W
          /\ UNCHANGED <<begun, tab, run, wire, buffer, back>>
      BY <1>1, <1>w DEF CallTimeout
    <2>2. "failed" \in Results \ {"unsent"}
      BY DEF Results
    <2>3. results' = [b \in Batches |-> IF \E x \in W : x[1] = b
                        THEN Append(results[b], "failed") ELSE results[b]]
      BY <1>1, <1>e, <2>2 DEF CallTimeout
    <2>4. "failed" = "answer" => \A x \in W : run[x] = "done"
      OBVIOUS
    <2>5. /\ wire' \union buffer' \subseteq wire \union buffer
          /\ wire' \intersect buffer' = {} /\ back' \subseteq back
      BY <1>m, <2>1
    <2>6. QED
      BY <2>1, <2>2, <2>3, <2>4, <2>5, CallsEnd
  <1>2. ASSUME NEW s \in Sockets, ReceiveResult(s, id) PROVE ResultsInv'
    <2>1. /\ <<s, id>> \in back /\ back' \subseteq back /\ waiter' = waiter \ W
          /\ results' = IF id \in waiter
                        THEN [results EXCEPT ![id[1]] = Append(@, "answer")]
                        ELSE results
          /\ UNCHANGED <<begun, tab, run, wire, buffer>>
      BY <1>2, <1>w DEF ReceiveResult
    <2>2. "answer" \in Results \ {"unsent"}
      BY DEF Results
    <2>3. results' = [b \in Batches |-> IF \E x \in W : x[1] = b
                        THEN Append(results[b], "answer") ELSE results[b]]
      BY <1>e, <1>n, <2>1, <2>2
    <2>4. \A x \in W : run[x] = "done"
      BY <1>t, <1>w, <2>1 DEF RunsOnce
    <2>5. QED
      BY <1>m, <2>1, <2>2, <2>3, <2>4, CallsEnd
  <1>3. QED
    BY <1>1, <1>2

\* A batch begins, or its results are delivered.
LEMMA ResultsOfTab ==
    ASSUME ResultsInv, TypeOK', NEW b \in Batches, Answered(b) \/ Deliver(b)
    PROVE  ResultsInv'
  <1> USE DEF batchVars, daemonVars, configVars, socketVars
  <1>t. TypeOK /\ OneCallAtATime
    BY DEF ResultsInv
  <1>1. UNCHANGED <<waiter, results, begun, wire, buffer, run, back>>
    BY DEF Answered, Deliver
  <1>2. UNCHANGED <<IssuedOnce, RunsOnce, AnswersAreOfRuns>>
    BY <1>1 DEF IssuedOnce, RunsOnce, AnswersAreOfRuns, PassedOn
  <1>3. \A c \in Batches : tab'[c] = "delivered" =>
          \/ tab[c] = "delivered"
          \/ begun[c] = Size /\ Len(results[c]) = Size
    BY <1>t DEF Answered, Deliver, Ready, TypeOK
  <1>4. OneCallAtATime'
    BY <1>1, <1>3, <1>t DEF OneCallAtATime
  <1>5. QED
    BY <1>2, <1>4 DEF ResultsInv

\* The next call of a batch, passed to a socket or reported as not sent.
LEMMA ResultsOfBegin ==
    ASSUME ResultsInv, TypeOK', NEW b \in Batches, ExecuteTool(b)
    PROVE  ResultsInv'
  <1> USE DEF batchVars, daemonVars, configVars, socketVars
  <1>t. TypeOK /\ OneCallAtATime /\ IssuedOnce /\ RunsOnce /\ AnswersAreOfRuns
    BY DEF ResultsInv
  <1>a. \A c \in Batches :
          /\ results[c] \in Seq(Results) /\ Len(results[c]) \in Nat
          /\ begun[c] \in Nat
    BY <1>t, SizeFacts DEF TypeOK
  <1>b. /\ tab[b] = "running" /\ begun[b] = Len(results[b]) /\ begun[b] < Size
        /\ begun' = [begun EXCEPT ![b] = @ + 1]
        /\ UNCHANGED <<tab, run, back>>
    BY DEF ExecuteTool, Ready
  <1>c. /\ begun'[b] = begun[b] + 1
        /\ \A c \in Batches : c # b => begun'[c] = begun[c]
    BY <1>b, <1>t DEF TypeOK
  <1>i. PICK id \in Ids : id = <<b, begun[b] + 1>>
    <2>1. <<b, begun[b] + 1>> \in Ids
      BY <1>a, <1>b, SizeFacts DEF Ids
    <2>2. QED
      BY <2>1
  <1>w. \A x \in waiter : /\ x \in Ids /\ x[1] \in Batches /\ x[1] # b
    BY <1>a, <1>b, <1>t, IdParts DEF OneCallAtATime, TypeOK
  <1>n. run[id] = "none" /\ \A m \in wire \union buffer : m[2] # id
    BY <1>a, <1>i, <1>t DEF RunsOnce, IssuedOnce, PassedOn
  <1>1. ASSUME results' = [results EXCEPT ![b] = Append(@, "unsent")],
               UNCHANGED <<waiter, buffer, wire>>
        PROVE  ResultsInv'
    <2>1. /\ results'[b] = Append(results[b], "unsent")
          /\ \A c \in Batches : c # b => results'[c] = results[c]
      BY <1>1, <1>t DEF TypeOK
    <2>u. "unsent" \in Results
      BY DEF Results
    <2>2. /\ Len(results'[b]) = Len(results[b]) + 1
          /\ \A k \in 1..Len(results[b]) : results'[b][k] = results[b][k]
          /\ results'[b][Len(results[b]) + 1] = "unsent"
      BY <1>a, <2>1, <2>u, AppendType
    <2>p. ASSUME NEW x \in Ids, PassedOn(x) PROVE PassedOn(x)'
      <3>1. x[1] \in Batches
        BY IdParts
      <3>2. begun'[x[1]] >= begun[x[1]]
        BY <1>a, <1>c, <3>1
      <3>3. \/ results'[x[1]] = results[x[1]]
            \/ /\ results'[x[1]] = Append(results[x[1]], "unsent")
               /\ begun[x[1]] = Len(results[x[1]])
        BY <1>b, <2>1, <3>1
      <3>4. QED
        BY <1>t, <2>p, <2>u, <3>2, <3>3, PassedOnStays
    <2>3. OneCallAtATime'
      <3>1. ASSUME NEW c \in Batches
            PROVE  /\ begun'[c] \in {Len(results'[c]), Len(results'[c]) + 1}
                   /\ tab'[c] = "delivered"
                         => begun'[c] = Size /\ Len(results'[c]) = Size
                   /\ begun'[c] # Len(results'[c]) => <<c, begun'[c]>> \in waiter'
        <4>1. CASE c = b
          BY <1>a, <1>b, <1>c, <2>2, <4>1
        <4>2. CASE c # b
          BY <1>1, <1>b, <1>c, <1>t, <2>1, <4>2 DEF OneCallAtATime
        <4>3. QED
          BY <4>1, <4>2
      <3>2. ASSUME NEW x \in waiter'
            PROVE  x[2] = begun'[x[1]] /\ x[2] = Len(results'[x[1]]) + 1
        BY <1>1, <1>c, <1>t, <1>w, <2>1 DEF OneCallAtATime
      <3>3. QED
        BY <3>1, <3>2 DEF OneCallAtATime
    <2>4. IssuedOnce'
      <3>1. \A m \in wire \union buffer : m[2] \in Ids
        BY <1>t DEF TypeOK
      <3>2. QED
        BY <1>1, <1>b, <1>t, <2>p, <3>1 DEF IssuedOnce
    <2>5. RunsOnce'
      BY <1>b, <1>t, <2>p DEF RunsOnce
    <2>6. AnswersAreOfRuns'
      <3>1. ASSUME NEW c \in Batches, NEW k \in 1..Len(results'[c]),
                   results'[c][k] = "answer"
            PROVE  <<c, k>> \in Ids /\ run'[<<c, k>>] = "done"
        <4>1. CASE c = b
          <5>1. k \in 1..Len(results[b]) /\ results[b][k] = "answer"
            BY <1>a, <2>2, <3>1, <4>1
          <5>2. QED
            BY <1>b, <1>t, <4>1, <5>1 DEF AnswersAreOfRuns
        <4>2. CASE c # b
          BY <1>b, <1>t, <2>1, <3>1, <4>2 DEF AnswersAreOfRuns
        <4>3. QED
          BY <4>1, <4>2
      <3>2. QED
        BY <3>1 DEF AnswersAreOfRuns
    <2>7. QED
      BY <2>3, <2>4, <2>5, <2>6 DEF ResultsInv
  <1>2. ASSUME UNCHANGED results, waiter' = waiter \union {id},
               \/ wire' = wire \union {<<active, id>>} /\ UNCHANGED buffer
               \/ buffer' = buffer \union {<<active, id>>} /\ UNCHANGED wire
        PROVE  ResultsInv'
    <2>p. ASSUME NEW x \in Ids, PassedOn(x) PROVE PassedOn(x)'
      <3>1. x[1] \in Batches
        BY IdParts
      <3>2. begun'[x[1]] >= begun[x[1]]
        BY <1>a, <1>c, <3>1
      <3>3. results'[x[1]] = results[x[1]]
        BY <1>2
      <3>4. QED
        BY <1>t, <2>p, <3>2, <3>3, PassedOnStays
    <2>i. PassedOn(id)'
      BY <1>2, <1>a, <1>b, <1>c, <1>i DEF PassedOn
    <2>m. wire' \union buffer' = wire \union buffer \union {<<active, id>>}
      BY <1>2
    <2>3. OneCallAtATime'
      <3>1. ASSUME NEW c \in Batches
            PROVE  /\ begun'[c] \in {Len(results'[c]), Len(results'[c]) + 1}
                   /\ tab'[c] = "delivered"
                         => begun'[c] = Size /\ Len(results'[c]) = Size
                   /\ begun'[c] # Len(results'[c]) => <<c, begun'[c]>> \in waiter'
        <4>1. CASE c = b
          BY <1>2, <1>a, <1>b, <1>c, <1>i, <4>1
        <4>2. CASE c # b
          BY <1>2, <1>b, <1>c, <1>t, <4>2 DEF OneCallAtATime
        <4>3. QED
          BY <4>1, <4>2
      <3>2. ASSUME NEW x \in waiter'
            PROVE  x[2] = begun'[x[1]] /\ x[2] = Len(results'[x[1]]) + 1
        <4>1. CASE x = id
          BY <1>2, <1>b, <1>c, <1>i, <4>1
        <4>2. CASE x \in waiter
          BY <1>2, <1>c, <1>t, <1>w, <4>2 DEF OneCallAtATime
        <4>3. QED
          BY <1>2, <4>1, <4>2
      <3>3. QED
        BY <3>1, <3>2 DEF OneCallAtATime
    <2>4. IssuedOnce'
      <3>1. ASSUME NEW m \in wire' \union buffer'
            PROVE  run'[m[2]] = "none" /\ PassedOn(m[2])'
        <4>1. CASE m = <<active, id>>
          BY <1>b, <1>n, <2>i, <4>1
        <4>2. CASE m \in wire \union buffer
          <5>1. m[2] \in Ids
            BY <1>t, <4>2 DEF TypeOK
          <5>2. QED
            BY <1>b, <1>t, <2>p, <4>2, <5>1 DEF IssuedOnce
        <4>3. QED
          BY <2>m, <4>1, <4>2
      <3>2. \A m, n \in wire' \union buffer' : m[2] = n[2] => m = n
        BY <1>n, <1>t, <2>m DEF IssuedOnce
      <3>3. wire' \intersect buffer' = {}
        BY <1>2, <1>n, <1>t DEF IssuedOnce
      <3>4. QED
        BY <3>1, <3>2, <3>3 DEF IssuedOnce
    <2>5. RunsOnce'
      BY <1>b, <1>t, <2>p DEF RunsOnce
    <2>6. AnswersAreOfRuns'
      BY <1>2, <1>b, <1>t DEF AnswersAreOfRuns
    <2>7. QED
      BY <2>3, <2>4, <2>5, <2>6 DEF ResultsInv
  <1>3. CASE active = None \/ ~ connected
    BY <1>1, <1>3 DEF ExecuteTool
  <1>4. CASE active # None /\ connected
    BY <1>2, <1>4, <1>i DEF ExecuteTool
  <1>5. QED
    BY <1>3, <1>4

\* The daemon takes up a call, or answers it.
LEMMA ResultsOfRun ==
    ASSUME ResultsInv, TypeOK', NEW id \in Ids,
           SendAnswer(id) \/ \E s \in Sockets : HandleExecuteTool(s, id)
    PROVE  ResultsInv'
  <1> USE DEF batchVars, daemonVars, configVars, socketVars
  <1>t. TypeOK /\ OneCallAtATime /\ IssuedOnce /\ RunsOnce /\ AnswersAreOfRuns
    BY DEF ResultsInv
  <1>1. UNCHANGED <<waiter, results, begun, tab, buffer>>
    BY DEF SendAnswer, HandleExecuteTool
  <1>2. OneCallAtATime'
    BY <1>1, <1>t DEF OneCallAtATime
  <1>3. UNCHANGED PassedOn(id) /\ \A x \in Ids : PassedOn(x) => PassedOn(x)'
    BY <1>1 DEF PassedOn
  <1>4. \A m \in wire \union buffer : m[2] \in Ids
    BY <1>t DEF TypeOK
  <1>5. CASE SendAnswer(id)
    <2>1. /\ run[id] = "running" /\ run' = [run EXCEPT ![id] = "done"]
          /\ back' \subseteq back \union {<<via[id], id>>} /\ UNCHANGED wire
      BY <1>5 DEF SendAnswer
    <2>2. run'[id] = "done" /\ \A x \in Ids : x # id => run'[x] = run[x]
      BY <1>t, <2>1 DEF TypeOK
    <2>3. IssuedOnce'
      BY <1>1, <1>3, <1>4, <1>t, <2>1, <2>2 DEF IssuedOnce
    <2>4. \A m \in back : m[2] \in Ids
      BY <1>t DEF TypeOK
    <2>5. RunsOnce'
      BY <1>3, <1>t, <2>1, <2>2, <2>4 DEF RunsOnce
    <2>6. AnswersAreOfRuns'
      BY <1>1, <1>t, <2>2 DEF AnswersAreOfRuns
    <2>7. QED
      BY <1>2, <2>3, <2>5, <2>6 DEF ResultsInv
  <1>6. ASSUME NEW s \in Sockets, HandleExecuteTool(s, id) PROVE ResultsInv'
    <2>1. /\ <<s, id>> \in wire /\ wire' = wire \ {<<s, id>>}
          /\ run' = [run EXCEPT ![id] = "running"] /\ UNCHANGED back
      BY <1>6 DEF HandleExecuteTool
    <2>2. run'[id] = "running" /\ \A x \in Ids : x # id => run'[x] = run[x]
      BY <1>t, <2>1 DEF TypeOK
    <2>3. run[id] = "none" /\ PassedOn(id)
      BY <1>t, <2>1 DEF IssuedOnce
    <2>4. \A m \in wire' \union buffer' : m \in wire \union buffer /\ m[2] # id
      BY <1>1, <1>t, <2>1 DEF IssuedOnce
    <2>5. IssuedOnce'
      BY <1>1, <1>3, <1>4, <1>t, <2>1, <2>2, <2>4 DEF IssuedOnce
    <2>6. \A m \in back : m[2] \in Ids
      BY <1>t DEF TypeOK
    <2>7. RunsOnce'
      BY <1>3, <1>t, <2>1, <2>2, <2>3, <2>6 DEF RunsOnce
    <2>8. AnswersAreOfRuns'
      BY <1>1, <1>t, <2>2, <2>3 DEF AnswersAreOfRuns
    <2>9. QED
      BY <1>2, <2>5, <2>7, <2>8 DEF ResultsInv
  <1>7. QED
    BY <1>5, <1>6

LEMMA ResultsStep == ASSUME ResultsInv, [Next]_vars PROVE ResultsInv'
  <1> USE DEF batchVars, daemonVars, configVars, socketVars
  <1>t. TypeOK'
    BY TypeStep DEF ResultsInv
  <1>1. CASE ReconnectDue \/ Saved \/ \E v \in BOOLEAN : SetEnabled(v)
    <2>1. UNCHANGED <<batchVars, run, wire, buffer, back>>
      BY <1>1 DEF ReconnectDue, Saved, SetEnabled
    <2>2. QED
      BY <1>t, <2>1, ResultsUntouched
  <1>2. CASE UNCHANGED vars
    BY <1>2, <1>t, ResultsUntouched DEF vars
  <1>3. QED
    BY <1>1, <1>2, <1>t, ResultsOfSocket, ResultsOfEnd, ResultsOfTab,
       ResultsOfBegin, ResultsOfRun DEF Next

\* However sockets, storage and timers interleave with the calls, a delivered
\* batch has one result for each call, an answer is that of a call that ran,
\* and a call reported as not sent is not sent or run later
\* (background.ts: handleToolCalls, executeToolOnDaemon).
THEOREM ResultsAreTrue == Spec => []ResultsTrue
  <1>1. ResultsInv => ResultsTrue
    <2> SUFFICES ASSUME ResultsInv PROVE ResultsTrue
      OBVIOUS
    <2>t. TypeOK /\ OneCallAtATime /\ IssuedOnce /\ RunsOnce /\ AnswersAreOfRuns
      BY DEF ResultsInv
    <2>1. ASSUME NEW b \in Batches, NEW k \in 1..Len(results[b]),
                 results[b][k] = "unsent"
          PROVE  /\ run[<<b, k>>] = "none"
                 /\ \A s \in Sockets : <<s, <<b, k>>>> \notin wire \union buffer
      <3>1. /\ results[b] \in Seq(Results) /\ begun[b] \in 0..Size
            /\ begun[b] \in {Len(results[b]), Len(results[b]) + 1}
        BY <2>t DEF TypeOK, OneCallAtATime
      <3>2. <<b, k>> \in Ids
        BY <3>1, SizeFacts DEF Ids
      <3>3. ~ PassedOn(<<b, k>>)
        BY <2>1, <3>1 DEF PassedOn
      <3>4. QED
        BY <2>t, <3>2, <3>3 DEF RunsOnce, IssuedOnce
    <2>2. QED
      BY <2>t, <2>1 DEF ResultsTrue, OneCallAtATime, AnswersAreOfRuns
  <1>2. QED
    BY ResultsInit, ResultsStep, <1>1, PTL DEF Spec

-----------------------------------------------------------------------------
(* Nothing is stuck: what can be proved of Reconnects and                  *)
(* EveryBatchDelivered without fairness.                                   *)

\* What is stored last is what the extension acts on.
LatestSaved == saving # <<>> => saving[Len(saving)] = enabled

\* An extension that is enabled and has no socket has a reconnect timer armed or
\* a set_enabled to store; it does not take an open socket for a broken one.
BackToCome ==
    /\ enabled => active # None \/ reconnects > 0 \/ saving # <<>>
    /\ active # None /\ sock[active] = "open" => connected

\* With booleans as values, for the provers.
BackInv ==
    /\ TypeOK
    /\ saving # <<>> => saving[Len(saving)] = enabled
    /\ enabled = TRUE => active # None \/ reconnects > 0 \/ saving # <<>>
    /\ active # None /\ sock[active] = "open" => connected = TRUE

LEMMA EmptyLen ==
    ASSUME NEW S, NEW q \in Seq(S)
    PROVE  Len(q) = 0 <=> q = <<>>
  OBVIOUS

LEMMA TailLast ==
    ASSUME NEW S, NEW q \in Seq(S), q # <<>>
    PROVE  /\ Tail(q) # <<>> => Tail(q)[Len(Tail(q))] = q[Len(q)]
           /\ Tail(q) = <<>> => Head(q) = q[Len(q)]
  <1>1. Len(q) \in Nat \ {0} /\ Len(Tail(q)) = Len(q) - 1
    OBVIOUS
  <1>2. CASE Len(q) = 1
    <2>1. Tail(q) \in Seq(S) /\ Len(Tail(q)) = 0 /\ Head(q) = q[1]
      BY <1>1, <1>2
    <2>2. Tail(q) = <<>>
      BY <2>1, EmptyLen
    <2>3. QED
      BY <1>2, <2>1, <2>2
  <1>3. CASE Len(q) # 1
    <2>1. Len(q) \in Nat /\ Len(q) > 1
      BY <1>1, <1>3
    <2>2. Len(Tail(q)) \in 1..Len(Tail(q))
      BY <1>1, <2>1
    <2>3. Tail(q) # <<>>
      <3>1. Tail(q) \in Seq(S) /\ Len(Tail(q)) # 0
        BY <1>1, <2>1
      <3>2. QED
        BY <3>1, EmptyLen
    <2>4. \A i \in 1..Len(Tail(q)) : Tail(q)[i] = q[i + 1]
      OBVIOUS
    <2>5. QED
      BY <1>1, <2>1, <2>2, <2>3, <2>4
  <1>4. QED
    BY <1>2, <1>3

LEMMA BackSocket ==
    ASSUME BackInv, TypeOK', NEW s \in Sockets,
           \/ Open(s) \/ LocalReady(s) \/ Lost(s) \/ SocketError(s)
           \/ SocketClose(s)
    PROVE  BackInv'
  <1> USE SizeFacts DEF BackInv, configVars
  <1>1. CASE Open(s)
    BY <1>1 DEF Open, TypeOK
  <1>2. CASE LocalReady(s)
    BY <1>2 DEF LocalReady
  <1>3. CASE Lost(s)
    <2>1. \A t \in Sockets : sock'[t] = "open" => sock[t] = "open"
      BY <1>3 DEF Lost, TypeOK
    <2>2. UNCHANGED <<enabled, saving, active, connected, reconnects>>
      BY <1>3 DEF Lost
    <2>3. QED
      BY <2>1, <2>2 DEF TypeOK
  <1>4. CASE SocketError(s)
    <2>1. active # None => sock'[active] # "open"
      <3>1. active # None => CloseActive[active] # "open"
        BY DEF CloseActive, TypeOK
      <3>2. CloseActive \in [Sockets -> SocketStates]
        BY CloseActiveType
      <3>3. QED
        BY <1>4, <3>1, <3>2 DEF SocketError, TypeOK
    <2>2. UNCHANGED <<enabled, saving, active, reconnects>>
      BY <1>4 DEF SocketError
    <2>3. QED
      BY <2>1, <2>2
  <1>5. CASE SocketClose(s)
    <2>1. active' = None /\ reconnects' = reconnects + 1 /\ UNCHANGED <<enabled, saving>>
      BY <1>5 DEF SocketClose
    <2>2. reconnects \in Nat
      BY DEF TypeOK
    <2>3. QED
      BY <2>1, <2>2
  <1>6. QED
    BY <1>1, <1>2, <1>3, <1>4, <1>5

\* connectDaemon leaves an enabled extension with a socket that is not open yet.
LEMMA ConnectBack ==
    ASSUME TypeOK, ConnectDaemon, enabled = TRUE
    PROVE  active' # None /\ sock'[active'] # "open"
  BY SizeFacts DEF ConnectDaemon, TypeOK

LEMMA BackConfig ==
    ASSUME BackInv, TypeOK',
           ReconnectDue \/ Saved \/ \E v \in BOOLEAN : SetEnabled(v)
    PROVE  BackInv'
  <1> USE SizeFacts DEF BackInv
  <1>t. enabled \in {TRUE, FALSE} /\ saving \in Seq(BOOLEAN)
    BY Zenon DEF TypeOK
  <1>1. CASE ReconnectDue
    <2>1. ConnectDaemon /\ UNCHANGED <<enabled, saving, connected>>
      BY <1>1 DEF ReconnectDue, configVars
    <2>2. CASE enabled = TRUE
      BY <2>1, <2>2, ConnectBack
    <2>3. CASE enabled = FALSE
      <3>1. UNCHANGED <<active, sock>>
        BY <2>1, <2>3, Zenon DEF ConnectDaemon
      <3>2. QED
        BY <2>1, <2>3, <3>1
    <2>4. QED
      BY <1>t, <2>2, <2>3
  <1>2. ASSUME NEW v \in BOOLEAN, SetEnabled(v) PROVE BackInv'
    <2>1. /\ saving' = Append(saving, v) /\ enabled' = v
          /\ UNCHANGED <<active, connected, sock, reconnects>>
      BY <1>2 DEF SetEnabled, socketVars
    <2>2. saving' # <<>> /\ saving'[Len(saving')] = v
      BY <1>t, <2>1
    <2>3. QED
      BY <2>1, <2>2
  <1>3. CASE Saved
    <2>1. saving # <<>> /\ saving' = Tail(saving) /\ UNCHANGED <<enabled, reconnects>>
      BY <1>3 DEF Saved
    <2>2. /\ saving' # <<>> => saving'[Len(saving')] = saving[Len(saving)]
          /\ saving' = <<>> => Head(saving) = saving[Len(saving)]
      BY <1>t, <2>1, TailLast
    <2>3. Head(saving) \in {TRUE, FALSE}
      BY <1>t, <2>1, TailType
    <2>4. CASE Head(saving) = TRUE /\ active = None
      <3>1. ConnectDaemon /\ UNCHANGED connected
        BY <1>3, <2>4, Zenon DEF Saved
      <3>2. CASE enabled = TRUE
        BY <2>1, <2>2, <3>1, <3>2, ConnectBack
      <3>3. CASE enabled = FALSE
        <4>1. UNCHANGED <<active, sock>>
          BY <3>1, <3>3, Zenon DEF ConnectDaemon
        <4>2. QED
          BY <2>1, <2>2, <3>1, <3>3, <4>1
      <3>4. QED
        BY <1>t, <3>2, <3>3
    <2>5. CASE Head(saving) = FALSE /\ active # None
      <3>1. active' = None
        BY <1>3, <2>5, Zenon DEF Saved
      <3>2. enabled = TRUE => saving' # <<>>
        BY <2>1, <2>2, <2>5
      <3>3. QED
        BY <2>1, <2>2, <3>1, <3>2
    <2>6. CASE \/ Head(saving) = TRUE /\ active # None
               \/ Head(saving) = FALSE /\ active = None
      <3>1. UNCHANGED <<active, sock, connected>>
        BY <1>3, <2>6, Zenon DEF Saved
      <3>2. active = None /\ enabled = TRUE => saving' # <<>>
        BY <2>1, <2>2, <2>6
      <3>3. QED
        BY <2>1, <2>2, <3>1, <3>2
    <2>7. QED
      BY <2>3, <2>4, <2>5, <2>6
  <1>4. QED
    BY <1>1, <1>2, <1>3

LEMMA BackStep == ASSUME BackInv, [Next]_vars PROVE BackInv'
  <1>t. TypeOK'
    BY TypeStep DEF BackInv
  <1>1. ASSUME UNCHANGED <<configVars, socketVars>> PROVE BackInv'
    BY <1>t, <1>1 DEF BackInv, configVars, socketVars
  <1>2. ASSUME NEW b \in Batches, Answered(b) \/ ExecuteTool(b) \/ Deliver(b)
        PROVE  UNCHANGED <<configVars, socketVars>>
    BY <1>2 DEF Answered, ExecuteTool, Deliver
  <1>3. ASSUME NEW id \in Ids, CallTimeout(id) \/ SendAnswer(id)
        PROVE  UNCHANGED <<configVars, socketVars>>
    BY <1>3 DEF CallTimeout, SendAnswer
  <1>4. ASSUME NEW s \in Sockets, NEW id \in Ids,
               ReceiveResult(s, id) \/ HandleExecuteTool(s, id)
        PROVE  UNCHANGED <<configVars, socketVars>>
    BY <1>4 DEF ReceiveResult, HandleExecuteTool
  <1>5. CASE UNCHANGED vars
    BY <1>1, <1>5 DEF vars
  <1>6. QED
    BY <1>t, <1>1, <1>2, <1>3, <1>4, <1>5, BackSocket, BackConfig DEF Next

\* However sockets fail and the popup switches, an extension that is enabled is
\* never left without a socket and without anything that will open one
\* (background.ts: connectDaemon's close listener, set_enabled).
THEOREM ReconnectIsToCome == Spec => [](LatestSaved /\ BackToCome)
  <1>1. Init => BackInv
    <2> SUFFICES ASSUME Init PROVE BackInv
      OBVIOUS
    <2>1. saving = <<>> /\ connected = FALSE
      BY DEF Init
    <2>2. enabled = TRUE => active # None /\ sock[active] # "open"
      BY SizeFacts DEF Init
    <2>3. enabled # TRUE => active = None
      BY Zenon DEF Init
    <2>4. QED
      BY TypeInit, <2>1, <2>2, <2>3 DEF BackInv
  <1>2. BackInv => LatestSaved /\ BackToCome
    <2> SUFFICES ASSUME BackInv PROVE LatestSaved /\ BackToCome
      OBVIOUS
    <2>1. LatestSaved
      BY DEF BackInv, LatestSaved
    <2>2. enabled \in BOOLEAN /\ connected \in BOOLEAN
      BY DEF BackInv, TypeOK
    <2>3. BackToCome
      BY <2>2, Zenon DEF BackInv, BackToCome
    <2>4. QED
      BY <2>1, <2>3
  <1>3. BackInv /\ [Next]_vars => BackInv'
    BY BackStep
  <1>4. QED
    BY <1>1, <1>2, <1>3, PTL DEF Spec

\* A batch that is not delivered can go on, or waits for one call, whose timer
\* is armed; none waits once it is delivered.
BatchesGoOn ==
    /\ \A b \in Batches : tab[b] = "running" => Ready(b) \/ <<b, begun[b]>> \in waiter
    /\ \A id, other \in waiter : id[1] = other[1] => id = other
    /\ \A id \in waiter : tab[id[1]] # "delivered"

\* No loss of a socket, answer, timeout or switch leaves a batch that waits for
\* nothing or for two calls (background.ts: handleToolCalls, the waiters).
THEOREM NoBatchIsStuck == Spec => []BatchesGoOn
  <1>1. ASSUME ResultsInv PROVE BatchesGoOn
    <2>t. TypeOK /\ OneCallAtATime
      BY <1>1 DEF ResultsInv
    <2>1. \A b \in Batches : tab[b] = "running" => Ready(b) \/ <<b, begun[b]>> \in waiter
      BY <2>t DEF OneCallAtATime, Ready
    <2>2. \A id \in waiter : id \in Ids /\ id = <<id[1], id[2]>> /\ id[1] \in Batches
      BY <2>t DEF TypeOK, Ids
    <2>3. ASSUME NEW id \in waiter, NEW other \in waiter, id[1] = other[1]
          PROVE  id = other
      <3>1. id[2] = other[2]
        BY <2>t, <2>3 DEF OneCallAtATime
      <3>2. QED
        BY <2>2, <2>3, <3>1, Zenon
    <2>4. ASSUME NEW id \in waiter PROVE tab[id[1]] # "delivered"
      <3>1. results[id[1]] \in Seq(Results)
        BY <2>t, <2>2 DEF TypeOK
      <3>2. begun[id[1]] = Len(results[id[1]]) + 1 /\ Len(results[id[1]]) \in Nat
        BY <2>t, <3>1 DEF OneCallAtATime
      <3>3. QED
        BY <2>t, <2>2, <3>2 DEF OneCallAtATime
    <2>5. QED
      BY <2>1, <2>3, <2>4 DEF BatchesGoOn
  <1>2. QED
    BY ResultsInit, ResultsStep, <1>1, PTL DEF Spec

-----------------------------------------------------------------------------
(* The page script does not continue a chat for ever.                      *)

\* The counter the page's state keeps is never behind the number of
\* auto-continues since the page's last chat request: it may be ahead, when it
\* counted requests of the page while an auto-continue was out.
Counted == count \in Nat /\ autos \in Nat /\ autos <= count

CapInv == Counted /\ CapPerTurn

LEMMA CapInit == PageInit => CapInv
  BY MaxNat DEF PageInit, CapInv, Counted, CapPerTurn

LEMMA CapStep == CapInv /\ [PageNext]_pageVars => CapInv'
  <1> SUFFICES ASSUME CapInv, [PageNext]_pageVars PROVE CapInv'
    OBVIOUS
  <1> USE MaxNat DEF CapInv, Counted, CapPerTurn
  <1>1. ASSUME NEW f \in Fetches, NEW chat \in BOOLEAN, PageFetch(f, chat)
        PROVE  CapInv'
    BY <1>1 DEF PageFetch, CountRequest
  <1>2. ASSUME NEW b \in Batches, NEW ok \in BOOLEAN, Scheduled(b, ok)
        PROVE  CapInv'
    BY <1>2 DEF Scheduled
  <1>3. ASSUME NEW b \in Batches, Queue(b) PROVE CapInv'
    BY <1>3 DEF Queue
  <1>4. ASSUME NEW b \in Batches, NEW f \in Fetches, AutoContinue(f, b)
        PROVE  CapInv'
    BY <1>4 DEF AutoContinue, Resubmit
  <1>5. ASSUME NEW f \in Fetches, Respond(f) \/ Fail(f) PROVE CapInv'
    BY <1>5 DEF Respond, Fail
  <1>6. CASE UNCHANGED pageVars
    BY <1>6 DEF pageVars
  <1>7. QED
    BY <1>1, <1>2, <1>3, <1>4, <1>5, <1>6 DEF PageNext

\* Between two chat requests of the page there are at most MaxContinues
\* auto-continues, for any cap and however many requests and batches overlap
\* (auto-continue.ts:48, fetch-patch.ts:179).
THEOREM ContinuesAreCapped == PageSpec => []CapPerTurn
  <1>1. CapInv => CapPerTurn
    BY DEF CapInv
  <1>2. QED
    BY CapInit, CapStep, <1>1, PTL DEF PageSpec

-----------------------------------------------------------------------------
(* Where a batch of results is, and how often.                             *)

Has(q, b)  == \E i \in 1..Len(q) : q[i] = b
Once(q, b) == \A i, j \in 1..Len(q) : q[i] = b /\ q[j] = b => i = j

LEMMA HasAppended ==
    ASSUME NEW S, NEW q \in Seq(S), NEW e \in S, NEW b
    PROVE  /\ Append(q, e) \in Seq(S)
           /\ Has(Append(q, e), b) <=> Has(q, b) \/ b = e
           /\ Once(q, b) /\ (b = e => ~ Has(q, b)) => Once(Append(q, e), b)
  <1>1. \A i \in 1..Len(q) + 1 :
           \/ i \in 1..Len(q) /\ Append(q, e)[i] = q[i]
           \/ i = Len(q) + 1 /\ Append(q, e)[i] = e
    BY AppendType
  <1>2. Has(Append(q, e), b) <=> Has(q, b) \/ b = e
    BY AppendType DEF Has
  <1>3. ASSUME Once(q, b), b = e => ~ Has(q, b) PROVE Once(Append(q, e), b)
    BY <1>1, <1>3, AppendType DEF Has, Once
  <1>4. QED
    BY <1>2, <1>3, AppendType

LEMMA HasConcat ==
    ASSUME NEW S, NEW q \in Seq(S), NEW r \in Seq(S), NEW b
    PROVE  /\ q \o r \in Seq(S)
           /\ Has(q \o r, b) <=> Has(q, b) \/ Has(r, b)
           /\ Once(q, b) /\ Once(r, b) /\ ~ (Has(q, b) /\ Has(r, b)) => Once(q \o r, b)
  <1>1. /\ q \o r \in Seq(S) /\ Len(q \o r) = Len(q) + Len(r)
        /\ Len(q) \in Nat /\ Len(r) \in Nat
        /\ \A i \in 1..Len(q) : (q \o r)[i] = q[i]
        /\ \A i \in 1..Len(r) : (q \o r)[Len(q) + i] = r[i]
    OBVIOUS
  <1>2. \A i \in 1..Len(q \o r) :
           i \in 1..Len(q) \/ (i - Len(q) \in 1..Len(r) /\ (q \o r)[i] = r[i - Len(q)])
    <2>1. ASSUME NEW i \in 1..Len(q \o r), i \notin 1..Len(q)
          PROVE  i - Len(q) \in 1..Len(r) /\ (q \o r)[i] = r[i - Len(q)]
      <3>1. i - Len(q) \in 1..Len(r) /\ Len(q) + (i - Len(q)) = i
        BY <1>1, <2>1
      <3>2. QED
        BY <1>1, <3>1
    <2>2. QED
      BY <2>1
  <1>3. Has(q \o r, b) => Has(q, b) \/ Has(r, b)
    BY <1>1, <1>2 DEF Has
  <1>4. Has(q, b) => Has(q \o r, b)
    BY <1>1 DEF Has
  <1>5. ASSUME Has(r, b) PROVE Has(q \o r, b)
    <2>1. PICK i \in 1..Len(r) : r[i] = b
      BY <1>5 DEF Has
    <2>2. Len(q) + i \in 1..Len(q \o r) /\ (q \o r)[Len(q) + i] = b
      BY <1>1, <2>1
    <2>3. QED
      BY <2>2 DEF Has
  <1>6. ASSUME Once(q, b), Once(r, b), ~ (Has(q, b) /\ Has(r, b)),
               NEW i \in 1..Len(q \o r), NEW j \in 1..Len(q \o r),
               (q \o r)[i] = b, (q \o r)[j] = b
        PROVE  i = j
    <2>1. CASE i \in 1..Len(q) /\ j \in 1..Len(q)
      BY <1>1, <1>6, <2>1 DEF Once
    <2>2. CASE i \notin 1..Len(q) /\ j \notin 1..Len(q)
      <3>1. /\ i - Len(q) \in 1..Len(r) /\ r[i - Len(q)] = b
            /\ j - Len(q) \in 1..Len(r) /\ r[j - Len(q)] = b
        BY <1>2, <1>6, <2>2
      <3>2. i - Len(q) = j - Len(q)
        BY <1>6, <3>1 DEF Once
      <3>3. QED
        BY <1>1, <3>2
    <2>3. CASE i \in 1..Len(q) /\ j \notin 1..Len(q)
      BY <1>1, <1>2, <1>6, <2>3 DEF Has
    <2>4. CASE i \notin 1..Len(q) /\ j \in 1..Len(q)
      BY <1>1, <1>2, <1>6, <2>4 DEF Has
    <2>5. QED
      BY <2>1, <2>2, <2>3, <2>4
  <1>7. QED
    BY <1>1, <1>3, <1>4, <1>5, <1>6 DEF Once

LEMMA HasOne ==
    ASSUME NEW S, NEW e \in S, NEW b
    PROVE  <<e>> \in Seq(S) /\ Once(<<e>>, b) /\ (Has(<<e>>, b) <=> b = e)
  BY DEF Has, Once

LEMMA HasNone == \A b : ~ Has(<<>>, b) /\ Once(<<>>, b)
  BY DEF Has, Once

\* What appending a sequence of batches makes of a body.
LEMMA AppendedFacts ==
    ASSUME NEW body \in Bodies, NEW bs \in Seq(Batches)
    PROVE  /\ Appended(body, bs) \in Bodies
           /\ Appended(body, bs).chat = body.chat
           /\ Appended(body, bs).results =
                IF body.chat THEN body.results \o bs ELSE body.results
  <1>1. body.results \o bs \in Seq(Batches)
    BY DEF Bodies
  <1>2. QED
    BY <1>1 DEF Appended, Bodies
-----------------------------------------------------------------------------
(* The page's state has the shape PageTypeOK gives it.                     *)

LEMMA PendingType ==
    ASSUME PageTypeOK PROVE pending \in Seq(Batches) /\ pending \in Seq(Batches \ Foreign)
  <1>1. \A q \in Seq(Batches \ Foreign) : q \in Seq(Batches)
    OBVIOUS
  <1>2. QED
    BY <1>1 DEF PageTypeOK

\* A request that goes out, with the batches that waited for it.
LEMMA SendFacts ==
    ASSUME PageTypeOK,
           NEW f \in Fetches, NEW of \in Batches \union {None}, NEW body \in Bodies,
           SendRequest(f, of, body)
    PROVE  /\ last' \in Bodies /\ last'.chat = body.chat
           /\ last'.results = IF body.chat THEN body.results \o pending ELSE body.results
           /\ fetch' \in [Fetches -> [of : Batches \union {None}, body : Bodies]]
           /\ state' \in [Fetches -> {"none", "sent", "answered", "failed"}]
           /\ fetch'[f].of = of /\ fetch'[f].body = last'
           /\ state[f] = "none" /\ state'[f] = "sent"
           /\ \A g \in Fetches \ {f} : fetch'[g] = fetch[g] /\ state'[g] = state[g]
  <1>1. PICK sent : sent = Appended(body, pending)
    OBVIOUS
  <1>2. /\ sent \in Bodies /\ sent.chat = body.chat
        /\ sent.results = IF body.chat THEN body.results \o pending ELSE body.results
    BY <1>1, PendingType, AppendedFacts
  <1>3. /\ last' = sent /\ state[f] = "none" /\ state' = [state EXCEPT ![f] = "sent"]
        /\ fetch' = [fetch EXCEPT ![f] = [of |-> of, body |-> sent]]
    BY <1>1 DEF SendRequest, WithPending
  <1>4. PICK e : /\ e = [of |-> of, body |-> sent]
                 /\ e \in [of : Batches \union {None}, body : Bodies]
                 /\ e.of = of /\ e.body = sent
    <2>1. [of |-> of, body |-> sent] \in [of : Batches \union {None}, body : Bodies]
      BY <1>2
    <2>2. [of |-> of, body |-> sent].of = of /\ [of |-> of, body |-> sent].body = sent
      OBVIOUS
    <2>3. QED
      BY <2>1, <2>2
  <1>5. /\ fetch \in [Fetches -> [of : Batches \union {None}, body : Bodies]]
        /\ state \in [Fetches -> {"none", "sent", "answered", "failed"}]
    BY DEF PageTypeOK
  <1>6. /\ fetch' \in [Fetches -> [of : Batches \union {None}, body : Bodies]]
        /\ fetch'[f] = e /\ \A g \in Fetches \ {f} : fetch'[g] = fetch[g]
    BY <1>3, <1>4, <1>5
  <1>7. /\ state' \in [Fetches -> {"none", "sent", "answered", "failed"}]
        /\ state'[f] = "sent" /\ \A g \in Fetches \ {f} : state'[g] = state[g]
    BY <1>3, <1>5
  <1>8. QED
    BY <1>2, <1>3, <1>4, <1>6, <1>7

\* The body of the page's own request, and that of an auto-continue of b.
LEMMA BodyFacts ==
    ASSUME PageTypeOK
    PROVE  /\ \A chat \in BOOLEAN :
                 /\ [chat |-> chat, results |-> <<>>] \in Bodies
                 /\ [chat |-> chat, results |-> <<>>].chat = chat
                 /\ [chat |-> chat, results |-> <<>>].results = <<>>
           /\ \A b \in Batches : Resubmit(b) =>
                 /\ Appended(last, <<b>>) \in Bodies
                 /\ Appended(last, <<b>>).chat
                 /\ Appended(last, <<b>>).results = last.results \o <<b>>
  <1>1. ASSUME NEW chat \in BOOLEAN
        PROVE  /\ [chat |-> chat, results |-> <<>>] \in Bodies
               /\ [chat |-> chat, results |-> <<>>].chat = chat
               /\ [chat |-> chat, results |-> <<>>].results = <<>>
    <2>1. <<>> \in Seq(Batches)
      BY EmptyType
    <2>2. [chat |-> chat, results |-> <<>>] \in Bodies
      BY <2>1 DEF Bodies
    <2>3. QED
      BY <2>2
  <1>2. ASSUME NEW b \in Batches, Resubmit(b)
        PROVE  /\ Appended(last, <<b>>) \in Bodies
               /\ Appended(last, <<b>>).chat
               /\ Appended(last, <<b>>).results = last.results \o <<b>>
    <2>1. last \in Bodies /\ last.chat
      BY <1>2 DEF Resubmit, PageTypeOK
    <2>2. <<b>> \in Seq(Batches)
      OBVIOUS
    <2>3. /\ Appended(last, <<b>>) \in Bodies
          /\ Appended(last, <<b>>).chat = last.chat
          /\ Appended(last, <<b>>).results = last.results \o <<b>>
      BY <2>1, <2>2, AppendedFacts
    <2>4. QED
      BY <2>1, <2>3
  <1>3. QED
    BY <1>1, <1>2

\* A batch that begins to wait, in the queue or parked.
LEMMA StoreFacts ==
    ASSUME PageTypeOK, NEW b \in Batches, StorePending(b)
    PROVE  /\ pending' \in Seq(Batches \ Foreign) /\ parked' \subseteq Foreign
           /\ parked \subseteq parked' /\ (b \in Foreign => b \in parked')
           /\ \A x \in Batches :
                 /\ Has(pending', x) => Has(pending, x) \/ x = b
                 /\ Has(pending, x) => Has(pending', x)
                 /\ b \notin Foreign => Has(pending', b)
                 /\ Once(pending, x) /\ (x = b => ~ Has(pending, x)) => Once(pending', x)
  <1>1. CASE b \in Foreign
    BY <1>1 DEF StorePending, PageTypeOK
  <1>2. CASE b \notin Foreign
    <2>1. pending \in Seq(Batches \ Foreign) /\ b \in Batches \ Foreign
      BY <1>2 DEF PageTypeOK
    <2>2. pending' = Append(pending, b) /\ parked' = parked
      BY <1>2 DEF StorePending
    <2>3. \A x \in Batches :
            /\ pending' \in Seq(Batches \ Foreign)
            /\ Has(pending', x) <=> Has(pending, x) \/ x = b
            /\ Once(pending, x) /\ (x = b => ~ Has(pending, x)) => Once(pending', x)
      BY <2>1, <2>2, HasAppended
    <2>4. QED
      BY <1>2, <2>2, <2>3 DEF PageTypeOK
  <1>3. QED
    BY <1>1, <1>2

LEMMA PageTypeInit == PageInit => PageTypeOK
  <1> SUFFICES ASSUME PageInit PROVE PageTypeOK
    OBVIOUS
  <1>1. NoBody \in Bodies
    BY EmptyType DEF NoBody, Bodies
  <1>2. fetch \in [Fetches -> [of : Batches \union {None}, body : Bodies]]
    BY <1>1 DEF PageInit
  <1>3. inflight \in BOOLEAN
    BY Zenon DEF PageInit
  <1>4. pending \in Seq(Batches \ Foreign)
    BY EmptyType DEF PageInit
  <1>5. QED
    BY <1>2, <1>3, <1>4 DEF PageInit, PageTypeOK

LEMMA PageTypeStep == PageTypeOK /\ [PageNext]_pageVars => PageTypeOK'
  <1> SUFFICES ASSUME PageTypeOK, [PageNext]_pageVars PROVE PageTypeOK'
    OBVIOUS
  <1>e. <<>> \in Seq(Batches \ Foreign)
    BY EmptyType
  <1>1. ASSUME NEW f \in Fetches, NEW chat \in BOOLEAN, PageFetch(f, chat)
        PROVE  PageTypeOK'
    <2>1. SendRequest(f, None, [chat |-> chat, results |-> <<>>])
      BY <1>1 DEF PageFetch
    <2>2. [chat |-> chat, results |-> <<>>] \in Bodies
      BY BodyFacts
    <2>3. /\ last' \in Bodies
          /\ fetch' \in [Fetches -> [of : Batches \union {None}, body : Bodies]]
          /\ state' \in [Fetches -> {"none", "sent", "answered", "failed"}]
      BY <2>1, <2>2, SendFacts
    <2>4. QED
      BY <1>1, <1>e, <2>3 DEF PageFetch, CountRequest, PageTypeOK
  <1>2. ASSUME NEW b \in Batches, NEW ok \in BOOLEAN, Scheduled(b, ok)
        PROVE  PageTypeOK'
    BY <1>2 DEF Scheduled, PageTypeOK
  <1>3. ASSUME NEW b \in Batches, Queue(b) PROVE PageTypeOK'
    <2>1. pending' \in Seq(Batches \ Foreign) /\ parked' \subseteq Foreign
      BY <1>3, StoreFacts DEF Queue
    <2>2. QED
      BY <1>3, <2>1 DEF Queue, PageTypeOK
  <1>4. ASSUME NEW b \in Batches, NEW f \in Fetches, AutoContinue(f, b)
        PROVE  PageTypeOK'
    <2>1. SendRequest(f, b, Appended(last, <<b>>)) /\ Resubmit(b)
      BY <1>4 DEF AutoContinue
    <2>2. Appended(last, <<b>>) \in Bodies
      BY <2>1, BodyFacts
    <2>3. /\ last' \in Bodies
          /\ fetch' \in [Fetches -> [of : Batches \union {None}, body : Bodies]]
          /\ state' \in [Fetches -> {"none", "sent", "answered", "failed"}]
      BY <2>1, <2>2, SendFacts
    <2>4. QED
      BY <1>4, <1>e, <2>3 DEF AutoContinue, PageTypeOK
  <1>5. ASSUME NEW f \in Fetches, Respond(f) PROVE PageTypeOK'
    BY <1>5 DEF Respond, PageTypeOK
  <1>6. ASSUME NEW f \in Fetches, Fail(f) PROVE PageTypeOK'
    <2>1. state' \in [Fetches -> {"none", "sent", "answered", "failed"}]
      BY <1>6 DEF Fail, PageTypeOK
    <2>2. CASE fetch[f].of # None
      <3>1. fetch[f].of \in Batches
        BY <2>2 DEF PageTypeOK
      <3>2. pending' \in Seq(Batches \ Foreign) /\ parked' \subseteq Foreign
        BY <1>6, <2>2, <3>1, StoreFacts DEF Fail
      <3>3. QED
        BY <1>6, <2>1, <2>2, <3>2 DEF Fail, PageTypeOK
    <2>3. CASE fetch[f].of = None
      BY <1>6, <2>1, <2>3 DEF Fail, PageTypeOK
    <2>4. QED
      BY <2>2, <2>3
  <1>7. CASE UNCHANGED pageVars
    BY <1>7 DEF pageVars, PageTypeOK
  <1>8. QED
    BY <1>1, <1>2, <1>3, <1>4, <1>5, <1>6, <1>7 DEF PageNext
-----------------------------------------------------------------------------
(* No request carries a batch twice, unless an auto-continue of it failed. *)

InLast(b)     == last # None /\ Has(last.results, b)
OnceInLast(b) == last # None => Once(last.results, b)
Failed(b)     == \E g \in Fetches : fetch[g].of = b /\ state[g] = "failed"

\* A batch whose message did not come yet is nowhere,
Unseen ==
    \A b \in Batches : batch[b] = "none" =>
      /\ timer # b /\ ~ Has(pending, b) /\ ~ InLast(b)
      /\ \A g \in Fetches : fetch[g].of # b

\* and one that came is in one place: it waits for its timer, or in the queue,
\* or it is in the last request, which the next auto-continue repeats.
OnePlace ==
    \A b \in Batches : ~ Failed(b) =>
      /\ timer = b => ~ Has(pending, b) /\ ~ InLast(b)
      /\ Has(pending, b) => ~ InLast(b)
      /\ Once(pending, b) /\ OnceInLast(b)

Carried == \A f \in Fetches, b \in Batches : Once(fetch[f].body.results, b) \/ Failed(b)

OnceInv == PageTypeOK /\ Unseen /\ OnePlace /\ Carried

LEMMA OnceInit == PageInit => OnceInv
  <1> SUFFICES ASSUME PageInit PROVE OnceInv
    OBVIOUS
  <1>1. PageTypeOK
    BY PageTypeInit
  <1>2. \A f \in Fetches : fetch[f].of = None /\ fetch[f].body.results = <<>>
    BY DEF PageInit, NoBody
  <1>3. last = None /\ pending = <<>> /\ timer = None
    BY DEF PageInit
  <1>4. Unseen
    BY <1>2, <1>3, HasNone, NoneIsNoBatch DEF Unseen, InLast
  <1>5. OnePlace
    BY <1>3, HasNone DEF OnePlace, InLast, OnceInLast
  <1>6. Carried
    BY <1>2, HasNone DEF Carried
  <1>7. QED
    BY <1>1, <1>4, <1>5, <1>6 DEF OnceInv

\* A request goes out that carries each batch once, or one of a failed
\* auto-continue: nothing fails, and nothing waits any more.
LEMMA SendOnce ==
    ASSUME OnceInv, PageTypeOK',
           NEW f \in Fetches, NEW of \in Batches \union {None}, NEW body \in Bodies,
           SendRequest(f, of, body),
           pending' = <<>>, batch' = batch,
           timer' \in {timer, None}, of # None => batch[of] # "none" /\ timer' = None,
           \A b \in Batches : ~ Failed(b) => Once(body.results, b),
           \A b \in Batches : ~ Failed(b) => ~ (Has(body.results, b) /\ Has(pending, b)),
           \A b \in Batches : ~ Failed(b) /\ timer' = b => ~ Has(body.results, b),
           \A b \in Batches : batch[b] = "none" => ~ Has(body.results, b)
    PROVE  OnceInv'
  <1>t. PageTypeOK /\ Unseen /\ OnePlace /\ Carried
    BY DEF OnceInv
  <1>s. /\ last' \in Bodies
        /\ last'.results = IF body.chat THEN body.results \o pending ELSE body.results
        /\ fetch'[f].of = of /\ fetch'[f].body = last'
        /\ state[f] = "none" /\ state'[f] = "sent"
        /\ \A g \in Fetches \ {f} : fetch'[g] = fetch[g] /\ state'[g] = state[g]
    BY <1>t, SendFacts
  <1>1. \A b \in Batches : Failed(b)' <=> Failed(b)
    BY <1>s DEF Failed
  <1>q. body.results \in Seq(Batches) /\ pending \in Seq(Batches)
    BY <1>t, PendingType DEF Bodies
  <1>2. ASSUME NEW b \in Batches, ~ Failed(b)
        PROVE  /\ Once(last'.results, b)
               /\ Has(last'.results, b) => Has(body.results, b) \/ Has(pending, b)
    <2>1. Once(pending, b)
      BY <1>t, <1>2 DEF OnePlace
    <2>2. QED
      BY <1>2, <1>q, <1>s, <2>1, HasConcat
  <1>3. ASSUME NEW b \in Batches
        PROVE  Has(last'.results, b) => Has(body.results, b) \/ Has(pending, b)
    BY <1>q, <1>s, HasConcat
  <1>4. Unseen'
    <2>1. ASSUME NEW b \in Batches, batch'[b] = "none"
          PROVE  /\ timer' # b /\ ~ Has(pending', b) /\ ~ InLast(b)'
                 /\ \A g \in Fetches : fetch'[g].of # b
      <3>1. batch[b] = "none" /\ of # b
        BY <2>1, NoneIsNoBatch
      <3>2. /\ timer # b /\ ~ Has(pending, b)
            /\ \A g \in Fetches : fetch[g].of # b
        BY <1>t, <3>1 DEF Unseen
      <3>3. ~ Has(last'.results, b)
        BY <1>3, <3>1, <3>2
      <3>4. \A g \in Fetches : fetch'[g].of # b
        BY <1>s, <3>1, <3>2
      <3>5. QED
        BY <3>2, <3>3, <3>4, HasNone, NoneIsNoBatch DEF InLast
    <2>2. QED
      BY <2>1 DEF Unseen
  <1>5. OnePlace'
    <2>1. ASSUME NEW b \in Batches, ~ Failed(b)'
          PROVE  /\ timer' = b => ~ Has(pending', b) /\ ~ InLast(b)'
                 /\ Has(pending', b) => ~ InLast(b)'
                 /\ Once(pending', b) /\ OnceInLast(b)'
      <3>1. ~ Failed(b)
        BY <1>1, <2>1
      <3>2. timer' = b => ~ Has(last'.results, b)
        <4>1. ASSUME timer' = b PROVE ~ Has(pending, b) /\ ~ Has(body.results, b)
          BY <1>t, <3>1, <4>1, NoneIsNoBatch DEF OnePlace
        <4>2. QED
          BY <1>3, <4>1
      <3>3. Once(last'.results, b)
        BY <1>2, <3>1
      <3>4. QED
        BY <3>2, <3>3, HasNone DEF InLast, OnceInLast
    <2>2. QED
      BY <2>1 DEF OnePlace
  <1>6. Carried'
    <2>1. ASSUME NEW g \in Fetches, NEW b \in Batches
          PROVE  Once(fetch'[g].body.results, b) \/ Failed(b)'
      <3>1. CASE g = f
        BY <1>1, <1>2, <1>s, <3>1
      <3>2. CASE g # f
        BY <1>1, <1>s, <1>t, <3>2 DEF Carried
      <3>3. QED
        BY <3>1, <3>2
    <2>2. QED
      BY <2>1 DEF Carried
  <1>7. QED
    BY <1>4, <1>5, <1>6 DEF OnceInv

\* A batch begins to wait which is in no other place, or whose auto-continue
\* failed.
LEMMA StoreOnce ==
    ASSUME OnceInv, PageTypeOK', NEW b \in Batches, StorePending(b),
           batch' = batch, batch[b] # "none", last' = last, fetch' = fetch,
           timer' \in {timer, None}, timer' # b \/ Failed(b)',
           \A x \in Batches : Failed(x) => Failed(x)',
           \/ Failed(b)'
           \/ ~ Has(pending, b) /\ ~ InLast(b)
    PROVE  OnceInv'
  <1>t. PageTypeOK /\ Unseen /\ OnePlace /\ Carried
    BY DEF OnceInv
  <1>1. \A x \in Batches :
           /\ Has(pending', x) => Has(pending, x) \/ x = b
           /\ Once(pending, x) /\ (x = b => ~ Has(pending, x)) => Once(pending', x)
    BY <1>t, StoreFacts
  <1>2. \A x \in Batches : /\ InLast(x)' <=> InLast(x)
                           /\ OnceInLast(x)' <=> OnceInLast(x)
    BY DEF InLast, OnceInLast
  <1>3. Unseen'
    BY <1>1, <1>2, <1>t, NoneIsNoBatch DEF Unseen
  <1>4. OnePlace'
    <2>1. ASSUME NEW x \in Batches, ~ Failed(x)'
          PROVE  /\ timer' = x => ~ Has(pending', x) /\ ~ InLast(x)'
                 /\ Has(pending', x) => ~ InLast(x)'
                 /\ Once(pending', x) /\ OnceInLast(x)'
      <3>1. /\ timer = x => ~ Has(pending, x) /\ ~ InLast(x)
            /\ Has(pending, x) => ~ InLast(x)
            /\ Once(pending, x) /\ OnceInLast(x)
        BY <1>t, <2>1 DEF OnePlace
      <3>2. QED
        BY <1>1, <1>2, <2>1, <3>1, NoneIsNoBatch
    <2>2. QED
      BY <2>1 DEF OnePlace
  <1>5. Carried'
    BY <1>t DEF Carried
  <1>6. QED
    BY <1>3, <1>4, <1>5 DEF OnceInv

LEMMA OnceStep == OnceInv /\ [PageNext]_pageVars => OnceInv'
  <1> SUFFICES ASSUME OnceInv, [PageNext]_pageVars PROVE OnceInv'
    OBVIOUS
  <1>t. PageTypeOK /\ Unseen /\ OnePlace /\ Carried
    BY DEF OnceInv
  <1>p. PageTypeOK'
    BY <1>t, PageTypeStep
  <1>1. ASSUME NEW f \in Fetches, NEW chat \in BOOLEAN, PageFetch(f, chat)
        PROVE  OnceInv'
    <2>1. PICK body \in Bodies :
            body.results = <<>> /\ SendRequest(f, None, body)
      BY <1>1, <1>t, BodyFacts DEF PageFetch
    <2>2. \A b \in Batches : Once(body.results, b) /\ ~ Has(body.results, b)
      BY <2>1, HasNone
    <2>3. pending' = <<>> /\ batch' = batch /\ timer' = timer
      BY <1>1 DEF PageFetch
    <2>4. QED
      BY <1>p, <2>1, <2>2, <2>3, SendOnce
  <1>2. ASSUME NEW b \in Batches, NEW ok \in BOOLEAN, Scheduled(b, ok)
        PROVE  OnceInv'
    <2>1. /\ batch[b] = "none" /\ timer' = b
          /\ UNCHANGED <<pending, last, fetch, state>>
          /\ \A x \in Batches \ {b} : batch'[x] = batch[x]
          /\ batch'[b] # "none"
      BY <1>2, <1>t DEF Scheduled, PageTypeOK
    <2>2. \A x \in Batches : /\ InLast(x)' <=> InLast(x)
                             /\ OnceInLast(x)' <=> OnceInLast(x)
                             /\ Failed(x)' <=> Failed(x)
      BY <2>1 DEF InLast, OnceInLast, Failed
    <2>3. Unseen'
      BY <1>t, <2>1, <2>2 DEF Unseen
    <2>4. OnePlace'
      <3>1. ~ Has(pending, b) /\ ~ InLast(b)
        BY <1>t, <2>1 DEF Unseen
      <3>2. QED
        BY <1>t, <2>1, <2>2, <3>1 DEF OnePlace
    <2>5. Carried'
      BY <1>t, <2>1, <2>2 DEF Carried
    <2>6. QED
      BY <1>p, <2>3, <2>4, <2>5 DEF OnceInv
  <1>3. ASSUME NEW b \in Batches, Queue(b) PROVE OnceInv'
    <2>1. /\ timer = b /\ timer' = None /\ StorePending(b)
          /\ UNCHANGED <<last, fetch, state, batch>>
      BY <1>3 DEF Queue
    <2>2. batch[b] # "none"
      BY <1>t, <2>1 DEF Unseen
    <2>3. \A x \in Batches : Failed(x)' <=> Failed(x)
      BY <2>1 DEF Failed
    <2>4. Failed(b)' \/ (~ Has(pending, b) /\ ~ InLast(b))
      BY <1>t, <2>1, <2>3 DEF OnePlace
    <2>5. QED
      BY <1>p, <2>1, <2>2, <2>3, <2>4, NoneIsNoBatch, StoreOnce
  <1>4. ASSUME NEW b \in Batches, NEW f \in Fetches, AutoContinue(f, b)
        PROVE  OnceInv'
    <2>1. PICK body : body = Appended(last, <<b>>)
      OBVIOUS
    <2>2. /\ timer = b /\ timer' = None /\ Resubmit(b)
          /\ SendRequest(f, b, body)
          /\ pending' = <<>> /\ batch' = batch
      BY <1>4, <2>1 DEF AutoContinue
    <2>3. body \in Bodies /\ body.results = last.results \o <<b>>
      BY <1>t, <2>1, <2>2, BodyFacts
    <2>4. last # None /\ last \in Bodies /\ batch[b] = "ok"
      BY <1>t, <2>2 DEF Resubmit, PageTypeOK
    <2>5. last.results \in Seq(Batches)
      BY <2>4 DEF Bodies
    <2>6. ASSUME NEW x \in Batches
          PROVE  /\ Has(body.results, x) <=> Has(last.results, x) \/ x = b
                 /\ Once(last.results, x) /\ (x = b => ~ Has(last.results, x))
                       => Once(body.results, x)
      <3>1. <<b>> \in Seq(Batches) /\ Once(<<b>>, x) /\ (Has(<<b>>, x) <=> x = b)
        BY HasOne
      <3>2. /\ Has(last.results \o <<b>>, x) <=> Has(last.results, x) \/ Has(<<b>>, x)
            /\ Once(last.results, x) /\ Once(<<b>>, x)
                 /\ ~ (Has(last.results, x) /\ Has(<<b>>, x))
                 => Once(last.results \o <<b>>, x)
        BY <2>5, <3>1, HasConcat
      <3>3. QED
        BY <2>3, <3>1, <3>2
    <2>7. ASSUME NEW x \in Batches, ~ Failed(x)
          PROVE  /\ Once(body.results, x)
                 /\ ~ (Has(body.results, x) /\ Has(pending, x))
      <3>1. /\ timer = x => ~ Has(pending, x) /\ ~ Has(last.results, x)
            /\ Has(pending, x) => ~ Has(last.results, x)
            /\ Once(last.results, x)
        BY <1>t, <2>4, <2>7 DEF OnePlace, InLast, OnceInLast
      <3>2. QED
        BY <2>2, <2>6, <3>1
    <2>8. \A x \in Batches : batch[x] = "none" => ~ Has(body.results, x)
      BY <1>t, <2>4, <2>6 DEF Unseen, InLast
    <2>9. \A x \in Batches : timer' # x
      BY <2>2, NoneIsNoBatch
    <2>10. QED
      BY <1>p, <2>2, <2>3, <2>4, <2>7, <2>8, <2>9, NoneIsNoBatch, SendOnce
  <1>5. ASSUME NEW f \in Fetches, Respond(f) PROVE OnceInv'
    <2>1. /\ state[f] = "sent" /\ state' = [state EXCEPT ![f] = "answered"]
          /\ UNCHANGED <<timer, pending, last, fetch, batch>>
      BY <1>5 DEF Respond
    <2>2. \A x \in Batches : /\ InLast(x)' <=> InLast(x)
                             /\ OnceInLast(x)' <=> OnceInLast(x)
                             /\ Failed(x)' <=> Failed(x)
      BY <1>t, <2>1 DEF InLast, OnceInLast, Failed, PageTypeOK
    <2>3. Unseen' /\ OnePlace' /\ Carried'
      BY <1>t, <2>1, <2>2 DEF Unseen, OnePlace, Carried
    <2>4. QED
      BY <1>p, <2>3 DEF OnceInv
  <1>6. ASSUME NEW f \in Fetches, Fail(f) PROVE OnceInv'
    <2>1. /\ state[f] = "sent" /\ state' = [state EXCEPT ![f] = "failed"]
          /\ UNCHANGED <<timer, last, fetch, batch>>
      BY <1>6 DEF Fail
    <2>2. /\ \A x \in Batches : Failed(x) => Failed(x)'
          /\ \A x \in Batches : fetch[f].of = x => Failed(x)'
          /\ \A x \in Batches : fetch[f].of # x => (Failed(x)' <=> Failed(x))
      BY <1>t, <2>1 DEF Failed, PageTypeOK
    <2>3. CASE fetch[f].of # None
      <3>1. PICK b \in Batches : fetch[f].of = b
        BY <1>t, <2>3 DEF PageTypeOK
      <3>2. StorePending(b) /\ Failed(b)'
        BY <1>6, <2>2, <2>3, <3>1 DEF Fail
      <3>3. batch[b] # "none"
        BY <1>t, <3>1 DEF Unseen
      <3>4. QED
        BY <1>p, <2>1, <2>2, <3>2, <3>3, StoreOnce
    <2>4. CASE fetch[f].of = None
      <3>1. pending' = pending
        BY <1>6, <2>4 DEF Fail
      <3>2. \A x \in Batches : /\ InLast(x)' <=> InLast(x)
                               /\ OnceInLast(x)' <=> OnceInLast(x)
                               /\ Failed(x)' <=> Failed(x)
        BY <2>1, <2>2, <2>4, NoneIsNoBatch DEF InLast, OnceInLast
      <3>3. Unseen' /\ OnePlace' /\ Carried'
        BY <1>t, <2>1, <3>1, <3>2 DEF Unseen, OnePlace, Carried
      <3>4. QED
        BY <1>p, <3>3 DEF OnceInv
    <2>5. QED
      BY <2>3, <2>4
  <1>7. CASE UNCHANGED pageVars
    <2>1. UNCHANGED <<timer, pending, last, fetch, state, batch>>
      BY <1>7 DEF pageVars
    <2>2. \A x \in Batches : /\ InLast(x)' <=> InLast(x)
                             /\ OnceInLast(x)' <=> OnceInLast(x)
                             /\ Failed(x)' <=> Failed(x)
      BY <2>1 DEF InLast, OnceInLast, Failed
    <2>3. Unseen' /\ OnePlace' /\ Carried'
      BY <1>t, <2>1, <2>2 DEF Unseen, OnePlace, Carried
    <2>4. QED
      BY <1>p, <2>3 DEF OnceInv
  <1>8. QED
    BY <1>1, <1>2, <1>3, <1>4, <1>5, <1>6, <1>7 DEF PageNext

\* No request of the page carries the results of a batch twice, unless an
\* auto-continue with it failed: that one stays the last request while its
\* batch waits again (fetch-patch.ts:105, :124, :494).
THEOREM ResultsAreSentOnce == PageSpec => []SentOnce
  <1>1. ASSUME OnceInv PROVE SentOnce
    <2>1. ASSUME NEW f \in Fetches,
                 NEW i \in 1..Len(fetch[f].body.results),
                 NEW j \in 1..Len(fetch[f].body.results),
                 i # j, fetch[f].body.results[i] = fetch[f].body.results[j]
          PROVE  \E g \in Fetches : /\ fetch[g].of = fetch[f].body.results[i]
                                    /\ state[g] = "failed"
      <3>1. fetch[f].body.results \in Seq(Batches)
        BY <1>1 DEF OnceInv, PageTypeOK, Bodies
      <3>2. PICK b \in Batches : b = fetch[f].body.results[i]
        BY <3>1
      <3>3. Failed(b)
        BY <1>1, <2>1, <3>2 DEF OnceInv, Carried, Once
      <3>4. QED
        BY <3>2, <3>3 DEF Failed
    <2>2. QED
      BY <2>1 DEF SentOnce
  <1>2. QED
    BY OnceInit, OnceStep, <1>1, PTL DEF PageSpec

-----------------------------------------------------------------------------
(* How results that arrived can be lost.                                   *)

LEMMA RangeHas ==
    ASSUME NEW S, NEW q \in Seq(S), NEW b PROVE b \in Range(q) <=> Has(q, b)
  BY DEF Range, Has

\* Where a living batch is.
LEMMA AliveSomewhere ==
    ASSUME PageTypeOK, NEW b \in Batches, Alive(b)
    PROVE  \/ timer = b \/ Has(pending, b) \/ b \in parked
           \/ \E f \in Fetches : /\ state[f] \in {"sent", "answered"}
                                 /\ Has(fetch[f].body.results, b)
  <1>1. \A f \in Fetches : b \in Range(fetch[f].body.results) <=>
                              Has(fetch[f].body.results, b)
    BY RangeHas DEF PageTypeOK, Bodies
  <1>2. b \in Range(pending) <=> Has(pending, b)
    BY PendingType, RangeHas
  <1>3. QED
    BY <1>1, <1>2 DEF Alive

LEMMA StaysAlive ==
    ASSUME PageTypeOK', NEW b \in Batches,
           \/ timer' = b \/ Has(pending', b) \/ b \in parked'
           \/ \E f \in Fetches : /\ state'[f] \in {"sent", "answered"}
                                 /\ Has(fetch'[f].body.results, b)
    PROVE  Alive(b)'
  <1>1. \A f \in Fetches : Has(fetch'[f].body.results, b) =>
                              b \in Range(fetch'[f].body.results)
    BY RangeHas DEF PageTypeOK, Bodies
  <1>2. pending' \in Seq(Batches \ Foreign)
    BY DEF PageTypeOK
  <1>3. Has(pending', b) => b \in Range(pending')
    BY <1>2, RangeHas
  <1>4. QED
    BY <1>1, <1>3 DEF Alive

LEMMA LossStep ==
    ASSUME PageTypeOK, PageNext, NEW b \in Batches, Alive(b), ~ Alive(b)'
    PROVE  KnownLoss(b)
  <1>p. PageTypeOK'
    BY PageTypeStep
  <1>a. \/ timer = b \/ Has(pending, b) \/ b \in parked
        \/ \E f \in Fetches : /\ state[f] \in {"sent", "answered"}
                              /\ Has(fetch[f].body.results, b)
    BY AliveSomewhere
  <1>n. /\ timer' # b /\ ~ Has(pending', b) /\ b \notin parked'
        /\ \A f \in Fetches : state'[f] \in {"sent", "answered"} =>
                                 ~ Has(fetch'[f].body.results, b)
    BY <1>p, StaysAlive
  <1>1. ASSUME NEW f \in Fetches, NEW chat \in BOOLEAN, PageFetch(f, chat)
        PROVE  KnownLoss(b)
    <2>1. PICK body \in Bodies : /\ body.chat = chat /\ body.results = <<>>
                                 /\ SendRequest(f, None, body)
      BY <1>1, BodyFacts DEF PageFetch
    <2>2. /\ fetch'[f].body.chat = chat
          /\ chat => fetch'[f].body.results = body.results \o pending
          /\ state[f] = "none" /\ state'[f] = "sent"
          /\ \A g \in Fetches \ {f} : fetch'[g] = fetch[g] /\ state'[g] = state[g]
      BY <2>1, SendFacts
    <2>3. timer' = timer /\ parked' = parked
      BY <1>1 DEF PageFetch
    <2>4. Has(pending, b)
      BY <1>a, <1>n, <2>2, <2>3
    <2>5. chat => Has(fetch'[f].body.results, b)
      BY <2>1, <2>2, <2>4, PendingType, EmptyType, HasConcat
    <2>6. b \in Range(pending) /\ ~ fetch'[f].body.chat
      BY <1>n, <2>2, <2>4, <2>5, PendingType, RangeHas
    <2>7. QED
      BY <2>2, <2>6 DEF KnownLoss
  <1>2. ASSUME NEW c \in Batches, NEW ok \in BOOLEAN, Scheduled(c, ok)
        PROVE  KnownLoss(b)
    <2>1. timer' = c /\ UNCHANGED <<pending, parked, fetch, state>>
      BY <1>2 DEF Scheduled
    <2>2. timer = b
      BY <1>a, <1>n, <2>1
    <2>3. QED
      BY <1>n, <2>1, <2>2, NoneIsNoBatch DEF KnownLoss
  <1>3. ASSUME NEW c \in Batches, Queue(c) PROVE KnownLoss(b)
    <2>1. timer = c /\ StorePending(c) /\ UNCHANGED <<fetch, state>>
      BY <1>3 DEF Queue
    <2>2. /\ parked \subseteq parked'
          /\ Has(pending, b) => Has(pending', b)
          /\ c \in Foreign => c \in parked'
          /\ c \notin Foreign => Has(pending', c)
      BY <2>1, StoreFacts
    <2>3. QED
      BY <1>a, <1>n, <2>1, <2>2
  <1>4. ASSUME NEW c \in Batches, NEW f \in Fetches, AutoContinue(f, c)
        PROVE  KnownLoss(b)
    <2>1. PICK body : body = Appended(last, <<c>>)
      OBVIOUS
    <2>2. /\ timer = c /\ Resubmit(c) /\ SendRequest(f, c, body)
          /\ parked' = parked
      BY <1>4, <2>1 DEF AutoContinue
    <2>3. body \in Bodies /\ body.chat /\ body.results = last.results \o <<c>>
      BY <2>1, <2>2, BodyFacts
    <2>4. last.results \in Seq(Batches) /\ body.results \in Seq(Batches)
      BY <2>2, <2>3 DEF Resubmit, PageTypeOK, Bodies
    <2>5. /\ fetch'[f].body.results = body.results \o pending
          /\ state[f] = "none" /\ state'[f] = "sent"
          /\ \A g \in Fetches \ {f} : fetch'[g] = fetch[g] /\ state'[g] = state[g]
      BY <2>2, <2>3, SendFacts
    <2>6. Has(pending, b) => Has(fetch'[f].body.results, b)
      BY <2>4, <2>5, PendingType, HasConcat
    <2>7. b = c => Has(fetch'[f].body.results, b)
      <3>1. <<c>> \in Seq(Batches) /\ (Has(<<c>>, b) <=> b = c)
        BY HasOne
      <3>2. Has(last.results \o <<c>>, b) <=> Has(last.results, b) \/ Has(<<c>>, b)
        BY <2>4, <3>1, HasConcat
      <3>3. b = c => Has(body.results, b)
        BY <2>3, <3>1, <3>2
      <3>4. Has(body.results, b) => Has(body.results \o pending, b)
        BY <2>4, PendingType, HasConcat
      <3>5. QED
        BY <2>5, <3>3, <3>4
    <2>8. QED
      BY <1>a, <1>n, <2>2, <2>5, <2>6, <2>7
  <1>5. ASSUME NEW f \in Fetches, Respond(f) PROVE KnownLoss(b)
    <2>1. /\ state[f] = "sent" /\ state'[f] = "answered"
          /\ \A g \in Fetches \ {f} : state'[g] = state[g]
          /\ UNCHANGED <<timer, pending, parked, fetch>>
      BY <1>5 DEF Respond, PageTypeOK
    <2>2. QED
      BY <1>a, <1>n, <2>1
  <1>6. ASSUME NEW f \in Fetches, Fail(f) PROVE KnownLoss(b)
    <2>1. /\ state[f] = "sent" /\ state'[f] = "failed"
          /\ \A g \in Fetches \ {f} : state'[g] = state[g]
          /\ UNCHANGED <<timer, fetch>>
      BY <1>6 DEF Fail, PageTypeOK
    <2>2. /\ Has(pending, b) => Has(pending', b)
          /\ parked \subseteq parked'
          /\ b = fetch[f].of => Has(pending', b) \/ b \in parked'
      <3>1. CASE fetch[f].of # None
        <4>1. PICK c \in Batches : fetch[f].of = c
          BY <3>1 DEF PageTypeOK
        <4>2. StorePending(c)
          BY <1>6, <3>1, <4>1 DEF Fail
        <4>3. QED
          BY <4>1, <4>2, StoreFacts
      <3>2. CASE fetch[f].of = None
        BY <1>6, <3>2, NoneIsNoBatch DEF Fail
      <3>3. QED
        BY <3>1, <3>2
    <2>3. Has(fetch[f].body.results, b)
      BY <1>a, <1>n, <2>1, <2>2
    <2>4. fetch[f].body.results \in Seq(Batches)
      BY DEF PageTypeOK, Bodies
    <2>5. b \in Range(fetch[f].body.results) /\ fetch[f].of # b
      BY <1>n, <2>2, <2>3, <2>4, RangeHas
    <2>6. QED
      BY <2>1, <2>5 DEF KnownLoss
  <1>7. QED
    BY <1>1, <1>2, <1>3, <1>4, <1>5, <1>6 DEF PageNext

\* Results that arrived are lost in three ways only: to a later batch's timer,
\* to a request that cannot carry them, or with the request that took them from
\* the queue; those of a failed auto-continue wait again (fetch-patch.ts:494,
\* :511, :118).
THEOREM OnlyKnownLosses == PageSpec => LossesAreKnown
  <1>1. PageTypeOK /\ [PageNext]_pageVars =>
          [\A b \in Batches : Alive(b) /\ ~ Alive(b)' => KnownLoss(b)]_pageVars
    BY LossStep
  <1>2. QED
    BY PageTypeInit, PageTypeStep, <1>1, PTL DEF PageSpec, LossesAreKnown
=============================================================================
