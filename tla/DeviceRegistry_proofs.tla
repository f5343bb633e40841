------------------------ MODULE DeviceRegistry_proofs ------------------------
(***************************************************************************)
(* Theorems about DeviceRegistry, for any devices, tokens, handlers and    *)
(* delays.                                                                 *)
(***************************************************************************)
EXTENDS DeviceRegistry, FiniteSetTheorems, TLAPS

Copy == Tokens \union {None}

Types ==
    /\ record \in [Devices -> Copy]
    /\ last \in [Devices -> Copy]
    /\ handler \in [Handlers -> Working \union {Idle}]
    /\ clean \subseteq Devices

\* LastWriteStands alone is broken by an update that holds another copy.
IInv == Types /\ LastWriteStands /\ CopiesAgree

LEMMA InitIInv == Init => IInv
  BY DEF Init, IInv, Types, Copy, LastWriteStands, CopiesAgree, Copies, Idle,
         Statuses

\* An update copies the record as it is.
LEMMA UpdateStatusIInv ==
    ASSUME IInv, NEW h \in Handlers, NEW d \in Devices, NEW status \in Statuses,
           UpdateStatus(h, d, status),
           UNCHANGED <<record, last, clean>>
    PROVE  IInv'
  <1>1. CASE record[d] = None
    BY <1>1 DEF UpdateStatus, IInv, Types, LastWriteStands, CopiesAgree, Copies
  <1>2. CASE record[d] # None
    <2>1. handler' = [handler EXCEPT ![h] = [op |-> status, dev |-> d,
                                        at |-> "record", copy |-> record[d]]]
      BY <1>2 DEF UpdateStatus
    <2>2. Types'
      BY <2>1 DEF IInv, Types, Copy, Working
    <2>3. CopiesAgree'
      BY <2>1 DEF IInv, Types, LastWriteStands, CopiesAgree, Copies
    <2>4. QED
      BY <2>2, <2>3 DEF IInv, LastWriteStands
  <1>3. QED
    BY <1>1, <1>2

\* The end of an operation, in order or by an exception of KV.
LEMMA HandlerIInv ==
    ASSUME IInv, NEW h \in Handlers,
           PutRecord(h) \/ PutPresence(h) \/ KvFails(h)
    PROVE  IInv'
  <1> USE DEF IInv, Types, Copy, LastWriteStands, CopiesAgree, Copies, Statuses
  <1>1. CASE PutRecord(h)
    <2>1. handler[h] \in Working
      BY <1>1 DEF PutRecord, Idle
    <2>2. /\ handler[h].dev \in Devices /\ handler[h].copy \in Copy
          /\ handler[h].dev \in clean => handler[h].copy = last[handler[h].dev]
      BY <1>1, <2>1 DEF PutRecord, Working
    <2>3. handler' \in [Handlers -> Working \union {Idle}]
      BY <1>1, <2>1 DEF PutRecord, Working
    <2>4. QED
      BY <1>1, <2>2, <2>3 DEF PutRecord, pastVars
  <1>2. CASE PutPresence(h)
    BY <1>2 DEF PutPresence, Idle
  <1>3. CASE KvFails(h)
    BY <1>3 DEF KvFails, kvVars, Idle
  <1>4. QED
    BY <1>1, <1>2, <1>3

\* A registration or a removal counts as clean only if nobody holds a copy.
LEMMA AdministerIInv ==
    ASSUME IInv, NEW d \in Devices,
           \/ \E t \in Tokens : Register(d, t)
           \/ \E h \in Handlers : Remove(h, d)
    PROVE  IInv'
  <1> USE DEF IInv, Types, Copy, LastWriteStands, CopiesAgree, Copies, Statuses
  <1>1. ASSUME NEW t \in Tokens, Register(d, t) PROVE IInv'
    BY <1>1 DEF Register, Administer
  <1>2. ASSUME NEW h \in Handlers, Remove(h, d) PROVE IInv'
    <2>1. Types'
      BY <1>2 DEF Remove, Administer, Working
    <2>2. QED
      BY <1>2, <2>1 DEF Remove, Administer
  <1>3. QED
    BY <1>1, <1>2

LEMMA NextIInv == IInv /\ [Next]_vars => IInv'
  <1> SUFFICES ASSUME IInv, [Next]_vars PROVE IInv'
    OBVIOUS
  <1>1. ASSUME NEW h \in Handlers, NEW d \in Devices,
               \/ Authenticate(h, d) \/ Heartbeat(h, d) \/ Cleanup(h, d)
               \/ \E status \in Statuses : Patch(h, d, status)
        PROVE  IInv'
    <2>1. PICK status \in Statuses : UpdateStatus(h, d, status)
      BY <1>1 DEF Authenticate, Heartbeat, Cleanup, Patch, Statuses
    <2>2. UNCHANGED <<record, last, clean>>
      BY <1>1 DEF Authenticate, Heartbeat, Cleanup, Patch, kvVars
    <2>3. QED
      BY <2>1, <2>2, UpdateStatusIInv
  <1>2. CASE \/ \E asked \in Devices \union {None} : Resolve(asked)
             \/ AnswerAtEdge \/ Forward \/ Tick \/ UNCHANGED vars
    <2>1. UNCHANGED <<record, last, clean, handler>>
      BY <1>2 DEF Resolve, AnswerAtEdge, Forward, Tick, vars, kvVars, pastVars
    <2>2. QED
      BY <2>1 DEF IInv, Types, LastWriteStands, CopiesAgree, Copies
  <1>3. QED
    BY <1>1, <1>2, HandlerIInv, AdministerIInv DEF Next, HandlerStep

\* A registration or a removal that no status update overlapped is final, for
\* any number of devices and concurrent handlers (device-registry.ts:67).
THEOREM WritesStand == Spec => []LastWriteStands
  <1>1. IInv => LastWriteStands
    BY DEF IInv
  <1>2. QED
    BY InitIInv, NextIInv, <1>1, PTL DEF Spec

-----------------------------------------------------------------------------
(* The state has the shape TypeOK gives it.                                *)

LEMMA WorkingRecord ==
    ASSUME NEW op \in Statuses \union {"remove"}, NEW d \in Devices,
           NEW where \in {"record", "presence"}, NEW t \in Tokens \union {None}
    PROVE  [op |-> op, dev |-> d, at |-> where, copy |-> t] \in Working
  BY DEF Working

LEMMA UpdateStatusType ==
    ASSUME TypeOK, NEW h \in Handlers, NEW d \in Devices, NEW status \in Statuses,
           UpdateStatus(h, d, status)
    PROVE  /\ handler' \in [Handlers -> Working \union {Idle}]
           /\ calm' \subseteq Devices
  <1>1. [op |-> status, dev |-> d, at |-> "record", copy |-> record[d]] \in Working
    BY WorkingRecord DEF TypeOK
  <1>2. QED
    BY <1>1 DEF UpdateStatus, Disturbs, TypeOK

LEMMA TypeStep == ASSUME TypeOK, [Next]_vars PROVE TypeOK'
  <1> USE DEF TypeOK, kvVars, tunnelVars, pastVars, Event
  <1>1. ASSUME NEW h \in Handlers,
               PutRecord(h) \/ PutPresence(h) \/ KvFails(h)
        PROVE  TypeOK'
    <2>1. handler[h] \in Working
      BY <1>1 DEF PutRecord, PutPresence, KvFails, Idle
    <2>2. handler[h].dev \in Devices /\ handler[h].copy \in Tokens \union {None}
      BY <2>1 DEF Working
    <2>3. CASE PutRecord(h)
      <3>1. handler' \in [Handlers -> Working \union {Idle}]
        BY <2>1, <2>3 DEF PutRecord, Working
      <3>2. QED
        BY <2>2, <2>3, <3>1 DEF PutRecord
    <2>4. CASE PutPresence(h)
      <3>1. /\ presence' \in [Devices -> 0..Ttl]
            /\ calm' \subseteq Devices
        BY <2>2, <2>4, Delays DEF PutPresence
      <3>2. handler' \in [Handlers -> Working \union {Idle}]
        BY <2>4 DEF PutPresence
      <3>3. QED
        BY <2>4, <3>1, <3>2 DEF PutPresence
    <2>5. CASE KvFails(h)
      BY <2>5, BoundAssumption DEF KvFails
    <2>6. QED
      BY <1>1, <2>3, <2>4, <2>5
  <1>2. ASSUME NEW d \in Devices, NEW t \in Tokens, Register(d, t) PROVE TypeOK'
    <2>1. /\ record' \in [Devices -> Tokens \union {None}]
          /\ last' \in [Devices -> Tokens \union {None}] /\ clean' \subseteq Devices
      BY <1>2 DEF Register, Administer
    <2>2. events' \in 0..MaxEvents
      BY <1>2, BoundAssumption DEF Register
    <2>3. QED
      BY <1>2, <2>1, <2>2 DEF Register
  <1>3. ASSUME NEW h \in Handlers, NEW d \in Devices, Remove(h, d) PROVE TypeOK'
    <2>1. handler' \in [Handlers -> Working \union {Idle}]
      BY <1>3, WorkingRecord DEF Remove
    <2>2. /\ record' \in [Devices -> Tokens \union {None}]
          /\ last' \in [Devices -> Tokens \union {None}] /\ clean' \subseteq Devices
      BY <1>3 DEF Remove, Administer
    <2>3. events' \in 0..MaxEvents /\ calm' \subseteq Devices
      BY <1>3, BoundAssumption DEF Remove, Disturbs
    <2>4. QED
      BY <1>3, <2>1, <2>2, <2>3 DEF Remove
  <1>4. ASSUME NEW h \in Handlers, NEW d \in Devices,
               \/ Authenticate(h, d) \/ Heartbeat(h, d) \/ Cleanup(h, d)
               \/ \E status \in Statuses : Patch(h, d, status)
        PROVE  TypeOK'
    <2>1. PICK status \in Statuses : UpdateStatus(h, d, status)
      BY <1>4 DEF Authenticate, Heartbeat, Cleanup, Patch, Statuses
    <2>2. /\ handler' \in [Handlers -> Working \union {Idle}]
          /\ calm' \subseteq Devices
      BY <2>1, UpdateStatusType
    <2>3. /\ due' \in [Devices -> 0..Interval] /\ session' \subseteq Devices
          /\ events' \in 0..MaxEvents
      BY <1>4, Delays, BoundAssumption DEF Authenticate, Heartbeat, Cleanup, Patch
    <2>4. UNCHANGED <<kvVars, call, last, clean>>
      BY <1>4 DEF Authenticate, Heartbeat, Cleanup, Patch
    <2>5. QED
      BY <2>2, <2>3, <2>4
  <1>5. ASSUME NEW asked \in Devices \union {None}, Resolve(asked) PROVE TypeOK'
    <2>1. ResolveTarget(asked) \in Devices \union Failures
      BY DEF ResolveTarget, Online, Failures
    <2>2. QED
      BY <1>5, <2>1 DEF Resolve
  <1>6. CASE AnswerAtEdge \/ Forward
    BY <1>6 DEF AnswerAtEdge, Forward, Failures
  <1>7. CASE Tick
    BY <1>7, Delays DEF Tick
  <1>8. CASE UNCHANGED vars
    BY <1>8 DEF vars
  <1>9. QED
    BY <1>1, <1>2, <1>3, <1>4, <1>5, <1>6, <1>7, <1>8 DEF Next, HandlerStep

LEMMA TypeInit == Init => TypeOK
  BY Delays, BoundAssumption DEF Init, TypeOK

\* KV, handlers, sessions and calls stay what TypeOK says they are.
THEOREM TypeCorrect == Spec => []TypeOK
  BY TypeInit, TypeStep, PTL DEF Spec

-----------------------------------------------------------------------------
(* The presence of a device in use.                                        *)

LEMMA SteadyInit == Init => SteadyInv
  <1> SUFFICES ASSUME Init PROVE SteadyInv
    OBVIOUS
  <1>1. TypeOK
    BY TypeInit
  <1>2. Online = {} /\ IsFiniteSet({})
    BY FS_EmptySet DEF Init, Online
  <1>3. CopiesAreRecords
    BY NoneIsNoValue DEF Init, CopiesAreRecords, Copies, Idle
  <1>4. CalmIsUndisturbed /\ PresenceOutlives
    BY DEF Init, CalmIsUndisturbed, PresenceOutlives
  <1>5. QED
    BY <1>1, <1>2, <1>3, <1>4 DEF SteadyInv

\* A status update begins: of an offline one the device is calm no longer, of
\* an online one the renewal is under way.
LEMMA SteadyUpdate ==
    ASSUME SteadyInv, TypeOK', NEW h \in Handlers, NEW d \in Devices,
           NEW status \in Statuses, UpdateStatus(h, d, status),
           UNCHANGED kvVars,
           \A e \in Devices : \/ due'[e] = due[e]
                              \/ e = d /\ status = "online",
           \A e \in Devices : \/ e \in session' <=> e \in session
                              \/ e = d /\ status = "online" /\ e \in session'
                              \/ e = d /\ status = "offline"
    PROVE  SteadyInv'
  <1> USE DEF SteadyInv
  <1>1. IsFiniteSet(Online')
    BY DEF Online, kvVars
  <1>2. \/ record[d] = None /\ handler' = handler
        \/ /\ record[d] # None
           /\ handler' = [handler EXCEPT ![h] = [op |-> status, dev |-> d,
                                        at |-> "record", copy |-> record[d]]]
    BY DEF UpdateStatus
  <1>3. handler[h] = Idle /\ handler \in [Handlers -> Working \union {Idle}]
    BY DEF UpdateStatus, TypeOK
  <1>4. calm' = IF status = "online" THEN calm ELSE calm \ {d}
    BY DEF UpdateStatus, Disturbs
  <1>5. CopiesAreRecords'
    BY <1>2, <1>3 DEF CopiesAreRecords, Copies
  <1>6. \A e \in Devices : e # d => \A op : In(e, op)' = In(e, op)
    BY <1>2, <1>3, NoneIsNoValue DEF In, Idle
  <1>7. \A op : op # status => In(d, op)' = In(d, op)
    BY <1>2, <1>3, NoneIsNoValue DEF In, Idle
  <1>8. CalmIsUndisturbed'
    <2> SUFFICES ASSUME NEW e \in calm' PROVE Undisturbed(e)'
      BY DEF CalmIsUndisturbed
    <2>1. e \in calm /\ e \in Devices /\ Undisturbed(e)
      BY <1>4 DEF TypeOK, CalmIsUndisturbed
    <2>2. e \in session'
      BY <1>4, <2>1 DEF Undisturbed, Statuses
    <2>3. In(e, "offline")' = {} /\ In(e, "remove")' = {}
      BY <1>4, <1>6, <1>7, <2>1 DEF Undisturbed, Statuses
    <2>4. QED
      BY <2>1, <2>2, <2>3 DEF Undisturbed, kvVars
  <1>9. PresenceOutlives'
    <2> SUFFICES ASSUME NEW e \in calm'
                 PROVE  /\ presence'[e] > 0
                        /\ In(e, "online")' = {} => presence'[e] >= Ttl - due'[e]
      BY DEF PresenceOutlives
    <2>1. e \in calm /\ e \in Devices /\ presence'[e] = presence[e]
      BY <1>4 DEF TypeOK, kvVars
    <2>2. CASE e # d
      BY <2>1, <2>2, <1>6 DEF PresenceOutlives
    <2>3. CASE e = d
      <3>1. status = "online" /\ record[d] # None
        BY <1>4, <2>1, <2>3 DEF Statuses, CalmIsUndisturbed, Undisturbed
      <3>2. h \in In(d, "online")'
        BY <1>2, <1>3, <3>1 DEF In
      <3>3. QED
        BY <2>1, <2>3, <3>2 DEF PresenceOutlives
    <2>4. QED
      BY <2>2, <2>3
  <1>10. QED
    BY <1>1, <1>5, <1>8, <1>9

\* A handler at work on d goes on, or ends.
LEMMA SteadyHandler ==
    ASSUME SteadyInv, TypeOK', NEW h \in Handlers,
           PutRecord(h) \/ PutPresence(h) \/ KvFails(h)
    PROVE  SteadyInv'
  <1> USE DEF SteadyInv
  <1> DEFINE d == handler[h].dev
  <1>1. /\ handler[h] \in Working /\ d \in Devices
        /\ handler \in [Handlers -> Working \union {Idle}]
    BY DEF TypeOK, PutRecord, PutPresence, KvFails, Working, Idle
  <1>2. CASE PutRecord(h)
    <2>1. \A e, op : In(e, op)' = In(e, op)
      BY <1>1, <1>2 DEF In, PutRecord, Working
    <2>2. \A e : Copies(e)' \subseteq Copies(e)
      BY <1>1, <1>2 DEF Copies, PutRecord, Working
    <2>3. \A g \in Handlers : handler'[g].copy = handler[g].copy
      BY <1>1, <1>2 DEF PutRecord, Working
    <2>4. handler[h].copy # None
      BY <1>1, <1>2 DEF CopiesAreRecords, Copies, PutRecord
    <2>5. \A e \in Devices : record[e] # None => record'[e] # None
      BY <1>1, <1>2, <2>4 DEF PutRecord, TypeOK
    <2>6. UNCHANGED <<presence, calm, session, due>>
      BY <1>2 DEF PutRecord, tunnelVars, pastVars
    <2>7. CopiesAreRecords'
      BY <2>2, <2>3 DEF CopiesAreRecords, Copies
    <2>8. CalmIsUndisturbed' /\ PresenceOutlives' /\ IsFiniteSet(Online')
      BY <2>1, <2>5, <2>6
      DEF CalmIsUndisturbed, Undisturbed, PresenceOutlives, Online, TypeOK
    <2>9. QED
      BY <2>7, <2>8
  <1>3. CASE PutPresence(h) \/ KvFails(h)
    <2>1. /\ handler' = [handler EXCEPT ![h] = Idle]
          /\ UNCHANGED <<record, session, due>>
      BY <1>3 DEF PutPresence, KvFails, kvVars, tunnelVars
    <2>2. \A e \in Devices : \A op : In(e, op)' \subseteq In(e, op)
      BY <1>1, <2>1, NoneIsNoValue DEF In, Idle
    <2>3. \A e \in Devices : e # d => \A op : In(e, op)' = In(e, op)
      BY <1>1, <2>1, NoneIsNoValue DEF In, Idle
    <2>4. CopiesAreRecords'
      BY <1>1, <2>1, NoneIsNoValue DEF CopiesAreRecords, Copies, Idle
    <2>5. calm' \ {d} = calm \ {d}
      BY <1>3 DEF PutPresence, KvFails
    <2>6. d \in calm' => /\ PutPresence(h) /\ handler[h].op = "online"
                         /\ Undisturbed(d)
      BY <1>3 DEF PutPresence, KvFails
    <2>7. CalmIsUndisturbed'
      BY <2>1, <2>2, <2>5, <2>6 DEF CalmIsUndisturbed, Undisturbed, TypeOK
    <2>8. \A e \in Devices : e # d => presence'[e] = presence[e]
      BY <1>1, <1>3 DEF PutPresence, KvFails, kvVars, TypeOK
    <2>9. d \in calm' => presence'[d] = Ttl
      BY <1>1, <2>6 DEF PutPresence, TypeOK
    <2>10. PresenceOutlives'
      <3>1. due[d] \in Nat
        BY <1>1 DEF TypeOK
      <3>2. QED
        BY <2>1, <2>3, <2>5, <2>8, <2>9, <3>1, Delays DEF PresenceOutlives, TypeOK
    <2>11. IsFiniteSet(Online')
      <3>1. Online' \subseteq Online \union {d}
        BY <2>8 DEF Online
      <3>2. IsFiniteSet(Online \union {d})
        BY FS_AddElement
      <3>3. QED
        BY <3>1, <3>2, FS_Subset
    <2>12. QED
      BY <2>4, <2>7, <2>10, <2>11
  <1>4. QED
    BY <1>2, <1>3

LEMMA SteadyRegister ==
    ASSUME SteadyInv, TypeOK', NEW d \in Devices, NEW t \in Tokens, Register(d, t)
    PROVE  SteadyInv'
  <1> USE DEF SteadyInv
  <1>1. UNCHANGED <<presence, handler, session, due, calm>>
    BY DEF Register, tunnelVars
  <1>2. \A e \in Devices : record'[e] # None \/ record'[e] = record[e]
    BY NoneIsNoValue DEF Register, Administer, TypeOK
  <1>3. CopiesAreRecords' /\ PresenceOutlives' /\ IsFiniteSet(Online')
    BY <1>1 DEF CopiesAreRecords, Copies, PresenceOutlives, In, Online
  <1>4. CalmIsUndisturbed'
    BY <1>1, <1>2 DEF CalmIsUndisturbed, Undisturbed, In, TypeOK
  <1>5. QED
    BY <1>3, <1>4

LEMMA SteadyRemove ==
    ASSUME SteadyInv, TypeOK', NEW h \in Handlers, NEW d \in Devices, Remove(h, d)
    PROVE  SteadyInv'
  <1> USE DEF SteadyInv
  <1>1. /\ UNCHANGED <<presence, session, due>> /\ calm' = calm \ {d}
        /\ handler[h] = Idle
        /\ handler' = [handler EXCEPT ![h] = [op |-> "remove", dev |-> d,
                                        at |-> "presence", copy |-> None]]
    BY DEF Remove, Disturbs, tunnelVars
  <1>2. \A e \in Devices : e # d => /\ record'[e] = record[e]
                                    /\ \A op : In(e, op)' = In(e, op)
    BY <1>1, NoneIsNoValue DEF Remove, Administer, TypeOK, In, Idle
  <1>3. CopiesAreRecords' /\ IsFiniteSet(Online')
    BY <1>1 DEF CopiesAreRecords, Copies, Online, TypeOK
  <1>4. CalmIsUndisturbed' /\ PresenceOutlives'
    BY <1>1, <1>2 DEF CalmIsUndisturbed, Undisturbed, PresenceOutlives, TypeOK
  <1>5. QED
    BY <1>3, <1>4

\* A tick takes one from a presence that the next heartbeat still finds.
LEMMA SteadyTick ==
    ASSUME Ttl > Interval, SteadyInv, TypeOK', Tick
    PROVE  SteadyInv'
  <1> USE DEF SteadyInv
  <1>1. UNCHANGED <<record, handler, session, calm>>
    BY DEF Tick, pastVars
  <1>2. CopiesAreRecords' /\ CalmIsUndisturbed'
    BY <1>1 DEF CopiesAreRecords, Copies, CalmIsUndisturbed, Undisturbed, In
  <1>3. IsFiniteSet(Online')
    <2>1. Online' \subseteq Online
      BY DEF Tick, Online
    <2>2. QED
      BY <2>1, FS_Subset
  <1>4. PresenceOutlives'
    <2> SUFFICES ASSUME NEW d \in calm
                 PROVE  presence'[d] > 0 /\ presence'[d] >= Ttl - due'[d]
      BY <1>1 DEF PresenceOutlives
    <2>1. d \in Devices /\ d \in session
      BY DEF TypeOK, CalmIsUndisturbed, Undisturbed
    <2>2. In(d, "online") = {}
      BY <2>1, NoneIsNoValue DEF Tick, In, Idle
    <2>3. presence[d] > 0 /\ presence[d] >= Ttl - due[d] /\ due[d] < Interval
      BY <2>1, <2>2 DEF PresenceOutlives, Tick
    <2>4. presence'[d] = presence[d] - 1 /\ due'[d] = due[d] + 1
      BY <2>1, <2>3 DEF Tick
    <2>5. presence[d] \in Nat /\ due[d] \in Nat
      BY <2>1 DEF TypeOK
    <2>6. QED
      BY <2>3, <2>4, <2>5, Delays
  <1>5. QED
    BY <1>2, <1>3, <1>4

LEMMA SteadyStep ==
    ASSUME Ttl > Interval, SteadyInv, [Next]_vars
    PROVE  SteadyInv'
  <1>a. TypeOK /\ TypeOK'
    BY TypeStep DEF SteadyInv
  <1>1. ASSUME NEW h \in Handlers, NEW d \in Devices,
               Authenticate(h, d) \/ Heartbeat(h, d)
        PROVE  SteadyInv'
    <2>1. UpdateStatus(h, d, "online") /\ UNCHANGED kvVars
      BY <1>1 DEF Authenticate, Heartbeat
    <2>2. \A e \in Devices : e # d => due'[e] = due[e]
      BY <1>1, <1>a DEF Authenticate, Heartbeat, TypeOK
    <2>3. session \subseteq session' /\ session' \subseteq session \union {d}
      BY <1>1 DEF Authenticate, Heartbeat
    <2>4. QED
      BY <1>a, <2>1, <2>2, <2>3, SteadyUpdate DEF Statuses
  <1>2. ASSUME NEW h \in Handlers, NEW d \in Devices, Cleanup(h, d)
        PROVE  SteadyInv'
    <2>1. /\ UpdateStatus(h, d, "offline") /\ UNCHANGED kvVars
          /\ due' = due /\ session' = session \ {d}
      BY <1>2 DEF Cleanup
    <2>2. QED
      BY <1>a, <2>1, SteadyUpdate DEF Statuses
  <1>3. ASSUME NEW h \in Handlers, NEW d \in Devices, NEW status \in Statuses,
               Patch(h, d, status)
        PROVE  SteadyInv'
    BY <1>3, <1>a, SteadyUpdate DEF Patch, tunnelVars
  <1>4. CASE \/ \E asked \in Devices \union {None} : Resolve(asked)
             \/ AnswerAtEdge \/ Forward \/ UNCHANGED vars
    <2>1. UNCHANGED <<record, presence, handler, session, due, calm>>
      BY <1>4
      DEF Resolve, AnswerAtEdge, Forward, vars, kvVars, tunnelVars, pastVars
    <2>2. QED
      BY <1>a, <2>1
      DEF SteadyInv, CopiesAreRecords, Copies, CalmIsUndisturbed, Undisturbed,
          PresenceOutlives, In, Online
  <1>5. QED
    BY <1>a, <1>1, <1>2, <1>3, <1>4, SteadyHandler, SteadyRegister,
       SteadyRemove, SteadyTick
    DEF Next, HandlerStep

\* With a device online that the call may go to, it is not refused as offline.
LEMMA OnlineIsFound ==
    ASSUME IsFiniteSet(Online), NEW asked \in Devices \union {None},
           NEW d \in Online, asked \in {d, None}
    PROVE  ResolveTarget(asked) # "DEVICE_OFFLINE"
  <1>1. \A e \in Online : e # "DEVICE_OFFLINE" /\ e # None
    BY OutcomesAssumption, NoneIsNoValue DEF Online, Failures
  <1>2. CASE asked = d
    <2>1. asked \in Online /\ asked # None
      BY <1>1, <1>2
    <2>2. ResolveTarget(asked) = asked
      BY <2>1 DEF ResolveTarget
    <2>3. QED
      BY <1>1, <2>1, <2>2
  <1>3. CASE asked = None
    <2>1. asked \notin Online
      BY <1>1, <1>3
    <2>2. Cardinality(Online) \in Nat /\ Cardinality(Online) # 0
      BY FS_CardinalityType, FS_EmptySet
    <2>3. CASE Cardinality(Online) = 1
      <3>1. ResolveTarget(asked) = CHOOSE e \in Online : TRUE
        BY <1>3, <2>1, <2>3 DEF ResolveTarget
      <3>2. (CHOOSE e \in Online : TRUE) \in Online
        OBVIOUS
      <3>3. QED
        BY <1>1, <3>1, <3>2
    <2>4. CASE Cardinality(Online) > 1
      <3>1. ResolveTarget(asked) = "DEVICE_AMBIGUOUS"
        BY <1>3, <2>1, <2>4 DEF ResolveTarget
      <3>2. QED
        BY <3>1
    <2>5. QED
      BY <2>2, <2>3, <2>4
  <1>4. QED
    BY <1>2, <1>3

\* While the presence key outlives a heartbeat interval, no call is refused
\* as offline that names a device in undisturbed use, or that names none while
\* there is one (device-registry.ts:81, mcp-handler.ts).
THEOREM SteadyDevicesServed ==
    ASSUME Ttl > Interval
    PROVE  Spec => SteadyIsServed
  <1> DEFINE Served == \A asked \in Devices \union {None} :
                 Resolve(asked) /\ call' = "DEVICE_OFFLINE"
                   => ~ \E d \in Devices : Steady(d) /\ asked \in {d, None}
  <1>1. ASSUME SteadyInv PROVE Served
    <2> SUFFICES ASSUME NEW asked \in Devices \union {None}, Resolve(asked),
                        NEW d \in Devices, Steady(d), asked \in {d, None}
                 PROVE  call' # "DEVICE_OFFLINE"
      OBVIOUS
    <2>1. d \in Online
      BY <1>1 DEF SteadyInv, PresenceOutlives, Steady, Online
    <2>2. QED
      BY <1>1, <2>1, OnlineIsFound DEF SteadyInv, Resolve
  <1>2. SteadyInv => [Served]_vars
    BY <1>1
  <1>3. SteadyInv /\ [Next]_vars => SteadyInv'
    BY SteadyStep
  <1>4. QED
    BY SteadyInit, <1>2, <1>3, PTL DEF Spec, SteadyIsServed
=============================================================================
