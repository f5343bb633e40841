--------------------------- MODULE DeviceRegistry ---------------------------
(***************************************************************************)
(* Registrations and presence of devices in Workers KV                     *)
(* (packages/cloudflare-worker/src/device-registry.ts), with everything    *)
(* that uses them at the same time: the tunnel objects of the devices, the *)
(* device API of index.ts, and the MCP handler, which picks the device of  *)
(* a call by its presence.                                                 *)
(*                                                                         *)
(* KV is asynchronous and has no transactions: an update of a status is a  *)
(* get, a put and another put or delete, and other handlers run in         *)
(* between.  A handler that is in such an operation is one element of      *)
(* Handlers.  Time is in ticks, and a KV operation is over within one.     *)
(***************************************************************************)
EXTENDS Integers, FiniteSets

CONSTANTS
    Devices,    \* the device ids
    Tokens,     \* the device tokens (their hashes)
    Handlers,   \* the requests and events that may be in KV at one time
    None,       \* no record, no device
    Ttl,        \* PRESENCE_TTL
    Interval,   \* heartbeat_interval of the daemons
    MaxEvents   \* bound: registrations, removals, PATCHes, re-auths, failures

ASSUME NoneIsNoValue == None \notin Devices \union Tokens
ASSUME Delays == Ttl \in Nat \ {0} /\ Interval \in Nat \ {0}
ASSUME BoundAssumption == MaxEvents \in Nat

VARIABLES
    record,     \* device:{id}: the token hash registered, or None
    presence,   \* device_online:{id}: ticks to its expiry, 0 when absent
    handler,    \* the KV operation each handler is in
    session,    \* the devices whose tunnel object has a session
    due,        \* ticks since the last heartbeat of the session
    call,       \* how an MCP call fares: its device while it is forwarded
    events,     \* how many bounded events have happened
    \* what the properties need to know of the past
    last,       \* what the last registration or removal left in the record
    clean,      \* whether no status update held a copy of it at that time
    calm        \* online was written, and nothing took it away since

kvVars == <<record, presence>>
tunnelVars == <<session, due>>
pastVars == <<last, clean, calm>>
vars == <<kvVars, handler, tunnelVars, call, events, pastVars>>

Statuses == {"online", "offline"}
Idle     == [op |-> "idle", dev |-> None, at |-> "end", copy |-> None]
Working  == [op : Statuses \union {"remove"}, dev : Devices,
             at : {"record", "presence"}, copy : Tokens \union {None}]
Failures == {"DEVICE_OFFLINE", "DEVICE_AMBIGUOUS"}

\* What else becomes of a call is no device's id.
ASSUME OutcomesAssumption ==
    Devices \intersect (Failures \union {"none", "edge", "forwarded"}) = {}

TypeOK ==
    /\ record \in [Devices -> Tokens \union {None}]
    /\ presence \in [Devices -> 0..Ttl]
    /\ handler \in [Handlers -> Working \union {Idle}]
    /\ session \subseteq Devices
    /\ due \in [Devices -> 0..Interval]
    /\ call \in Devices \union Failures \union {"none", "edge", "forwarded"}
    /\ events \in 0..MaxEvents
    /\ last \in [Devices -> Tokens \union {None}]
    /\ clean \subseteq Devices /\ calm \subseteq Devices

Init ==
    /\ record = [d \in Devices |-> None]
    /\ presence = [d \in Devices |-> 0]
    /\ handler = [h \in Handlers |-> Idle]
    /\ session = {}
    /\ due = [d \in Devices |-> 0]
    /\ call = "none"
    /\ events = 0
    /\ last = [d \in Devices |-> None]
    /\ clean = Devices
    /\ calm = {}

Event == events < MaxEvents /\ events' = events + 1

-----------------------------------------------------------------------------
(* Handlers in KV.                                                         *)

In(d, op) == {h \in Handlers : handler[h].dev = d /\ handler[h].op = op}

\* The status updates that have read the record and not yet put it back.
Copies(d) == {h \in Handlers : /\ handler[h].dev = d
                               /\ handler[h].op \in Statuses
                               /\ handler[h].at = "record"}

\* What a handler that works on d under op does to calm: an offline update or
\* a removal takes presence away at some time before it ends.
Disturbs(d, op) == IF op = "online" THEN calm ELSE calm \ {d}

\* d is registered and has a session, and no operation on it is about to take
\* its presence away.
Undisturbed(d) ==
    /\ record[d] # None /\ d \in session
    /\ In(d, "offline") = {} /\ In(d, "remove") = {}

UpdateStatus_Creates(h, d, status) ==
    /\ handler[h] = Idle
    /\ \E t \in Tokens :
         handler' = [handler EXCEPT ![h] =
            [op |-> status, dev |-> d, at |-> "record",
             copy |-> IF record[d] = None THEN t ELSE record[d]]]
    /\ calm' = Disturbs(d, status)

\* updateDeviceStatus up to its first put: it goes on with a copy of the
\* record, or is over if there is none.
UpdateStatus(h, d, status) ==
    /\ handler[h] = Idle
    /\ handler' = IF record[d] = None THEN handler
                  ELSE [handler EXCEPT ![h] =
                          [op |-> status, dev |-> d, at |-> "record",
                           copy |-> record[d]]]
    /\ calm' = Disturbs(d, status)

\* The record is put back as it was read, with another status and last_seen.
PutRecord(h) ==
    /\ handler[h].op \in Statuses /\ handler[h].at = "record"
    /\ record' = [record EXCEPT ![handler[h].dev] = handler[h].copy]
    /\ handler' = [handler EXCEPT ![h].at = "presence"]
    /\ UNCHANGED <<presence, tunnelVars, call, events, pastVars>>

PutPresence_KeepsExpiry(h) ==
    LET d == handler[h].dev IN
    /\ handler[h].at = "presence"
    /\ presence' = [presence EXCEPT ![d] =
                      IF handler[h].op # "online" THEN 0
                      ELSE IF @ > 0 THEN @ ELSE Ttl]
    /\ calm' = IF handler[h].op = "online" /\ Undisturbed(d)
               THEN calm \union {d} ELSE calm \ {d}
    /\ handler' = [handler EXCEPT ![h] = Idle]
    /\ UNCHANGED <<record, tunnelVars, call, events, last, clean>>

\* The end of an update or a removal: presence is put with its TTL, or deleted.
PutPresence(h) ==
    LET d == handler[h].dev
        online == handler[h].op = "online" IN
    /\ handler[h].at = "presence"
    /\ presence' = [presence EXCEPT ![d] = IF online THEN Ttl ELSE 0]
    /\ calm' = IF online /\ Undisturbed(d)
               THEN calm \union {d} ELSE calm \ {d}
    /\ handler' = [handler EXCEPT ![h] = Idle]
    /\ UNCHANGED <<record, tunnelVars, call, events, last, clean>>

\* KV throws: the operation ends where it is.
KvFails(h) ==
    /\ handler[h] # Idle
    /\ Event
    /\ handler' = [handler EXCEPT ![h] = Idle]
    /\ calm' = calm \ {handler[h].dev}
    /\ UNCHANGED <<kvVars, tunnelVars, call, last, clean>>

-----------------------------------------------------------------------------
(* The device API.                                                         *)

\* What a registration or a removal puts in the record, for the properties.
Administer(d, value) ==
    /\ record' = [record EXCEPT ![d] = value]
    /\ last' = [last EXCEPT ![d] = value]
    /\ clean' = IF Copies(d) = {} THEN clean \union {d} ELSE clean \ {d}

\* POST /api/devices: a new record, offline, whatever was there.
Register(d, t) ==
    /\ Event
    /\ Administer(d, t)
    /\ UNCHANGED <<presence, handler, tunnelVars, call, calm>>

\* DELETE /api/devices/{id}: the record first, the presence later.
Remove(h, d) ==
    /\ handler[h] = Idle
    /\ Event
    /\ Administer(d, None)
    /\ handler' = [handler EXCEPT ![h] = [op |-> "remove", dev |-> d,
                                          at |-> "presence", copy |-> None]]
    /\ calm' = Disturbs(d, "remove")
    /\ UNCHANGED <<presence, tunnelVars, call>>

\* PATCH /api/devices/{id}: a status set by hand.
Patch(h, d, status) ==
    /\ Event
    /\ UpdateStatus(h, d, status)
    /\ UNCHANGED <<kvVars, tunnelVars, call, last, clean>>

-----------------------------------------------------------------------------
(* The tunnel objects, as far as they call the registry.                   *)

\* authenticateDevice found the daemon's token: the session begins and the
\* handler awaits the online update.  Of a device that has a session already
\* it is a second socket, and counted as an event.
Authenticate(h, d) ==
    /\ record[d] # None
    /\ IF d \in session THEN Event ELSE UNCHANGED events
    /\ session' = session \union {d}
    /\ due' = [due EXCEPT ![d] = 0]
    /\ UpdateStatus(h, d, "online")
    /\ UNCHANGED <<kvVars, call, last, clean>>

\* A heartbeat is due: the update is awaited before it is acknowledged.
Heartbeat(h, d) ==
    /\ d \in session /\ due[d] = Interval
    /\ due' = [due EXCEPT ![d] = 0]
    /\ UpdateStatus(h, d, "online")
    /\ UNCHANGED <<kvVars, session, call, events, last, clean>>

\* cleanupWebSocket: the session ends, the offline update is not awaited.
Cleanup(h, d) ==
    /\ d \in session
    /\ session' = session \ {d}
    /\ UpdateStatus(h, d, "offline")
    /\ UNCHANGED <<kvVars, due, call, events, last, clean>>

Tick_NeverExpires ==
    /\ \A h \in Handlers : handler[h] = Idle
    /\ \A d \in session : due[d] < Interval
    /\ due' = [d \in Devices |-> IF d \in session THEN due[d] + 1 ELSE due[d]]
    /\ UNCHANGED <<kvVars, handler, session, call, events, pastVars>>

\* Time passes: presence keys expire, records never do.  KV operations take
\* less than a tick and heartbeats are not late.
Tick ==
    /\ \A h \in Handlers : handler[h] = Idle
    /\ \A d \in session : due[d] < Interval
    /\ presence' = [d \in Devices |-> IF presence[d] > 0 THEN presence[d] - 1
                                                          ELSE 0]
    /\ due' = [d \in Devices |-> IF d \in session THEN due[d] + 1 ELSE due[d]]
    /\ UNCHANGED <<record, handler, session, call, events, pastVars>>

-----------------------------------------------------------------------------
(* MCP calls.                                                              *)

Online == {d \in Devices : presence[d] > 0}

\* resolveTargetDeviceId: the device asked for if it is online, else the only
\* one that is.
ResolveTarget(asked) ==
    CASE asked \in Online                         -> asked
      [] asked = None /\ Cardinality(Online) = 1  -> CHOOSE d \in Online : TRUE
      [] asked = None /\ Cardinality(Online) > 1  -> "DEVICE_AMBIGUOUS"
      [] OTHER                                    -> "DEVICE_OFFLINE"

\* Methods, catalogues and static resources are answered, and unknown ones
\* and unauthorised requests refused, without any device.
AnswerAtEdge ==
    /\ call \notin Devices
    /\ call' = "edge"
    /\ UNCHANGED <<kvVars, handler, tunnelVars, events, pastVars>>

\* tools/call or resources/read of a daemon resource: the target is resolved.
\* Calls are served one after the other here; they share no state.
Resolve(asked) ==
    /\ call \notin Devices
    /\ call' = ResolveTarget(asked)
    /\ UNCHANGED <<kvVars, handler, tunnelVars, events, pastVars>>

\* The request reaches the tunnel object of the target, which forwards it to
\* its socket or has none any more.
Forward ==
    /\ call \in Devices
    /\ call' = IF call \in session THEN "forwarded" ELSE "DEVICE_OFFLINE"
    /\ UNCHANGED <<kvVars, handler, tunnelVars, events, pastVars>>

HandlerStep(h) == PutRecord(h) \/ PutPresence(h)

Next ==
    \/ \E h \in Handlers : HandlerStep(h) \/ KvFails(h)
    \/ \E d \in Devices : \E t \in Tokens : Register(d, t)
    \/ \E h \in Handlers, d \in Devices :
          \/ Remove(h, d) \/ Authenticate(h, d) \/ Heartbeat(h, d)
          \/ Cleanup(h, d)
          \/ \E status \in Statuses : Patch(h, d, status)
    \/ \E asked \in Devices \union {None} : Resolve(asked)
    \/ AnswerAtEdge \/ Forward
    \/ Tick

\* KV answers, time passes, and a daemon with a session sends its heartbeats.
\* Nothing makes anybody connect, disconnect, register or call.
Fairness ==
    /\ \A h \in Handlers : WF_vars(HandlerStep(h))
    /\ \A d \in Devices : WF_vars(\E h \in Handlers : Heartbeat(h, d))
    /\ WF_vars(Tick)

Spec == Init /\ [][Next]_vars /\ Fairness

-----------------------------------------------------------------------------
(* Properties.                                                             *)

\* A registration or a removal that overlaps no status update is final: the
\* record keeps the token it put, or stays away, through every later
\* connect, heartbeat, disconnect and expiry, until the next one.
LastWriteStands == \A d \in clean : record[d] = last[d]

\* A device with a session whose presence was written and not taken away
\* since, by an update or a removal that overlapped.
Steady(d) == d \in session /\ d \in calm

\* A call is refused as offline only if the device it names, or every device
\* if it names none, is not steady: heartbeats renew the presence before it
\* expires, and no late update of an old connection goes unnoticed.
SteadyIsServed ==
    [][\A asked \in Devices \union {None} :
          Resolve(asked) /\ call' = "DEVICE_OFFLINE"
             => ~ \E d \in Devices : Steady(d) /\ asked \in {d, None}]_vars

\* Once one device alone keeps its session, calls that name no device find
\* it: the presence of the others ends by their offline update or expires,
\* and the device's own is restored by a heartbeat if it was deleted.
SettlesOnSole ==
    \A d \in Devices :
        <>[](session = {d} /\ record[d] # None)
            => <>[](ResolveTarget(None) = d)

-----------------------------------------------------------------------------
(* The inductive invariants behind the theorems of DeviceRegistry_proofs.  *)

\* What a status update is about to put back is what is there already.
CopiesAgree == \A d \in clean : \A h \in Copies(d) : handler[h].copy = last[d]

\* A status update never holds the copy of a record that is not there,
CopiesAreRecords == \A d \in Devices : \A h \in Copies(d) : handler[h].copy # None

\* a calm device is registered, has a session and nobody is at work on it who
\* takes its presence away,
CalmIsUndisturbed == \A d \in calm : Undisturbed(d)

\* and its presence outlives the heartbeat that is due next, unless the update
\* that renews it is under way.
PresenceOutlives ==
    \A d \in calm :
        /\ presence[d] > 0
        /\ In(d, "online") = {} => presence[d] >= Ttl - due[d]

SteadyInv ==
    /\ TypeOK /\ IsFiniteSet(Online)
    /\ CopiesAreRecords /\ CalmIsUndisturbed /\ PresenceOutlives
=============================================================================
