-------------------------- MODULE Snapshots_proofs --------------------------
(***************************************************************************)
(* Theorems about Snapshots, for any calls and files and any cap.          *)
(***************************************************************************)
EXTENDS Snapshots, FiniteSetTheorems, TLAPS

CallRecords ==
    [op : Ops, path : Paths \union {None}, dest : Paths \union {None},
     from : Calls \union {None}, held : Held, victims : SUBSET Calls,
     then : {"recollect", "act"}, at : Steps, dead : BOOLEAN]

LEMMA CapFacts == MaxSnapshots \in Nat \ {0}
  BY Retention

-----------------------------------------------------------------------------
(* The order of the snapshots.                                             *)

LEMMA OrderFacts ==
    ASSUME TypeOK
    PROVE  /\ order \in Seq(Calls) /\ Len(order) \in Nat
           /\ DOMAIN order = 1..Len(order)
           /\ \A i, j \in DOMAIN order : order[i] = order[j] => i = j
           /\ ToSet(order) = {order[i] : i \in DOMAIN order}
           /\ ToSet(order) \subseteq Calls
  <1>1. order \in Seq(Calls) /\ IsInjective(order)
    BY DEF TypeOK
  <1>2. Len(order) \in Nat /\ DOMAIN order = 1..Len(order)
    BY <1>1
  <1>3. \A i, j \in DOMAIN order : order[i] = order[j] => i = j
    BY <1>1 DEF IsInjective
  <1>4. ToSet(order) = {order[i] : i \in DOMAIN order}
    BY DEF ToSet
  <1>5. \A i \in DOMAIN order : order[i] \in Calls
    BY <1>1
  <1>6. QED
    BY <1>1, <1>2, <1>3, <1>4, <1>5

LEMMA BeforeOrders ==
    ASSUME TypeOK
    PROVE  /\ \A s, t : Before(s, t) => s \in ToSet(order) /\ t \in ToSet(order)
           /\ \A s, t : ~ (Before(s, t) /\ Before(t, s))
           /\ \A s, t, u : Before(s, t) /\ Before(t, u) => Before(s, u)
           /\ \A s, t \in ToSet(order) : s # t => Before(s, t) \/ Before(t, s)
  <1>1. \A s, t : Before(s, t) => s \in ToSet(order) /\ t \in ToSet(order)
    BY OrderFacts DEF Before
  <1>2. \A s, t : ~ (Before(s, t) /\ Before(t, s))
    BY OrderFacts DEF Before
  <1>3. ASSUME NEW s, NEW t, NEW u, Before(s, t), Before(t, u) PROVE Before(s, u)
    <2>1. PICK i, j \in DOMAIN order : order[i] = s /\ order[j] = t /\ i < j
      BY <1>3 DEF Before
    <2>2. PICK k, l \in DOMAIN order : order[k] = t /\ order[l] = u /\ k < l
      BY <1>3 DEF Before
    <2>3. i < l
      BY <2>1, <2>2, OrderFacts
    <2>4. QED
      BY <2>1, <2>2, <2>3 DEF Before
  <1>4. ASSUME NEW s \in ToSet(order), NEW t \in ToSet(order), s # t
        PROVE  Before(s, t) \/ Before(t, s)
    <2>1. PICK i, j \in DOMAIN order : order[i] = s /\ order[j] = t
      BY OrderFacts
    <2>2. i < j \/ j < i
      BY <1>4, <2>1, OrderFacts
    <2>3. QED
      BY <2>1, <2>2 DEF Before
  <1>5. QED
    BY <1>1, <1>2, <1>3, <1>4

\* A snapshot that is taken is the newest, and the others stay in their order.
LEMMA AppendOrders ==
    ASSUME TypeOK, NEW c \in Calls, c \notin ToSet(order),
           order' = Append(order, c)
    PROVE  /\ order' \in Seq(Calls) /\ IsInjective(order')
           /\ ToSet(order') = ToSet(order) \union {c}
           /\ \A s, t : t # c => (Before(s, t)' <=> Before(s, t))
  <1>1. /\ order' \in Seq(Calls) /\ Len(order') = Len(order) + 1
        /\ DOMAIN order' = 1..(Len(order) + 1)
        /\ \A i \in DOMAIN order : order'[i] = order[i]
        /\ order'[Len(order) + 1] = c
    BY OrderFacts
  <1>2. \A i \in DOMAIN order : order[i] # c /\ i \in DOMAIN order' /\ i <= Len(order)
    BY OrderFacts, <1>1
  <1>3. \A i \in DOMAIN order' : i \in DOMAIN order \/ i = Len(order) + 1
    BY OrderFacts, <1>1
  <1>4. IsInjective(order')
    BY <1>1, <1>2, <1>3, OrderFacts DEF IsInjective
  <1>5. ToSet(order') = ToSet(order) \union {c}
    <2>1. ToSet(order') = {order'[i] : i \in DOMAIN order'}
      BY DEF ToSet
    <2>2. QED
      BY <1>1, <1>2, <1>3, <2>1, OrderFacts
  <1>6. ASSUME NEW s, NEW t, t # c PROVE Before(s, t)' <=> Before(s, t)
    BY <1>1, <1>2, <1>3, <1>6, OrderFacts DEF Before
  <1>7. QED
    BY <1>1, <1>4, <1>5, <1>6

LEMMA NewerType ==
    ASSUME IsFiniteSet(listed), NEW s
    PROVE  IsFiniteSet({t \in listed : Before(s, t)}) /\ Newer(s) \in Nat
  BY FS_Subset, FS_CardinalityType DEF Newer

\* The older of two listed snapshots has more newer ones.
LEMMA NewerFalls ==
    ASSUME TypeOK, IsFiniteSet(listed), NEW s, NEW t \in listed, Before(s, t)
    PROVE  Newer(t) < Newer(s)
  <1> DEFINE S == {u \in listed : Before(s, u)}
             T == {u \in listed : Before(t, u)}
  <1>1. IsFiniteSet(S) /\ Newer(s) = Cardinality(S) /\ Newer(s) \in Nat
    BY NewerType DEF Newer
  <1>2. IsFiniteSet(T) /\ Newer(t) = Cardinality(T) /\ Newer(t) \in Nat
    BY NewerType DEF Newer
  <1>3. T \in SUBSET S /\ t \in S /\ t \notin T
    BY BeforeOrders
  <1> HIDE DEF S, T
  <1>4. Cardinality(T) <= Cardinality(S) /\ (Cardinality(S) = Cardinality(T) => S = T)
    BY <1>1, <1>3, FS_Subset
  <1>5. QED
    BY <1>1, <1>2, <1>3, <1>4

\* The second loop of a sweep leaves no more than the cap.
LEMMA SurplusIsAll ==
    ASSUME TypeOK, IsFiniteSet(listed)
    PROVE  /\ IsFiniteSet(listed \ Surplus)
           /\ Cardinality(listed \ Surplus) <= MaxSnapshots
  <1> DEFINE K == listed \ Surplus
             f == [s \in K |-> Newer(s)]
  <1>1. \A s \in K : Newer(s) \in 0..(MaxSnapshots - 1)
    <2>1. ASSUME NEW s \in K PROVE Newer(s) \in 0..(MaxSnapshots - 1)
      <3>1. Newer(s) \in Nat /\ MaxSnapshots \in Nat
        BY NewerType, CapFacts
      <3>2. ~ (Newer(s) >= MaxSnapshots)
        BY DEF Surplus
      <3>3. QED
        BY <3>1, <3>2
    <2>2. QED
      BY <2>1
  <1>2. ASSUME NEW s \in K, NEW t \in K, Newer(s) = Newer(t) PROVE s = t
    <2>1. s \in ToSet(order) /\ t \in ToSet(order) /\ s \in listed /\ t \in listed
      BY DEF TypeOK
    <2>2. Newer(s) \in Nat /\ Newer(t) \in Nat
      BY NewerType
    <2>3. ~ Before(s, t) /\ ~ Before(t, s)
      BY <1>2, <2>1, <2>2, NewerFalls
    <2>4. QED
      BY <2>1, <2>3, BeforeOrders
  <1>3. f \in Injection(K, 0..(MaxSnapshots - 1))
    BY <1>1, <1>2 DEF Injection, IsInjective
  <1>4. /\ IsFiniteSet(0..(MaxSnapshots - 1))
        /\ Cardinality(0..(MaxSnapshots - 1)) = MaxSnapshots
    BY CapFacts, FS_Interval
  <1> HIDE DEF f
  <1>5. QED
    BY <1>3, <1>4, FS_Injection

-----------------------------------------------------------------------------
(* What the operators of the model do to a call's record.                  *)

\* The fields that neither Step nor Sweep touches.
SameCall(c) ==
    /\ call'[c].op = call[c].op /\ call'[c].path = call[c].path
    /\ call'[c].dest = call[c].dest /\ call'[c].from = call[c].from
    /\ call'[c].dead = call[c].dead

LEMMA StepFacts ==
    ASSUME TypeOK, NEW c \in Calls, NEW at \in Steps, Step(c, at)
    PROVE  /\ call' \in [Calls -> CallRecords]
           /\ call'[c].at = at /\ SameCall(c)
           /\ call'[c].victims = call[c].victims /\ call'[c].then = call[c].then
           /\ \A o \in Calls : o # c => call'[o] = call[o]
  <1>1. call \in [Calls -> CallRecords] /\ call' = [call EXCEPT ![c].at = at]
    BY DEF Step, TypeOK, CallRecords
  <1>2. QED
    BY <1>1 DEF CallRecords, SameCall

LEMMA SweepFacts ==
    ASSUME TypeOK, NEW c \in Calls, NEW V \in SUBSET Calls,
           NEW next \in {"recollect", "act"}, Sweep(c, V, next)
    PROVE  /\ call' \in [Calls -> CallRecords]
           /\ call'[c].at = (IF V = {} THEN next ELSE "purge") /\ SameCall(c)
           /\ call'[c].victims = V /\ call'[c].then = next
           /\ \A o \in Calls : o # c => call'[o] = call[o]
  <1> DEFINE at == IF V = {} THEN next ELSE "purge"
  <1>1. /\ call \in [Calls -> CallRecords]
        /\ call' = [call EXCEPT ![c].victims = V, ![c].then = next, ![c].at = at]
    BY DEF Sweep, TypeOK, CallRecords
  <1>2. at \in Steps
    BY DEF Steps
  <1>3. call'[c] = [call[c] EXCEPT !.victims = V, !.then = next, !.at = at]
    BY <1>1
  <1>4. \A o \in Calls : o # c => call'[o] = call[o]
    BY <1>1
  <1>5. /\ call'[c] \in CallRecords /\ SameCall(c) /\ call'[c].at = at
        /\ call'[c].victims = V /\ call'[c].then = next
    <2> HIDE DEF at
    <2>1. call[c] \in CallRecords
      BY <1>1
    <2>2. [call[c] EXCEPT !.victims = V] \in CallRecords
      BY <2>1 DEF CallRecords
    <2>3. [call[c] EXCEPT !.victims = V, !.then = next] \in CallRecords
      BY <2>2 DEF CallRecords
    <2>4. call'[c] \in CallRecords
      BY <1>2, <1>3, <2>3 DEF CallRecords
    <2>5. SameCall(c) /\ call'[c].at = at /\ call'[c].victims = V /\ call'[c].then = next
      BY <1>3, <2>1 DEF CallRecords, SameCall
    <2>6. QED
      BY <2>4, <2>5
  <1>6. QED
    BY <1>1, <1>4, <1>5

\* The other calls lose the name of the file they opened, or it moves along.
LEMMA RenamedFacts ==
    ASSUME TypeOK, NEW c \in Calls, NEW p, NEW q \in Paths, Renamed(c, p, q)
    PROVE  /\ call' \in [Calls -> CallRecords]
           /\ call'[c].at = "ok" /\ SameCall(c)
           /\ \A o \in Calls :
                 /\ call'[o].op = call[o].op /\ call'[o].path = call[o].path
                 /\ call'[o].from = call[o].from /\ call'[o].dead = call[o].dead
                 /\ call'[o].dest \in {call[o].dest, q}
                 /\ call'[o].victims = call[o].victims
                 /\ call'[o].then = call[o].then
                 /\ o # c => \/ call'[o].at = call[o].at
                             \/ call[o].at = "fill" /\ call'[o].at = "unlinked"
                 /\ o # c => \/ call'[o] = call[o]
                             \/ call[o].at = "fill" /\ call[o].dest \in {p, q}
  <1>1. call \in [Calls -> CallRecords] /\ {"ok", "unlinked"} \subseteq Steps
    BY DEF TypeOK, CallRecords, Steps
  <1>2. ASSUME NEW o \in Calls
        PROVE  /\ call'[o] \in CallRecords
               /\ call'[o].op = call[o].op /\ call'[o].path = call[o].path
               /\ call'[o].from = call[o].from /\ call'[o].dead = call[o].dead
               /\ call'[o].dest \in {call[o].dest, q}
               /\ call'[o].victims = call[o].victims
               /\ call'[o].then = call[o].then
               /\ o # c => \/ call'[o].at = call[o].at
                           \/ call[o].at = "fill" /\ call'[o].at = "unlinked"
               /\ o # c => \/ call'[o] = call[o]
                           \/ call[o].at = "fill" /\ call[o].dest \in {p, q}
               /\ o = c => call'[o].at = "ok" /\ SameCall(o)
    <2>1. CASE o = c
      <3>1. call'[o] = [call[o] EXCEPT !.at = "ok"]
        BY <2>1 DEF Renamed
      <3>2. QED
        BY <1>1, <2>1, <3>1 DEF CallRecords, SameCall
    <2>2. CASE o # c /\ call[o].at = "fill" /\ call[o].dest = q
      <3>1. call'[o] = [call[o] EXCEPT !.at = "unlinked"]
        BY <2>2 DEF Renamed
      <3>2. QED
        BY <1>1, <2>2, <3>1 DEF CallRecords
    <2>3. CASE o # c /\ call[o].at = "fill" /\ call[o].dest # q /\ call[o].dest = p
      <3>1. call'[o] = [call[o] EXCEPT !.dest = q]
        BY <2>3 DEF Renamed
      <3>2. QED
        BY <1>1, <2>3, <3>1 DEF CallRecords
    <2>4. CASE o # c /\ ~ (call[o].at = "fill" /\ call[o].dest \in {p, q})
      <3>1. call'[o] = call[o]
        BY <2>4 DEF Renamed
      <3>2. QED
        BY <1>1, <2>4, <3>1
    <2>5. QED
      BY <2>1, <2>2, <2>3, <2>4
  <1>3. call' = [o \in Calls |-> call'[o]]
    BY DEF Renamed
  <1>4. QED
    BY <1>2, <1>3

-----------------------------------------------------------------------------
(* The state has the shape TypeOK gives it.                                *)

LEMMA TypeInit == Init => TypeInv
  <1> SUFFICES ASSUME Init PROVE TypeInv
    OBVIOUS
  <1>1. Fresh \in CallRecords
    BY DEF Fresh, CallRecords, Ops, Held, Text, Steps
  <1>2. call \in [Calls -> CallRecords] /\ \A c \in Calls : call[c] = Fresh
    BY <1>1 DEF Init
  <1>3. order \in Seq(Calls) /\ IsInjective(order) /\ ToSet(order) = {}
    BY DEF Init, IsInjective, ToSet
  <1>4. file \in [Paths -> Held] /\ blob \in [Calls -> Held]
    BY DEF Init, Held, Text
  <1>5. TypeOK
    BY <1>2, <1>3, <1>4 DEF Init, TypeOK, CallRecords
  <1>6. \A c \in Calls : Begun(c)
    BY <1>2 DEF Begun, Fresh
  <1>7. \A c \in Calls : call[c].at # "meta"
    BY <1>2 DEF Fresh
  <1>8. QED
    BY <1>3, <1>5, <1>6, <1>7 DEF TypeInv

\* What the rest of the proofs needs of a call that begins, or fails at once.
LEMMA BeginFacts ==
    ASSUME TypeInv, NEW c \in Calls,
           \/ \E p \in Paths : Write(c, p) \/ Edit(c, p)
           \/ \E p, q \in Paths : Move(c, p, q)
           \/ \E s \in Calls : Restore(c, s)
    PROVE  /\ call[c].at = "new" /\ call' \in [Calls -> CallRecords]
           /\ \A o \in Calls : o # c => call'[o] = call[o]
           /\ call'[c].at \in {"stat", "failed"}
           /\ call'[c].victims \in {{}, call[c].victims}
           /\ Begun(c)'
           /\ UNCHANGED <<file, storeVars, crashed>>
           /\ shared' \subseteq Calls /\ spared' \subseteq Calls
           /\ spared' \subseteq (spared \ Active) \union {c}
           /\ c \in spared' => c \in spared \/ call'[c].at = "stat"
  <1>t. TypeOK /\ call \in [Calls -> CallRecords]
    BY DEF TypeInv, TypeOK, CallRecords
  <1>f. Fresh \in CallRecords /\ Fresh.victims = {}
    BY DEF Fresh, CallRecords, Ops, Held, Text, Steps
  <1>a. Active \subseteq Calls
    BY DEF Active
  <1>1. ASSUME NEW paths, Begin(c, paths)
        PROVE  /\ call[c].at = "new" /\ UNCHANGED <<file, storeVars, crashed>>
               /\ shared' \subseteq Calls
    BY <1>1, <1>t, <1>a DEF Begin, TypeOK
  <1>2. ASSUME NEW r \in CallRecords, call' = [call EXCEPT ![c] = r]
        PROVE  /\ call' \in [Calls -> CallRecords] /\ call'[c] = r
               /\ \A o \in Calls : o # c => call'[o] = call[o]
    BY <1>2, <1>t
  <1>3. ASSUME NEW p \in Paths, Write(c, p)
        PROVE  \E r \in CallRecords :
                 /\ call' = [call EXCEPT ![c] = r] /\ r.op = "write"
                 /\ r.path \in Paths /\ r.at = "stat" /\ r.victims = {}
    <2> DEFINE r == [Fresh EXCEPT !.op = "write", !.path = p, !.held = {c}, !.at = "stat"]
    <2>1. call' = [call EXCEPT ![c] = r]
      BY <1>3 DEF Write
    <2>2. /\ r \in CallRecords /\ r.op = "write" /\ r.path = p /\ r.at = "stat"
          /\ r.victims = {}
      BY <1>f DEF Fresh, CallRecords, Ops, Held, Text, Steps
    <2>3. QED
      BY <2>1, <2>2
  <1>4. ASSUME NEW p \in Paths, Edit(c, p)
        PROVE  \/ Step(c, "failed")
               \/ \E r \in CallRecords :
                    /\ call' = [call EXCEPT ![c] = r] /\ r.op = "edit"
                    /\ r.path \in Paths /\ r.at = "stat" /\ r.victims = {}
    <2> DEFINE r == [Fresh EXCEPT !.op = "edit", !.path = p,
                                  !.held = file[p] \union {c}, !.at = "stat"]
    <2>1. \/ Step(c, "failed")
          \/ file[p] \notin {None, Torn} /\ call' = [call EXCEPT ![c] = r]
      BY <1>4 DEF Edit, Step
    <2>2. ASSUME file[p] \notin {None, Torn}
          PROVE  /\ r \in CallRecords /\ r.op = "edit" /\ r.path = p
                 /\ r.at = "stat" /\ r.victims = {}
      <3>1. file[p] \union {c} \in Held
        BY <1>t, <2>2 DEF TypeOK, Held, Text
      <3>2. QED
        BY <3>1 DEF Fresh, CallRecords, Ops, Held, Text, Steps
    <2>3. QED
      BY <2>1, <2>2
  <1>5. ASSUME NEW p \in Paths, NEW q \in Paths, Move(c, p, q)
        PROVE  \E r \in CallRecords :
                 /\ call' = [call EXCEPT ![c] = r] /\ r.op = "move"
                 /\ r.path \in Paths /\ r.dest \in Paths /\ r.at = "stat"
                 /\ r.victims = {}
    <2> DEFINE r == [Fresh EXCEPT !.op = "move", !.path = p, !.dest = q, !.at = "stat"]
    <2>1. call' = [call EXCEPT ![c] = r]
      BY <1>5 DEF Move
    <2>2. /\ r \in CallRecords /\ r.op = "move" /\ r.path = p /\ r.dest = q
          /\ r.at = "stat" /\ r.victims = {}
      BY <1>f DEF Fresh, CallRecords, Ops, Held, Text, Steps
    <2>3. QED
      BY <2>1, <2>2
  <1>6. ASSUME NEW s \in Calls, Restore(c, s)
        PROVE  \E r \in CallRecords :
                 /\ call' = [call EXCEPT ![c] = r] /\ r.op = "restore"
                 /\ r.path \in Paths /\ r.from \in Calls /\ r.at = "stat"
                 /\ r.victims = {}
    <2> DEFINE r == [Fresh EXCEPT !.op = "restore", !.path = call[s].path,
                                  !.from = s, !.at = "stat"]
    <2>1. call' = [call EXCEPT ![c] = r]
      BY <1>6 DEF Restore
    <2>2. call[s].path \in Paths
      <3>1. s \in ToSet(order)
        BY <1>6, <1>t DEF Restore, TypeOK
      <3>2. QED
        BY <3>1 DEF TypeInv, Begun
    <2>3. /\ r \in CallRecords /\ r.op = "restore" /\ r.path = call[s].path
          /\ r.from = s /\ r.at = "stat" /\ r.victims = {}
      BY <1>f, <2>2 DEF Fresh, CallRecords, Ops, Held, Text, Steps
    <2>4. QED
      BY <2>1, <2>2, <2>3
  <1>7. /\ \E paths : Begin(c, paths)
        /\ spared' \in {spared \ Active, spared \union {c}}
        /\ spared' # spared \ Active => Active = {} /\ \E s \in Calls : Restore(c, s)
    BY DEF Write, Edit, Move, Restore
  <1>8. \/ Step(c, "failed") /\ ~ \E s \in Calls : Restore(c, s)
        \/ \E r \in CallRecords :
             /\ call' = [call EXCEPT ![c] = r] /\ r.path \in Paths
             /\ r.at = "stat" /\ r.victims = {}
             /\ r.op \in {"write", "edit", "move", "restore"}
             /\ r.op = "move" => r.dest \in Paths
             /\ r.op = "restore" => r.from \in Calls
    BY <1>3, <1>4, <1>5, <1>6
  <1>9. /\ call[c].at = "new" /\ UNCHANGED <<file, storeVars, crashed>>
        /\ shared' \subseteq Calls
    BY <1>1, <1>7
  <1>10. /\ spared' \subseteq (spared \ Active) \union {c}
         /\ spared' \subseteq Calls
    BY <1>7, <1>t DEF TypeOK
  <1>11. CASE Step(c, "failed") /\ ~ \E s \in Calls : Restore(c, s)
    <2>1. "failed" \in Steps
      BY DEF Steps
    <2>2. /\ call' \in [Calls -> CallRecords] /\ call'[c].at = "failed"
          /\ call'[c].victims = call[c].victims /\ SameCall(c)
          /\ \A o \in Calls : o # c => call'[o] = call[o]
      BY <1>11, <1>t, <2>1, StepFacts
    <2>3. Begun(c)'
      BY <2>2 DEF TypeInv, Begun, SameCall
    <2>4. c \in spared' => c \in spared
      BY <1>7, <1>11
    <2>5. QED
      BY <1>9, <1>10, <2>2, <2>3, <2>4
  <1>12. ASSUME NEW r \in CallRecords,
                call' = [call EXCEPT ![c] = r], r.path \in Paths,
                r.at = "stat", r.victims = {},
                r.op \in {"write", "edit", "move", "restore"},
                r.op = "move" => r.dest \in Paths,
                r.op = "restore" => r.from \in Calls
         PROVE  /\ call' \in [Calls -> CallRecords]
                /\ \A o \in Calls : o # c => call'[o] = call[o]
                /\ call'[c].at = "stat" /\ call'[c].victims = {} /\ Begun(c)'
    BY <1>2, <1>12 DEF Begun
  <1>13. QED
    BY <1>8, <1>9, <1>10, <1>11, <1>12

LEMMA ActiveFacts ==
    \A c \in Active : /\ c \in Calls /\ call[c].at \notin {"new", "failed", "ok"}
                      /\ ~ call[c].dead
  BY DEF Active

\* The steps of a call's snapshot and sweep.
StoreStep(c) ==
    TakeBlob(c) \/ WriteMeta(c) \/ Collect(c) \/ Recollect(c) \/ PurgeBlob(c) \/ PurgeMeta(c)

LEMMA StoreStepFacts ==
    ASSUME TypeInv, NEW c \in Active, StoreStep(c)
    PROVE  /\ call' \in [Calls -> CallRecords] /\ SameCall(c)
           /\ \A o \in Calls : o # c => call'[o] = call[o]
           /\ call[c].at \in {"stat", "meta", "collect", "recollect", "purge", "purgeMeta"}
           /\ call'[c].at \in {"meta", "collect", "recollect", "purge", "purgeMeta", "act"}
           /\ call'[c].at = "meta" => order' = Append(order, c)
           /\ spared' \subseteq spared
           /\ UNCHANGED <<file, aged, shared, crashed>>
  <1>t. TypeOK /\ c \in Calls
    BY ActiveFacts DEF TypeInv
  <1>s. {"act", "meta", "collect", "purgeMeta"} \subseteq Steps
    BY DEF Steps
  <1>1. CASE TakeBlob(c)
    <2>1. \/ Step(c, "act")
          \/ Step(c, "meta") /\ order' = Append(order, c)
      BY <1>1 DEF TakeBlob
    <2>2. QED
      BY <1>1, <1>t, <1>s, <2>1, StepFacts DEF TakeBlob
  <1>2. CASE WriteMeta(c)
    BY <1>2, <1>t, <1>s, StepFacts DEF WriteMeta, storeVars
  <1>3. CASE Collect(c)
    <2>1. Expired \in SUBSET Calls
      BY <1>t DEF TypeOK, Expired
    <2>2. QED
      BY <1>3, <1>t, <2>1, SweepFacts DEF Collect, storeVars
  <1>4. CASE Recollect(c)
    <2>1. Surplus \in SUBSET Calls
      BY <1>t DEF TypeOK, Surplus
    <2>2. QED
      BY <1>4, <1>t, <2>1, SweepFacts DEF Recollect, storeVars
  <1>5. CASE PurgeBlob(c)
    BY <1>5, <1>t, <1>s, StepFacts DEF PurgeBlob
  <1>6. CASE PurgeMeta(c)
    <2>1. PICK s \in Calls : Sweep(c, call[c].victims \ {s}, call[c].then)
      BY <1>6 DEF PurgeMeta
    <2>2. call[c].victims \ {s} \in SUBSET Calls /\ call[c].then \in {"recollect", "act"}
      BY <1>t DEF TypeOK
    <2>3. QED
      BY <1>6, <1>t, <2>1, <2>2, SweepFacts DEF PurgeMeta
  <1>7. QED
    BY <1>1, <1>2, <1>3, <1>4, <1>5, <1>6 DEF StoreStep

\* The steps of the change itself.
ChangeStep(c) ==
    ReadBlob(c) \/ Publish(c) \/ Truncate(c) \/ Fill(c) \/ Rename(c)

\* An edit opens its file under the name that its call has.
LEMMA TruncateFacts ==
    ASSUME TypeOK, NEW c \in Calls, call[c].path \in Paths, Truncate(c)
    PROVE  /\ call' \in [Calls -> CallRecords]
           /\ call'[c].op = call[c].op /\ call'[c].path = call[c].path
           /\ call'[c].dest = call[c].path /\ call'[c].at = "fill"
           /\ call'[c].from = call[c].from /\ call'[c].dead = call[c].dead
           /\ call'[c].victims = call[c].victims /\ call'[c].then = call[c].then
           /\ \A o \in Calls : o # c => call'[o] = call[o]
  <1> DEFINE p == call[c].path
  <1>1. /\ call \in [Calls -> CallRecords]
        /\ call' = [call EXCEPT ![c].dest = p, ![c].at = "fill"]
    BY DEF Truncate, TypeOK, CallRecords
  <1>2. /\ call'[c] = [call[c] EXCEPT !.dest = p, !.at = "fill"]
        /\ \A o \in Calls : o # c => call'[o] = call[o]
        /\ call' = [call EXCEPT ![c] = call'[c]]
    BY <1>1
  <1>3. call[c] \in CallRecords /\ p \in Paths /\ "fill" \in Steps
    BY <1>1 DEF Steps
  <1>4. p = call[c].path
    OBVIOUS
  <1> HIDE DEF p
  <1>5. [call[c] EXCEPT !.dest = p] \in CallRecords
    BY <1>3 DEF CallRecords
  <1>6. call'[c] \in CallRecords
    BY <1>2, <1>3, <1>5 DEF CallRecords
  <1>7. /\ call'[c].op = call[c].op /\ call'[c].path = call[c].path
        /\ call'[c].dest = p /\ call'[c].at = "fill"
        /\ call'[c].from = call[c].from /\ call'[c].dead = call[c].dead
        /\ call'[c].victims = call[c].victims /\ call'[c].then = call[c].then
    BY <1>2, <1>3 DEF CallRecords
  <1>8. QED
    BY <1>1, <1>2, <1>4, <1>6, <1>7

LEMMA ChangeStepFacts ==
    ASSUME TypeInv, NEW c \in Active, ChangeStep(c)
    PROVE  /\ call' \in [Calls -> CallRecords]
           /\ call[c].at \in {"act", "publish", "fill", "unlinked"}
           /\ call'[c].at \in {"publish", "failed", "fill", "ok"}
           /\ call'[c].at = "failed" =>
                 \/ call[c].op = "move"
                 \/ call[c].op = "restore" /\ call[c].at = "act"
                      /\ blob[call[c].from] = None
           /\ \A o \in Calls :
                 /\ call'[o].op = call[o].op /\ call'[o].path = call[o].path
                 /\ call'[o].from = call[o].from /\ call'[o].dead = call[o].dead
                 /\ call[o].op = "move" \/ call'[o].at = "fill" => call'[o].dest \in Paths
                 /\ call'[o].victims = call[o].victims
                 /\ call'[o].then = call[o].then
                 /\ o # c => \/ call'[o].at = call[o].at
                             \/ call[o].at = "fill" /\ call'[o].at = "unlinked"
           /\ file' \in [Paths -> Held]
           /\ UNCHANGED <<storeVars, shared, spared, crashed>>
  <1>t. TypeOK /\ c \in Calls /\ call[c].op # "none" /\ call[c].path \in Paths
    BY ActiveFacts DEF TypeInv, Begun
  <1>s. {"failed", "publish", "fill", "ok"} \subseteq Steps
    BY DEF Steps
  <1>d. \A o \in Calls :
           call[o].op = "move" \/ call[o].at = "fill" => call[o].dest \in Paths
    BY DEF TypeInv, Begun
  <1>1. CASE ReadBlob(c)
    <2>1. CASE blob[call[c].from] = None
      <3>1. Step(c, "failed")
        BY <1>1, <2>1 DEF ReadBlob, Step
      <3>2. QED
        BY <1>1, <1>t, <1>s, <2>1, <3>1, <1>d, StepFacts DEF ReadBlob, SameCall, TypeOK
    <2>2. CASE blob[call[c].from] # None
      <3>1. call' = [call EXCEPT ![c].held = blob[call[c].from], ![c].at = "publish"]
        BY <1>1, <2>2 DEF ReadBlob
      <3>2. blob[call[c].from] \in Held
        BY <1>1, <1>t DEF ReadBlob, TypeInv, Begun, TypeOK
      <3>3. call \in [Calls -> CallRecords]
        BY <1>t DEF TypeOK, CallRecords
      <3>4. /\ call' \in [Calls -> CallRecords] /\ call'[c].at = "publish" /\ SameCall(c)
            /\ call'[c].victims = call[c].victims /\ call'[c].then = call[c].then
            /\ \A o \in Calls : o # c => call'[o] = call[o]
        <4> DEFINE v == blob[call[c].from]
        <4>1. /\ call'[c] = [call[c] EXCEPT !.held = v, !.at = "publish"]
              /\ \A o \in Calls : o # c => call'[o] = call[o]
              /\ call' = [call EXCEPT ![c] = call'[c]]
          BY <1>t, <3>1, <3>3
        <4>2. call[c] \in CallRecords /\ v \in Held /\ "publish" \in Steps
          BY <1>s, <1>t, <3>2, <3>3
        <4> HIDE DEF v
        <4>3. [call[c] EXCEPT !.held = v] \in CallRecords
          BY <4>2 DEF CallRecords
        <4>4. call'[c] \in CallRecords
          BY <4>1, <4>2, <4>3 DEF CallRecords
        <4>5. /\ call'[c].at = "publish" /\ SameCall(c)
              /\ call'[c].victims = call[c].victims /\ call'[c].then = call[c].then
          BY <4>1, <4>2 DEF CallRecords, SameCall
        <4>6. QED
          BY <1>t, <3>3, <4>1, <4>4, <4>5
      <3>5. QED
        BY <1>1, <1>t, <1>d, <3>4 DEF ReadBlob, SameCall, TypeOK
    <2>3. QED
      BY <2>1, <2>2
  <1>2. CASE Publish(c)
    <2>1. file' \in [Paths -> Held]
      BY <1>2, <1>t DEF Publish, TypeOK
    <2>2. QED
      BY <1>2, <1>t, <1>d, <2>1, RenamedFacts DEF Publish
  <1>3. CASE Truncate(c)
    <2>1. file' \in [Paths -> Held]
      BY <1>3, <1>t DEF Truncate, TypeOK, Held
    <2>2. /\ call' \in [Calls -> CallRecords]
          /\ call'[c].op = call[c].op /\ call'[c].path = call[c].path
          /\ call'[c].dest = call[c].path /\ call'[c].at = "fill"
          /\ call'[c].from = call[c].from /\ call'[c].dead = call[c].dead
          /\ call'[c].victims = call[c].victims /\ call'[c].then = call[c].then
          /\ \A o \in Calls : o # c => call'[o] = call[o]
      BY <1>3, <1>t, TruncateFacts
    <2>3. QED
      BY <1>3, <1>t, <1>d, <2>1, <2>2 DEF Truncate
  <1>4. CASE Fill(c)
    <2>1. file' \in [Paths -> Held]
      BY <1>4, <1>t, <1>d DEF Fill, TypeOK
    <2>2. QED
      BY <1>4, <1>t, <1>d, <1>s, <2>1, StepFacts DEF Fill, SameCall
  <1>5. CASE Rename(c)
    <2>1. call[c].op = "move" /\ call[c].dest \in Paths
      BY <1>5, <1>t DEF Rename, TypeInv, Begun
    <2>2. CASE file[call[c].path] = None
      BY <1>5, <1>t, <1>d, <1>s, <2>1, <2>2, StepFacts DEF Rename, SameCall, TypeOK
    <2>3. CASE file[call[c].path] # None
      <3>1. file' \in [Paths -> Held]
        BY <1>5, <1>t, <2>1, <2>3 DEF Rename, TypeOK, Held
      <3>2. QED
        BY <1>5, <1>t, <1>d, <2>1, <2>3, <3>1, RenamedFacts DEF Rename
    <2>4. QED
      BY <2>2, <2>3
  <1>6. QED
    BY <1>1, <1>2, <1>3, <1>4, <1>5 DEF ChangeStep

LEMMA CrashFacts ==
    ASSUME TypeInv, Crash
    PROVE  /\ call' \in [Calls -> CallRecords]
           /\ \A o \in Calls :
                 /\ call'[o].op = call[o].op /\ call'[o].path = call[o].path
                 /\ call'[o].dest = call[o].dest /\ call'[o].from = call[o].from
                 /\ call'[o].victims = call[o].victims /\ call'[o].then = call[o].then
                 /\ call'[o].at = call[o].at
           /\ Active' = {}
           /\ UNCHANGED <<file, storeVars, shared, spared>>
           /\ crashed' = TRUE
  <1>1. call \in [Calls -> CallRecords]
    BY DEF TypeInv, TypeOK, CallRecords
  <1>2. ASSUME NEW o \in Calls
        PROVE  \/ /\ o \in Active \/ call[o].dead
                  /\ call'[o] = [call[o] EXCEPT !.dead = TRUE]
               \/ /\ ~ (o \in Active \/ call[o].dead)
                  /\ call'[o] = [call[o] EXCEPT !.dead = FALSE]
    <2>1. call'[o] = [call[o] EXCEPT !.dead = call[o].dead \/ o \in Active]
      BY DEF Crash
    <2>2. CASE o \in Active \/ call[o].dead
      <3>1. (call[o].dead \/ o \in Active) = TRUE
        BY <2>2
      <3>2. QED
        BY <2>1, <2>2, <3>1
    <2>3. CASE ~ (o \in Active \/ call[o].dead)
      <3>1. (call[o].dead \/ o \in Active) = FALSE
        BY <2>3
      <3>2. QED
        BY <2>1, <2>3, <3>1
    <2>4. QED
      BY <2>2, <2>3
  <1>3. ASSUME NEW o \in Calls
        PROVE  /\ call'[o] \in CallRecords
               /\ call'[o].op = call[o].op /\ call'[o].path = call[o].path
               /\ call'[o].dest = call[o].dest /\ call'[o].from = call[o].from
               /\ call'[o].victims = call[o].victims /\ call'[o].then = call[o].then
               /\ call'[o].at = call[o].at
               /\ o \in Active \/ call[o].dead => call'[o].dead = TRUE
    <2>1. call[o] \in CallRecords
      BY <1>1
    <2>2. ASSUME NEW dead \in BOOLEAN
          PROVE  LET r == [call[o] EXCEPT !.dead = dead]
                 IN  /\ r \in CallRecords /\ r.dead = dead
                     /\ r.op = call[o].op /\ r.path = call[o].path
                     /\ r.dest = call[o].dest /\ r.from = call[o].from
                     /\ r.victims = call[o].victims /\ r.then = call[o].then
                     /\ r.at = call[o].at
      BY <2>1 DEF CallRecords
    <2>3. CASE o \in Active \/ call[o].dead
      BY <1>2, <2>2, <2>3
    <2>4. CASE ~ (o \in Active \/ call[o].dead)
      BY <1>2, <2>2, <2>4
    <2>5. QED
      BY <2>3, <2>4
  <1>4. Active' = {}
    BY <1>3 DEF Active
  <1>5. call' = [o \in Calls |-> call'[o]]
    BY DEF Crash
  <1>6. QED
    BY <1>3, <1>4, <1>5 DEF Crash

LEMMA TypeStep == TypeInv /\ [Next]_vars => TypeInv'
  <1> SUFFICES ASSUME TypeInv, [Next]_vars PROVE TypeInv'
    OBVIOUS
  <1>t. TypeOK /\ call \in [Calls -> CallRecords]
    BY DEF TypeInv, TypeOK, CallRecords
  <1>1. ASSUME NEW c \in Calls,
               \/ \E p \in Paths : Write(c, p) \/ Edit(c, p)
               \/ \E p, q \in Paths : Move(c, p, q)
               \/ \E s \in Calls : Restore(c, s)
        PROVE  TypeInv'
    <2>1. /\ call[c].at = "new" /\ call' \in [Calls -> CallRecords]
          /\ \A o \in Calls : o # c => call'[o] = call[o]
          /\ Begun(c)' /\ UNCHANGED <<file, storeVars, crashed>>
          /\ shared' \subseteq Calls /\ spared' \subseteq Calls
      BY <1>1, BeginFacts
    <2>2. TypeOK'
      BY <1>t, <2>1 DEF TypeOK, CallRecords, storeVars
    <2>3. \A o \in Calls : Begun(o)'
      BY <2>1 DEF TypeInv, Begun
    <2>4. c \notin ToSet(order)
      BY <2>1 DEF TypeInv
    <2>5. \A s \in ToSet(order)' : call'[s] = call[s] /\ s \in ToSet(order)
      BY <1>t, <2>1, <2>4, OrderFacts DEF storeVars
    <2>6. ToSet(order)' = ToSet(order) /\ call'[c].at \in {"stat", "failed"}
      BY <1>1, <2>1, BeginFacts DEF storeVars
    <2>7. QED
      BY <2>1, <2>2, <2>3, <2>5, <2>6 DEF TypeInv
  <1>2. ASSUME NEW c \in Active, StoreStep(c) PROVE TypeInv'
    <2>1. c \in Calls
      BY ActiveFacts
    <2>2. /\ call' \in [Calls -> CallRecords] /\ SameCall(c)
          /\ \A o \in Calls : o # c => call'[o] = call[o]
          /\ call[c].at \in {"stat", "meta", "collect", "recollect", "purge", "purgeMeta"}
          /\ call'[c].at \in {"meta", "collect", "recollect", "purge", "purgeMeta", "act"}
          /\ call'[c].at = "meta" => order' = Append(order, c)
          /\ spared' \subseteq spared
          /\ UNCHANGED <<file, aged, shared, crashed>>
      BY <1>2, StoreStepFacts
    <2>3. \A o \in Calls : Begun(o)'
      BY <2>1, <2>2 DEF TypeInv, Begun, SameCall
    <2>4. /\ blob' \in [Calls -> Held] /\ listed' \subseteq Calls
          /\ order' \in Seq(Calls) /\ IsInjective(order')
          /\ listed' \subseteq ToSet(order)'
          /\ ToSet(order) \subseteq ToSet(order)'
          /\ ToSet(order)' \subseteq ToSet(order) \union {c}
      <3>1. CASE TakeBlob(c) /\ order' # order
        <4>1. /\ order' = Append(order, c) /\ listed' = listed
              /\ blob' = [blob EXCEPT ![c] = file[call[c].path]]
              /\ call[c].at = "stat"
          BY <3>1 DEF TakeBlob
        <4>2. c \notin ToSet(order)
          BY <4>1 DEF TypeInv
        <4>3. call[c].path \in Paths
          BY <2>1, <4>1 DEF TypeInv, Begun
        <4>4. blob' \in [Calls -> Held]
          BY <1>t, <2>1, <4>1, <4>3 DEF TypeOK
        <4>5. QED
          BY <1>t, <2>1, <4>1, <4>2, <4>4, AppendOrders DEF TypeOK
      <3>2. CASE TakeBlob(c) /\ order' = order
        <4>1. call[c].path \in Paths
          BY <2>1, <2>2 DEF TypeInv, Begun
        <4>2. blob' \in [Calls -> Held] /\ listed' = listed
          BY <1>t, <2>1, <3>2, <4>1 DEF TakeBlob, TypeOK
        <4>3. ToSet(order)' = ToSet(order)
          BY <3>2
        <4>4. QED
          BY <1>t, <3>2, <4>2, <4>3 DEF TypeOK
      <3>3. CASE WriteMeta(c)
        <4>1. c \in ToSet(order)
          BY <2>1, <3>3 DEF WriteMeta, TypeInv
        <4>2. QED
          BY <1>t, <2>1, <3>3, <4>1 DEF WriteMeta, TypeOK
      <3>4. CASE Collect(c) \/ Recollect(c)
        BY <1>t, <3>4 DEF Collect, Recollect, storeVars, TypeOK
      <3>5. CASE PurgeBlob(c)
        BY <1>t, <3>5 DEF PurgeBlob, TypeOK, Held
      <3>6. CASE PurgeMeta(c)
        BY <1>t, <3>6 DEF PurgeMeta, TypeOK
      <3>7. QED
        BY <1>2, <3>1, <3>2, <3>3, <3>4, <3>5, <3>6 DEF StoreStep
    <2>5. TypeOK'
      BY <1>t, <2>2, <2>4 DEF TypeOK, CallRecords
    <2>6. ASSUME NEW s \in ToSet(order)'
          PROVE  call'[s].at \notin {"new", "stat"} /\ call'[s].op # "none"
      <3>1. CASE s = c
        <4>1. call[c].op # "none"
          BY <2>1, <2>2 DEF TypeInv, Begun
        <4>2. QED
          BY <2>2, <3>1, <4>1 DEF SameCall
      <3>2. CASE s # c
        <4>1. s \in ToSet(order) /\ s \in Calls
          BY <1>t, <2>4, <3>2, OrderFacts
        <4>2. QED
          BY <2>2, <3>2, <4>1 DEF TypeInv
      <3>3. QED
        BY <3>1, <3>2
    <2>7. \A o \in Calls : call'[o].at = "meta" => o \in ToSet(order)'
      <3>1. call'[c].at = "meta" => c \in ToSet(order)'
        BY <1>t, <2>1, <2>2, <2>4, AppendOrders
      <3>2. QED
        BY <2>2, <2>4, <3>1 DEF TypeInv
    <2>8. QED
      BY <2>3, <2>5, <2>6, <2>7 DEF TypeInv
  <1>3. ASSUME NEW c \in Active, ChangeStep(c) PROVE TypeInv'
    <2>1. c \in Calls
      BY ActiveFacts
    <2>2. /\ call' \in [Calls -> CallRecords]
          /\ call[c].at \in {"act", "publish", "fill", "unlinked"}
          /\ call'[c].at \in {"publish", "failed", "fill", "ok"}
          /\ \A o \in Calls :
                /\ call'[o].op = call[o].op /\ call'[o].path = call[o].path
                /\ call'[o].from = call[o].from
                /\ call[o].op = "move" \/ call'[o].at = "fill" => call'[o].dest \in Paths
                /\ o # c => \/ call'[o].at = call[o].at
                            \/ call[o].at = "fill" /\ call'[o].at = "unlinked"
          /\ file' \in [Paths -> Held]
          /\ UNCHANGED <<storeVars, shared, spared, crashed>>
      BY <1>3, ChangeStepFacts
    <2>3. TypeOK'
      BY <1>t, <2>2 DEF TypeOK, CallRecords, storeVars
    <2>4. \A o \in Calls : Begun(o)'
      BY <2>1, <2>2 DEF TypeInv, Begun
    <2>5. \A s \in ToSet(order)' : s \in ToSet(order) /\ s \in Calls
      BY <1>t, <2>2, OrderFacts DEF storeVars
    <2>6. \A s \in ToSet(order)' : call'[s].at \notin {"new", "stat"} /\ call'[s].op # "none"
      BY <2>1, <2>2, <2>5 DEF TypeInv
    <2>7. ToSet(order)' = ToSet(order)
      BY <2>2 DEF storeVars
    <2>8. \A o \in Calls : call'[o].at = "meta" => o \in ToSet(order)'
      BY <2>2, <2>7 DEF TypeInv
    <2>9. QED
      BY <2>3, <2>4, <2>6, <2>8 DEF TypeInv
  <1>4. CASE Age
    <2>1. /\ aged' \subseteq Calls
          /\ UNCHANGED <<file, blob, listed, order, call, shared, spared, crashed>>
      BY <1>t, <1>4, OrderFacts DEF Age, TypeOK
    <2>2. TypeOK' /\ (\A o \in Calls : Begun(o)')
      BY <1>t, <2>1 DEF TypeOK, TypeInv, Begun
    <2>3. QED
      BY <2>1, <2>2 DEF TypeInv
  <1>5. CASE Crash
    <2>1. /\ call' \in [Calls -> CallRecords]
          /\ \A o \in Calls :
                /\ call'[o].op = call[o].op /\ call'[o].path = call[o].path
                /\ call'[o].dest = call[o].dest /\ call'[o].from = call[o].from
                /\ call'[o].at = call[o].at
          /\ UNCHANGED <<file, storeVars, shared, spared>> /\ crashed' = TRUE
      BY <1>5, CrashFacts
    <2>2. TypeOK'
      BY <1>t, <2>1 DEF TypeOK, CallRecords, storeVars
    <2>3. \A o \in Calls : Begun(o)'
      BY <2>1 DEF TypeInv, Begun
    <2>4. \A s \in ToSet(order)' : s \in ToSet(order) /\ s \in Calls
      BY <1>t, <2>1, OrderFacts DEF storeVars
    <2>5. ToSet(order)' = ToSet(order)
      BY <2>1 DEF storeVars
    <2>6. QED
      BY <2>1, <2>2, <2>3, <2>4, <2>5 DEF TypeInv
  <1>6. CASE UNCHANGED vars
    BY <1>6 DEF vars, storeVars, TypeInv, TypeOK, Begun
  <1>7. QED
    BY <1>1, <1>2, <1>3, <1>4, <1>5, <1>6
       DEF Next, CallStep, StoreStep, ChangeStep

\* Every part of the state of the file tools and their snapshots has the shape
\* TypeOK gives it, and each snapshot is taken once.
THEOREM TypeCorrect == Spec => []TypeOK
  <1>1. TypeInv => TypeOK
    BY DEF TypeInv
  <1>2. QED
    BY <1>1, TypeInit, TypeStep, PTL DEF Spec

-----------------------------------------------------------------------------
(* A snapshot and its blob, the sweeps and what they remove.               *)

\* A step that takes, lists and removes nothing, and moves no sweep.
QuietStep ==
    /\ UNCHANGED <<blob, listed, order>>
    /\ \A o \in Calls :
          \/ /\ call'[o].at = call[o].at
             /\ call'[o].victims = call[o].victims /\ call'[o].then = call[o].then
          \/ /\ {call[o].at, call'[o].at} \intersect
                   {"meta", "collect", "recollect", "purge", "purgeMeta"} = {}
             /\ call'[o].victims \subseteq call[o].victims

LEMMA KindsOfSteps ==
    ASSUME TypeInv, [Next]_vars
    PROVE  \/ QuietStep /\ (Age \/ aged' = aged)
           \/ \E c \in Active : StoreStep(c)
  <1>1. ASSUME NEW c \in Calls,
               \/ \E p \in Paths : Write(c, p) \/ Edit(c, p)
               \/ \E p, q \in Paths : Move(c, p, q)
               \/ \E s \in Calls : Restore(c, s)
        PROVE  QuietStep /\ aged' = aged
    <2>1. /\ call[c].at = "new" /\ call'[c].at \in {"stat", "failed"}
          /\ \A o \in Calls : o # c => call'[o] = call[o]
          /\ call'[c].victims \subseteq call[c].victims
          /\ UNCHANGED storeVars
      BY <1>1, BeginFacts
    <2>2. QED
      BY <2>1 DEF QuietStep, storeVars
  <1>2. ASSUME NEW c \in Active, ChangeStep(c) PROVE QuietStep /\ aged' = aged
    <2>1. /\ call[c].at \in {"act", "publish", "fill", "unlinked"}
          /\ call'[c].at \in {"publish", "failed", "fill", "ok"}
          /\ \A o \in Calls :
                /\ call'[o].victims = call[o].victims /\ call'[o].then = call[o].then
                /\ o # c => \/ call'[o].at = call[o].at
                            \/ call[o].at = "fill" /\ call'[o].at = "unlinked"
          /\ UNCHANGED storeVars
      BY <1>2, ChangeStepFacts
    <2>2. QED
      BY <2>1 DEF QuietStep, storeVars
  <1>3. ASSUME Age PROVE QuietStep
    BY <1>3 DEF Age, QuietStep
  <1>4. ASSUME Crash PROVE QuietStep /\ aged' = aged
    BY <1>4, CrashFacts DEF QuietStep, storeVars
  <1>5. ASSUME UNCHANGED vars PROVE QuietStep /\ aged' = aged
    BY <1>5 DEF vars, storeVars, QuietStep
  <1>6. QED
    BY <1>1, <1>2, <1>3, <1>4, <1>5 DEF Next, CallStep, StoreStep, ChangeStep

LEMMA BeforeStays ==
    ASSUME TypeInv, [Next]_vars
    PROVE  /\ \A s : \A t \in ToSet(order) : Before(s, t)' <=> Before(s, t)
           /\ ToSet(order) \subseteq ToSet(order)'
  <1>1. CASE order' = order
    BY <1>1 DEF Before
  <1>2. ASSUME NEW c \in Active, TakeBlob(c), order' # order
        PROVE  /\ \A s : \A t \in ToSet(order) : Before(s, t)' <=> Before(s, t)
               /\ ToSet(order) \subseteq ToSet(order)'
    <2>1. TypeOK /\ c \in Calls /\ order' = Append(order, c) /\ c \notin ToSet(order)
      BY <1>2, ActiveFacts DEF TakeBlob, TypeInv
    <2>2. QED
      BY <2>1, AppendOrders
  <1>3. order' = order \/ \E c \in Active : TakeBlob(c)
    BY KindsOfSteps
       DEF QuietStep, StoreStep, WriteMeta, Collect, Recollect, PurgeBlob, PurgeMeta, storeVars
  <1>4. QED
    BY <1>1, <1>2, <1>3

LEMMA VictimIsOne ==
    ASSUME TypeOK, NEW c, NEW s, NEW t, NextVictim(c, s), NextVictim(c, t)
    PROVE  s = t
  BY BeforeOrders DEF NextVictim

LEMMA SameVictims ==
    ASSUME NEW c, call'[c].victims = call[c].victims, call'[c].then = call[c].then,
           \A s, t \in call[c].victims : Before(s, t)' <=> Before(s, t), NEW s
    PROVE  NextVictim(c, s)' <=> NextVictim(c, s)
  BY DEF NextVictim

PairsInv == RecordsInv /\ Paired

LEMMA PairsInit == Init => PairsInv
  <1> SUFFICES ASSUME Init PROVE PairsInv
    OBVIOUS
  <1>1. \A c \in Calls : call[c].at = "new" /\ call[c].victims = {} /\ blob[c] = None
    BY DEF Init, Fresh
  <1>2. listed = {}
    BY DEF Init
  <1>3. QED
    BY <1>1, <1>2 DEF PairsInv, RecordsInv, Paired

LEMMA PairsQuiet ==
    ASSUME TypeInv, PairsInv, [Next]_vars, QuietStep PROVE PairsInv'
  <1>1. UNCHANGED <<blob, listed, order>> /\ ToSet(order)' = ToSet(order)
    BY DEF QuietStep
  <1>2. ASSUME NEW o \in Calls, call[o].at = "purgeMeta" \/ call'[o].at = "purgeMeta"
        PROVE  /\ call'[o].at = call[o].at
               /\ \A s : NextVictim(o, s)' <=> NextVictim(o, s)
    <2>1. /\ call'[o].at = call[o].at
          /\ call'[o].victims = call[o].victims /\ call'[o].then = call[o].then
      BY <1>2 DEF QuietStep
    <2>2. \A s, t : Before(s, t)' <=> Before(s, t)
      BY <1>1 DEF Before
    <2>3. QED
      BY <2>1, <2>2, SameVictims
  <1>3. Recorded' = Recorded
    <2>1. \A o \in Calls : call'[o].at = "meta" <=> call[o].at = "meta"
      BY DEF QuietStep
    <2>2. ToSet(order) \subseteq Calls
      BY OrderFacts DEF TypeInv
    <2>3. QED
      BY <1>1, <2>1, <2>2 DEF Recorded
  <1>4. RecordsInv'
    <2>1. listed' \subseteq Recorded'
      BY <1>1, <1>3 DEF PairsInv, RecordsInv
    <2>2. ASSUME NEW o \in Calls
          PROVE  /\ call'[o].at = "meta" => blob'[o] # None
                 /\ call'[o].victims \subseteq Recorded'
                 /\ call'[o].at \notin {"purge", "purgeMeta"} => call'[o].victims = {}
      BY <1>1, <1>3 DEF QuietStep, PairsInv, RecordsInv
    <2>3. ASSUME NEW o \in Calls, call'[o].at = "purgeMeta", NEW s \in Calls, NextVictim(o, s)'
          PROVE  blob'[s] = None
      BY <1>1, <1>2, <2>3 DEF PairsInv, RecordsInv
    <2>4. QED
      BY <2>1, <2>2, <2>3 DEF RecordsInv
  <1>5. Paired'
    <2>1. ASSUME NEW s \in Calls, s \in listed', blob'[s] = None
          PROVE  \E o \in Calls : call'[o].at = "purgeMeta" /\ NextVictim(o, s)'
      <3>1. PICK o \in Calls : call[o].at = "purgeMeta" /\ NextVictim(o, s)
        BY <1>1, <2>1 DEF PairsInv, Paired
      <3>2. QED
        BY <1>2, <3>1
    <2>2. ASSUME NEW s \in Calls, s \notin listed', blob'[s] # None
          PROVE  call'[s].at = "meta"
      BY <1>1, <2>2 DEF QuietStep, PairsInv, Paired
    <2>3. QED
      BY <2>1, <2>2 DEF Paired
  <1>6. QED
    BY <1>4, <1>5 DEF PairsInv

\* What a store step leaves of a call's victims, and of the calls at work on one.
LEMMA OthersVictims ==
    ASSUME TypeInv, RecordsInv, [Next]_vars, NEW o \in Calls,
           call'[o].victims = call[o].victims, call'[o].then = call[o].then, NEW s
    PROVE  NextVictim(o, s)' <=> NextVictim(o, s)
  <1>1. call[o].victims \subseteq ToSet(order)
    BY DEF RecordsInv, Recorded
  <1>2. \A t, u \in call[o].victims : Before(t, u)' <=> Before(t, u)
    BY <1>1, BeforeStays
  <1>3. QED
    BY <1>2, SameVictims

LEMMA PairsStore ==
    ASSUME TypeInv, PairsInv, [Next]_vars, NEW c \in Active, StoreStep(c)
    PROVE  PairsInv'
  <1>t. TypeOK /\ c \in Calls /\ RecordsInv /\ Paired /\ ToSet(order) \subseteq Calls
    BY ActiveFacts, OrderFacts DEF TypeInv, PairsInv
  <1>s. {"act", "meta", "collect", "purgeMeta"} \subseteq Steps
    BY DEF Steps
  <1>o. \A o \in Calls : o # c => call'[o] = call[o]
    BY StoreStepFacts
  <1>v. ASSUME NEW o \in Calls, o # c, NEW s PROVE NextVictim(o, s)' <=> NextVictim(o, s)
    BY <1>t, <1>o, <1>v, OthersVictims
  <1>r. ASSUME NEW s \in Recorded, s # c PROVE s \in Recorded'
    BY <1>r, <1>t, <1>o, BeforeStays DEF Recorded
  <1>1. CASE TakeBlob(c)
    <2>1. call[c].at = "stat" /\ c \notin ToSet(order) /\ listed' = listed
      BY <1>1 DEF TakeBlob, TypeInv
    <2>2. /\ call'[c].at \in {"act", "meta"} /\ call'[c].victims = {}
          /\ call'[c].at = "meta" => blob'[c] # None
          /\ call'[c].at = "act" => blob'[c] = blob[c]
          /\ \A s \in Calls : s # c => blob'[s] = blob[s]
      <3>1. call[c].victims = {} /\ blob \in [Calls -> Held]
        BY <1>t, <2>1 DEF RecordsInv, TypeOK
      <3>2. CASE file[call[c].path] = None
        <4>1. Step(c, "act") /\ blob' = blob
          BY <1>1, <3>2 DEF TakeBlob
        <4>2. QED
          BY <1>t, <1>s, <3>1, <4>1, StepFacts
      <3>3. CASE file[call[c].path] # None
        <4>1. Step(c, "meta") /\ blob' = [blob EXCEPT ![c] = file[call[c].path]]
          BY <1>1, <3>3 DEF TakeBlob
        <4>2. QED
          BY <1>t, <1>s, <3>1, <3>3, <4>1, StepFacts
      <3>4. QED
        BY <3>2, <3>3
    <2>3. \A s \in Recorded : s # c /\ s \in Recorded'
      BY <1>r, <2>1 DEF Recorded
    <2>4. RecordsInv'
      <3>1. listed' \subseteq Recorded'
        BY <1>t, <2>1, <2>3 DEF RecordsInv
      <3>2. ASSUME NEW o \in Calls
            PROVE  /\ call'[o].at = "meta" => blob'[o] # None
                   /\ call'[o].victims \subseteq Recorded'
                   /\ call'[o].at \notin {"purge", "purgeMeta"} => call'[o].victims = {}
        BY <1>t, <1>o, <2>2, <2>3 DEF RecordsInv
      <3>3. ASSUME NEW o \in Calls, call'[o].at = "purgeMeta",
                   NEW s \in Calls, NextVictim(o, s)'
            PROVE  blob'[s] = None
        <4>1. o # c /\ NextVictim(o, s)
          BY <1>v, <2>2, <3>3
        <4>2. blob[s] = None /\ s # c
          BY <1>t, <1>o, <2>3, <3>3, <4>1 DEF RecordsInv, NextVictim
        <4>3. QED
          BY <2>2, <4>2
      <3>4. QED
        BY <3>1, <3>2, <3>3 DEF RecordsInv
    <2>5. Paired'
      <3>1. ASSUME NEW s \in Calls, s \in listed', blob'[s] = None
            PROVE  \E o \in Calls : call'[o].at = "purgeMeta" /\ NextVictim(o, s)'
        <4>1. s \in listed /\ blob[s] = None
          BY <1>t, <2>1, <2>2, <2>3, <3>1 DEF RecordsInv
        <4>2. PICK o \in Calls : call[o].at = "purgeMeta" /\ NextVictim(o, s)
          BY <1>t, <4>1 DEF Paired
        <4>3. o # c
          BY <2>1, <4>2
        <4>4. QED
          BY <1>o, <1>v, <4>2, <4>3
      <3>2. ASSUME NEW s \in Calls, s \notin listed', blob'[s] # None
            PROVE  call'[s].at = "meta"
        BY <1>t, <1>o, <2>1, <2>2, <3>2 DEF Paired
      <3>3. QED
        BY <3>1, <3>2 DEF Paired
    <2>6. QED
      BY <2>4, <2>5 DEF PairsInv
  <1>2. CASE WriteMeta(c)
    <2>1. /\ call[c].at = "meta" /\ listed' = listed \union {c}
          /\ blob' = blob /\ order' = order
      BY <1>2 DEF WriteMeta
    <2>2. call'[c].at = "collect" /\ call'[c].victims = {} /\ c \in Recorded'
      <3>1. call[c].victims = {} /\ c \in ToSet(order)
        BY <1>t, <2>1 DEF RecordsInv, TypeInv
      <3>2. Step(c, "collect")
        BY <1>2 DEF WriteMeta
      <3>3. QED
        BY <1>t, <1>s, <2>1, <3>1, <3>2, StepFacts DEF Recorded
    <2>3. \A s \in Recorded : s \in Recorded'
      BY <1>r, <2>2
    <2>4. RecordsInv'
      <3>1. listed' \subseteq Recorded'
        BY <1>t, <2>1, <2>2, <2>3 DEF RecordsInv
      <3>2. ASSUME NEW o \in Calls
            PROVE  /\ call'[o].at = "meta" => blob'[o] # None
                   /\ call'[o].victims \subseteq Recorded'
                   /\ call'[o].at \notin {"purge", "purgeMeta"} => call'[o].victims = {}
        BY <1>t, <1>o, <2>1, <2>2, <2>3 DEF RecordsInv
      <3>3. ASSUME NEW o \in Calls, call'[o].at = "purgeMeta",
                   NEW s \in Calls, NextVictim(o, s)'
            PROVE  blob'[s] = None
        BY <1>t, <1>o, <1>v, <2>1, <2>2, <3>3 DEF RecordsInv
      <3>4. QED
        BY <3>1, <3>2, <3>3 DEF RecordsInv
    <2>5. Paired'
      <3>1. ASSUME NEW s \in Calls, s \in listed', blob'[s] = None
            PROVE  \E o \in Calls : call'[o].at = "purgeMeta" /\ NextVictim(o, s)'
        <4>1. s \in listed /\ blob[s] = None
          BY <1>t, <2>1, <3>1 DEF RecordsInv
        <4>2. PICK o \in Calls : call[o].at = "purgeMeta" /\ NextVictim(o, s)
          BY <1>t, <4>1 DEF Paired
        <4>3. o # c
          BY <2>1, <4>2
        <4>4. QED
          BY <1>o, <1>v, <4>2, <4>3
      <3>2. ASSUME NEW s \in Calls, s \notin listed', blob'[s] # None
            PROVE  call'[s].at = "meta"
        BY <1>t, <1>o, <2>1, <3>2 DEF Paired
      <3>3. QED
        BY <3>1, <3>2 DEF Paired
    <2>6. QED
      BY <2>4, <2>5 DEF PairsInv
  <1>3. CASE Collect(c) \/ Recollect(c)
    <2>1. /\ call[c].at \in {"collect", "recollect"} /\ listed' = listed
          /\ blob' = blob /\ order' = order
      BY <1>3 DEF Collect, Recollect, storeVars
    <2>2. /\ call'[c].at \notin {"meta", "purgeMeta"} /\ call'[c].victims \subseteq listed
          /\ call'[c].at \notin {"purge", "purgeMeta"} => call'[c].victims = {}
      <3>1. PICK V \in SUBSET listed, next \in {"recollect", "act"} : Sweep(c, V, next)
        BY <1>3 DEF Collect, Recollect, Expired, Surplus
      <3>2. V \in SUBSET Calls
        BY <1>t DEF TypeOK
      <3>3. /\ call'[c].at = (IF V = {} THEN next ELSE "purge")
            /\ call'[c].victims = V
        BY <1>t, <3>1, <3>2, SweepFacts
      <3>4. QED
        BY <3>1, <3>3
    <2>3. Recorded \subseteq Recorded'
      <3>1. c \in ToSet(order) => c \in Recorded'
        BY <2>1, <2>2 DEF Recorded
      <3>2. QED
        BY <1>r, <3>1 DEF Recorded
    <2>4. RecordsInv'
      <3>1. listed' \subseteq Recorded'
        BY <1>t, <2>1, <2>3 DEF RecordsInv
      <3>2. ASSUME NEW o \in Calls
            PROVE  /\ call'[o].at = "meta" => blob'[o] # None
                   /\ call'[o].victims \subseteq Recorded'
                   /\ call'[o].at \notin {"purge", "purgeMeta"} => call'[o].victims = {}
        BY <1>t, <1>o, <2>1, <2>2, <2>3, <3>1 DEF RecordsInv
      <3>3. ASSUME NEW o \in Calls, call'[o].at = "purgeMeta",
                   NEW s \in Calls, NextVictim(o, s)'
            PROVE  blob'[s] = None
        BY <1>t, <1>o, <1>v, <2>1, <2>2, <3>3 DEF RecordsInv
      <3>4. QED
        BY <3>1, <3>2, <3>3 DEF RecordsInv
    <2>5. Paired'
      <3>1. ASSUME NEW s \in Calls, s \in listed', blob'[s] = None
            PROVE  \E o \in Calls : call'[o].at = "purgeMeta" /\ NextVictim(o, s)'
        <4>1. PICK o \in Calls : call[o].at = "purgeMeta" /\ NextVictim(o, s)
          BY <1>t, <2>1, <3>1 DEF Paired
        <4>2. o # c
          BY <2>1, <4>1
        <4>3. QED
          BY <1>o, <1>v, <4>1, <4>2
      <3>2. ASSUME NEW s \in Calls, s \notin listed', blob'[s] # None
            PROVE  call'[s].at = "meta"
        BY <1>t, <1>o, <2>1, <3>2 DEF Paired
      <3>3. QED
        BY <3>1, <3>2 DEF Paired
    <2>6. QED
      BY <2>4, <2>5 DEF PairsInv
  <1>4. CASE PurgeBlob(c)
    <2>1. PICK v \in Calls : NextVictim(c, v) /\ blob' = [blob EXCEPT ![v] = None]
      BY <1>4 DEF PurgeBlob
    <2>2. call[c].at = "purge" /\ listed' = listed /\ order' = order /\ Step(c, "purgeMeta")
      BY <1>4 DEF PurgeBlob
    <2>3. /\ call'[c].at = "purgeMeta" /\ call'[c].victims = call[c].victims
          /\ call'[c].then = call[c].then
      BY <1>t, <1>s, <2>2, StepFacts
    <2>4. /\ blob'[v] = None /\ \A s \in Calls : s # v => blob'[s] = blob[s]
      BY <1>t, <2>1 DEF TypeOK
    <2>5. v \in Recorded
      BY <1>t, <2>1 DEF RecordsInv, NextVictim
    <2>6. Recorded' = Recorded
      BY <1>t, <1>o, <2>2, <2>3 DEF Recorded
    <2>7. \A s : NextVictim(c, s)' <=> NextVictim(c, s)
      BY <1>t, <2>3, OthersVictims
    <2>8. RecordsInv'
      <3>1. listed' \subseteq Recorded'
        BY <1>t, <2>2, <2>6 DEF RecordsInv
      <3>2. ASSUME NEW o \in Calls
            PROVE  /\ call'[o].at = "meta" => blob'[o] # None
                   /\ call'[o].victims \subseteq Recorded'
                   /\ call'[o].at \notin {"purge", "purgeMeta"} => call'[o].victims = {}
        BY <1>t, <1>o, <2>3, <2>4, <2>5, <2>6 DEF RecordsInv, Recorded
      <3>3. ASSUME NEW o \in Calls, call'[o].at = "purgeMeta",
                   NEW s \in Calls, NextVictim(o, s)'
            PROVE  blob'[s] = None
        <4>1. CASE o = c
          BY <1>t, <2>1, <2>4, <2>7, <3>3, <4>1, VictimIsOne
        <4>2. CASE o # c
          BY <1>t, <1>o, <1>v, <2>4, <3>3, <4>2 DEF RecordsInv
        <4>3. QED
          BY <4>1, <4>2
      <3>4. QED
        BY <3>1, <3>2, <3>3 DEF RecordsInv
    <2>9. Paired'
      <3>1. ASSUME NEW s \in Calls, s \in listed', blob'[s] = None
            PROVE  \E o \in Calls : call'[o].at = "purgeMeta" /\ NextVictim(o, s)'
        <4>1. CASE s = v
          BY <1>t, <2>1, <2>3, <2>7, <4>1
        <4>2. CASE s # v
          <5>1. PICK o \in Calls : call[o].at = "purgeMeta" /\ NextVictim(o, s)
            BY <1>t, <2>2, <2>4, <3>1, <4>2 DEF Paired
          <5>2. o # c
            BY <2>2, <5>1
          <5>3. QED
            BY <1>o, <1>v, <5>1, <5>2
        <4>3. QED
          BY <4>1, <4>2
      <3>2. ASSUME NEW s \in Calls, s \notin listed', blob'[s] # None
            PROVE  call'[s].at = "meta"
        <4>1. call[s].at = "meta"
          BY <1>t, <2>2, <2>4, <3>2 DEF Paired
        <4>2. QED
          BY <1>o, <2>2, <4>1
      <3>3. QED
        BY <3>1, <3>2 DEF Paired
    <2>10. QED
      BY <2>8, <2>9 DEF PairsInv
  <1>5. CASE PurgeMeta(c)
    <2>1. PICK v \in Calls : /\ NextVictim(c, v) /\ listed' = listed \ {v}
                             /\ Sweep(c, call[c].victims \ {v}, call[c].then)
      BY <1>5 DEF PurgeMeta
    <2>2. call[c].at = "purgeMeta" /\ blob' = blob /\ order' = order
      BY <1>5 DEF PurgeMeta
    <2>3. /\ call'[c].at \notin {"meta", "purgeMeta"} /\ call'[c].victims \subseteq call[c].victims
          /\ call'[c].at \notin {"purge", "purgeMeta"} => call'[c].victims = {}
      <3>1. call[c].victims \ {v} \in SUBSET Calls /\ call[c].then \in {"recollect", "act"}
        BY <1>t DEF TypeOK
      <3>2. QED
        BY <1>t, <2>1, <3>1, SweepFacts
    <2>4. blob[v] = None
      BY <1>t, <2>1, <2>2 DEF RecordsInv
    <2>5. Recorded' = Recorded
      BY <1>t, <1>o, <2>2, <2>3 DEF Recorded
    <2>6. RecordsInv'
      <3>1. listed' \subseteq Recorded'
        BY <1>t, <2>1, <2>5 DEF RecordsInv
      <3>2. ASSUME NEW o \in Calls
            PROVE  /\ call'[o].at = "meta" => blob'[o] # None
                   /\ call'[o].victims \subseteq Recorded'
                   /\ call'[o].at \notin {"purge", "purgeMeta"} => call'[o].victims = {}
        BY <1>t, <1>o, <2>2, <2>3, <2>5 DEF RecordsInv
      <3>3. ASSUME NEW o \in Calls, call'[o].at = "purgeMeta",
                   NEW s \in Calls, NextVictim(o, s)'
            PROVE  blob'[s] = None
        BY <1>t, <1>o, <1>v, <2>2, <2>3, <3>3 DEF RecordsInv
      <3>4. QED
        BY <3>1, <3>2, <3>3 DEF RecordsInv
    <2>7. Paired'
      <3>1. ASSUME NEW s \in Calls, s \in listed', blob'[s] = None
            PROVE  \E o \in Calls : call'[o].at = "purgeMeta" /\ NextVictim(o, s)'
        <4>1. PICK o \in Calls : call[o].at = "purgeMeta" /\ NextVictim(o, s)
          BY <1>t, <2>1, <2>2, <3>1 DEF Paired
        <4>2. o # c
          BY <1>t, <2>1, <3>1, <4>1, VictimIsOne
        <4>3. QED
          BY <1>o, <1>v, <4>1, <4>2
      <3>2. ASSUME NEW s \in Calls, s \notin listed', blob'[s] # None
            PROVE  call'[s].at = "meta"
        <4>1. call[s].at = "meta"
          BY <1>t, <2>1, <2>2, <2>4, <3>2 DEF Paired
        <4>2. QED
          BY <1>o, <2>2, <4>1
      <3>3. QED
        BY <3>1, <3>2 DEF Paired
    <2>8. QED
      BY <2>6, <2>7 DEF PairsInv
  <1>6. QED
    BY <1>1, <1>2, <1>3, <1>4, <1>5 DEF StoreStep

LEMMA PairsStep == TypeInv /\ PairsInv /\ [Next]_vars => PairsInv'
  BY KindsOfSteps, PairsQuiet, PairsStore

-----------------------------------------------------------------------------
(* What a sweep removes stays expired or beyond the cap.                   *)

AgesInv == AgedFirst /\ DoomedInv

LEMMA AgesInit == Init => AgesInv
  <1> SUFFICES ASSUME Init PROVE AgesInv
    OBVIOUS
  <1>1. aged = {} /\ listed = {} /\ \A c \in Calls : call[c].victims = {}
    BY DEF Init, Fresh
  <1>2. QED
    BY <1>1, FS_EmptySet DEF AgesInv, AgedFirst, DoomedInv

LEMMA AgedStep ==
    ASSUME TypeInv, AgedFirst, [Next]_vars
    PROVE  AgedFirst' /\ aged \subseteq aged'
  <1>t. TypeOK
    BY DEF TypeInv
  <1>1. CASE aged' = aged
    <2>1. aged' \subseteq ToSet(order)'
      BY <1>1, BeforeStays DEF AgedFirst
    <2>2. ASSUME NEW s \in Calls, NEW t \in aged', Before(s, t)' PROVE s \in aged'
      BY <1>1, <2>2, BeforeStays DEF AgedFirst
    <2>3. QED
      BY <1>1, <2>1, <2>2 DEF AgedFirst
  <1>2. CASE Age
    <2>1. PICK i \in DOMAIN order :
             /\ \A j \in 1..(i - 1) : order[j] \in aged
             /\ aged' = aged \union {order[i]}
      BY <1>2 DEF Age
    <2>2. order' = order /\ \A s, t : Before(s, t)' <=> Before(s, t)
      BY <1>2 DEF Age, Before
    <2>3. aged' \subseteq ToSet(order)'
      BY <1>t, <2>1, <2>2, OrderFacts DEF AgedFirst
    <2>4. ASSUME NEW s \in Calls, NEW t \in aged', Before(s, t) PROVE s \in aged'
      <3>1. CASE t \in aged
        BY <2>1, <2>4, <3>1 DEF AgedFirst
      <3>2. CASE t = order[i]
        <4>1. PICK k, l \in DOMAIN order : order[k] = s /\ order[l] = t /\ k < l
          BY <2>4 DEF Before
        <4>2. l = i /\ k \in 1..(i - 1)
          BY <1>t, <3>2, <4>1, OrderFacts
        <4>3. QED
          BY <2>1, <4>1, <4>2
      <3>3. QED
        BY <2>1, <3>1, <3>2
    <2>5. QED
      BY <2>1, <2>2, <2>3, <2>4 DEF AgedFirst
  <1>3. aged' = aged \/ Age
    BY KindsOfSteps, StoreStepFacts
  <1>4. QED
    BY <1>1, <1>2, <1>3

\* Taking and listing snapshots brings none back below the cap, and removing one
\* brings back none that is newer.
LEMMA NewerGrows ==
    ASSUME TypeInv, RecordsInv, [Next]_vars, IsFiniteSet(listed'),
           listed \subseteq listed', NEW s
    PROVE  Newer(s)' \in Nat /\ Newer(s) <= Newer(s)'
  <1> DEFINE S == {t \in listed : Before(s, t)}
             T == {t \in listed' : Before(s, t)'}
  <1>1. IsFiniteSet(T) /\ Newer(s) = Cardinality(S) /\ Newer(s)' = Cardinality(T)
    BY FS_Subset DEF Newer
  <1>2. S \subseteq T
    BY BeforeStays DEF RecordsInv, Recorded
  <1> HIDE DEF S, T
  <1>3. QED
    BY <1>1, <1>2, FS_Subset, FS_CardinalityType

LEMMA NewerShrinks ==
    ASSUME TypeInv, RecordsInv, [Next]_vars, IsFiniteSet(listed),
           NEW v, listed' = listed \ {v}, NEW s
    PROVE  /\ Newer(s)' \in Nat /\ Newer(s)' <= Newer(s)
           /\ ~ (v \in listed /\ Before(s, v)) => Newer(s)' = Newer(s)
           /\ Newer(s)' >= Newer(s) - 1
  <1> DEFINE S == {t \in listed : Before(s, t)}
             T == {t \in listed' : Before(s, t)'}
  <1>1. IsFiniteSet(S) /\ Newer(s) = Cardinality(S) /\ Newer(s)' = Cardinality(T)
    BY FS_Subset DEF Newer
  <1>2. T = S \ {v}
    BY BeforeStays DEF RecordsInv, Recorded
  <1>3. v \in S <=> v \in listed /\ Before(s, v)
    OBVIOUS
  <1> HIDE DEF S, T
  <1>4. Cardinality(S) \in Nat /\ Cardinality(T) \in Nat
    BY <1>1, <1>2, FS_Subset, FS_CardinalityType
  <1>5. CASE v \in S
    <2>1. Cardinality(T) = Cardinality(S) - 1
      BY <1>1, <1>2, <1>5, FS_RemoveElement
    <2>2. QED
      BY <1>1, <1>3, <1>4, <1>5, <2>1
  <1>6. CASE v \notin S
    <2>1. T = S
      BY <1>2, <1>6
    <2>2. QED
      BY <1>1, <1>3, <1>4, <2>1
  <1>7. QED
    BY <1>5, <1>6

LEMMA DoomedStays ==
    ASSUME TypeInv, RecordsInv, AgesInv, [Next]_vars,
           \/ listed \subseteq listed' /\ IsFiniteSet(listed')
           \/ \E v \in listed : Doomed(v) /\ listed' = listed \ {v},
           NEW s, Doomed(s)
    PROVE  Doomed(s)'
  <1>t. TypeOK /\ IsFiniteSet(listed) /\ MaxSnapshots \in Nat
    BY CapFacts DEF TypeInv, AgesInv, DoomedInv
  <1>a. aged \subseteq aged'
    BY AgedStep DEF AgesInv
  <1>1. CASE s \in aged
    BY <1>1, <1>a DEF Doomed
  <1>2. CASE s \notin aged /\ listed \subseteq listed' /\ IsFiniteSet(listed')
    <2>1. Newer(s)' \in Nat /\ Newer(s) <= Newer(s)' /\ Newer(s) >= MaxSnapshots
      BY <1>2, NewerGrows DEF Doomed
    <2>2. Newer(s) \in Nat
      BY <1>t, NewerType
    <2>3. QED
      BY <1>t, <2>1, <2>2 DEF Doomed
  <1>3. ASSUME s \notin aged, NEW v \in listed, Doomed(v), listed' = listed \ {v}
        PROVE  Doomed(s)'
    <2>1. /\ Newer(s) \in Nat /\ Newer(v) \in Nat /\ Newer(s)' \in Nat
          /\ Newer(s) >= MaxSnapshots
      BY <1>t, <1>3, NewerType, NewerShrinks DEF Doomed
    <2>2. CASE ~ Before(s, v)
      BY <1>t, <1>3, <2>1, <2>2, NewerShrinks DEF Doomed
    <2>3. CASE Before(s, v)
      <3>1. s \in Calls
        BY <1>t, <2>3, BeforeOrders, OrderFacts
      <3>2. v \notin aged
        BY <1>3, <2>3, <3>1 DEF AgesInv, AgedFirst
      <3>3. Newer(v) >= MaxSnapshots /\ Newer(v) < Newer(s)
        BY <1>t, <1>3, <2>3, <3>2, NewerFalls DEF Doomed
      <3>4. Newer(s)' >= Newer(s) - 1
        BY <1>t, <1>3, NewerShrinks
      <3>5. Newer(s)' >= MaxSnapshots
        BY <1>t, <2>1, <3>3, <3>4
      <3>6. QED
        BY <3>5 DEF Doomed
    <2>4. QED
      BY <2>2, <2>3
  <1>4. QED
    BY <1>1, <1>2, <1>3

\* What a step does to the list of the snapshots.
LEMMA ListSteps ==
    ASSUME TypeInv, RecordsInv, AgesInv, [Next]_vars
    PROVE  \/ listed' = listed
           \/ \E c \in Active : WriteMeta(c) /\ listed' = listed \union {c}
           \/ \E v \in listed : Doomed(v) /\ listed' = listed \ {v}
  <1>1. ASSUME NEW c \in Active, PurgeMeta(c)
        PROVE  \/ listed' = listed
               \/ \E v \in listed : Doomed(v) /\ listed' = listed \ {v}
    <2>1. PICK v \in Calls : NextVictim(c, v) /\ listed' = listed \ {v}
      BY <1>1 DEF PurgeMeta
    <2>2. Doomed(v)
      BY <2>1, ActiveFacts DEF NextVictim, AgesInv, DoomedInv
    <2>3. QED
      BY <2>1, <2>2
  <1>2. QED
    BY <1>1, KindsOfSteps
       DEF QuietStep, StoreStep, TakeBlob, WriteMeta, Collect, Recollect, PurgeBlob, storeVars

LEMMA DoomedStep ==
    ASSUME TypeInv, PairsInv, AgesInv, [Next]_vars
    PROVE  DoomedInv'
  <1>t. TypeOK /\ RecordsInv /\ IsFiniteSet(listed) /\ DoomedInv
    BY DEF TypeInv, PairsInv, AgesInv, DoomedInv
  <1>f. IsFiniteSet(listed')
    BY <1>t, ListSteps, FS_AddElement, FS_Subset
  <1>d. \A s : Doomed(s) => Doomed(s)'
    BY <1>t, <1>f, ListSteps, DoomedStays
  <1>1. ASSUME NEW s \in listed', blob'[s] = None PROVE Doomed(s)'
    <2>1. CASE s \in listed /\ blob[s] = None
      BY <1>d, <1>t, <2>1 DEF DoomedInv
    <2>2. CASE s \in listed /\ blob[s] # None
      <3>0. s \in Calls
        BY <1>t, <2>2 DEF TypeOK
      <3>1. PICK c \in Active : PurgeBlob(c) \/ TakeBlob(c)
        BY <1>1, <2>2, KindsOfSteps
           DEF QuietStep, StoreStep, WriteMeta, Collect, Recollect, PurgeMeta, storeVars
      <3>2. CASE TakeBlob(c)
        <4>1. s # c
          BY <1>t, <2>2, <3>2 DEF TakeBlob, TypeInv, TypeOK
        <4>2. blob'[s] = blob[s]
          BY <1>t, <3>0, <3>2, <4>1 DEF TakeBlob, TypeOK
        <4>3. QED
          BY <1>1, <2>2, <4>2
      <3>3. CASE PurgeBlob(c)
        <4>1. PICK v \in Calls : NextVictim(c, v) /\ blob' = [blob EXCEPT ![v] = None]
          BY <3>3 DEF PurgeBlob
        <4>2. s = v
          BY <1>1, <1>t, <2>2, <3>0, <4>1 DEF TypeOK
        <4>3. Doomed(s)
          BY <1>t, <4>1, <4>2, ActiveFacts DEF DoomedInv, NextVictim
        <4>4. QED
          BY <1>d, <4>3
      <3>4. QED
        BY <3>1, <3>2, <3>3
    <2>3. CASE s \notin listed
      <3>1. PICK c \in Active : WriteMeta(c) /\ s = c
        BY <1>1, <1>t, <2>3, ListSteps
      <3>2. blob'[c] # None
        BY <1>t, <3>1, ActiveFacts DEF WriteMeta, RecordsInv
      <3>3. QED
        BY <1>1, <3>1, <3>2
    <2>4. QED
      BY <2>1, <2>2, <2>3
  <1>2. ASSUME NEW o \in Calls, NEW s \in call'[o].victims PROVE Doomed(s)'
    <2>1. CASE s \in call[o].victims
      BY <1>d, <1>t, <2>1 DEF DoomedInv
    <2>2. CASE s \notin call[o].victims
      <3>1. PICK c \in Active : StoreStep(c)
        BY <1>2, <2>2, KindsOfSteps DEF QuietStep
      <3>2. o = c
        BY <1>2, <2>2, <3>1, StoreStepFacts
      <3>3. CASE Collect(c)
        <4>1. Expired \in SUBSET Calls
          BY <1>t DEF TypeOK, Expired
        <4>2. s \in Expired
          BY <1>2, <1>t, <3>2, <3>3, <4>1, SweepFacts, ActiveFacts DEF Collect
        <4>3. Doomed(s)
          BY <4>2 DEF Expired, Doomed
        <4>4. QED
          BY <1>d, <4>3
      <3>4. CASE Recollect(c)
        <4>1. Surplus \in SUBSET Calls
          BY <1>t DEF TypeOK, Surplus
        <4>2. s \in Surplus
          BY <1>2, <1>t, <3>2, <3>4, <4>1, SweepFacts, ActiveFacts DEF Recollect
        <4>3. Doomed(s)
          BY <4>2 DEF Surplus, Doomed
        <4>4. QED
          BY <1>d, <4>3
      <3>5. CASE PurgeMeta(c)
        <4>1. PICK v \in Calls : Sweep(c, call[c].victims \ {v}, call[c].then)
          BY <3>5 DEF PurgeMeta
        <4>2. /\ call[c].victims \ {v} \in SUBSET Calls
              /\ call[c].then \in {"recollect", "act"} /\ c \in Calls
          BY <1>t, ActiveFacts DEF TypeOK
        <4>3. call'[c].victims = call[c].victims \ {v}
          BY <1>t, <4>1, <4>2, SweepFacts
        <4>4. QED
          BY <1>2, <2>2, <3>2, <4>3
      <3>6. CASE TakeBlob(c) \/ WriteMeta(c) \/ PurgeBlob(c)
        <4>1. Step(c, "act") \/ Step(c, "meta") \/ Step(c, "collect") \/ Step(c, "purgeMeta")
          BY <3>6 DEF TakeBlob, WriteMeta, PurgeBlob
        <4>2. {"act", "meta", "collect", "purgeMeta"} \subseteq Steps
          BY DEF Steps
        <4>3. call'[c].victims = call[c].victims
          BY <1>t, <4>1, <4>2, StepFacts, ActiveFacts
        <4>4. QED
          BY <1>2, <2>2, <3>2, <4>3
      <3>7. QED
        BY <3>1, <3>3, <3>4, <3>5, <3>6 DEF StoreStep
    <2>3. QED
      BY <2>1, <2>2
  <1>3. QED
    BY <1>f, <1>1, <1>2 DEF DoomedInv

LEMMA AgesStep == TypeInv /\ PairsInv /\ AgesInv /\ [Next]_vars => AgesInv'
  BY AgedStep, DoomedStep DEF AgesInv

-----------------------------------------------------------------------------
(* The cap.                                                                *)

\* What is listed and no call of X is about to remove.
Kept(X) == listed \ UNION {call[c].victims : c \in X}

LEMMA CappedInit == Init => CappedInv
  <1> SUFFICES ASSUME Init PROVE CappedInv
    OBVIOUS
  <1>1. listed = {} /\ \A c \in Calls : call[c].at = "new"
    BY DEF Init, Fresh
  <1>2. Sweeping = {} /\ Trimming = {}
    BY <1>1 DEF Sweeping, Trimming
  <1>3. \A X : listed \ UNION {call[c].victims : c \in X} = {} /\ Sweeping \ X = {}
    BY <1>1, <1>2
  <1>4. IsFiniteSet({}) /\ Cardinality({}) = 0
    BY FS_EmptySet
  <1>5. QED
    BY <1>1, <1>2, <1>3, <1>4, CapFacts DEF CappedInv

\* If nothing more is kept and the same calls sweep, the bound stands.
LEMMA CappedLess ==
    ASSUME CappedInv, NEW Y \in SUBSET Trimming,
           NEW K, K \subseteq Kept(Y), NEW S, S = Sweeping \ Y
    PROVE  Cardinality(K) <= MaxSnapshots + Cardinality(S)
  <1>1. IsFiniteSet(Kept(Y)) /\ IsFiniteSet(S)
    BY FS_Subset DEF CappedInv, Kept
  <1>2. Cardinality(K) <= Cardinality(Kept(Y)) /\ IsFiniteSet(K)
    BY <1>1, FS_Subset
  <1>3. Cardinality(Kept(Y)) <= MaxSnapshots + Cardinality(S)
    BY DEF CappedInv, Kept
  <1>4. /\ Cardinality(K) \in Nat /\ Cardinality(Kept(Y)) \in Nat
        /\ Cardinality(S) \in Nat /\ MaxSnapshots \in Nat
    BY <1>1, <1>2, FS_CardinalityType, CapFacts
  <1>5. QED
    BY <1>2, <1>3, <1>4

\* A step after which the same calls sweep, and keep no more than before.
LEMMA CappedSame ==
    ASSUME CappedInv, listed' \subseteq listed, Sweeping' = Sweeping,
           Trimming' \subseteq Trimming,
           \A c \in Trimming' : listed' \intersect call[c].victims \subseteq call'[c].victims
    PROVE  CappedInv'
  <1>1. ASSUME NEW X \in SUBSET Trimming'
        PROVE  Cardinality(listed' \ UNION {call'[c].victims : c \in X})
                 <= MaxSnapshots + Cardinality(Sweeping' \ X)
    <2> DEFINE K == listed' \ UNION {call'[c].victims : c \in X}
    <2>1. K \subseteq Kept(X)
      BY DEF Kept
    <2> HIDE DEF K
    <2>2. Cardinality(K) <= MaxSnapshots + Cardinality(Sweeping' \ X)
      BY <2>1, CappedLess
    <2>3. QED
      BY <2>2 DEF K
  <1>2. IsFiniteSet(listed') /\ IsFiniteSet(Sweeping')
    BY FS_Subset DEF CappedInv
  <1>3. QED
    BY <1>1, <1>2 DEF CappedInv

LEMMA CappedQuiet == ASSUME TypeInv, CappedInv, QuietStep PROVE CappedInv'
  <1>1. \A o \in Calls :
           /\ call[o].at \in {"collect", "recollect", "purge", "purgeMeta"} <=>
              call'[o].at \in {"collect", "recollect", "purge", "purgeMeta"}
           /\ call'[o].at \in {"purge", "purgeMeta"} =>
                /\ call'[o].at = call[o].at /\ call'[o].then = call[o].then
                /\ call'[o].victims = call[o].victims
    BY DEF QuietStep
  <1>2. Sweeping' = Sweeping
    BY <1>1 DEF Sweeping
  <1>3. Trimming' \subseteq Trimming /\ \A c \in Trimming' : call'[c].victims = call[c].victims
    BY <1>1 DEF Trimming
  <1>4. listed' = listed
    BY DEF QuietStep
  <1>5. QED
    BY <1>2, <1>3, <1>4, CappedSame

LEMMA CappedStore ==
    ASSUME TypeInv, RecordsInv, CappedInv, NEW c \in Active, StoreStep(c)
    PROVE  CappedInv'
  <1>t. TypeOK /\ c \in Calls /\ IsFiniteSet(listed) /\ IsFiniteSet(Sweeping)
    BY ActiveFacts DEF TypeInv, CappedInv
  <1>s. {"act", "meta", "collect", "purgeMeta"} \subseteq Steps
    BY DEF Steps
  <1>o. \A o \in Calls : o # c => call'[o] = call[o]
    BY StoreStepFacts
  <1>1. CASE TakeBlob(c)
    <2>1. call[c].at = "stat" /\ listed' = listed
      BY <1>1 DEF TakeBlob
    <2>2. Step(c, "act") \/ Step(c, "meta")
      BY <1>1 DEF TakeBlob
    <2>3. call'[c].at \in {"act", "meta"}
      BY <1>t, <1>s, <2>2, StepFacts
    <2>4. /\ Sweeping' = Sweeping /\ Trimming' \subseteq Trimming
          /\ \A o \in Trimming' : call'[o].victims = call[o].victims
      BY <1>t, <1>o, <2>1, <2>3 DEF Sweeping, Trimming
    <2>5. QED
      BY <2>1, <2>4, CappedSame
  <1>2. CASE WriteMeta(c)
    <2>1. call[c].at = "meta" /\ listed' = listed \union {c} /\ Step(c, "collect")
      BY <1>2 DEF WriteMeta
    <2>2. call'[c].at = "collect"
      BY <1>t, <1>s, <2>1, StepFacts
    <2>3. /\ c \notin Sweeping /\ Sweeping' = Sweeping \union {c}
          /\ Trimming' = Trimming /\ c \notin Trimming
          /\ \A o \in Trimming' : call'[o].victims = call[o].victims
      BY <1>t, <1>o, <2>1, <2>2 DEF Sweeping, Trimming
    <2>4. IsFiniteSet(listed') /\ IsFiniteSet(Sweeping')
      BY <1>t, <2>1, <2>3, FS_AddElement
    <2>5. ASSUME NEW X \in SUBSET Trimming'
          PROVE  Cardinality(listed' \ UNION {call'[o].victims : o \in X})
                   <= MaxSnapshots + Cardinality(Sweeping' \ X)
      <3> DEFINE K == listed' \ UNION {call'[o].victims : o \in X}
                 S == Sweeping' \ X
      <3>1. /\ K \ {c} \subseteq Kept(X) /\ S \ {c} = Sweeping \ X /\ c \in S
            /\ X \in SUBSET Trimming /\ IsFiniteSet(K) /\ IsFiniteSet(S)
        BY <2>1, <2>3, <2>4, FS_Subset DEF Kept
      <3> HIDE DEF K, S
      <3>2. Cardinality(K \ {c}) <= MaxSnapshots + Cardinality(S \ {c})
        BY <3>1, CappedLess
      <3>3. Cardinality(S \ {c}) = Cardinality(S) - 1 /\ Cardinality(S) \in Nat
        BY <3>1, FS_RemoveElement, FS_CardinalityType
      <3>4. /\ Cardinality(K) <= Cardinality(K \ {c}) + 1
            /\ Cardinality(K) \in Nat /\ Cardinality(K \ {c}) \in Nat
        <4>1. IsFiniteSet(K \ {c}) /\ Cardinality(K) \in Nat /\ Cardinality(K \ {c}) \in Nat
          BY <3>1, FS_Subset, FS_CardinalityType
        <4>2. CASE c \in K
          BY <3>1, <4>1, <4>2, FS_RemoveElement
        <4>3. CASE c \notin K
          <5>1. K \ {c} = K
            BY <4>3
          <5>2. QED
            BY <4>1, <5>1
        <4>4. QED
          BY <4>1, <4>2, <4>3
      <3>5. Cardinality(K) <= MaxSnapshots + Cardinality(S)
        BY <3>2, <3>3, <3>4, CapFacts
      <3>6. QED
        BY <3>5 DEF K, S
    <2>6. QED
      BY <2>4, <2>5 DEF CappedInv
  <1>3. CASE Collect(c)
    <2>1. call[c].at = "collect" /\ listed' = listed /\ Sweep(c, Expired, "recollect")
      BY <1>3 DEF Collect, storeVars
    <2>2. Expired \in SUBSET Calls
      BY <1>t DEF TypeOK, Expired
    <2>3. call'[c].at \in {"purge", "recollect"} /\ call'[c].then = "recollect"
      BY <1>t, <2>1, <2>2, SweepFacts
    <2>4. /\ Sweeping' = Sweeping /\ Trimming' \subseteq Trimming
          /\ \A o \in Trimming' : call'[o].victims = call[o].victims
      BY <1>t, <1>o, <2>1, <2>3 DEF Sweeping, Trimming
    <2>5. QED
      BY <2>1, <2>4, CappedSame
  <1>4. CASE Recollect(c)
    <2>1. call[c].at = "recollect" /\ listed' = listed /\ Sweep(c, Surplus, "act")
      BY <1>4 DEF Recollect, storeVars
    <2>2. Surplus \in SUBSET Calls
      BY <1>t DEF TypeOK, Surplus
    <2>3. /\ call'[c].at = (IF Surplus = {} THEN "act" ELSE "purge")
          /\ call'[c].then = "act" /\ call'[c].victims = Surplus
      BY <1>t, <2>1, <2>2, SweepFacts
    <2>4. /\ Sweeping' = (IF Surplus = {} THEN Sweeping \ {c} ELSE Sweeping)
          /\ Trimming' = (IF Surplus = {} THEN Trimming ELSE Trimming \union {c})
          /\ \A o \in Trimming' : o # c => call'[o].victims = call[o].victims
          /\ c \notin Trimming
      BY <1>t, <1>o, <2>1, <2>3 DEF Sweeping, Trimming
    <2>5. IsFiniteSet(listed') /\ IsFiniteSet(Sweeping')
      BY <1>t, <2>1, <2>4, FS_Subset
    <2>6. ASSUME NEW X \in SUBSET Trimming'
          PROVE  Cardinality(listed' \ UNION {call'[o].victims : o \in X})
                   <= MaxSnapshots + Cardinality(Sweeping' \ X)
      <3> DEFINE K == listed' \ UNION {call'[o].victims : o \in X}
                 S == Sweeping' \ X
      <3>1. CASE Surplus = {} \/ c \in X
        <4>1. K \subseteq listed \ Surplus
          BY <2>1, <2>3, <3>1
        <4> HIDE DEF K
        <4>2. /\ Cardinality(K) <= Cardinality(listed \ Surplus) /\ IsFiniteSet(K)
              /\ Cardinality(listed \ Surplus) <= MaxSnapshots
              /\ IsFiniteSet(listed \ Surplus)
          BY <1>t, <4>1, SurplusIsAll, FS_Subset
        <4>3. IsFiniteSet(S)
          BY <2>5, FS_Subset
        <4> HIDE DEF S
        <4>4. /\ Cardinality(K) \in Nat /\ Cardinality(listed \ Surplus) \in Nat
              /\ Cardinality(S) \in Nat
          BY <4>2, <4>3, FS_CardinalityType
        <4>5. Cardinality(K) <= MaxSnapshots + Cardinality(S)
          BY <4>2, <4>4, CapFacts
        <4>6. QED
          BY <4>5 DEF K, S
      <3>2. CASE Surplus # {} /\ c \notin X
        <4>1. K \subseteq Kept(X) /\ S = Sweeping \ X /\ X \in SUBSET Trimming
          BY <2>1, <2>4, <3>2 DEF Kept
        <4> HIDE DEF K, S
        <4>2. Cardinality(K) <= MaxSnapshots + Cardinality(S)
          BY <4>1, CappedLess
        <4>3. QED
          BY <4>2 DEF K, S
      <3>3. QED
        BY <3>1, <3>2
    <2>7. QED
      BY <2>5, <2>6 DEF CappedInv
  <1>5. CASE PurgeBlob(c)
    <2>1. call[c].at = "purge" /\ listed' = listed /\ Step(c, "purgeMeta")
      BY <1>5 DEF PurgeBlob
    <2>2. /\ call'[c].at = "purgeMeta" /\ call'[c].then = call[c].then
          /\ call'[c].victims = call[c].victims
      BY <1>t, <1>s, <2>1, StepFacts
    <2>3. /\ Sweeping' = Sweeping /\ Trimming' \subseteq Trimming
          /\ \A o \in Trimming' : call'[o].victims = call[o].victims
      BY <1>t, <1>o, <2>1, <2>2 DEF Sweeping, Trimming
    <2>4. QED
      BY <2>1, <2>3, CappedSame
  <1>6. CASE PurgeMeta(c)
    <2>1. PICK v \in Calls : /\ NextVictim(c, v) /\ listed' = listed \ {v}
                             /\ Sweep(c, call[c].victims \ {v}, call[c].then)
      BY <1>6 DEF PurgeMeta
    <2>2. call[c].at = "purgeMeta" /\ v \in call[c].victims
      BY <1>6, <2>1 DEF PurgeMeta, NextVictim
    <2>3. call[c].victims \ {v} \in SUBSET Calls /\ call[c].then \in {"recollect", "act"}
      BY <1>t DEF TypeOK
    <2>4. /\ call'[c].at = (IF call[c].victims \ {v} = {} THEN call[c].then ELSE "purge")
          /\ call'[c].victims = call[c].victims \ {v} /\ call'[c].then = call[c].then
      BY <1>t, <2>1, <2>3, SweepFacts
    <2>5. CASE call'[c].at # "act"
      <3>1. Sweeping' = Sweeping /\ Trimming' \subseteq Trimming
        BY <1>t, <1>o, <2>2, <2>3, <2>4, <2>5 DEF Sweeping, Trimming
      <3>2. \A o \in Trimming' : listed' \intersect call[o].victims \subseteq call'[o].victims
        BY <1>o, <2>1, <2>4 DEF Trimming
      <3>3. QED
        BY <2>1, <3>1, <3>2, CappedSame
    <2>6. CASE call'[c].at = "act"
      <3>1. call[c].then = "act" /\ call[c].victims = {v}
        BY <2>2, <2>3, <2>4, <2>6
      <3>2. /\ Sweeping' = Sweeping \ {c} /\ Trimming' = Trimming \ {c} /\ c \in Trimming
            /\ \A o \in Trimming' : call'[o].victims = call[o].victims
        BY <1>t, <1>o, <2>2, <2>6, <3>1 DEF Sweeping, Trimming
      <3>3. IsFiniteSet(listed') /\ IsFiniteSet(Sweeping')
        BY <1>t, <2>1, <3>2, FS_Subset
      <3>4. ASSUME NEW X \in SUBSET Trimming'
            PROVE  Cardinality(listed' \ UNION {call'[o].victims : o \in X})
                     <= MaxSnapshots + Cardinality(Sweeping' \ X)
        <4> DEFINE K == listed' \ UNION {call'[o].victims : o \in X}
                   S == Sweeping' \ X
                   Y == X \union {c}
        <4>1. Y \in SUBSET Trimming /\ K \subseteq Kept(Y) /\ S = Sweeping \ Y
          BY <2>1, <3>1, <3>2 DEF Kept
        <4> HIDE DEF K, S, Y
        <4>2. Cardinality(K) <= MaxSnapshots + Cardinality(S)
          BY <4>1, CappedLess
        <4>3. QED
          BY <4>2 DEF K, S
      <3>5. QED
        BY <3>3, <3>4 DEF CappedInv
    <2>7. QED
      BY <2>5, <2>6
  <1>7. QED
    BY <1>1, <1>2, <1>3, <1>4, <1>5, <1>6 DEF StoreStep

LEMMA CappedStep == TypeInv /\ PairsInv /\ CappedInv /\ [Next]_vars => CappedInv'
  BY KindsOfSteps, CappedQuiet, CappedStore DEF PairsInv

LEMMA CappedIsCapped == CappedInv => Capped
  <1> SUFFICES ASSUME CappedInv PROVE Capped
    OBVIOUS
  <1>1. Kept({}) = listed /\ Sweeping \ {} = Sweeping /\ {} \in SUBSET Trimming
    BY DEF Kept
  <1>2. Cardinality(listed) <= MaxSnapshots + Cardinality(Sweeping)
    BY <1>1, CappedLess
  <1>3. QED
    BY <1>2 DEF Capped

LEMMA StoreInduction == Spec => [](TypeInv /\ PairsInv /\ AgesInv /\ CappedInv)
  <1>1. Init => TypeInv /\ PairsInv /\ AgesInv /\ CappedInv
    BY TypeInit, PairsInit, AgesInit, CappedInit
  <1>2. TypeInv /\ PairsInv /\ AgesInv /\ CappedInv /\ [Next]_vars
          => (TypeInv /\ PairsInv /\ AgesInv /\ CappedInv)'
    BY TypeStep, PairsStep, AgesStep, CappedStep
  <1>3. QED
    BY <1>1, <1>2, PTL DEF Spec

\* Whatever calls run side by side and wherever the daemon crashes, a listed
\* snapshot has its blob but between the two steps of its removal, and there are
\* at most MaxSnapshots of them and one for each sweep that is not over.
THEOREM StoreStaysInOrder == Spec => []StoreInOrder
  <1>1. TypeInv /\ PairsInv /\ AgesInv /\ CappedInv => StoreInOrder
    BY CappedIsCapped DEF PairsInv, StoreInOrder
  <1>2. QED
    BY <1>1, StoreInduction, PTL

-----------------------------------------------------------------------------
(* A restore that runs alone.                                              *)

\* A call that is not in progress stays as safe as it is.
LEMMA IdleStaysSafe ==
    ASSUME NEW c \in Calls, call[c].at \notin {"new", "failed"},
           call'[c].at \in {call[c].at, "unlinked"}, c \notin Active'
    PROVE  Safe(c)'
  BY DEF Safe

LEMMA SafeBegin ==
    ASSUME TypeInv, RecordsInv, AgesInv, SparedInv, NEW c \in Calls,
           \/ \E p \in Paths : Write(c, p) \/ Edit(c, p)
           \/ \E p, q \in Paths : Move(c, p, q)
           \/ \E s \in Calls : Restore(c, s)
    PROVE  SparedInv'
  <1>t. TypeOK /\ call \in [Calls -> CallRecords]
    BY DEF TypeInv, TypeOK, CallRecords
  <1>1. /\ call[c].at = "new" /\ \A o \in Calls : o # c => call'[o] = call[o]
        /\ UNCHANGED storeVars /\ spared' \subseteq (spared \ Active) \union {c}
        /\ c \in spared' => c \in spared \/ call'[c].at = "stat"
        /\ spared' \subseteq Calls
    BY BeginFacts
  <1>2. c \notin spared
    BY <1>1 DEF SparedInv, Safe
  <1>3. ASSUME NEW o \in spared', o # c PROVE Safe(o)'
    <2>1. o \in spared /\ o \notin Active /\ o \in Calls /\ call'[o] = call[o]
      BY <1>1, <1>3
    <2>2. o \notin Active'
      BY <2>1 DEF Active
    <2>3. QED
      BY <2>1, <2>2, IdleStaysSafe DEF SparedInv, Safe
  <1>4. ASSUME c \in spared' PROVE Safe(c)'
    <2>1. PICK s \in Calls : Restore(c, s)
      BY <1>2, <1>4 DEF Write, Edit, Move
    <2>2. /\ Active = {} /\ s \in listed \ aged /\ Newer(s) + 2 <= MaxSnapshots
      BY <1>2, <1>4, <2>1 DEF Restore
    <2>3. /\ call'[c].op = "restore" /\ call'[c].from = s /\ call'[c].at = "stat"
          /\ call'[c].victims = {}
      BY <1>t, <2>1 DEF Restore, Fresh
    <2>4. Active' \subseteq {c}
      BY <1>1, <2>2 DEF Active
    <2>5. Newer(s)' = Newer(s) /\ listed' = listed /\ blob' = blob
      BY <1>1 DEF storeVars, Newer, Before
    <2>6. /\ Newer(s) \in Nat /\ MaxSnapshots \in Nat
          /\ Newer(s) + 1 <= MaxSnapshots /\ ~ Doomed(s)
      <3>1. Newer(s) \in Nat /\ MaxSnapshots \in Nat
        BY NewerType, CapFacts DEF AgesInv, DoomedInv
      <3>2. QED
        BY <2>2, <3>1 DEF Doomed
    <2>7. blob[s] # None
      BY <2>2, <2>6 DEF AgesInv, DoomedInv
    <2>8. QED
      BY <2>2, <2>3, <2>4, <2>5, <2>6, <2>7 DEF Safe
  <1>5. QED
    BY <1>3, <1>4 DEF SparedInv

LEMMA SafeStore ==
    ASSUME TypeInv, PairsInv, AgesInv, SparedInv, [Next]_vars,
           NEW c \in Active, StoreStep(c)
    PROVE  SparedInv'
  <1>t. TypeOK /\ c \in Calls /\ RecordsInv /\ IsFiniteSet(listed) /\ spared \subseteq Calls
    BY ActiveFacts DEF TypeInv, TypeOK, PairsInv, AgesInv, DoomedInv
  <1>s. {"act", "meta", "collect", "purgeMeta"} \subseteq Steps
    BY DEF Steps
  <1>o. /\ \A o \in Calls : o # c => call'[o] = call[o]
        /\ SameCall(c) /\ call'[c].at \in {"meta", "collect", "recollect", "purge", "purgeMeta", "act"}
        /\ aged' = aged /\ spared' \subseteq spared
        /\ call[c].at \in {"stat", "meta", "collect", "recollect", "purge", "purgeMeta"}
    BY StoreStepFacts
  <1>1. ASSUME NEW o \in spared', o # c PROVE Safe(o)'
    <2>1. o \notin Active /\ o \in Calls /\ o \in spared /\ call'[o] = call[o]
      BY <1>t, <1>o, <1>1 DEF SparedInv, Safe
    <2>2. o \notin Active'
      BY <2>1 DEF Active
    <2>3. QED
      BY <2>1, <2>2, IdleStaysSafe DEF SparedInv, Safe
  <1>2. ASSUME c \in spared' PROVE Safe(c)'
    <2> DEFINE s == call[c].from
    <2>1. /\ Active = {c} /\ call[c].op = "restore"
          /\ s \in listed /\ blob[s] # None /\ s \notin call[c].victims
          /\ Newer(s) + 1 <= MaxSnapshots
          /\ call[c].at \in {"stat", "meta"} => Newer(s) + 2 <= MaxSnapshots
      BY <1>o, <1>2 DEF SparedInv, Safe
    <2>2. PICK t : t = call[c].from
      OBVIOUS
    <2>3. call'[c].from = t /\ call'[c].op = "restore"
      BY <1>o, <2>1, <2>2 DEF SameCall
    <2>4. Active' = {c}
      <3>1. c \in Active'
        BY <1>t, <1>o, ActiveFacts DEF Active, SameCall
      <3>2. Active' \subseteq Active
        BY <1>o DEF Active
      <3>3. QED
        BY <2>1, <3>1, <3>2
    <2>5. /\ Newer(t) \in Nat /\ MaxSnapshots \in Nat
          /\ t \in listed /\ t \in ToSet(order) /\ t \in Calls
      BY <1>t, <2>1, <2>2, NewerType, CapFacts, OrderFacts DEF RecordsInv, Recorded
    <2>6. /\ t \in listed' /\ blob'[t] # None /\ t \notin call'[c].victims
          /\ call'[c].at = "meta" => Newer(t)' + 2 <= MaxSnapshots
          /\ Newer(t)' + 1 <= MaxSnapshots
      <3>n. listed' = listed => Newer(t)' = Newer(t)
        <4>1. \A u \in listed : Before(t, u)' <=> Before(t, u)
          BY <1>t, BeforeStays DEF RecordsInv, Recorded
        <4>2. QED
          BY <4>1 DEF Newer
      <3>1. CASE TakeBlob(c)
        <4>1. call[c].at = "stat" /\ listed' = listed
          BY <3>1 DEF TakeBlob
        <4>2. c \notin ToSet(order)
          BY <4>1 DEF TypeInv
        <4>3. t # c
          BY <2>5, <4>2
        <4>4. blob'[t] = blob[t]
          BY <1>t, <2>5, <3>1, <4>3 DEF TakeBlob, TypeOK
        <4>5. Step(c, "act") \/ Step(c, "meta")
          BY <3>1 DEF TakeBlob
        <4>6. call'[c].victims = call[c].victims
          BY <1>t, <1>s, <4>5, StepFacts
        <4>7. QED
          BY <2>1, <2>2, <2>5, <3>n, <4>1, <4>4, <4>6
      <3>2. CASE WriteMeta(c)
        <4>1. /\ listed' = listed \union {c} /\ Step(c, "collect")
              /\ call[c].at = "meta" /\ blob' = blob /\ order' = order
          BY <3>2 DEF WriteMeta
        <4>2. call'[c].at = "collect" /\ call'[c].victims = call[c].victims
          BY <1>t, <1>s, <4>1, StepFacts
        <4>3. Newer(t)' \in Nat /\ Newer(t)' <= Newer(t) + 1
          <5> DEFINE S == {u \in listed : Before(t, u)}
                     T == {u \in listed' : Before(t, u)'}
          <5>1. T \subseteq S \union {c} /\ IsFiniteSet(S)
            BY <1>t, <4>1, FS_Subset DEF Before
          <5>2. Newer(t) = Cardinality(S) /\ Newer(t)' = Cardinality(T)
            BY DEF Newer
          <5> HIDE DEF S, T
          <5>3. /\ IsFiniteSet(S \union {c}) /\ Cardinality(S) \in Nat
                /\ Cardinality(S \union {c}) \in Nat
                /\ Cardinality(S \union {c}) <= Cardinality(S) + 1
            BY <5>1, FS_AddElement, FS_CardinalityType
          <5>4. Cardinality(T) <= Cardinality(S \union {c}) /\ Cardinality(T) \in Nat
            BY <5>1, <5>3, FS_Subset, FS_CardinalityType
          <5>5. QED
            BY <5>2, <5>3, <5>4
        <4>4. QED
          BY <2>1, <2>2, <2>5, <4>1, <4>2, <4>3
      <3>3. CASE Collect(c)
        <4>1. t \notin aged /\ listed' = listed /\ blob' = blob
          BY <1>2, <2>2, <3>3 DEF Collect, storeVars
        <4>2. Expired \in SUBSET Calls /\ t \notin Expired
          BY <1>t, <4>1 DEF TypeOK, Expired
        <4>3. call'[c].victims = Expired /\ call'[c].at # "meta"
          BY <1>t, <3>3, <4>2, SweepFacts DEF Collect
        <4>4. QED
          BY <2>1, <2>2, <2>5, <3>n, <4>1, <4>2, <4>3
      <3>4. CASE Recollect(c)
        <4>1. listed' = listed /\ blob' = blob
          BY <3>4 DEF Recollect, storeVars
        <4>2. Surplus \in SUBSET Calls /\ t \notin Surplus
          BY <1>t, <2>1, <2>2, <2>5 DEF TypeOK, Surplus
        <4>3. call'[c].victims = Surplus /\ call'[c].at # "meta"
          BY <1>t, <3>4, <4>2, SweepFacts DEF Recollect
        <4>4. QED
          BY <2>1, <2>2, <2>5, <3>n, <4>1, <4>2, <4>3
      <3>5. CASE PurgeBlob(c)
        <4>1. PICK v \in call[c].victims : blob' = [blob EXCEPT ![v] = None]
          BY <3>5 DEF PurgeBlob, NextVictim
        <4>2. listed' = listed /\ blob'[t] = blob[t]
          BY <1>t, <2>1, <2>2, <2>5, <3>5, <4>1 DEF PurgeBlob, TypeOK
        <4>3. call'[c].victims = call[c].victims /\ call'[c].at # "meta"
          BY <1>t, <1>s, <3>5, StepFacts DEF PurgeBlob
        <4>4. QED
          BY <2>1, <2>2, <2>5, <3>n, <4>2, <4>3
      <3>6. CASE PurgeMeta(c)
        <4>1. PICK v \in Calls : /\ NextVictim(c, v) /\ listed' = listed \ {v}
                                 /\ Sweep(c, call[c].victims \ {v}, call[c].then)
          BY <3>6 DEF PurgeMeta
        <4>2. call[c].victims \ {v} \in SUBSET Calls /\ call[c].then \in {"recollect", "act"}
          BY <1>t DEF TypeOK
        <4>3. call'[c].at # "meta" /\ call'[c].victims = call[c].victims \ {v}
          BY <1>t, <4>1, <4>2, SweepFacts
        <4>4. t # v
          BY <2>1, <2>2, <4>1 DEF NextVictim
        <4>5. Newer(t)' \in Nat /\ Newer(t)' <= Newer(t)
          BY <1>t, <4>1, NewerShrinks
        <4>6. blob' = blob
          BY <3>6 DEF PurgeMeta
        <4>7. QED
          BY <2>1, <2>2, <2>5, <4>1, <4>3, <4>4, <4>5, <4>6
      <3>7. QED
        BY <3>1, <3>2, <3>3, <3>4, <3>5, <3>6 DEF StoreStep
    <2>7. QED
      BY <1>o, <2>3, <2>4, <2>6 DEF Safe
  <1>3. QED
    BY <1>1, <1>2 DEF SparedInv

LEMMA SafeChange ==
    ASSUME TypeInv, AgesInv, SparedInv, NEW c \in Active, ChangeStep(c)
    PROVE  SparedInv'
  <1>t. TypeOK /\ c \in Calls /\ IsFiniteSet(listed) /\ spared \subseteq Calls
    BY ActiveFacts DEF TypeInv, TypeOK, AgesInv, DoomedInv
  <1>o. /\ call[c].at \in {"act", "publish", "fill", "unlinked"}
        /\ call'[c].at \in {"publish", "failed", "fill", "ok"}
        /\ call'[c].at = "failed" =>
              \/ call[c].op = "move"
              \/ call[c].op = "restore" /\ call[c].at = "act" /\ blob[call[c].from] = None
        /\ \A o \in Calls : /\ call'[o].op = call[o].op /\ call'[o].dead = call[o].dead
                            /\ o # c => \/ call'[o].at = call[o].at
                                        \/ call[o].at = "fill" /\ call'[o].at = "unlinked"
        /\ spared' = spared
    BY ChangeStepFacts
  <1>a. Active' \subseteq Active
    <2>1. ASSUME NEW o \in Active' PROVE o \in Active
      BY <1>o, <2>1, <1>t DEF Active
    <2>2. QED
      BY <2>1
  <1>1. ASSUME NEW o \in spared, o # c PROVE Safe(o)'
    <2>1. o \notin Active /\ o \in Calls
      BY <1>t, <1>1 DEF SparedInv, Safe
    <2>2. o \notin Active'
      BY <1>a, <2>1
    <2>3. QED
      BY <1>o, <1>1, <2>1, <2>2, IdleStaysSafe DEF SparedInv, Safe
  <1>2. ASSUME c \in spared PROVE Safe(c)'
    <2>1. Active = {c} /\ call[c].op = "restore"
      BY <1>2 DEF SparedInv, Safe
    <2>2. call'[c].at # "failed"
      <3>1. SUFFICES ASSUME call[c].at = "act", blob[call[c].from] = None PROVE FALSE
        BY <1>o, <2>1
      <3>2. QED
        BY <1>2, <3>1 DEF SparedInv, Safe
    <2>3. call'[c].op = "restore" /\ Active' \subseteq {c}
      BY <1>t, <1>o, <1>a, <2>1
    <2>4. QED
      BY <1>o, <2>2, <2>3 DEF Safe
  <1>3. QED
    BY <1>o, <1>1, <1>2 DEF SparedInv

LEMMA SparedStep ==
    TypeInv /\ PairsInv /\ AgesInv /\ SparedInv /\ [Next]_vars => SparedInv'
  <1> SUFFICES ASSUME TypeInv, PairsInv, AgesInv, SparedInv, [Next]_vars
               PROVE  SparedInv'
    OBVIOUS
  <1>t. RecordsInv /\ spared \subseteq Calls
    BY DEF PairsInv, TypeInv, TypeOK
  <1>1. ASSUME NEW c \in Calls,
               \/ \E p \in Paths : Write(c, p) \/ Edit(c, p)
               \/ \E p, q \in Paths : Move(c, p, q)
               \/ \E s \in Calls : Restore(c, s)
        PROVE  SparedInv'
    BY <1>t, <1>1, SafeBegin
  <1>2. ASSUME NEW c \in Active, StoreStep(c) PROVE SparedInv'
    BY <1>2, SafeStore
  <1>3. ASSUME NEW c \in Active, ChangeStep(c) PROVE SparedInv'
    BY <1>3, SafeChange
  <1>4. ASSUME Active' = {}, spared' = spared,
               \A c \in Calls : call'[c].at = call[c].at
        PROVE  SparedInv'
    <2>1. ASSUME NEW c \in spared PROVE Safe(c)'
      BY <1>t, <1>4, <2>1, IdleStaysSafe DEF SparedInv, Safe
    <2>2. QED
      BY <1>4, <2>1 DEF SparedInv
  <1>5. CASE Age \/ UNCHANGED vars
    <2>1. UNCHANGED <<blob, listed, order, call, spared>>
      BY <1>5 DEF Age, vars, storeVars
    <2>2. Active' = Active /\ \A s : Newer(s)' = Newer(s)
      BY <2>1 DEF Active, Newer, Before
    <2>3. QED
      BY <2>1, <2>2 DEF SparedInv, Safe
  <1>6. CASE Crash
    BY <1>4, <1>6, CrashFacts
  <1>7. QED
    BY <1>1, <1>2, <1>3, <1>5, <1>6 DEF Next, CallStep, StoreStep, ChangeStep

\* A restore that runs alone, of a snapshot that has room below the cap for the
\* one that the restore takes first, and that has not expired when the restore's
\* own sweep reads the clock, finds its blob, also if it expires after that.
THEOREM LoneRestoreWorks == Spec => []RestoreWorks
  <1>1. Init => SparedInv
    BY DEF Init, SparedInv
  <1>2. SparedInv => RestoreWorks
    BY DEF SparedInv, Safe, RestoreWorks
  <1>3. QED
    BY <1>1, <1>2, SparedStep, StoreInduction, PTL DEF Spec

-----------------------------------------------------------------------------
(* No text is lost.                                                        *)

\* A call that begins shares its file with every call that has it already.
LEMMA BeginShares ==
    ASSUME TypeInv, NEW c \in Calls,
           \/ \E p \in Paths : Write(c, p) \/ Edit(c, p)
           \/ \E p, q \in Paths : Move(c, p, q)
           \/ \E s \in Calls : Restore(c, s)
    PROVE  /\ shared \subseteq shared'
           /\ \A o \in Active :
                 c \in Active' /\ Touches(c)' \intersect Touches(o) # {} =>
                    c \in shared' /\ o \in shared'
  <1>t. TypeOK /\ call \in [Calls -> CallRecords]
    BY DEF TypeInv, TypeOK, CallRecords
  <1>1. ASSUME NEW paths, Begin(c, paths), c \in Active' => Touches(c)' \subseteq paths
        PROVE  /\ shared \subseteq shared'
               /\ \A o \in Active :
                     c \in Active' /\ Touches(c)' \intersect Touches(o) # {} =>
                        c \in shared' /\ o \in shared'
    BY <1>1 DEF Begin
  <1>2. ASSUME NEW p \in Paths, Write(c, p)
        PROVE  Begin(c, {p}) /\ Touches(c)' \subseteq {p}
    BY <1>2, <1>t DEF Write, Touches, Fresh
  <1>3. ASSUME NEW p \in Paths, Edit(c, p)
        PROVE  Begin(c, {p}) /\ (c \in Active' => Touches(c)' \subseteq {p})
    <2>1. CASE call' = [call EXCEPT ![c].at = "failed"]
      <3>1. call'[c].at = "failed"
        BY <1>t, <2>1 DEF CallRecords
      <3>2. QED
        BY <1>3, <3>1 DEF Edit, Active
    <2>2. CASE call' = [call EXCEPT ![c] = [Fresh EXCEPT !.op = "edit",
                          !.path = p, !.held = file[p] \union {c}, !.at = "stat"]]
      BY <1>3, <1>t, <2>2 DEF Edit, Touches, Fresh
    <2>3. QED
      BY <1>3, <2>1, <2>2 DEF Edit
  <1>4. ASSUME NEW p \in Paths, NEW q \in Paths, Move(c, p, q)
        PROVE  Begin(c, {p, q}) /\ Touches(c)' \subseteq {p, q}
    BY <1>4, <1>t DEF Move, Touches, Fresh
  <1>5. ASSUME NEW s \in Calls, Restore(c, s)
        PROVE  Begin(c, {call[s].path}) /\ Touches(c)' \subseteq {call[s].path}
    BY <1>5, <1>t DEF Restore, Touches, Fresh
  <1>6. QED
    BY <1>1, <1>2, <1>3, <1>4, <1>5

\* What a call does to a file, or to another call, it does to what both touch.
LEMMA ChangesTouch ==
    ASSUME TypeInv, NEW c \in Active, ChangeStep(c)
    PROVE  /\ \A p \in Paths : file'[p] # file[p] => p \in Touches(c)
           /\ \A o \in Calls : o # c =>
                 \/ call'[o] = call[o]
                 \/ /\ Touches(o) \intersect Touches(c) # {}
                    /\ Touches(o)' \subseteq Touches(o) \union Touches(c)
           /\ Touches(c)' \subseteq Touches(c)
  <1>t. /\ TypeOK /\ c \in Calls /\ call[c].path \in Paths
        /\ call[c].path \in Touches(c) /\ None \notin Paths
        /\ \A p \in Paths : p = call[c].dest => p \in Touches(c)
        /\ \A o \in Calls : call[o].at = "fill" =>
              call[o].dest \in Paths /\ call[o].dest \in Touches(o)
    BY ActiveFacts, Values DEF TypeInv, Begun, Touches
  <1>s. {"failed", "publish", "ok"} \subseteq Steps
    BY DEF Steps
  <1>1. CASE ReadBlob(c)
    <2>1. file' = file
      BY <1>1 DEF ReadBlob
    <2>2. /\ call'[c].path = call[c].path /\ call'[c].dest = call[c].dest
          /\ \A o \in Calls : o # c => call'[o] = call[o]
      <3>1. call \in [Calls -> CallRecords]
        BY <1>t DEF TypeOK, CallRecords
      <3>2. QED
        BY <1>1, <1>t, <3>1 DEF ReadBlob, CallRecords
    <2>3. QED
      BY <2>1, <2>2 DEF Touches
  <1>2. ASSUME NEW p, NEW q \in Paths, Renamed(c, p, q), p \in Touches(c) \union {None},
               q \in Touches(c)
        PROVE  /\ \A o \in Calls : o # c =>
                     \/ call'[o] = call[o]
                     \/ /\ Touches(o) \intersect Touches(c) # {}
                        /\ Touches(o)' \subseteq Touches(o) \union Touches(c)
               /\ Touches(c)' \subseteq Touches(c)
    <2>1. SameCall(c)
      BY <1>t, <1>2, RenamedFacts
    <2>2. ASSUME NEW o \in Calls, o # c, call'[o] # call[o]
          PROVE  /\ Touches(o) \intersect Touches(c) # {}
                 /\ Touches(o)' \subseteq Touches(o) \union Touches(c)
      <3>1. /\ call[o].at = "fill" /\ call[o].dest \in {p, q}
            /\ call'[o].path = call[o].path /\ call'[o].dest \in {call[o].dest, q}
        BY <1>t, <1>2, <2>2, RenamedFacts
      <3>2. call[o].dest \in Touches(o) /\ call[o].dest \in Touches(c)
        BY <1>t, <1>2, <3>1
      <3>3. QED
        BY <1>2, <3>1, <3>2 DEF Touches
    <2>3. QED
      BY <2>1, <2>2 DEF SameCall, Touches
  <1>3. CASE Publish(c)
    <2>1. Renamed(c, None, call[c].path)
      BY <1>3 DEF Publish
    <2>2. \A p \in Paths : file'[p] # file[p] => p = call[c].path
      BY <1>3, <1>t DEF Publish, TypeOK
    <2>3. QED
      BY <1>t, <1>2, <2>1, <2>2
  <1>4. CASE Truncate(c)
    <2>1. /\ call'[c].path = call[c].path /\ call'[c].dest = call[c].path
          /\ \A o \in Calls : o # c => call'[o] = call[o]
      BY <1>4, <1>t, TruncateFacts
    <2>2. \A p \in Paths : file'[p] # file[p] => p = call[c].path
      BY <1>4, <1>t DEF Truncate, TypeOK
    <2>3. QED
      BY <1>t, <2>1, <2>2 DEF Touches
  <1>5. CASE Fill(c)
    <2>1. SameCall(c) /\ \A o \in Calls : o # c => call'[o] = call[o]
      BY <1>5, <1>t, <1>s, StepFacts DEF Fill
    <2>2. \A p \in Paths : file'[p] # file[p] => p = call[c].dest
      BY <1>5, <1>t DEF Fill, TypeOK
    <2>3. QED
      BY <1>t, <2>1, <2>2 DEF Touches, SameCall
  <1>6. CASE Rename(c)
    <2>1. call[c].dest \in Paths
      BY <1>6, <1>t DEF Rename, TypeInv, Begun
    <2>2. CASE file[call[c].path] = None
      <3>1. SameCall(c) /\ file' = file /\ \A o \in Calls : o # c => call'[o] = call[o]
        BY <1>6, <1>t, <1>s, <2>2, StepFacts DEF Rename
      <3>2. QED
        BY <3>1 DEF Touches, SameCall
    <2>3. CASE file[call[c].path] # None
      <3>1. Renamed(c, call[c].path, call[c].dest)
        BY <1>6, <2>3 DEF Rename
      <3>2. \A p \in Paths : file'[p] # file[p] => p \in {call[c].path, call[c].dest}
        BY <1>6, <1>t, <2>1, <2>3 DEF Rename, TypeOK
      <3>3. QED
        BY <1>t, <1>2, <2>1, <3>1, <3>2
    <2>4. QED
      BY <2>2, <2>3
  <1>7. QED
    BY <1>1, <1>3, <1>4, <1>5, <1>6 DEF ChangeStep

\* A call that changes its file makes no other call one in progress.
LEMMA ChangeShrinks ==
    ASSUME TypeInv, NEW c \in Active, ChangeStep(c)
    PROVE  Active' \subseteq Active /\ shared' = shared
  <1>1. /\ shared' = shared
        /\ \A o \in Calls : /\ call'[o].dead = call[o].dead
                            /\ o # c => \/ call'[o].at = call[o].at
                                        \/ call[o].at = "fill" /\ call'[o].at = "unlinked"
    BY ChangeStepFacts
  <1>2. ASSUME NEW o \in Active' PROVE o \in Active
    BY <1>1, <1>2 DEF Active
  <1>3. QED
    BY <1>1, <1>2

LEMMA ApartStep == TypeInv /\ Apart /\ [Next]_vars => Apart'
  <1> SUFFICES ASSUME TypeInv, Apart, [Next]_vars PROVE Apart'
    OBVIOUS
  <1>1. ASSUME NEW c \in Calls,
               \/ \E p \in Paths : Write(c, p) \/ Edit(c, p)
               \/ \E p, q \in Paths : Move(c, p, q)
               \/ \E s \in Calls : Restore(c, s)
        PROVE  Apart'
    <2>1. /\ \A o \in Calls : o # c => call'[o] = call[o]
          /\ shared \subseteq shared' /\ call[c].at = "new"
      BY <1>1, BeginFacts, BeginShares
    <2>2. ASSUME NEW o \in Active', o # c
          PROVE  o \in Active /\ Touches(o)' = Touches(o)
      BY <2>1, <2>2 DEF Active, Touches
    <2>3. ASSUME NEW o \in Active, c \in Active', o \notin shared' \/ c \notin shared'
          PROVE  Touches(c)' \intersect Touches(o) = {}
      BY <1>1, <2>3, BeginShares
    <2>4. ASSUME NEW o \in Active' \ shared', NEW d \in Active', d # o
          PROVE  Touches(o)' \intersect Touches(d)' = {}
      <3>1. CASE o # c /\ d # c
        BY <2>1, <2>2, <2>4, <3>1 DEF Apart
      <3>2. CASE o = c
        BY <2>2, <2>3, <2>4, <3>2
      <3>3. CASE d = c
        BY <2>2, <2>3, <2>4, <3>3
      <3>4. QED
        BY <3>1, <3>2, <3>3
    <2>5. QED
      BY <2>4 DEF Apart
  <1>2. ASSUME NEW c \in Active, shared' = shared, Active' \subseteq Active,
               Touches(c)' \subseteq Touches(c),
               \A o \in Calls : o # c =>
                 \/ Touches(o)' = Touches(o)
                 \/ /\ Touches(o) \intersect Touches(c) # {}
                    /\ Touches(o)' \subseteq Touches(o) \union Touches(c)
        PROVE  Apart'
    <2>1. ASSUME NEW o \in Active' \ shared', NEW d \in Active', d # o
          PROVE  Touches(o)' \intersect Touches(d)' = {}
      <3>1. o \in Active \ shared /\ d \in Active /\ o \in Calls /\ d \in Calls
        BY <1>2, <2>1, ActiveFacts
      <3>2. Touches(o) \intersect Touches(d) = {}
        BY <2>1, <3>1 DEF Apart
      <3>3. o # c => Touches(o) \intersect Touches(c) = {}
        BY <1>2, <3>1 DEF Apart
      <3>4. Touches(o)' \subseteq Touches(o)
        BY <1>2, <3>1, <3>3
      <3>5. CASE Touches(d)' \subseteq Touches(d)
        BY <3>2, <3>4, <3>5
      <3>6. CASE ~ (Touches(d)' \subseteq Touches(d))
        <4>1. /\ d # c /\ Touches(d) \intersect Touches(c) # {}
              /\ Touches(d)' \subseteq Touches(d) \union Touches(c)
          BY <1>2, <3>1, <3>6
        <4>2. o # c
          BY <3>2, <4>1
        <4>3. QED
          BY <3>2, <3>3, <3>4, <4>1, <4>2
      <3>7. QED
        BY <3>5, <3>6
    <2>2. QED
      BY <2>1 DEF Apart
  <1>3. ASSUME NEW c \in Active, StoreStep(c) PROVE Apart'
    <2>1. /\ SameCall(c) /\ \A o \in Calls : o # c => call'[o] = call[o]
          /\ shared' = shared
      BY <1>3, StoreStepFacts
    <2>2. Active' \subseteq Active
      BY <2>1, ActiveFacts DEF Active
    <2>3. \A o \in Calls : Touches(o)' = Touches(o)
      BY <2>1 DEF Touches, SameCall
    <2>4. QED
      BY <1>2, <2>1, <2>2, <2>3, ActiveFacts
  <1>4. ASSUME NEW c \in Active, ChangeStep(c) PROVE Apart'
    <2>1. Active' \subseteq Active /\ shared' = shared
      BY <1>4, ChangeShrinks
    <2>2. \A o \in Calls : call'[o] = call[o] => Touches(o)' = Touches(o)
      BY DEF Touches
    <2>3. QED
      BY <1>2, <1>4, <2>1, <2>2, ChangesTouch
  <1>5. CASE Age
    BY <1>5 DEF Age, Apart, Active, Touches
  <1>6. CASE Crash
    <2>1. Active' = {}
      BY <1>6, CrashFacts
    <2>2. QED
      BY <2>1 DEF Apart
  <1>7. CASE UNCHANGED vars
    BY <1>7 DEF vars, Apart, Active, Touches
  <1>8. QED
    BY <1>1, <1>3, <1>4, <1>5, <1>6, <1>7 DEF Next, CallStep, StoreStep, ChangeStep

\* A call that has no other on its file: nothing but its own steps, and the
\* sweeps' removals, touch what Taken(o) speaks of.
LEMMA TakenKept ==
    ASSUME NEW o \in Calls, Taken(o), call'[o] = call[o],
           file'[call[o].path] = file[call[o].path],
           o \in ToSet(order)' <=> o \in ToSet(order),
           blob'[o] \in {None, blob[o]}
    PROVE  Taken(o)'
  BY DEF Taken

LEMMA TakenStore ==
    ASSUME TypeInv, TakenInv, [Next]_vars, NEW c \in Active, StoreStep(c)
    PROVE  \A o \in Active' \ shared' : Taken(o)'
  <1>t. /\ TypeOK /\ c \in Calls /\ call[c].path \in Paths
        /\ call[c].at = "stat" => c \notin ToSet(order)
    BY ActiveFacts DEF TypeInv, Begun
  <1>s. {"act", "meta"} \subseteq Steps
    BY DEF Steps
  <1>o. /\ SameCall(c) /\ \A o \in Calls : o # c => call'[o] = call[o]
        /\ call'[c].at \in {"meta", "collect", "recollect", "purge", "purgeMeta", "act"}
        /\ file' = file /\ shared' = shared
    BY StoreStepFacts
  <1>a. Active' \subseteq Active
    BY <1>o, ActiveFacts DEF Active
  <1>1. CASE TakeBlob(c)
    <2>1. call[c].at = "stat"
      BY <1>1 DEF TakeBlob
    <2>2. Taken(c)'
      <3>1. CASE file[call[c].path] = None
        <4>1. Step(c, "act") /\ order' = order
          BY <1>1, <3>1 DEF TakeBlob
        <4>2. call'[c].at = "act"
          BY <1>t, <1>s, <4>1, StepFacts
        <4>3. c \notin ToSet(order)'
          BY <1>t, <2>1, <4>1
        <4>4. QED
          BY <1>o, <3>1, <4>2, <4>3 DEF Taken, SameCall
      <3>2. CASE file[call[c].path] # None
        <4>1. /\ Step(c, "meta") /\ order' = Append(order, c)
              /\ blob' = [blob EXCEPT ![c] = file[call[c].path]]
          BY <1>1, <3>2 DEF TakeBlob
        <4>2. call'[c].at = "meta" /\ blob'[c] = file[call[c].path]
          BY <1>t, <1>s, <4>1, StepFacts DEF TypeOK
        <4>3. c \in ToSet(order)'
          BY <1>t, <2>1, <4>1, AppendOrders
        <4>4. QED
          BY <1>o, <4>2, <4>3 DEF Taken, SameCall
      <3>3. QED
        BY <3>1, <3>2
    <2>3. ASSUME NEW o \in Active' \ shared', o # c PROVE Taken(o)'
      <3>1. o \in Active \ shared /\ o \in Calls /\ call'[o] = call[o]
        BY <1>o, <1>a, <2>3, ActiveFacts
      <3>2. o \in ToSet(order)' <=> o \in ToSet(order)
        BY <1>1, <1>t, <2>1, <2>3, AppendOrders DEF TakeBlob
      <3>3. blob'[o] = blob[o]
        BY <1>1, <1>t, <2>3, <3>1 DEF TakeBlob, TypeOK
      <3>4. QED
        BY <1>o, <3>1, <3>2, <3>3, TakenKept DEF TakenInv
    <2>4. QED
      BY <2>2, <2>3
  <1>2. CASE ~ TakeBlob(c)
    <2>1. /\ order' = order /\ call[c].at \notin {"stat", "fill", "unlinked"}
          /\ \A o \in Calls : blob'[o] \in {None, blob[o]}
      BY <1>2, <1>t DEF StoreStep, WriteMeta, Collect, Recollect, PurgeBlob, PurgeMeta,
                        storeVars, TypeOK
    <2>2. ASSUME NEW o \in Active' \ shared' PROVE Taken(o)'
      <3>1. o \in Active \ shared /\ o \in Calls /\ Taken(o)
        BY <1>o, <1>a, <2>2, ActiveFacts DEF TakenInv
      <3>2. ToSet(order)' = ToSet(order)
        BY <2>1
      <3>3. CASE o # c
        BY <1>o, <2>1, <3>1, <3>2, <3>3, TakenKept
      <3>4. CASE o = c
        BY <1>o, <1>t, <2>1, <3>1, <3>2, <3>4 DEF Taken, SameCall
      <3>5. QED
        BY <3>3, <3>4
    <2>3. QED
      BY <2>2
  <1>3. QED
    BY <1>1, <1>2

LEMMA TakenChange ==
    ASSUME TypeInv, TakenInv, NEW c \in Active, ChangeStep(c)
    PROVE  \A o \in Active' \ shared' : Taken(o)'
  <1>t. TypeOK /\ c \in Calls /\ call[c].path \in Paths /\ None \notin Paths
    BY ActiveFacts, Values DEF TypeInv, Begun
  <1>a. Active' \subseteq Active /\ shared' = shared
    BY ChangeShrinks
  <1>o. UNCHANGED storeVars /\ ToSet(order)' = ToSet(order)
    BY ChangeStepFacts DEF storeVars
  <1>1. ASSUME NEW o \in Active' \ shared', o # c PROVE Taken(o)'
    <2>1. /\ o \in Active \ shared /\ o \in Calls /\ Taken(o)
          /\ Touches(o) \intersect Touches(c) = {}
      BY <1>a, <1>1, ActiveFacts DEF TakenInv, Apart
    <2>2. call[o].path \in Paths /\ call[o].path \in Touches(o)
      BY <1>t, <2>1, ActiveFacts DEF TypeInv, Begun, Touches
    <2>3. call'[o] = call[o] /\ file'[call[o].path] = file[call[o].path]
      BY <1>1, <2>1, <2>2, ChangesTouch
    <2>4. blob'[o] \in {None, blob[o]}
      BY <1>o DEF storeVars
    <2>5. QED
      BY <1>o, <2>1, <2>3, <2>4, TakenKept
  <1>2. ASSUME c \in Active' \ shared' PROVE Taken(c)'
    <2>0. call'[c].at \notin {"ok", "failed"}
      BY <1>2, ActiveFacts DEF Active
    <2>1. CASE Truncate(c)
      <3>1. /\ call'[c].at = "fill" /\ call'[c].dest = call[c].path
            /\ call'[c].path = call[c].path
        BY <1>t, <2>1, TruncateFacts
      <3>2. file'[call[c].path] = Torn
        BY <1>t, <2>1 DEF Truncate, TypeOK
      <3>3. QED
        BY <3>1, <3>2 DEF Taken
    <2>2. CASE ReadBlob(c)
      <3>1. call[c].at = "act" /\ file' = file /\ blob' = blob
        BY <2>2 DEF ReadBlob, storeVars
      <3>2. call'[c].path = call[c].path /\ call'[c].at = "publish"
        <4>1. call \in [Calls -> CallRecords]
          BY <1>t DEF TypeOK, CallRecords
        <4>2. QED
          BY <1>t, <2>0, <2>2, <4>1 DEF ReadBlob, CallRecords
      <3>3. Taken(c)
        BY <1>a, <1>2 DEF TakenInv
      <3>4. QED
        BY <1>o, <3>1, <3>2, <3>3 DEF Taken
    <2>3. CASE Publish(c) \/ Fill(c) \/ Rename(c)
      <3>1. {"ok", "failed"} \subseteq Steps
        BY DEF Steps
      <3>2. call'[c].at \in {"ok", "failed"}
        <4>1. CASE Publish(c)
          BY <1>t, <4>1, RenamedFacts DEF Publish
        <4>2. CASE Fill(c)
          BY <1>t, <3>1, <4>2, StepFacts DEF Fill
        <4>3. CASE Rename(c) /\ file[call[c].path] = None
          BY <1>t, <3>1, <4>3, StepFacts DEF Rename
        <4>4. CASE Rename(c) /\ file[call[c].path] # None
          <5>1. call[c].dest \in Paths /\ Renamed(c, call[c].path, call[c].dest)
            BY <1>t, <4>4 DEF Rename, TypeInv, Begun
          <5>2. QED
            BY <1>t, <5>1, RenamedFacts
        <4>5. QED
          BY <2>3, <4>1, <4>2, <4>3, <4>4
      <3>3. QED
        BY <2>0, <3>2
    <2>4. QED
      BY <2>1, <2>2, <2>3 DEF ChangeStep
  <1>3. QED
    BY <1>1, <1>2

LEMMA TakenStep == TypeInv /\ TakenInv /\ [Next]_vars => TakenInv'
  <1> SUFFICES ASSUME TypeInv, TakenInv, [Next]_vars
               PROVE  \A o \in Active' \ shared' : Taken(o)'
    BY ApartStep DEF TakenInv
  <1>1. ASSUME NEW c \in Calls,
               \/ \E p \in Paths : Write(c, p) \/ Edit(c, p)
               \/ \E p, q \in Paths : Move(c, p, q)
               \/ \E s \in Calls : Restore(c, s),
               NEW o \in Active' \ shared'
        PROVE  Taken(o)'
    <2>1. /\ \A d \in Calls : d # c => call'[d] = call[d]
          /\ call'[c].at \in {"stat", "failed"} /\ UNCHANGED <<file, storeVars>>
      BY <1>1, BeginFacts
    <2>2. shared \subseteq shared'
      BY <1>1, BeginShares
    <2>3. CASE o = c
      <3>1. call'[c].at = "stat"
        BY <1>1, <2>1, <2>3 DEF Active
      <3>2. QED
        BY <2>3, <3>1 DEF Taken
    <2>4. CASE o # c
      <3>1. o \in Active \ shared /\ o \in Calls /\ call'[o] = call[o]
        BY <1>1, <2>1, <2>2, <2>4 DEF Active
      <3>2. Taken(o)
        BY <3>1 DEF TakenInv
      <3>3. ToSet(order)' = ToSet(order) /\ blob' = blob /\ file' = file
        BY <2>1 DEF storeVars
      <3>4. QED
        BY <3>1, <3>2, <3>3, TakenKept
    <2>5. QED
      BY <2>3, <2>4
  <1>2. ASSUME NEW c \in Active, StoreStep(c) PROVE \A o \in Active' \ shared' : Taken(o)'
    BY <1>2, TakenStore
  <1>3. ASSUME NEW c \in Active, ChangeStep(c) PROVE \A o \in Active' \ shared' : Taken(o)'
    BY <1>3, TakenChange
  <1>4. CASE Age
    BY <1>4 DEF Age, TakenInv, Taken, Active
  <1>5. CASE Crash
    BY <1>5, CrashFacts
  <1>6. CASE UNCHANGED vars
    BY <1>6 DEF vars, storeVars, TakenInv, Taken, Active
  <1>7. QED
    BY <1>1, <1>2, <1>3, <1>4, <1>5, <1>6 DEF Next, CallStep, StoreStep, ChangeStep

\* Only a call that begins becomes one in progress.
LEMMA NewlyActive ==
    ASSUME TypeInv, [Next]_vars, NEW c \in Active', c \notin Active
    PROVE  call[c].at = "new"
  <1>1. c \in Calls /\ call'[c].at \notin {"new", "ok", "failed"} /\ ~ call'[c].dead
    BY DEF Active
  <1>2. ASSUME NEW d \in Calls,
               \/ \E p \in Paths : Write(d, p) \/ Edit(d, p)
               \/ \E p, q \in Paths : Move(d, p, q)
               \/ \E s \in Calls : Restore(d, s)
        PROVE  call[c].at = "new"
    <2>1. call[d].at = "new" /\ \A o \in Calls : o # d => call'[o] = call[o]
      BY <1>2, BeginFacts
    <2>2. QED
      BY <1>1, <2>1 DEF Active
  <1>3. ASSUME NEW d \in Active, StoreStep(d) PROVE FALSE
    BY <1>1, <1>3, StoreStepFacts DEF Active
  <1>4. ASSUME NEW d \in Active, ChangeStep(d) PROVE FALSE
    BY <1>4, ChangeShrinks
  <1>5. QED
    BY <1>1, <1>2, <1>3, <1>4, CrashFacts
       DEF Next, CallStep, StoreStep, ChangeStep, Age, Active, vars

LEMMA GoneStep == TypeInv /\ PairsInv /\ AgesInv /\ GoneInv /\ [Next]_vars => GoneInv'
  <1> SUFFICES ASSUME TypeInv, PairsInv, AgesInv, GoneInv, [Next]_vars PROVE GoneInv'
    OBVIOUS
  <1>t. TypeOK /\ RecordsInv /\ IsFiniteSet(listed) /\ aged \subseteq ToSet(order)
    BY DEF TypeInv, PairsInv, AgesInv, AgedFirst, DoomedInv
  <1>f. IsFiniteSet(listed')
    BY <1>t, ListSteps, FS_AddElement, FS_Subset
  <1>d. \A s : Doomed(s) => Doomed(s)'
    BY <1>t, <1>f, ListSteps, DoomedStays
  <1>1. ASSUME NEW s \in Recorded' \ listed' PROVE s \in Recorded \/ s \in listed
    <2>1. CASE QuietStep
      <3>1. s \in ToSet(order) /\ listed' = listed /\ call'[s].at # "meta"
        BY <1>1, <2>1 DEF QuietStep, Recorded
      <3>2. call[s].at # "meta"
        BY <1>t, <2>1, <3>1, OrderFacts DEF QuietStep
      <3>3. QED
        BY <3>1, <3>2 DEF Recorded
    <2>2. ASSUME NEW c \in Active, StoreStep(c) PROVE s \in Recorded \/ s \in listed
      <3>1. c \in Calls /\ \A o \in Calls : o # c => call'[o] = call[o]
        BY <2>2, ActiveFacts, StoreStepFacts
      <3>2. s \in ToSet(order)' /\ call'[s].at # "meta" /\ s \notin listed'
        BY <1>1 DEF Recorded
      <3>3. CASE s \in ToSet(order) /\ s # c
        BY <1>t, <3>1, <3>2, <3>3, OrderFacts DEF Recorded
      <3>4. CASE s \in ToSet(order) /\ s = c
        <4>1. ~ WriteMeta(c)
          BY <3>2, <3>4 DEF WriteMeta
        <4>2. call[c].at # "stat"
          BY <3>4 DEF TypeInv
        <4>3. call[c].at # "meta"
          BY <2>2, <4>1 DEF StoreStep, TakeBlob, Collect, Recollect, PurgeBlob, PurgeMeta
        <4>4. QED
          BY <3>4, <4>3 DEF Recorded
      <3>5. CASE s \notin ToSet(order)
        <4>1. TakeBlob(c) /\ order' # order
          BY <2>2, <3>2, <3>5
             DEF StoreStep, WriteMeta, Collect, Recollect, PurgeBlob, PurgeMeta, storeVars
        <4>2. Step(c, "meta") /\ order' = Append(order, c)
          BY <4>1 DEF TakeBlob
        <4>3. c \notin ToSet(order)
          BY <4>1 DEF TakeBlob, TypeInv
        <4>4. s = c
          BY <1>t, <3>1, <3>2, <3>5, <4>2, <4>3, AppendOrders
        <4>5. call'[c].at = "meta"
          <5>1. "meta" \in Steps
            BY DEF Steps
          <5>2. QED
            BY <1>t, <3>1, <4>2, <5>1, StepFacts
        <4>6. QED
          BY <3>2, <4>4, <4>5
      <3>6. QED
        BY <3>3, <3>4, <3>5
    <2>3. QED
      BY <2>1, <2>2, KindsOfSteps
  <1>2. ASSUME NEW s \in Recorded' \ listed' PROVE Doomed(s)'
    <2>1. CASE s \notin listed
      BY <1>d, <1>1, <1>2, <2>1 DEF GoneInv
    <2>2. CASE s \in listed
      <3>1. Doomed(s)
        BY <1>t, <1>2, <2>2, ListSteps
      <3>2. QED
        BY <1>d, <3>1
    <2>3. QED
      BY <2>1, <2>2
  <1>3. ASSUME NEW c \in Active' PROVE c \notin aged'
    <2>1. CASE Age
      BY <1>3, <2>1 DEF Age, Active, GoneInv
    <2>2. CASE aged' = aged /\ c \in Active
      BY <2>2 DEF GoneInv
    <2>3. CASE aged' = aged /\ c \notin Active
      <3>1. call[c].at = "new"
        BY <1>3, <2>3, NewlyActive
      <3>2. QED
        BY <1>t, <2>3, <3>1 DEF TypeInv
    <2>4. QED
      BY <2>1, <2>2, <2>3, KindsOfSteps, StoreStepFacts
  <1>4. QED
    BY <1>2, <1>3 DEF GoneInv

\* While it is in progress, what a call that has no other on its file takes out
\* of it stays in a file or in a snapshot that can be restored, unless
\* MaxSnapshots newer ones have come after: whatever the other calls do, and
\* wherever the daemon crashes.
THEOREM NothingIsLost == Spec => NothingLost
  <1>1. Init => TakenInv /\ GoneInv
    BY DEF Init, Fresh, TakenInv, Apart, GoneInv, Recorded, Active, ToSet
  <1>2. ASSUME TypeInv, PairsInv, AgesInv, TakenInv, GoneInv, [Next]_vars,
               NEW c \in Active \ shared, NEW p \in Paths, p = call[c].path,
               file[p] \notin {None, Torn}, file'[p] # file[p]
        PROVE  \/ \E q \in Paths : file'[q] = file[p]
               \/ \E s \in listed' : blob'[s] = file[p]
               \/ Newer(c) >= MaxSnapshots
    <2>1. PICK d \in Active : ChangeStep(d)
      BY <1>2, BeginFacts, StoreStepFacts, CrashFacts
         DEF Next, CallStep, StoreStep, ChangeStep, Age, vars
    <2>2. p \in Touches(d)
      BY <1>2, <2>1, ChangesTouch
    <2>3. d = c
      BY <1>2, <2>2, Values DEF TakenInv, Apart, Touches
    <2>4. UNCHANGED storeVars
      BY <1>2, <2>1, ChangeStepFacts DEF storeVars
    <2>5. Taken(c) /\ c \notin aged /\ call[c].at \notin {"new", "stat", "meta"}
      BY <1>2, <2>1, <2>3, ChangeStepFacts DEF TakenInv, GoneInv
    <2>6. call[c].at \notin {"fill", "unlinked"}
      <3>1. call[c].at # "fill"
        BY <1>2, <2>5 DEF Taken
      <3>2. ASSUME call[c].at = "unlinked" PROVE FALSE
        BY <1>2, <2>1, <2>3, <3>2
           DEF ChangeStep, ReadBlob, Publish, Truncate, Fill, Rename
      <3>3. QED
        BY <3>1, <3>2
    <2>7. c \in ToSet(order) /\ blob[c] \in {None, file[p]}
      BY <1>2, <2>5, <2>6 DEF Taken
    <2>8. CASE c \in listed /\ blob[c] # None
      <3>1. c \in listed' /\ blob'[c] = file[p]
        BY <2>4, <2>7, <2>8 DEF storeVars
      <3>2. QED
        BY <3>1
    <2>9. CASE c \notin listed \/ blob[c] = None
      <3>1. Doomed(c)
        BY <2>5, <2>7, <2>9, <1>2 DEF GoneInv, Recorded, AgesInv, DoomedInv
      <3>2. QED
        BY <2>5, <3>1 DEF Doomed
    <2>10. QED
      BY <2>8, <2>9
  <1>3. TypeInv /\ PairsInv /\ AgesInv /\ TakenInv /\ GoneInv /\ [Next]_vars =>
           [\A c \in Active \ shared, p \in Paths :
              /\ p = call[c].path
              /\ file[p] \notin {None, Torn} /\ file'[p] # file[p]
              => \/ \E q \in Paths : file'[q] = file[p]
                 \/ \E s \in listed' : blob'[s] = file[p]
                 \/ Newer(c) >= MaxSnapshots]_vars
    BY <1>2
  <1>4. TypeInv /\ PairsInv /\ AgesInv /\ TakenInv /\ GoneInv /\ [Next]_vars
          => TakenInv' /\ GoneInv'
    BY TakenStep, GoneStep
  <1>5. QED
    BY <1>1, <1>3, <1>4, StoreInduction, PTL DEF Spec, NothingLost
=============================================================================
