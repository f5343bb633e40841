------------------------ MODULE ToolExecutor_proofs ------------------------
(***************************************************************************)
(* Proofs about the tool executor for any calls, ids (repeated or not) and *)
(* budgets.  Stages relates where execute() is to the tool, the gate and   *)
(* the outcome: with it the safety properties are inductive.  The last part *)
(* adds the processes of the commands, whose steps are the executor's.     *)
(***************************************************************************)
EXTENDS Commands, FiniteSetTheorems, TLAPS

Stages ==
    \A c \in Calls :
        /\ stage[c] = "idle" => op[c] = "none" /\ gate[c] = "none"
        /\ stage[c] = "confirming" => op[c] = "none" /\ c \in Confirmable
        /\ gate[c] = "waiting" <=> stage[c] = "confirming"
        /\ stage[c] = "running" => op[c] = "going"

IInv ==
    /\ TypeOK
    /\ Stages
    /\ NothingUnconfirmed
    /\ ActiveAreRunning
    /\ RunningAreActive

\* The steps of execute() and of what interferes with it, one per action.
LEMMA InitIInv == Init => IInv
<1> SUFFICES ASSUME Init PROVE IInv
  OBVIOUS
<1> USE CallsAssumption DEF Init, Gate!Init
<1>1. TypeOK
  BY DEF TypeOK, Buckets
<1>2. Stages /\ NothingUnconfirmed /\ ActiveAreRunning /\ RunningAreActive
  BY DEF Stages, NothingUnconfirmed, ActiveAreRunning, RunningAreActive
<1> QED
  BY <1>1, <1>2 DEF IInv

LEMMA RecordType ==
    ASSUME TypeOK, NEW bs, Record(bs)
    PROVE  used' \in [Buckets -> Nat]
BY DEF TypeOK, Record

\* A call whose confirmation, if it needs one, was given starts its tool.
LEMMA StartIInv ==
    ASSUME IInv, NEW c \in Calls, Start(c),
           stage[c] \in {"idle", "confirming"},
           gate' \in [Calls -> {"none", "waiting"} \union Gate!Decisions],
           \A d \in Calls \ {c} : gate'[d] = gate[d],
           gate'[c] # "waiting",
           c \in Confirmable => gate'[c] = "approved",
           used' \in [Buckets -> Nat], peak' \in Nat,
           UNCHANGED <<killed, readOnly, phase, expired>>
    PROVE  IInv'
<1> USE CallsAssumption DEF IInv, Start
<1>1. TypeOK'
  BY DEF TypeOK
<1>2. Stages'
  BY DEF Stages, TypeOK
<1>3. NothingUnconfirmed'
  BY DEF NothingUnconfirmed, TypeOK
<1>4. ActiveAreRunning'
  <2> SUFFICES ASSUME NEW i \in Ids, active'[i] # None
               PROVE  stage'[active'[i]] = "running" /\ IdOf[active'[i]] = i
    BY DEF ActiveAreRunning
  <2>1. CASE i = IdOf[c]
    BY <2>1 DEF TypeOK
  <2>2. CASE i # IdOf[c]
    BY <2>2 DEF TypeOK, ActiveAreRunning
  <2> QED
    BY <2>1, <2>2
<1>5. RunningAreActive'
  <2> SUFFICES ASSUME NEW d \in Calls, stage'[d] = "running",
                      \A e \in Calls : IdOf[e] = IdOf[d] => e = d
               PROVE  active'[IdOf[d]] = d
    BY DEF RunningAreActive
  <2>1. CASE d = c
    BY <2>1 DEF TypeOK
  <2>2. CASE d # c
    BY <2>2 DEF TypeOK, RunningAreActive
  <2> QED
    BY <2>1, <2>2
<1> QED
  BY <1>1, <1>2, <1>3, <1>4, <1>5

\* Calls that were not running end.
LEMMA EndedIInv ==
    ASSUME IInv, NEW cs \in SUBSET Calls, NEW what \in Outcomes, Ended(cs, what),
           \A c \in cs : stage[c] \in {"idle", "confirming"},
           gate' \in [Calls -> {"none", "waiting"} \union Gate!Decisions],
           \A d \in Calls \ cs : gate'[d] = gate[d],
           \A c \in cs : gate'[c] # "waiting",
           used' \in [Buckets -> Nat], peak' \in Nat, phase' \in {"up", "stopping", "down"},
           UNCHANGED <<active, op, killed, readOnly, expired>>
    PROVE  IInv'
<1> USE CallsAssumption DEF IInv, Ended
<1>1. TypeOK'
  BY DEF TypeOK
<1>2. Stages'
  BY DEF Stages, TypeOK
<1>3. NothingUnconfirmed'
  BY DEF NothingUnconfirmed, Stages, TypeOK
<1>4. ActiveAreRunning'
  BY DEF ActiveAreRunning, TypeOK
<1>5. RunningAreActive'
  BY DEF RunningAreActive, TypeOK
<1> QED
  BY <1>1, <1>2, <1>3, <1>4, <1>5

LEMMA StartOrRefuseIInv ==
    ASSUME IInv, NEW c \in Calls, StartOrRefuse(c),
           stage[c] \in {"idle", "confirming"},
           gate' \in [Calls -> {"none", "waiting"} \union Gate!Decisions],
           \A d \in Calls \ {c} : gate'[d] = gate[d],
           gate'[c] # "waiting",
           c \in Confirmable => gate'[c] = "approved",
           used' \in [Buckets -> Nat], peak' \in Nat,
           UNCHANGED <<killed, readOnly, phase, expired>>
    PROVE  IInv'
<1>1. CASE Start(c)
  BY <1>1, StartIInv
<1>2. CASE Ended({c}, "blocked") /\ UNCHANGED <<active, op>>
  <2>1. phase' \in {"up", "stopping", "down"} /\ {c} \in SUBSET Calls
    BY DEF IInv, TypeOK
  <2>2. \A d \in {c} : stage[d] \in {"idle", "confirming"} /\ gate'[d] # "waiting"
    OBVIOUS
  <2>3. UNCHANGED <<active, op, killed, readOnly, expired>>
    BY <1>2
  <2>4. "blocked" \in Outcomes
    BY DEF Outcomes
  <2> QED
    BY <1>2, <2>1, <2>2, <2>3, <2>4, EndedIInv
<1> QED
  BY <1>1, <1>2 DEF StartOrRefuse, MayBeTooLarge

\* Running calls end and leave the map, those of another call of their id too.
LEMMA StoppedIInv ==
    ASSUME IInv, NEW cs \in SUBSET Calls, NEW what \in Outcomes, Ended(cs, what),
           \A c \in cs : stage[c] = "running",
           Forget(cs),
           op' \in [Calls -> {"none", "going", "finished"}],
           \A d \in Calls : op'[d] = op[d] \/ (op[d] = "going" /\ op'[d] = "finished"),
           \A d \in Calls : stage[d] = "running" /\ d \notin cs => op'[d] = op[d],
           killed' \subseteq Shell, expired' \subseteq Calls,
           used' \in [Buckets -> Nat], peak' \in Nat, phase' \in {"up", "stopping", "down"},
           UNCHANGED <<gate, readOnly>>
    PROVE  IInv'
<1> USE CallsAssumption DEF IInv, Ended, Forget
<1>1. TypeOK'
  BY DEF TypeOK
<1>2. Stages'
  BY DEF Stages, TypeOK
<1>3. NothingUnconfirmed'
  BY DEF NothingUnconfirmed
<1>4. ActiveAreRunning'
  BY DEF ActiveAreRunning, TypeOK
<1>5. RunningAreActive'
  BY DEF RunningAreActive, TypeOK
<1> QED
  BY <1>1, <1>2, <1>3, <1>4, <1>5

\* abortAll ends exactly the calls in the map.
LEMMA AbortAllIInv ==
    ASSUME IInv, AbortAll, phase' \in {"up", "stopping", "down"},
           UNCHANGED <<op, used, gate, readOnly, pastVars>>
    PROVE  IInv'
<1> DEFINE aborted == {c \in Calls : \E i \in Ids : active[i] = c}
<1>1. Ended(aborted, "timeout")
  BY DEF AbortAll
<1>2. \A c \in aborted : stage[c] = "running"
  BY CallsAssumption DEF IInv, ActiveAreRunning, TypeOK
<1>3. Forget(aborted)
  <2> SUFFICES ASSUME NEW i \in Ids, ~ \E c \in aborted : IdOf[c] = i
               PROVE  active[i] = None
    BY DEF AbortAll, Forget
  <2> QED
    BY DEF IInv, ActiveAreRunning, TypeOK
<1>4. killed' \subseteq Shell /\ expired' \subseteq Calls /\ peak' \in Nat
      /\ op' \in [Calls -> {"none", "going", "finished"}] /\ used' \in [Buckets -> Nat]
  BY DEF AbortAll, KillAll, IInv, TypeOK, pastVars
<1>5. "timeout" \in Outcomes /\ aborted \in SUBSET Calls
  BY DEF Outcomes
<1>6. /\ UNCHANGED <<gate, readOnly>>
      /\ \A d \in Calls : op'[d] = op[d]
  OBVIOUS
<1> HIDE DEF aborted
<1> QED
  BY <1>1, <1>2, <1>3, <1>4, <1>5, <1>6, StoppedIInv

-----------------------------------------------------------------------------
LEMMA ExecuteIInv ==
    ASSUME IInv, NEW c \in Calls, Execute(c)
    PROVE  IInv'
<1> USE DEF Execute
<1>1. stage[c] = "idle" /\ gate[c] = "none"
  BY DEF IInv, Stages
<1>2. ASSUME Refuse(c), NEW what \in Outcomes, Ended({c}, what)
      PROVE  IInv'
  <2>1. gate' = gate /\ used' = used /\ peak' = peak /\ phase' = phase
    BY <1>2 DEF Refuse
  <2>2. UNCHANGED <<active, op, killed, readOnly, expired>>
    BY <1>2 DEF Refuse
  <2>3. /\ gate' \in [Calls -> {"none", "waiting"} \union Gate!Decisions]
        /\ used' \in [Buckets -> Nat] /\ peak' \in Nat /\ phase' \in {"up", "stopping", "down"}
    BY <2>1 DEF IInv, TypeOK
  <2>4. \A d \in {c} : stage[d] \in {"idle", "confirming"} /\ gate'[d] # "waiting"
    BY <1>1, <2>1
  <2> QED
    BY <1>2, <2>1, <2>2, <2>3, <2>4, EndedIInv
<1>3. CASE Refuse(c)
  <2>1. PICK what \in {"blocked", "budget"} : Ended({c}, what)
    BY <1>3 DEF Refuse
  <2> QED
    BY <1>2, <1>3, <2>1 DEF Outcomes
<1>4. Cardinality(InFlight') \in Nat
  <2>1. IsFiniteSet(InFlight')
    BY CallsAssumption, FS_Subset DEF InFlight
  <2> QED
    BY <2>1, FS_CardinalityType
<1>5. CASE Admit(c) /\ c \in Confirmable
  <2> USE <1>5 DEF Admit, IInv
  <2>1. TypeOK'
    BY <1>4 DEF TypeOK, Record, Gate!Ask
  <2>2. Stages'
    BY <1>1 DEF Stages, Gate!Ask, TypeOK
  <2>3. NothingUnconfirmed'
    <3>1. \A d \in Calls \ {c} : gate'[d] = gate[d]
      BY DEF Gate!Ask, TypeOK
    <3>2. op' = op /\ op[c] = "none"
      BY <1>1 DEF Stages
    <3> QED
      BY <3>1, <3>2, CallsAssumption DEF NothingUnconfirmed
  <2>4. ActiveAreRunning' /\ RunningAreActive'
    BY <1>1, CallsAssumption DEF ActiveAreRunning, RunningAreActive, TypeOK
  <2> QED
    BY <2>1, <2>2, <2>3, <2>4
<1>6. CASE Admit(c) /\ c \notin Confirmable
  <2>1. gate' = gate /\ used' = used /\ StartOrRefuse(c)
    BY <1>6 DEF Admit
  <2>2. peak' \in Nat
    BY <1>4, <1>6 DEF Admit, IInv, TypeOK
  <2>3. gate' \in [Calls -> {"none", "waiting"} \union Gate!Decisions]
        /\ used' \in [Buckets -> Nat]
    BY <2>1 DEF IInv, TypeOK
  <2> QED
    BY <1>1, <1>6, <2>1, <2>2, <2>3, StartOrRefuseIInv
<1> QED
  BY <1>3, <1>5, <1>6

LEMMA DecidedIInv ==
    ASSUME IInv, NEW c \in Calls, NEW d \in Gate!Decisions, Decided(c, d)
    PROVE  IInv'
<1>1. /\ gate' \in [Calls -> {"none", "waiting"} \union Gate!Decisions]
      /\ gate'[c] = d /\ \A e \in Calls \ {c} : gate'[e] = gate[e]
  BY DEF Decided, Gate!Decide, IInv, TypeOK
<1>2. d # "waiting"
  BY DEF Gate!Decisions
<1>3. used' \in [Buckets -> Nat] /\ peak' \in Nat /\ phase' \in {"up", "stopping", "down"}
  BY DEF Decided, pastVars, IInv, TypeOK
<1>4. CASE d = "approved"
  BY <1>1, <1>2, <1>3, <1>4, StartOrRefuseIInv DEF Decided, pastVars
<1>5. CASE d # "approved"
  <2>1. Ended({c}, CodeOf(d)) /\ CodeOf(d) \in Outcomes
    BY <1>5 DEF Decided, CodeOf, Outcomes
  <2>2. UNCHANGED <<active, op, killed, readOnly, expired>>
    BY <1>5 DEF Decided, pastVars
  <2>3. \A e \in {c} : stage[e] \in {"idle", "confirming"} /\ gate'[e] # "waiting"
    BY <1>1, <1>2 DEF Decided
  <2> QED
    BY <1>1, <1>3, <2>1, <2>2, <2>3, EndedIInv
<1> QED
  BY <1>4, <1>5

LEMMA ToolEndsIInv ==
    ASSUME IInv, NEW c \in Calls, NEW what \in {"ok", "failed", "error"}, ToolEnds(c, what)
    PROVE  IInv'
<1> USE DEF ToolEnds
<1>1. CASE stage[c] = "running"
  <2>1. used' \in [Buckets -> Nat]
    BY <1>1, RecordType DEF IInv
  <2>2. /\ op' \in [Calls -> {"none", "going", "finished"}]
        /\ op[c] = "going" /\ op' = [op EXCEPT ![c] = "finished"]
    BY DEF IInv, TypeOK
  <2>3. /\ killed' \subseteq Shell /\ expired' \subseteq Calls
        /\ peak' \in Nat /\ phase' \in {"up", "stopping", "down"}
    BY DEF IInv, TypeOK, pastVars
  <2>4. what \in Outcomes /\ \A d \in {c} : stage[d] = "running"
    BY <1>1 DEF Outcomes
  <2>5. /\ \A d \in Calls : op'[d] = op[d] \/ (op[d] = "going" /\ op'[d] = "finished")
        /\ \A d \in Calls \ {c} : op'[d] = op[d]
    BY <2>2 DEF IInv, TypeOK
  <2>6. /\ Ended({c}, what) /\ Forget({c}) /\ UNCHANGED <<gate, readOnly>>
        /\ {c} \in SUBSET Calls
    BY <1>1
  <2> HIDE DEF ToolEnds
  <2> QED
    BY <2>1, <2>2, <2>3, <2>4, <2>5, <2>6, StoppedIInv
<1>2. CASE stage[c] # "running"
  BY <1>2 DEF IInv, TypeOK, Stages, NothingUnconfirmed, ActiveAreRunning,
              RunningAreActive, pastVars
<1> QED
  BY <1>1, <1>2

LEMMA TimeoutIInv ==
    ASSUME IInv, NEW c \in Calls, Timeout(c)
    PROVE  IInv'
<1> USE DEF Timeout
<1>1. /\ killed' \subseteq Shell /\ expired' \subseteq Calls
      /\ op' \in [Calls -> {"none", "going", "finished"}] /\ used' \in [Buckets -> Nat]
      /\ peak' \in Nat /\ phase' \in {"up", "stopping", "down"}
  BY DEF KillAll, IInv, TypeOK
<1>2. "timeout" \in Outcomes /\ \A d \in {c} : stage[d] = "running"
  BY DEF Outcomes
<1>3. /\ Ended({c}, "timeout") /\ Forget({c}) /\ UNCHANGED <<gate, readOnly>>
      /\ {c} \in SUBSET Calls /\ \A d \in Calls : op'[d] = op[d]
  OBVIOUS
<1> HIDE DEF Timeout
<1> QED
  BY <1>1, <1>2, <1>3, StoppedIInv

LEMMA ExitIInv ==
    ASSUME IInv, Exit
    PROVE  IInv'
<1> DEFINE waiting == {c \in Calls : gate[c] = "waiting"}
<1>1. Gate!Decide(waiting, "expired") /\ Ended(waiting, "required")
  BY DEF Exit
<1>2. /\ gate' \in [Calls -> {"none", "waiting"} \union Gate!Decisions]
      /\ \A d \in Calls \ waiting : gate'[d] = gate[d]
      /\ \A d \in waiting : gate'[d] = "expired"
  BY <1>1 DEF Gate!Decide, Gate!Decisions, IInv, TypeOK
<1>3. \A d \in waiting : stage[d] \in {"idle", "confirming"}
  BY DEF IInv, Stages
<1>4. /\ used' \in [Buckets -> Nat] /\ peak' \in Nat /\ phase' \in {"up", "stopping", "down"}
      /\ UNCHANGED <<active, op, killed, readOnly, expired>>
  BY DEF Exit, pastVars, IInv, TypeOK
<1>5. "required" \in Outcomes /\ waiting \in SUBSET Calls
  BY DEF Outcomes
<1> HIDE DEF waiting
<1> QED
  BY <1>1, <1>2, <1>3, <1>4, <1>5, EndedIInv

LEMMA StepIInv ==
    ASSUME IInv, [Next]_vars
    PROVE  IInv'
<1>1. ASSUME NEW c \in Calls, CallStep(c) PROVE IInv'
  BY <1>1, ExecuteIInv, DecidedIInv, ToolEndsIInv, TimeoutIInv DEF CallStep
<1>2. ASSUME NEW b \in Buckets, AgeOut(b) PROVE IInv'
  BY <1>2 DEF AgeOut, IInv, TypeOK, Stages, NothingUnconfirmed, ActiveAreRunning,
              RunningAreActive, pastVars
<1>3. CASE TunnelLost
  BY <1>3, AbortAllIInv DEF TunnelLost, IInv, TypeOK
<1>4. CASE Shutdown
  BY <1>4, AbortAllIInv DEF Shutdown
<1>5. CASE UpdatePolicy
  BY <1>5 DEF UpdatePolicy, IInv, TypeOK, Stages, NothingUnconfirmed, ActiveAreRunning,
              RunningAreActive, runVars, pastVars
<1>6. CASE Exit
  BY <1>6, ExitIInv
<1>7. CASE UNCHANGED vars
  BY <1>7 DEF vars, IInv, TypeOK, Stages, NothingUnconfirmed, ActiveAreRunning,
              RunningAreActive, runVars, pastVars
<1> QED
  BY <1>1, <1>2, <1>3, <1>4, <1>5, <1>6, <1>7 DEF Next

\* The invariant is inductive.
THEOREM Inductive == Spec => []IInv
BY InitIInv, StepIInv, PTL DEF Spec

-----------------------------------------------------------------------------
\* No tool that policy wants confirmed starts without the approval of its call.
THEOREM OnlyWithConsent == Spec => []NothingUnconfirmed
<1>1. IInv => NothingUnconfirmed
  BY DEF IInv
<1> QED
  BY <1>1, Inductive, PTL

\* An abort finds running calls only, whatever ids are repeated.
THEOREM AbortsHitRunningCalls == Spec => []ActiveAreRunning
<1>1. IInv => ActiveAreRunning
  BY DEF IInv
<1> QED
  BY <1>1, Inductive, PTL

\* An abort reaches every running call whose id is its own.
THEOREM AbortsReachRunningCalls == Spec => []RunningAreActive
<1>1. IInv => RunningAreActive
  BY DEF IInv
<1> QED
  BY <1>1, Inductive, PTL

-----------------------------------------------------------------------------
\* What a step does to the stage and the outcome of the calls.
LEMMA DoneStaysDone ==
    ASSUME IInv, [Next]_vars, NEW c \in Calls, stage[c] = "done"
    PROVE  stage'[c] = "done" /\ code'[c] = code[c]
<1> USE DEF IInv, TypeOK
<1>1. ASSUME NEW d \in Calls, CallStep(d)
      PROVE  stage'[c] = "done" /\ code'[c] = code[c]
  <2>1. CASE Execute(d)
    BY <2>1 DEF Execute, Refuse, Admit, StartOrRefuse, MayBeTooLarge, Start, Ended
  <2>2. ASSUME NEW e \in Gate!Decisions, Decided(d, e)
        PROVE  stage'[c] = "done" /\ code'[c] = code[c]
    BY <2>2 DEF Decided, StartOrRefuse, MayBeTooLarge, Start, Ended
  <2>3. ASSUME NEW what \in {"ok", "failed", "error"}, ToolEnds(d, what)
        PROVE  stage'[c] = "done" /\ code'[c] = code[c]
    BY <2>3 DEF ToolEnds, Ended
  <2>4. CASE Timeout(d)
    BY <2>4 DEF Timeout, Ended
  <2> QED
    BY <1>1, <2>1, <2>2, <2>3, <2>4 DEF CallStep
<1>2. CASE AbortAll
  <2>1. \A i \in Ids : active[i] # c
    BY CallsAssumption DEF ActiveAreRunning
  <2> QED
    BY <1>2, <2>1 DEF AbortAll, Ended
<1>3. CASE Exit
  <2>1. gate[c] # "waiting"
    BY DEF Stages
  <2> QED
    BY <1>3, <2>1 DEF Exit, Ended
<1>4. ASSUME NEW b \in Buckets, AgeOut(b)
      PROVE  stage'[c] = "done" /\ code'[c] = code[c]
  BY <1>4 DEF AgeOut
<1>5. CASE UpdatePolicy \/ UNCHANGED vars
  BY <1>5 DEF UpdatePolicy, vars, runVars
<1> QED
  BY <1>1, <1>2, <1>3, <1>4, <1>5 DEF Next, TunnelLost, Shutdown

\* A call that was aborted stays so when its tool returns, and a second abort
\* or the daemon's shutdown does nothing to it.
THEOREM OutcomesAreFinal == Spec => OutcomeIsFinal
<1>1. IInv /\ [Next]_vars =>
        [\A c \in Calls : stage[c] = "done" => stage'[c] = "done" /\ code'[c] = code[c]]_vars
  BY DoneStaysDone
<1> QED
  BY <1>1, Inductive, PTL DEF Spec, OutcomeIsFinal

-----------------------------------------------------------------------------
\* Only Admit counts a confirmation, right after its check.
LEMMA StepConfirmations ==
    ASSUME IInv, [Next]_vars, ConfirmationsCapped
    PROVE  ConfirmationsCapped'
<1> USE LimitAssumption DEF IInv, TypeOK, ConfirmationsCapped, Buckets
<1>1. ASSUME NEW c \in Calls, CallStep(c) PROVE ConfirmationsCapped'
  <2>1. CASE Execute(c)
    BY <2>1 DEF Execute, Refuse, Admit, CheckBudget, Record
  <2>2. ASSUME NEW d \in Gate!Decisions, Decided(c, d) PROVE ConfirmationsCapped'
    BY <2>2 DEF Decided
  <2>3. ASSUME NEW what \in {"ok", "failed", "error"}, ToolEnds(c, what)
        PROVE  ConfirmationsCapped'
    BY <2>3 DEF ToolEnds, Record, Spent
  <2>4. CASE Timeout(c)
    BY <2>4 DEF Timeout
  <2> QED
    BY <1>1, <2>1, <2>2, <2>3, <2>4 DEF CallStep
<1>2. ASSUME NEW b \in Buckets, AgeOut(b) PROVE ConfirmationsCapped'
  BY <1>2 DEF AgeOut
<1>3. CASE TunnelLost \/ UpdatePolicy \/ Shutdown \/ Exit \/ UNCHANGED vars
  BY <1>3 DEF TunnelLost, UpdatePolicy, Shutdown, Exit, vars, runVars
<1> QED
  BY <1>1, <1>2, <1>3 DEF Next

\* The user is asked no more often than the budget of confirmations says.
THEOREM UserIsNotFlooded == Spec => []ConfirmationsCapped
<1>1. Init => ConfirmationsCapped
  BY LimitAssumption DEF Init, ConfirmationsCapped, Buckets
<1> QED
  BY <1>1, StepConfirmations, Inductive, PTL DEF Spec

-----------------------------------------------------------------------------
LEMMA InFlightFinite ==
    /\ IsFiniteSet(InFlight) /\ Cardinality(InFlight) \in Nat
    /\ IsFiniteSet(InFlight') /\ Cardinality(InFlight') \in Nat
<1>1. InFlight \subseteq Calls /\ InFlight' \subseteq Calls
  BY DEF InFlight
<1> QED
  BY <1>1, CallsAssumption, FS_Subset, FS_CardinalityType

\* A step that admits no call and counts none keeps the bound.
LEMMA QuietOvershoot ==
    ASSUME IInv, OvershootBounded, InFlight' \subseteq InFlight,
           used'["calls"] \in Nat, used'["calls"] <= used["calls"], peak' = peak
    PROVE  OvershootBounded'
<1>1. Cardinality(InFlight') <= Cardinality(InFlight)
  BY InFlightFinite, FS_Subset
<1>2. used["calls"] \in Nat /\ peak \in Nat /\ Limit["calls"] \in Nat
  BY LimitAssumption DEF IInv, TypeOK, Buckets
<1> QED
  BY <1>1, <1>2, InFlightFinite DEF OvershootBounded

LEMMA ExecuteOvershoot ==
    ASSUME IInv, OvershootBounded, NEW c \in Calls, Execute(c)
    PROVE  OvershootBounded'
<1> USE DEF IInv, TypeOK, Buckets
<1>1. CASE Refuse(c)
  <2>1. InFlight' \subseteq InFlight
    BY <1>1 DEF Refuse, Ended, InFlight
  <2> QED
    BY <1>1, <2>1, QuietOvershoot DEF Refuse
<1>2. CASE Admit(c)
  <2>1. used["calls"] + 1 <= Limit["calls"] /\ Limit["calls"] \in Nat
    BY <1>2, LimitAssumption DEF Admit, CheckBudget
  <2>2. used'["calls"] = used["calls"]
    BY <1>2 DEF Admit, Record
  <2>3. peak' \in Nat /\ Cardinality(InFlight') <= peak'
    BY <1>2, InFlightFinite DEF Admit
  <2> QED
    BY <2>1, <2>2, <2>3, InFlightFinite DEF OvershootBounded
<1> QED
  BY <1>1, <1>2 DEF Execute

LEMMA ToolEndsOvershoot ==
    ASSUME IInv, OvershootBounded, NEW c \in Calls,
           NEW what \in {"ok", "failed", "error"}, ToolEnds(c, what)
    PROVE  OvershootBounded'
<1> USE DEF IInv, TypeOK, Buckets
<1>1. used["calls"] \in Nat /\ peak \in Nat /\ Limit["calls"] \in Nat /\ peak' = peak
  BY LimitAssumption DEF ToolEnds, pastVars
<1>2. CASE stage[c] = "running"
  <2>1. used'["calls"] \in Nat /\ used'["calls"] <= used["calls"] + 1
    BY <1>1, <1>2 DEF ToolEnds, Record
  <2>2. InFlight' = InFlight \ {c} /\ c \in InFlight
    BY <1>2 DEF ToolEnds, Ended, InFlight
  <2>3. Cardinality(InFlight') = Cardinality(InFlight) - 1
    BY <2>2, InFlightFinite, FS_RemoveElement
  <2> QED
    BY <1>1, <2>1, <2>3, InFlightFinite DEF OvershootBounded
<1>3. CASE stage[c] # "running"
  <2>1. UNCHANGED <<stage, used>>
    BY <1>3 DEF ToolEnds
  <2>2. InFlight' \subseteq InFlight
    BY <2>1 DEF InFlight
  <2> QED
    BY <1>1, <2>1, <2>2, QuietOvershoot
<1> QED
  BY <1>2, <1>3

LEMMA StepOvershoot ==
    ASSUME IInv, [Next]_vars, OvershootBounded
    PROVE  OvershootBounded'
<1> USE DEF pastVars
<1>1. used["calls"] \in Nat
  BY DEF IInv, TypeOK, Buckets
<1>2. ASSUME NEW cs, NEW what \in Outcomes, Ended(cs, what)
      PROVE  InFlight' \subseteq InFlight
  BY <1>2 DEF Ended, InFlight
<1>3. ASSUME NEW c \in Calls, CallStep(c) PROVE OvershootBounded'
  <2>1. ASSUME NEW d \in Gate!Decisions, Decided(c, d) PROVE OvershootBounded'
    <3>1. InFlight' \subseteq InFlight
      BY <2>1 DEF Decided, StartOrRefuse, MayBeTooLarge, Start, Ended, InFlight, IInv, TypeOK
    <3> QED
      BY <1>1, <2>1, <3>1, QuietOvershoot DEF Decided
  <2>2. CASE Timeout(c)
    BY <1>1, <1>2, <2>2, QuietOvershoot DEF Timeout, Outcomes
  <2> QED
    BY <1>3, <2>1, <2>2, ExecuteOvershoot, ToolEndsOvershoot DEF CallStep
<1>4. ASSUME NEW b \in Buckets, AgeOut(b) PROVE OvershootBounded'
  <2>1. used'["calls"] \in Nat /\ used'["calls"] <= used["calls"]
    BY <1>1, <1>4 DEF AgeOut, IInv, TypeOK
  <2>2. InFlight' \subseteq InFlight
    BY <1>4 DEF AgeOut, InFlight
  <2> QED
    BY <1>4, <2>1, <2>2, QuietOvershoot DEF AgeOut
<1>5. CASE TunnelLost \/ Shutdown
  <2>1. InFlight' \subseteq InFlight
    BY <1>2, <1>5 DEF TunnelLost, Shutdown, AbortAll, Outcomes
  <2> QED
    BY <1>1, <1>5, <2>1, QuietOvershoot DEF TunnelLost, Shutdown
<1>6. CASE Exit
  <2>1. InFlight' \subseteq InFlight
    BY <1>2, <1>6 DEF Exit, Outcomes
  <2> QED
    BY <1>1, <1>6, <2>1, QuietOvershoot DEF Exit
<1>7. CASE UpdatePolicy \/ UNCHANGED vars
  <2>1. UNCHANGED <<stage, used, peak>>
    BY <1>7 DEF UpdatePolicy, vars, runVars
  <2>2. InFlight' \subseteq InFlight
    BY <2>1 DEF InFlight
  <2> QED
    BY <1>1, <2>1, <2>2, QuietOvershoot
<1> QED
  BY <1>3, <1>4, <1>5, <1>6, <1>7 DEF Next

\* The budget of calls is overshot by fewer calls than ever overlapped.
THEOREM OvershootIsBounded == Spec => []OvershootBounded
<1>1. ASSUME Init PROVE OvershootBounded
  <2>1. InFlight = {}
    BY <1>1 DEF Init, InFlight
  <2> QED
    BY <1>1, <2>1, LimitAssumption, FS_EmptySet DEF Init, OvershootBounded, Buckets
<1> QED
  BY <1>1, StepOvershoot, Inductive, PTL DEF Spec

-----------------------------------------------------------------------------
(* The commands of the terminal tools.                                     *)

\* Every step of the executor with its commands is one of the executor, or
\* changes processes and their timers only.
LEMMA CommandsStep == [CommandsNext]_allVars => [Next]_vars
<1> SUFFICES ASSUME [CommandsNext]_allVars PROVE [Next]_vars
  OBVIOUS
<1>1. ASSUME NEW c \in Calls, ExecuteTool(c) PROVE Next
  BY <1>1 DEF ExecuteTool, Next, CallStep
<1>2. ASSUME NEW c \in Calls, OtherToolEnds(c) PROVE Next
  BY <1>2 DEF OtherToolEnds, Next, CallStep
<1>3. ASSUME NEW c \in Calls, AbortCall(c) PROVE Next
  BY <1>3 DEF AbortCall, Next, CallStep
<1>4. ASSUME NEW c \in Shell, CommandCloses(c) PROVE Next
  BY <1>4, CallsAssumption DEF CommandCloses, Next, CallStep
<1>5. ASSUME NEW c \in Shell, ShellExits(c) \/ SigkillDue(c) \/ CommandTimeout(c)
      PROVE  UNCHANGED vars
  BY <1>5 DEF ShellExits, SigkillDue, CommandTimeout
<1>6. CASE AbortCalls \/ BeginShutdown \/ EndProcess
  BY <1>6 DEF AbortCalls, BeginShutdown, EndProcess, Next
<1>7. CASE (UpdatePolicy \/ \E b \in Buckets : AgeOut(b)) /\ UNCHANGED commandVars
  BY <1>7 DEF Next
<1>8. CASE UNCHANGED allVars
  BY <1>8 DEF allVars
<1> QED
  BY <1>1, <1>2, <1>3, <1>4, <1>5, <1>6, <1>7, <1>8 DEF CommandsNext

\* The commands add no behaviour to the executor: what is proved of its steps
\* holds with them.
THEOREM CommandsAreTheExecutors == CommandsSpec => Init /\ [][Next]_vars
<1>1. CommandsInit => Init
  BY DEF CommandsInit
<1> QED
  BY <1>1, CommandsStep, PTL DEF CommandsSpec

\* A call has at most one process, which began with its tool; what the shutdown
\* found has ended or has its SIGKILL to come.
Processes ==
    /\ child \in [Shell -> {"none", "runs", "gone"}]
    /\ tracked \subseteq Shell /\ stopped \subseteq Shell
    /\ \A c \in tracked \union stopped : op[c] # "none"
    /\ phase = "up" => stopped = {}
    /\ \A c \in stopped : child[c] = "gone" \/ (c \in doomed /\ phase # "down")

LEMMA ExecuteToolProcesses ==
    ASSUME IInv, Processes, NEW c \in Calls, ExecuteTool(c)
    PROVE  Processes'
<1>1. stage[c] \in {"idle", "confirming"} /\ op[c] = "none"
  BY DEF ExecuteTool, Execute, Decided, IInv, Stages
<1>2. UNCHANGED phase
  BY DEF ExecuteTool, Execute, Decided
<1>3. \A d \in Calls : op[d] # "none" => op'[d] # "none"
  <2>1. op \in [Calls -> {"none", "going", "finished"}]
    BY DEF IInv, TypeOK
  <2>2. op' = op \/ op' = [op EXCEPT ![c] = "going"]
    BY DEF ExecuteTool, Execute, Decided, Refuse, Admit, StartOrRefuse, Start
  <2> QED
    BY <2>1, <2>2
<1>4. CASE UNCHANGED commandVars
  BY <1>2, <1>3, <1>4, CallsAssumption DEF Processes, commandVars
<1>5. CASE c \in Shell /\ op[c] # op'[c] /\ RunShellCommand(c) /\ ~UNCHANGED commandVars
  <2>1. c \notin tracked \union stopped
    BY <1>1 DEF Processes
  <2>2. PICK state \in {"runs", "gone"} :
           /\ child' = [child EXCEPT ![c] = state]
           /\ tracked' = tracked \union {c}
           /\ UNCHANGED <<doomed, stopped>>
    BY <1>5 DEF RunShellCommand
  <2>3. op'[c] # "none"
    BY <1>1, <1>5
  <2>4. \A d \in stopped' : child'[d] = child[d]
    BY <2>1, <2>2 DEF Processes
  <2>5. child' \in [Shell -> {"none", "runs", "gone"}]
    BY <2>2 DEF Processes
  <2>6. \A d \in tracked' \union stopped' : op'[d] # "none"
    BY <1>3, <2>2, <2>3, CallsAssumption DEF Processes
  <2> QED
    BY <1>2, <1>5, <2>2, <2>4, <2>5, <2>6 DEF Processes
<1> QED
  BY <1>4, <1>5 DEF ExecuteTool

\* The tools that end leave their processes as they are, or have ended.
LEMMA EndsProcesses ==
    ASSUME IInv, Processes, NEW c \in Calls, NEW what, ToolEnds(c, what),
           tracked' \subseteq tracked, UNCHANGED <<child, doomed, stopped>>
    PROVE  Processes'
<1>1. \A d \in Calls : op[d] # "none" => op'[d] # "none"
  BY DEF ToolEnds, IInv, TypeOK
<1> QED
  BY <1>1, CallsAssumption DEF Processes, ToolEnds

LEMMA CommandsKeepProcesses ==
    IInv /\ Processes /\ [CommandsNext]_allVars => Processes'
<1> SUFFICES ASSUME IInv, Processes, [CommandsNext]_allVars PROVE Processes'
  OBVIOUS
<1>1. ASSUME NEW c \in Calls, OtherToolEnds(c) PROVE Processes'
  <2>1. PICK what : ToolEnds(c, what)
    BY <1>1 DEF OtherToolEnds
  <2> QED
    BY <1>1, <2>1, EndsProcesses DEF OtherToolEnds, commandVars
<1>2. ASSUME NEW c \in Calls, AbortCall(c) PROVE Processes'
  BY <1>2 DEF AbortCall, Timeout, ForceKill, Processes
<1>3. ASSUME NEW c \in Shell, ShellExits(c) PROVE Processes'
  BY <1>3 DEF ShellExits, Processes, vars, runVars
<1>4. ASSUME NEW c \in Shell, CommandCloses(c) PROVE Processes'
  <2>1. PICK what : ToolEnds(c, what)
    BY <1>4 DEF CommandCloses
  <2> QED
    BY <1>4, <2>1, EndsProcesses, CallsAssumption DEF CommandCloses
<1>5. ASSUME NEW c \in Shell, SigkillDue(c) PROVE Processes'
  BY <1>5 DEF SigkillDue, Processes, vars, runVars
<1>6. ASSUME NEW c \in Shell, CommandTimeout(c) PROVE Processes'
  BY <1>6 DEF CommandTimeout, ForceKill, Processes, vars, runVars
<1>7. CASE AbortCalls
  BY <1>7 DEF AbortCalls, TunnelLost, ForceKill, Processes
<1>8. CASE BeginShutdown
  BY <1>8 DEF BeginShutdown, Shutdown, ForceKill, Processes
<1>9. CASE EndProcess
  BY <1>9 DEF EndProcess, WaitIsOver, Exit, Processes
<1>10. CASE (UpdatePolicy \/ \E b \in Buckets : AgeOut(b)) /\ UNCHANGED commandVars
  BY <1>10 DEF UpdatePolicy, AgeOut, runVars, commandVars, Processes
<1>11. CASE UNCHANGED allVars
  BY <1>11 DEF allVars, vars, runVars, commandVars, Processes
<1> QED
  BY <1>1, <1>2, <1>3, <1>4, <1>5, <1>6, <1>7, <1>8, <1>9, <1>10, <1>11,
     ExecuteToolProcesses DEF CommandsNext

\* No command that ran when the shutdown began outlives the process, whatever
\* it does about its SIGTERM.
THEOREM ShutdownLeavesNoCommand == CommandsSpec => []ShutdownEndsCommands
<1>1. CommandsInit => IInv /\ Processes
  BY InitIInv DEF CommandsInit, Processes
<1>2. IInv /\ [CommandsNext]_allVars => IInv'
  BY CommandsStep, StepIInv
<1>3. Processes => ShutdownEndsCommands
  BY DEF Processes, ShutdownEndsCommands
<1> QED
  BY <1>1, <1>2, <1>3, CommandsKeepProcesses, PTL DEF CommandsSpec

\* What can be proved of TimedOutCommandsEnd without fairness: a command that
\* runs is tracked, and one whose call was reported as timed out has its SIGKILL
\* to come.
TimedOutAreDoomed ==
    phase # "down" =>
        \A c \in Shell : code[c] = "timeout" /\ child[c] = "runs" => c \in doomed

Tracking ==
    /\ \A c \in Calls : stage[c] # "done" => code[c] = "none"
    /\ \A c \in Shell : child[c] = "runs" => c \in tracked
    /\ TimedOutAreDoomed

LEMMA ExecuteToolTracks ==
    ASSUME IInv, Processes, Tracking, NEW c \in Calls, ExecuteTool(c)
    PROVE  Tracking'
<1> USE DEF IInv, TypeOK, Tracking, TimedOutAreDoomed
<1> DEFINE OwnOutcome ==
       /\ \A d \in Calls \ {c} : stage'[d] = stage[d] /\ code'[d] = code[d]
       /\ stage'[c] # "done" => code'[c] = "none"
       /\ code'[c] # "timeout"
       /\ UNCHANGED phase
<1>1. OwnOutcome
  <2>1. stage[c] # "done" /\ code[c] = "none"
    BY DEF ExecuteTool, Execute, Decided
  <2>2. CASE Execute(c)
    BY <2>1, <2>2 DEF Execute, Refuse, Admit, StartOrRefuse, MayBeTooLarge, Start,
                      Ended, Outcomes
  <2>3. ASSUME NEW d \in Gate!Decisions, Decided(c, d)
        PROVE  OwnOutcome
    BY <2>1, <2>3 DEF Decided, StartOrRefuse, MayBeTooLarge, Start, Ended, CodeOf,
                      Outcomes
  <2> QED
    BY <2>2, <2>3 DEF ExecuteTool
<1>2. CASE UNCHANGED commandVars
  BY <1>1, <1>2, CallsAssumption DEF commandVars
<1>3. CASE c \in Shell /\ RunShellCommand(c) /\ ~UNCHANGED commandVars
  <2>1. PICK state \in {"runs", "gone"} :
           /\ child' = [child EXCEPT ![c] = state]
           /\ tracked' = tracked \union {c}
           /\ UNCHANGED doomed
    BY <1>3 DEF RunShellCommand
  <2>2. \A d \in Calls : stage'[d] # "done" => code'[d] = "none"
    BY <1>1
  <2>3. \A d \in Shell : child'[d] = "runs" => d \in tracked'
    BY <2>1 DEF Processes
  <2>4. TimedOutAreDoomed'
    BY <1>1, <2>1, CallsAssumption DEF Processes
  <2> QED
    BY <2>2, <2>3, <2>4
<1> QED
  BY <1>2, <1>3 DEF ExecuteTool

\* The end of a tool is not a timeout.
LEMMA EndsTrack ==
    ASSUME IInv, Tracking, NEW c \in Calls,
           NEW what \in {"ok", "failed", "error"}, ToolEnds(c, what),
           UNCHANGED <<child, doomed>>,
           \A d \in Shell : child[d] = "runs" => d \in tracked'
    PROVE  Tracking'
<1>1. \A d \in Calls : /\ stage'[d] # "done" => stage[d] # "done" /\ code'[d] = code[d]
                       /\ code'[d] = "timeout" => code[d] = "timeout"
  BY DEF ToolEnds, Ended, IInv, TypeOK
<1>2. UNCHANGED phase
  BY DEF ToolEnds
<1> QED
  BY <1>1, <1>2, CallsAssumption DEF Tracking, TimedOutAreDoomed

LEMMA CommandsTrack ==
    IInv /\ Processes /\ Tracking /\ [CommandsNext]_allVars => Tracking'
<1> SUFFICES ASSUME IInv, Processes, Tracking, [CommandsNext]_allVars
             PROVE  Tracking'
  OBVIOUS
<1> USE DEF Tracking, TimedOutAreDoomed
<1>1. ASSUME NEW c \in Calls, OtherToolEnds(c) PROVE Tracking'
  <2>1. PICK what \in {"ok", "failed", "error"} : ToolEnds(c, what)
    BY <1>1 DEF OtherToolEnds
  <2> QED
    BY <1>1, <2>1, EndsTrack DEF OtherToolEnds, commandVars
<1>2. ASSUME NEW c \in Calls, AbortCall(c) PROVE Tracking'
  BY <1>2, CallsAssumption
  DEF AbortCall, Timeout, Ended, ForceKill, IInv, TypeOK
<1>3. ASSUME NEW c \in Shell, ShellExits(c) PROVE Tracking'
  BY <1>3 DEF ShellExits, Processes, vars, runVars
<1>4. ASSUME NEW c \in Shell, CommandCloses(c) PROVE Tracking'
  <2>1. PICK what \in {"ok", "failed", "error"} : ToolEnds(c, what)
    BY <1>4 DEF CommandCloses
  <2>2. \A d \in Shell : child[d] = "runs" => d \in tracked'
    BY <1>4 DEF CommandCloses
  <2> QED
    BY <1>4, <2>1, <2>2, EndsTrack, CallsAssumption DEF CommandCloses
<1>5. ASSUME NEW c \in Shell, SigkillDue(c) PROVE Tracking'
  BY <1>5 DEF SigkillDue, Processes, vars, runVars
<1>6. ASSUME NEW c \in Shell, CommandTimeout(c) PROVE Tracking'
  BY <1>6 DEF CommandTimeout, ForceKill, vars, runVars
<1>7. CASE AbortCalls \/ BeginShutdown
  <2>1. AbortAll /\ doomed' = doomed \union tracked /\ UNCHANGED <<child, tracked>>
    BY <1>7 DEF AbortCalls, BeginShutdown, TunnelLost, Shutdown, ForceKill
  <2>2. phase # "down"
    BY <1>7 DEF AbortCalls, BeginShutdown, TunnelLost, Shutdown
  <2> QED
    BY <2>1, <2>2, CallsAssumption DEF AbortAll, Ended, IInv, TypeOK
<1>8. CASE EndProcess
  BY <1>8 DEF EndProcess, Exit, Ended, IInv, TypeOK
<1>9. CASE (UpdatePolicy \/ \E b \in Buckets : AgeOut(b)) /\ UNCHANGED commandVars
  BY <1>9 DEF UpdatePolicy, AgeOut, runVars, commandVars
<1>10. CASE UNCHANGED allVars
  BY <1>10 DEF allVars, vars, runVars, commandVars
<1> QED
  BY <1>1, <1>2, <1>3, <1>4, <1>5, <1>6, <1>7, <1>8, <1>9, <1>10,
     ExecuteToolTracks DEF CommandsNext

\* As long as the daemon lives, a command that still runs when its call has
\* been reported as timed out has a SIGKILL to come, whoever's abort ended the
\* call and whatever SIGKILLs were sent before (terminal.ts:32-47).
THEOREM TimedOutCommandsAreDoomed == CommandsSpec => []TimedOutAreDoomed
<1>1. CommandsInit => IInv /\ Processes /\ Tracking
  BY InitIInv DEF CommandsInit, Init, Processes, Tracking, TimedOutAreDoomed
<1>2. IInv /\ [CommandsNext]_allVars => IInv'
  BY CommandsStep, StepIInv
<1>3. Tracking => TimedOutAreDoomed
  BY DEF Tracking
<1> QED
  BY <1>1, <1>2, <1>3, CommandsKeepProcesses, CommandsTrack, PTL DEF CommandsSpec
=============================================================================
