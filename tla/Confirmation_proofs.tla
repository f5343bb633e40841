------------------------ MODULE Confirmation_proofs ------------------------
(***************************************************************************)
(* Proofs about the policy, which says what the user is asked, for any     *)
(* calls, directories and lists, and about the confirmation server that    *)
(* asks, for any number of approvals and any delays.                       *)
(*                                                                         *)
(* The bounds on the ages are not inductive by themselves: an approval     *)
(* past its expiry is only sure to be swept in time because its age and    *)
(* the time to the next sweep add up to a bound (InTime), and a new one    *)
(* starts at age 0 because nothing touched it before (Fresh).              *)
(***************************************************************************)
EXTENDS Confirmation, Policy, SequenceTheorems, WellFoundedInduction, TLAPS

Fresh ==
    \A a \in Approvals :
        outcome[a] = "none" => /\ record[a] = "absent"
                               /\ age[a] = 0
                               /\ told[a] = {}

InTime ==
    \A a \in Approvals :
        /\ record[a] = "undecided" =>
              /\ age[a] <= Wait
              /\ age[a] > Expire => age[a] + sweepIn <= Expire + SweepEvery
        /\ record[a] \in UserDecisions /\ age[a] > Expire + Keep =>
              age[a] + sweepIn <= MaxAge

IInv == TypeOK /\ NoWaiterForgotten /\ ToldIsTrue /\ Fresh /\ InTime

LEMMA InitIInv == Init => IInv
BY DelaysAssumption
DEF Init, IInv, TypeOK, NoWaiterForgotten, ToldIsTrue, Fresh, InTime, UserDecisions,
    Decisions

-----------------------------------------------------------------------------
(* The decisions of one approval: pages, buttons, the wait's timer.         *)

\* Settling an undecided approval keeps the invariant, whatever the user is
\* told of it, as long as it is the decision.
LEMMA SettleIInv ==
    ASSUME IInv, NEW a \in Approvals, NEW d \in Decisions,
           record[a] = "undecided", Settle(a, d),
           told' = told \/ Tell(a, d),
           UNCHANGED <<age, sweepIn, running>>
    PROVE  IInv'
<1> USE DelaysAssumption
<1> USE DEF IInv, Settle, Tell
<1>1. d \notin {"none", "waiting"}
  BY DEF Decisions, UserDecisions
<1>2. outcome[a] = "waiting" /\ told[a] \intersect Decisions = {} /\ "unknown" \notin told[a]
  BY DEF TypeOK, NoWaiterForgotten, ToldIsTrue, Decisions, UserDecisions
<1>3. TypeOK'
  BY DEF TypeOK, Decisions, UserDecisions
<1>4. NoWaiterForgotten'
  BY <1>1 DEF NoWaiterForgotten, TypeOK, Decisions, UserDecisions
<1>5. ToldIsTrue'
  <2> SUFFICES ASSUME NEW b \in Approvals
               PROVE  /\ told'[b] \intersect Decisions \subseteq {outcome'[b]}
                      /\ record'[b] \in UserDecisions => record'[b] = outcome'[b]
                      /\ "unknown" \in told'[b] => outcome'[b] # "waiting"
    BY DEF ToldIsTrue
  <2>1. CASE b = a
    <3>1. told'[a] \subseteq told[a] \union {d}
      BY DEF TypeOK
    <3>2. outcome'[a] = d /\ record'[a] \in {d, "absent"}
      BY DEF TypeOK
    <3> QED
      BY <1>1, <1>2, <2>1, <3>1, <3>2 DEF UserDecisions
  <2>2. CASE b # a
    BY <2>2 DEF TypeOK, ToldIsTrue
  <2> QED
    BY <2>1, <2>2
<1>6. Fresh'
  <2> SUFFICES ASSUME NEW b \in Approvals, outcome'[b] = "none"
               PROVE  record'[b] = "absent" /\ age'[b] = 0 /\ told'[b] = {}
    BY DEF Fresh
  <2>1. b # a
    BY <1>1 DEF TypeOK
  <2> QED
    BY <2>1 DEF TypeOK, Fresh
<1>7. InTime'
  BY DEF InTime, TypeOK, UserDecisions, MaxAge
<1> QED
  BY <1>3, <1>4, <1>5, <1>6, <1>7

\* So does telling the user what is already settled.
LEMMA ToldSettledIInv ==
    ASSUME IInv, NEW a \in Approvals, NEW what \in UserDecisions \union {"unknown"},
           outcome[a] # "none", record[a] # "undecided",
           what = "unknown" \/ what = record[a],
           Tell(a, what), UNCHANGED <<record, outcome>>,
           UNCHANGED <<age, sweepIn, running>>
    PROVE  IInv'
<1> USE DEF IInv, Tell
<1>1. outcome[a] # "waiting"
  BY DEF NoWaiterForgotten
<1>2. TypeOK'
  BY DEF TypeOK, Decisions, UserDecisions
<1>3. ToldIsTrue'
  BY <1>1 DEF ToldIsTrue, TypeOK, Decisions, UserDecisions
<1>4. Fresh'
  BY DEF Fresh, TypeOK
<1>5. NoWaiterForgotten' /\ InTime'
  BY DEF NoWaiterForgotten, InTime
<1> QED
  BY <1>2, <1>3, <1>4, <1>5

LEMMA NothingToDecideIInv ==
    ASSUME IInv, NEW a \in Approvals, outcome[a] # "none", NothingToDecide(a),
           UNCHANGED <<age, sweepIn, running>>
    PROVE  IInv'
<1>1. CASE record[a] = "absent" /\ Tell(a, "unknown") /\ UNCHANGED <<record, outcome>>
  BY <1>1, ToldSettledIInv
<1>2. CASE record[a] \in UserDecisions /\ Tell(a, record[a]) /\ UNCHANGED <<record, outcome>>
  BY <1>2, ToldSettledIInv DEF UserDecisions
<1>3. CASE record[a] = "undecided" /\ Settle(a, "expired") /\ Tell(a, "expired")
  BY <1>3, SettleIInv DEF Decisions
<1> QED
  BY <1>1, <1>2, <1>3 DEF NothingToDecide

LEMMA UserStepIInv ==
    ASSUME IInv, NEW a \in Approvals,
           PageView(a) \/ \E d \in UserDecisions : PageDecide(a, d) \/ UiDecide(a, d)
    PROVE  IInv'
<1>1. CASE PageView(a)
  <2>1. CASE NothingToDecide(a)
    BY <1>1, <2>1, NothingToDecideIInv DEF PageView
  <2>2. CASE UNCHANGED <<record, outcome, told>>
    BY <1>1, <2>2
    DEF PageView, IInv, TypeOK, NoWaiterForgotten, ToldIsTrue, Fresh, InTime
  <2> QED
    BY <1>1, <2>1, <2>2 DEF PageView
<1>2. ASSUME NEW d \in UserDecisions, PageDecide(a, d)
      PROVE  IInv'
  <2>1. CASE NothingToDecide(a)
    BY <1>2, <2>1, NothingToDecideIInv DEF PageDecide
  <2>2. CASE record[a] = "undecided" /\ Settle(a, d) /\ Tell(a, d)
    BY <1>2, <2>2, SettleIInv DEF PageDecide, Decisions
  <2> QED
    BY <1>2, <2>1, <2>2 DEF PageDecide
<1>3. ASSUME NEW d \in UserDecisions, UiDecide(a, d)
      PROVE  IInv'
  <2>1. CASE record[a] = "undecided" /\ Settle(a, d) /\ Tell(a, d)
    BY <1>3, <2>1, SettleIInv DEF UiDecide, Decisions
  <2>2. CASE record[a] # "undecided" /\ Tell(a, "unknown") /\ UNCHANGED <<record, outcome>>
    BY <1>3, <2>2, ToldSettledIInv DEF UiDecide
  <2> QED
    BY <1>3, <2>1, <2>2 DEF UiDecide
<1> QED
  BY <1>1, <1>2, <1>3

LEMMA CreateIInv ==
    ASSUME IInv, NEW a \in Approvals, Create(a)
    PROVE  IInv'
<1> USE DelaysAssumption
<1> USE DEF IInv, Create
<1>1. age[a] = 0 /\ told[a] = {}
  BY DEF Fresh
<1>2. TypeOK'
  BY DEF TypeOK
<1>3. NoWaiterForgotten'
  BY DEF NoWaiterForgotten, TypeOK
<1>4. ToldIsTrue'
  BY <1>1 DEF ToldIsTrue, TypeOK, UserDecisions
<1>5. Fresh'
  BY DEF Fresh, TypeOK
<1>6. InTime'
  BY <1>1 DEF InTime, TypeOK, UserDecisions
<1> QED
  BY <1>2, <1>3, <1>4, <1>5, <1>6

-----------------------------------------------------------------------------
(* Time, the sweep and the shutdown.                                        *)

LEMMA TickIInv ==
    ASSUME IInv, Tick
    PROVE  IInv'
<1> USE DelaysAssumption
<1> USE DEF IInv, Tick
<1>1. TypeOK'
  BY DEF TypeOK
<1>2. NoWaiterForgotten' /\ ToldIsTrue'
  BY DEF NoWaiterForgotten, ToldIsTrue
<1>3. Fresh'
  BY DEF Fresh
<1>4. InTime'
  <2> SUFFICES ASSUME NEW a \in Approvals
               PROVE  /\ record[a] = "undecided" =>
                            /\ age'[a] <= Wait
                            /\ age'[a] > Expire => age'[a] + sweepIn' <= Expire + SweepEvery
                      /\ record[a] \in UserDecisions /\ age'[a] > Expire + Keep =>
                            age'[a] + sweepIn' <= MaxAge
    BY DEF InTime
  <2>1. age[a] \in Nat /\ sweepIn \in 1..SweepEvery /\ sweepIn' = sweepIn - 1
    BY DEF TypeOK
  <2>2. record[a] = "undecided" => age[a] < Wait /\ age'[a] = age[a] + 1
    BY <2>1 DEF NoWaiterForgotten, WaitOver, InTime
  <2>3. record[a] \in UserDecisions => age'[a] = age[a] + 1
    BY DEF UserDecisions
  <2> QED
    BY <2>1, <2>2, <2>3 DEF InTime, MaxAge
<1> QED
  BY <1>1, <1>2, <1>3, <1>4

LEMMA ExpireStaleIInv ==
    ASSUME IInv, ExpireStale
    PROVE  IInv'
<1> USE DelaysAssumption
<1> USE DEF IInv, ExpireStale
<1>1. TypeOK'
  BY DEF TypeOK, Decisions, UserDecisions
<1>2. NoWaiterForgotten'
  BY DEF NoWaiterForgotten, TypeOK, Forgotten, UserDecisions
<1>3. ToldIsTrue'
  BY DEF ToldIsTrue, NoWaiterForgotten, Forgotten, TypeOK, Decisions, UserDecisions
<1>4. Fresh'
  BY DEF Fresh, Forgotten
<1>5. InTime'
  BY DEF InTime, TypeOK, Forgotten, Stale, UserDecisions, MaxAge
<1> QED
  BY <1>1, <1>2, <1>3, <1>4, <1>5

LEMMA StopIInv ==
    ASSUME IInv, Stop
    PROVE  IInv'
<1> USE DEF IInv, Stop
<1>1. TypeOK'
  BY DEF TypeOK, Decisions, UserDecisions
<1>2. NoWaiterForgotten'
  BY DEF NoWaiterForgotten, TypeOK
<1>3. ToldIsTrue'
  BY DEF ToldIsTrue, NoWaiterForgotten, TypeOK, Decisions, UserDecisions
<1>4. Fresh' /\ InTime'
  BY DEF Fresh, InTime, UserDecisions
<1> QED
  BY <1>1, <1>2, <1>3, <1>4

-----------------------------------------------------------------------------
\* The invariant is inductive: one case per action.
THEOREM Inductive == Spec => []IInv
<1>1. Init => IInv
  BY InitIInv
<1>2. IInv /\ [Next]_vars => IInv'
  <2> SUFFICES ASSUME IInv, [Next]_vars PROVE IInv'
    OBVIOUS
  <2>1. ASSUME NEW a \in Approvals, ApprovalStep(a) PROVE IInv'
    <3>1. CASE Create(a)
      BY <3>1, CreateIInv
    <3>2. CASE PageView(a) \/ \E d \in UserDecisions : PageDecide(a, d) \/ UiDecide(a, d)
      BY <3>2, UserStepIInv
    <3>3. CASE WaitTimeout(a)
      <4>1. record[a] = "undecided"
        BY <3>3 DEF WaitTimeout, WaitOver, IInv, NoWaiterForgotten
      <4> QED
        BY <3>3, <4>1, SettleIInv DEF WaitTimeout, Decisions
    <3> QED
      BY <2>1, <3>1, <3>2, <3>3 DEF ApprovalStep
  <2>2. CASE ExpireStale
    BY <2>2, ExpireStaleIInv
  <2>3. CASE Stop
    BY <2>3, StopIInv
  <2>4. CASE Tick
    BY <2>4, TickIInv
  <2>5. CASE UNCHANGED vars
    BY <2>5 DEF vars, IInv, TypeOK, NoWaiterForgotten, ToldIsTrue, Fresh, InTime
  <2> QED
    BY <2>1, <2>2, <2>3, <2>4, <2>5 DEF Next
<1> QED
  BY <1>1, <1>2, PTL DEF Spec

\* What the user was told about an approval (the pages of handleDecision and
\* renderConfirmPage, the control UI) is what its tool call was given.
THEOREM UserIsTold == Spec => []ToldIsTrue
<1>1. IInv => ToldIsTrue
  BY DEF IInv
<1> QED
  BY <1>1, Inductive, PTL

\* settle, expireStale and stop never drop the record of an approval whose
\* waiter they do not release, and release none whose record they keep open.
THEOREM WaitersReleased == Spec => []NoWaiterForgotten
<1>1. IInv => NoWaiterForgotten
  BY DEF IInv
<1> QED
  BY <1>1, Inductive, PTL

\* A tool call waits no longer than its own timer and than the first sweep
\* after the expiry, whatever the two delays are.
THEOREM WaitsAreBounded == Spec => []WaitBounded
<1>1. IInv => WaitBounded
  BY DelaysAssumption DEF IInv, WaitBounded, InTime, NoWaiterForgotten, TypeOK
<1> QED
  BY <1>1, Inductive, PTL

\* A record is gone by the first sweep after its expiry and the time a decided
\* one is kept.
THEOREM RecordsAreDropped == Spec => []RecordsDrain
<1>1. IInv => RecordsDrain
  BY DelaysAssumption DEF IInv, RecordsDrain, InTime, TypeOK, MaxAge, UserDecisions
<1> QED
  BY <1>1, Inductive, PTL

-----------------------------------------------------------------------------
\* Every path that settles an approval is a decision of the gate.
LEMMA SettleDecides ==
    ASSUME IInv, NEW a \in Approvals, NEW d \in Decisions,
           record[a] = "undecided", Settle(a, d)
    PROVE  Gate!Next
<1>1. outcome[a] = "waiting" /\ outcome \in [Approvals -> {"none", "waiting"} \union Decisions]
  BY DEF IInv, NoWaiterForgotten, TypeOK
<1>2. Gate!Decide({a}, d)
  BY <1>1 DEF Settle, Gate!Decide
<1>3. d \in Gate!Decisions /\ {a} \in SUBSET Approvals
  BY DEF Decisions, UserDecisions, Gate!Decisions
<1> QED
  BY <1>2, <1>3 DEF Gate!Next

LEMMA ApprovalStepGate ==
    ASSUME IInv, NEW a \in Approvals, ApprovalStep(a)
    PROVE  [Gate!Next]_outcome
<1>1. CASE Create(a)
  BY <1>1 DEF Create, Gate!Next, Gate!Ask
<1>2. CASE PageView(a)
  BY <1>2, SettleDecides DEF PageView, NothingToDecide, Decisions
<1>3. ASSUME NEW d \in UserDecisions, PageDecide(a, d) \/ UiDecide(a, d)
      PROVE  [Gate!Next]_outcome
  BY <1>3, SettleDecides DEF PageDecide, UiDecide, NothingToDecide, Decisions
<1>4. CASE WaitTimeout(a)
  <2>1. record[a] = "undecided"
    BY <1>4 DEF WaitTimeout, WaitOver, IInv, NoWaiterForgotten
  <2> QED
    BY <1>4, <2>1, SettleDecides DEF WaitTimeout, Decisions
<1> QED
  BY <1>1, <1>2, <1>3, <1>4 DEF ApprovalStep

\* A sweep and a stop decide any number of approvals at once.
LEMMA StepGate ==
    ASSUME IInv, [Next]_vars
    PROVE  [Gate!Next]_outcome
<1> DEFINE stale == {a \in Approvals : record[a] = "undecided" /\ Stale(a)}
           open == {a \in Approvals : record[a] = "undecided"}
<1>1. \A a \in open : outcome[a] = "waiting"
  BY DEF IInv, NoWaiterForgotten
<1>2. outcome = [a \in Approvals |-> outcome[a]]
  BY DEF IInv, TypeOK
<1>3. CASE ExpireStale
  <2>1. Gate!Decide(stale, "expired")
    BY <1>1, <1>2, <1>3 DEF ExpireStale, Gate!Decide, Forgotten, UserDecisions
  <2> QED
    BY <2>1 DEF Gate!Next, Gate!Decisions
<1>4. CASE Stop
  <2>1. Gate!Decide(open, "expired")
    BY <1>1, <1>2, <1>4 DEF Stop, Gate!Decide
  <2> QED
    BY <2>1 DEF Gate!Next, Gate!Decisions
<1>5. ASSUME NEW a \in Approvals, ApprovalStep(a)
      PROVE  [Gate!Next]_outcome
  BY <1>5, ApprovalStepGate
<1>6. CASE Tick \/ UNCHANGED vars
  BY <1>6 DEF Tick, vars
<1> QED
  BY <1>3, <1>4, <1>5, <1>6 DEF Next

\* The confirmation server implements the gate the tool executor relies on.
THEOREM GateKept == Spec => Gate!Safety
<1>1. Init => Gate!Init
  BY DEF Init, Gate!Init
<1> QED
  BY <1>1, StepGate, Inductive, PTL DEF Spec, Gate!Safety

-----------------------------------------------------------------------------
(* The policy.                                                             *)

Daemons == [policy : Policies, root : Roots \union {None}, flag : BOOLEAN]

LEMMA PolicyFields ==
    ASSUME NEW policy \in Policies
    PROVE  /\ \A D \in SUBSET Directories : [policy EXCEPT !.dirs = D] \in Policies
           /\ \A flag \in BOOLEAN : WithFlag(policy, flag) \in Policies
           /\ \A setting \in Settings : ApplySubset(policy, setting) \in Policies
<1>1. \A D \in SUBSET Directories : [policy EXCEPT !.dirs = D] \in Policies
  BY DEF Policies
<1>2. ASSUME NEW flag \in BOOLEAN PROVE WithFlag(policy, flag) \in Policies
  <2>1. (policy.browser \/ flag) \in BOOLEAN
    OBVIOUS
  <2>2. QED
    BY <2>1 DEF Policies, WithFlag
<1>3. ASSUME NEW setting \in Settings PROVE ApplySubset(policy, setting) \in Policies
  <2>1. \/ setting[1] \in {"readOnly", "browser", "terminal"} /\ setting[2] \in BOOLEAN
        \/ setting[1] = "mode" /\ setting[2] \in {"blocklist", "allowlist"}
    BY DEF Settings
  <2>2. QED
    BY <2>1 DEF Policies, ApplySubset
<1>4. QED
  BY <1>1, <1>2, <1>3

LEMMA DefaultIsPolicy == DefaultPolicy \in Policies
<1>1. PICK D \in SUBSET Directories : D = DefaultPolicy.dirs
  BY DEF Directories
<1>2. PICK K \in SUBSET AllTools : K = DefaultPolicy.confirm
  BY DEF DefaultPolicy, AllTools, Mutating
<1>3. DefaultPolicy = [dirs |-> D, blocked |-> Entries, allowed |-> {},
                       mode |-> "blocklist", confirm |-> K,
                       readOnly |-> FALSE, browser |-> FALSE, terminal |-> TRUE]
  BY <1>1, <1>2 DEF DefaultPolicy
<1>4. QED
  BY <1>3 DEF Policies

LEMMA PolicyTypeStep == PolicyTypeOK /\ [PolicyNext]_policyVars => PolicyTypeOK'
<1> SUFFICES ASSUME PolicyTypeOK, [PolicyNext]_policyVars PROVE PolicyTypeOK'
  OBVIOUS
<1>t. /\ file \in Policies \union {None} /\ workspace \in Roots \union {None}
      /\ daemon \in Daemons \union {None} /\ Standing \subseteq files
      /\ kept \in BOOLEAN /\ changes \in 0..MaxChanges /\ MaxChanges \in Nat
  BY BoundAssumption DEF PolicyTypeOK, Daemons
<1>c. Change => changes' \in 0..MaxChanges
  BY <1>t DEF Change
<1>1. ASSUME NEW flag \in BOOLEAN, Boot(flag) PROVE PolicyTypeOK'
  <2>1. file' \in Policies
    BY <1>1, <1>t, DefaultIsPolicy DEF Boot
  <2>2. WithFlag(file', flag) \in Policies
    BY <2>1, PolicyFields
  <2>3. daemon' \in Daemons
    BY <1>1, <1>t, <2>2 DEF Boot, Daemons
  <2>4. QED
    BY <1>1, <1>t, <2>1, <2>3 DEF Boot, PolicyTypeOK, Daemons
<1>2. CASE Quit
  BY <1>2, <1>t DEF Quit, PolicyTypeOK, Daemons
<1>3. ASSUME NEW setting \in Settings, SetPolicy(setting) PROVE PolicyTypeOK'
  <2>1. daemon \in Daemons
    BY <1>3, <1>t DEF SetPolicy
  <2>2. daemon.policy \in Policies /\ daemon.flag \in BOOLEAN
    BY <2>1 DEF Daemons
  <2>3. file' \in Policies
    BY <1>3, <2>2, PolicyFields DEF SetPolicy
  <2>4. WithFlag(file', daemon.flag) \in Policies
    BY <2>2, <2>3, PolicyFields
  <2>5. daemon' \in Daemons
    BY <1>3, <2>1, <2>4 DEF SetPolicy, Daemons
  <2>6. kept' \in BOOLEAN
    BY <1>3 DEF SetPolicy
  <2>7. QED
    BY <1>3, <1>c, <1>t, <2>3, <2>5, <2>6 DEF SetPolicy, PolicyTypeOK, Daemons
<1>4. ASSUME NEW policy \in HandMade, EditByHand(policy) PROVE PolicyTypeOK'
  BY <1>4, <1>c, <1>t, HandMadeAssumption DEF EditByHand, PolicyTypeOK, Daemons
<1>5. ASSUME NEW root \in Roots, WorkspaceUse(root) PROVE PolicyTypeOK'
  <2>1. CASE file = None \/ Covered(root, file.dirs)
    <3>1. file' = file
      BY <1>5, <2>1 DEF WorkspaceUse
    <3>2. QED
      BY <1>5, <1>c, <1>t, <3>1 DEF WorkspaceUse, PolicyTypeOK, Daemons
  <2>2. CASE ~ (file = None \/ Covered(root, file.dirs))
    <3> DEFINE D == file.dirs \union {[base |-> "absolute", steps |-> root]}
    <3>1. file' = [file EXCEPT !.dirs = D] /\ file \in Policies
      BY <1>5, <1>t, <2>2 DEF WorkspaceUse
    <3>2. D \in SUBSET Directories
      <4>1. [base |-> "absolute", steps |-> root] \in Directories
        BY DEF Directories
      <4>2. file.dirs \subseteq Directories
        BY <3>1 DEF Policies
      <4>3. QED
        BY <4>1, <4>2
    <3> HIDE DEF D
    <3>3. file' \in Policies
      BY <3>1, <3>2, PolicyFields
    <3>4. QED
      BY <1>5, <1>c, <1>t, <3>3 DEF WorkspaceUse, PolicyTypeOK, Daemons
  <2>3. QED
    BY <2>1, <2>2
<1>6. CASE WorkspaceClear
  BY <1>6, <1>c, <1>t DEF WorkspaceClear, PolicyTypeOK, Daemons
<1>7. ASSUME NEW c \in Calls, Execute(c) PROVE PolicyTypeOK'
  <2>1. Standing \subseteq files'
    BY <1>7, <1>t DEF Execute
  <2>2. QED
    BY <1>7, <1>t, <2>1 DEF Execute, PolicyTypeOK, Daemons
<1>8. CASE UNCHANGED policyVars
  BY <1>8 DEF policyVars, PolicyTypeOK
<1>9. QED
  BY <1>1, <1>2, <1>3, <1>4, <1>5, <1>6, <1>7, <1>8 DEF PolicyNext

\* The policy is always one that PolicySchema accepts, in the file and in the
\* daemon's memory, whatever order it is edited, set and extended in.
THEOREM PoliciesAreValid == PolicySpec => []PolicyTypeOK
<1>1. PolicyInit => PolicyTypeOK
  <2> SUFFICES ASSUME PolicyInit PROVE PolicyTypeOK
    OBVIOUS
  <2>1. file \in Policies \union {None} /\ changes \in 0..MaxChanges
    BY HandMadeAssumption, BoundAssumption DEF PolicyInit
  <2>2. QED
    BY <2>1 DEF PolicyInit, PolicyTypeOK
<1>2. QED
  BY <1>1, PolicyTypeStep, PTL DEF PolicySpec

\* q is p with fewer switches on.
Stricter(q, p) ==
    /\ q.dirs = p.dirs /\ q.blocked = p.blocked /\ q.allowed = p.allowed
    /\ q.mode = p.mode /\ q.confirm = p.confirm
    /\ p.readOnly => q.readOnly
    /\ q.browser => p.browser
    /\ q.terminal => p.terminal

LEMMA StricterRestricts ==
    ASSUME NEW p, NEW q, Stricter(q, p), NEW c, NEW root
    PROVE  Leeway(Decision(c, q, root)) <= Leeway(Decision(c, p, root))
<1>1. Permitted(c, q, root) => Permitted(c, p, root)
  <2>1. CheckCommand(c.command, q) = CheckCommand(c.command, p)
    BY DEF Stricter, CheckCommand
  <2>2. PathsAllowed(c, q, root) = PathsAllowed(c, p, root)
    BY DEF Stricter, PathsAllowed, IsPathAllowed
  <2>3. QED
    BY <2>1, <2>2 DEF Stricter, Permitted
<1>2. Permitted(c, q, root) => Decision(c, q, root) = Decision(c, p, root)
  BY <1>1 DEF Stricter, Decision
<1>3. Decision(c, p, root) \in {"refused", "asked", "allowed"}
  BY DEF Decision
<1>4. ~ Permitted(c, q, root) => Decision(c, q, root) = "refused"
  BY DEF Decision
<1>5. QED
  BY <1>2, <1>3, <1>4 DEF Leeway

\* Whatever the file has become, and whether or not the daemon was started with
\* --enable-browser, a setting that switches something off lets no call through,
\* or through unasked, that was not before.
THEOREM SwitchesOnlyRestrict == PolicySpec => SwitchingOffOnlyRestricts
<1>1. ASSUME PolicyTypeOK, [PolicyNext]_policyVars, NEW c \in Calls,
             daemon # None, daemon' \notin {None, daemon},
             daemon.policy.readOnly => daemon'.policy.readOnly,
             daemon'.policy.browser => daemon.policy.browser,
             daemon'.policy.terminal => daemon.policy.terminal,
             daemon'.policy.mode = daemon.policy.mode
      PROVE  Leeway(Decision(c, daemon'.policy, daemon'.root))
               <= Leeway(Decision(c, daemon.policy, daemon.root))
  <2>1. Stricter(daemon'.policy, daemon.policy) /\ daemon'.root = daemon.root
    <3>1. CASE daemon' = daemon
      BY <3>1 DEF Stricter
    <3>2. ASSUME NEW setting \in Settings, SetPolicy(setting)
          PROVE  Stricter(daemon'.policy, daemon.policy) /\ daemon'.root = daemon.root
      <4>1. daemon \in Daemons
        BY <1>1 DEF PolicyTypeOK, Daemons
      <4>2. daemon.policy \in Policies /\ daemon.flag \in BOOLEAN
        BY <4>1 DEF Daemons
      <4>3. /\ file' = ApplySubset(daemon.policy, setting) /\ file' \in Policies
            /\ daemon'.policy = WithFlag(file', daemon.flag) /\ daemon'.root = daemon.root
        BY <3>2, <4>1, <4>2, PolicyFields DEF SetPolicy, Daemons
      <4>4. /\ file'.dirs = daemon.policy.dirs /\ file'.blocked = daemon.policy.blocked
            /\ file'.allowed = daemon.policy.allowed
            /\ file'.confirm = daemon.policy.confirm
        BY <4>2, <4>3 DEF ApplySubset, Settings, Policies
      <4>5. /\ daemon'.policy.dirs = file'.dirs /\ daemon'.policy.blocked = file'.blocked
            /\ daemon'.policy.allowed = file'.allowed
            /\ daemon'.policy.confirm = file'.confirm
        BY <4>3 DEF WithFlag, Policies
      <4>6. QED
        BY <1>1, <4>3, <4>4, <4>5 DEF Stricter
    <3>3. (\E setting \in Settings : SetPolicy(setting)) \/ daemon' = daemon
      BY <1>1 DEF PolicyNext, Boot, Quit, EditByHand, WorkspaceUse, WorkspaceClear, Execute,
                  policyVars
    <3>4. QED
      BY <3>1, <3>2, <3>3
  <2>2. QED
    BY <2>1, StricterRestricts
<1>2. PolicyTypeOK /\ [PolicyNext]_policyVars =>
        [ \A c \in Calls :
            (/\ daemon # None /\ daemon' \notin {None, daemon}
             /\ daemon.policy.readOnly => daemon'.policy.readOnly
             /\ daemon'.policy.browser => daemon.policy.browser
             /\ daemon'.policy.terminal => daemon.policy.terminal
             /\ daemon'.policy.mode = daemon.policy.mode
             /\ UNCHANGED files)
            => Leeway(Decision(c, daemon'.policy, daemon'.root))
                 <= Leeway(Decision(c, daemon.policy, daemon.root)) ]_policyVars
  BY <1>1
<1>3. QED
  BY <1>2, PoliciesAreValid, PTL DEF PolicySpec, SwitchingOffOnlyRestricts

-----------------------------------------------------------------------------
(* Paths.  The library's induction takes an operator and no prover here can  *)
(* instantiate that; its least element of a set of numbers does as well.     *)

\* What holds of 0, and of n + 1 with n, holds of every natural number.
LEMMA Induction ==
    ASSUME NEW S \in SUBSET Nat, 0 \in S, \A n \in S : n + 1 \in S
    PROVE  S = Nat
<1> SUFFICES ASSUME Nat \ S # {} PROVE FALSE
  OBVIOUS
<1>1. PICK n \in Nat \ S : \A m \in Nat \ S : <<m, n>> \notin OpToRel(<, Nat)
  BY NatLessThanWellFounded, WFMin
<1>2. n # 0 /\ n - 1 \in Nat
  OBVIOUS
<1>3. <<n - 1, n>> \in OpToRel(<, Nat)
  BY <1>1, <1>2 DEF OpToRel
<1>4. n - 1 \in S
  BY <1>1, <1>2, <1>3
<1>5. QED
  BY <1>2, <1>4

\* A walk has its last directory, and each directory follows from the one before.
LEMMA WalkDef ==
    ASSUME NEW from, NEW steps \in Seq(STRING)
    PROVE  \E at : /\ at[0] = from
                   /\ \A n \in 1..Len(steps) : at[n] = Enter(at[n - 1], steps[n])
                   /\ Walk(from, steps) = at[Len(steps)]
<1> DEFINE Rec(f, k) == f = [n \in 0..k |-> IF n = 0 THEN from
                                             ELSE Enter(f[n - 1], steps[n])]
           S == {k \in Nat : \E f : Rec(f, k)}
<1>1. 0 \in S
  <2>1. Rec([n \in 0..0 |-> from], 0)
    OBVIOUS
  <2>2. QED
    BY <2>1
<1>2. ASSUME NEW k \in S PROVE k + 1 \in S
  <2>1. PICK f : Rec(f, k)
    OBVIOUS
  <2> DEFINE g == [n \in 0..k+1 |-> IF n = k + 1 THEN Enter(f[k], steps[k+1]) ELSE f[n]]
  <2>2. \A n \in 0..k : f[n] = IF n = 0 THEN from ELSE Enter(f[n - 1], steps[n])
    BY <2>1
  <2>3. Rec(g, k + 1)
    <3> SUFFICES ASSUME NEW n \in 0..k+1
                 PROVE  g[n] = IF n = 0 THEN from ELSE Enter(g[n - 1], steps[n])
      BY Zenon
    <3>1. CASE n = k + 1
      <4>1. g[n] = Enter(f[k], steps[k + 1]) /\ g[n - 1] = f[k] /\ n - 1 = k /\ n # 0
        BY <3>1
      <4>2. QED
        BY <3>1, <4>1, Zenon
    <3>2. CASE n \in 0..k
      <4>1. g[n] = f[n] /\ (n # 0 => g[n - 1] = f[n - 1])
        BY <3>2
      <4> HIDE DEF g
      <4>2. QED
        BY <2>2, <3>2, <4>1
    <3>3. QED
      BY <3>1, <3>2
  <2> HIDE DEF g
  <2>4. QED
    BY <2>3
<1>3. S = Nat
  <2> HIDE DEF S
  <2>1. S \in SUBSET Nat
    BY DEF S
  <2>2. QED
    BY <1>1, <1>2, <2>1, Induction
<1> DEFINE at == CHOOSE f : Rec(f, Len(steps))
<1>4. Rec(at, Len(steps))
  <2>1. \E f : Rec(f, Len(steps))
    BY <1>3
  <2> HIDE DEF Rec
  <2>2. QED
    BY <2>1, Zenon
<1>5. Walk(from, steps) = at[Len(steps)]
  BY DEF Walk
<1>6. at[0] = from /\ \A n \in 1..Len(steps) : at[n] = Enter(at[n - 1], steps[n])
  <2> HIDE DEF at
  <2>1. QED
    BY <1>4
<1>7. QED
  BY <1>5, <1>6

LEMMA Single ==
    ASSUME NEW S, NEW e \in S
    PROVE  <<e>> \in Seq(S) /\ Len(<<e>>) = 1 /\ <<e>>[1] = e
OBVIOUS

\* All names of a path but the last.
LEMMA FrontOf ==
    ASSUME NEW S, NEW s \in Seq(S), s # <<>>
    PROVE  /\ Front(s) \in Seq(S) /\ Len(Front(s)) = Len(s) - 1
           /\ Len(s) \in Nat \ {0} /\ Last(s) = s[Len(s)]
           /\ \A i \in 1..Len(s)-1 : Front(s)[i] = s[i]
<1>1. Len(s) \in Nat \ {0} /\ \A i \in 1..Len(s)-1 : s[i] \in S
  BY EmptySeq
<1>2. Front(s) = SubSeq(s, 1, Len(s) - 1) /\ Last(s) = s[Len(s)]
  BY DEF Front, Last
<1>3. /\ SubSeq(s, 1, Len(s) - 1) \in Seq(S)
      /\ Len(SubSeq(s, 1, Len(s) - 1)) = Len(s) - 1
      /\ \A i \in 1..Len(s)-1 : SubSeq(s, 1, Len(s) - 1)[i] = s[i]
  <2> DEFINE n == Len(s) - 1
  <2>1. n \in Nat /\ \A i \in 1..n : s[i] \in S
    BY <1>1
  <2> HIDE DEF n
  <2>2. /\ SubSeq(s, 1, n) \in Seq(S)
        /\ Len(SubSeq(s, 1, n)) = IF 1 <= n THEN n - 1 + 1 ELSE 0
        /\ \A i \in 1..(n - 1 + 1) : SubSeq(s, 1, n)[i] = s[1 + i - 1]
    BY <2>1, SubSeqProperties
  <2>3. /\ SubSeq(s, 1, n) \in Seq(S)
        /\ Len(SubSeq(s, 1, n)) = n
        /\ \A i \in 1..n : SubSeq(s, 1, n)[i] = s[i]
    BY <2>1, <2>2
  <2>4. QED
    BY <2>3 DEF n
<1>4. QED
  BY <1>1, <1>2, <1>3

LEMMA InsideFront ==
    ASSUME NEW S, NEW p \in Seq(S), p # <<>>
    PROVE  /\ Inside(p, Front(p))
           /\ \A d \in Seq(S) : Inside(p, d) /\ Len(d) < Len(p) => Inside(Front(p), d)
<1>1. /\ Front(p) \in Seq(S) /\ Len(Front(p)) = Len(p) - 1 /\ Len(p) \in Nat \ {0}
      /\ \A i \in 1..Len(p)-1 : Front(p)[i] = p[i]
  BY FrontOf
<1> HIDE DEF Front
<1>2. QED
  BY <1>1 DEF Inside, IsPrefix

\* The names of a resolved path.
LEMMA NormalNames ==
    ASSUME NEW p
    PROVE  p \in Normal <=> /\ p \in Seq(STRING)
                           /\ \A n \in 1..Len(p) : p[n] \notin {Empty, ".", ".."}
<1>1. ASSUME p \in Seq(STRING)
      PROVE  Range(p) \intersect {Empty, ".", ".."} = {}
             <=> \A n \in 1..Len(p) : p[n] \notin {Empty, ".", ".."}
  <2>1. Range(p) = {p[n] : n \in 1..Len(p)}
    BY <1>1 DEF Range
  <2>2. QED
    BY <2>1, Zenon
<1>2. QED
  BY <1>1 DEF Normal

\* Names that are entered only lead deeper, up to the last one.
LEMMA WalkAlong ==
    ASSUME NEW from \in Seq(STRING), NEW p \in Normal
    PROVE  /\ Walk(from, p) = from \o p
           /\ \A name \in STRING : Walk(from, Append(p, name)) = Enter(from \o p, name)
<1>1. p \in Seq(STRING) /\ \A n \in 1..Len(p) : p[n] \notin {Empty, ".", ".."}
  BY NormalNames
<1>2. ASSUME NEW steps \in Seq(STRING), Len(p) <= Len(steps),
             \A n \in 1..Len(p) : steps[n] = p[n], NEW at, at[0] = from,
             \A n \in 1..Len(steps) : at[n] = Enter(at[n - 1], steps[n])
      PROVE  at[Len(p)] = from \o p
  <2> DEFINE S == {n \in Nat : n <= Len(p) => at[n] = from \o SubSeq(p, 1, n)}
  <2>1. 0 \in S
    BY <1>1, <1>2
  <2>2. ASSUME NEW n \in S PROVE n + 1 \in S
    <3> SUFFICES ASSUME n + 1 <= Len(p)
                 PROVE  at[n + 1] = from \o SubSeq(p, 1, n + 1)
      OBVIOUS
    <3>1. at[n] = from \o SubSeq(p, 1, n)
      BY <1>1
    <3>2. n + 1 \in 1..Len(p) /\ n + 1 \in 1..Len(steps) /\ (n + 1) - 1 = n
      BY <1>1, <1>2
    <3>3. at[n + 1] = Enter(at[n], p[n + 1])
      BY <1>2, <3>2
    <3>4. at[n + 1] = Append(at[n], p[n + 1])
      BY <1>1, <3>2, <3>3 DEF Enter
    <3>5. /\ SubSeq(p, 1, n) \in Seq(STRING) /\ p[n + 1] \in STRING
          /\ SubSeq(p, 1, n + 1) = Append(SubSeq(p, 1, n), p[n + 1])
      BY <1>1, <3>2
    <3>6. at[n + 1] = Append(from \o SubSeq(p, 1, n), p[n + 1])
      BY <3>1, <3>4
    <3>7. n \in Nat /\ p \in Seq(STRING)
      BY <1>1
    <3>8. Append(from \o SubSeq(p, 1, n), p[n + 1]) = from \o SubSeq(p, 1, n + 1)
      <4> HIDE DEF S
      <4>1. QED
        BY <3>2, <3>7
    <3>9. QED
      BY <3>6, <3>8
  <2>3. S = Nat
    <3> HIDE DEF S
    <3>1. S \in SUBSET Nat
      BY DEF S
    <3>2. QED
      BY <2>1, <2>2, <3>1, Induction
  <2>4. Len(p) \in S
    BY <1>1, <2>3
  <2>5. QED
    BY <1>1, <2>4
<1>3. Walk(from, p) = from \o p
  <2>1. PICK at : /\ at[0] = from
                  /\ \A n \in 1..Len(p) : at[n] = Enter(at[n - 1], p[n])
                  /\ Walk(from, p) = at[Len(p)]
    BY <1>1, WalkDef
  <2>2. QED
    BY <1>1, <1>2, <2>1
<1>4. ASSUME NEW name \in STRING
      PROVE  Walk(from, Append(p, name)) = Enter(from \o p, name)
  <2> DEFINE steps == Append(p, name)
  <2>1. /\ steps \in Seq(STRING) /\ Len(steps) = Len(p) + 1 /\ Len(p) \in Nat
        /\ steps[Len(p) + 1] = name /\ \A n \in 1..Len(p) : steps[n] = p[n]
    BY <1>1
  <2> HIDE DEF steps
  <2>2. PICK at : /\ at[0] = from
                  /\ \A n \in 1..Len(steps) : at[n] = Enter(at[n - 1], steps[n])
                  /\ Walk(from, steps) = at[Len(steps)]
    BY <2>1, WalkDef
  <2>3. at[Len(p)] = from \o p
    <3>1. Len(p) <= Len(steps)
      BY <2>1
    <3>2. QED
      BY <1>2, <2>1, <2>2, <3>1
  <2>4. Len(p) + 1 \in 1..Len(steps) /\ (Len(p) + 1) - 1 = Len(p)
    BY <2>1
  <2>5. at[Len(p) + 1] = Enter(at[Len(p)], name)
    BY <2>1, <2>2, <2>4
  <2>6. QED
    BY <2>1, <2>2, <2>3, <2>5 DEF steps
<1>5. QED
  BY <1>3, <1>4

\* A walk from a resolved directory ends in one.
LEMMA WalkNormal ==
    ASSUME NEW from \in Normal, NEW steps \in Seq(STRING)
    PROVE  Walk(from, steps) \in Normal
<1>1. ASSUME NEW p \in Normal, NEW name \in STRING PROVE Enter(p, name) \in Normal
  <2>1. p \in Seq(STRING) /\ \A i \in 1..Len(p) : p[i] \notin {Empty, ".", ".."}
    BY NormalNames
  <2>2. Enter(p, name) \in Seq(STRING)
    <3>1. \A n \in 0..Len(p) : SubSeq(p, 1, n) \in Seq(STRING)
      BY <2>1
    <3>2. Append(p, name) \in Seq(STRING)
      BY <2>1
    <3>3. p # <<>> => Len(p) - 1 \in 0..Len(p)
      BY <2>1
    <3>4. QED
      BY <2>1, <3>1, <3>2, <3>3 DEF Enter, Front
  <2>3. \A i \in 1..Len(Enter(p, name)) : Enter(p, name)[i] \notin {Empty, ".", ".."}
    BY <2>1 DEF Enter, Front
  <2>4. QED
    BY <2>2, <2>3, NormalNames
<1>2. PICK at : /\ at[0] = from
                /\ \A n \in 1..Len(steps) : at[n] = Enter(at[n - 1], steps[n])
                /\ Walk(from, steps) = at[Len(steps)]
  BY WalkDef
<1> DEFINE S == {n \in Nat : n <= Len(steps) => at[n] \in Normal}
<1>3. 0 \in S
  BY <1>2
<1>4. ASSUME NEW n \in S PROVE n + 1 \in S
  <2> SUFFICES ASSUME n + 1 <= Len(steps) PROVE at[n + 1] \in Normal
    OBVIOUS
  <2>1. n + 1 \in 1..Len(steps) /\ (n + 1) - 1 = n /\ steps[n + 1] \in STRING
    OBVIOUS
  <2>2. at[n + 1] = Enter(at[n], steps[n + 1]) /\ at[n] \in Normal
    BY <1>2, <2>1
  <2>3. QED
    BY <1>1, <2>1, <2>2
<1>5. S = Nat
  <2> HIDE DEF S
  <2>1. S \in SUBSET Nat
    BY DEF S
  <2>2. QED
    BY <1>3, <1>4, <2>1, Induction
<1>6. Len(steps) \in S
  BY <1>5
<1>7. QED
  BY <1>2, <1>6

\* The comparison of resolved paths by their beginnings orders them.
LEMMA InsideTransitive ==
    ASSUME NEW p \in Seq(STRING), NEW q \in Seq(STRING), NEW d \in Seq(STRING),
           Inside(p, q), Inside(q, d)
    PROVE  Inside(p, d)
<1>1. \A i \in 1..Len(d) : d[i] = q[i] /\ Len(d) <= Len(q)
  BY DEF Inside, IsPrefix
<1>2. \A i \in 1..Len(q) : q[i] = p[i] /\ Len(q) <= Len(p)
  BY DEF Inside, IsPrefix
<1>3. QED
  BY <1>1, <1>2 DEF Inside, IsPrefix

LEMMA InsideBelow ==
    ASSUME NEW d \in Seq(STRING), NEW s \in Seq(STRING)
    PROVE  Inside(d \o s, d)
BY DEF Inside, IsPrefix

\* What the operating system and `workspace use` give is resolved.
LEMMA ConstantsNormal ==
    /\ Home \in Normal /\ Cwd \in Normal /\ Shell \in Normal /\ <<>> \in Normal
    /\ Roots \subseteq Normal
    /\ Normal \subseteq Seq(STRING)
<1>1. <<>> \in Normal
  BY DEF Normal, Range
<1>2. QED
  BY <1>1, NormalAssumption DEF Normal

\* Blanks are lost from the last name, and none are left.
LEMMA TrimWritten ==
    ASSUME NEW steps \in Seq(STRING)
    PROVE  /\ Trim(steps) \in Seq(STRING)
           /\ \A name \in Range(Trim(steps)) :
                name \in Range(steps)
                \/ (name \notin DOMAIN Trimmed
                    /\ \E old \in Range(steps) \intersect DOMAIN Trimmed : name = Trimmed[old])
<1>1. CASE steps # <<>> /\ Last(steps) \in DOMAIN Trimmed
  <2> DEFINE new == Trimmed[Last(steps)]
  <2>1. new \in STRING /\ new \notin DOMAIN Trimmed
    <3>1. Trimmed[Last(steps)] \in STRING \ DOMAIN Trimmed
      BY <1>1, TrimmedAssumption, Zenon
    <3>2. QED
      BY <3>1
  <2>2. Len(steps) \in Nat /\ Len(steps) > 0 /\ Last(steps) = steps[Len(steps)]
    BY <1>1 DEF Last
  <2>3. Front(steps) \in Seq(STRING) /\ Len(Front(steps)) = Len(steps) - 1
        /\ \A i \in 1..Len(steps)-1 : Front(steps)[i] = steps[i]
    BY <1>1, FrontOf
  <2>4. Trim(steps) = Append(Front(steps), new)
    BY <1>1 DEF Trim
  <2> HIDE DEF new
  <2>5. Trim(steps) \in Seq(STRING)
    <3>1. Append(Front(steps), new) \in Seq(STRING)
      BY <2>1, <2>3, AppendProperties, Zenon
    <3>2. QED
      BY <2>4, <3>1
  <2>6. ASSUME NEW i \in 1..Len(Trim(steps))
        PROVE  Trim(steps)[i] \in Range(steps) \/ Trim(steps)[i] = new
    <3>1. CASE i = Len(steps)
      BY <2>2, <2>3, <2>4, <3>1
    <3>2. CASE i \in 1..Len(steps)-1
      BY <2>2, <2>3, <2>4, <3>2 DEF Range
    <3>3. QED
      BY <2>2, <2>3, <2>4, <3>1, <3>2
  <2>7. Last(steps) \in Range(steps) /\ new = Trimmed[Last(steps)]
    BY <2>2 DEF Range, new
  <2>8. QED
    BY <1>1, <2>1, <2>5, <2>6, <2>7 DEF Range
<1>2. CASE ~ (steps # <<>> /\ Last(steps) \in DOMAIN Trimmed)
  BY <1>2 DEF Trim
<1>3. QED
  BY <1>1, <1>2

\* Whatever was written, and against whatever directory.
LEMMA AbsolutizeNormal ==
    ASSUME NEW w \in Written, NEW root \in Normal \union {None}
    PROVE  Absolutize(w, root) \in Normal
<1>1. w.steps \in Seq(STRING) /\ w.base \in {"absolute", "home", "relative"}
  BY DEF Written
<1>2. Trim(w.steps) \in Seq(STRING)
  BY <1>1, TrimWritten
<1>3. QED
  BY <1>1, <1>2, ConstantsNormal, WalkNormal DEF Absolutize

\* What the policy is given has no ".." left in it: a comparison of beginnings would be
\* no test of where a path leads otherwise.
LEMMA ResolvedNormal ==
    ASSUME NEW c \in Calls, NEW root \in Roots \union {None}
    PROVE  ResolvedPaths(c, root) \subseteq Normal
<1>1. c.paths \subseteq Written
  BY CallsAssumption
<1>2. <<>> \in Seq(STRING)
  OBVIOUS
<1>3. [base |-> "home", steps |-> <<>>] \in Written
  BY <1>2 DEF Written
<1>4. root \in Normal \union {None}
  BY ConstantsNormal
<1>5. QED
  BY <1>1, <1>3, <1>4, AbsolutizeNormal DEF ResolvedPaths

\* Resolving a resolved path again changes it by the trimming alone.
LEMMA AbsoluteStays ==
    ASSUME NEW p \in Normal, NEW root, Trim(p) = p
    PROVE  Absolutize([base |-> "absolute", steps |-> p], root) = p
<1>1. p \in Seq(STRING) /\ <<>> \in Seq(STRING)
  BY DEF Normal
<1>2. Walk(<<>>, p) = <<>> \o p
  BY <1>1, WalkAlong
<1>3. QED
  BY <1>1, <1>2 DEF Absolutize

LEMMA PlainStays ==
    ASSUME NEW p \in Normal, Plain(p)
    PROVE  Trim(p) = p /\ Again(p) = p
<1>1. p \in Seq(STRING)
  BY DEF Normal
<1>2. p # <<>> => Last(p) \in Range(p)
  <2>1. p # <<>> => Len(p) \in 1..Len(p)
    BY <1>1
  <2>2. QED
    BY <2>1 DEF Last, Range
<1>3. Trim(p) = p
  BY <1>2 DEF Plain, Trim
<1>4. QED
  BY <1>3, AbsoluteStays DEF Again

-----------------------------------------------------------------------------
(* What is compared.                                                       *)

\* The names of p with their backslashes taken for separators.
Flat(p) == FlattenSeq([i \in DOMAIN p |-> PartsOf(p[i])])

\* f gathers them, one name of p after the other.
Gathers(f, p) ==
    f[0] = <<>> /\ \A n \in 1..Len(p) : f[n] = f[n - 1] \o PartsOf(p[n])

LEMMA PartsWritten ==
    ASSUME NEW name \in STRING
    PROVE  PartsOf(name) \in Seq(STRING)
<1>1. CASE name \in DOMAIN Parts
  <2>1. Parts[name] \in Seq(STRING)
    BY <1>1, PartsAssumption
  <2>2. QED
    BY <1>1, <2>1 DEF PartsOf
<1>2. CASE name \notin DOMAIN Parts
  <2>1. <<name>> \in Seq(STRING)
    BY Single
  <2>2. QED
    BY <1>2, <2>1 DEF PartsOf
<1>3. QED
  BY <1>1, <1>2

LEMMA FlatDef ==
    ASSUME NEW p \in Seq(STRING)
    PROVE  \E f : Gathers(f, p) /\ Flat(p) = f[Len(p)]
<1> DEFINE seqs == [i \in DOMAIN p |-> PartsOf(p[i])]
<1>s. /\ seqs \in Seq(Seq(STRING)) /\ Len(seqs) = Len(p)
      /\ \A i \in 1..Len(p) : seqs[i] = PartsOf(p[i]) /\ seqs[i] \in Seq(STRING)
  <2>1. DOMAIN p = 1..Len(p) /\ Len(p) \in Nat /\ \A i \in 1..Len(p) : p[i] \in STRING
    OBVIOUS
  <2>2. \A i \in 1..Len(p) : seqs[i] = PartsOf(p[i]) /\ PartsOf(p[i]) \in Seq(STRING)
    BY <2>1, PartsWritten
  <2>3. seqs \in [1..Len(p) -> Seq(STRING)]
    BY <2>1, <2>2
  <2> HIDE DEF seqs
  <2>4. seqs \in Seq(Seq(STRING)) /\ Len(seqs) = Len(p)
    BY <2>1, <2>3
  <2>5. QED
    BY <2>2, <2>4
<1>f. Flat(p) = FlattenSeq(seqs)
  BY DEF Flat
<1> HIDE DEF seqs
<1>e. CASE Len(p) = 0
  <2>1. Flat(p) = <<>>
    BY <1>e, <1>f, <1>s DEF FlattenSeq
  <2>2. Gathers([n \in {0} |-> <<>>], p)
    BY <1>e DEF Gathers
  <2>3. QED
    BY <1>e, <2>1, <2>2
<1>n. CASE Len(p) > 0
  <2> DEFINE Rec(f, k) == f = [i \in 1..k |-> IF i = 1 THEN seqs[i] ELSE f[i - 1] \o seqs[i]]
             S == {k \in Nat : \E f : Rec(f, k)}
  <2>1. 0 \in S
    <3>1. Rec([i \in 1..0 |-> <<>>], 0)
      OBVIOUS
    <3>2. QED
      BY <3>1
  <2>2. ASSUME NEW k \in S PROVE k + 1 \in S
    <3>1. PICK f : Rec(f, k)
      OBVIOUS
    <3> DEFINE g == [i \in 1..k+1 |-> IF i = k + 1
                                      THEN IF i = 1 THEN seqs[i] ELSE f[k] \o seqs[k + 1]
                                      ELSE f[i]]
    <3>2. \A i \in 1..k : f[i] = IF i = 1 THEN seqs[i] ELSE f[i - 1] \o seqs[i]
      BY <3>1
    <3>3. Rec(g, k + 1)
      <4> SUFFICES ASSUME NEW i \in 1..k+1
                   PROVE  g[i] = IF i = 1 THEN seqs[i] ELSE g[i - 1] \o seqs[i]
        BY Zenon
      <4>1. CASE i = k + 1 /\ i = 1
        BY <4>1
      <4>2. CASE i = k + 1 /\ i # 1
        <5>1. i = k + 1 /\ i - 1 = k /\ k \in 1..k+1 /\ k # k + 1
          BY <4>2
        <5>2. g[i] = f[k] \o seqs[k + 1] /\ g[k] = f[k]
          BY <4>2, <5>1
        <5>3. QED
          BY <4>2, <5>1, <5>2, Zenon
      <4>3. CASE i \in 1..k
        <5>1. g[i] = f[i] /\ (i # 1 => g[i - 1] = f[i - 1])
          BY <4>3
        <5> HIDE DEF g
        <5>2. QED
          BY <3>2, <4>3, <5>1
      <4>4. QED
        BY <4>1, <4>2, <4>3
    <3> HIDE DEF g, Rec
    <3>4. QED
      BY <3>3
  <2>3. S = Nat
    <3> HIDE DEF S
    <3>1. S \in SUBSET Nat
      BY DEF S
    <3>2. QED
      BY <2>1, <2>2, <3>1, Induction
  <2> DEFINE flatten == CHOOSE f : Rec(f, Len(seqs))
  <2>4. Rec(flatten, Len(seqs))
    <3>1. Len(seqs) \in S
      BY <1>s, <2>3, LenProperties
    <3> HIDE DEF Rec
    <3>2. \E f : Rec(f, Len(seqs))
      BY <3>1
    <3>3. QED
      BY <3>2, Zenon
  <2>5. FlattenSeq(seqs) = flatten[Len(seqs)]
    BY <1>n, <1>s DEF FlattenSeq
  <2>6. \A i \in 1..Len(p) :
           flatten[i] = IF i = 1 THEN seqs[i] ELSE flatten[i - 1] \o seqs[i]
    <3> HIDE DEF flatten
    <3>1. QED
      BY <1>s, <2>4
  <2> HIDE DEF flatten
  <2> DEFINE h == [n \in 0..Len(p) |-> IF n = 0 THEN <<>> ELSE flatten[n]]
  <2>7. ASSUME NEW n \in 1..Len(p) PROVE h[n] = h[n - 1] \o PartsOf(p[n])
    <3>1. CASE n = 1
      <4>1. h[n] = flatten[n] /\ h[n - 1] = <<>>
        BY <3>1
      <4> HIDE DEF h
      <4>2. flatten[n] = PartsOf(p[n]) /\ PartsOf(p[n]) \in Seq(STRING)
        BY <1>s, <2>6, <3>1
      <4>3. QED
        BY <4>1, <4>2
    <3>2. CASE n # 1
      <4>1. h[n] = flatten[n] /\ h[n - 1] = flatten[n - 1]
        BY <3>2
      <4> HIDE DEF h
      <4>2. QED
        BY <1>s, <2>6, <3>2, <4>1
    <3>3. QED
      BY <3>1, <3>2
  <2>8. h[0] = <<>> /\ h[Len(p)] = flatten[Len(p)]
    BY <1>n
  <2> HIDE DEF h
  <2>9. QED
    BY <1>f, <1>s, <2>5, <2>7, <2>8 DEF Gathers
<1>q. QED
  BY <1>e, <1>n

\* Names without backslashes are compared as they are.
LEMMA PlainCompared ==
    ASSUME NEW p \in Normal, Plain(p)
    PROVE  Compared(p) = p
<1>1. p \in Seq(STRING)
      /\ \A n \in 1..Len(p) : p[n] \in STRING /\ p[n] # Empty /\ PartsOf(p[n]) = <<p[n]>>
  BY NormalNames DEF Range, Plain, PartsOf
<1>2. PICK f : Gathers(f, p) /\ Flat(p) = f[Len(p)]
  BY <1>1, FlatDef
<1> DEFINE S == {n \in Nat : n <= Len(p) => f[n] = SubSeq(p, 1, n)}
<1>3. 0 \in S
  <2>1. SubSeq(p, 1, 0) = <<>>
    BY <1>1
  <2>2. QED
    BY <1>2, <2>1 DEF Gathers
<1>4. ASSUME NEW n \in S PROVE n + 1 \in S
  <2> SUFFICES ASSUME n + 1 <= Len(p) PROVE f[n + 1] = SubSeq(p, 1, n + 1)
    OBVIOUS
  <2>1. n + 1 \in 1..Len(p) /\ (n + 1) - 1 = n /\ f[n] = SubSeq(p, 1, n)
    BY <1>1
  <2>2. f[n + 1] = SubSeq(p, 1, n) \o <<p[n + 1]>>
    BY <1>1, <1>2, <2>1 DEF Gathers
  <2>3. QED
    BY <1>1, <2>1, <2>2
<1>5. S = Nat
  <2> HIDE DEF S
  <2>1. S \in SUBSET Nat
    BY DEF S
  <2>2. QED
    BY <1>3, <1>4, <2>1, Induction
<1>6. Len(p) \in S
  BY <1>1, <1>5
<1>7. Flat(p) = p
  BY <1>1, <1>2, <1>6
<1>8. Chop(p) = p
  <2>1. p # <<>> => Len(p) \in 1..Len(p)
    BY <1>1
  <2>2. QED
    BY <1>1, <2>1 DEF Chop, Last
<1>9. QED
  BY <1>7, <1>8 DEF Compared, Flat

\* A path inside a directory is compared as one inside it, whatever its names
\* and the directory's: no path is refused on account of a backslash.
LEMMA ComparedInside ==
    ASSUME NEW p \in Seq(STRING), NEW d \in Seq(STRING), Inside(p, d)
    PROVE  Inside(Compared(p), Compared(d))
<1>1. Len(d) \in Nat /\ Len(p) \in Nat /\ Len(d) <= Len(p)
      /\ \A n \in 1..Len(d) : d[n] = p[n]
  BY DEF Inside, IsPrefix
<1>2. PICK f : Gathers(f, p) /\ Flat(p) = f[Len(p)]
  BY FlatDef
<1>3. PICK g : Gathers(g, d) /\ Flat(d) = g[Len(d)]
  BY FlatDef
<1>4. f[Len(d)] = g[Len(d)] /\ f[Len(d)] \in Seq(STRING)
  <2> DEFINE S == {n \in Nat : n <= Len(d) => f[n] = g[n] /\ f[n] \in Seq(STRING)}
  <2>1. 0 \in S
    <3>1. <<>> \in Seq(STRING)
      OBVIOUS
    <3>2. QED
      BY <1>2, <1>3, <3>1 DEF Gathers
  <2>2. ASSUME NEW n \in S PROVE n + 1 \in S
    <3> SUFFICES ASSUME n + 1 <= Len(d)
                 PROVE  f[n + 1] = g[n + 1] /\ f[n + 1] \in Seq(STRING)
      OBVIOUS
    <3>1. n + 1 \in 1..Len(d) /\ n + 1 \in 1..Len(p) /\ (n + 1) - 1 = n
      BY <1>1
    <3>2. f[n] = g[n] /\ f[n] \in Seq(STRING)
      BY <1>1
    <3>3. f[n + 1] = f[n] \o PartsOf(p[n + 1]) /\ g[n + 1] = g[n] \o PartsOf(p[n + 1])
      BY <1>1, <1>2, <1>3, <3>1 DEF Gathers
    <3>4. PartsOf(p[n + 1]) \in Seq(STRING)
      <4>1. p[n + 1] \in STRING
        BY <3>1
      <4>2. QED
        BY <4>1, PartsWritten
    <3>5. QED
      BY <3>2, <3>3, <3>4
  <2>3. S = Nat
    <3> HIDE DEF S
    <3>1. S \in SUBSET Nat
      BY DEF S
    <3>2. QED
      BY <2>1, <2>2, <3>1, Induction
  <2>4. Len(d) \in S
    BY <1>1, <2>3
  <2>5. QED
    BY <1>1, <2>4
<1>5. f[Len(p)] \in Seq(STRING) /\ Inside(f[Len(p)], f[Len(d)])
  <2> DEFINE S == {n \in Nat : Len(d) + n <= Len(p) =>
                     f[Len(d) + n] \in Seq(STRING) /\ Inside(f[Len(d) + n], f[Len(d)])}
  <2>1. 0 \in S
    <3>1. Len(d) + 0 = Len(d) /\ Inside(f[Len(d)], f[Len(d)])
      BY <1>1, <1>4 DEF Inside, IsPrefix
    <3>2. QED
      BY <1>4, <3>1
  <2>2. ASSUME NEW n \in S PROVE n + 1 \in S
    <3> DEFINE k == Len(d) + n
    <3> SUFFICES ASSUME k + 1 <= Len(p)
                 PROVE  f[k + 1] \in Seq(STRING) /\ Inside(f[k + 1], f[Len(d)])
      BY <1>1
    <3>1. k + 1 \in 1..Len(p) /\ (k + 1) - 1 = k
      BY <1>1
    <3>2. f[k] \in Seq(STRING) /\ Inside(f[k], f[Len(d)])
      BY <1>1
    <3>3. f[k + 1] = f[k] \o PartsOf(p[k + 1]) /\ PartsOf(p[k + 1]) \in Seq(STRING)
      <4>1. p[k + 1] \in STRING
        BY <3>1
      <4> HIDE DEF k
      <4>2. QED
        BY <1>2, <3>1, <4>1, PartsWritten DEF Gathers
    <3>4. f[k + 1] \in Seq(STRING) /\ Inside(f[k + 1], f[k])
      BY <3>2, <3>3, InsideBelow
    <3> HIDE DEF k
    <3>5. QED
      BY <1>4, <3>2, <3>4, InsideTransitive
  <2>3. S = Nat
    <3> HIDE DEF S
    <3>1. S \in SUBSET Nat
      BY DEF S
    <3>2. QED
      BY <2>1, <2>2, <3>1, Induction
  <2>4. Len(p) - Len(d) \in Nat /\ Len(d) + (Len(p) - Len(d)) = Len(p)
    BY <1>1
  <2>5. Len(p) - Len(d) \in S
    BY <2>3, <2>4
  <2>6. QED
    BY <1>1, <2>4, <2>5
<1> DEFINE x == Flat(p)
           y == Flat(d)
<1>6. x \in Seq(STRING) /\ y \in Seq(STRING) /\ Inside(x, y)
  BY <1>2, <1>3, <1>4, <1>5
<1> HIDE DEF x, y
<1>7. Len(x) \in Nat /\ Len(y) \in Nat /\ Len(y) <= Len(x)
      /\ \A n \in 1..Len(y) : y[n] = x[n]
  BY <1>6 DEF Inside, IsPrefix
<1>8. Chop(y) \in Seq(STRING) /\ Inside(y, Chop(y))
  <2>1. CASE Chop(y) = y
    BY <1>6, <2>1 DEF Inside, IsPrefix
  <2>2. CASE y # <<>> /\ Chop(y) = Front(y)
    BY <1>6, <2>2, FrontOf, InsideFront
  <2>3. QED
    BY <2>1, <2>2 DEF Chop
<1>9. Chop(x) \in Seq(STRING)
  BY <1>6, FrontOf DEF Chop
<1>10. CASE Len(x) = Len(y)
  <2>1. x = y
    BY <1>6, <1>7, <1>10
  <2>2. Inside(Chop(x), Chop(x))
    BY <1>9 DEF Inside, IsPrefix
  <2>3. QED
    BY <2>1, <2>2 DEF Compared, Flat, x, y
<1>11. CASE Len(y) < Len(x)
  <2>1. Inside(Chop(x), y)
    <3>1. CASE Chop(x) = x
      BY <1>6, <3>1
    <3>2. CASE x # <<>> /\ Chop(x) = Front(x)
      BY <1>6, <1>11, <3>2, InsideFront
    <3>3. QED
      BY <3>1, <3>2 DEF Chop
  <2>2. Inside(Chop(x), Chop(y))
    BY <1>6, <1>8, <1>9, <2>1, InsideTransitive
  <2>3. QED
    BY <2>2 DEF Compared, Flat, x, y
<1>12. QED
  BY <1>7, <1>10, <1>11

-----------------------------------------------------------------------------
(* What the policy's ways guarantee.                                       *)

\* Wherever links lead: a file that exists when a call is judged is one that the
\* call reaches in an allowed directory only, and outside the workspace only
\* after a question (policy.ts:622: the real path is compared, not the name);
\* where the policy converts none of the names that are compared.
THEOREM ExistingFilesStayInside ==
    ASSUME NEW c \in Calls, NEW policy \in Policies, NEW root \in Roots \union {None},
           Decision(c, policy, root) # "refused",
           NEW q \in ResolvedPaths(c, root), Followed(q) \in files,
           Plain(q), Plain(Followed(q)), PlainDirectories(policy, root)
    PROVE  /\ \E d \in policy.dirs : Inside(Followed(q), Absolutize(d, None))
           /\ \/ root = None \/ Inside(Followed(q), root)
              \/ Decision(c, policy, root) = "asked"
<1>1. Permitted(c, policy, root)
  BY DEF Decision
<1>2. q \in Normal /\ Again(q) = q
  BY ResolvedNormal, PlainStays
<1>3. Followed(q) \in Normal
  <2>1. ASSUME NEW l \in DOMAIN Links, IsPrefix(l, q)
        PROVE  Links[l] \o SubSeq(q, Len(l) + 1, Len(q)) \in Normal
    <3>1. /\ l \in Seq(STRING) /\ q \in Seq(STRING) /\ Links[l] \in Seq(STRING)
          /\ \A i \in 1..Len(q) : q[i] \notin {Empty, ".", ".."}
          /\ \A i \in 1..Len(Links[l]) : Links[l][i] \notin {Empty, ".", ".."}
      BY <1>2, NormalAssumption, NormalNames DEF Range
    <3> DEFINE s == SubSeq(q, Len(l) + 1, Len(q))
    <3>2. /\ s \in Seq(STRING)
          /\ \A i \in 1..Len(s) : s[i] = q[Len(l) + i] /\ Len(l) + i \in 1..Len(q)
      BY <2>1, <3>1 DEF IsPrefix
    <3> HIDE DEF s
    <3>3. \A i \in 1..Len(s) : s[i] \notin {Empty, ".", ".."}
      BY <3>1, <3>2
    <3>4. /\ Links[l] \o s \in Seq(STRING)
          /\ \A i \in 1..Len(Links[l] \o s) : (Links[l] \o s)[i] \notin {Empty, ".", ".."}
      BY <3>1, <3>2, <3>3
    <3>5. QED
      BY <3>4, NormalNames DEF s
  <2>2. QED
    BY <1>2, <2>1 DEF Followed
<1>4. Judged(q) = Followed(q)
  BY <1>2, <1>3, PlainCompared DEF Judged, RealPath
<1>5. ASSUME NEW d \in policy.dirs
      PROVE  Compared(Absolutize(d, None)) = Absolutize(d, None)
  <2>1. d \in Written
    BY <1>5, HandMadeAssumption DEF Policies
  <2>2. QED
    BY <2>1, AbsolutizeNormal, PlainCompared DEF PlainDirectories
<1>6. root # None => Compared(Again(root)) = root
  BY ConstantsNormal, PlainStays, PlainCompared DEF PlainDirectories
<1>7. \E d \in policy.dirs : Inside(Followed(q), Absolutize(d, None))
  BY <1>1, <1>4, <1>5 DEF Permitted, PathsAllowed, IsPathAllowed
<1>8. QED
  BY <1>1, <1>4, <1>6, <1>7 DEF Decision, InWorkspace

\* No path leads both into a directory that may be allowed and through a link:
\* neither lies below the other.
LinksAside ==
    \A l \in DOMAIN Links, d \in Directories :
        \A q \in Normal : ~ (IsPrefix(l, q) /\ Inside(q, Absolutize(d, None)))

\* Where no link leads out of an allowed directory, or into one by its own name,
\* every file that a tool creates lies in a directory the policy allows, and
\* outside the workspace only after a question, whatever way the policy came;
\* where the policy converts none of the names that are compared.
THEOREM WritesStayInside ==
    ASSUME LinksAside
    PROVE  PolicySpec => ToolsStayInside
<1>1. ASSUME PolicyTypeOK, [PolicyNext]_policyVars, NEW p \in files' \ files,
             PlainDirectories(daemon.policy, daemon.root),
             \A c \in Calls : p \in ToolPaths(c) =>
                 \A q \in ResolvedPaths(c, daemon.root) : Plain(q)
      PROVE  LandsInside(p)
  <2>1. PICK c \in Calls : /\ daemon # None /\ p \in ToolPaths(c)
                           /\ Decision(c, daemon.policy, daemon.root) # "refused"
    BY <1>1 DEF PolicyNext, Boot, Quit, SetPolicy, EditByHand, WorkspaceUse, WorkspaceClear,
                Execute, policyVars
  <2>2. /\ daemon.policy.dirs \subseteq Directories
        /\ daemon.root \in Roots \union {None}
    BY <1>1, <2>1 DEF PolicyTypeOK, Policies
  <2>3. PICK q \in ResolvedPaths(c, daemon.root) : p = Followed(q)
    BY <2>1 DEF ToolPaths
  <2>4. q \in Normal /\ Plain(q)
    BY <1>1, <2>1, <2>2, <2>3, ResolvedNormal
  <2>5. Judged(q) = q
    <3>1. Again(q) = q /\ Compared(q) = q
      BY <2>4, PlainStays, PlainCompared
    <3>2. RealPath(q) = q
      BY <1>1, <2>3 DEF RealPath
    <3>3. QED
      BY <3>1, <3>2 DEF Judged
  <2>6. ASSUME NEW d \in daemon.policy.dirs
        PROVE  Compared(Absolutize(d, None)) = Absolutize(d, None)
    <3>1. d \in Written
      BY <2>2, <2>6, HandMadeAssumption
    <3>2. QED
      BY <1>1, <3>1, AbsolutizeNormal, PlainCompared DEF PlainDirectories
  <2>7. daemon.root # None => Compared(Again(daemon.root)) = daemon.root
    BY <1>1, <2>2, ConstantsNormal, PlainStays, PlainCompared DEF PlainDirectories
  <2>8. Permitted(c, daemon.policy, daemon.root)
    BY <2>1 DEF Decision
  <2>9. PICK d \in daemon.policy.dirs : Inside(q, Absolutize(d, None))
    BY <2>3, <2>5, <2>6, <2>8 DEF Permitted, PathsAllowed, IsPathAllowed
  <2>10. p = q
    BY <2>2, <2>3, <2>4, <2>9 DEF LinksAside, Followed
  <2>11. \/ daemon.root = None \/ Inside(p, daemon.root)
         \/ Decision(c, daemon.policy, daemon.root) = "asked"
    BY <2>3, <2>5, <2>7, <2>8, <2>10 DEF Decision, InWorkspace
  <2>12. QED
    BY <2>1, <2>9, <2>10, <2>11 DEF LandsInside
<1>2. PolicyTypeOK /\ [PolicyNext]_policyVars =>
        [ \A p \in files' \ files :
            (/\ PlainDirectories(daemon.policy, daemon.root)
             /\ \A c \in Calls : p \in ToolPaths(c) =>
                   \A q \in ResolvedPaths(c, daemon.root) : Plain(q))
            => LandsInside(p) ]_policyVars
  BY <1>1
<1>3. QED
  BY <1>2, PoliciesAreValid, PTL DEF PolicySpec, ToolsStayInside

\* No directory of a policy is relative to where a program was started: the
\* command line and the daemon may have been started in different places.
DirectoriesAgree == \A d \in Directories : Absolutize(d, Shell) = Absolutize(d, None)

\* No workspace's name ends in blanks: written with a separator after them,
\* `workspace use` stores a path that both programs then trim.
WorkspacesStay == \A r \in Roots : Again(r) = r

\* Until somebody undoes it, policy.json covers the workspace of config.json.
Added ==
    kept => file # None /\ (workspace # None => Covered(workspace, file.dirs))

LEMMA AddedStep ==
    ASSUME WorkspacesStay
    PROVE  PolicyTypeOK /\ Added /\ [PolicyNext]_policyVars => Added'
<1> SUFFICES ASSUME PolicyTypeOK, Added, [PolicyNext]_policyVars PROVE Added'
  OBVIOUS
<1>t. file \in Policies \union {None} /\ workspace \in Roots \union {None}
  BY DEF PolicyTypeOK
<1>n. None \notin Roots
  BY RootsAssumption
<1>1. ASSUME NEW flag \in BOOLEAN, Boot(flag) PROVE Added'
  BY <1>1 DEF Boot, Added
<1>2. ASSUME NEW setting \in Settings, SetPolicy(setting) PROVE Added'
  <2>1. daemon \in Daemons
    BY <1>2 DEF SetPolicy, PolicyTypeOK, Daemons
  <2>2. daemon.policy \in Policies
    BY <2>1 DEF Daemons
  <2>3. file' \in Policies
    BY <1>2, <2>2, PolicyFields DEF SetPolicy
  <2>4. file' # None
    BY <2>3, HandMadeAssumption
  <2>5. QED
    BY <1>2, <2>4 DEF SetPolicy, Added
<1>3. ASSUME NEW root \in Roots, WorkspaceUse(root) PROVE Added'
  <2>1. CASE file = None
    BY <1>3, <2>1 DEF WorkspaceUse, Added
  <2>2. CASE file # None /\ Covered(root, file.dirs)
    BY <1>3, <2>2 DEF WorkspaceUse, Added
  <2>3. CASE file # None /\ ~ Covered(root, file.dirs)
    <3> DEFINE d == [base |-> "absolute", steps |-> root]
    <3>1. d \in file'.dirs
      BY <1>3, <1>t, <2>3 DEF WorkspaceUse, Policies
    <3>2. Absolutize(d, Shell) = root /\ Again(root) = root
      BY DEF WorkspacesStay, Again, Absolutize
    <3>3. Inside(root, root)
      BY ConstantsNormal DEF Inside, IsPrefix
    <3>4. Covered(root, file'.dirs)
      BY <3>1, <3>2, <3>3 DEF Covered
    <3>5. file' # None
      <4>1. file \in Policies /\ file' = [file EXCEPT !.dirs = @ \union {d}]
        BY <1>3, <1>t, <2>3 DEF WorkspaceUse
      <4>2. d \in Directories
        BY DEF Directories
      <4>3. file.dirs \union {d} \in SUBSET Directories
        BY <4>1, <4>2 DEF Policies
      <4>4. file' \in Policies
        BY <4>1, <4>3, PolicyFields
      <4>5. QED
        BY <4>4, HandMadeAssumption
    <3>6. QED
      BY <1>3, <3>4, <3>5 DEF WorkspaceUse, Added
  <2>4. QED
    BY <2>1, <2>2, <2>3
<1>4. CASE \/ Quit \/ WorkspaceClear \/ \E policy \in HandMade : EditByHand(policy)
           \/ (\E c \in Calls : Execute(c)) \/ UNCHANGED policyVars
  BY <1>4 DEF Quit, WorkspaceClear, EditByHand, Execute, policyVars, Added
<1>5. QED
  BY <1>1, <1>2, <1>3, <1>4 DEF PolicyNext

\* Where no name written climbs, a path relative to the workspace stays inside
\* it, resolved once and resolved again.
LEMMA RelativeStaysInside ==
    ASSUME NEW root \in Normal, root # None, Again(root) = root,
           NEW w \in Written, w.base = "relative",
           \A name \in Range(w.steps) : ~Climbs(name)
    PROVE  Inside(Again(Absolutize(w, root)), root)
<1>1. w.steps \in Seq(STRING) /\ root \in Seq(STRING)
  BY DEF Written, Normal
<1> DEFINE steps == Trim(w.steps)
           p == Absolutize(w, root)
<1>2. steps \in Seq(STRING) /\ \A name \in Range(steps) : ~Climbs(name)
  BY <1>1, TrimWritten DEF Climbs
<1>3. p = Walk(root, steps)
  BY DEF Absolutize
<1> HIDE DEF steps, p
<1>4. PICK at : /\ at[0] = root
                /\ \A n \in 1..Len(steps) : at[n] = Enter(at[n - 1], steps[n])
                /\ p = at[Len(steps)]
  BY <1>2, <1>3, WalkDef
<1> DEFINE Below(q) == /\ q \in Normal /\ Inside(q, root)
                       /\ q = root \/ (Len(q) > Len(root) /\ ~Climbs(Last(q)))
           S == {n \in Nat : n <= Len(steps) => Below(at[n])}
<1>5. ASSUME NEW q \in Normal, Below(q), NEW name \in STRING, ~Climbs(name)
      PROVE  Below(Enter(q, name))
  <2>1. q \in Seq(STRING) /\ \A i \in 1..Len(q) : q[i] \notin {Empty, ".", ".."}
    BY NormalNames
  <2>2. CASE name \in {Empty, "."}
    <3>1. Enter(q, name) = q
      BY <2>2 DEF Enter
    <3>2. QED
      BY <1>5, <3>1
  <2>3. CASE name \notin {Empty, "."}
    <3>1. name # ".." /\ Enter(q, name) = Append(q, name)
      BY <1>5, <2>3 DEF Climbs, Enter
    <3>2. Append(q, name) \in Normal
      <4>1. /\ Append(q, name) \in Seq(STRING)
            /\ \A i \in 1..Len(Append(q, name)) : Append(q, name)[i] \notin {Empty, ".", ".."}
        BY <2>1, <2>3, <3>1
      <4>2. QED
        BY <4>1, NormalNames
    <3>3. Inside(Append(q, name), root) /\ Len(Append(q, name)) > Len(root)
      BY <1>1, <1>5, <2>1 DEF Inside, IsPrefix
    <3>4. Last(Append(q, name)) = name
      BY <2>1 DEF Last
    <3>5. QED
      BY <1>5, <3>1, <3>2, <3>3, <3>4
  <2>4. QED
    BY <2>2, <2>3
<1>6. Below(root)
  BY <1>1 DEF Inside, IsPrefix
<1>7. 0 \in S
  BY <1>4, <1>6
<1>8. ASSUME NEW n \in S PROVE n + 1 \in S
  <2> SUFFICES ASSUME n + 1 <= Len(steps) PROVE Below(at[n + 1])
    OBVIOUS
  <2>1. /\ n + 1 \in 1..Len(steps) /\ (n + 1) - 1 = n /\ steps[n + 1] \in STRING
        /\ ~Climbs(steps[n + 1])
    BY <1>2 DEF Range
  <2>2. Below(at[n]) /\ n <= Len(steps)
    BY <1>2
  <2>3. at[n + 1] = Enter(at[n], steps[n + 1]) /\ at[n] \in Normal
    BY <1>4, <2>1, <2>2
  <2> HIDE DEF Below
  <2>4. QED
    BY <1>5, <2>1, <2>2, <2>3
<1>9. S = Nat
  <2> HIDE DEF S
  <2>1. S \in SUBSET Nat
    BY DEF S
  <2>2. QED
    BY <1>7, <1>8, <2>1, Induction
<1>10. Below(p)
  <2>1. Len(steps) \in S /\ Len(steps) \in Nat
    BY <1>2, <1>9
  <2> HIDE DEF Below
  <2>2. QED
    BY <1>4, <2>1
<1>11. CASE p = root
  BY <1>1, <1>11 DEF p, Inside, IsPrefix
<1>12. CASE p # root
  <2>1. /\ p \in Normal /\ p \in Seq(STRING) /\ Len(p) > Len(root) /\ Inside(p, root)
        /\ ~Climbs(Last(p)) /\ p # <<>>
    BY <1>1, <1>10, <1>12 DEF Normal
  <2> DEFINE q == Front(p)
  <2>2. q \in Normal /\ Inside(q, root)
    <3>1. /\ q \in Seq(STRING) /\ Len(q) = Len(p) - 1
          /\ \A i \in 1..Len(q) : q[i] = p[i]
      BY <1>1, <2>1, FrontOf
    <3>2. \A i \in 1..Len(p) : p[i] \notin {Empty, ".", ".."}
      BY <2>1, NormalNames
    <3> HIDE DEF q
    <3>3. q \in Normal
      BY <2>1, <3>1, <3>2, NormalNames
    <3>4. Inside(q, root)
      BY <1>1, <2>1, <3>1 DEF Inside, IsPrefix
    <3>5. QED
      BY <3>3, <3>4
  <2>3. CASE Last(p) \notin DOMAIN Trimmed
    <3>1. Trim(p) = p
      BY <2>3 DEF Trim
    <3>2. Again(p) = p
      BY <2>1, <3>1, AbsoluteStays DEF Again
    <3>3. QED
      BY <2>1, <3>2 DEF p
  <2>4. CASE Last(p) \in DOMAIN Trimmed
    <3> DEFINE name == Trimmed[Last(p)]
    <3>1. name \in STRING /\ name # ".."
      BY <2>1, <2>4, TrimmedAssumption DEF Climbs
    <3>2. Trim(p) = Append(q, name)
      BY <2>1, <2>4 DEF Trim
    <3>3. <<>> \in Seq(STRING) /\ q \in Seq(STRING) /\ <<>> \o q = q
      BY <2>2 DEF Normal
    <3> HIDE DEF q, name
    <3>4. Again(p) = Enter(q, name)
      BY <2>2, <3>1, <3>2, <3>3, WalkAlong DEF Again, Absolutize
    <3>5. Enter(q, name) \in {q, Append(q, name)}
      BY <3>1 DEF Enter
    <3>6. Inside(Append(q, name), root)
      BY <1>1, <2>2, <3>3 DEF Inside, IsPrefix
    <3>7. QED
      BY <2>2, <3>4, <3>5, <3>6 DEF p
  <2>5. QED
    BY <2>3, <2>4
<1>13. QED
  BY <1>11, <1>12

\* After `deckagent workspace use`, whatever else was set, started or created
\* since, a daemon that was started with that workspace and that policy lets its
\* files be read without a question, new or existing and whatever is in their
\* names: where no link leads out of an allowed directory, none of these is
\* relative to a working directory, and no workspace's name ends in blanks.
THEOREM WorkspaceIsUsable ==
    ASSUME LinksAside, DirectoriesAgree, WorkspacesStay
    PROVE  PolicySpec => []WorkspaceWorks
<1>1. PolicyInit => Added
  BY DEF PolicyInit, Added
<1>2. ASSUME PolicyTypeOK, Added PROVE WorkspaceWorks
  <2> DEFINE policy == daemon.policy
             root == daemon.root
  <2> SUFFICES ASSUME daemon # None, root # None, kept, workspace = root,
                      file.dirs = policy.dirs, NEW c \in Calls,
                      c.tool = "read_file", c.tool \notin policy.confirm,
                      \A w \in c.paths : /\ w.base = "relative"
                                         /\ \A name \in Range(w.steps) : ~Climbs(name)
               PROVE  Decision(c, policy, root) = "allowed"
    BY DEF WorkspaceWorks
  <2>1. daemon \in Daemons
    BY <1>2 DEF PolicyTypeOK, Daemons
  <2>2. policy \in Policies /\ root \in Roots
    BY <2>1 DEF Daemons
  <2>3. root \in Normal /\ root \in Seq(STRING) /\ Again(root) = root
    BY <2>2, ConstantsNormal DEF WorkspacesStay
  <2>4. PICK d \in policy.dirs : Inside(root, Absolutize(d, Shell))
    BY <1>2, <2>3 DEF Added, Covered
  <2>5. d \in Directories /\ d \in Written
    BY <2>2, <2>4, HandMadeAssumption DEF Policies
  <2>6. Absolutize(d, None) \in Seq(STRING) /\ Inside(root, Absolutize(d, None))
    BY <2>4, <2>5, AbsolutizeNormal, ConstantsNormal DEF DirectoriesAgree
  <2>7. ASSUME NEW p \in ResolvedPaths(c, root)
        PROVE  /\ Inside(Judged(p), Compared(Again(root)))
               /\ Inside(Judged(p), Compared(Absolutize(d, None)))
    <3>1. PICK w \in c.paths : p = Absolutize(w, root)
      BY <2>7 DEF ResolvedPaths
    <3>2. w \in Written /\ w.base = "relative" /\ \A name \in Range(w.steps) : ~Climbs(name)
      BY <3>1, CallsAssumption
    <3> DEFINE q == Again(p)
    <3>3. Inside(q, root)
      BY <2>3, <3>1, <3>2, RelativeStaysInside
    <3>4. q \in Normal /\ q \in Seq(STRING)
      <4>1. p \in Normal /\ p \in Seq(STRING)
        BY <2>2, ResolvedNormal, ConstantsNormal
      <4>2. [base |-> "absolute", steps |-> p] \in Written
        BY <4>1 DEF Written
      <4>3. QED
        BY <4>2, AbsolutizeNormal, ConstantsNormal DEF Again
    <3> HIDE DEF q
    <3>5. Inside(q, Absolutize(d, None))
      BY <2>3, <2>6, <3>3, <3>4, InsideTransitive
    <3>6. Followed(q) = q
      BY <2>5, <3>4, <3>5 DEF LinksAside, Followed
    <3>7. Judged(p) = Compared(q)
      BY <3>6 DEF Judged, RealPath, q
    <3>8. QED
      BY <2>3, <2>6, <3>3, <3>4, <3>5, <3>7, ComparedInside
  <2>8. PathsAllowed(c, policy, root)
    BY <2>4, <2>7 DEF PathsAllowed, IsPathAllowed
  <2>9. Permitted(c, policy, root)
    BY <2>8 DEF Permitted, AllTools, Mutating, Terminal, Browser
  <2>10. \A p \in ResolvedPaths(c, root) : InWorkspace(p, root)
    BY <2>7 DEF InWorkspace
  <2>11. QED
    BY <2>9, <2>10 DEF Decision
<1>3. QED
  BY <1>1, <1>2, AddedStep, PoliciesAreValid, PTL DEF PolicySpec
=============================================================================
