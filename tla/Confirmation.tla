---------------------------- MODULE Confirmation ----------------------------
(***************************************************************************)
(* The daemon's confirmation server                                        *)
(* (packages/desktop-daemon/src/confirmation-server.ts).  A tool call that *)
(* policy wants confirmed creates an approval and waits for its decision.  *)
(* The user decides on the approval's own page or in the control UI; a     *)
(* sweep every few seconds expires what nobody decided; the wait has a     *)
(* timer of its own.                                                       *)
(*                                                                         *)
(* Time is discrete.  The delays keep the order they have in the code.     *)
(***************************************************************************)
EXTENDS Integers

CONSTANTS
    Approvals,    \* ids; randomUUID never gives one twice
    Expire,       \* CONFIRMATION_EXPIRE_MS
    Wait,         \* CONFIRMATION_WAIT_MS
    Keep,         \* how long after Expire a decided record is kept
    SweepEvery    \* the period of expireStale

ASSUME DelaysAssumption == {Expire, Wait, Keep, SweepEvery} \subseteq Nat \ {0}

VARIABLES
    record,       \* pending: "absent", "undecided" or the user's decision
    outcome,      \* what waitForDecision gave the tool call
    age,          \* ticks since createdAt, while the record is there
    told,         \* what the user has been told about each approval
    sweepIn,      \* ticks until the next expireStale
    running       \* between start() and stop()

vars == <<record, outcome, age, told, sweepIn, running>>

UserDecisions == {"approved", "denied"}
Decisions == UserDecisions \union {"expired", "timeout"}

\* No record is older, see RecordsDrain.
MaxAge == Expire + Keep + SweepEvery

TypeOK ==
    /\ record \in [Approvals -> {"absent", "undecided"} \union UserDecisions]
    /\ outcome \in [Approvals -> {"none", "waiting"} \union Decisions]
    /\ age \in [Approvals -> Nat]
    /\ told \in [Approvals -> SUBSET (Decisions \union {"unknown"})]
    /\ sweepIn \in 0..SweepEvery
    /\ running \in BOOLEAN

\* The daemon exits unless start() succeeds, so the server is running.
Init ==
    /\ record = [a \in Approvals |-> "absent"]
    /\ outcome = [a \in Approvals |-> "none"]
    /\ age = [a \in Approvals |-> 0]
    /\ told = [a \in Approvals |-> {}]
    /\ sweepIn = SweepEvery
    /\ running = TRUE

-----------------------------------------------------------------------------
\* createApproval, and at once waitForDecision.
Create(a) ==
    /\ running /\ outcome[a] = "none"
    /\ record' = [record EXCEPT ![a] = "undecided"]
    /\ outcome' = [outcome EXCEPT ![a] = "waiting"]
    /\ UNCHANGED <<age, told, sweepIn, running>>

Stale(a) == age[a] > Expire

Settle_KeepsWaiter(a, d) ==
    /\ record' = [record EXCEPT ![a] = IF d \in UserDecisions THEN d ELSE "absent"]
    /\ outcome' = IF d \in UserDecisions THEN [outcome EXCEPT ![a] = d] ELSE outcome

\* settle, of an undecided approval: the waiter gets the decision.
Settle(a, d) ==
    /\ record' = [record EXCEPT ![a] = IF d \in UserDecisions THEN d ELSE "absent"]
    /\ outcome' = [outcome EXCEPT ![a] = d]

Tell(a, what) == told' = [told EXCEPT ![a] = @ \union {what}]

\* The answer of the approval's page when there is nothing left to decide.
NothingToDecide(a) ==
    \/ /\ record[a] = "absent" /\ Tell(a, "unknown")
       /\ UNCHANGED <<record, outcome>>
    \/ /\ record[a] \in UserDecisions /\ Tell(a, record[a])
       /\ UNCHANGED <<record, outcome>>
    \/ /\ record[a] = "undecided" /\ Stale(a)
       /\ Settle(a, "expired") /\ Tell(a, "expired")

\* renderConfirmPage
PageView(a) ==
    /\ outcome[a] # "none"
    /\ \/ NothingToDecide(a)
       \/ record[a] = "undecided" /\ ~Stale(a) /\ UNCHANGED <<record, outcome, told>>
    /\ UNCHANGED <<age, sweepIn, running>>

PageDecide_Overwrites(a, d) ==
    /\ outcome[a] # "none"
    /\ \/ record[a] = "absent" /\ Tell(a, "unknown") /\ UNCHANGED <<record, outcome>>
       \/ /\ record[a] # "absent" /\ Tell(a, d)
          /\ record' = [record EXCEPT ![a] = d]
          /\ outcome' = IF outcome[a] = "waiting" THEN [outcome EXCEPT ![a] = d]
                                                  ELSE outcome
    /\ UNCHANGED <<age, sweepIn, running>>

\* handleDecision
PageDecide(a, d) ==
    /\ outcome[a] # "none"
    /\ \/ NothingToDecide(a)
       \/ record[a] = "undecided" /\ ~Stale(a) /\ Settle(a, d) /\ Tell(a, d)
    /\ UNCHANGED <<age, sweepIn, running>>

\* approve() or deny() for the control UI, which is told false (here
\* "unknown") of a decided approval.  A stale one is still decided.
UiDecide(a, d) ==
    /\ running /\ outcome[a] # "none"
    /\ \/ record[a] = "undecided" /\ Settle(a, d) /\ Tell(a, d)
       \/ record[a] # "undecided" /\ Tell(a, "unknown") /\ UNCHANGED <<record, outcome>>
    /\ UNCHANGED <<age, sweepIn, running>>

WaitOver_OffByOne(a) == outcome[a] = "waiting" /\ age[a] > Wait

\* The timer of waitForDecision.
WaitOver(a) == outcome[a] = "waiting" /\ age[a] >= Wait

WaitTimeout(a) ==
    /\ WaitOver(a)
    /\ Settle(a, "timeout")
    /\ UNCHANGED <<age, told, sweepIn, running>>

\* Records expireStale forgets.
Forgotten(a) ==
    \/ record[a] = "undecided" /\ Stale(a)
    \/ record[a] \in UserDecisions /\ age[a] > Expire + Keep

ExpireStale_OnlyUndecided ==
    /\ running /\ sweepIn = 0
    /\ record' = [a \in Approvals |->
                     IF record[a] = "undecided" /\ Stale(a) THEN "absent" ELSE record[a]]
    /\ outcome' = [a \in Approvals |->
                     IF record[a] = "undecided" /\ Stale(a) THEN "expired" ELSE outcome[a]]
    /\ sweepIn' = SweepEvery
    /\ UNCHANGED <<age, told, running>>

\* expireStale
ExpireStale ==
    /\ running /\ sweepIn = 0
    /\ record' = [a \in Approvals |-> IF Forgotten(a) THEN "absent" ELSE record[a]]
    /\ outcome' = [a \in Approvals |-> IF Forgotten(a) /\ record[a] = "undecided"
                                       THEN "expired" ELSE outcome[a]]
    /\ sweepIn' = SweepEvery
    /\ UNCHANGED <<age, told, running>>

\* stop, last of the daemon's shutdown.  Pages on connections still open are
\* answered until the process exits.
Stop ==
    /\ running
    /\ running' = FALSE
    /\ record' = [a \in Approvals |-> "absent"]
    /\ outcome' = [a \in Approvals |-> IF record[a] = "undecided" THEN "expired"
                                                                  ELSE outcome[a]]
    /\ UNCHANGED <<age, told, sweepIn>>

\* One unit of time, when no timer is due.
Tick ==
    /\ running /\ sweepIn > 0
    /\ \A a \in Approvals : ~WaitOver(a)
    /\ sweepIn' = sweepIn - 1
    /\ age' = [a \in Approvals |-> IF record[a] = "absent" THEN age[a] ELSE age[a] + 1]
    /\ UNCHANGED <<record, outcome, told, running>>

ApprovalStep(a) ==
    \/ Create(a)
    \/ PageView(a)
    \/ \E d \in UserDecisions : PageDecide(a, d) \/ UiDecide(a, d)
    \/ WaitTimeout(a)

Next ==
    \/ \E a \in Approvals : ApprovalStep(a)
    \/ ExpireStale \/ Stop \/ Tick

\* Timers run; nothing is assumed of the user.
Fairness ==
    /\ WF_vars(Tick) /\ WF_vars(ExpireStale)
    /\ \A a \in Approvals : WF_vars(WaitTimeout(a))

Spec == Init /\ [][Next]_vars /\ Fairness

-----------------------------------------------------------------------------
(* Properties.                                                             *)

\* A tool call waits exactly while there is a record the user can decide: no
\* path that settles or drops a record forgets its waiter.
NoWaiterForgotten ==
    \A a \in Approvals : outcome[a] = "waiting" <=> record[a] = "undecided"

\* What the user was told is what the tool call got, whatever page or button
\* was used, in whatever order, on whatever side of the expiry; and a record
\* that is kept agrees.
ToldIsTrue ==
    \A a \in Approvals :
        /\ told[a] \intersect Decisions \subseteq {outcome[a]}
        /\ record[a] \in UserDecisions => record[a] = outcome[a]
        /\ "unknown" \in told[a] => outcome[a] # "waiting"

\* Nobody waits longer than the sweep, or the wait's own timer, allows.
WaitBounded ==
    \A a \in Approvals :
        outcome[a] = "waiting" => age[a] <= Wait /\ age[a] <= Expire + SweepEvery

\* Decided records do not pile up in the map.
RecordsDrain == \A a \in Approvals : record[a] # "absent" => age[a] <= MaxAge

Gate == INSTANCE UserGate WITH Requests <- Approvals, gate <- outcome

\* The server is the gate the tool executor relies on: one decision per call,
\* which never changes, and every tool call that waits is released although
\* nobody looks.
ImplementsGate == Gate!Spec

\* "Approve or deny within 90s to continue": while the daemon runs no request
\* expires before that time is over.
OpenForTheWait ==
    \A a \in Approvals : running /\ outcome[a] = "expired" => age[a] >= Wait
=============================================================================
