----------------------------- MODULE PageScript -----------------------------
(***************************************************************************)
(* The extension's script in a chat page:                                  *)
(* packages/v2-extension/src/lib/fetch-patch.ts and auto-continue.ts.      *)
(*                                                                         *)
(* The script replaces the page's fetch.  Results of tool calls come as     *)
(* batches; after a debounce they are appended to the body of the request   *)
(* seen last, which is sent again (an auto-continue), or they wait for the  *)
(* page's next request.  A body is modelled by whether it has a messages    *)
(* array and by the batches appended to it.  What a fetch does up to        *)
(* originalFetch runs in one turn of the event loop.                        *)
(***************************************************************************)
EXTENDS Integers, Sequences, Functions, Bridge

CONSTANTS
    Foreign,       \* batches that are broadcast for a chat of another adapter
    Fetches,       \* calls of fetch that an adapter matches
    MaxContinues   \* MAX_AUTO_CONTINUES

ASSUME ForeignBatches == Foreign \subseteq Batches
ASSUME MaxNat == MaxContinues \in Nat

VARIABLES
    inflight,   \* autoContinueInflight
    count,      \* __deckagent_auto_continue.count
    timer,      \* the batch debounceTimer is armed for
    pending,    \* __deckagent_pending_results of the page's own adapter,
    parked,     \* and of another one, which no request of this page takes
    last,       \* __deckagent_last_request
    fetch,      \* each fetch: whether it is an auto-continue, of which batch,
                \* and the request it sent
    state,      \* how far each fetch is
    batch,      \* what became of each batch
    autos       \* auto-continues since the last chat request of the page

pageVars ==
    <<inflight, count, timer, pending, parked, last, fetch, state, batch, autos>>

Bodies == [chat : BOOLEAN, results : Seq(Batches)]

NoBody == [chat |-> FALSE, results |-> <<>>]

PageTypeOK ==
    /\ inflight \in BOOLEAN
    /\ count \in Nat
    /\ timer \in Batches \union {None}
    /\ pending \in Seq(Batches \ Foreign) /\ parked \subseteq Foreign
    /\ last = None \/ last \in Bodies
    /\ fetch \in [Fetches -> [of : Batches \union {None}, body : Bodies]]
    /\ state \in [Fetches -> {"none", "sent", "answered", "failed"}]
    /\ batch \in [Batches -> {"none", "ok", "error"}]
    /\ autos \in Nat

\* setupMainWorld
PageInit ==
    /\ inflight = FALSE /\ count = 0
    /\ timer = None /\ pending = <<>> /\ parked = {} /\ last = None
    /\ fetch = [f \in Fetches |-> [of |-> None, body |-> NoBody]]
    /\ state = [f \in Fetches |-> "none"]
    /\ batch = [b \in Batches |-> "none"]
    /\ autos = 0

-----------------------------------------------------------------------------

\* appendToolResult leaves a body without messages as it is.
Appended(body, bs) ==
    IF body.chat THEN [body EXCEPT !.results = @ \o bs] ELSE body

\* storePendingResult
StorePending(b) ==
    IF b \in Foreign
    THEN parked' = parked \union {b} /\ UNCHANGED pending
    ELSE pending' = Append(pending, b) /\ UNCHANGED parked

\* applyPendingResults.  drainPendingResults takes those of the page's adapter.
WithPending(body) == Appended(body, pending)

\* patchedFetch up to originalFetch, of a request with the given body: the
\* pending results go into it, whatever it is, and it becomes the last one.
SendRequest(f, of, body) ==
    LET sent == WithPending(body) IN
    /\ state[f] = "none"
    /\ state' = [state EXCEPT ![f] = "sent"]
    /\ fetch' = [fetch EXCEPT ![f] = [of |-> of, body |-> sent]]
    /\ last' = sent

\* recordAutoContinue while an auto-continue is out, else resetAutoContinue for
\* a request with messages.
CountRequest(chat) ==
    count' = IF inflight THEN count + 1 ELSE IF chat THEN 0 ELSE count

PageFetch_KeepsPending(f, chat) ==
    /\ SendRequest(f, None, [chat |-> chat, results |-> <<>>])
    /\ pending' = pending
    /\ CountRequest(chat)
    /\ autos' = IF chat THEN 0 ELSE autos
    /\ UNCHANGED <<inflight, timer, parked, batch>>

\* The page sends a request, for the user's next turn (chat) or for anything
\* else on the adapter's host.  While an auto-continue is out it counts as one.
PageFetch(f, chat) ==
    /\ SendRequest(f, None, [chat |-> chat, results |-> <<>>])
    /\ pending' = <<>>
    /\ CountRequest(chat)
    /\ autos' = IF chat THEN 0 ELSE autos
    /\ UNCHANGED <<inflight, timer, parked, batch>>

\* listenForBridgeResults and scheduleAutoResubmit: a batch's timer replaces
\* the one of the batch before.
Scheduled(b, ok) ==
    /\ batch[b] = "none"
    /\ batch' = [batch EXCEPT ![b] = IF ok THEN "ok" ELSE "error"]
    /\ timer' = b
    /\ UNCHANGED <<inflight, count, pending, parked, last, fetch, state, autos>>

\* decideAutoContinue
Resubmit(b) ==
    /\ batch[b] = "ok" /\ count < MaxContinues
    /\ last # None /\ last.chat

\* queueResultsForManualSend
Queue(b) ==
    /\ timer = b /\ timer' = None
    /\ ~ Resubmit(b)
    /\ StorePending(b)
    /\ UNCHANGED <<inflight, count, last, fetch, state, batch, autos>>

AutoContinue_FlagAfter(f, b) ==
    /\ timer = b /\ timer' = None
    /\ Resubmit(b)
    /\ inflight' = TRUE
    /\ count' = IF inflight THEN count + 1 ELSE 0
    /\ autos' = autos + 1
    /\ SendRequest(f, b, Appended(last, <<b>>))
    /\ pending' = <<>>
    /\ UNCHANGED <<parked, batch>>

\* tryAutoResubmit up to the fetch it awaits: the flag makes the patched fetch
\* count it.
AutoContinue(f, b) ==
    /\ timer = b /\ timer' = None
    /\ Resubmit(b)
    /\ inflight' = TRUE
    /\ count' = count + 1
    /\ autos' = autos + 1
    /\ SendRequest(f, b, Appended(last, <<b>>))
    /\ pending' = <<>>
    /\ UNCHANGED <<parked, batch>>

\* The rest of patchedFetch, and of tryAutoResubmit when it awaits the fetch.
Respond(f) ==
    /\ state[f] = "sent"
    /\ state' = [state EXCEPT ![f] = "answered"]
    /\ inflight' = IF fetch[f].of # None THEN FALSE ELSE inflight
    /\ UNCHANGED <<count, timer, pending, parked, last, fetch, batch, autos>>

Fail_Forgets(f) ==
    /\ state[f] = "sent"
    /\ state' = [state EXCEPT ![f] = "failed"]
    /\ inflight' = IF fetch[f].of # None THEN FALSE ELSE inflight
    /\ UNCHANGED <<count, timer, pending, parked, last, fetch, batch, autos>>

\* originalFetch throws: an auto-continue queues its own batch again.
Fail(f) ==
    /\ state[f] = "sent"
    /\ state' = [state EXCEPT ![f] = "failed"]
    /\ IF fetch[f].of # None
       THEN inflight' = FALSE /\ StorePending(fetch[f].of)
       ELSE UNCHANGED <<inflight, pending, parked>>
    /\ UNCHANGED <<count, timer, last, fetch, batch, autos>>

PageNext ==
    \/ \E f \in Fetches, chat \in BOOLEAN : PageFetch(f, chat)
    \/ \E b \in Batches, ok \in BOOLEAN : Scheduled(b, ok)
    \/ \E b \in Batches : Queue(b) \/ \E f \in Fetches : AutoContinue(f, b)
    \/ \E f \in Fetches : Respond(f) \/ Fail(f)

PageSpec == PageInit /\ [][PageNext]_pageVars

-----------------------------------------------------------------------------
(* Properties.                                                             *)

\* auto-continue.ts:3: between two chat requests of the page there are at most
\* MaxContinues auto-continues, however these, the page's requests and late
\* batches overlap while flag and count are shared.
CapPerTurn == autos <= MaxContinues

\* A request never carries a batch twice, unless an auto-continue with it
\* failed: that one stays the last request while its batch is queued again.
SentOnce ==
    \A f \in Fetches : \A i, j \in 1..Len(fetch[f].body.results) :
      (i # j /\ fetch[f].body.results[i] = fetch[f].body.results[j]) =>
        \E g \in Fetches : /\ fetch[g].of = fetch[f].body.results[i]
                           /\ state[g] = "failed"

\* The results of b are still due, or in a chat request that did not fail.
Alive(b) ==
    \/ timer = b
    \/ b \in Range(pending) \union parked
    \/ \E f \in Fetches : /\ state[f] \in {"sent", "answered"}
                          /\ b \in Range(fetch[f].body.results)

\* A later batch takes its timer, or a request without messages takes it from
\* the queue, or the request that took it from the queue fails.
KnownLoss(b) ==
    \/ timer = b /\ timer' \notin {b, None}
    \/ /\ b \in Range(pending)
       /\ \E f \in Fetches : /\ state[f] = "none" /\ state'[f] = "sent"
                              /\ ~ fetch'[f].body.chat
    \/ \E f \in Fetches :
          /\ state[f] = "sent" /\ state'[f] = "failed"
          /\ b \in Range(fetch[f].body.results) /\ fetch[f].of # b

\* Results that arrived are lost in these ways only.  In particular the batch of
\* an auto-continue outlives its failure.
LossesAreKnown ==
    [][\A b \in Batches : Alive(b) /\ ~ Alive(b)' => KnownLoss(b)]_pageVars

\* The overlay of queued results (fetch-patch.ts:312): "Results will be
\* appended to the next chat request."  They leave the queue for no other
\* request.
QueuedReachChat ==
    [][\A b \in Batches :
         (b \in Range(pending) /\ b \notin Range(pending')) =>
            \E f \in Fetches : /\ state[f] = "none" /\ state'[f] = "sent"
                               /\ b \in Range(fetch'[f].body.results)]_pageVars

\* auto-continue.ts:6: the debounce is there "to coalesce rapid tool_result
\* batches before resubmitting": a batch whose timer is replaced is still due.
BatchesCoalesce ==
    [][\A b \in Batches : timer = b /\ timer' # b => Alive(b)']_pageVars
=============================================================================
