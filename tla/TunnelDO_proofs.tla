-------------------------- MODULE TunnelDO_proofs --------------------------
(***************************************************************************)
(* Theorems about TunnelDO, for any sockets, requests and chunk bound.     *)
(***************************************************************************)
EXTENDS TunnelDO, TLAPS

\* The facts about sequences the provers need: what a reply appended to an
\* unanswered request is, and that it stays a sequence of replies.
LEMMA FirstReply ==
    ASSUME NEW a
    PROVE  /\ Append(<<>>, a) = <<a>>
           /\ Len(<<a>>) = 1
           /\ <<a>> # <<>>
  OBVIOUS

LEMMA AppendType ==
    ASSUME NEW S, NEW q \in Seq(S), NEW e \in S
    PROVE  Append(q, e) \in Seq(S)
  OBVIOUS

LEMMA EmptyType == \A S : <<>> \in Seq(S)
  OBVIOUS

\* A chunk that may still arrive is a chunk.
LEMMA NextChunk ==
    ASSUME NEW n \in 0..MaxChunks, n < MaxChunks
    PROVE  n + 1 \in Chunk /\ n + 1 \in 0..MaxChunks
  BY ChunkBound DEF Chunk

-----------------------------------------------------------------------------
LEMMA TypeInit == Init => TypeOK
  BY EmptyType, ChunkBound
  DEF Init, TypeOK, LinkStates, AuthStates

\* cleanupWebSocket keeps the types of what it touches.
LEMMA CleanupType ==
    ASSUME TypeOK, CleanupWebSocket
    PROVE  /\ ws' = None /\ deviceId' = None /\ sessionId' = None
           /\ pending' \subseteq Requests /\ timers' \subseteq Requests
           /\ chunks' \in [Requests -> Seq(Chunk)]
           /\ replies' \in [Requests -> Seq(Replies)]
  <1>1. \A r \in Requests : Append(replies[r], "offline") \in Seq(Replies)
    BY AppendType DEF TypeOK, Replies
  <1>2. QED
    BY <1>1, EmptyType DEF TypeOK, CleanupWebSocket

LEMMA TypeSocket ==
    ASSUME TypeOK, NEW s \in Sockets, SocketStep(s)
    PROVE  TypeOK'
  <1> USE DEF TypeOK, sessionVars, pendingVars, socketVars, clientVars,
              daemonVars, LinkStates, AuthStates
  <1>1. CASE Accept(s)
    BY <1>1 DEF Accept
  <1>2. CASE LinkLost(s)
    BY <1>2 DEF LinkLost
  <1>3. CASE SocketError(s)
    BY <1>3, CleanupType DEF SocketError
  <1>4. CASE SocketClose(s)
    BY <1>4, CleanupType DEF SocketClose
  <1>5. CASE ReceiveAuth(s)
    BY <1>5 DEF ReceiveAuth, Refuse, Tell
  <1>6. CASE VerifyAuth(s)
    BY <1>6 DEF VerifyAuth, Authenticated, Refuse, HandlerThrows, Tell
  <1>7. CASE FinishAuth(s)
    BY <1>7 DEF FinishAuth, Tell
  <1>8. CASE ReceiveHeartbeat(s)
    BY <1>8 DEF ReceiveHeartbeat
  <1>9. CASE FinishHeartbeat(s)
    BY <1>9 DEF FinishHeartbeat, Tell
  <1>10. ASSUME NEW r \in Requests, Receive(s, r) PROVE TypeOK'
    BY <1>10 DEF Receive
  <1>11. QED
    BY <1>1, <1>2, <1>3, <1>4, <1>5, <1>6, <1>7, <1>8, <1>9, <1>10
    DEF SocketStep

LEMMA TypeRequest ==
    ASSUME TypeOK, NEW r \in Requests, RequestStep(r)
    PROVE  TypeOK'
  <1> USE DEF TypeOK, sessionVars, pendingVars, socketVars, clientVars,
              daemonVars
  <1>a. \A a \in Replies : Append(replies[r], a) \in Seq(Replies)
    BY AppendType
  <1>1. CASE RefuseCall(r)
    BY <1>1, <1>a DEF RefuseCall, Replies
  <1>2. CASE ForwardCall(r)
    <2>1. <<ws, r>> \in Sockets \X Requests
      BY <1>2 DEF ForwardCall
    <2>2. wire' \subseteq Sockets \X Requests
      BY <1>2, <2>1 DEF ForwardCall, SendWorks, SendFails
    <2>3. replies' \in [Requests -> Seq(Replies)]
      <3>1. Append(replies[r], "refused") \in Seq(Replies)
        BY <1>a DEF Replies
      <3>2. QED
        BY <1>2, <3>1 DEF ForwardCall, SendWorks, SendFails
    <2>4. pending' \subseteq Requests /\ timers' \subseteq Requests
      BY <1>2 DEF ForwardCall, SendWorks, SendFails
    <2>5. QED
      BY <1>2, <2>2, <2>3, <2>4 DEF ForwardCall
  <1>3. CASE Timeout(r)
    BY <1>3, <1>a, EmptyType DEF Timeout, Replies
  <1>4. CASE Progress(r)
    <2>1. arrived[r] + 1 \in Chunk /\ arrived[r] + 1 \in 0..MaxChunks
      BY <1>4, NextChunk DEF Progress
    <2>2. /\ Append(chunks[r], arrived[r] + 1) \in Seq(Chunk)
          /\ Append(delivered[r], arrived[r] + 1) \in Seq(Chunk)
      BY <2>1, AppendType
    <2>3. QED
      BY <1>4, <2>1, <2>2 DEF Progress
  <1>5. CASE AnswerLost(r)
    BY <1>5 DEF AnswerLost
  <1>6. ASSUME NEW a \in Answers, DaemonAnswers(r, a) PROVE TypeOK'
    <2>1. CASE r \in pending
      <3>1. Append(replies[r], a) \in Seq(Replies)
        BY <1>a DEF Replies
      <3>2. replies' \in [Requests -> Seq(Replies)]
        BY <1>6, <2>1, <3>1 DEF DaemonAnswers, Resolve
      <3>3. delivered' \in [Requests -> Seq(Chunk)]
        BY <1>6, <2>1 DEF DaemonAnswers, Resolve, Merged
      <3>4. pending' \subseteq Requests /\ timers' \subseteq Requests
        BY <1>6, <2>1 DEF DaemonAnswers, Resolve
      <3>5. chunks' = [chunks EXCEPT ![r] = <<>>]
        BY <1>6, <2>1 DEF DaemonAnswers, Resolve
      <3>6. chunks' \in [Requests -> Seq(Chunk)]
        BY <3>5, EmptyType
      <3>7. job' \in [Requests -> {"none", "running", "done"}]
        BY <1>6 DEF DaemonAnswers
      <3>8. QED
        BY <1>6, <3>2, <3>3, <3>4, <3>6, <3>7 DEF DaemonAnswers
    <2>2. CASE r \notin pending
      BY <1>6, <2>2 DEF DaemonAnswers, Resolve
    <2>3. QED
      BY <2>1, <2>2
  <1>7. QED
    BY <1>1, <1>2, <1>3, <1>4, <1>5, <1>6 DEF RequestStep

\* Every state of the object has the shape TypeOK gives it.
THEOREM TypeCorrect == Spec => []TypeOK
  <1>1. ASSUME TypeOK, [Next]_vars PROVE TypeOK'
    <2>1. CASE Next
      BY <1>1, <2>1, TypeSocket, TypeRequest DEF Next
    <2>2. CASE UNCHANGED vars
      BY <1>1, <2>2
      DEF TypeOK, vars, sessionVars, pendingVars, socketVars, clientVars,
          daemonVars
    <2>3. QED
      BY <1>1, <2>1, <2>2
  <1>2. QED
    BY <1>1, TypeInit, PTL DEF Spec

-----------------------------------------------------------------------------
(* One answer per request.                                                 *)

LEMMA IInit == Init => IInv
  <1> SUFFICES ASSUME Init PROVE IInv
    OBVIOUS
  <1>1. TypeOK
    BY TypeInit
  <1>2. PendingUntilAnswered
    BY DEF Init, PendingUntilAnswered
  <1>3. OneReply /\ NothingBeforeTheCall /\ DaemonHasOnlyForwarded
    BY DEF Init, OneReply, NothingBeforeTheCall, DaemonHasOnlyForwarded
  <1>4. QED
    BY <1>1, <1>2, <1>3 DEF IInv

\* What a step may do to the clients' side of the requests: nothing, or give
\* one pending request, one new request or all pending ones a first reply.
Settles(rs, a) ==
    /\ rs \subseteq pending
    /\ pending' = pending \ rs
    /\ timers' = timers \ rs
    /\ called' = called
    /\ replies' = [r \in Requests |-> IF r \in rs THEN Append(replies[r], a)
                                                ELSE replies[r]]

\* Settling requests with anything but a refusal keeps the invariant, if the
\* daemon learns of no request that was not forwarded.
LEMMA SettlesKeeps ==
    ASSUME IInv, TypeOK', NEW rs \in SUBSET Requests, NEW a \in Replies \ {"refused"},
           Settles(rs, a),
           wire' \subseteq wire,
           \A r \in Requests : job'[r] # "none" => job[r] # "none"
    PROVE  IInv'
  <1> USE DEF IInv
  <1>1. \A r \in rs : replies[r] = <<>> /\ r \in called
    BY DEF PendingUntilAnswered, Settles
  <1>2. \A r \in Requests : replies'[r] = IF r \in rs THEN <<a>> ELSE replies[r]
    BY <1>1, FirstReply DEF Settles
  <1>a. <<a>> # <<>> /\ Len(<<a>>) = 1
    BY FirstReply
  <1>3. PendingUntilAnswered'
    <2>1. \A r \in Requests : replies'[r] = <<>> <=> replies[r] = <<>> /\ r \notin rs
      BY <1>1, <1>2, <1>a
    <2>2. called \subseteq Requests
      BY DEF TypeOK
    <2>3. {r \in called : replies'[r] = <<>>} = {r \in called : replies[r] = <<>>} \ rs
      BY <2>1, <2>2
    <2>4. QED
      BY <2>3 DEF PendingUntilAnswered, Settles
  <1>4. OneReply'
    <2>1. \A r \in Requests : replies'[r] = <<a>> \/ replies'[r] = replies[r]
      BY <1>2
    <2>2. ASSUME NEW r \in Requests PROVE Len(replies'[r]) <= 1
      <3>1. CASE replies'[r] = <<a>>
        <4>1. Len(replies'[r]) = 1
          BY <3>1, <1>a
        <4>2. QED
          BY <4>1
      <3>2. CASE replies'[r] = replies[r]
        BY <3>2 DEF OneReply
      <3>3. QED
        BY <2>1, <3>1, <3>2
    <2>3. QED
      BY <2>2 DEF OneReply
  <1>5. NothingBeforeTheCall'
    BY <1>1, <1>2 DEF NothingBeforeTheCall, Settles
  <1>6. <<a>> # <<"refused">>
    <2>1. a # "refused" /\ <<a>>[1] = a /\ <<"refused">>[1] = "refused"
      OBVIOUS
    <2>2. QED
      BY <2>1
  <1>7. DaemonHasOnlyForwarded'
    <2> SUFFICES ASSUME NEW r \in Requests,
                        job'[r] # "none" \/ \E s \in Sockets : <<s, r>> \in wire'
                 PROVE  r \in called' /\ replies'[r] # <<"refused">>
      BY DEF DaemonHasOnlyForwarded
    <2>1. r \in called /\ replies[r] # <<"refused">>
      BY DEF DaemonHasOnlyForwarded
    <2>2. QED
      BY <1>2, <1>6, <2>1 DEF Settles
  <1>8. QED
    BY <1>3, <1>4, <1>5, <1>7

LEMMA TypeStep == ASSUME TypeOK, [Next]_vars PROVE TypeOK'
  <1>1. CASE Next
    BY <1>1, TypeSocket, TypeRequest DEF Next
  <1>2. CASE UNCHANGED vars
    BY <1>2
    DEF TypeOK, vars, sessionVars, pendingVars, socketVars, clientVars,
        daemonVars
  <1>3. QED
    BY <1>1, <1>2

\* A step that settles nothing.
LEMMA QuietKeeps ==
    ASSUME IInv, TypeOK', UNCHANGED <<pending, timers, called, replies>>,
           wire' \subseteq wire,
           \A r \in Requests : job'[r] # "none" => job[r] # "none"
    PROVE  IInv'
  <1>1. PendingUntilAnswered' /\ OneReply' /\ NothingBeforeTheCall'
    BY DEF IInv, PendingUntilAnswered, OneReply, NothingBeforeTheCall
  <1>2. DaemonHasOnlyForwarded'
    BY DEF IInv, DaemonHasOnlyForwarded
  <1>3. QED
    BY <1>1, <1>2 DEF IInv

LEMMA CleanupSettles ==
    ASSUME IInv, CleanupWebSocket, UNCHANGED called
    PROVE  Settles(pending, "offline")
  BY DEF IInv, PendingUntilAnswered, CleanupWebSocket, Settles

LEMMA IInvSocket ==
    ASSUME IInv, TypeOK', NEW s \in Sockets, SocketStep(s)
    PROVE  IInv'
  <1> USE DEF sessionVars, pendingVars, socketVars, clientVars, daemonVars
  <1>1. CASE Accept(s)
    BY <1>1, QuietKeeps DEF Accept
  <1>2. CASE LinkLost(s)
    BY <1>2, QuietKeeps DEF LinkLost
  <1>a. pending \in SUBSET Requests /\ "offline" \in Replies \ {"refused"}
    BY DEF IInv, TypeOK, Replies
  <1>3. CASE SocketError(s)
    BY <1>3, <1>a, CleanupSettles, SettlesKeeps DEF SocketError
  <1>4. CASE SocketClose(s)
    BY <1>4, <1>a, CleanupSettles, SettlesKeeps DEF SocketClose
  <1>5. CASE ReceiveAuth(s)
    BY <1>5, QuietKeeps DEF ReceiveAuth
  <1>6. CASE VerifyAuth(s)
    BY <1>6, QuietKeeps DEF VerifyAuth
  <1>7. CASE FinishAuth(s)
    BY <1>7, QuietKeeps DEF FinishAuth
  <1>8. CASE ReceiveHeartbeat(s)
    BY <1>8, QuietKeeps DEF ReceiveHeartbeat
  <1>9. CASE FinishHeartbeat(s)
    BY <1>9, QuietKeeps DEF FinishHeartbeat
  <1>10. ASSUME NEW r \in Requests, Receive(s, r) PROVE IInv'
    <2>1. r \in called /\ replies[r] # <<"refused">>
      BY <1>10 DEF Receive, IInv, DaemonHasOnlyForwarded
    <2>2. /\ UNCHANGED <<pending, timers, called, replies>>
          /\ wire' \subseteq wire
          /\ \A q \in Requests : q # r => job'[q] = job[q]
      BY <1>10 DEF Receive, IInv, TypeOK
    <2>3. PendingUntilAnswered' /\ OneReply' /\ NothingBeforeTheCall'
      BY <2>2 DEF IInv, PendingUntilAnswered, OneReply, NothingBeforeTheCall
    <2>4. DaemonHasOnlyForwarded'
      BY <2>1, <2>2 DEF IInv, DaemonHasOnlyForwarded
    <2>5. QED
      BY <2>3, <2>4 DEF IInv
  <1>11. QED
    BY <1>1, <1>2, <1>3, <1>4, <1>5, <1>6, <1>7, <1>8, <1>9, <1>10
    DEF SocketStep

\* A request the daemon never hears of: received and answered in one step.
LEMMA RefusalKeeps ==
    ASSUME IInv, TypeOK', NEW r \in Requests, r \notin called,
           called' = called \union {r},
           replies' = [replies EXCEPT ![r] = Append(@, "refused")],
           UNCHANGED <<pending, timers, wire, job>>
    PROVE  IInv'
  <1> USE DEF IInv
  <1>1. /\ replies[r] = <<>> /\ job[r] = "none"
        /\ \A s \in Sockets : <<s, r>> \notin wire
    BY DEF NothingBeforeTheCall, DaemonHasOnlyForwarded
  <1>2. /\ replies'[r] = <<"refused">>
        /\ \A q \in Requests : q # r => replies'[q] = replies[q]
    BY <1>1, FirstReply DEF TypeOK
  <1>3. <<"refused">> # <<>> /\ Len(<<"refused">>) = 1
    BY FirstReply
  <1>4. PendingUntilAnswered'
    BY <1>2, <1>3 DEF PendingUntilAnswered, TypeOK
  <1>5. OneReply'
    <2>1. Len(replies'[r]) = 1
      BY <1>2, <1>3
    <2>2. ASSUME NEW q \in Requests, q # r PROVE Len(replies'[q]) <= 1
      BY <1>2, <2>2 DEF OneReply
    <2>3. QED
      BY <2>1, <2>2 DEF OneReply
  <1>6. NothingBeforeTheCall'
    BY <1>2 DEF NothingBeforeTheCall
  <1>7. DaemonHasOnlyForwarded'
    BY <1>1, <1>2 DEF DaemonHasOnlyForwarded
  <1>8. QED
    BY <1>4, <1>5, <1>6, <1>7

LEMMA IInvRequest ==
    ASSUME IInv, TypeOK', NEW r \in Requests, RequestStep(r)
    PROVE  IInv'
  <1> USE DEF sessionVars, pendingVars, socketVars, clientVars, daemonVars
  <1>a. TypeOK /\ PendingUntilAnswered /\ OneReply /\ NothingBeforeTheCall
        /\ DaemonHasOnlyForwarded
    BY DEF IInv
  <1>1. CASE RefuseCall(r)
    BY <1>1, RefusalKeeps DEF RefuseCall
  <1>2. CASE ForwardCall(r)
    <2>1. CASE SendFails(r)
      BY <1>2, <2>1, RefusalKeeps DEF ForwardCall, SendFails
    <2>2. CASE SendWorks(r)
      <3>1. /\ r \notin called /\ called' = called \union {r}
            /\ pending' = pending \union {r} /\ timers' = timers \union {r}
            /\ replies' = replies /\ job' = job
            /\ wire' \subseteq wire \union {<<ws, r>>}
        BY <1>2, <2>2 DEF ForwardCall, SendWorks
      <3>2. replies[r] = <<>> /\ <<>> # <<"refused">>
        BY <1>a, <3>1, FirstReply DEF NothingBeforeTheCall
      <3>3. PendingUntilAnswered'
        BY <1>a, <3>1, <3>2 DEF PendingUntilAnswered
      <3>4. OneReply' /\ NothingBeforeTheCall'
        BY <1>a, <3>1 DEF OneReply, NothingBeforeTheCall
      <3>5. DaemonHasOnlyForwarded'
        BY <1>a, <3>1, <3>2 DEF DaemonHasOnlyForwarded
      <3>6. QED
        BY <3>3, <3>4, <3>5 DEF IInv
    <2>3. QED
      BY <1>2, <2>1, <2>2 DEF ForwardCall
  <1>3. CASE Timeout(r)
    <2>1. {r} \in SUBSET Requests /\ "timeout" \in Replies \ {"refused"}
      BY DEF Replies
    <2>2. Settles({r}, "timeout")
      BY <1>3, <1>a DEF Timeout, Settles, TypeOK, PendingUntilAnswered
    <2>3. QED
      BY <1>3, <2>1, <2>2, SettlesKeeps DEF Timeout
  <1>4. CASE Progress(r)
    BY <1>4, QuietKeeps DEF Progress
  <1>5. CASE AnswerLost(r)
    BY <1>5, <1>a, QuietKeeps DEF AnswerLost, TypeOK
  <1>6. ASSUME NEW a \in Answers, DaemonAnswers(r, a) PROVE IInv'
    <2>a. /\ \A q \in Requests : job'[q] # "none" => job[q] # "none"
          /\ wire' \subseteq wire /\ called' = called
      BY <1>6, <1>a DEF DaemonAnswers, TypeOK
    <2>1. CASE r \in pending
      <3>1. {r} \in SUBSET Requests /\ a \in Replies \ {"refused"}
        BY DEF Replies, Answers
      <3>2. Settles({r}, a)
        BY <1>6, <2>1, <2>a, <1>a DEF DaemonAnswers, Resolve, Settles, TypeOK
      <3>3. QED
        BY <2>a, <3>1, <3>2, SettlesKeeps
    <2>2. CASE r \notin pending
      BY <1>6, <2>2, <2>a, QuietKeeps DEF DaemonAnswers, Resolve
    <2>3. QED
      BY <2>1, <2>2
  <1>7. QED
    BY <1>1, <1>2, <1>3, <1>4, <1>5, <1>6 DEF RequestStep

LEMMA IInvStep == ASSUME IInv, [Next]_vars PROVE IInv'
  <1>1. TypeOK'
    BY TypeStep DEF IInv
  <1>2. CASE Next
    BY <1>1, <1>2, IInvSocket, IInvRequest DEF Next
  <1>3. CASE UNCHANGED vars
    BY <1>1, <1>3, QuietKeeps
    DEF vars, pendingVars, clientVars, daemonVars
  <1>4. QED
    BY <1>2, <1>3

\* The inductive invariant holds in every state.
THEOREM Inductive == Spec => []IInv
  BY IInit, IInvStep, PTL DEF Spec

\* Of timer, late answer, lost connection and failed send only one answers a
\* request.
THEOREM AtMostOneReply == Spec => []OneReply
  <1>1. IInv => OneReply
    BY DEF IInv
  <1>2. QED
    BY <1>1, Inductive, PTL

\* No request is dropped from the pending maps unanswered, none keeps a timer
\* after its answer.
THEOREM NoneForgotten == Spec => []PendingUntilAnswered
  <1>1. IInv => PendingUntilAnswered
    BY DEF IInv
  <1>2. QED
    BY <1>1, Inductive, PTL

-----------------------------------------------------------------------------
(* Nothing is added to an answered request.                                *)

LEMMA FinalStep ==
    ASSUME IInv, Next, NEW q \in Requests, replies[q] # <<>>
    PROVE  replies'[q] = replies[q] /\ delivered'[q] = delivered[q]
  <1> USE DEF sessionVars, pendingVars, socketVars, clientVars, daemonVars
  <1>a. q \notin pending /\ q \notin timers /\ q \in called
    BY DEF IInv, PendingUntilAnswered, NothingBeforeTheCall
  <1>b. /\ replies \in [Requests -> Seq(Replies)]
        /\ delivered \in [Requests -> Seq(Chunk)]
    BY DEF IInv, TypeOK
  <1>1. ASSUME NEW s \in Sockets, SocketStep(s)
        PROVE  replies'[q] = replies[q] /\ delivered'[q] = delivered[q]
    <2>1. CASE SocketError(s) \/ SocketClose(s)
      BY <2>1, <1>a, <1>b DEF SocketError, SocketClose, CleanupWebSocket
    <2>2. CASE ~(SocketError(s) \/ SocketClose(s))
      BY <1>1, <2>2
      DEF SocketStep, Accept, LinkLost, ReceiveAuth, VerifyAuth, FinishAuth,
          ReceiveHeartbeat, FinishHeartbeat, Receive
    <2>3. QED
      BY <2>1, <2>2
  <1>2. ASSUME NEW r \in Requests, RequestStep(r)
        PROVE  replies'[q] = replies[q] /\ delivered'[q] = delivered[q]
    <2>1. CASE RefuseCall(r)
      BY <2>1, <1>a, <1>b DEF RefuseCall
    <2>2. CASE ForwardCall(r)
      BY <2>2, <1>a, <1>b DEF ForwardCall, SendWorks, SendFails
    <2>3. CASE Timeout(r)
      BY <2>3, <1>a, <1>b DEF Timeout
    <2>4. CASE Progress(r)
      BY <2>4, <1>a, <1>b DEF Progress
    <2>5. CASE AnswerLost(r)
      BY <2>5 DEF AnswerLost
    <2>6. ASSUME NEW a \in Answers, DaemonAnswers(r, a)
          PROVE  replies'[q] = replies[q] /\ delivered'[q] = delivered[q]
      <3>1. CASE r \in pending
        BY <2>6, <3>1, <1>a, <1>b DEF DaemonAnswers, Resolve, Merged
      <3>2. CASE r \notin pending
        BY <2>6, <3>2 DEF DaemonAnswers, Resolve
      <3>3. QED
        BY <3>1, <3>2
    <2>7. QED
      BY <1>2, <2>1, <2>2, <2>3, <2>4, <2>5, <2>6 DEF RequestStep
  <1>3. QED
    BY <1>1, <1>2 DEF Next

\* What a client has received of an answered request never changes again.
THEOREM AnsweredStaysAnswered == Spec => AnswerIsFinal
  <1>1. ASSUME IInv, [Next]_vars
        PROVE  [\A r \in Requests :
                  replies[r] # <<>> => /\ replies'[r] = replies[r]
                                       /\ delivered'[r] = delivered[r]]_vars
    BY <1>1, FinalStep
  <1>2. QED
    BY <1>1, Inductive, PTL DEF Spec, AnswerIsFinal

-----------------------------------------------------------------------------
(* The session.                                                            *)

LEMMA SessionInit == Init => SessionInv
  BY TypeInit DEF Init, SessionInv, SessionWhole, NoOrphans

LEMMA SessionStep ==
    ASSUME SessionInv, [Next]_vars
    PROVE  SessionInv'
  <1> USE DEF sessionVars, pendingVars, socketVars, clientVars, daemonVars,
              SessionInv, SessionWhole, NoOrphans
  <1>a. TypeOK'
    BY TypeStep
  <1>b. ws # None => ws \in Sockets /\ auth[ws] \notin {"none", "verifying"}
    BY DEF TypeOK
  <1>1. ASSUME NEW s \in Sockets, SocketStep(s) PROVE SessionInv'
    <2>1. CASE SocketError(s) \/ SocketClose(s)
      BY <2>1, <1>a DEF SocketError, SocketClose, CleanupWebSocket
    <2>2. CASE Accept(s) \/ LinkLost(s)
      BY <2>2, <1>a DEF Accept, LinkLost
    <2>3. CASE ReceiveAuth(s)
      <3>1. s # ws /\ UNCHANGED <<sessionVars, pendingVars>>
        BY <2>3, <1>b, NoneIsNoValue DEF ReceiveAuth
      <3>2. ws # None => auth'[ws] = auth[ws]
        BY <2>3, <3>1, <1>b DEF ReceiveAuth, Refuse, TypeOK
      <3>3. QED
        BY <3>1, <3>2, <1>a
    <2>4. CASE VerifyAuth(s)
      <3>1. s # ws /\ UNCHANGED pendingVars
        BY <2>4, <1>b, NoneIsNoValue DEF VerifyAuth
      <3>2. CASE Authenticated(s)
        <4>1. ws' = s /\ sessionId' = s /\ deviceId' = Device /\ pending' = pending
          BY <3>1, <3>2 DEF Authenticated
        <4>2. s # None /\ Device # None
          BY NoneIsNoValue
        <4>3. auth'[s] = "marking"
          BY <3>2 DEF Authenticated, TypeOK
        <4>4. QED
          BY <4>1, <4>2, <4>3, <1>a
      <3>3. CASE ~Authenticated(s)
        <4>1. UNCHANGED sessionVars
          BY <2>4, <3>3 DEF VerifyAuth, HandlerThrows
        <4>2. ws # None => auth'[ws] = auth[ws]
          <5>1. \/ auth' = auth
                \/ auth' = [auth EXCEPT ![s] = "refused"]
            BY <2>4, <3>3 DEF VerifyAuth, Refuse
          <5>2. QED
            BY <5>1, <3>1, <1>b DEF TypeOK
        <4>3. QED
          BY <3>1, <4>1, <4>2, <1>a
      <3>4. QED
        BY <3>2, <3>3
    <2>5. CASE FinishAuth(s)
      BY <2>5, <1>a DEF FinishAuth, TypeOK
    <2>6. CASE ReceiveHeartbeat(s) \/ FinishHeartbeat(s)
      BY <2>6, <1>a DEF ReceiveHeartbeat, FinishHeartbeat
    <2>7. CASE \E r \in Requests : Receive(s, r)
      BY <2>7, <1>a DEF Receive
    <2>8. QED
      BY <1>1, <2>1, <2>2, <2>3, <2>4, <2>5, <2>6, <2>7 DEF SocketStep
  <1>2. ASSUME NEW r \in Requests, RequestStep(r) PROVE SessionInv'
    <2>1. UNCHANGED sessionVars /\ auth' = auth
      BY <1>2
      DEF RequestStep, RefuseCall, ForwardCall, Timeout, Progress, AnswerLost,
          DaemonAnswers
    <2>2. ws = None => pending' \subseteq pending
      BY <1>2
      DEF RequestStep, RefuseCall, ForwardCall, Timeout, Progress, AnswerLost,
          DaemonAnswers, Resolve
    <2>3. QED
      BY <2>1, <2>2, <1>a
  <1>3. CASE UNCHANGED vars
    BY <1>3, <1>a DEF vars
  <1>4. QED
    BY <1>1, <1>2, <1>3 DEF Next

\* The session's fields agree and name an authenticated socket, whatever the
\* order of accepts, authentications, errors and closes.
THEOREM SessionAgrees == Spec => []SessionWhole
  <1>1. SessionInv => SessionWhole
    BY DEF SessionInv
  <1>2. QED
    BY <1>1, SessionInit, SessionStep, PTL DEF Spec

\* With no session nothing is pending.
THEOREM NoneOrphaned == Spec => []NoOrphans
  <1>1. SessionInv => NoOrphans
    BY DEF SessionInv
  <1>2. QED
    BY <1>1, SessionInit, SessionStep, PTL DEF Spec

-----------------------------------------------------------------------------
(* The object implements RemoteCall's safety part.                         *)

LEMMA PhaseIdle ==
    ASSUME NEW r \in Requests, r \notin called, replies[r] = <<>>
    PROVE  PhaseOf(r) = "idle"
  BY DEF PhaseOf

LEMMA PhaseWaiting ==
    ASSUME IInv, NEW r \in pending
    PROVE  PhaseOf(r) = "waiting"
  BY DEF PhaseOf, IInv, PendingUntilAnswered

\* A step that changes neither calls, pending requests, replies nor jobs is a
\* stuttering step of RemoteCall.
LEMMA QuietStutters ==
    ASSUME UNCHANGED <<called, pending, replies, job>>
    PROVE  UNCHANGED <<Phase, Ran>>
  BY DEF Phase, PhaseOf, Ran

\* Replies to some pending requests move just their phases.
LEMMA SettledPhases ==
    ASSUME IInv, NEW rs \in SUBSET pending, NEW a, NEW p,
           Settles(rs, a),
           \/ a \in {"result", "error"} /\ p = "answered"
           \/ a \in {"timeout", "offline"} /\ p = "failed"
    PROVE  /\ \A r \in rs : Phase[r] = "waiting"
           /\ Phase' = [r \in Requests |-> IF r \in rs THEN p ELSE Phase[r]]
  <1>1. \A r \in rs : r \in Requests /\ r \in called /\ replies[r] = <<>>
    BY DEF IInv, TypeOK, PendingUntilAnswered
  <1>2. \A r \in rs : Phase[r] = "waiting"
    BY <1>1, PhaseWaiting DEF Phase
  <1>3. ASSUME NEW r \in rs PROVE PhaseOf(r)' = p
    <2>1. replies'[r] = <<a>> /\ r \in called' /\ r \notin pending'
      BY <1>1, FirstReply DEF Settles
    <2>2. <<a>> # <<>>
      BY FirstReply
    <2>3. QED
      BY <2>1, <2>2 DEF PhaseOf
  <1>4. ASSUME NEW r \in Requests \ rs PROVE PhaseOf(r)' = PhaseOf(r)
    BY DEF PhaseOf, Settles
  <1>5. QED
    BY <1>2, <1>3, <1>4 DEF Phase

LEMMA CallInit == Init => Call!Init
  <1> SUFFICES ASSUME Init PROVE Call!Init
    OBVIOUS
  <1>1. Ran = {}
    BY DEF Init, Ran
  <1>2. \A r \in Requests : PhaseOf(r) = "idle"
    BY PhaseIdle DEF Init
  <1>3. QED
    BY <1>1, <1>2 DEF Call!Init, Phase

\* A refused request: RemoteCall's Refuse.
LEMMA RefusalStep ==
    ASSUME IInv, NEW r \in Requests, r \notin called,
           called' = called \union {r},
           replies' = [replies EXCEPT ![r] = Append(@, "refused")],
           UNCHANGED <<pending, job>>
    PROVE  Call!Refuse(r)
  <1>1. replies[r] = <<>> /\ r \notin pending
    BY DEF IInv, NothingBeforeTheCall, PendingUntilAnswered
  <1>2. /\ replies'[r] = <<"refused">> /\ <<"refused">> # <<>>
        /\ \A q \in Requests : q # r => replies'[q] = replies[q]
    BY <1>1, FirstReply DEF IInv, TypeOK
  <1>3. PhaseOf(r)' = "refused"
    BY <1>1, <1>2 DEF PhaseOf
  <1>4. \A q \in Requests : q # r => PhaseOf(q)' = PhaseOf(q)
    BY <1>2 DEF PhaseOf
  <1>5. Phase[r] = "idle" /\ Phase' = [Phase EXCEPT ![r] = "refused"]
    BY <1>1, <1>3, <1>4, PhaseIdle DEF Phase
  <1>6. QED
    BY <1>5 DEF Call!Refuse, Ran

\* Every step of the object is a step of RemoteCall, or stutters.
LEMMA CallStep ==
    ASSUME IInv, [Next]_vars
    PROVE  [Call!Next]_<<Phase, Ran>>
  <1> USE DEF sessionVars, pendingVars, socketVars, clientVars, daemonVars
  <1>1. ASSUME NEW s \in Sockets, SocketStep(s)
        PROVE  [Call!Next]_<<Phase, Ran>>
    <2>1. CASE SocketError(s) \/ SocketClose(s)
      <3>1. Settles(pending, "offline") /\ job' = job
        BY <2>1, CleanupSettles DEF SocketError, SocketClose
      <3>2. pending \in SUBSET Requests
        BY DEF IInv, TypeOK
      <3>3. Call!Fail(pending)
        BY <3>1, SettledPhases DEF Call!Fail, Ran
      <3>4. QED
        BY <3>2, <3>3 DEF Call!Next
    <2>2. ASSUME NEW r \in Requests, Receive(s, r)
          PROVE  [Call!Next]_<<Phase, Ran>>
      <3>1. /\ r \in called /\ replies[r] # <<"refused">>
            /\ UNCHANGED <<called, pending, replies>>
        BY <2>2 DEF Receive, IInv, DaemonHasOnlyForwarded
      <3>2. PhaseOf(r) \notin {"idle", "refused"} /\ Phase' = Phase
        BY <3>1 DEF PhaseOf, Phase
      <3>3. Ran' = Ran \union {r}
        BY <2>2 DEF Receive, Ran, IInv, TypeOK
      <3>4. CASE r \in Ran
        BY <3>2, <3>3, <3>4
      <3>5. CASE r \notin Ran
        BY <3>2, <3>3, <3>5 DEF Call!Next, Call!Run, Phase
      <3>6. QED
        BY <3>4, <3>5
    <2>3. CASE \/ Accept(s) \/ LinkLost(s) \/ ReceiveAuth(s) \/ VerifyAuth(s)
               \/ FinishAuth(s) \/ ReceiveHeartbeat(s) \/ FinishHeartbeat(s)
      <3>1. UNCHANGED <<called, pending, replies, job>>
        BY <2>3
        DEF Accept, LinkLost, ReceiveAuth, VerifyAuth, FinishAuth,
            ReceiveHeartbeat, FinishHeartbeat
      <3>2. QED
        BY <3>1, QuietStutters
    <2>4. QED
      BY <1>1, <2>1, <2>2, <2>3 DEF SocketStep
  <1>2. ASSUME NEW r \in Requests, RequestStep(r)
        PROVE  [Call!Next]_<<Phase, Ran>>
    <2>1. CASE RefuseCall(r)
      BY <2>1, RefusalStep DEF RefuseCall, Call!Next
    <2>2. CASE ForwardCall(r)
      <3>1. CASE SendFails(r)
        BY <2>2, <3>1, RefusalStep DEF ForwardCall, SendFails, Call!Next
      <3>2. CASE SendWorks(r)
        <4>1. /\ r \notin called /\ called' = called \union {r}
              /\ pending' = pending \union {r} /\ UNCHANGED <<replies, job>>
          BY <2>2, <3>2 DEF ForwardCall, SendWorks
        <4>2. replies[r] = <<>>
          BY <4>1 DEF IInv, NothingBeforeTheCall
        <4>3. PhaseOf(r)' = "waiting"
          BY <4>1, <4>2 DEF PhaseOf
        <4>4. \A q \in Requests : q # r => PhaseOf(q)' = PhaseOf(q)
          BY <4>1 DEF PhaseOf
        <4>5. Phase[r] = "idle" /\ Phase' = [Phase EXCEPT ![r] = "waiting"]
          BY <4>1, <4>2, <4>3, <4>4, PhaseIdle DEF Phase
        <4>6. QED
          BY <4>1, <4>5 DEF Call!Next, Call!Submit, Ran
      <3>3. QED
        BY <2>2, <3>1, <3>2 DEF ForwardCall
    <2>3. CASE Timeout(r)
      <3>1. Settles({r}, "timeout") /\ {r} \in SUBSET pending /\ job' = job
        BY <2>3 DEF Timeout, Settles, IInv, TypeOK, PendingUntilAnswered
      <3>2. Call!Fail({r})
        BY <3>1, SettledPhases DEF Call!Fail, Ran
      <3>3. QED
        BY <3>2 DEF Call!Next
    <2>4. CASE Progress(r)
      BY <2>4, QuietStutters DEF Progress
    <2>5. CASE AnswerLost(r)
      <3>1. UNCHANGED <<called, pending, replies>> /\ Ran' = Ran
        BY <2>5 DEF AnswerLost, Ran, IInv, TypeOK
      <3>2. Phase' = Phase
        BY <3>1 DEF Phase, PhaseOf
      <3>3. QED
        BY <3>1, <3>2
    <2>6. ASSUME NEW a \in Answers, DaemonAnswers(r, a)
          PROVE  [Call!Next]_<<Phase, Ran>>
      <3>1. Ran' = Ran /\ r \in Ran
        BY <2>6 DEF DaemonAnswers, Ran, IInv, TypeOK
      <3>2. CASE r \in pending
        <4>1. Settles({r}, a) /\ {r} \in SUBSET pending
          BY <2>6, <3>2 DEF DaemonAnswers, Resolve, Settles, IInv, TypeOK
        <4>2. /\ Phase[r] = "waiting"
              /\ Phase' = [q \in Requests |-> IF q \in {r} THEN "answered"
                                                          ELSE Phase[q]]
          BY <4>1, SettledPhases DEF Answers
        <4>3. Phase' = [Phase EXCEPT ![r] = "answered"]
          BY <4>2 DEF Phase
        <4>4. QED
          BY <3>1, <4>2, <4>3 DEF Call!Next, Call!Answer
      <3>3. CASE r \notin pending
        <4>1. UNCHANGED <<called, pending, replies>>
          BY <2>6, <3>3 DEF DaemonAnswers, Resolve
        <4>2. QED
          BY <3>1, <4>1 DEF Phase, PhaseOf
      <3>4. QED
        BY <3>2, <3>3
    <2>7. QED
      BY <1>2, <2>1, <2>2, <2>3, <2>4, <2>5, <2>6 DEF RequestStep
  <1>3. CASE UNCHANGED vars
    BY <1>3, QuietStutters DEF vars
  <1>4. QED
    BY <1>1, <1>2, <1>3 DEF Next

\* Whatever happens to sockets, handlers and timers, the MCP client sees only
\* what RemoteCall allows.
THEOREM ImplementsSafely == Spec => Call!Safety
  BY CallInit, CallStep, Inductive, PTL DEF Spec, Call!Safety, Call!vars

-----------------------------------------------------------------------------
(* The output of a command.                                                *)

LEMMA NoOutput == Output(0) = <<>>
  BY DEF Output

LEMMA MoreOutput ==
    ASSUME NEW n \in Nat
    PROVE  Append(Output(n), n + 1) = Output(n + 1)
  BY DEF Output

LEMMA OutputInit == Init => OutputInv
  <1> SUFFICES ASSUME Init PROVE OutputInv
    OBVIOUS
  <1>1. IInv
    BY IInit
  <1>2. ForwardedOnce /\ OutputSoFar
    BY DEF Init, ForwardedOnce, OutputSoFar
  <1>3. NoOutputBeforeTheJob
    BY DEF Init, NoOutputBeforeTheJob
  <1>4. OutputAtTheEnd
    <2>1. <<>> # <<"result">>
      BY FirstReply
    <2>2. QED
      BY <2>1 DEF Init, OutputAtTheEnd, Requests
  <1>5. QED
    BY <1>1, <1>2, <1>3, <1>4 DEF OutputInv

\* A step that sends nothing to the daemon, takes nothing from it, passes no
\* output on and gives no result.
LEMMA OutputQuiet ==
    ASSUME OutputInv, IInv',
           wire' \subseteq wire, arrived' = arrived, delivered' = delivered,
           called \subseteq called', pending' \subseteq pending,
           \A r \in Requests : /\ job'[r] = "none" <=> job[r] = "none"
                               /\ job[r] = "done" => job'[r] = "done"
                               /\ chunks'[r] = chunks[r] \/ chunks'[r] = <<>>
                               /\ r \in pending' => chunks'[r] = chunks[r]
                               /\ replies'[r] = <<"result">>
                                    => replies[r] = <<"result">>
    PROVE  OutputInv'
  <1> USE DEF OutputInv
  <1>1. ForwardedOnce'
    <2>1. \A m \in wire : m[2] \in Requests
      BY DEF IInv, TypeOK
    <2>2. QED
      BY <2>1 DEF ForwardedOnce
  <1>2. NoOutputBeforeTheJob'
    BY DEF NoOutputBeforeTheJob
  <1>3. OutputSoFar'
    BY DEF OutputSoFar, Requests
  <1>4. OutputAtTheEnd'
    BY DEF OutputAtTheEnd, Requests
  <1>5. QED
    BY <1>1, <1>2, <1>3, <1>4

\* The replies that are no result.
LEMMA OtherReply ==
    ASSUME NEW a \in {"offline", "timeout", "refused", "error"}, NEW q
    PROVE  <<a>> # <<"result">>
  <1>1. a # "result" /\ <<a>>[1] = a /\ <<"result">>[1] = "result"
    OBVIOUS
  <1>2. QED
    BY <1>1

\* Settling requests with something else than a result, the daemon's part
\* moving from running to done at most.
LEMMA OutputSettles ==
    ASSUME OutputInv, IInv', NEW rs \in SUBSET Requests,
           NEW a \in {"offline", "timeout", "error"}, Settles(rs, a),
           chunks' = [r \in Requests |-> IF r \in rs THEN <<>> ELSE chunks[r]],
           UNCHANGED <<wire, arrived, delivered>>,
           \A r \in Requests : /\ job'[r] = "none" <=> job[r] = "none"
                               /\ job[r] = "done" => job'[r] = "done"
    PROVE  OutputInv'
  <1>1. \A r \in rs : replies[r] = <<>>
    BY DEF OutputInv, IInv, PendingUntilAnswered, Settles
  <1>2. \A r \in rs : replies'[r] = <<a>>
    BY <1>1, FirstReply DEF Settles
  <1>3. <<a>> # <<"result">>
    BY OtherReply
  <1>4. \A r \in Requests \ rs : replies'[r] = replies[r]
    BY DEF Settles
  <1>5. \A r \in Requests : replies'[r] = <<"result">> => replies[r] = <<"result">>
    BY <1>2, <1>3, <1>4
  <1>6. QED
    BY <1>5, OutputQuiet DEF Settles

LEMMA OutputSocket ==
    ASSUME OutputInv, IInv', NEW s \in Sockets, SocketStep(s)
    PROVE  OutputInv'
  <1> USE DEF sessionVars, pendingVars, socketVars, clientVars, daemonVars
  <1>a. IInv /\ TypeOK
    BY DEF OutputInv, IInv
  <1>1. CASE SocketError(s) \/ SocketClose(s)
    <2>1. Settles(pending, "offline")
      BY <1>1, <1>a, CleanupSettles DEF SocketError, SocketClose
    <2>2. pending \subseteq Requests
      BY <1>a DEF TypeOK
    <2>3. \A r \in Requests : chunks'[r] = <<>>
      BY <1>1 DEF SocketError, SocketClose, CleanupWebSocket
    <2>4. pending' = {} /\ UNCHANGED <<wire, arrived, delivered, called, job>>
      BY <1>1 DEF SocketError, SocketClose, CleanupWebSocket
    <2>5. \A r \in Requests : replies'[r] = <<"result">> => replies[r] = <<"result">>
      <3>1. \A r \in pending : replies'[r] = <<"offline">>
        <4>1. \A r \in pending : r \in Requests /\ replies[r] = <<>>
          BY <1>a, <2>2 DEF IInv, PendingUntilAnswered
        <4>2. QED
          BY <2>1, <4>1, FirstReply DEF Settles
      <3>2. <<"offline">> # <<"result">>
        BY OtherReply
      <3>3. QED
        BY <2>1, <3>1, <3>2 DEF Settles
    <2>6. QED
      BY <2>3, <2>4, <2>5, OutputQuiet
  <1>2. ASSUME NEW r \in Requests, Receive(s, r) PROVE OutputInv'
    <2>1. /\ <<s, r>> \in wire /\ wire' = wire \ {<<s, r>>}
          /\ job' = [job EXCEPT ![r] = "running"]
          /\ UNCHANGED <<pending, chunks, called, replies, delivered, arrived>>
      BY <1>2 DEF Receive
    <2>2. /\ job[r] = "none" /\ job'[r] = "running"
          /\ \A q \in Requests : q # r => job'[q] = job[q]
      BY <2>1, <1>a DEF TypeOK, OutputInv, ForwardedOnce
    <2>3. ForwardedOnce'
      <3>1. \A m \in wire' : m \in wire /\ m[2] \in Requests /\ m[2] # r
        BY <2>1, <1>a DEF TypeOK, OutputInv, ForwardedOnce
      <3>2. QED
        BY <2>2, <3>1 DEF OutputInv, ForwardedOnce
    <2>4. NoOutputBeforeTheJob'
      BY <2>1, <2>2 DEF OutputInv, NoOutputBeforeTheJob
    <2>5. OutputSoFar'
      BY <2>1 DEF OutputInv, OutputSoFar
    <2>6. OutputAtTheEnd'
      BY <2>1, <2>2 DEF OutputInv, OutputAtTheEnd, Requests
    <2>7. QED
      BY <2>3, <2>4, <2>5, <2>6 DEF OutputInv
  <1>3. CASE \/ Accept(s) \/ LinkLost(s) \/ ReceiveAuth(s) \/ VerifyAuth(s)
             \/ FinishAuth(s) \/ ReceiveHeartbeat(s) \/ FinishHeartbeat(s)
    <2>1. /\ wire' \subseteq wire
          /\ UNCHANGED <<pending, chunks, called, replies, delivered, arrived, job>>
      BY <1>3
      DEF Accept, LinkLost, ReceiveAuth, VerifyAuth, FinishAuth,
          ReceiveHeartbeat, FinishHeartbeat
    <2>2. QED
      BY <2>1, OutputQuiet
  <1>4. QED
    BY <1>1, <1>2, <1>3 DEF SocketStep

LEMMA OutputRefusal ==
    ASSUME OutputInv, IInv', NEW r \in Requests,
           called' = called \union {r},
           replies' = [replies EXCEPT ![r] = Append(@, "refused")],
           r \notin called,
           UNCHANGED <<pending, chunks, delivered, arrived, wire, job>>
    PROVE  OutputInv'
  <1>1. replies \in [Requests -> Seq(Replies)] /\ replies[r] = <<>>
    BY DEF OutputInv, IInv, TypeOK, NothingBeforeTheCall
  <1>2. replies'[r] = <<"refused">> /\ \A q \in Requests : q # r => replies'[q] = replies[q]
    BY <1>1, FirstReply
  <1>3. <<"refused">> # <<"result">>
    BY OtherReply
  <1>4. QED
    BY <1>2, <1>3, OutputQuiet

LEMMA OutputRequest ==
    ASSUME OutputInv, IInv', NEW r \in Requests, RequestStep(r)
    PROVE  OutputInv'
  <1> USE DEF sessionVars, pendingVars, socketVars, clientVars, daemonVars
  <1>a. IInv /\ TypeOK
    BY DEF OutputInv, IInv
  <1>1. CASE RefuseCall(r)
    BY <1>1, OutputRefusal DEF RefuseCall
  <1>2. CASE ForwardCall(r) /\ SendFails(r)
    BY <1>2, OutputRefusal DEF ForwardCall, SendFails
  <1>3. CASE ForwardCall(r) /\ SendWorks(r)
    <2>1. /\ r \notin called /\ called' = called \union {r}
          /\ pending' = pending \union {r}
          /\ wire' \subseteq wire \union {<<ws, r>>}
          /\ UNCHANGED <<chunks, delivered, arrived, job, replies>>
      BY <1>3 DEF ForwardCall, SendWorks
    <2>2. job[r] = "none" /\ \A m \in wire : m[2] # r
      <3>1. job[r] = "none" /\ \A s \in Sockets : <<s, r>> \notin wire
        BY <1>a, <2>1 DEF IInv, DaemonHasOnlyForwarded
      <3>2. \A m \in wire : m = <<m[1], m[2]>> /\ m[1] \in Sockets
        BY <1>a DEF TypeOK
      <3>3. QED
        BY <3>1, <3>2
    <2>3. arrived[r] = 0 /\ chunks[r] = Output(0) /\ delivered[r] = Output(0)
      BY <2>1, <2>2, NoOutput DEF OutputInv, NoOutputBeforeTheJob
    <2>4. ForwardedOnce'
      <3>1. <<ws, r>>[2] = r
        OBVIOUS
      <3>2. \A m \in wire' : m \in wire \/ m = <<ws, r>>
        BY <2>1
      <3>3. QED
        BY <2>1, <2>2, <3>1, <3>2 DEF OutputInv, ForwardedOnce
    <2>5. NoOutputBeforeTheJob'
      BY <2>1 DEF OutputInv, NoOutputBeforeTheJob
    <2>6. OutputSoFar'
      BY <2>1, <2>3 DEF OutputInv, OutputSoFar
    <2>7. OutputAtTheEnd'
      BY <2>1 DEF OutputInv, OutputAtTheEnd
    <2>8. QED
      BY <2>4, <2>5, <2>6, <2>7 DEF OutputInv
  <1>4. CASE Timeout(r)
    <2>1. Settles({r}, "timeout")
      BY <1>4, <1>a DEF Timeout, Settles, IInv, TypeOK, PendingUntilAnswered
    <2>2. /\ chunks' = [q \in Requests |-> IF q \in {r} THEN <<>> ELSE chunks[q]]
          /\ UNCHANGED <<wire, arrived, delivered, job>>
      BY <1>4, <1>a DEF Timeout, TypeOK
    <2>3. QED
      BY <2>1, <2>2, OutputSettles
  <1>5. CASE Progress(r)
    <2>1. /\ job[r] = "running" /\ arrived[r] \in Nat
          /\ UNCHANGED <<pending, called, replies, wire, job>>
      BY <1>5, <1>a DEF Progress, TypeOK
    <2>2. /\ arrived'[r] = arrived[r] + 1
          /\ \A q \in Requests : q # r => arrived'[q] = arrived[q]
      BY <1>5, <1>a DEF Progress, TypeOK
    <2>3. \A q \in Requests : q # r => /\ chunks'[q] = chunks[q]
                                       /\ delivered'[q] = delivered[q]
      BY <1>5, <1>a DEF Progress, TypeOK
    <2>4. r \in called
      BY <1>a, <2>1 DEF IInv, DaemonHasOnlyForwarded
    <2>5. NoOutputBeforeTheJob'
      BY <2>1, <2>2, <2>3, <2>4 DEF OutputInv, NoOutputBeforeTheJob
    <2>6. OutputSoFar'
      <3>1. ASSUME r \in pending \intersect Tools
            PROVE  chunks'[r] = Output(arrived'[r])
        <4>1. chunks'[r] = Append(chunks[r], arrived[r] + 1)
          BY <1>5, <1>a, <3>1, RequestKinds DEF Progress, TypeOK
        <4>2. chunks[r] = Output(arrived[r])
          BY <3>1 DEF OutputInv, OutputSoFar
        <4>3. QED
          BY <2>1, <2>2, <4>1, <4>2, MoreOutput
      <3>2. ASSUME r \in pending \intersect Streams
            PROVE  delivered'[r] = Output(arrived'[r])
        <4>1. delivered'[r] = Append(delivered[r], arrived[r] + 1)
          BY <1>5, <1>a, <3>2 DEF Progress, TypeOK
        <4>2. delivered[r] = Output(arrived[r])
          BY <3>2 DEF OutputInv, OutputSoFar
        <4>3. QED
          BY <2>1, <2>2, <4>1, <4>2, MoreOutput
      <3>3. QED
        BY <2>1, <2>2, <2>3, <3>1, <3>2 DEF OutputInv, OutputSoFar, Requests
    <2>7. OutputAtTheEnd'
      BY <2>1, <2>2, <2>3 DEF OutputInv, OutputAtTheEnd, Requests
    <2>8. QED
      BY <2>1, <2>5, <2>6, <2>7 DEF OutputInv, ForwardedOnce
  <1>6. CASE AnswerLost(r)
    BY <1>6, <1>a, OutputQuiet DEF AnswerLost, TypeOK
  <1>7. ASSUME NEW a \in Answers, DaemonAnswers(r, a) PROVE OutputInv'
    <2>a. /\ job[r] = "running" /\ job'[r] = "done"
          /\ \A q \in Requests : q # r => job'[q] = job[q]
          /\ UNCHANGED <<called, wire, arrived>>
      BY <1>7, <1>a DEF DaemonAnswers, TypeOK
    <2>1. CASE r \notin pending
      BY <1>7, <2>a, <2>1, OutputQuiet DEF DaemonAnswers, Resolve
    <2>b. ASSUME r \in pending
          PROVE  /\ Settles({r}, a)
                 /\ chunks' = [q \in Requests |-> IF q \in {r} THEN <<>> ELSE chunks[q]]
                 /\ delivered' = Merged(r, a)
      BY <1>7, <2>b, <2>a, <1>a DEF DaemonAnswers, Resolve, Settles, TypeOK
    <2>2. CASE r \in pending /\ a = "error"
      BY <2>2, <2>a, <2>b, OutputSettles DEF Merged
    <2>3. CASE r \in pending /\ a = "result"
      <3>1. /\ replies'[r] = <<"result">>
            /\ \A q \in Requests : q # r => replies'[q] = replies[q]
        BY <1>a, <2>3, <2>b, FirstReply DEF IInv, PendingUntilAnswered, Settles
      <3>2. \A q \in Requests : q # r => /\ chunks'[q] = chunks[q]
                                         /\ delivered'[q] = delivered[q]
        BY <1>a, <2>3, <2>b DEF Merged, TypeOK
      <3>3. pending' = pending \ {r} /\ r \in called
        BY <1>a, <2>3, <2>b DEF Settles, IInv, PendingUntilAnswered
      <3>4. r \in Tools \union Streams => delivered'[r] = Output(arrived[r])
        BY <1>a, <2>3, <2>b, RequestKinds
        DEF Merged, TypeOK, OutputInv, OutputSoFar
      <3>5. ForwardedOnce'
        BY <2>a, <1>a DEF OutputInv, ForwardedOnce, TypeOK
      <3>6. NoOutputBeforeTheJob'
        BY <2>a, <3>2, <3>3 DEF OutputInv, NoOutputBeforeTheJob
      <3>7. OutputSoFar'
        BY <2>a, <3>2, <3>3 DEF OutputInv, OutputSoFar, Requests
      <3>8. OutputAtTheEnd'
        BY <2>a, <3>1, <3>2, <3>4 DEF OutputInv, OutputAtTheEnd, Requests
      <3>9. QED
        BY <3>5, <3>6, <3>7, <3>8 DEF OutputInv
    <2>4. QED
      BY <2>1, <2>2, <2>3 DEF Answers
  <1>8. QED
    BY <1>1, <1>2, <1>3, <1>4, <1>5, <1>6, <1>7 DEF RequestStep, ForwardCall

LEMMA OutputStep == ASSUME OutputInv, [Next]_vars PROVE OutputInv'
  <1>1. IInv'
    BY IInvStep DEF OutputInv
  <1>2. CASE Next
    BY <1>1, <1>2, OutputSocket, OutputRequest DEF Next
  <1>3. CASE UNCHANGED vars
    BY <1>1, <1>3, OutputQuiet
    DEF vars, pendingVars, clientVars, daemonVars
  <1>4. QED
    BY <1>2, <1>3

\* The client of a command that finished has exactly the chunks the daemon
\* sent, in order, streamed or buffered, and a streaming client has all so far.
THEOREM OutputIsComplete == Spec => []OutputComplete
  <1>1. OutputInv => OutputComplete
    BY DEF OutputInv, OutputSoFar, OutputAtTheEnd, OutputComplete, Output
  <1>2. QED
    BY <1>1, OutputInit, OutputStep, PTL DEF Spec
=============================================================================
