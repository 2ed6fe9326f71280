------------------------ MODULE ReviewChannelProofs ------------------------
(***************************************************************************)
(* Theorems about ReviewChannel, for any number of decisions, modals and   *)
(* event streams, whether or not posts get lost.                           *)
(***************************************************************************)
EXTENDS ReviewChannel, SequenceTheorems, TLAPS

-----------------------------------------------------------------------------
(* The inductive invariants. *)

Reading == {"first", "waiting", "yielded"}

\* What a stream will have sent when it has emptied its queue.
Latest(s) == IF queue[s] = <<>> THEN shown[s] ELSE queue[s][Len(queue[s])]

\* Only registered queues hold events, and with no notification outstanding the
\* last event of each is the record as it is.
StreamInv ==
    /\ OnlyReadersFed
    /\ \A s \in Streams : s \notin subs => queue[s] = <<>>
    /\ \A s \in Streams : s \in subs /\ owed = {} => Latest(s) = StatusResponse

\* A contract that is decided, or back in analysis, has had a decision.
DecisionInv ==
    /\ verdict \notin {"PENDING", "TIMED_OUT"} => Accepted # {}
    /\ pc \in {"reanalysis", "reentering"} => Accepted # {}
    /\ RefusedOnlyIfBeaten

-----------------------------------------------------------------------------
(* Types. *)

\* Every event the store makes is one.
LEMMA ResponseType ==
  ASSUME status \in Status, result \in BOOLEAN
  PROVE  StatusResponse \in Event
  BY DEF StatusResponse, Event

\* Every variable keeps its type; in particular the streams only carry statuses
\* of the workflow.
THEOREM ChannelTyping == Spec => []TypeOK
  <1> USE ChannelAssumption
  <1>1. ASSUME Init PROVE TypeOK
    <2>1. NoEvent \in Event /\ <<>> \in Seq(Event)
      BY DEF NoEvent, Event, Status
    <2>2. shown \in [Streams -> Event] /\ queue \in [Streams -> Seq(Event)]
      BY <1>1, <2>1 DEF Init
    <2> QED  BY <1>1, <2>2 DEF Init, TypeOK, Status
  <1>2. ASSUME TypeOK, [Next]_vars PROVE TypeOK'
    <2>0. StatusResponse \in Event /\ NoEvent \in Event
      BY <1>2, ResponseType DEF TypeOK, NoEvent, Event, Status
    <2> USE <1>2, <2>0 DEF TypeOK, recordVars, clickVars, streamVars
    <2>1. CASE SendApprovalRequest
      BY <2>1 DEF SendApprovalRequest, Moves
    <2>2. CASE EnterReview \/ ReenterReview \/ Poll \/ Timeout \/ ExecutionBlocked
      BY <2>2 DEF EnterReview, ReenterReview, Poll, Timeout, ExecutionBlocked, Moves, Route
    <2>3. CASE HonourEarlyDecision
      BY <2>3 DEF HonourEarlyDecision, Moves, Route, Write, Status
    <2>4. CASE SetPending \/ Execute \/ Finish \/ Fail
      BY <2>4 DEF SetPending, Execute, Finish, Fail, Moves, Write, Status
    <2>5. ASSUME NEW t \in owed, NotifySubscribers(t) PROVE TypeOK'
      <3>1. queue' \in [Streams -> Seq(Event)]
        BY <2>5 DEF NotifySubscribers
      <3> QED  BY <2>5, <3>1 DEF NotifySubscribers
    <2>6. ASSUME NEW c \in Clicks, NEW d \in Decisions, Click(c, d) PROVE TypeOK'
      BY <2>6 DEF Click
    <2>7. ASSUME NEW c \in Clicks, NEW d \in {"APPROVE", "REJECT"}, SubmitModal(c, d)
          PROVE  TypeOK'
      BY <2>7 DEF SubmitModal
    <2>8. ASSUME NEW c \in Clicks, OpenModal(c) \/ PostLost(c) PROVE TypeOK'
      <3>1. CASE OpenModal(c)
        BY <3>1 DEF OpenModal
      <3>2. CASE PostLost(c)
        BY <3>2 DEF PostLost
      <3> QED  BY <2>8, <3>1, <3>2
    <2>9. ASSUME NEW c \in Clicks, HandlerStep(c) PROVE TypeOK'
      <3>1. CASE RecordDecision(c)
        BY <3>1 DEF RecordDecision, Write
      <3>2. CASE RefuseDecision(c)
        BY <3>2 DEF RefuseDecision
      <3>3. CASE UpdateStatus(c)
        BY <3>3 DEF UpdateStatus, Write, Status
      <3> QED  BY <2>9, <3>1, <3>2, <3>3 DEF HandlerStep
    <2>10. ASSUME NEW s \in Streams, Connect(s) PROVE TypeOK'
      BY <2>10 DEF Connect, Goes
    <2>11. ASSUME NEW s \in Streams, Resume(s) \/ Continue(s) \/ Disconnect(s) PROVE TypeOK'
      <3>1. Unsubscribe(s) => queue' \in [Streams -> Seq(Event)] /\ subs' \subseteq Streams
        BY DEF Unsubscribe
      <3>2. CASE Resume(s)
        BY <3>1, <3>2 DEF Resume, Goes
      <3>3. CASE Continue(s)
        BY <3>1, <3>3 DEF Continue, Goes
      <3>4. CASE Disconnect(s)
        BY <3>1, <3>4 DEF Disconnect, Goes
      <3> QED  BY <2>11, <3>2, <3>3, <3>4
    <2>12. ASSUME NEW s \in Streams, Send(s) PROVE TypeOK'
      <3>1. Head(queue[s]) \in Event /\ Tail(queue[s]) \in Seq(Event)
        BY <2>12 DEF Send
      <3> QED  BY <2>12, <3>1 DEF Send, Goes
    <2>13. CASE UNCHANGED vars
      BY <2>13 DEF vars
    <2> QED
      BY <2>1, <2>2, <2>3, <2>4, <2>5, <2>6, <2>7, <2>8, <2>9, <2>10, <2>11, <2>12, <2>13
         DEF Next, PipelineStep, StreamStep
  <1> QED
    BY <1>1, <1>2, PTL DEF Spec

-----------------------------------------------------------------------------
(* The event streams. *)

\* A step that touches no stream keeps the invariant if it leaves the record's
\* status and result alone, or owes the streams a notification.
LEMMA StreamsUntouched ==
  ASSUME StreamInv, UNCHANGED streamVars,
         UNCHANGED <<status, result, owed>> \/ owed' # {}
  PROVE  StreamInv'
  BY DEF StreamInv, streamVars, OnlyReadersFed, Latest, StatusResponse

\* Every step keeps it: the writers, the notifications in any order, and the
\* generators, which may be anywhere when an update arrives.
LEMMA StreamStepKeeps ==
  ASSUME TypeOK, StreamInv, [Next]_vars PROVE StreamInv'
  <1>1. CASE PipelineStep
    <2>1. UNCHANGED streamVars
      BY <1>1 DEF PipelineStep, SendApprovalRequest, EnterReview, ReenterReview,
         HonourEarlyDecision, SetPending, Poll, Timeout, Execute, ExecutionBlocked,
         Finish, Fail
    <2>2. UNCHANGED <<status, result, owed>> \/ owed' # {}
      BY <1>1 DEF PipelineStep, SendApprovalRequest, EnterReview, ReenterReview,
         HonourEarlyDecision, SetPending, Poll, Timeout, Execute, ExecutionBlocked,
         Finish, Fail, Write, recordVars
    <2> QED  BY <2>1, <2>2, StreamsUntouched
  <1>2. ASSUME NEW t \in owed, NotifySubscribers(t) PROVE StreamInv'
    <2>1. StatusResponse' = StatusResponse /\ UNCHANGED <<spc, subs, shown>>
      BY <1>2 DEF NotifySubscribers, recordVars, StatusResponse
    <2>2. ASSUME NEW s \in Streams
          PROVE  IF s \in subs
                 THEN /\ queue'[s] # <<>>
                      /\ queue'[s][Len(queue'[s])] = StatusResponse
                 ELSE queue'[s] = queue[s]
      <3>1. queue[s] \in Seq(Event)
        BY DEF TypeOK
      <3>2. queue'[s] = IF s \in subs THEN Append(queue[s], StatusResponse) ELSE queue[s]
        BY <1>2 DEF NotifySubscribers
      <3>3. StatusResponse \in Event
        BY ResponseType DEF TypeOK
      <3> HIDE DEF StatusResponse
      <3> QED  BY <3>1, <3>2, <3>3
    <2> QED  BY <2>1, <2>2 DEF StreamInv, OnlyReadersFed, Latest
  <1>3. ASSUME NEW c \in Clicks, NEW d \in Decisions, Click(c, d) PROVE StreamInv'
    BY <1>3, StreamsUntouched DEF Click, recordVars
  <1>4. ASSUME NEW c \in Clicks, NEW d \in {"APPROVE", "REJECT"}, SubmitModal(c, d)
        PROVE  StreamInv'
    BY <1>4, StreamsUntouched DEF SubmitModal, recordVars
  <1>5. ASSUME NEW c \in Clicks, OpenModal(c) \/ PostLost(c) PROVE StreamInv'
    BY <1>5, StreamsUntouched DEF OpenModal, PostLost, recordVars
  <1>6. ASSUME NEW c \in Clicks, HandlerStep(c) PROVE StreamInv'
    BY <1>6, StreamsUntouched DEF HandlerStep, RecordDecision, RefuseDecision,
       UpdateStatus, Write, recordVars
  <1>7. ASSUME NEW s \in Streams, Connect(s) PROVE StreamInv'
    <2>1. s \notin subs /\ queue[s] = <<>>
      BY <1>7 DEF Connect, StreamInv, OnlyReadersFed
    <2> QED
      BY <1>7, <2>1 DEF Connect, Goes, StreamInv, OnlyReadersFed, Latest, StatusResponse,
         TypeOK, recordVars
  <1>8. ASSUME NEW s \in Streams, Resume(s) \/ Continue(s) \/ Disconnect(s)
        PROVE  StreamInv'
    <2>1. StatusResponse' = StatusResponse /\ UNCHANGED owed
      BY <1>8 DEF Resume, Continue, Disconnect, recordVars, StatusResponse
    <2>2. CASE UNCHANGED <<subs, queue, shown>> /\ Goes(s, "waiting") /\ spc[s] \in Reading
      BY <2>1, <2>2 DEF Goes, StreamInv, OnlyReadersFed, Latest, Reading, TypeOK
    <2>3. CASE /\ Unsubscribe(s)
               /\ Goes(s, "ended") \/ Goes(s, "gone")
               /\ \A r \in Streams \ {s} : shown'[r] = shown[r]
      BY <2>1, <2>3 DEF Goes, Unsubscribe, StreamInv, OnlyReadersFed, Latest, TypeOK
    <2> QED
      BY <1>8, <2>2, <2>3 DEF Resume, Continue, Disconnect, Reading, TypeOK
  <1>9. ASSUME NEW s \in Streams, Send(s) PROVE StreamInv'
    <2>1. StatusResponse' = StatusResponse /\ UNCHANGED <<owed, subs>>
      BY <1>9 DEF Send, recordVars, StatusResponse
    <2>2. queue[s] \in Seq(Event) /\ queue[s] # <<>> /\ s \in subs
      BY <1>9 DEF Send, TypeOK, StreamInv, OnlyReadersFed
    <2>3. /\ queue'[s] = Tail(queue[s]) /\ shown'[s] = Head(queue[s])
          /\ \A r \in Streams \ {s} : queue'[r] = queue[r] /\ shown'[r] = shown[r]
      BY <1>9 DEF Send, TypeOK
    <2>4. Latest(s)' = Latest(s)
      <3>1. CASE Tail(queue[s]) = <<>>
        <4>1. Len(queue[s]) = 1
          <5>1. Len(Tail(queue[s])) = Len(queue[s]) - 1 /\ Len(queue[s]) \in Nat
            BY <2>2
          <5>2. Len(Tail(queue[s])) = 0
            BY <3>1, Zenon, EmptySeq
          <5> QED  BY <5>1, <5>2
        <4> QED  BY <2>2, <2>3, <3>1, <4>1 DEF Latest
      <3>2. CASE Tail(queue[s]) # <<>>
        <4>1. /\ Len(Tail(queue[s])) = Len(queue[s]) - 1
              /\ Len(queue[s]) \in Nat /\ Len(queue[s]) > 1
          BY <2>2, <3>2
        <4>2. Tail(queue[s])[Len(queue[s]) - 1] = queue[s][Len(queue[s])]
          BY <2>2, <4>1
        <4> QED  BY <2>2, <2>3, <3>2, <4>1, <4>2 DEF Latest
      <3> QED  BY <3>1, <3>2
    <2>5. \A r \in Streams \ {s} : Latest(r)' = Latest(r)
      BY <2>3 DEF Latest
    <2>6. OnlyReadersFed'
      BY <1>9, <2>1 DEF Send, Goes, StreamInv, OnlyReadersFed, TypeOK
    <2> QED  BY <2>1, <2>2, <2>3, <2>4, <2>5, <2>6 DEF StreamInv
  <1>10. CASE UNCHANGED vars
    BY <1>10, StreamsUntouched DEF vars, recordVars
  <1> QED
    BY <1>1, <1>2, <1>3, <1>4, <1>5, <1>6, <1>7, <1>8, <1>9, <1>10 DEF Next, StreamStep

\* The invariant of the streams holds in every reachable state.
THEOREM StreamInvariant == Spec => []StreamInv
  <1>1. Init => StreamInv
    BY DEF Init, StreamInv, OnlyReadersFed
  <1> QED
    BY <1>1, StreamStepKeeps, ChannelTyping, PTL DEF Spec

\* No update is lost between the generator's first read and its queue, and none
\* is overtaken by an older one.
THEOREM StreamsMissNothing == Spec => []NoUpdateMissed
  <1>1. TypeOK /\ StreamInv => NoUpdateMissed
    BY DEF StreamInv, OnlyReadersFed, NoUpdateMissed, Latest
  <1> QED
    BY <1>1, StreamInvariant, ChannelTyping, PTL

\* The finally clause of the generator leaves no queue behind.
THEOREM NoQueueLeftBehind == Spec => []OnlyReadersFed
  BY StreamInvariant, PTL DEF StreamInv

-----------------------------------------------------------------------------
(* Decisions. *)

\* A step that leaves the clicks alone and does not undo a verdict.
LEMMA ClicksUntouched ==
  ASSUME DecisionInv, UNCHANGED click,
         verdict' = verdict \/ verdict' = "TIMED_OUT" \/ Accepted # {},
         pc' \in {"reanalysis", "reentering"} => Accepted # {}
  PROVE  DecisionInv'
  BY DEF DecisionInv, Accepted, RefusedOnlyIfBeaten

\* A decision is refused only when another one was accepted before it or the
\* review had timed out, over any number of rounds; lost and late posts included.
THEOREM RefusedForAReason == Spec => []RefusedOnlyIfBeaten
  <1>1. Init => DecisionInv
    BY DEF Init, DecisionInv, RefusedOnlyIfBeaten
  <1>2. ASSUME TypeOK, DecisionInv, [Next]_vars PROVE DecisionInv'
    <2> USE <1>2
    <2>1. CASE PipelineStep
      <3>1. UNCHANGED click
        BY <2>1 DEF PipelineStep, SendApprovalRequest, EnterReview, ReenterReview,
           HonourEarlyDecision, SetPending, Poll, Timeout, Execute, ExecutionBlocked,
           Finish, Fail, clickVars
      <3>2. verdict' = verdict \/ verdict' = "TIMED_OUT" \/ Accepted # {}
        BY <2>1 DEF PipelineStep, SendApprovalRequest, EnterReview, ReenterReview,
           HonourEarlyDecision, SetPending, Poll, Timeout, Execute, ExecutionBlocked,
           Finish, Fail, recordVars, Moves, DecisionInv
      <3>3. pc' \in {"reanalysis", "reentering"} => Accepted # {}
        <4>1. Route(verdict) = "reanalysis" => verdict = "MODIFIED"
          BY DEF Route
        <4> QED
          BY <2>1, <4>1 DEF PipelineStep, SendApprovalRequest, EnterReview, ReenterReview,
             HonourEarlyDecision, SetPending, Poll, Timeout, Execute, ExecutionBlocked,
             Finish, Fail, Moves, Route, DecisionInv
      <3> QED  BY <3>1, <3>2, <3>3, ClicksUntouched
    <2>2. ASSUME NEW t \in owed, NotifySubscribers(t) PROVE DecisionInv'
      BY <2>2 DEF NotifySubscribers, recordVars, clickVars, DecisionInv, Accepted,
         RefusedOnlyIfBeaten
    <2>3. ASSUME NEW s \in Streams, Connect(s) \/ StreamStep(s) \/ Disconnect(s)
          PROVE  DecisionInv'
      BY <2>3 DEF Connect, StreamStep, Resume, Send, Continue, Disconnect, recordVars,
         clickVars, DecisionInv, Accepted, RefusedOnlyIfBeaten
    <2>4. ASSUME NEW c \in Clicks, NEW d \in Decisions, Click(c, d) PROVE DecisionInv'
      BY <2>4 DEF Click, recordVars, DecisionInv, Accepted, RefusedOnlyIfBeaten, TypeOK
    <2>5. ASSUME NEW c \in Clicks, NEW d \in {"APPROVE", "REJECT"}, SubmitModal(c, d)
          PROVE  DecisionInv'
      BY <2>5 DEF SubmitModal, recordVars, DecisionInv, Accepted, RefusedOnlyIfBeaten, TypeOK
    <2>6. ASSUME NEW c \in Clicks, OpenModal(c) \/ PostLost(c) PROVE DecisionInv'
      BY <2>6 DEF OpenModal, PostLost, recordVars, DecisionInv, Accepted,
         RefusedOnlyIfBeaten, TypeOK
    <2>7. ASSUME NEW c \in Clicks, RecordDecision(c) \/ UpdateStatus(c) PROVE DecisionInv'
      <3>1. c \in Accepted' /\ Accepted \subseteq Accepted'
        BY <2>7 DEF RecordDecision, UpdateStatus, Accepted, TypeOK
      <3> QED
        BY <2>7, <3>1 DEF RecordDecision, UpdateStatus, DecisionInv, RefusedOnlyIfBeaten
    <2>8. ASSUME NEW c \in Clicks, RefuseDecision(c) PROVE DecisionInv'
      <3>1. verdict = "TIMED_OUT" \/ Accepted # {}
        BY <2>8 DEF RefuseDecision, Open, DecisionInv
      <3>2. Accepted' = Accepted /\ UNCHANGED <<verdict, pc>>
        BY <2>8 DEF RefuseDecision, Accepted, recordVars, TypeOK
      <3> QED
        BY <3>1, <3>2 DEF DecisionInv, RefusedOnlyIfBeaten
    <2>9. CASE UNCHANGED vars
      BY <2>9 DEF vars, recordVars, clickVars, DecisionInv, Accepted, RefusedOnlyIfBeaten
    <2> QED
      BY <2>1, <2>2, <2>3, <2>4, <2>5, <2>6, <2>7, <2>8, <2>9 DEF Next, HandlerStep
  <1> QED
    BY <1>1, <1>2, ChannelTyping, PTL DEF Spec, DecisionInv

=============================================================================
