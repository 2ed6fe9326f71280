--------------------------- MODULE ReviewChannel ---------------------------
(***************************************************************************)
(* How a review reaches the people and programs that wait for it, and how  *)
(* their answer comes back: the notifier service (mcp_servers/notifier)    *)
(* with its list of pending approvals, the Slack modal, the decision       *)
(* endpoint of the proxy, and the event streams (GET .../stream) that the  *)
(* workflow store feeds.                                                   *)
(*                                                                         *)
(* ApprovalWorkflow models the store and the pipeline in detail; here the  *)
(* pipeline is reduced to the steps that write a status, send a request or *)
(* read a decision, for one operation.  As there, a step is the code       *)
(* between two awaits that really wait: the write of a status, the upsert  *)
(* (_persist) and the notification of the subscribers are separate.        *)
(***************************************************************************)
EXTENDS Naturals, Sequences

CONSTANTS
    Clicks,       \* decisions that reviewers submit
    ModalClicks,  \* those submitted through the Slack modal
    Decisions,    \* what a click may carry
    Streams,      \* event streams that clients open
    PostCanFail   \* may the notifier's post to the proxy be lost or time out?

ASSUME ChannelAssumption ==
    /\ ModalClicks \subseteq Clicks
    /\ "pipeline" \notin Clicks
    /\ Decisions \subseteq {"APPROVE", "REJECT", "MODIFY", "REQUEST_PREREQUISITE"}
    /\ PostCanFail \in BOOLEAN

VARIABLES
    pc,        \* where the pipeline stands
    status,    \* record.status
    verdict,   \* record.contract.approval_state
    result,    \* has record.execution_result been set?
    owed,      \* tasks in _persist that have yet to notify the subscribers
    pending,   \* does the notifier's _pending hold the approval?
    click,     \* per click: how far it has come
    carried,   \* per click: the decision it carries, until it is dealt with
    spc,       \* per stream: where its generator stands
    subs,      \* streams whose queue is registered with the store
    queue,     \* per stream: the events waiting in its queue
    shown      \* per stream: the event sent last

recordVars == <<status, verdict, result>>
clickVars  == <<click, carried>>
streamVars == <<spc, subs, queue, shown>>
vars == <<pc, recordVars, owed, pending, clickVars, streamVars>>

Status == {"RUNNING", "PENDING_HUMAN_APPROVAL", "APPROVED", "REJECTED",
           "COMPLETED", "FAILED", "TIMED_OUT"}

\* _event_generator: the statuses that end a stream (AUTO_REJECTED and
\* AUTO_EXECUTED are never those of a record under review).
Terminal == {"APPROVED", "REJECTED", "COMPLETED", "FAILED", "TIMED_OUT"}

Event == [status: Status, result: BOOLEAN]

NoEvent == [status |-> "RUNNING", result |-> FALSE]

\* The events are statuses of the workflow, never of the approval alone.
TypeOK ==
    /\ pc \in {"analysis", "reanalysis", "entering", "reentering", "hr_status",
               "polling", "execution", "audit", "done"}
    /\ status \in Status
    /\ verdict \in {"PENDING", "APPROVED", "REJECTED", "MODIFIED", "TIMED_OUT"}
    /\ result \in BOOLEAN
    /\ owed \subseteq Clicks \cup {"pipeline"}
    /\ pending \in BOOLEAN
    /\ click \in [Clicks -> {"idle", "modal", "posted", "recorded", "accepted",
                             "refused", "lost"}]
    /\ carried \in [Clicks -> Decisions \cup {"APPROVE", "REJECT", "none"}]
    /\ spc \in [Streams -> {"idle", "first", "waiting", "yielded", "ended", "gone"}]
    /\ subs \subseteq Streams
    /\ queue \in [Streams -> Seq(Event)]
    /\ shown \in [Streams -> Event]

Init ==
    /\ pc = "analysis"
    /\ status = "RUNNING"
    /\ verdict = "PENDING"
    /\ result = FALSE
    /\ owed = {}
    /\ pending = FALSE
    /\ click = [c \in Clicks |-> "idle"]
    /\ carried = [c \in Clicks |-> "none"]
    /\ spc = [s \in Streams |-> "idle"]
    /\ subs = {}
    /\ queue = [s \in Streams |-> <<>>]
    /\ shown = [s \in Streams |-> NoEvent]

-----------------------------------------------------------------------------
(* The workflow store. *)

\* update_status, set_execution_result and record_decision change the record
\* and then wait in _persist before they notify.
Write(t, st, res) ==
    /\ t \notin owed
    /\ status' = st
    /\ result' = res
    /\ owed' = owed \cup {t}

\* Mutation: clients are shown the state of the approval, not of the workflow.
StatusResponseOfApproval ==
    [status |-> verdict,
     result |-> result /\ status \in {"APPROVED", "COMPLETED"}]

\* to_status_response: the result is shown with these statuses only.
StatusResponse ==
    [status |-> status,
     result |-> result /\ status \in {"APPROVED", "COMPLETED"}]

\* _notify_subscribers: the event is built from the record as it is now, and
\* put into every queue that is registered now.
NotifySubscribers(t) ==
    /\ t \in owed
    /\ owed' = owed \ {t}
    /\ queue' = [s \in Streams |-> IF s \in subs
                                   THEN Append(queue[s], StatusResponse)
                                   ELSE queue[s]]
    /\ UNCHANGED <<pc, recordVars, pending, clickVars, spc, subs, shown>>

-----------------------------------------------------------------------------
(* The pipeline, as far as the channel sees it. *)

Moves(from, to) ==
    /\ pc \in from
    /\ "pipeline" \notin owed
    /\ pc' = to

Route(v) ==
    CASE v = "APPROVED" -> "execution"
      [] v = "MODIFIED" -> "reanalysis"
      [] OTHER -> "audit"

\* send_approval_request: the approval joins (or stays on) the notifier's list.
\* A call that fails at the client may have been served; the review goes on.
SendApprovalRequest ==
    /\ pc \in {"analysis", "reanalysis"}
    /\ Moves({pc}, IF pc = "analysis" THEN "entering" ELSE "reentering")
    /\ pending' \in {TRUE, pending}
    /\ UNCHANGED <<recordVars, owed, clickVars, streamVars>>

\* First entry, undecided: update_contract (which notifies nobody).
EnterReview ==
    /\ Moves({"entering"}, "hr_status")
    /\ verdict = "PENDING"
    /\ UNCHANGED <<recordVars, owed, pending, clickVars, streamVars>>

\* Entry after a MODIFY: the same contract is undecided again.
ReenterReview ==
    /\ Moves({"reentering"}, "hr_status")
    /\ verdict' = "PENDING"
    /\ UNCHANGED <<status, result, owed, pending, clickVars, streamVars>>

\* A decision was recorded before the review was entered.
HonourEarlyDecision ==
    /\ Moves({"entering"}, Route(verdict))
    /\ verdict # "PENDING"
    /\ Write("pipeline", IF verdict = "MODIFIED" THEN "RUNNING" ELSE verdict, result)
    /\ UNCHANGED <<verdict, pending, clickVars, streamVars>>

SetPending ==
    /\ Moves({"hr_status"}, "polling")
    /\ Write("pipeline", "PENDING_HUMAN_APPROVAL", result)
    /\ UNCHANGED <<verdict, pending, clickVars, streamVars>>

Poll ==
    /\ Moves({"polling"}, Route(verdict))
    /\ verdict # "PENDING"
    /\ UNCHANGED <<recordVars, owed, pending, clickVars, streamVars>>

\* The deadline has passed without a decision.
Timeout ==
    /\ Moves({"polling"}, "audit")
    /\ verdict = "PENDING"
    /\ verdict' = "TIMED_OUT"
    /\ UNCHANGED <<status, result, owed, pending, clickVars, streamVars>>

\* set_execution_result, for a call that succeeded as for one that failed; the
\* status stays as it is.
Execute ==
    /\ Moves({"execution"}, "audit")
    /\ Write("pipeline", status, TRUE)
    /\ UNCHANGED <<verdict, pending, clickVars, streamVars>>

\* run_execution returns early, without a result.
ExecutionBlocked ==
    /\ Moves({"execution"}, "audit")
    /\ UNCHANGED <<recordVars, owed, pending, clickVars, streamVars>>

\* The final status of _run_pipeline.
Finish ==
    /\ Moves({"audit"}, "done")
    /\ Write("pipeline", CASE verdict = "MODIFIED" -> "RUNNING"
                           [] verdict \in {"REJECTED", "TIMED_OUT"} -> verdict
                           [] OTHER -> "COMPLETED", result)
    /\ UNCHANGED <<verdict, pending, clickVars, streamVars>>

\* Its except clause: a node has raised.
Fail ==
    /\ Moves({"analysis", "reanalysis", "entering", "reentering", "execution",
              "audit"}, "done")
    /\ Write("pipeline", "FAILED", result)
    /\ UNCHANGED <<verdict, pending, clickVars, streamVars>>

-----------------------------------------------------------------------------
(* Decisions. *)

\* The notifier's record_decision (an MCP tool, and the /dev endpoints): takes
\* the approval off its list and posts the decision to the proxy, once.
Click(c, d) ==
    /\ c \notin ModalClicks
    /\ click[c] = "idle"
    /\ pending' = FALSE
    /\ click' = [click EXCEPT ![c] = "posted"]
    /\ carried' = [carried EXCEPT ![c] = d]
    /\ UNCHANGED <<pc, recordVars, owed, streamVars>>

\* A button in Slack opens a modal; views.open may fail, and then nothing does.
OpenModal(c) ==
    /\ c \in ModalClicks
    /\ click[c] = "idle"
    /\ click' = [click EXCEPT ![c] = "modal"]
    /\ UNCHANGED <<pc, recordVars, owed, pending, carried, streamVars>>

\* The modal is submitted to the proxy itself (with a reason that is too short
\* it stays open).
SubmitModal(c, d) ==
    /\ click[c] = "modal"
    /\ click' = [click EXCEPT ![c] = "posted"]
    /\ carried' = [carried EXCEPT ![c] = d]
    /\ UNCHANGED <<pc, recordVars, owed, pending, streamVars>>

\* The post fails before it reaches the proxy: logged, never repeated, and the
\* reviewer is told "recorded": True.  (A post that times out with the request
\* under way changes nothing more.)
PostLost(c) ==
    /\ PostCanFail
    /\ c \notin ModalClicks
    /\ click[c] = "posted"
    /\ click' = [click EXCEPT ![c] = "lost"]
    /\ carried' = [carried EXCEPT ![c] = "none"]
    /\ UNCHANGED <<pc, recordVars, owed, pending, streamVars>>

\* Mutation: decisions are taken only while the record is in the queue.
OpenWhenQueued == verdict = "PENDING" /\ status = "PENDING_HUMAN_APPROVAL"

\* WorkflowStore.record_decision takes a decision while there is none.
Open == verdict = "PENDING"

\* POST /v1/decisions and the Slack handler, first half; the subscribers hear
\* of it (the record's status is still the old one).
RecordDecision(c) ==
    /\ click[c] = "posted"
    /\ Open
    /\ Write(c, status, result)
    /\ verdict' = CASE carried[c] = "APPROVE" -> "APPROVED"
                    [] carried[c] = "MODIFY" -> "MODIFIED"
                    [] OTHER -> "REJECTED"
    /\ click' = [click EXCEPT ![c] = "recorded"]
    /\ UNCHANGED <<pc, pending, carried, streamVars>>

\* 409: already decided.  The notifier does not look at the answer and Slack is
\* told to close the modal: neither reviewer learns of it.
RefuseDecision(c) ==
    /\ click[c] = "posted"
    /\ ~Open
    /\ click' = [click EXCEPT ![c] = "refused"]
    /\ carried' = [carried EXCEPT ![c] = "none"]
    /\ UNCHANGED <<pc, recordVars, owed, pending, streamVars>>

\* Second half: the status that goes with the decision.
UpdateStatus(c) ==
    /\ click[c] = "recorded"
    /\ Write(c, CASE carried[c] = "APPROVE" -> "APPROVED"
                  [] carried[c] = "MODIFY" -> "RUNNING"
                  [] OTHER -> "REJECTED", result)
    /\ click' = [click EXCEPT ![c] = "accepted"]
    /\ carried' = [carried EXCEPT ![c] = "none"]
    /\ UNCHANGED <<verdict, pc, pending, streamVars>>

-----------------------------------------------------------------------------
(* An event stream: the generator of stream_approval_status.  At a yield it *)
(* is suspended until the client has taken the event.                       *)

Goes(s, place) == spc' = [spc EXCEPT ![s] = place]

\* The queue goes with the generator.
Unsubscribe(s) ==
    /\ subs' = subs \ {s}
    /\ queue' = [queue EXCEPT ![s] = <<>>]

\* Mutation: the generator reads the record before it subscribes.
ConnectUnsubscribed(s) ==
    /\ spc[s] = "idle"
    /\ Goes(s, "first")
    /\ shown' = [shown EXCEPT ![s] = StatusResponse]
    /\ UNCHANGED <<pc, recordVars, owed, pending, clickVars, queue, subs>>

\* Subscribes, and sends the record as it is.
Connect(s) ==
    /\ spc[s] = "idle"
    /\ subs' = subs \cup {s}
    /\ shown' = [shown EXCEPT ![s] = StatusResponse]
    /\ Goes(s, "first")
    /\ UNCHANGED <<pc, recordVars, owed, pending, clickVars, queue>>

\* Mutation: the first event never ends the stream.
ResumeAlways(s) ==
    /\ spc[s] = "first"
    /\ Goes(s, "waiting")
    /\ UNCHANGED <<pc, recordVars, owed, pending, clickVars, queue, shown, subs>>

\* After the first event the test is made on the record, not on what was sent.
Resume(s) ==
    /\ spc[s] = "first"
    /\ IF status \in Terminal
       THEN Goes(s, "ended") /\ Unsubscribe(s)
       ELSE Goes(s, "waiting") /\ UNCHANGED <<subs, queue>>
    /\ UNCHANGED <<pc, recordVars, owed, pending, clickVars, shown>>

\* An event from the queue is sent.  (After 30 seconds without one a comment
\* line is sent, which changes nothing.)
Send(s) ==
    /\ spc[s] = "waiting"
    /\ queue[s] # <<>>
    /\ shown' = [shown EXCEPT ![s] = Head(queue[s])]
    /\ queue' = [queue EXCEPT ![s] = Tail(@)]
    /\ Goes(s, "yielded")
    /\ UNCHANGED <<pc, recordVars, owed, pending, clickVars, subs>>

\* After a later event the test is made on the event.
Continue(s) ==
    /\ spc[s] = "yielded"
    /\ IF shown[s].status \in Terminal
       THEN Goes(s, "ended") /\ Unsubscribe(s)
       ELSE Goes(s, "waiting") /\ UNCHANGED <<subs, queue>>
    /\ UNCHANGED <<pc, recordVars, owed, pending, clickVars, shown>>

\* Mutation: only a stream that ends by itself unsubscribes.
DisconnectSubscribed(s) ==
    /\ spc[s] \in {"first", "waiting", "yielded"}
    /\ Goes(s, "gone")
    /\ UNCHANGED <<pc, recordVars, owed, pending, clickVars, queue, shown, subs>>

\* The client goes away; the finally clause runs.
Disconnect(s) ==
    /\ spc[s] \in {"first", "waiting", "yielded"}
    /\ Goes(s, "gone")
    /\ Unsubscribe(s)
    /\ shown' = [shown EXCEPT ![s] = NoEvent]
    /\ UNCHANGED <<pc, recordVars, owed, pending, clickVars>>

-----------------------------------------------------------------------------

PipelineStep ==
    \/ SendApprovalRequest \/ EnterReview \/ ReenterReview \/ HonourEarlyDecision
    \/ SetPending \/ Poll \/ Timeout \/ Execute \/ ExecutionBlocked \/ Finish \/ Fail

HandlerStep(c) == RecordDecision(c) \/ RefuseDecision(c) \/ UpdateStatus(c)

StreamStep(s) == Resume(s) \/ Send(s) \/ Continue(s)

\* Nothing is under way any more.
Settled ==
    /\ pc = "done" /\ owed = {}
    /\ \A c \in Clicks : click[c] \notin {"posted", "recorded"}
    /\ \A s \in Streams : \/ spc[s] \in {"ended", "gone"}
                          \/ spc[s] = "waiting" /\ queue[s] = <<>>

Next ==
    \/ PipelineStep
    \/ \E t \in owed : NotifySubscribers(t)
    \/ \E c \in Clicks :
         \/ \E d \in Decisions : Click(c, d)
         \/ \E d \in {"APPROVE", "REJECT"} : SubmitModal(c, d)
         \/ OpenModal(c)
         \/ PostLost(c)
         \/ HandlerStep(c)
    \/ \E s \in Streams : Connect(s) \/ StreamStep(s) \/ Disconnect(s)
    \/ Settled /\ UNCHANGED vars

Spec == Init /\ [][Next]_vars

(***************************************************************************)
(* Fairness: runnable tasks run, an upsert ends, a request that has        *)
(* arrived is served, and a connected client takes what it is sent.        *)
(* Reviewers need not click and clients need not connect.                  *)
(***************************************************************************)
Fairness ==
    /\ WF_vars(PipelineStep)
    /\ \A t \in Clicks \cup {"pipeline"} : WF_vars(NotifySubscribers(t))
    /\ \A c \in Clicks : WF_vars(HandlerStep(c))
    /\ \A s \in Streams : WF_vars(StreamStep(s))

FairSpec == Spec /\ Fairness

-----------------------------------------------------------------------------

\* A stream that waits with an empty queue has sent the record as it is, or a
\* task is about to notify it: no update falls between the generator's first
\* read and its queue, however the writers overtake one another.
NoUpdateMissed ==
    \A s \in Streams :
        spc[s] = "waiting" /\ queue[s] = <<>> /\ owed = {}
            => shown[s] = StatusResponse

\* The store feeds exactly the queues somebody reads: a stream that has ended,
\* or whose client has gone, leaves no queue behind to grow for ever.
OnlyReadersFed ==
    subs = {s \in Streams : spc[s] \in {"first", "waiting", "yielded"}}

\* The decisions the store has taken.
Accepted == {c \in Clicks : click[c] \in {"recorded", "accepted"}}

\* A decision is refused (409) only because another one was taken before it or
\* the review was over; one made before the review was entered counts.
RefusedOnlyIfBeaten ==
    \A c \in Clicks :
        click[c] = "refused" => Accepted # {} \/ verdict = "TIMED_OUT"

\* Once the record stays in a terminal status every stream ends, also one that
\* was opened afterwards.
StreamsEnd ==
    \A s \in Streams :
        <>[](status \in Terminal) =>
            []<>(spc[s] \in {"idle", "ended", "gone"})

\* "The stream terminates when the workflow reaches a terminal state", each
\* update being sent: a stream that ended by itself has sent a terminal status.
EndIsShown ==
    \A s \in Streams : spc[s] = "ended" => shown[s].status \in Terminal

=============================================================================
