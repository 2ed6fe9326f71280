-------------------------- MODULE ApprovalWorkflow --------------------------
(***************************************************************************)
(* The life of ONE intercepted operation of ContraGate: the proxy endpoint *)
(* that creates its workflow record, the background pipeline (the compiled *)
(* LangGraph of orchestrator/graph.py), the workflow store shared by both, *)
(* the HTTP handlers through which humans decide, and the process restart. *)
(* Records are keyed by operation_id and never refer to one another, so    *)
(* one operation is enough.                                                *)
(*                                                                         *)
(* All tasks run on one asyncio loop: a task is suspended only at an       *)
(* await that really waits.  The bodies under WorkflowStore._lock contain  *)
(* none, so each is one step; the awaits are the two of _persist (a pool   *)
(* connection, then the upsert), the calls to MCP servers and the polling  *)
(* sleep.                                                                  *)
(***************************************************************************)
EXTENDS Naturals

CONSTANTS
    Handlers,        \* requests that carry a human decision
    SlackHandlers,   \* those that arrive through the Slack webhook
    Replies,         \* how a call to an MCP server may end at the client
    RecursionLimit,  \* supersteps LangGraph grants one run of the graph
    DbCanFail,       \* may an upsert fail (_persist logs it and goes on)?
    LateEntry,       \* may the writes on entry to HUMAN_REVIEW outlast the
                     \* review window, whose clock starts before them?
    MaxRestarts      \* bound: how often the process is restarted

ASSUME ConstantsAssumption ==
    /\ SlackHandlers \subseteq Handlers
    /\ "pipeline" \notin Handlers
    /\ Replies \subseteq {"ok", "error", "raise"}
    /\ "error" \in Replies  \* a call can always time out
    /\ RecursionLimit \in Nat
    /\ DbCanFail \in BOOLEAN
    /\ LateEntry \in BOOLEAN
    /\ MaxRestarts \in Nat

VARIABLES
    pc,        \* where the proxy request, then its background task, stands
    steps,     \* supersteps the graph has used
    gate,      \* routing of the proxy's quick_check
    manifest,  \* the tool-call manifest: its keys, and the keys it hashes
    contract,  \* the two HandoffContract objects (see Objects)
    rec,       \* the in-memory WorkflowRecord
    row,       \* its row in PostgreSQL
    io, snap,  \* per task: the _persist under way and the row it carries
    hpc, hdec, \* per handler: progress, and the decision it carries
    call,      \* the call to the target MCP server
    target,    \* how often the target has executed the operation
    audit,     \* what run_audit has sent to the audit logger
    restarts,  \* restarts so far
    history    \* history variable: the decisions the store has accepted

vars == <<pc, steps, gate, manifest, contract, rec, row, io, snap, hpc, hdec,
          call, target, audit, restarts, history>>

\* What no step of the background task touches, and no step of a handler.
pipelineFrame == <<gate, manifest, row, snap, hpc, hdec, restarts, history>>
handlerFrame  == <<pc, steps, gate, manifest, row, snap, call, target, audit,
                   restarts>>
dbFrame       == <<pc, steps, gate, manifest, contract, rec, hpc, hdec, call,
                   target, audit, restarts, history>>

Tasks == Handlers \cup {"pipeline"}

(***************************************************************************)
(* run_intake runs twice, once in the proxy and once as the graph's INTAKE *)
(* node, so there are two contract objects.  rec.ref says which one the    *)
(* record points to: "seed" until the pipeline's first update_contract,    *)
(* "pipe" from then on, and from then on a decision is written straight    *)
(* into the object the pipeline works on.                                  *)
(***************************************************************************)
Objects == {"seed", "pipe"}

ApprovalState == {"PENDING", "APPROVED", "REJECTED", "MODIFIED",
                  "AUTO_REJECTED", "TIMED_OUT"}

Decision == {"APPROVE", "REJECT", "MODIFY", "REQUEST_PREREQUISITE"}

WorkflowStatus == {"RUNNING", "PENDING_HUMAN_APPROVAL", "APPROVED", "REJECTED",
                   "AUTO_REJECTED", "AUTO_EXECUTED", "COMPLETED", "FAILED",
                   "TIMED_OUT"}

Outcome == {"AUTO_REJECTED", "TIMED_OUT", "REJECTED", "MODIFIED",
            "APPROVED_EXECUTED", "APPROVED_EXECUTION_FAILED", "UNKNOWN"}

\* The tool of the audit logger, which names the event, and the outcome in the
\* payload.
AuditRecord == [tool: {"none", "log_execution", "log_auto_reject"},
                outcome: Outcome \cup {"none"}]

NoAudit == [tool |-> "none", outcome |-> "none"]

\* approval_state, human_decision, auto_reject_triggered ("hard"),
\* execution_success, and "rev": how often CONTRACT has assembled the contract.
HandoffContract ==
    [approval: ApprovalState, decision: Decision \cup {"none"},
     policy: {"clear", "hard"}, rev: Nat, execution: {"none", "ok", "failed"}]

NewContract == [approval |-> "PENDING", decision |-> "none",
                policy |-> "clear", rev |-> 0, execution |-> "none"]

\* status "ABSENT": the store holds no record (the table no row).
WorkflowRecord == [status: WorkflowStatus \cup {"ABSENT"}, ref: Objects,
                   result: {"none", "success", "failure"}]

NoRecord == [status |-> "ABSENT", ref |-> "seed", result |-> "none"]

Row == [status: WorkflowStatus \cup {"ABSENT"}, contract: HandoffContract,
        result: {"none", "success", "failure"}]

NoRow == [status |-> "ABSENT", contract |-> NewContract, result |-> "none"]

ManifestKeys == {"call", "operation_id"}

Nodes == {"intake", "risk_gate", "analysis", "context_sim", "contract",
          "human_review", "execution", "audit"}

PipelinePc == Nodes \cup
    {"intercept", "auto_executing", "answered", "created", "notified",
     "hr_status", "hr_honour", "hr_loop", "polling", "executing", "finish",
     "finish_status", "done", "dead"}

TypeOK ==
    /\ pc \in PipelinePc
    /\ steps \in 0..RecursionLimit
    /\ gate \in {"none", "auto_reject", "auto_execute", "full_pipeline"}
    /\ manifest \in [keys: SUBSET ManifestKeys, hash: SUBSET ManifestKeys]
    /\ contract \in [Objects -> HandoffContract]
    /\ rec \in WorkflowRecord
    /\ row \in Row
    /\ io \in [Tasks -> {"idle", "acquire", "sent"}]
    /\ snap \in [Tasks -> Row]
    /\ hpc \in [Handlers -> {"idle", "recorded", "status", "answered",
                             "refused", "dropped"}]
    /\ hdec \in [Handlers -> Decision \cup {"none"}]
    /\ call \in {"none", "sent", "lost", "ran"}
    /\ target \in Nat
    /\ audit \in AuditRecord
    /\ restarts \in 0..MaxRestarts
    /\ history \in [last: Decision \cup {"none"}, rev: Nat, verdicts: Nat]

Init ==
    /\ pc = "intercept"
    /\ steps = 0
    /\ gate = "none"
    /\ manifest = [keys |-> {"call"}, hash |-> {"call"}]
    /\ contract = [o \in Objects |-> NewContract]
    /\ rec = NoRecord
    /\ row = NoRow
    /\ io = [t \in Tasks |-> "idle"]
    /\ snap = [t \in Tasks |-> NoRow]
    /\ hpc = [h \in Handlers |-> "idle"]
    /\ hdec = [h \in Handlers |-> "none"]
    /\ call = "none"
    /\ target = 0
    /\ audit = NoAudit
    /\ restarts = 0
    /\ history = [last |-> "none", rev |-> 0, verdicts |-> 0]

-----------------------------------------------------------------------------
(* The pure parts of the code.  A definition whose comment begins with      *)
(* "Mutation" is a faulty variant of the definition after it, used to show  *)
(* that a property notices the fault; no specification refers to it.        *)

\* record_decision: decision_map.
DecisionState(d) ==
    CASE d = "APPROVE" -> "APPROVED"
      [] d = "MODIFY"  -> "MODIFIED"
      [] OTHER         -> "REJECTED"

\* POST /v1/decisions and the Slack handler: status_map.
DecisionStatus(d) ==
    CASE d = "APPROVE" -> "APPROVED"
      [] d = "MODIFY"  -> "RUNNING"
      [] OTHER         -> "REJECTED"

\* The decision fields of c replaced by those of d, as human_review and
\* update_contract copy them.
WithDecision(c, d) == [c EXCEPT !.approval = d.approval, !.decision = d.decision]

WithApproval(c, a) == [c EXCEPT !.approval = a]

\* Mutation: only an approval is final.
UndecidedUnlessApproved(c) == c.approval # "APPROVED"

\* Mutation: a contract sent back by MODIFY counts as undecided.
UndecidedWhenModified(c) == c.approval \in {"PENDING", "MODIFIED"}

\* record_decision refuses unless the stored contract is undecided.
Undecided(c) == c.approval = "PENDING"

\* Mutation: only approvals are kept.
KeptApprovals == {"APPROVED"}

\* update_contract: the states it never overwrites.
KeptStates == {"APPROVED", "REJECTED", "TIMED_OUT"}

\* Mutation: routes on the decision, with execution as the default.
RouteOnDecision(c) ==
    CASE c.decision = "MODIFY" -> "analysis"
      [] c.decision = "REJECT" -> "audit"
      [] OTHER                 -> "execution"

\* route_from_human_review, composed with the edges of build_graph.
RouteReview(c) ==
    CASE c.approval = "APPROVED" -> "execution"
      [] c.approval = "MODIFIED" -> "analysis"
      [] OTHER                   -> "audit"

\* _pre_status_map of run_human_review.
HonouredStatus(a) ==
    CASE a = "MODIFIED" -> "RUNNING"
      [] a \in {"APPROVED", "TIMED_OUT"} -> a
      [] OTHER -> "REJECTED"

\* Mutation: the approval state is taken for a status.
FinalStatusUnmapped(a) == a

\* state_map of _run_pipeline.
FinalStatus(a) ==
    CASE a = "MODIFIED" -> "RUNNING"
      [] a \in {"REJECTED", "AUTO_REJECTED", "TIMED_OUT"} -> a
      [] OTHER -> "COMPLETED"

\* Mutation: an approved operation counts as executed.
DetermineOutcomeOptimistic(c) ==
    IF c.approval = "AUTO_REJECTED" \/ c.policy = "hard" THEN "AUTO_REJECTED"
    ELSE CASE c.approval \in {"TIMED_OUT", "REJECTED", "MODIFIED"} -> c.approval
           [] c.approval = "APPROVED" -> "APPROVED_EXECUTED"
           [] OTHER -> "UNKNOWN"

\* _determine_outcome.
DetermineOutcome(c) ==
    IF c.approval = "AUTO_REJECTED" \/ c.policy = "hard" THEN "AUTO_REJECTED"
    ELSE CASE c.approval \in {"TIMED_OUT", "REJECTED", "MODIFIED"} -> c.approval
           [] c.approval = "APPROVED" /\ c.execution = "ok" -> "APPROVED_EXECUTED"
           [] c.approval = "APPROVED" /\ c.execution # "ok" -> "APPROVED_EXECUTION_FAILED"
           [] OTHER -> "UNKNOWN"

\* What run_audit sends: everything without a success goes to log_auto_reject,
\* an approved operation whose call failed or timed out included.
AuditOf(c) ==
    [tool    |-> IF c.execution = "ok" THEN "log_execution" ELSE "log_auto_reject",
     outcome |-> DetermineOutcome(c)]

\* Mutation: the hash is not taken again.
BindManifestOnly(m) == [m EXCEPT !.keys = @ \cup {"operation_id"}]

\* intercept_tool_call: the operation_id joins the manifest and the hash is
\* taken again over every key.
BindManifest(m) == [keys |-> m.keys \cup {"operation_id"},
                    hash |-> m.keys \cup {"operation_id"}]

\* run_execution's two early returns.
ExecutionBlocked == rec.result # "none" \/ manifest.hash # manifest.keys

-----------------------------------------------------------------------------
(* The workflow store. *)

Stored == contract[rec.ref]

\* The awaits of _persist start with the wait for a pool connection.
Persist(t) == io' = [io EXCEPT ![t] = "acquire"]

SetStatus(t, status) ==
    /\ rec' = [rec EXCEPT !.status = status]
    /\ Persist(t)

\* update_contract(id, c), c being the pipeline's object with the fields it
\* has by then; once the record points to that object, it is compared with
\* itself.
Merged(c) ==
    LET existing == IF rec.ref = "pipe" THEN c ELSE contract["seed"]
    IN  IF existing.approval \in KeptStates
        THEN WithDecision(c, existing) ELSE c

UpdateContract(c) ==
    /\ contract' = [contract EXCEPT !["pipe"] = Merged(c)]
    /\ rec' = [rec EXCEPT !.ref = "pipe"]
    /\ Persist("pipeline")

\* A connection is there: the row is serialised from the record as it is now.
Acquire(t) ==
    /\ io[t] = "acquire"
    /\ io' = [io EXCEPT ![t] = "sent"]
    /\ snap' = [snap EXCEPT ![t] = [status |-> rec.status, contract |-> Stored,
                                    result |-> rec.result]]
    /\ UNCHANGED <<dbFrame, row>>

\* The upsert replaces the whole row, whichever version it finds there.
Commit(t) ==
    /\ io[t] = "sent"
    /\ io' = [io EXCEPT ![t] = "idle"]
    /\ row' = snap[t]
    /\ snap' = [snap EXCEPT ![t] = NoRow]
    /\ UNCHANGED dbFrame

\* _persist swallows every exception.
PersistFails(t) ==
    /\ DbCanFail
    /\ io[t] # "idle"
    /\ io' = [io EXCEPT ![t] = "idle"]
    /\ snap' = [snap EXCEPT ![t] = NoRow]
    /\ UNCHANGED <<dbFrame, row>>

-----------------------------------------------------------------------------
(* The proxy endpoint: intercept_tool_call. *)

AutoReject ==
    /\ pc = "intercept"
    /\ gate' = "auto_reject"
    /\ pc' = "answered"
    /\ UNCHANGED <<steps, manifest, contract, rec, row, io, snap, hpc, hdec,
                   call, target, audit, restarts, history>>

AutoExecute ==
    /\ pc = "intercept"
    /\ gate' = "auto_execute"
    /\ call' = "sent"
    /\ pc' = "auto_executing"
    /\ UNCHANGED <<steps, manifest, contract, rec, row, io, snap, hpc, hdec,
                   target, audit, restarts, history>>

\* AUTO_EXECUTED when the target answered, 502 otherwise.
AutoExecuteReturns ==
    /\ pc = "auto_executing"
    /\ pc' = "answered"
    /\ UNCHANGED <<pipelineFrame, steps, contract, rec, io, call, target, audit>>

\* Mutation: the record enters the review queue at once.
CreateQueued ==
    /\ pc = "intercept"
    /\ gate' = "full_pipeline"
    /\ manifest' = BindManifest(manifest)
    /\ contract' = [contract EXCEPT !["seed"] = NewContract]
    /\ rec' = [status |-> "PENDING_HUMAN_APPROVAL", ref |-> "seed", result |-> "none"]
    /\ Persist("pipeline")
    /\ pc' = "created"
    /\ UNCHANGED <<steps, row, snap, hpc, hdec, call, target, audit,
                   restarts, history>>

\* run_intake, the manifest bound to the operation_id, workflow_store.create.
Create ==
    /\ pc = "intercept"
    /\ gate' = "full_pipeline"
    /\ manifest' = BindManifest(manifest)
    /\ contract' = [contract EXCEPT !["seed"] = NewContract]
    /\ rec' = [status |-> "RUNNING", ref |-> "seed", result |-> "none"]
    /\ Persist("pipeline")
    /\ pc' = "created"
    /\ UNCHANGED <<steps, row, snap, hpc, hdec, call, target, audit,
                   restarts, history>>

-----------------------------------------------------------------------------
(* The background task _run_pipeline and the nodes of the graph. *)

\* A step of the task needs its last store operation to have returned.
At(place) == pc = place /\ io["pipeline"] = "idle"

EnterNode(n) ==
    /\ At(n)
    /\ steps < RecursionLimit
    /\ steps' = steps + 1

\* The except clause of _run_pipeline.
Fail ==
    /\ SetStatus("pipeline", "FAILED")
    /\ pc' = "done"

StartRun ==
    /\ At("created")
    /\ SetStatus("pipeline", "RUNNING")
    /\ pc' = "intake"
    /\ UNCHANGED <<pipelineFrame, steps, contract, call, target, audit>>

Intake ==
    /\ EnterNode("intake")
    /\ contract' = [contract EXCEPT !["pipe"] = NewContract]
    /\ pc' = "risk_gate"
    /\ UNCHANGED <<pipelineFrame, rec, io, call, target, audit>>

PolicyRejected(c) == [c EXCEPT !.policy = "hard", !.approval = "AUTO_REJECTED"]

\* run_risk_gate and route_from_risk_gate; both fast paths lead to AUDIT.
RiskGate ==
    /\ EnterNode("risk_gate")
    /\ \E route \in {"auto_reject", "auto_execute", "full_pipeline"} :
         /\ contract' = IF route = "auto_reject"
                        THEN [contract EXCEPT !["pipe"] = PolicyRejected(@)]
                        ELSE contract
         /\ pc' = IF route = "full_pipeline" THEN "analysis" ELSE "audit"
    /\ UNCHANGED <<pipelineFrame, rec, io, call, target, audit>>

Analyze ==
    /\ EnterNode("analysis")
    /\ pc' = "context_sim"
    /\ UNCHANGED <<pipelineFrame, contract, rec, io, call, target, audit>>

ContextSim ==
    /\ EnterNode("context_sim")
    /\ pc' = "contract"
    /\ UNCHANGED <<pipelineFrame, contract, rec, io, call, target, audit>>

Assembled(c) == [c EXCEPT !.rev = @ + 1]

Assemble ==
    /\ EnterNode("contract")
    /\ contract' = [contract EXCEPT !["pipe"] = Assembled(@)]
    /\ pc' = "human_review"
    /\ UNCHANGED <<pipelineFrame, rec, io, call, target, audit>>

\* run_human_review up to its first await, the call of the notifier.
Notify ==
    /\ EnterNode("human_review")
    /\ pc' = "notified"
    /\ UNCHANGED <<pipelineFrame, contract, rec, io, call, target, audit>>

\* Re-entry after MODIFY: the same contract object is made undecided again.
ReenterReview ==
    /\ At("notified")
    /\ contract["pipe"].approval = "MODIFIED"
    /\ UpdateContract(WithApproval(contract["pipe"], "PENDING"))
    /\ pc' = "hr_status"
    /\ UNCHANGED <<pipelineFrame, steps, call, target, audit>>

\* First entry, and a decision was recorded before the pipeline got here.
HonourEarlyDecision ==
    /\ At("notified")
    /\ contract["pipe"].approval # "MODIFIED"
    /\ Stored.approval # "PENDING"
    /\ UpdateContract(WithDecision(contract["pipe"], Stored))
    /\ pc' = "hr_honour"
    /\ UNCHANGED <<pipelineFrame, steps, call, target, audit>>

\* First entry, undecided.
EnterReview ==
    /\ At("notified")
    /\ contract["pipe"].approval # "MODIFIED"
    /\ Stored.approval = "PENDING"
    /\ UpdateContract(contract["pipe"])
    /\ pc' = "hr_status"
    /\ UNCHANGED <<pipelineFrame, steps, call, target, audit>>

HonourStatus ==
    /\ At("hr_honour")
    /\ SetStatus("pipeline", HonouredStatus(contract["pipe"].approval))
    /\ pc' = RouteReview(contract["pipe"])
    /\ UNCHANGED <<pipelineFrame, steps, contract, call, target, audit>>

SetPending ==
    /\ At("hr_status")
    /\ SetStatus("pipeline", "PENDING_HUMAN_APPROVAL")
    /\ pc' = "hr_loop"
    /\ UNCHANGED <<pipelineFrame, steps, contract, call, target, audit>>

EnterLoop ==
    /\ At("hr_loop")
    /\ pc' = "polling"
    /\ UNCHANGED <<pipelineFrame, steps, contract, rec, io, call, target, audit>>

\* The deadline has passed before the loop is tested for the first time: its
\* else branch runs without a look at the store.
LateTimeout ==
    /\ LateEntry
    /\ At("hr_loop")
    /\ contract' = [contract EXCEPT !["pipe"] = WithApproval(@, "TIMED_OUT")]
    /\ pc' = "audit"
    /\ UNCHANGED <<pipelineFrame, steps, rec, io, call, target, audit>>

\* One turn of the polling loop that finds a decision.  (A turn that finds
\* none before the deadline changes nothing.)
Poll ==
    /\ At("polling")
    /\ Stored.approval # "PENDING"
    /\ contract' = [contract EXCEPT !["pipe"] = WithDecision(@, Stored)]
    /\ pc' = RouteReview(Stored)
    /\ UNCHANGED <<pipelineFrame, steps, rec, io, call, target, audit>>

\* Mutation: the loop has no deadline.
TimeoutIgnored ==
    /\ At("polling")
    /\ Stored.approval = "PENDING"
    /\ UNCHANGED vars

\* The last turn found none, and the deadline has passed.
Timeout ==
    /\ At("polling")
    /\ Stored.approval = "PENDING"
    /\ contract' = [contract EXCEPT !["pipe"] = WithApproval(@, "TIMED_OUT")]
    /\ pc' = "audit"
    /\ UNCHANGED <<pipelineFrame, steps, rec, io, call, target, audit>>

Executed(c, result) == [c EXCEPT !.execution = result]

\* run_execution up to the call of the target, or one of its early returns.
Execute ==
    /\ EnterNode("execution")
    /\ IF ExecutionBlocked
       THEN /\ contract' = [contract EXCEPT !["pipe"] =
                    Executed(@, IF rec.result # "none" THEN "ok" ELSE "failed")]
            /\ pc' = "audit"
            /\ UNCHANGED call
       ELSE /\ call' = "sent"
            /\ pc' = "executing"
            /\ UNCHANGED contract
    /\ UNCHANGED <<pipelineFrame, rec, io, target, audit>>

\* The request reaches the target, or is lost on the way.  After a timeout at
\* the client the target may still run it.
TargetRuns ==
    /\ call = "sent"
    /\ call' = "ran"
    /\ target' = target + 1
    /\ UNCHANGED <<pc, steps, gate, manifest, contract, rec, row, io, snap, hpc,
                   hdec, audit, restarts, history>>

TargetLost ==
    /\ call = "sent"
    /\ call' = "lost"
    /\ UNCHANGED <<pc, steps, gate, manifest, contract, rec, row, io, snap, hpc,
                   hdec, target, audit, restarts, history>>

\* Mutation: a failed call is made again.
ExecutionRetried ==
    /\ At("executing")
    /\ pc' = "execution"
    /\ UNCHANGED <<pipelineFrame, steps, contract, rec, io, call, target, audit>>

\* The call returns: with a result only if the target ran it, with
\* MCPCallError (timeout, HTTP status, error in the answer) in any case.
ExecutionReturns ==
    /\ At("executing")
    /\ \E reply \in Replies \ {"raise"} :
         /\ reply = "ok" => call = "ran"
         /\ contract' = [contract EXCEPT !["pipe"] =
                Executed(@, IF reply = "ok" THEN "ok" ELSE "failed")]
         /\ rec' = [rec EXCEPT !.result = IF reply = "ok" THEN "success"
                                          ELSE "failure"]
    /\ Persist("pipeline")
    /\ pc' = "audit"
    /\ UNCHANGED <<pipelineFrame, steps, call, target, audit>>

\* run_audit: the audit logger, then the memory store.  Only MCPCallError is
\* caught, and a call that failed at the client may have been served.
RunAudit ==
    /\ EnterNode("audit")
    /\ \E reply \in Replies :
         /\ audit' \in {AuditOf(contract["pipe"])}
                       \cup (IF reply = "ok" THEN {} ELSE {audit})
         /\ IF reply = "raise" THEN Fail
            ELSE pc' = "finish" /\ UNCHANGED <<rec, io>>
    /\ UNCHANGED <<pipelineFrame, contract, call, target>>

\* An exception other than MCPCallError leaves a node that awaits MCP calls.
NodeRaises ==
    /\ "raise" \in Replies
    /\ \E place \in {"risk_gate", "analysis", "notified", "executing"} : At(place)
    /\ Fail
    /\ UNCHANGED <<pipelineFrame, steps, contract, call, target, audit>>

\* GraphRecursionError.
RecursionExceeded ==
    /\ \E n \in Nodes : At(n)
    /\ steps = RecursionLimit
    /\ Fail
    /\ UNCHANGED <<pipelineFrame, steps, contract, call, target, audit>>

Finish ==
    /\ At("finish")
    /\ UpdateContract(contract["pipe"])
    /\ pc' = "finish_status"
    /\ UNCHANGED <<pipelineFrame, steps, call, target, audit>>

\* Mutation: the run ends without a final status.
FinishSilently ==
    /\ At("finish_status")
    /\ pc' = "done"
    /\ UNCHANGED <<pipelineFrame, steps, contract, rec, io, call, target, audit>>

FinishStatus ==
    /\ At("finish_status")
    /\ SetStatus("pipeline", FinalStatus(contract["pipe"].approval))
    /\ pc' = "done"
    /\ UNCHANGED <<pipelineFrame, steps, contract, call, target, audit>>

-----------------------------------------------------------------------------
(* The decision handlers: POST /v1/decisions and the Slack modal. *)

MayCarry(h) == IF h \in SlackHandlers THEN {"APPROVE", "REJECT"} ELSE Decision

Decided(c, d) == [c EXCEPT !.approval = DecisionState(d), !.decision = d]

\* record_decision accepts the decision.
Decide(h) ==
    /\ hpc[h] = "idle"
    /\ rec.status # "ABSENT"
    /\ Undecided(Stored)
    /\ \E d \in MayCarry(h) :
         /\ contract' = [contract EXCEPT ![rec.ref] = Decided(@, d)]
         /\ hdec' = [hdec EXCEPT ![h] = d]
         /\ history' = [last |-> d, rev |-> Stored.rev,
                        verdicts |-> history.verdicts
                                     + (IF d = "MODIFY" THEN 0 ELSE 1)]
    /\ hpc' = [hpc EXCEPT ![h] = "recorded"]
    /\ Persist(h)
    /\ UNCHANGED <<handlerFrame, rec>>

\* No record, or already decided: 409 (Slack closes the modal).
Refuse(h) ==
    /\ hpc[h] = "idle"
    /\ rec.status = "ABSENT" \/ ~Undecided(Stored)
    /\ hpc' = [hpc EXCEPT ![h] = "refused"]
    /\ UNCHANGED <<handlerFrame, contract, rec, io, hdec, history>>

\* The update_status that follows an accepted decision.
DecisionUpdatesStatus(h) ==
    /\ hpc[h] = "recorded"
    /\ io[h] = "idle"
    /\ SetStatus(h, DecisionStatus(hdec[h]))
    /\ hpc' = [hpc EXCEPT ![h] = "status"]
    /\ UNCHANGED <<handlerFrame, contract, hdec, history>>

Answer(h) ==
    /\ hpc[h] = "status"
    /\ io[h] = "idle"
    /\ hpc' = [hpc EXCEPT ![h] = "answered"]
    /\ UNCHANGED <<handlerFrame, contract, rec, io, hdec, history>>

-----------------------------------------------------------------------------
(* Restart: tasks and in-memory state are gone, initialize() loads the row. *)
(* No pipeline is started for it.                                           *)

Restart ==
    /\ restarts < MaxRestarts
    /\ restarts' = restarts + 1
    /\ pc' = "dead"
    /\ rec' = [status |-> row.status, ref |-> "seed", result |-> row.result]
    /\ contract' = [contract EXCEPT !["seed"] = row.contract]
    /\ io' = [t \in Tasks |-> "idle"]
    /\ snap' = [t \in Tasks |-> NoRow]
    /\ hpc' = [h \in Handlers |-> IF hpc[h] \in {"recorded", "status"}
                                  THEN "dropped" ELSE hpc[h]]
    /\ UNCHANGED <<steps, gate, manifest, row, hdec, call, target, audit, history>>

-----------------------------------------------------------------------------

ProxyStep == AutoReject \/ AutoExecute \/ AutoExecuteReturns \/ Create

PipelineStep ==
    \/ StartRun \/ Intake \/ RiskGate \/ Analyze \/ ContextSim \/ Assemble
    \/ Notify \/ ReenterReview \/ HonourEarlyDecision \/ EnterReview
    \/ HonourStatus \/ SetPending \/ EnterLoop \/ LateTimeout \/ Poll \/ Timeout
    \/ Execute \/ ExecutionReturns \/ RunAudit \/ NodeRaises
    \/ RecursionExceeded \/ Finish \/ FinishStatus

TargetStep == TargetRuns \/ TargetLost

DbStep(t) == Acquire(t) \/ Commit(t) \/ PersistFails(t)

HandlerStep(h) == Decide(h) \/ Refuse(h) \/ DecisionUpdatesStatus(h) \/ Answer(h)

Quiet == \A t \in Tasks : io[t] = "idle"

\* Everything that was started has ended.
Ended ==
    /\ pc \in {"answered", "done", "dead"}
    /\ Quiet
    /\ \A h \in Handlers : hpc[h] \in {"answered", "refused", "dropped"}

Next ==
    \/ ProxyStep
    \/ PipelineStep
    \/ TargetStep
    \/ \E t \in Tasks : DbStep(t)
    \/ \E h \in Handlers : HandlerStep(h)
    \/ Restart
    \/ Ended /\ UNCHANGED vars

Spec == Init /\ [][Next]_vars

(***************************************************************************)
(* Fairness: a runnable asyncio task runs, a store operation ends (asyncpg *)
(* gives each command 10 seconds), a call of an MCP server ends (httpx     *)
(* timeouts), the clock reaches the deadline.  Nothing is assumed of the   *)
(* humans, the target and the operator who restarts the process.           *)
(***************************************************************************)
Fairness ==
    /\ WF_vars(ProxyStep)
    /\ WF_vars(PipelineStep)
    /\ \A t \in Tasks : WF_vars(DbStep(t))
    /\ \A h \in Handlers : WF_vars(DecisionUpdatesStatus(h) \/ Answer(h))

FairSpec == Spec /\ Fairness

-----------------------------------------------------------------------------
(* Safety. *)

\* Invariant 1 of the project ("no unapproved execution"): run_execution sends
\* the operation to the target only when the last decision record_decision
\* accepted is APPROVE, the policy gate did not reject the operation and the
\* approval contract has been assembled.
OnlyApprovedDispatched ==
    [][pc = "execution" /\ pc' = "executing" =>
         /\ history.last = "APPROVE"
         /\ contract["pipe"].policy = "clear"
         /\ contract["pipe"].rev > 0]_vars

\* Invariant 10 ("no duplicate execution"): the target executes the operation
\* at most once, whatever timeouts, lost answers and restarts happen.
AtMostOnce == target <= 1

\* record_decision's "decided exactly once (no replay)": between restarts at
\* most one verdict (any decision but MODIFY) is accepted.
DecidedOnce == history.verdicts <= 1

\* After a MODIFY is accepted no approval is accepted until the pipeline has
\* assembled the contract again: nobody approves the analysis that a reviewer
\* has sent back.  (Once the pipeline is past its last update_contract an
\* approval has no effect, and a fast path may have erased an early MODIFY.)
ReanalysedBeforeApproval ==
    [][history.last = "MODIFY" /\ history'.last = "APPROVE"
         => Stored.rev > history.rev \/ pc \in {"finish_status", "done"}]_vars

\* The status a polling client sees and the decision the store holds are
\* written in separate steps by the pipeline and by the handlers; no
\* interleaving makes the status claim a verdict the contract does not have,
\* in memory or in the row a restart would load.
Agree(status, c) ==
    status \in {"APPROVED", "REJECTED", "TIMED_OUT"} => c.approval = status

StatusAgrees ==
    /\ rec.status # "ABSENT" => Agree(rec.status, Stored)
    /\ Agree(row.status, row.contract)

\* What list_pending offers for review has been assembled, also when it was
\* loaded from the table.
QueueIsReviewable ==
    /\ rec.status = "PENDING_HUMAN_APPROVAL" => Stored.rev > 0
    /\ row.status = "PENDING_HUMAN_APPROVAL" => row.contract.rev > 0

\* What the audit record tells of the operation: log_execution stands for one
\* the target ran, and a rejection for one that was never sent.  The event
\* log_auto_reject alone says nothing: it is also the event of an operation that
\* was approved and sent, and that the target may have run after the call timed
\* out; then the payload says APPROVED_EXECUTION_FAILED.
AuditTruthful ==
    /\ audit.tool = "log_execution" => audit.outcome = "APPROVED_EXECUTED" /\ call = "ran"
    /\ audit.outcome \in {"REJECTED", "TIMED_OUT", "AUTO_REJECTED"} => call = "none"
    /\ audit.tool = "log_auto_reject" /\ call # "none"
         => audit.outcome = "APPROVED_EXECUTION_FAILED"

VerdictOf(a) ==
    CASE a = "APPROVED"  -> "approved"
      [] a = "TIMED_OUT" -> "expired"
      [] a \in {"REJECTED", "AUTO_REJECTED"} -> "rejected"
      [] OTHER -> "open"

\* The promise of ApprovalToken is kept by the stored contract and the calls
\* made for it (between restarts).
Token == INSTANCE ApprovalToken WITH
    verdict    <- VerdictOf(Stored.approval),
    dispatches <- IF gate = "full_pipeline" /\ call # "none" THEN 1 ELSE 0

ImplementsToken == Token!TokenSpec

-----------------------------------------------------------------------------
(* Liveness, under FairSpec. *)

\* Without a restart the background task of every created record ends: a
\* human, an MCP server or the database that stays silent cannot keep it.
PipelineEnds == (gate = "full_pipeline") ~> (pc = "done")

\* An approval accepted while the pipeline is between ANALYSIS and the end of
\* HUMAN_REVIEW is honoured: the operation is sent to the target (provided no
\* call raises), unless the review was entered so late that it timed out at
\* once, which overrides the decision.
ApprovalHonoured ==
    (/\ history.last = "APPROVE"
     /\ pc \in {"analysis", "context_sim", "contract", "human_review",
                "notified", "hr_status", "hr_honour", "hr_loop", "polling"})
        ~> (call # "none" \/ (LateEntry /\ contract["pipe"].approval = "TIMED_OUT"))

\* "The calling agent polls this until status is terminal": it gets to stop.
TerminalStatus == {"APPROVED", "REJECTED", "AUTO_REJECTED", "AUTO_EXECUTED",
                   "COMPLETED", "FAILED", "TIMED_OUT"}

StatusSettles == (gate = "full_pipeline") ~> [](rec.status \in TerminalStatus)

\* So it does unless a MODIFY was accepted: in whatever order handlers and
\* pipeline wrote the status and whichever way the pipeline ended, the status
\* is terminal when the last of them is through.
SettledAtRest ==
    /\ pc = "done" /\ gate = "full_pipeline"
    /\ \A h \in Handlers : hpc[h] # "recorded" /\ hdec[h] # "MODIFY"
    => rec.status \in TerminalStatus

=============================================================================
