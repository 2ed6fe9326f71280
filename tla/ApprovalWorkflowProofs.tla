----------------------- MODULE ApprovalWorkflowProofs -----------------------
(***************************************************************************)
(* Theorems about ApprovalWorkflow, for every set of handlers, every       *)
(* recursion limit, every way calls may end and every number of restarts.  *)
(***************************************************************************)
EXTENDS ApprovalWorkflow, TLAPS

-----------------------------------------------------------------------------
(* The inductive invariant. *)

\* Places of the task before the operation is sent to its target.
BeforeDispatch ==
    {"intercept", "created", "intake", "risk_gate", "analysis", "context_sim",
     "contract", "human_review", "notified", "hr_status", "hr_honour",
     "hr_loop", "polling", "execution"}

\* The target runs what was sent, once.
CallInv ==
    /\ pc \in BeforeDispatch => call = "none"
    /\ pc \in BeforeDispatch \ {"intercept"} => gate = "full_pipeline"
    /\ target = IF call = "ran" THEN 1 ELSE 0

\* Which of the two contract objects the record points to.
RefInv ==
    /\ pc \in {"intercept", "created", "intake", "risk_gate"} => rec.ref = "seed"
    /\ pc \in {"hr_status", "hr_honour", "hr_loop", "polling", "execution",
               "executing", "finish_status"} => rec.ref = "pipe"
    /\ pc # "dead" /\ contract["pipe"].approval \in {"APPROVED", "MODIFIED"}
         => rec.ref = "pipe"

\* An approval in the store is the last decision accepted, and the way to the
\* target leads through it.
ApprovalInv ==
    /\ pc # "dead" /\ Stored.approval = "APPROVED" => history.last = "APPROVE"
    /\ pc = "execution" => contract["pipe"].approval = "APPROVED"

\* How far the pipeline's contract object has come.
StageInv ==
    /\ pc \in BeforeDispatch \ {"intercept", "created", "intake"}
         => contract["pipe"].policy = "clear"
    /\ pc \in {"human_review", "notified", "hr_status", "hr_honour", "hr_loop",
               "polling", "execution"} => contract["pipe"].rev > 0
    /\ pc # "dead" => contract["seed"].rev = 0

\* Only an assembled contract is in the queue, in memory, in the row and in
\* every row on its way to the table.
Reviewable(status, c) == status = "PENDING_HUMAN_APPROVAL" => c.rev > 0

QueueInv ==
    /\ Reviewable(rec.status, Stored)
    /\ Reviewable(row.status, row.contract)
    /\ \A t \in Tasks : Reviewable(snap[t].status, snap[t].contract)

CoreInv == CallInv /\ RefInv /\ ApprovalInv /\ StageInv /\ QueueInv

\* A handler between its two store operations finds the verdict it recorded.
HandlerInv ==
    /\ pc = "intercept" =>
         /\ rec.status = "ABSENT"
         /\ \A h \in Handlers : hpc[h] \notin {"recorded", "status"}
    /\ \A h \in Handlers : hpc[h] = "recorded" /\ hdec[h] # "MODIFY"
         => Stored.approval = DecisionState(hdec[h])

\* Where a contract in the store may be modified or policy-rejected.
StateInv ==
    /\ pc \in {"analysis", "context_sim", "contract", "human_review", "notified"}
         /\ rec.ref = "pipe" => contract["pipe"].approval = "MODIFIED"
    /\ pc = "hr_honour" => contract["pipe"].approval \notin {"PENDING", "AUTO_REJECTED"}
    /\ pc # "dead" => contract["seed"].approval # "AUTO_REJECTED"
    /\ pc = "intercept" => contract["seed"].approval = "PENDING"

AgreeInv ==
    /\ Agree(rec.status, Stored)
    /\ Agree(row.status, row.contract)
    /\ \A t \in Tasks : Agree(snap[t].status, snap[t].contract)

VerdictInv == HandlerInv /\ StateInv /\ AgreeInv

-----------------------------------------------------------------------------
(* The operators on contracts: what they change and what they keep. *)

\* WithDecision copies approval_state and human_decision and nothing else.
LEMMA WithDecisionFacts ==
  ASSUME NEW c \in HandoffContract, NEW d \in HandoffContract
  PROVE  /\ WithDecision(c, d) \in HandoffContract
         /\ WithDecision(c, d).approval = d.approval
         /\ WithDecision(c, d).policy = c.policy
         /\ WithDecision(c, d).rev = c.rev
         /\ WithDecision(c, d).execution = c.execution
  BY DEF WithDecision, HandoffContract

\* WithApproval changes approval_state and nothing else.
LEMMA WithApprovalFacts ==
  ASSUME NEW c \in HandoffContract, NEW a \in ApprovalState
  PROVE  /\ WithApproval(c, a) \in HandoffContract
         /\ WithApproval(c, a).approval = a
         /\ WithApproval(c, a).policy = c.policy
         /\ WithApproval(c, a).rev = c.rev
         /\ WithApproval(c, a).execution = c.execution
  BY DEF WithApproval, HandoffContract

\* record_decision writes the state decision_map gives, whatever is decided.
LEMMA DecidedFacts ==
  ASSUME NEW c \in HandoffContract, NEW d \in Decision
  PROVE  /\ Decided(c, d) \in HandoffContract
         /\ Decided(c, d).approval = DecisionState(d)
         /\ DecisionState(d) \in {"APPROVED", "MODIFIED", "REJECTED"}
         /\ DecisionState(d) = "APPROVED" <=> d = "APPROVE"
         /\ DecisionState(d) = "MODIFIED" <=> d = "MODIFY"
         /\ Decided(c, d).policy = c.policy
         /\ Decided(c, d).rev = c.rev
         /\ Decided(c, d).execution = c.execution
  <1>1. /\ DecisionState(d) \in {"APPROVED", "MODIFIED", "REJECTED"}
        /\ DecisionState(d) = "APPROVED" <=> d = "APPROVE"
        /\ DecisionState(d) = "MODIFIED" <=> d = "MODIFY"
    BY DEF DecisionState, Decision
  <1> QED
    BY <1>1 DEF Decided, HandoffContract, ApprovalState

\* The other steps of the pipeline on its own object: run_intake, the policy
\* gate, the contract agent and run_execution.
LEMMA PipelineFacts ==
  ASSUME NEW c \in HandoffContract
  PROVE  /\ NewContract \in HandoffContract
         /\ PolicyRejected(c) \in HandoffContract
         /\ PolicyRejected(c).approval = "AUTO_REJECTED"
         /\ PolicyRejected(c).rev = c.rev
         /\ PolicyRejected(c).execution = c.execution
         /\ Assembled(c) \in HandoffContract
         /\ Assembled(c).approval = c.approval
         /\ Assembled(c).policy = c.policy
         /\ Assembled(c).rev = c.rev + 1
         /\ Assembled(c).execution = c.execution
         /\ \A x \in {"ok", "failed"} :
              /\ Executed(c, x) \in HandoffContract
              /\ Executed(c, x).approval = c.approval
              /\ Executed(c, x).policy = c.policy
              /\ Executed(c, x).rev = c.rev
              /\ Executed(c, x).execution = x
  <1>1. NewContract \in HandoffContract
    BY DEF NewContract, HandoffContract, ApprovalState
  <1>2. /\ PolicyRejected(c) \in HandoffContract
        /\ PolicyRejected(c).approval = "AUTO_REJECTED"
        /\ PolicyRejected(c).rev = c.rev
        /\ PolicyRejected(c).execution = c.execution
    BY DEF PolicyRejected, HandoffContract, ApprovalState
  <1>3. /\ Assembled(c) \in HandoffContract
        /\ Assembled(c).approval = c.approval
        /\ Assembled(c).policy = c.policy
        /\ Assembled(c).rev = c.rev + 1
        /\ Assembled(c).execution = c.execution
    BY DEF Assembled, HandoffContract
  <1>4. ASSUME NEW x \in {"ok", "failed"}
        PROVE  /\ Executed(c, x) \in HandoffContract
               /\ Executed(c, x).approval = c.approval
               /\ Executed(c, x).policy = c.policy
               /\ Executed(c, x).rev = c.rev
               /\ Executed(c, x).execution = x
    BY DEF Executed, HandoffContract
  <1> QED  BY <1>1, <1>2, <1>3, <1>4

\* update_contract, on whichever object the record points to.
LEMMA MergedFacts ==
  ASSUME TypeOK, NEW c \in HandoffContract
  PROVE  /\ Merged(c) \in HandoffContract
         /\ Merged(c).approval = IF rec.ref = "seed" /\ contract["seed"].approval \in KeptStates
                                 THEN contract["seed"].approval ELSE c.approval
         /\ Merged(c).policy = c.policy
         /\ Merged(c).rev = c.rev
         /\ Merged(c).execution = c.execution
  <1>1. /\ contract["seed"] \in HandoffContract
        /\ rec.ref \in {"seed", "pipe"}
    BY DEF TypeOK, Objects, WorkflowRecord
  <1>2. CASE rec.ref = "pipe" /\ c.approval \in KeptStates
    <2>1. Merged(c) = WithDecision(c, c)
      BY <1>2 DEF Merged
    <2> QED  BY <1>2, <2>1, WithDecisionFacts
  <1>3. CASE rec.ref = "seed" /\ contract["seed"].approval \in KeptStates
    <2>1. Merged(c) = WithDecision(c, contract["seed"])
      BY <1>3 DEF Merged
    <2> QED  BY <1>1, <1>3, <2>1, WithDecisionFacts
  <1>4. CASE /\ ~(rec.ref = "pipe" /\ c.approval \in KeptStates)
             /\ ~(rec.ref = "seed" /\ contract["seed"].approval \in KeptStates)
    <2>1. Merged(c) = c
      BY <1>1, <1>4 DEF Merged
    <2> QED  BY <1>4, <2>1
  <1> QED  BY <1>2, <1>3, <1>4

-----------------------------------------------------------------------------
(* Types. *)

\* Both contract objects, and the one the record points to, are contracts.
LEMMA ContractTypes ==
  ASSUME TypeOK
  PROVE  /\ contract["seed"] \in HandoffContract
         /\ contract["pipe"] \in HandoffContract
         /\ Stored \in HandoffContract
         /\ rec.ref \in {"seed", "pipe"}
  BY DEF TypeOK, Objects, Stored, WorkflowRecord

\* Every variable keeps its type (the enumerations of handoff_schema.py and
\* workflow_store.py, the steps bounded by the recursion limit).
THEOREM Typing == Spec => []TypeOK
  <1> USE ConstantsAssumption
  <1>1. Init => TypeOK
    BY DEF Init, NoAudit, AuditRecord, TypeOK, PipelinePc, ManifestKeys, Objects, HandoffContract,
           NewContract, ApprovalState, WorkflowRecord, NoRecord, Row, NoRow
  <1>2. ASSUME TypeOK, [Next]_vars PROVE TypeOK'
    <2>0. /\ contract["seed"] \in HandoffContract
          /\ contract["pipe"] \in HandoffContract
          /\ Stored \in HandoffContract
          /\ NewContract \in HandoffContract
      BY <1>2, ContractTypes, PipelineFacts
    <2> USE <1>2, <2>0 DEF TypeOK
    <2> USE DEF PipelinePc, Nodes, Objects, Tasks, WorkflowRecord,
                ApprovalState, WorkflowStatus, pipelineFrame
    <2>1. CASE AutoReject
      BY <2>1 DEF AutoReject
    <2>2. CASE AutoExecute
      BY <2>2 DEF AutoExecute
    <2>3. CASE AutoExecuteReturns
      BY <2>3 DEF AutoExecuteReturns
    <2>4. CASE Create
      BY <2>4, PipelineFacts DEF Create, Persist, BindManifest, ManifestKeys
    <2>5. CASE StartRun
      BY <2>5 DEF StartRun, At, SetStatus, Persist
    <2>6. CASE Intake
      BY <2>6, PipelineFacts DEF Intake, At, EnterNode
    <2>7. CASE RiskGate
      BY <2>7, PipelineFacts DEF RiskGate, At, EnterNode
    <2>8. CASE Analyze
      BY <2>8 DEF Analyze, At, EnterNode
    <2>9. CASE ContextSim
      BY <2>9 DEF ContextSim, At, EnterNode
    <2>10. CASE Assemble
      BY <2>10, PipelineFacts DEF Assemble, At, EnterNode
    <2>11. CASE Notify
      BY <2>11 DEF Notify, At, EnterNode
    <2>12. CASE ReenterReview
      BY <2>12, MergedFacts, WithApprovalFacts DEF ReenterReview, At, UpdateContract, Persist
    <2>13. CASE HonourEarlyDecision
      BY <2>13, MergedFacts, WithDecisionFacts DEF HonourEarlyDecision, At, UpdateContract, Persist
    <2>14. CASE EnterReview
      BY <2>14, MergedFacts DEF EnterReview, At, UpdateContract, Persist
    <2>15. CASE HonourStatus
      BY <2>15 DEF HonourStatus, At, SetStatus, Persist, HonouredStatus, RouteReview
    <2>16. CASE SetPending
      BY <2>16 DEF SetPending, At, SetStatus, Persist
    <2>17. CASE EnterLoop
      BY <2>17 DEF EnterLoop, At
    <2>18. CASE LateTimeout
      BY <2>18, WithApprovalFacts DEF LateTimeout, At
    <2>19. CASE Poll
      BY <2>19, WithDecisionFacts DEF Poll, At, RouteReview
    <2>20. CASE Timeout
      BY <2>20, WithApprovalFacts DEF Timeout, At
    <2>21. CASE Execute
      BY <2>21, PipelineFacts DEF Execute, At, EnterNode
    <2>22. CASE ExecutionReturns
      BY <2>22, PipelineFacts DEF ExecutionReturns, At, Persist
    <2>23. CASE RunAudit
      BY <2>23 DEF RunAudit, At, EnterNode, Fail, SetStatus, Persist, AuditOf, AuditRecord, DetermineOutcome, Outcome
    <2>24. CASE NodeRaises
      BY <2>24 DEF NodeRaises, At, Fail, SetStatus, Persist
    <2>25. CASE RecursionExceeded
      BY <2>25 DEF RecursionExceeded, At, Fail, SetStatus, Persist
    <2>26. CASE Finish
      BY <2>26, MergedFacts DEF Finish, At, UpdateContract, Persist
    <2>27. CASE FinishStatus
      BY <2>27 DEF FinishStatus, At, SetStatus, Persist, FinalStatus
    <2>28. CASE TargetRuns \/ TargetLost
      BY <2>28 DEF TargetRuns, TargetLost
    <2>29. ASSUME NEW t \in Tasks, DbStep(t) PROVE TypeOK'
      <3>1. CASE Acquire(t)
        <4>1. [status |-> rec.status, contract |-> Stored, result |-> rec.result] \in Row
          BY DEF Row
        <4> QED  BY <3>1, <4>1 DEF Acquire, dbFrame
      <3>2. NoRow \in Row
        BY DEF Row, NoRow
      <3>3. CASE Commit(t)
        BY <3>2, <3>3 DEF Commit, dbFrame
      <3>4. CASE PersistFails(t)
        BY <3>2, <3>4 DEF PersistFails, dbFrame
      <3> QED  BY <2>29, <3>1, <3>3, <3>4 DEF DbStep
    <2>30. ASSUME NEW h \in Handlers, Decide(h) PROVE TypeOK'
      BY <2>30, DecidedFacts DEF Decide, MayCarry, Decision, Persist, handlerFrame, HandoffContract
    <2>31. ASSUME NEW h \in Handlers,
                Refuse(h) \/ DecisionUpdatesStatus(h) \/ Answer(h)
         PROVE  TypeOK'
      BY <2>31 DEF Refuse, DecisionUpdatesStatus, Answer, SetStatus, DecisionStatus,
                   Persist, handlerFrame
    <2>32. CASE Restart
      BY <2>32 DEF Restart, Row, NoRow
    <2>33. CASE UNCHANGED vars
      BY <2>33, SMTT(30) DEF vars
    <2> QED
      BY <2>1, <2>2, <2>3, <2>4, <2>5, <2>6, <2>7, <2>8, <2>9, <2>10, <2>11, <2>12, <2>13,
         <2>14, <2>15, <2>16, <2>17, <2>18, <2>19, <2>20, <2>21, <2>22, <2>23, <2>24, <2>25, <2>26,
         <2>27, <2>28, <2>29, <2>30, <2>31, <2>32, <2>33
         DEF Next, ProxyStep, PipelineStep, TargetStep, HandlerStep
  <1> QED
    BY <1>1, <1>2, PTL DEF Spec

-----------------------------------------------------------------------------
(* The core invariant. *)

\* Every step of the proxy, the pipeline, the target, the database, a handler
\* and a restart preserves the core invariant.
LEMMA CoreStep ==
  ASSUME TypeOK, TypeOK', CoreInv, [Next]_vars PROVE CoreInv'
  <1> USE ConstantsAssumption
  <1>0. /\ contract["seed"] \in HandoffContract
        /\ contract["pipe"] \in HandoffContract
        /\ contract[rec.ref] \in HandoffContract
        /\ NewContract \in HandoffContract
        /\ NewContract.approval = "PENDING" /\ NewContract.rev = 0
        /\ NewContract.policy = "clear"
        /\ rec.ref \in {"seed", "pipe"}
        /\ contract \in [{"seed", "pipe"} -> HandoffContract]
        /\ contract["pipe"].rev \in Nat
    BY ContractTypes, PipelineFacts DEF Stored, NewContract, HandoffContract, TypeOK, Objects
  <1> USE <1>0 DEF CoreInv, CallInv, RefInv, ApprovalInv, StageInv, QueueInv,
                   Reviewable, BeforeDispatch, Stored
  <1>1. CASE AutoReject
    BY <1>1 DEF AutoReject, pipelineFrame, TypeOK, WorkflowRecord
  <1>2. CASE AutoExecute
    BY <1>2 DEF AutoExecute, pipelineFrame, TypeOK, WorkflowRecord
  <1>3. CASE AutoExecuteReturns
    BY <1>3 DEF AutoExecuteReturns, pipelineFrame, TypeOK, WorkflowRecord
  <1>4. CASE Create
    BY <1>4, PipelineFacts DEF Create, pipelineFrame, Persist, BindManifest, ManifestKeys, TypeOK, WorkflowRecord
  <1>5. CASE StartRun
    BY <1>5 DEF StartRun, pipelineFrame, At, SetStatus, Persist, TypeOK, WorkflowRecord
  <1>6. CASE Intake
    BY <1>6, PipelineFacts DEF Intake, pipelineFrame, At, EnterNode, TypeOK, WorkflowRecord
  <1>7. CASE RiskGate
    BY <1>7, PipelineFacts DEF RiskGate, pipelineFrame, At, EnterNode, TypeOK, WorkflowRecord
  <1>8. CASE Analyze
    BY <1>8 DEF Analyze, pipelineFrame, At, EnterNode, TypeOK, WorkflowRecord
  <1>9. CASE ContextSim
    BY <1>9 DEF ContextSim, pipelineFrame, At, EnterNode, TypeOK, WorkflowRecord
  <1>10. CASE Assemble
    BY <1>10, PipelineFacts DEF Assemble, pipelineFrame, At, EnterNode, TypeOK, WorkflowRecord
  <1>11. CASE Notify
    BY <1>11 DEF Notify, pipelineFrame, At, EnterNode, TypeOK, WorkflowRecord
  <1>12. CASE ReenterReview
    BY <1>12, MergedFacts, WithApprovalFacts DEF ReenterReview, pipelineFrame, At, UpdateContract, Persist, ApprovalState, KeptStates, TypeOK, WorkflowRecord
  <1>13. CASE HonourEarlyDecision
    BY <1>13, MergedFacts, WithDecisionFacts DEF HonourEarlyDecision, pipelineFrame, At, UpdateContract, Persist, KeptStates, TypeOK, WorkflowRecord
  <1>14. CASE EnterReview
    BY <1>14, MergedFacts DEF EnterReview, pipelineFrame, At, UpdateContract, Persist, KeptStates, TypeOK, WorkflowRecord
  <1>15. CASE HonourStatus
    BY <1>15 DEF HonourStatus, pipelineFrame, At, SetStatus, Persist, HonouredStatus, RouteReview, TypeOK, WorkflowRecord
  <1>16. CASE SetPending
    BY <1>16 DEF SetPending, pipelineFrame, At, SetStatus, Persist, TypeOK, WorkflowRecord
  <1>17. CASE EnterLoop
    BY <1>17 DEF EnterLoop, pipelineFrame, At, TypeOK, WorkflowRecord
  <1>18. CASE LateTimeout
    BY <1>18, WithApprovalFacts DEF LateTimeout, pipelineFrame, At, ApprovalState, TypeOK, WorkflowRecord
  <1>19. CASE Poll
    BY <1>19, WithDecisionFacts DEF Poll, pipelineFrame, At, RouteReview, TypeOK, WorkflowRecord
  <1>20. CASE Timeout
    BY <1>20, WithApprovalFacts DEF Timeout, pipelineFrame, At, ApprovalState, TypeOK, WorkflowRecord
  <1>21. CASE Execute
    BY <1>21, PipelineFacts DEF Execute, pipelineFrame, At, EnterNode, TypeOK, WorkflowRecord
  <1>22. CASE ExecutionReturns
    BY <1>22, PipelineFacts DEF ExecutionReturns, pipelineFrame, At, Persist, TypeOK, WorkflowRecord
  <1>23. CASE RunAudit
    BY <1>23 DEF RunAudit, pipelineFrame, At, EnterNode, Fail, SetStatus, Persist, AuditOf, AuditRecord, DetermineOutcome, Outcome, TypeOK, WorkflowRecord
  <1>24. CASE NodeRaises
    BY <1>24 DEF NodeRaises, pipelineFrame, At, Fail, SetStatus, Persist, TypeOK, WorkflowRecord
  <1>25. CASE RecursionExceeded
    BY <1>25 DEF RecursionExceeded, pipelineFrame, Nodes, At, Fail, SetStatus, Persist, TypeOK, WorkflowRecord
  <1>26. CASE Finish
    BY <1>26, MergedFacts DEF Finish, pipelineFrame, At, UpdateContract, Persist, KeptStates, TypeOK, WorkflowRecord
  <1>27. CASE FinishStatus
    BY <1>27 DEF FinishStatus, pipelineFrame, At, SetStatus, Persist, FinalStatus, TypeOK, WorkflowRecord
  <1>28. CASE TargetRuns \/ TargetLost
    BY <1>28 DEF TargetRuns, TargetLost, TypeOK
  <1>29. ASSUME NEW t \in Tasks, DbStep(t) PROVE CoreInv'
    BY <1>29 DEF DbStep, Acquire, Commit, PersistFails, dbFrame, NoRow, TypeOK
  <1>30. ASSUME NEW h \in Handlers, Decide(h) PROVE CoreInv'
    BY <1>30, DecidedFacts DEF Decide, Undecided, MayCarry, Decision, Persist, handlerFrame, TypeOK
  <1>31. ASSUME NEW h \in Handlers,
              Refuse(h) \/ DecisionUpdatesStatus(h) \/ Answer(h)
       PROVE  CoreInv'
    BY <1>31 DEF Refuse, DecisionUpdatesStatus, Answer, SetStatus, DecisionStatus,
                 Persist, handlerFrame, TypeOK, WorkflowRecord
  <1>32. CASE Restart
    BY <1>32 DEF Restart, NoRow, TypeOK
  <1>33. CASE UNCHANGED vars
    BY <1>33 DEF vars
  <1> QED
    BY <1>1, <1>2, <1>3, <1>4, <1>5, <1>6, <1>7, <1>8, <1>9, <1>10, <1>11, <1>12, <1>13,
       <1>14, <1>15, <1>16, <1>17, <1>18, <1>19, <1>20, <1>21, <1>22, <1>23, <1>24, <1>25, <1>26,
       <1>27, <1>28, <1>29, <1>30, <1>31, <1>32, <1>33
       DEF Next, ProxyStep, PipelineStep, TargetStep, HandlerStep

\* The core invariant holds in every reachable state.
THEOREM CoreInvariant == Spec => []CoreInv
  <1>1. Init => CoreInv
    BY DEF Init, CoreInv, CallInv, RefInv, ApprovalInv, StageInv, QueueInv,
           Reviewable, BeforeDispatch, Stored, NewContract, NoRecord, NoRow,
           Objects, Tasks
  <1> QED
    BY <1>1, CoreStep, Typing, PTL DEF Spec

\* The target executes the operation at most once, across any number of
\* timeouts, lost answers, failing writes and restarts.
THEOREM ExecutedAtMostOnce == Spec => []AtMostOnce
  <1>1. CoreInv => AtMostOnce
    BY DEF CoreInv, CallInv, AtMostOnce
  <1> QED
    BY <1>1, CoreInvariant, PTL

\* Nothing enters the approval queue, or the table a restart reads it from,
\* before its approval contract has been assembled.
THEOREM QueueHoldsAssembled == Spec => []QueueIsReviewable
  <1>1. CoreInv => QueueIsReviewable
    BY DEF CoreInv, QueueInv, Reviewable, QueueIsReviewable
  <1> QED
    BY <1>1, CoreInvariant, PTL

\* run_execution sends an operation only on an approval that is the last
\* decision accepted, never past a hard policy violation, never unassembled.
THEOREM DispatchNeedsApproval == Spec => OnlyApprovedDispatched
  <1>1. CoreInv /\ [Next]_vars =>
          [pc = "execution" /\ pc' = "executing" =>
             /\ history.last = "APPROVE"
             /\ contract["pipe"].policy = "clear"
             /\ contract["pipe"].rev > 0]_vars
    BY SMTT(30) DEF CoreInv, RefInv, ApprovalInv, StageInv, BeforeDispatch, Stored
  <1> QED
    BY <1>1, CoreInvariant, PTL DEF Spec, OnlyApprovedDispatched

-----------------------------------------------------------------------------
(* Verdicts, when the review window cannot end before the polling starts. *)

\* Every step preserves the agreement of status and verdict, provided the
\* loop of run_human_review looks at the store before its deadline.
LEMMA VerdictStep ==
  ASSUME ~LateEntry, TypeOK, TypeOK', CoreInv, VerdictInv, [Next]_vars
  PROVE  VerdictInv'
  <1> USE ConstantsAssumption
  <1>0. /\ contract["seed"] \in HandoffContract
        /\ contract["pipe"] \in HandoffContract
        /\ contract[rec.ref] \in HandoffContract
        /\ NewContract \in HandoffContract
        /\ NewContract.approval = "PENDING"
        /\ rec.ref \in {"seed", "pipe"}
        /\ contract \in [{"seed", "pipe"} -> HandoffContract]
        /\ contract["seed"].approval \in ApprovalState
        /\ contract["pipe"].approval \in ApprovalState
    BY ContractTypes, PipelineFacts DEF Stored, NewContract, HandoffContract, TypeOK, Objects
  <1>h. \A h \in Handlers : hpc[h] = "recorded" /\ hdec[h] # "MODIFY"
          => contract[rec.ref].approval \in {"APPROVED", "REJECTED"}
    BY DEF VerdictInv, HandlerInv, DecisionState, Stored
  <1> USE <1>0, <1>h DEF VerdictInv, HandlerInv, StateInv, AgreeInv, Agree, Stored,
                   CoreInv, RefInv, KeptStates, ApprovalState
  <1>1. CASE AutoReject
    BY <1>1 DEF AutoReject, pipelineFrame, TypeOK, WorkflowRecord
  <1>2. CASE AutoExecute
    BY <1>2 DEF AutoExecute, pipelineFrame, TypeOK, WorkflowRecord
  <1>3. CASE AutoExecuteReturns
    BY <1>3 DEF AutoExecuteReturns, pipelineFrame, TypeOK, WorkflowRecord
  <1>4. CASE Create
    BY <1>4, PipelineFacts DEF Create, pipelineFrame, Persist, BindManifest, ManifestKeys, TypeOK, WorkflowRecord
  <1>5. CASE StartRun
    BY <1>5 DEF StartRun, pipelineFrame, At, SetStatus, Persist, TypeOK, WorkflowRecord
  <1>6. CASE Intake
    BY <1>6, PipelineFacts DEF Intake, pipelineFrame, At, EnterNode, TypeOK, WorkflowRecord
  <1>7. CASE RiskGate
    BY <1>7, PipelineFacts DEF RiskGate, pipelineFrame, At, EnterNode, TypeOK, WorkflowRecord
  <1>8. CASE Analyze
    BY <1>8 DEF Analyze, pipelineFrame, At, EnterNode, TypeOK, WorkflowRecord
  <1>9. CASE ContextSim
    BY <1>9 DEF ContextSim, pipelineFrame, At, EnterNode, TypeOK, WorkflowRecord
  <1>10. CASE Assemble
    BY <1>10, PipelineFacts DEF Assemble, pipelineFrame, At, EnterNode, TypeOK, WorkflowRecord
  <1>11. CASE Notify
    BY <1>11 DEF Notify, pipelineFrame, At, EnterNode, TypeOK, WorkflowRecord
  <1>12. CASE ReenterReview
    BY <1>12, MergedFacts, WithApprovalFacts DEF ReenterReview, pipelineFrame, At, UpdateContract, Persist, TypeOK, WorkflowRecord
  <1>13. CASE HonourEarlyDecision
    BY <1>13, MergedFacts, WithDecisionFacts DEF HonourEarlyDecision, pipelineFrame, At, UpdateContract, Persist, TypeOK, WorkflowRecord
  <1>14. CASE EnterReview
    BY <1>14, MergedFacts DEF EnterReview, pipelineFrame, At, UpdateContract, Persist, TypeOK, WorkflowRecord
  <1>15. CASE HonourStatus
    BY <1>15 DEF HonourStatus, pipelineFrame, At, SetStatus, Persist, HonouredStatus, RouteReview, TypeOK, WorkflowRecord
  <1>16. CASE SetPending
    BY <1>16 DEF SetPending, pipelineFrame, At, SetStatus, Persist, TypeOK, WorkflowRecord
  <1>17. CASE EnterLoop
    BY <1>17 DEF EnterLoop, pipelineFrame, At, TypeOK, WorkflowRecord
  <1>18. CASE LateTimeout
    BY <1>18, WithApprovalFacts DEF LateTimeout, pipelineFrame, At, TypeOK, WorkflowRecord
  <1>19. CASE Poll
    BY <1>19, WithDecisionFacts DEF Poll, pipelineFrame, At, RouteReview, TypeOK, WorkflowRecord
  <1>20. CASE Timeout
    BY <1>20, WithApprovalFacts DEF Timeout, pipelineFrame, At, TypeOK, WorkflowRecord
  <1>21. CASE Execute
    BY <1>21, PipelineFacts DEF Execute, pipelineFrame, At, EnterNode, TypeOK, WorkflowRecord
  <1>22. CASE ExecutionReturns
    BY <1>22, PipelineFacts DEF ExecutionReturns, pipelineFrame, At, Persist, TypeOK, WorkflowRecord
  <1>23. CASE RunAudit
    BY <1>23 DEF RunAudit, pipelineFrame, At, EnterNode, Fail, SetStatus, Persist, AuditOf, AuditRecord, DetermineOutcome, Outcome, TypeOK, WorkflowRecord
  <1>24. CASE NodeRaises
    BY <1>24 DEF NodeRaises, pipelineFrame, At, Fail, SetStatus, Persist, TypeOK, WorkflowRecord
  <1>25. CASE RecursionExceeded
    BY <1>25 DEF RecursionExceeded, pipelineFrame, Nodes, At, Fail, SetStatus, Persist, TypeOK, WorkflowRecord
  <1>26. CASE Finish
    BY <1>26, MergedFacts DEF Finish, pipelineFrame, At, UpdateContract, Persist, TypeOK, WorkflowRecord
  <1>27. CASE FinishStatus
    BY <1>27 DEF FinishStatus, pipelineFrame, At, SetStatus, Persist, FinalStatus, TypeOK, WorkflowRecord
  <1>28. CASE TargetRuns \/ TargetLost
    BY <1>28 DEF TargetRuns, TargetLost, TypeOK
  <1>29. ASSUME NEW t \in Tasks, DbStep(t) PROVE VerdictInv'
    BY <1>29 DEF DbStep, Acquire, Commit, PersistFails, dbFrame, NoRow, TypeOK
  <1>30. ASSUME NEW h \in Handlers, Decide(h) PROVE VerdictInv'
    <2>1. PICK d \in Decision :
            /\ contract' = [contract EXCEPT ![rec.ref] = Decided(@, d)]
            /\ hdec' = [hdec EXCEPT ![h] = d]
      BY <1>30 DEF Decide, MayCarry, Decision
    <2>2. /\ contract'[rec.ref].approval = DecisionState(d)
          /\ DecisionState(d) \in {"APPROVED", "MODIFIED", "REJECTED"}
          /\ \A o \in {"seed", "pipe"} \ {rec.ref} : contract'[o] = contract[o]
      BY <2>1, DecidedFacts
    <2>3. /\ contract[rec.ref].approval = "PENDING"
          /\ hpc' = [hpc EXCEPT ![h] = "recorded"]
          /\ UNCHANGED <<rec, pc, row, snap>>
      BY <1>30 DEF Decide, Undecided, handlerFrame
    <2>4. HandlerInv'
      <3>1. pc # "intercept"
        BY <1>30 DEF Decide
      <3>2. ASSUME NEW g \in Handlers, hpc'[g] = "recorded", hdec'[g] # "MODIFY"
            PROVE  contract'[rec.ref].approval = DecisionState(hdec'[g])
        BY <2>1, <2>2, <2>3, <3>2 DEF TypeOK
      <3> QED  BY <2>3, <3>1, <3>2
    <2>5. StateInv'
      <3>1. pc # "intercept"
        BY <1>30 DEF Decide
      <3> QED  BY <2>2, <2>3, <3>1
    <2>6. AgreeInv'
      BY <2>2, <2>3
    <2> QED  BY <2>4, <2>5, <2>6
  <1>31. ASSUME NEW h \in Handlers,
              Refuse(h) \/ DecisionUpdatesStatus(h) \/ Answer(h)
       PROVE  VerdictInv'
    BY <1>31 DEF Refuse, DecisionUpdatesStatus, Answer, SetStatus, DecisionStatus,
                 DecisionState, Persist, handlerFrame, TypeOK, WorkflowRecord
  <1>32. CASE Restart
    BY <1>32 DEF Restart, NoRow, TypeOK
  <1>33. CASE UNCHANGED vars
    BY <1>33 DEF vars
  <1> QED
    BY <1>1, <1>2, <1>3, <1>4, <1>5, <1>6, <1>7, <1>8, <1>9, <1>10, <1>11, <1>12, <1>13,
       <1>14, <1>15, <1>16, <1>17, <1>18, <1>19, <1>20, <1>21, <1>22, <1>23, <1>24, <1>25, <1>26,
       <1>27, <1>28, <1>29, <1>30, <1>31, <1>32, <1>33
       DEF Next, ProxyStep, PipelineStep, TargetStep, HandlerStep

\* The status and the stored verdict never contradict each other, in memory
\* or in the table, over any number of restarts.
THEOREM StatusNeverContradicts ==
  ASSUME ~LateEntry PROVE Spec => []StatusAgrees
  <1>1. Init => VerdictInv
    BY DEF Init, VerdictInv, HandlerInv, StateInv, AgreeInv, Agree, Stored,
           NewContract, NoRecord, NoRow, Objects, Tasks
  <1>2. VerdictInv => StatusAgrees
    BY DEF VerdictInv, AgreeInv, StatusAgrees
  <1> QED
    BY <1>1, <1>2, VerdictStep, Typing, CoreInvariant, PTL DEF Spec

-----------------------------------------------------------------------------
(* Refinement: between restarts the store keeps the promise of ApprovalToken. *)

\* No step but a restart changes a settled approval_state in the store.
LEMMA SettledStays ==
  ASSUME ~LateEntry, ~Restart, TypeOK, TypeOK', CoreInv, VerdictInv, [Next]_vars
  PROVE  \/ Stored.approval \in {"PENDING", "MODIFIED"}
         \/ Stored'.approval = Stored.approval
  <1> USE ConstantsAssumption
  <1>0. /\ contract["seed"] \in HandoffContract
        /\ contract["pipe"] \in HandoffContract
        /\ contract[rec.ref] \in HandoffContract
        /\ rec.ref \in {"seed", "pipe"}
        /\ contract \in [{"seed", "pipe"} -> HandoffContract]
        /\ contract["seed"].approval \in ApprovalState
        /\ contract["pipe"].approval \in ApprovalState
    BY ContractTypes DEF Stored, HandoffContract, TypeOK, Objects
  <1> DEFINE Goal == \/ Stored.approval \in {"PENDING", "MODIFIED"}
                     \/ Stored'.approval = Stored.approval
  <1> SUFFICES Goal  OBVIOUS
  <1> USE <1>0 DEF Stored, CoreInv, RefInv, VerdictInv, StateInv, HandlerInv,
                   KeptStates, ApprovalState
  <1>1. CASE UNCHANGED <<contract, rec>>
    BY <1>1
  <1>2. ASSUME NEW t \in Tasks, NEW s, SetStatus(t, s), UNCHANGED contract
        PROVE  Goal
    BY <1>2 DEF SetStatus, TypeOK, WorkflowRecord
  <1>3. CASE Create
    BY <1>3, PipelineFacts DEF Create, Persist, BindManifest, ManifestKeys, TypeOK, WorkflowRecord
  <1>4. CASE Intake
    BY <1>4, PipelineFacts DEF Intake, At, EnterNode, TypeOK, WorkflowRecord
  <1>5. CASE RiskGate
    BY <1>5, PipelineFacts DEF RiskGate, At, EnterNode, TypeOK, WorkflowRecord
  <1>6. CASE Assemble
    BY <1>6, PipelineFacts DEF Assemble, At, EnterNode, TypeOK, WorkflowRecord
  <1>7. CASE ReenterReview
    BY <1>7, MergedFacts, WithApprovalFacts DEF ReenterReview, At, UpdateContract, Persist, TypeOK, WorkflowRecord
  <1>8. CASE HonourEarlyDecision
    BY <1>8, MergedFacts, WithDecisionFacts DEF HonourEarlyDecision, At, UpdateContract, Persist, TypeOK, WorkflowRecord
  <1>9. CASE EnterReview
    BY <1>9, MergedFacts DEF EnterReview, At, UpdateContract, Persist, TypeOK, WorkflowRecord
  <1>10. CASE LateTimeout
    BY <1>10, WithApprovalFacts DEF LateTimeout, At, TypeOK, WorkflowRecord
  <1>11. CASE Poll
    BY <1>11, WithDecisionFacts DEF Poll, At, RouteReview, TypeOK, WorkflowRecord
  <1>12. CASE Timeout
    BY <1>12, WithApprovalFacts DEF Timeout, At, TypeOK, WorkflowRecord
  <1>13. CASE Execute
    BY <1>13, PipelineFacts DEF Execute, At, EnterNode, TypeOK, WorkflowRecord
  <1>14. CASE ExecutionReturns
    BY <1>14, PipelineFacts DEF ExecutionReturns, At, Persist, TypeOK, WorkflowRecord
  <1>15. CASE Finish
    BY <1>15, MergedFacts DEF Finish, At, UpdateContract, Persist, TypeOK, WorkflowRecord
  <1>16. ASSUME NEW h \in Handlers, Decide(h) PROVE Goal
    BY <1>16 DEF Decide, Undecided
  <1>30. CASE \/ AutoReject \/ AutoExecute \/ AutoExecuteReturns \/ Analyze
              \/ ContextSim \/ Notify \/ EnterLoop \/ TargetStep
    BY <1>1, <1>30 DEF AutoReject, AutoExecute, AutoExecuteReturns, Analyze,
       ContextSim, Notify, EnterLoop, TargetStep, TargetRuns, TargetLost
  <1>31. CASE \/ StartRun \/ HonourStatus \/ SetPending \/ NodeRaises
              \/ RecursionExceeded \/ FinishStatus
    BY <1>2, <1>31 DEF StartRun, HonourStatus, SetPending, NodeRaises,
       RecursionExceeded, FinishStatus, Fail, Tasks
  <1>32. CASE RunAudit
    BY <1>1, <1>2, <1>32 DEF RunAudit, Fail, Tasks
  <1>33. ASSUME NEW t \in Tasks, DbStep(t) PROVE Goal
    BY <1>1, <1>33 DEF DbStep, Acquire, Commit, PersistFails, dbFrame
  <1>34. ASSUME NEW h \in Handlers,
                Refuse(h) \/ DecisionUpdatesStatus(h) \/ Answer(h)
         PROVE  Goal
    BY <1>1, <1>2, <1>34 DEF Refuse, DecisionUpdatesStatus, Answer, Tasks
  <1>35. CASE UNCHANGED vars
    BY <1>1, <1>35 DEF vars
  <1> HIDE DEF Goal
  <1> QED
    BY <1>1, <1>2, <1>3, <1>4, <1>5, <1>6, <1>7, <1>8, <1>9, <1>10, <1>11, <1>12, <1>13, <1>14, <1>15, <1>16,
       <1>30, <1>31, <1>32, <1>33, <1>34, <1>35
       DEF Next, ProxyStep, PipelineStep, HandlerStep

\* Only the EXECUTION node sends the operation on its approval, and at most
\* once.
LEMMA DispatchStep ==
  ASSUME TypeOK, CoreInv, [Next]_vars
  PROVE  \/ /\ pc = "execution" /\ call = "none" /\ gate = "full_pipeline"
            /\ call' = "sent" /\ UNCHANGED <<contract, rec, gate>>
         \/ (gate' = "full_pipeline" /\ call' # "none")
              = (gate = "full_pipeline" /\ call # "none")
  <1> USE DEF CoreInv, CallInv, BeforeDispatch
  <1>1. CASE UNCHANGED <<gate, call>>
    BY <1>1
  <1>2. CASE AutoReject \/ AutoExecute \/ Create
    BY <1>2 DEF AutoReject, AutoExecute, Create
  <1>3. CASE Execute
    BY <1>1, <1>3 DEF Execute, EnterNode, At, pipelineFrame
  <1>4. CASE TargetStep
    BY <1>4 DEF TargetStep, TargetRuns, TargetLost
  <1>5. CASE UNCHANGED vars
    BY <1>1, <1>5 DEF vars
  <1>6. ASSUME NEW t \in Tasks, DbStep(t) PROVE UNCHANGED <<gate, call>>
    BY <1>6 DEF DbStep, Acquire, Commit, PersistFails, dbFrame
  <1>7. ASSUME NEW h \in Handlers, HandlerStep(h) PROVE UNCHANGED <<gate, call>>
    BY <1>7 DEF HandlerStep, Decide, Refuse, DecisionUpdatesStatus, Answer,
                handlerFrame
  <1>8. CASE PipelineStep /\ ~Execute
    <2>1. UNCHANGED <<gate, call>>
      BY <1>8 DEF PipelineStep, StartRun, Intake, RiskGate, Analyze, ContextSim,
         Assemble, Notify, ReenterReview, HonourEarlyDecision, EnterReview,
         HonourStatus, SetPending, EnterLoop, LateTimeout, Poll, Timeout,
         ExecutionReturns, RunAudit, NodeRaises, RecursionExceeded, Finish,
         FinishStatus, pipelineFrame
    <2> QED  BY <1>1, <2>1
  <1>9. CASE AutoExecuteReturns \/ Restart
    BY <1>1, <1>9 DEF AutoExecuteReturns, Restart, pipelineFrame
  <1> QED
    BY <1>1, <1>2, <1>3, <1>4, <1>5, <1>6, <1>7, <1>8, <1>9 DEF Next, ProxyStep

\* Without restarts the workflow implements ApprovalToken: whatever the
\* pipeline, the handlers and the failing database do, the token is settled
\* at most once, never changes afterwards, and the operation is dispatched at
\* most once, on an approved token.
THEOREM WorkflowImplementsToken ==
  ASSUME ~LateEntry, MaxRestarts = 0 PROVE Spec => ImplementsToken
  <1>1. Init => Token!TokenInit /\ VerdictInv
    BY DEF Init, Token!TokenInit, VerdictOf, VerdictInv, HandlerInv, StateInv,
           AgreeInv, Agree, Stored, NewContract, NoRecord, NoRow, Objects, Tasks
  <1>2. ASSUME TypeOK, TypeOK', CoreInv, VerdictInv, [Next]_vars
        PROVE  [Token!TokenNext]_(Token!tokenVars)
    <2>1. ~Restart
      BY <1>2 DEF Restart, TypeOK
    <2>2. \/ Stored.approval \in {"PENDING", "MODIFIED"}
          \/ Stored'.approval = Stored.approval
      BY <1>2, <2>1, SettledStays
    <2>3. CASE /\ pc = "execution" /\ call = "none" /\ gate = "full_pipeline"
               /\ call' = "sent" /\ UNCHANGED <<contract, rec, gate>>
      <3>1. /\ Stored.approval = "APPROVED"
            /\ Stored' = Stored
        BY <1>2, <2>3 DEF CoreInv, RefInv, ApprovalInv, Stored
      <3>2. Token!Dispatch
        BY <2>3, <3>1 DEF Token!Dispatch, VerdictOf
      <3> QED  BY <3>2 DEF Token!TokenNext
    <2>4. CASE (gate' = "full_pipeline" /\ call' # "none")
                 = (gate = "full_pipeline" /\ call # "none")
      <3>1. CASE VerdictOf(Stored'.approval) = VerdictOf(Stored.approval)
        BY <2>4, <3>1 DEF Token!tokenVars
      <3>2. CASE VerdictOf(Stored'.approval) # VerdictOf(Stored.approval)
        <4>1. VerdictOf(Stored.approval) = "open"
          BY <2>2, <3>2 DEF VerdictOf
        <4>2. VerdictOf(Stored'.approval) \in Token!Verdict \ {"open"}
          BY <3>2, <4>1 DEF VerdictOf, Token!Verdict
        <4>3. Token!Settle(VerdictOf(Stored'.approval))
          BY <2>4, <4>1 DEF Token!Settle
        <4> QED  BY <4>2, <4>3 DEF Token!TokenNext
      <3> QED  BY <3>1, <3>2
    <2> QED  BY <1>2, <2>3, <2>4, DispatchStep
  <1> QED
    BY <1>1, <1>2, VerdictStep, Typing, CoreInvariant, PTL
    DEF Spec, ImplementsToken, Token!TokenSpec

=============================================================================
