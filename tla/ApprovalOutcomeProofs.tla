----------------------- MODULE ApprovalOutcomeProofs ------------------------
(***************************************************************************)
(* Theorems about what becomes of one operation of ApprovalWorkflow: that  *)
(* it is decided once, that the audit log tells what happened, that a      *)
(* MODIFY is followed by a new analysis before anybody may approve, and    *)
(* that the status comes to rest.                                          *)
(***************************************************************************)
EXTENDS ApprovalWorkflowProofs

-----------------------------------------------------------------------------
(* The inductive invariants. *)

\* What run_audit will find: nothing has been executed before EXECUTION, a
\* result means that the target ran the operation, and only an approved
\* contract reaches AUDIT with the operation sent.
AuditInv ==
    /\ audit # NoAudit => pc \in {"finish", "finish_status", "done", "dead"}
    /\ pc \in BeforeDispatch => rec.result = "none"
    /\ contract["pipe"].execution = "ok" => call = "ran"
    /\ pc = "executing" => /\ contract["pipe"].approval = "APPROVED"
                           /\ contract["pipe"].policy = "clear"
    /\ pc = "audit" /\ call # "none"
         => /\ contract["pipe"].approval = "APPROVED"
            /\ contract["pipe"].policy = "clear"
    /\ AuditTruthful

\* Where the pipeline is in the round that history.rev belongs to: from the
\* CONTRACT node to the review the contract is newer than the decision.
RoundInv ==
    /\ pc \in {"analysis", "context_sim", "contract", "human_review", "notified"}
         /\ rec.ref = "pipe" => contract["pipe"].approval = "MODIFIED"
    /\ pc = "intercept" => /\ rec.status = "ABSENT" /\ history.last = "none"
                           /\ \A h \in Handlers : hpc[h] # "recorded"
    /\ pc \in {"intercept", "created", "intake"} => history.rev = 0
    /\ pc # "dead" => history.rev <= contract["pipe"].rev
    /\ pc \in {"human_review", "notified"} => history.rev < contract["pipe"].rev
    /\ history.last = "MODIFY" /\ Stored.approval = "PENDING"
         => history.rev < Stored.rev \/ pc \in {"finish_status", "done", "dead"}

\* A modified contract has its author among the handlers, and without one the
\* task ends with a terminal status that no handler takes back.
ModifyRequested == \E h \in Handlers : hdec[h] = "MODIFY"

SettleInv ==
    /\ \A h \in Handlers : hpc[h] = "idle" => hdec[h] = "none"
    /\ pc # "dead" => \A o \in Objects :
         contract[o].approval = "MODIFIED" => ModifyRequested
    /\ pc = "done" => rec.status \in TerminalStatus \/ ModifyRequested

\* The store counts a verdict only once, and then holds one.
CountInv ==
    pc # "dead" =>
      \/ history.verdicts = 0
      \/ history.verdicts = 1 /\ Stored.approval \notin {"PENDING", "MODIFIED"}

-----------------------------------------------------------------------------
(* The audit log. *)

\* run_audit calls an operation rejected only when it was not approved or broke
\* a hard policy; an approved one goes to log_execution on a success, and is
\* said to have failed without one.
LEMMA AuditFacts ==
  ASSUME NEW c \in HandoffContract
  PROVE  /\ AuditOf(c).outcome \in {"REJECTED", "TIMED_OUT", "AUTO_REJECTED"}
              => c.approval # "APPROVED" \/ c.policy = "hard"
         /\ AuditOf(c).tool = "log_execution" => c.execution = "ok"
         /\ AuditOf(c).tool = "log_auto_reject" => c.execution # "ok"
         /\ c.approval = "APPROVED" /\ c.policy # "hard"
              => AuditOf(c).outcome = IF c.execution = "ok" THEN "APPROVED_EXECUTED"
                                      ELSE "APPROVED_EXECUTION_FAILED"
  BY DEF AuditOf, DetermineOutcome, HandoffContract, ApprovalState

\* Every step keeps what run_audit will find true.
LEMMA AuditStep ==
  ASSUME TypeOK, TypeOK', CoreInv, AuditInv, [Next]_vars PROVE AuditInv'
  <1> USE ConstantsAssumption
  <1>0. /\ contract["seed"] \in HandoffContract
        /\ contract["pipe"] \in HandoffContract
        /\ contract[rec.ref] \in HandoffContract
        /\ NewContract \in HandoffContract
        /\ NewContract.approval = "PENDING" /\ NewContract.rev = 0
        /\ NewContract.policy = "clear" /\ NewContract.execution = "none"
        /\ rec.ref \in {"seed", "pipe"}
        /\ contract \in [{"seed", "pipe"} -> HandoffContract]
        /\ contract["pipe"].rev \in Nat /\ contract["seed"].rev \in Nat
        /\ history.rev \in Nat
        /\ NoAudit.tool = "none" /\ NoAudit.outcome = "none"
    BY ContractTypes, PipelineFacts DEF NoAudit, Stored, NewContract, HandoffContract, TypeOK, Objects
  <1> USE <1>0 DEF AuditInv, AuditTruthful, CoreInv, CallInv, RefInv, ApprovalInv, StageInv, BeforeDispatch, Stored, ApprovalState, KeptStates
  <1>1. CASE AutoReject
    BY <1>1 DEF AutoReject, TypeOK, WorkflowRecord
  <1>2. CASE AutoExecute
    BY <1>2 DEF AutoExecute, TypeOK, WorkflowRecord
  <1>3. CASE AutoExecuteReturns
    BY <1>3 DEF AutoExecuteReturns, pipelineFrame, TypeOK, WorkflowRecord
  <1>4. CASE Create
    BY <1>4, PipelineFacts DEF Create, Persist, TypeOK, WorkflowRecord
  <1>5. CASE StartRun
    BY <1>5 DEF StartRun, pipelineFrame, At, SetStatus, Persist, TypeOK, WorkflowRecord
  <1>6. CASE Intake
    BY <1>6, PipelineFacts DEF Intake, pipelineFrame, At, EnterNode, TypeOK, WorkflowRecord
  <1>7. CASE RiskGate
    BY <1>7, PipelineFacts DEF RiskGate, pipelineFrame, At, EnterNode, TypeOK, WorkflowRecord
  <1>8. CASE Analyze
    BY <1>8 DEF Analyze, pipelineFrame, At, EnterNode, TypeOK, WorkflowRecord
  <1>9. CASE ContextSim
    BY <1>9 DEF ContextSim, pipelineFrame, At, EnterNode, TypeOK, WorkflowRecord
  <1>10. CASE Assemble
    BY <1>10, PipelineFacts DEF Assemble, pipelineFrame, At, EnterNode, TypeOK, WorkflowRecord
  <1>11. CASE Notify
    BY <1>11 DEF Notify, pipelineFrame, At, EnterNode, TypeOK, WorkflowRecord
  <1>12. CASE ReenterReview
    BY <1>12, MergedFacts, WithApprovalFacts DEF ReenterReview, pipelineFrame, At, UpdateContract, TypeOK, WorkflowRecord
  <1>13. CASE HonourEarlyDecision
    BY <1>13, MergedFacts, WithDecisionFacts DEF HonourEarlyDecision, pipelineFrame, At, UpdateContract, TypeOK, WorkflowRecord
  <1>14. CASE EnterReview
    BY <1>14, MergedFacts DEF EnterReview, pipelineFrame, At, UpdateContract, TypeOK, WorkflowRecord
  <1>15. CASE HonourStatus
    BY <1>15 DEF HonourStatus, pipelineFrame, At, SetStatus, HonouredStatus, RouteReview, TypeOK, WorkflowRecord
  <1>16. CASE SetPending
    BY <1>16 DEF SetPending, pipelineFrame, At, SetStatus, TypeOK, WorkflowRecord
  <1>17. CASE EnterLoop
    BY <1>17 DEF EnterLoop, pipelineFrame, At, TypeOK, WorkflowRecord
  <1>18. CASE LateTimeout
    BY <1>18, WithApprovalFacts DEF LateTimeout, pipelineFrame, At, TypeOK, WorkflowRecord
  <1>19. CASE Poll
    BY <1>19, WithDecisionFacts DEF Poll, pipelineFrame, At, RouteReview, TypeOK, WorkflowRecord
  <1>20. CASE Timeout
    BY <1>20, WithApprovalFacts DEF Timeout, pipelineFrame, At, TypeOK, WorkflowRecord
  <1>21. CASE Execute
    BY <1>21, PipelineFacts DEF Execute, pipelineFrame, At, EnterNode, ExecutionBlocked, TypeOK, WorkflowRecord
  <1>22. CASE ExecutionReturns
    BY <1>22, PipelineFacts DEF ExecutionReturns, pipelineFrame, At, TypeOK, WorkflowRecord
  <1>23. CASE RunAudit
    <2>1. /\ contract' = contract /\ call' = call /\ pc = "audit"
          /\ pc' \in {"finish", "done"}
          /\ audit' \in {AuditOf(contract["pipe"]), audit}
      BY <1>23 DEF RunAudit, EnterNode, At, Fail
    <2>2. /\ audit = NoAudit
          /\ call # "none" => /\ contract["pipe"].approval = "APPROVED"
                              /\ contract["pipe"].policy # "hard"
          /\ contract["pipe"].execution = "ok" => call = "ran"
      BY <2>1
    <2>3. CASE audit' = AuditOf(contract["pipe"])
      BY <2>1, <2>2, <2>3, AuditFacts
    <2>4. CASE audit' = NoAudit
      BY <2>1, <2>4 DEF NoAudit
    <2> QED  BY <2>1, <2>2, <2>3, <2>4
  <1>24. CASE NodeRaises
    BY <1>24 DEF NodeRaises, pipelineFrame, At, Fail, SetStatus, TypeOK, WorkflowRecord
  <1>25. CASE RecursionExceeded
    BY <1>25 DEF RecursionExceeded, pipelineFrame, Nodes, At, Fail, SetStatus, TypeOK, WorkflowRecord
  <1>26. CASE Finish
    BY <1>26, MergedFacts DEF Finish, pipelineFrame, At, UpdateContract, TypeOK, WorkflowRecord
  <1>27. CASE FinishStatus
    BY <1>27 DEF FinishStatus, pipelineFrame, At, SetStatus, FinalStatus, TypeOK, WorkflowRecord
  <1>28. CASE TargetRuns \/ TargetLost
    BY <1>28 DEF TargetRuns, TargetLost, TypeOK, WorkflowRecord
  <1>29. ASSUME NEW t \in Tasks, DbStep(t) PROVE AuditInv'
    BY <1>29 DEF DbStep, Acquire, Commit, PersistFails, dbFrame, TypeOK, WorkflowRecord
  <1>30. ASSUME NEW h \in Handlers, Decide(h) PROVE AuditInv'
    BY <1>30, DecidedFacts DEF Decide, Undecided, MayCarry, Decision, Persist, handlerFrame, TypeOK, WorkflowRecord
  <1>31. ASSUME NEW h \in Handlers,
              Refuse(h) \/ DecisionUpdatesStatus(h) \/ Answer(h)
        PROVE AuditInv'
    BY <1>31 DEF Refuse, DecisionUpdatesStatus, Answer, SetStatus, DecisionStatus, handlerFrame, TypeOK, WorkflowRecord
  <1>32. CASE Restart
    BY <1>32 DEF Restart, TypeOK, WorkflowRecord
  <1>33. CASE UNCHANGED vars
    BY <1>33 DEF vars
  <1> QED
    BY <1>1, <1>2, <1>3, <1>4, <1>5, <1>6, <1>7, <1>8, <1>9, <1>10, <1>11, <1>12, <1>13,
       <1>14, <1>15, <1>16, <1>17, <1>18, <1>19, <1>20, <1>21, <1>22, <1>23, <1>24, <1>25, <1>26,
       <1>27, <1>28, <1>29, <1>30, <1>31, <1>32, <1>33
       DEF Next, ProxyStep, PipelineStep, TargetStep, HandlerStep

-----------------------------------------------------------------------------
(* Rounds of review. *)

\* Every step keeps the contract under review newer than the decision that
\* sent it back.
LEMMA RoundStep ==
  ASSUME TypeOK, TypeOK', CoreInv, RoundInv, [Next]_vars PROVE RoundInv'
  <1> USE ConstantsAssumption
  <1>0. /\ contract["seed"] \in HandoffContract
        /\ contract["pipe"] \in HandoffContract
        /\ contract[rec.ref] \in HandoffContract
        /\ NewContract \in HandoffContract
        /\ NewContract.approval = "PENDING" /\ NewContract.rev = 0
        /\ NewContract.policy = "clear" /\ NewContract.execution = "none"
        /\ rec.ref \in {"seed", "pipe"}
        /\ contract \in [{"seed", "pipe"} -> HandoffContract]
        /\ contract["pipe"].rev \in Nat /\ contract["seed"].rev \in Nat
        /\ history.rev \in Nat
    BY ContractTypes, PipelineFacts DEF Stored, NewContract, HandoffContract, TypeOK, Objects
  <1> USE <1>0 DEF RoundInv, CoreInv, RefInv, StageInv, Stored, ApprovalState, KeptStates, BeforeDispatch
  <1>1. CASE AutoReject
    BY <1>1 DEF AutoReject, TypeOK, WorkflowRecord
  <1>2. CASE AutoExecute
    BY <1>2 DEF AutoExecute, TypeOK, WorkflowRecord
  <1>3. CASE AutoExecuteReturns
    BY <1>3 DEF AutoExecuteReturns, pipelineFrame, TypeOK, WorkflowRecord
  <1>4. CASE Create
    BY <1>4, PipelineFacts DEF Create, Persist, TypeOK, WorkflowRecord
  <1>5. CASE StartRun
    BY <1>5 DEF StartRun, pipelineFrame, At, SetStatus, Persist, TypeOK, WorkflowRecord
  <1>6. CASE Intake
    BY <1>6, PipelineFacts DEF Intake, pipelineFrame, At, EnterNode, TypeOK, WorkflowRecord
  <1>7. CASE RiskGate
    BY <1>7, PipelineFacts DEF RiskGate, pipelineFrame, At, EnterNode, TypeOK, WorkflowRecord
  <1>8. CASE Analyze
    BY <1>8 DEF Analyze, pipelineFrame, At, EnterNode, TypeOK, WorkflowRecord
  <1>9. CASE ContextSim
    BY <1>9 DEF ContextSim, pipelineFrame, At, EnterNode, TypeOK, WorkflowRecord
  <1>10. CASE Assemble
    BY <1>10, PipelineFacts DEF Assemble, pipelineFrame, At, EnterNode, TypeOK, WorkflowRecord
  <1>11. CASE Notify
    BY <1>11 DEF Notify, pipelineFrame, At, EnterNode, TypeOK, WorkflowRecord
  <1>12. CASE ReenterReview
    BY <1>12, MergedFacts, WithApprovalFacts DEF ReenterReview, pipelineFrame, At, UpdateContract, TypeOK, WorkflowRecord
  <1>13. CASE HonourEarlyDecision
    BY <1>13, MergedFacts, WithDecisionFacts DEF HonourEarlyDecision, pipelineFrame, At, UpdateContract, TypeOK, WorkflowRecord
  <1>14. CASE EnterReview
    BY <1>14, MergedFacts DEF EnterReview, pipelineFrame, At, UpdateContract, TypeOK, WorkflowRecord
  <1>15. CASE HonourStatus
    BY <1>15 DEF HonourStatus, pipelineFrame, At, SetStatus, HonouredStatus, RouteReview, TypeOK, WorkflowRecord
  <1>16. CASE SetPending
    BY <1>16 DEF SetPending, pipelineFrame, At, SetStatus, TypeOK, WorkflowRecord
  <1>17. CASE EnterLoop
    BY <1>17 DEF EnterLoop, pipelineFrame, At, TypeOK, WorkflowRecord
  <1>18. CASE LateTimeout
    BY <1>18, WithApprovalFacts DEF LateTimeout, pipelineFrame, At, TypeOK, WorkflowRecord
  <1>19. CASE Poll
    BY <1>19, WithDecisionFacts DEF Poll, pipelineFrame, At, RouteReview, TypeOK, WorkflowRecord
  <1>20. CASE Timeout
    BY <1>20, WithApprovalFacts DEF Timeout, pipelineFrame, At, TypeOK, WorkflowRecord
  <1>21. CASE Execute
    BY <1>21, PipelineFacts DEF Execute, pipelineFrame, At, EnterNode, ExecutionBlocked, TypeOK, WorkflowRecord
  <1>22. CASE ExecutionReturns
    BY <1>22, PipelineFacts DEF ExecutionReturns, pipelineFrame, At, TypeOK, WorkflowRecord
  <1>23. CASE RunAudit
    BY <1>23 DEF RunAudit, pipelineFrame, At, EnterNode, Fail, SetStatus, TypeOK, WorkflowRecord
  <1>24. CASE NodeRaises
    BY <1>24 DEF NodeRaises, pipelineFrame, At, Fail, SetStatus, TypeOK, WorkflowRecord
  <1>25. CASE RecursionExceeded
    BY <1>25 DEF RecursionExceeded, pipelineFrame, Nodes, At, Fail, SetStatus, TypeOK, WorkflowRecord
  <1>26. CASE Finish
    BY <1>26, MergedFacts DEF Finish, pipelineFrame, At, UpdateContract, TypeOK, WorkflowRecord
  <1>27. CASE FinishStatus
    BY <1>27 DEF FinishStatus, pipelineFrame, At, SetStatus, FinalStatus, TypeOK, WorkflowRecord
  <1>28. CASE TargetRuns \/ TargetLost
    BY <1>28 DEF TargetRuns, TargetLost, TypeOK, WorkflowRecord
  <1>29. ASSUME NEW t \in Tasks, DbStep(t) PROVE RoundInv'
    BY <1>29 DEF DbStep, Acquire, Commit, PersistFails, dbFrame, TypeOK, WorkflowRecord
  <1>30. ASSUME NEW h \in Handlers, Decide(h) PROVE RoundInv'
    BY <1>30, DecidedFacts DEF Decide, Undecided, MayCarry, Decision, Persist, handlerFrame, TypeOK, WorkflowRecord
  <1>31. ASSUME NEW h \in Handlers,
              Refuse(h) \/ DecisionUpdatesStatus(h) \/ Answer(h)
        PROVE RoundInv'
    BY <1>31 DEF Refuse, DecisionUpdatesStatus, Answer, SetStatus, DecisionStatus, handlerFrame, TypeOK, WorkflowRecord
  <1>32. CASE Restart
    BY <1>32 DEF Restart, TypeOK, WorkflowRecord
  <1>33. CASE UNCHANGED vars
    BY <1>33 DEF vars
  <1> QED
    BY <1>1, <1>2, <1>3, <1>4, <1>5, <1>6, <1>7, <1>8, <1>9, <1>10, <1>11, <1>12, <1>13,
       <1>14, <1>15, <1>16, <1>17, <1>18, <1>19, <1>20, <1>21, <1>22, <1>23, <1>24, <1>25, <1>26,
       <1>27, <1>28, <1>29, <1>30, <1>31, <1>32, <1>33
       DEF Next, ProxyStep, PipelineStep, TargetStep, HandlerStep

-----------------------------------------------------------------------------
(* Coming to rest. *)

\* Every step keeps MODIFY the only reason for a status that does not settle.
LEMMA SettleStep ==
  ASSUME TypeOK, TypeOK', CoreInv, SettleInv, [Next]_vars PROVE SettleInv'
  <1> USE ConstantsAssumption
  <1>0. /\ contract["seed"] \in HandoffContract
        /\ contract["pipe"] \in HandoffContract
        /\ contract[rec.ref] \in HandoffContract
        /\ NewContract \in HandoffContract
        /\ NewContract.approval = "PENDING" /\ NewContract.rev = 0
        /\ NewContract.policy = "clear" /\ NewContract.execution = "none"
        /\ rec.ref \in {"seed", "pipe"}
        /\ contract \in [{"seed", "pipe"} -> HandoffContract]
        /\ contract["pipe"].rev \in Nat /\ contract["seed"].rev \in Nat
        /\ history.rev \in Nat
    BY ContractTypes, PipelineFacts DEF Stored, NewContract, HandoffContract, TypeOK, Objects
  <1> USE <1>0 DEF SettleInv, ModifyRequested, TerminalStatus, CoreInv, RefInv, Stored, ApprovalState, KeptStates, Objects
  <1>1. CASE AutoReject
    BY <1>1 DEF AutoReject, TypeOK, WorkflowRecord
  <1>2. CASE AutoExecute
    BY <1>2 DEF AutoExecute, TypeOK, WorkflowRecord
  <1>3. CASE AutoExecuteReturns
    BY <1>3 DEF AutoExecuteReturns, pipelineFrame, TypeOK, WorkflowRecord
  <1>4. CASE Create
    BY <1>4, PipelineFacts DEF Create, Persist, TypeOK, WorkflowRecord
  <1>5. CASE StartRun
    BY <1>5 DEF StartRun, pipelineFrame, At, SetStatus, Persist, TypeOK, WorkflowRecord
  <1>6. CASE Intake
    BY <1>6, PipelineFacts DEF Intake, pipelineFrame, At, EnterNode, TypeOK, WorkflowRecord
  <1>7. CASE RiskGate
    BY <1>7, PipelineFacts DEF RiskGate, pipelineFrame, At, EnterNode, TypeOK, WorkflowRecord
  <1>8. CASE Analyze
    BY <1>8 DEF Analyze, pipelineFrame, At, EnterNode, TypeOK, WorkflowRecord
  <1>9. CASE ContextSim
    BY <1>9 DEF ContextSim, pipelineFrame, At, EnterNode, TypeOK, WorkflowRecord
  <1>10. CASE Assemble
    BY <1>10, PipelineFacts DEF Assemble, pipelineFrame, At, EnterNode, TypeOK, WorkflowRecord
  <1>11. CASE Notify
    BY <1>11 DEF Notify, pipelineFrame, At, EnterNode, TypeOK, WorkflowRecord
  <1>12. CASE ReenterReview
    BY <1>12, MergedFacts, WithApprovalFacts DEF ReenterReview, pipelineFrame, At, UpdateContract, TypeOK, WorkflowRecord
  <1>13. CASE HonourEarlyDecision
    BY <1>13, MergedFacts, WithDecisionFacts DEF HonourEarlyDecision, pipelineFrame, At, UpdateContract, TypeOK, WorkflowRecord
  <1>14. CASE EnterReview
    BY <1>14, MergedFacts DEF EnterReview, pipelineFrame, At, UpdateContract, TypeOK, WorkflowRecord
  <1>15. CASE HonourStatus
    BY <1>15 DEF HonourStatus, pipelineFrame, At, SetStatus, HonouredStatus, RouteReview, TypeOK, WorkflowRecord
  <1>16. CASE SetPending
    BY <1>16 DEF SetPending, pipelineFrame, At, SetStatus, TypeOK, WorkflowRecord
  <1>17. CASE EnterLoop
    BY <1>17 DEF EnterLoop, pipelineFrame, At, TypeOK, WorkflowRecord
  <1>18. CASE LateTimeout
    BY <1>18, WithApprovalFacts DEF LateTimeout, pipelineFrame, At, TypeOK, WorkflowRecord
  <1>19. CASE Poll
    BY <1>19, WithDecisionFacts DEF Poll, pipelineFrame, At, RouteReview, TypeOK, WorkflowRecord
  <1>20. CASE Timeout
    BY <1>20, WithApprovalFacts DEF Timeout, pipelineFrame, At, TypeOK, WorkflowRecord
  <1>21. CASE Execute
    BY <1>21, PipelineFacts DEF Execute, pipelineFrame, At, EnterNode, ExecutionBlocked, TypeOK, WorkflowRecord
  <1>22. CASE ExecutionReturns
    BY <1>22, PipelineFacts DEF ExecutionReturns, pipelineFrame, At, TypeOK, WorkflowRecord
  <1>23. CASE RunAudit
    BY <1>23 DEF RunAudit, pipelineFrame, At, EnterNode, Fail, SetStatus, TypeOK, WorkflowRecord
  <1>24. CASE NodeRaises
    BY <1>24 DEF NodeRaises, pipelineFrame, At, Fail, SetStatus, TypeOK, WorkflowRecord
  <1>25. CASE RecursionExceeded
    BY <1>25 DEF RecursionExceeded, pipelineFrame, Nodes, At, Fail, SetStatus, TypeOK, WorkflowRecord
  <1>26. CASE Finish
    BY <1>26, MergedFacts DEF Finish, pipelineFrame, At, UpdateContract, TypeOK, WorkflowRecord
  <1>27. CASE FinishStatus
    BY <1>27 DEF FinishStatus, pipelineFrame, At, SetStatus, FinalStatus, TypeOK, WorkflowRecord
  <1>28. CASE TargetRuns \/ TargetLost
    BY <1>28 DEF TargetRuns, TargetLost, TypeOK, WorkflowRecord
  <1>29. ASSUME NEW t \in Tasks, DbStep(t) PROVE SettleInv'
    BY <1>29 DEF DbStep, Acquire, Commit, PersistFails, dbFrame, TypeOK, WorkflowRecord
  <1>30. ASSUME NEW h \in Handlers, Decide(h) PROVE SettleInv'
    BY <1>30, DecidedFacts DEF Decide, Undecided, MayCarry, Decision, Persist, handlerFrame, TypeOK, WorkflowRecord
  <1>31. ASSUME NEW h \in Handlers,
              Refuse(h) \/ DecisionUpdatesStatus(h) \/ Answer(h)
        PROVE SettleInv'
    BY <1>31 DEF Refuse, DecisionUpdatesStatus, Answer, SetStatus, DecisionStatus, handlerFrame, TypeOK, WorkflowRecord
  <1>32. CASE Restart
    BY <1>32 DEF Restart, TypeOK, WorkflowRecord
  <1>33. CASE UNCHANGED vars
    BY <1>33 DEF vars
  <1> QED
    BY <1>1, <1>2, <1>3, <1>4, <1>5, <1>6, <1>7, <1>8, <1>9, <1>10, <1>11, <1>12, <1>13,
       <1>14, <1>15, <1>16, <1>17, <1>18, <1>19, <1>20, <1>21, <1>22, <1>23, <1>24, <1>25, <1>26,
       <1>27, <1>28, <1>29, <1>30, <1>31, <1>32, <1>33
       DEF Next, ProxyStep, PipelineStep, TargetStep, HandlerStep

-----------------------------------------------------------------------------
(* The theorems. *)

\* The audit invariant and the rounds hold in every reachable state, late
\* entries into the review and restarts included.
THEOREM OutcomeInvariant == Spec => [](AuditInv /\ RoundInv /\ SettleInv)
  <1>1. Init => AuditInv /\ RoundInv /\ SettleInv
    BY DEF Init, AuditInv, AuditTruthful, NoAudit, RoundInv, SettleInv, Stored, Objects,
           NewContract, NoRecord
  <1> QED
    BY <1>1, AuditStep, RoundStep, SettleStep, Typing, CoreInvariant, PTL DEF Spec

\* What the audit record tells of an operation: log_execution only for one the
\* target ran; REJECTED, TIMED_OUT or AUTO_REJECTED only for one that was never
\* sent to it; and a log_auto_reject of one that was sent says that it was
\* approved; whatever calls fail, however late the review is entered and however
\* often the process restarts.
THEOREM AuditTellsTheTruth == Spec => []AuditTruthful
  <1>1. AuditInv => AuditTruthful
    BY DEF AuditInv
  <1> QED
    BY <1>1, OutcomeInvariant, PTL

\* When the background task has ended and no MODIFY was accepted, the status
\* a polling client sees is terminal, whichever of the pipeline and the
\* handlers wrote it last.
THEOREM StatusAtRest == Spec => []SettledAtRest
  <1>1. SettleInv => SettledAtRest
    BY DEF SettleInv, ModifyRequested, SettledAtRest
  <1> QED
    BY <1>1, OutcomeInvariant, PTL

\* No restart has ended the background task.
Alive == pc # "dead"

\* Without restarts the background task is never lost.
LEMMA NeverDead ==
  ASSUME MaxRestarts = 0 PROVE Spec => []Alive
  <1> USE DEF Alive
  <1>1. Init => Alive
    BY DEF Init
  <1>2. ASSUME TypeOK, Alive, [Next]_vars PROVE Alive'
    <2>1. ~Restart
      BY <1>2 DEF Restart, TypeOK
    <2>2. CASE ProxyStep
      BY <2>2 DEF ProxyStep, AutoReject, AutoExecute, AutoExecuteReturns, Create
    <2>3. CASE PipelineStep
      BY <2>3 DEF PipelineStep, StartRun, Intake, RiskGate, Analyze, ContextSim,
         Assemble, Notify, ReenterReview, HonourEarlyDecision, EnterReview,
         HonourStatus, SetPending, EnterLoop, LateTimeout, Poll, Timeout,
         Execute, ExecutionReturns, RunAudit, NodeRaises, RecursionExceeded,
         Finish, FinishStatus, Fail, RouteReview
    <2>4. CASE TargetStep \/ UNCHANGED vars
      BY <1>2, <2>4 DEF TargetStep, TargetRuns, TargetLost, vars
    <2>5. ASSUME NEW t \in Tasks, DbStep(t) PROVE Alive'
      BY <1>2, <2>5 DEF DbStep, Acquire, Commit, PersistFails, dbFrame
    <2>6. ASSUME NEW h \in Handlers, HandlerStep(h) PROVE Alive'
      BY <1>2, <2>6 DEF HandlerStep, Decide, Refuse, DecisionUpdatesStatus,
                        Answer, handlerFrame
    <2> QED  BY <1>2, <2>1, <2>2, <2>3, <2>4, <2>5, <2>6 DEF Next
  <1> HIDE DEF Alive
  <1> QED
    BY <1>1, <1>2, Typing, PTL DEF Spec

\* Only record_decision, on an undecided contract, adds to the history.
LEMMA HistoryStep ==
  ASSUME [Next]_vars
  PROVE  \/ UNCHANGED history
         \/ /\ Stored.approval = "PENDING"
            /\ \E h \in Handlers : Decide(h)
  <1>1. CASE ProxyStep
    BY <1>1 DEF ProxyStep, AutoReject, AutoExecute, AutoExecuteReturns, Create,
                pipelineFrame
  <1>2. CASE PipelineStep
    BY <1>2 DEF PipelineStep, StartRun, Intake, RiskGate, Analyze, ContextSim,
       Assemble, Notify, ReenterReview, HonourEarlyDecision, EnterReview,
       HonourStatus, SetPending, EnterLoop, LateTimeout, Poll, Timeout,
       Execute, ExecutionReturns, RunAudit, NodeRaises, RecursionExceeded,
       Finish, FinishStatus, pipelineFrame
  <1>3. CASE TargetStep \/ Restart \/ UNCHANGED vars
    BY <1>3 DEF TargetStep, TargetRuns, TargetLost, Restart, vars
  <1>4. ASSUME NEW t \in Tasks, DbStep(t) PROVE UNCHANGED history
    BY <1>4 DEF DbStep, Acquire, Commit, PersistFails, dbFrame
  <1>5. ASSUME NEW h \in Handlers, HandlerStep(h)
        PROVE  UNCHANGED history \/ (Stored.approval = "PENDING" /\ Decide(h))
    BY <1>5 DEF HandlerStep, Decide, Undecided, Refuse, DecisionUpdatesStatus, Answer
  <1> QED  BY <1>1, <1>2, <1>3, <1>4, <1>5 DEF Next

\* After a MODIFY nobody approves before the pipeline has assembled the
\* contract again, also when the review is entered late.
THEOREM ApprovalsAreOfNewAnalyses ==
  ASSUME MaxRestarts = 0 PROVE Spec => ReanalysedBeforeApproval
  <1>1. ASSUME RoundInv, Alive, [Next]_vars
        PROVE  [history.last = "MODIFY" /\ history'.last = "APPROVE"
                  => Stored.rev > history.rev \/ pc \in {"finish_status", "done"}]_vars
    <2>1. SUFFICES ASSUME history.last = "MODIFY", history'.last = "APPROVE",
                          pc \notin {"finish_status", "done"}
                   PROVE  Stored.rev > history.rev
      OBVIOUS
    <2>2. Stored.approval = "PENDING"
      BY <1>1, <2>1, HistoryStep
    <2>3. history.rev < Stored.rev
      BY <1>1, <2>1, <2>2 DEF RoundInv, Alive
    <2> QED  BY <2>3
  <1> QED
    BY <1>1, OutcomeInvariant, NeverDead, PTL DEF Spec, ReanalysedBeforeApproval

\* Between restarts record_decision accepts at most one verdict, provided the
\* loop of run_human_review looks at the store before its deadline.
THEOREM AcceptsOneVerdict ==
  ASSUME ~LateEntry, MaxRestarts = 0 PROVE Spec => []DecidedOnce
  <1>1. Init => CountInv /\ VerdictInv
    BY DEF Init, CountInv, VerdictInv, HandlerInv, StateInv, AgreeInv, Agree,
           Stored, NewContract, NoRecord, NoRow, Objects, Tasks
  <1>2. ASSUME TypeOK, TypeOK', Alive, CoreInv, VerdictInv, CountInv, [Next]_vars
        PROVE  CountInv'
    <2>1. ~Restart
      BY <1>2 DEF Restart, TypeOK
    <2>2. \/ Stored.approval \in {"PENDING", "MODIFIED"}
          \/ Stored'.approval = Stored.approval
      BY <1>2, <2>1, SettledStays
    <2>3. CASE UNCHANGED history
      BY <1>2, <2>2, <2>3 DEF CountInv, Alive
    <2>4. ASSUME NEW h \in Handlers, Stored.approval = "PENDING", Decide(h)
          PROVE  CountInv'
      <3>1. PICK d \in Decision :
              /\ contract' = [contract EXCEPT ![rec.ref] = Decided(@, d)]
              /\ history' = [last |-> d, rev |-> Stored.rev,
                             verdicts |-> history.verdicts
                                          + (IF d = "MODIFY" THEN 0 ELSE 1)]
              /\ rec' = rec
        <4>1. MayCarry(h) \subseteq Decision
          BY DEF MayCarry, Decision
        <4> QED  BY <2>4, <4>1 DEF Decide
      <3>2. /\ history.verdicts = 0
            /\ contract \in [{"seed", "pipe"} -> HandoffContract]
            /\ rec.ref \in {"seed", "pipe"}
        BY <1>2, <2>4, ContractTypes DEF CountInv, Alive, TypeOK, Objects
      <3>3. /\ contract'[rec.ref].approval = DecisionState(d)
            /\ DecisionState(d) \in {"APPROVED", "MODIFIED", "REJECTED"}
            /\ DecisionState(d) = "MODIFIED" <=> d = "MODIFY"
        BY <3>1, <3>2, DecidedFacts
      <3> QED  BY <3>1, <3>2, <3>3 DEF CountInv, Stored
    <2> QED  BY <1>2, <2>3, <2>4, HistoryStep
  <1>3. CountInv /\ Alive => DecidedOnce
    BY DEF CountInv, Alive, DecidedOnce
  <1> QED
    BY <1>1, <1>2, <1>3, VerdictStep, Typing, CoreInvariant, NeverDead, PTL DEF Spec

=============================================================================
