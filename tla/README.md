# ContraGate: TLA+ specifications

ContraGate sits between AI agents and a database. It intercepts a tool call,
rates its risk, rejects it, executes it, or prepares an *approval contract* and
waits for a human; only an approved call is sent to its target. These modules
model the parts of the program where that promise can be lost: the approval
workflow with its concurrent writers, the rating that decides how much review
an operation gets, the analysis that supplies its numbers, the simulation on the
staging database, the document a reviewer is shown, and the channels through
which reviewers and waiting programs hear of it and answer.

## 1. The system

| Component | State | Operations | Interacts with |
|---|---|---|---|
| proxy (`proxy/main.py`, `risk_gate.py`) | none of its own | `intercept_tool_call`: quick check, then reject, forward, or create a record and start the background task | policy store, postgres reader, target, workflow store |
| workflow store (`orchestrator/workflow_store.py`) | `_records` in memory, a row per record in PostgreSQL | `create`, `update_status`, `update_contract`, `set_execution_result`, `record_decision`, `initialize` | shared by the background task and the handlers of all requests |
| graph (`orchestrator/graph.py`, `guards.py`, `states/`) | one `HandoffContract` per run | INTAKE, RISK_GATE, ANALYSIS, CONTEXT_AND_SIM, CONTRACT, HUMAN_REVIEW, EXECUTION, AUDIT | all MCP servers, workflow store |
| decision endpoints (`proxy/async_protocol.py`, `webhook_handler.py`) | none | `POST /v1/decisions`, Slack modal, status and event endpoints | workflow store |
| agents (`agents/`) | fields of the contract | Analyzer, Context & Simulation, Contract | postgres reader, memory store, transaction sandbox, policy store |
| policy store (`mcp_servers/policy_store`) | the rule table | `evaluate_rules` | proxy, RISK_GATE |
| transaction sandbox (`mcp_servers/transaction_sandbox`) | `_sessions`: a connection with an open transaction per session | `begin_sandbox`, `capture_diff`, `execute_in_sandbox`, `get_trigger_log`, `rollback_sandbox` | one client per simulation, one thread per call |
| postgres reader with `sql_analysis_lib` | none; reads the catalogue and its statistics | `estimate_row_count`, `list_triggers`, `get_fk_graph`, `check_soft_delete` | Analyzer |
| memory store (`mcp_servers/memory_store`) | the table `operation_memory` | `semantic_search`, `filter_by_table_overlap`, `rerank_by_outcome`, `store_operation` | retrieval client, AUDIT |
| notifier (`mcp_servers/notifier`) | `_pending` | `send_approval_request`, `record_decision` | HUMAN_REVIEW, decision endpoint |
| event stream (`async_protocol.py`, `_subscribers` of the store) | a queue per open stream | connect, send, end, disconnect | workflow store |
| audit logger | append-only table | inserts | AUDIT |
| review UI (`ui/`) | browser state | polling, buttons | decision endpoints |

**What is hard here.** The store's in-memory updates are protected by a lock but
the upserts are not. `run_intake` runs twice, so until the pipeline's first
`update_contract` the record and the pipeline own *different* contract objects,
and from then on they share one: a decision is written straight into the object
the pipeline works on. A handler records a decision and updates the status in
two steps with awaits between them. The process may restart in between. Every
MCP call may fail on its own, and each caller has its own default. The sandbox
server runs each call in a thread, so one that its client gave up goes on. An
event stream tests the live record at one place and the event it sent at
another, while several tasks write the record and notify in any order. Decisions
carry no round, and reach the store through a notifier that posts them once. The
cascade is traced with one query after another while statistics change. A MODIFY
fills in the *same* contract object again, so whatever a round does not
overwrite is left over from the one before.

**What must hold.** Nothing unapproved is dispatched, and nothing twice; one
verdict per operation, which status, row and audit log do not contradict; the
task ends and an approval is honoured; a missing fact never makes the rating of
an irrecoverable operation cheaper; a simulation reports its own effect, ends,
and leaves no transaction open; the cascade lists what a deletion reaches and
its flags tell the truth; old counts, rejected prose and hidden rejections do not
pass for current facts in the document; a stream misses no update, ends, and
leaves no queue behind. The list of hazards behind these properties,
with lines, is in `PROJECT.json`.

## 2. Modules

| Module | Models |
|---|---|
| `ApprovalToken` | abstract: a token is settled once, never changes, and is dispatched at most once, if approved |
| `ApprovalWorkflow` | proxy endpoint, store, graph, decision handlers, restart, for one operation; refines `ApprovalToken` |
| `ApprovalWorkflowProofs` | theorems about it: types, dispatch, queue, status, the refinement |
| `ApprovalOutcomeProofs` | further theorems, on those: verdicts, rounds, audit log, status at rest |
| `RiskAssessment` | both gates, rule engine, Analyzer's facts with their defaults, score and tier |
| `TransactionSandbox` | the clients of the simulation and the threads of the sandbox server |
| `ImpactAnalysis` | the Analyzer's calls of the postgres reader, query by query: row estimate, triggers, cascade |
| `ContractRounds` | retrieval, results of the simulation, prose and document over MODIFY rounds and operations, and the write-back to the memory |
| `ReviewChannel` | notifier, Slack modal, decision endpoint and event streams around a reduced pipeline |
| `CascadeProofs` | theorems about the cascade of `ImpactAnalysis`, on those of `ImpactAnalysisProofs` |
| `RiskAssessmentProofs`, `TransactionSandboxProofs`, `ImpactAnalysisProofs`, `ContractRoundsProofs`, `ReviewChannelProofs` | theorems about the module each is named after |
| `MC...` | instances for TLC |

In every module a definition whose comment begins with "Mutation" is a faulty
variant of the definition after it. No specification uses it; it is there to
show that a property notices the fault (`PROJECT.json`, "mutants").

### ApprovalWorkflow

Records are keyed by `operation_id` and never refer to one another: one
operation is modelled. All tasks run on one asyncio loop, so a step of the model
is the code from one await that really waits to the next: the bodies under
`WorkflowStore._lock` are single steps; `_persist` is split at its two awaits
(`Acquire` takes the snapshot of the row and sends it, `Commit` or
`PersistFails` ends it); a call of an MCP server and the polling sleep are
places where the task stands (`pc`).

| Variable | In the code |
|---|---|
| `pc`, `steps` | the statement of `intercept_tool_call`, `_run_pipeline` or a graph node; LangGraph's supersteps |
| `contract["seed"]`, `contract["pipe"]` | the contracts made by the proxy's and the graph's `run_intake` |
| `rec`, `rec.ref` | the `WorkflowRecord`, and which object its `contract` field refers to |
| `row`, `io`, `snap` | the row, and the upsert each task has under way |
| `manifest` | the manifest's keys and those its hash covers (`Create` adds `operation_id` and hashes again) |
| `hpc`, `hdec` | progress and decision of a handler |
| `call`, `target` | the call of the target, and its executions |
| `audit` | what `run_audit` has sent to the audit logger: the tool, which names the event, and the outcome in the payload |
| `history` | history variable: decisions accepted so far |

Data is reduced to what the properties tell apart: a contract is its approval
state, decision, policy verdict, execution result and `rev`, the number of times
CONTRACT has assembled it. The rating is a choice here; `RiskAssessment` is
about it. The in-memory mode of the store (no `DATABASE_URL`) is a run in which
every upsert fails. An upsert that is on its way when the process dies is
dropped: the version the table keeps is the one before. Subscriber queues only
feed the event stream, which is in `ReviewChannel`.

Constants: `Handlers` (requests with a decision), `SlackHandlers` (those that
cannot MODIFY), `Replies` (a call returns, raises `MCPCallError`, or raises
something else), `DbCanFail`, `RecursionLimit`, `MaxRestarts`, and `LateEntry`:
the review's clock starts when the node starts, and when its first writes
outlast the window the loop is never entered.

### RiskAssessment

One operation with its truth (`op`) passes through `quick_check`, RISK_GATE, the
Analyzer's four calls, the retrieval and `classify_risk`. Each call is answered
or not, and not answering leaves the caller's default, which is noted in
`missed`. Scores are in thousandths. Keywords include `SELECT*` (no white space
after the word): the three classifiers split words differently. `op.multi` is a
text with a semicolon inside: `quick_check` does not have it explained and keeps
its conservative cost (`ProxyExplained`), while the graph's gate sends any text
(`GateExplained`). A rule that triggers is in `policy`. `ExplainServed`
says whether the reader serves the tool the gates ask for: they call
`run_explain_tool` (`orchestrator/states/risk_gate.py:87`,
`proxy/risk_gate.py:103`), the reader in `mcp_servers/` registers `run_explain`
(`postgres_reader/server.py:126`).

### TransactionSandbox

Simulations of writes to the same rows of one table, each with up to two
attempts; a session per attempt. The client is `ContextSimAgent` with
`SandboxClient`: it makes one call at a time and rolls back in a `finally`
clause. A tool call is a thread (`tool`) that first looks the connection up in
`_sessions` and then uses it; `rollback_sandbox` is another (`undo`) with the
three steps pop, `rollback()`, `close()`. A connection is in its sandbox
transaction, aborted after an error, bare after the roll-back, or closed, and
may hold the rows. `Lossy` are the calls that can fail at the client whatever the
server does, `ReportsText` whether the client sees the text of a database error,
which the retry needs. DDL is left out (its effect on a count depends on the
statement).

### ImpactAnalysis

One statement against a database with foreign keys `fk` and statistics `stat`
(`reltuples`); `analysed` are the tables with the time of an ANALYZE. The
statistics start as anything `Counts` allows and change to anything it allows:
nothing says that they are right, and the number of rows a table really has does
not occur, since no query of the analysis looks at it. A VACUUM sets `reltuples`
and not the time, so all four combinations of a count and a time exist. `steady`
is a history variable: no statistics have changed since the trace began. `pc` is the
Analyzer's next call. The reader's connection is in autocommit mode, so every
query sees the catalogue of its moment and `Analyze` may come between any two;
the recursion of `_trace` is therefore a stack of frames, one step per query
(`Expand`, `Visit`, `Return`, `CutOff`). `found` is what the contract takes from
the answers, with the Analyzer's default where a call fails. Confidences are in
ten-thousandths. `Scaled` is `int(rows * (child / parent))`: where the exact
product is an integer and the quotient had to be rounded, floating point may
come out one short. A call whose answer JSON cannot carry (an infinite age of
statistics) fails: that is every call about a table that was `NeverAnalysed`,
empty or not. A table analysed while it was empty answers 0 rows with confidence.
What EXPLAIN expects for a condition is a choice (`Matches`).

`ListsWhatCascades` and `FlagsTellTheTruth` compare the traversal with a
reference definition: the tables reached by chains of at most `MaxDepth` keys,
and the existence of a circle.

### ContractRounds

Operations of one tenant, one after the other, each with up to `MaxRounds`
rounds. `contract` is the `HandoffContract` that lives through the rounds, `doc`
the document as last assembled. A measured count is represented by the round that
measured it (0: None), a text by its defects, its round and what it cites of the
contract (`Cited`: count, history, the precedent it names): exactly what is needed
to see that something is left over. `Checked` are the defects
`_validate_and_sanitize_prose` tests an answer of the LLM for; what such an answer
cites is not modelled. The fallback's text is deterministic and is not validated:
`FallbackDefects` is what the reason of the reversibility brings into it. `ret` and `sim` are the two tasks that
`asyncio.gather` runs; the sandbox itself is `TransactionSandbox`. The three stages of the
retrieval are operators over the rows of the memory (`Search` with its WHERE
clauses `Hits`, `FilterByTableOverlap`, `RerankByOutcome`), each of which sorts
(`Ordered`: by a key, entries with the same key in their old order) and may cut
(`FirstN`). SQL may order rows with the same key otherwise, and the index on the
embeddings is approximate: the model takes the order as exact. `Answers` says that only the vector search returns
numbers JSON can carry. `StoreAccepted` is Python's keyword call of
`store_operation` (names sent, required, optional) and the table's CHECK on
the outcome. `DELETE` stands for `UPDATE`, whose cascade is traced alike.

### ReviewChannel

One operation. The pipeline is reduced to the steps that write a status, send a
request or read a decision. A write of the record, the upsert and the notification
of the subscribers are separate: `owed` holds the tasks that have written and not
yet notified. `click` and `carried` follow a decision from the reviewer through
the notifier (posted once, perhaps lost) or the modal to the endpoint's two store
operations. `spc`, `queue` and `shown` are the generator of a stream, suspended
at each yield until its client has taken the event. A late entry to HUMAN_REVIEW
and a restart are left to `ApprovalWorkflow`: a restart ends every stream.

## 3. Runs

| Run | Shows |
|---|---|
| `workflow_safety` | an API and a Slack decision race the pipeline, calls fail or raise: nothing unapproved is dispatched, one verdict, no contradictory status, truthful audit, no approval of a contract that was sent back, refinement of `ApprovalToken` |
| `workflow_restart` | at most one dispatch, status and row without contradiction and a reviewable queue, with failing upserts, a restart at any point and a recursion limit that a MODIFY runs into |
| `workflow_liveness` | also with a late entry the background task ends and an approval accepted during analysis or review leads to a dispatch, unless the late entry overwrote it; when everything has come to rest the status is terminal unless a MODIFY was accepted |
| `risk_assessment` | under every mixture of answers and defaults: what the proxy executes without review is one read that the database has priced; worse facts never lower the tier; an operation that was not sized, or cannot be taken back, gets the full contract |
| `sandbox_safety` | the count in a contract is the operation's own change, whatever is abandoned, aborted or lost |
| `sandbox_liveness` | simulations that lock each other's rows end, sessions are closed, no row stays locked by an attempt that is over |
| `impact_analysis` | over every schema of up to four out of nine foreign keys the cascade is what is reachable within the depth limit and the flags are right, while ANALYZE runs in between; no level exceeds the statistics of its table while these stay; a table never analysed is reported without confidence |
| `contract_rounds` | over two rounds and two operations with every call failing or not: stale counts are flagged, a rejection the search sees is shown and flagged, the prose is this round's and agrees with the document beside it |
| `review_channel` | a stream misses no update, ends once the status stays terminal and leaves no queue; a decision is refused only if another came first or the review was over |

Three runs end in a violation: a document, a comment or the API promises more
than the code does.

| Run | The code |
|---|---|
| `found_status_settles` | the status update of a MODIFY may land after the pipeline has ended and leaves RUNNING for good |
| `found_stream_end` | the stream ends without the terminal status if that status is set while the client takes the first event |
| `found_rejection_forgotten` | AUDIT calls `store_operation` with other arguments than it has, so no rejection is ever remembered; the run lets no other call fail |

**Bounds.** Two handlers: every conflict in the code is between two decisions, or
a decision and the pipeline. One comes through the API and may
carry every decision, the other through Slack, which offers APPROVE and REJECT: a
MODIFY followed by a verdict and two verdicts occur, two MODIFY rounds only in the
proofs. LangGraph's limit of 25
supersteps (a path uses 2 + 4k and then one or two for k MODIFY rounds) is 12
where it should not matter and 9 where a MODIFY round runs into it. One restart:
after it no pipeline runs for the record, so a second only reloads the row; the
theorems cover any number. In `RiskAssessment` the values lie on both sides of
the thresholds that a rating of one operation can cross. Two simulations with two
attempts are four sessions, enough for both conflicts over locks (another
simulation, one's own first attempt). `Size = 3`, `Touched = 2` make the counts
before, after a DELETE and after an INSERT all different. Four tables and four
foreign keys give diamonds, circles, self-references, keys with two columns and
chains longer than the depth limit, which is 2 instead of 5 so that they exist. The
nine keys that may exist and the counts (three for the root, one each for the
others) keep the run short; the root's count may be 0, below and above that of its
children, and 49 rows with one child row is a ratio that floating point rounds. `TopK` is 6
instead of 20 (what the search itself drops is the store's to choose, and the
property makes no claim there), and the memories hold none or six of the tenant's
precedents, more than the three a document shows, with every outcome that ranks
differently and a similarity below 0. Two rounds are enough for something to be left over, two
operations for one to be remembered. One stream suffices where streams do not
share anything but the store; two clicks make a decision that is beaten.

**Fairness.** Weak fairness of the proxy's and the pipeline's steps, of every
upsert, and of a handler that has begun: the event loop runs what is runnable,
asyncpg limits a command to 10 seconds, httpx a call, and the clock reaches the
deadline. None of humans, target and restarts. In `TransactionSandbox`: the
client (its calls time out) and the threads of the server, where
`statement_timeout` ends a statement that waits for a lock. In `ReviewChannel`:
runnable tasks run, upserts end, a request that has arrived is served, a
connected client takes what it is sent; none of reviewers and of clients that
have not connected. `ImpactAnalysis` and `ContractRounds` state safety only.

## 4. Proofs

Every safety property of the runs is proved, for every value of the constants
that the assumption of its module allows. Each proof is an induction over steps: an invariant that the initial states satisfy
and every action preserves (one proof step per action), and that implies the
property. The invariants were also checked with TLC, on the instances of the
runs.

**The workflow.** `ApprovalWorkflowProofs` and `ApprovalOutcomeProofs`, for any
handlers, recursion limit, `Replies`, failing upserts and number of restarts:

| Theorem | Property | Assumes |
|---|---|---|
| `Typing` | `TypeOK` | |
| `ExecutedAtMostOnce` | `AtMostOnce` | |
| `DispatchNeedsApproval` | `OnlyApprovedDispatched` | |
| `QueueHoldsAssembled` | `QueueIsReviewable` | |
| `AuditTellsTheTruth` | `AuditTruthful` | |
| `StatusAtRest` | `SettledAtRest` | |
| `StatusNeverContradicts` | `StatusAgrees` | `~LateEntry` |
| `ApprovalsAreOfNewAnalyses` | `ReanalysedBeforeApproval` | no restart |
| `AcceptsOneVerdict` | `DecidedOnce` | `~LateEntry`, no restart |
| `WorkflowImplementsToken` | `ImplementsToken` | `~LateEntry`, no restart |

The assumptions are needed: a late entry to the review overwrites a decision, and
a restart can forget one whose upsert failed.

None of the properties is inductive. That only approved operations are
dispatched rests on `ApprovalInv` (an approval in the store is the last decision
accepted, and EXECUTION is entered with an approved object), which is preserved
only because of `RefInv`: which of the two contract objects the record refers to
at each place of the pipeline. Without it a decision could be written to one
object while the pipeline goes on with the other. `StageInv` carries what the
gate and CONTRACT have established down to EXECUTION. `QueueInv` and `AgreeInv` speak of
the record, the row *and* every row on its way, since any of those may be what a
restart loads. `HandlerInv` says that a handler between its two store operations
still finds the verdict it recorded, so the status it is about to write is
right; this is where a late entry breaks the argument: it sets TIMED_OUT without
looking at the store.

`AuditInv` says what the audit will find, and so which tool and outcome it sends: before EXECUTION there is no result, so
its early return cannot report a success that never was, and AUDIT is reached
with the operation sent only by an approved object. `RoundInv` compares the
round of the last decision with the round of the contract at every place between
CONTRACT and the review; the one place where they could meet is a decision
while the record already refers to the pipeline's object, and there the object is
still MODIFIED and refuses it. `SettleInv` traces a modified contract to the
handler that asked for it: without one, whatever the task and the handlers write
last is terminal. `CountInv` needs `SettledStays`, the lemma behind the
refinement: no step but a restart changes a settled verdict.

**The rating.** `RiskAssessmentProofs`, for every rule table, choice of hard rules
and values: all five invariants of the run. `TierIsMonotone` is about the pure
function `classify_risk`: facts that are worse in any number of respects never
give a lower tier; it rests on a lemma per bucketed score. `ProxyInv` keeps
the conservative cost of a text that was not explained from the EXPLAIN over the
policy call to the routing, and says that nothing explains the statement again
once the proxy has executed it; `FactsInv` ties a missing row count to
confidence 0.

**The sandbox.** `TransactionSandboxProofs`, for any number of simulations and any
sizes: `TypeOK`, `MeasuredOwnChange` for every set of calls that can get lost, and
`NoLockLeft` provided `begin` and `rollback` are not among them (a
`begin_sandbox` whose answer is lost is never rolled back, see below).
`MeasureInv` follows a count from the connection through the thread's answer to the
client; `SessionOK` relates, per session, the thread of a tool call, the
roll-back and the state of the connection, in particular for a thread that looked
the connection up before the roll-back took it away.

**The analysis.** `ImpactAnalysisProofs`, for every schema, depth limit, statistics
and moments at which they change: `TypeOK`, `WithinStatistics`,
`UncountedIsUntrusted`. `ImpactInv` says of every frame of the stack that, while the
statistics stay, its estimate is within the count of its table and the size it
has read is that count; `ScaledBound` is the arithmetic: a share of the parent of
at most 1 scales the child to at most its count, also where floating point comes
out one short. The condition is needed: an ANALYZE between the estimate of the
root and the reading of its size makes the share larger than 1.

**The cascade.** `CascadeProofs`, for every finite schema and every depth limit:
`ListsWhatCascades` and `FlagsTellTheTruth`. `_trace` is a depth-first walk with a
path per call, the reference a recursive function (`ReachedWithin`) and a
closure (`Reachable`, `HasCycle`); both are related to *chains*, functions that
follow foreign keys from the root. `TraceInv` has two halves. Sound: each call on
the stack stands at the end of a simple chain whose tables are its path, each
listed table is the end of a chain within the limit and not the root, and a circle is reported
only if a chain closed one. Complete: each chain is accounted for (`Covered`): it
is simple and its end is listed, or some call on the stack has still to follow it,
or it is longer than the limit and `max_depth_reached` is set, or it is not
simple and `has_circular_reference` is set. When the stack is empty nothing is
pending, and what is left is the property. `VisitKeeps` is the heart: the call
that takes a child off its list hands every chain pending there to the new call,
lists its end, or raises the flag. Three facts stand in for inductions the
provers cannot do: `ReachedByChains` shows that the recursive function is
`ChainEnds`, which has an explicit definition and satisfies the same equation
(there is no least argument where two solutions differ); a
table that is reached is reached by a *simple* chain because the shortest one is
(`ShortestIsSimple`, from the least-number principle); and a simple chain is no
longer than the number of tables, which is why the schema must be finite.

**The document.** `ContractRoundsProofs`, for any number of rounds and operations,
any statements over finitely many tables and any content of the memory: `TypeOK`,
`StaleCountsFlagged`, `ProseMatchesDocument` and `RejectedPrecedentShown`. `RoundsInv`
adds to the types that counts are not of a round to come and that a simulation
under way has an attempt left. `PrecedentsInv` follows the rejections through the
stages: after the search the candidates are all the entries it can see (if they
fit), after the filter those on enough of the same tables, and the first three by
score show every rejection among them or nothing else (`RerankShows`: a rejection
scores above everything else, so in a list by falling score the rejections come
first); contract and document then pass the list on unchanged. `OrderedSorts`
proves what `Ordered` promises, a list of exactly the chosen entries by falling
key: the number of entries ahead of an entry is an injection of a finite set into
an interval of the same size, hence onto. `CountsInv` has the reason why old counts
cannot pass for new: whatever ends the simulation of a round replaces them or
clears the availability, and an operation that is never simulated never has
counts. `ProseInv`: between the prose and the document nothing changes the
contract, so a fallback text cites what the sections show; that the precedent it
names is among the three of the document needs that the contract holds no more.

**The channels.** `ReviewChannelProofs`, for any number of clicks and streams:
`TypeOK`, `NoUpdateMissed`, `OnlyReadersFed`, `RefusedOnlyIfBeaten`. `StreamInv`:
with no notification outstanding the last event of each registered queue, or
the last one sent, is the record; `DecisionInv`: a contract that is decided or back
in analysis has had a decision.

**Only model-checked.** Liveness (`PipelineEnds`, `ApprovalHonoured`,
`SimulationEnds`, `SessionsClosed`, `StreamsEnd`): fairness is out of the
prover's reach. The three runs that end in a violation have nothing to prove.

**Assumptions.** Beyond the types of the constants: `Tables` is finite in
`ImpactAnalysis` and `ContractRounds` (a database has finitely many tables), the
rows the memory holds at first are of the type of its table, with a cosine
similarity between -1 and 1, and those named with each theorem above.

## 5. Differences between code and documents without a run

* A late entry to HUMAN_REVIEW overwrites a decision accepted meanwhile
  (`human_review.py:171`), against the comment at `workflow_store.py:268`.
* An operation without a success is sent to the audit logger as `log_auto_reject`
  (`states/audit.py:48`), also one that was approved and whose call timed out
  after the target had run it; `audit_logger/server.py:17` calls that tool "Record
  a policy-gate auto-rejection". Only the outcome in the payload tells them apart
  (`AuditTruthful`), and the tool of the repository's own server takes no such
  payload.
* `run_audit` "never raises", but catches `MCPCallError` only.
* After a restart a decision may be accepted that was already accepted before it.
* When the graph's gate takes its fast path the record becomes COMPLETED though
  the operation was never sent.
* `mcp_client.py:75` tests for the key `error`, which every answer of
  `server_base.py:103` has (with the value None): against the repository's own
  servers every call fails at the client. `Replies`, `Lossy` and the defaults in
  `RiskAssessment` include that case.
* An HTTP status 500 carries no text to the client, so the retry after a
  statement time-out is taken only with a server that reports it otherwise.
* The rule on bulk changes reads the planner's estimate, 0 without EXPLAIN, and is
  not evaluated again when the rows have been counted.
* The rules `DDL_NO_BACKUP`, `PAYMENT_WEBHOOK` and `AUTO_REJECT_PATTERN` never
  match with the arguments the gates send; the queue action of `AFTER_HOURS` is
  ignored; an unknown source header counts as internal.
* The simulated row count of an UPDATE is always 0.

Workflow and channels:

* Upserts of a record may commit in the wrong order, though
  `workflow_store.py:7` speaks of write-through.
* No task is resumed for a record loaded after a restart, so its review never
  times out (`src/README.md:359` promises that it does).
* Without EXPLAIN the conservative cost raises the score of a SELECT to 0.25
  only, below the fast path's limit of 0.3 (`guards.py:40`,
  `docs/PHASE_8_PRODUCTION_HARDENING.md:141`), although that cost is set "to avoid
  incorrectly routing to fast path" (`states/risk_gate.py:96`). The proxy's gate
  compares the cost itself (`FastPathIsOnePricedRead`).
* The proxy's fast path is commented "no PII" (`proxy/risk_gate.py:157`), but the
  rules are asked with an empty list of tables and only hard ones are looked at.
* A `begin_sandbox` whose answer fails at the client is never rolled back
  (`sandbox_client.py:72`).
* `/dev/modify` requires `modification_constraints`, but the notifier does not
  forward them (`notifier/server.py:193`, `:232`).
* The notifier removes the pending entry before it posts, does not look at the
  answer and reports "recorded"; decisions made in Slack and time-outs leave
  the entry on its list.
* The request of the next round is sent before the state is set back to PENDING, so
  a prompt decision is refused; a modal opened in one round may be submitted in
  the next.
* `decision_options` lists `REQUEST_PREREQ` (`contract_schema.py:179`), the
  endpoint accepts `REQUEST_PREREQUISITE`; `requires_permanent_acknowledgement`
  is shown but not enforced by the endpoints.

Analysis:

* `max_depth_reached` and `has_circular_reference` are computed and dropped
  (`agents/analyzer/tools.py:118`).
* A parent with `reltuples` 0 hides the rows of its whole subtree
  (`cascade_tracer.py:150`); the cascade ignores the selectivity of the WHERE
  clause (`cascade_tracer.py:195`); tables reached on two ways, and keys with
  two columns, are counted twice in totals.
* An ANALYZE that lowers the root's count between `cascade_tracer.py:205` and
  `:140`, and statistics that are larger than the table, make the cascade larger
  than what is there; nothing in the answer shows it but the confidence, which
  goes by the age alone.
* A table that was analysed while it was empty and filled later is reported with 0
  rows and a confidence of 0.5 to 0.8 (`row_estimator.py:106`); the confidence of
  0.4 for a table never analysed never arrives.
* `int(49 * (1 / 49))` is 0 (`cascade_tracer.py:155`).
* Triggers of the child tables are not looked at (`analyzer/agent.py:123`).

Document and memory:

* `actual_rows` of section 1's cascade is always None, while the total counts the
  simulated cascade (`contract_builder.py:168`, `:196`).
* The fallback prose shows counts left from an earlier round as what the
  staging simulation affected; the flags beside it say that it was unavailable.
* The fallback prose is not validated (`contract/agent.py:269`); for a statement of
  unknown kind it quotes an error message that contains TRUNCATE
  (`reversibility_rules.py:164`), which an answer of the LLM may not. The last of
  the checks in the docstring of the validation (`contract/agent.py:284`) has no code.
* The warning about gaps in sequences is missed when an INSERT ran in the
  sandbox and a later call failed.
* `stale_fields` is never set, so a MODIFY always repeats the whole analysis.
* The re-ranking tests for `APPROVED`, while AUDIT sends `APPROVED_EXECUTED`,
  which (like `TIMED_OUT`) the table's CHECK refuses
  (`seed/historical_operations.sql:22`).
* The text search fails whenever it finds something (its score is a Decimal), and
  nobody passes an embedding when an operation is stored.
* The audit logger's tools are called with arguments they do not have.
* The delta of estimate and result is computed after the write-back, contrary to
  `audit.py:173`.

## 6. Not modelled, and the plan

Out of scope: the wording of prose and messages, signatures, the UI, the
computation of embeddings, the audit logger (inserts nobody reads back), the tools
of the memory store and the reader that no caller uses, section 2 of the document
with the roll-back plan, which is text chosen by the reversibility,
`orchestrator/main.py` and `agents/main.py` (services beside the path of an
intercepted call).

Done: `ApprovalToken` and `ApprovalWorkflow`, `RiskAssessment`,
`TransactionSandbox`, `ReviewChannel`, `ImpactAnalysis`, `ContractRounds`, and the
theorems of section 4. What could come next: abstract specifications for the
sandbox session (opened, used, closed once) and for a stream, with a refinement
like that of `ApprovalToken`; the liveness properties, once a prover for them is
at hand.
