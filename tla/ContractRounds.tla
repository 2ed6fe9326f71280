--------------------------- MODULE ContractRounds ---------------------------
(***************************************************************************)
(* How the document a reviewer sees comes about, over the MODIFY rounds of *)
(* an operation and over the operations of a tenant.  In every round the   *)
(* contract object of the first round is filled in again: the Analyzer,    *)
(* the retrieval of precedents and the simulation (two concurrent tasks),  *)
(* the prose, and the four sections of the document.  AUDIT then writes    *)
(* the operation back to the memory the retrievals read.                   *)
(*                                                                         *)
(* A measured row count is represented by the round that measured it, 0    *)
(* being None; a text by its defects, its round and what it cites.         *)
(* Similarities are in hundredths, rerank scores in thousandths.  Rating,  *)
(* sandbox and the race for the decision are the business of other modules.*)
(***************************************************************************)
EXTENDS Integers, Sequences, FiniteSets, Functions

CONSTANTS
    Tables,        \* names of tables
    Statements,    \* [kind, primary, cascade]: primary has at most one
                   \* table; DELETE stands for UPDATE too, UNKNOWN for any
                   \* other first word than those of DML and DDL
    Memories,      \* what operation_memory may hold at first
    MaxOps,        \* operations of the tenant, one after the other
    MaxRounds,     \* rounds of an operation (MODIFY leads to the next)
    TopK,          \* top_k of the search (20)
    Reliable       \* does a call of the memory store fail only where it has to?

Outcomes == {"APPROVED", "REJECTED", "ROLLED_BACK", "MODIFIED", "AUTO_REJECTED"}

\* A row of operation_memory as a search sees it.  own: of this tenant;
\* textual: the pattern matches; similarity: 1 - cosine distance.
Precedent == [id: Nat, own: BOOLEAN, tables: SUBSET Tables, outcome: Outcomes,
              delta: BOOLEAN, similarity: -100..100, embedded: BOOLEAN, textual: BOOLEAN]

ASSUME RoundsAssumption ==
    /\ IsFiniteSet(Tables)
    /\ Statements \subseteq [kind: {"DELETE", "INSERT", "SELECT", "DDL", "UNKNOWN"},
                             primary: SUBSET Tables, cascade: SUBSET Tables]
    /\ \A m \in Memories : m \in Seq(Precedent)
    /\ MaxOps \in Nat \ {0} /\ MaxRounds \in Nat \ {0} /\ TopK \in Nat \ {0}
    /\ Reliable \in BOOLEAN

VARIABLES
    pc,        \* the state of the graph
    op,        \* number of the current operation
    stmt,      \* its statement
    round,     \* its round
    contract,  \* the HandoffContract
    ret, sim,  \* the two tasks of CONTEXT_AND_SIM
    attempt,   \* calls of the LLM in this round
    doc,       \* the approval contract as it was last assembled
    memory,    \* operation_memory, the latest decision first
    rejected   \* history variable: the operations rejected so far

opVars == <<op, stmt, round>>
vars == <<pc, opVars, contract, ret, sim, attempt, doc, memory, rejected>>

\* What may be wrong with a text.  The docstring of the validation lists
\* "bypass" (untrusted input that gets around it) too; the code tests the rest.
Defects == {"incomplete", "sql", "decision", "bypass"}
Checked == Defects \ {"bypass"}

\* What a text cites: a measured count, the outcome of the retrieval, and the
\* past operation it names.
Citations == [actual: Nat, history: {"unavailable", "none", "rejected", "others"},
              named: SUBSET Nat]
Prose == [source: {"none", "llm", "fallback"}, defects: SUBSET Defects, round: 0..MaxRounds,
          cites: Citations]

NoCitation == [actual |-> 0, history |-> "none", named |-> {}]
NoProse == [source |-> "none", defects |-> {}, round |-> 0, cites |-> NoCitation]

NewContract ==
    [tables |-> {}, retrieval |-> FALSE, precedents |-> <<>>,
     available |-> FALSE, executed |-> FALSE, timeout |-> FALSE,
     actual |-> 0, gap |-> FALSE, prose |-> NoProse, state |-> "PENDING",
     success |-> FALSE]

NoDocument ==
    [actual |-> 0, note |-> "none", precedents |-> <<>>, containsRejected |-> FALSE,
     rejectionWarning |-> FALSE, simulationUnavailable |-> FALSE,
     retrievalUnavailable |-> FALSE, gapWarning |-> FALSE, prose |-> NoProse]

Idle == [pc |-> "done", mode |-> "none", found |-> <<>>, ok |-> FALSE]
NoSimulation ==
    [pc |-> "done", attempt |-> 0, available |-> FALSE, executed |-> FALSE,
     timeout |-> FALSE, counted |-> FALSE]

\* Every field has its type, precedents have an outcome the table allows, and
\* the document shows at most three of them.
TypeOK ==
    /\ pc \in {"analysis", "context", "prose", "build", "review", "execution",
               "audit", "end"}
    /\ op \in 1..MaxOps /\ round \in 1..MaxRounds /\ attempt \in 0..2
    /\ contract.actual \in 0..round
    /\ contract.success \in BOOLEAN
    /\ contract.state \in {"PENDING", "APPROVED", "REJECTED", "MODIFIED", "TIMED_OUT"}
    /\ contract.prose \in Prose
    /\ ret.pc \in {"search", "filter", "rerank", "done"}
    /\ sim.pc \in {"run", "done"} /\ sim.attempt \in 0..2
    /\ Len(doc.precedents) <= 3
    /\ \A i \in DOMAIN doc.precedents : doc.precedents[i].outcome \in Outcomes
    /\ \A i \in DOMAIN memory : memory[i].outcome \in Outcomes

StartOperation(s) ==
    /\ pc' = "analysis" /\ stmt' = s /\ round' = 1
    /\ contract' = NewContract /\ ret' = Idle /\ sim' = NoSimulation
    /\ attempt' = 0 /\ doc' = NoDocument

Init ==
    /\ pc = "analysis" /\ op = 1 /\ stmt \in Statements /\ round = 1
    /\ contract = NewContract /\ ret = Idle /\ sim = NoSimulation
    /\ attempt = 0 /\ doc = NoDocument
    /\ memory \in Memories /\ rejected = {}

\* ANALYSIS: the cascade of a DELETE or UPDATE is traced anew, and lost when
\* the call fails.  No caller sets stale_fields, so nothing is skipped.
\* CONTEXT_AND_SIM then starts its two tasks.
Analyze ==
    /\ pc = "analysis"
    /\ pc' = "context"
    /\ \E children \in IF stmt.kind = "DELETE" THEN {stmt.cascade, {}} ELSE {{}} :
         contract' = [contract EXCEPT !.tables = stmt.primary \cup children]
    /\ ret' = [Idle EXCEPT !.pc = "search"]
    /\ sim' = [NoSimulation EXCEPT !.pc = "run"]
    /\ UNCHANGED <<opVars, attempt, doc, memory, rejected>>

-----------------------------------------------------------------------------
(* The memory store: three stages of retrieval. *)

\* The entries of s at the places in keep in the order of a key, highest first;
\* those with the same key keep their order, as Python's sort leaves them.
Ordered(s, keep, key) ==
    LET Ahead(i) == {j \in keep : key[j] > key[i] \/ (key[j] = key[i] /\ j < i)}
    IN  [r \in 1..Cardinality(keep) |->
            s[CHOOSE i \in keep : Cardinality(Ahead(i)) = r - 1]]

FirstN(s, n) == SubSeq(s, 1, IF Len(s) < n THEN Len(s) ELSE n)

\* semantic_search, its WHERE clauses: by embedding if the intent could be
\* embedded, else by a pattern made of its words, or all if it has no long ones.
Hits(mode) ==
    {i \in DOMAIN memory :
        /\ memory[i].own
        /\ mode = "vector" => memory[i].embedded
        /\ mode = "text" => memory[i].textual}

\* ORDER BY and LIMIT: the nearest or the latest.  The order is taken as exact
\* (the index on the embeddings may be an approximate one).
Search(mode) ==
    LET key == [i \in DOMAIN memory |-> IF mode = "vector" THEN memory[i].similarity ELSE 0]
    IN  FirstN(Ordered(memory, Hits(mode), key), TopK)

\* Only the vector search makes its scores floats.  The others return what
\* PostgreSQL makes of 0.5 and 0.3, a Decimal, which the server's JSONResponse
\* refuses: such a call fails unless nothing was found.
Answers(mode) == mode = "vector" \/ Search(mode) = <<>>

\* _jaccard of two sets of tables, in ten-thousandths, rounded.
Jaccard(a, b) ==
    IF a \cup b = {} THEN 10000
    ELSE LET n == Cardinality(a \cup b)
         IN  (20000 * Cardinality(a \cap b) + n) \div (2 * n)

\* The threshold is 0.3.
Overlaps(a, b) ==
    a \cup b = {} \/ 10 * Cardinality(a \cap b) >= 3 * Cardinality(a \cup b)

FilterByTableOverlap(cands, tables) ==
    Ordered(cands, {i \in DOMAIN cands : Overlaps(tables, cands[i].tables)},
            [i \in DOMAIN cands |-> Jaccard(tables, cands[i].tables)])

\* Mutation: the most similar ones.
RerankScoreBySimilarity(e) == e.similarity

\* _score; "delta": the estimate was off by more than a fifth.
RerankScore(e) ==
    CASE e.outcome = "REJECTED"    -> 1000
      [] e.outcome = "ROLLED_BACK" -> 900
      [] e.outcome \in {"APPROVED", "AUTO_REJECTED"} /\ e.delta -> 700
      [] e.outcome = "MODIFIED"    -> 500
      [] OTHER                     -> e.similarity

RerankByOutcome(cands) ==
    FirstN(Ordered(cands, DOMAIN cands, [i \in DOMAIN cands |-> RerankScore(cands[i])]), 3)

\* RetrievalClient.retrieve: a stage that finds nothing ends it.
SearchMemory ==
    /\ pc = "context" /\ ret.pc = "search"
    /\ \E mode \in {"vector", "text", "recent"} :
         /\ Answers(mode)
         /\ ret' = [pc |-> IF Search(mode) = <<>> THEN "done" ELSE "filter",
                    mode |-> mode, found |-> Search(mode), ok |-> Search(mode) = <<>>]
    /\ UNCHANGED <<pc, opVars, contract, sim, attempt, doc, memory, rejected>>

FilterCandidates ==
    /\ pc = "context" /\ ret.pc = "filter"
    /\ LET kept == FilterByTableOverlap(ret.found, contract.tables)
       IN  ret' = [ret EXCEPT !.pc = IF kept = <<>> THEN "done" ELSE "rerank",
                              !.found = kept, !.ok = kept = <<>>]
    /\ UNCHANGED <<pc, opVars, contract, sim, attempt, doc, memory, rejected>>

RerankCandidates ==
    /\ pc = "context" /\ ret.pc = "rerank"
    /\ ret' = [ret EXCEPT !.pc = "done", !.found = RerankByOutcome(ret.found), !.ok = TRUE]
    /\ UNCHANGED <<pc, opVars, contract, sim, attempt, doc, memory, rejected>>

\* Any of the three calls may fail; a search that cannot answer always does.
RetrievalFails ==
    /\ pc = "context" /\ ret.pc # "done"
    /\ ~Reliable \/ (ret.pc = "search" /\ ~(Answers("text") /\ Answers("recent")))
    /\ ret' = Idle
    /\ UNCHANGED <<pc, opVars, contract, sim, attempt, doc, memory, rejected>>

-----------------------------------------------------------------------------
(* The simulation, as ContextSimAgent sees it. *)

Skipped == stmt.kind = "SELECT" \/ stmt.primary = {}

SkipSimulation ==
    /\ pc = "context" /\ sim.pc = "run"
    /\ Skipped
    /\ sim' = [sim EXCEPT !.pc = "done", !.available = TRUE]
    /\ UNCHANGED <<pc, opVars, contract, ret, attempt, doc, memory, rejected>>

\* The counts before or after may be unusable; the simulation is then
\* executed all the same and its count is None.
Simulate ==
    /\ pc = "context" /\ sim.pc = "run"
    /\ ~Skipped
    /\ \E counted \in BOOLEAN :
         sim' = [sim EXCEPT !.pc = "done", !.available = TRUE, !.executed = TRUE,
                            !.counted = counted]
    /\ UNCHANGED <<pc, opVars, contract, ret, attempt, doc, memory, rejected>>

\* A first attempt that timed out is repeated.
SimulationTimesOut ==
    /\ pc = "context" /\ sim.pc = "run"
    /\ ~Skipped /\ sim.attempt = 0
    /\ sim' = [sim EXCEPT !.attempt = 1]
    /\ UNCHANGED <<pc, opVars, contract, ret, attempt, doc, memory, rejected>>

\* A second time-out, or another error.
SimulationFails ==
    /\ pc = "context" /\ sim.pc = "run"
    /\ ~Skipped
    /\ sim' = [NoSimulation EXCEPT !.attempt = sim.attempt + 1, !.timeout = TRUE]
    /\ UNCHANGED <<pc, opVars, contract, ret, attempt, doc, memory, rejected>>

\* Mutation: those of an earlier round stay.
WithPrecedentsKept(c) ==
    [c EXCEPT !.retrieval = ret.ok, !.precedents = IF ret.ok THEN ret.found ELSE @]

\* RetrievalClient.apply_to_contract: what failed leaves no precedents.
WithPrecedents(c) ==
    [c EXCEPT !.retrieval = ret.ok, !.precedents = IF ret.ok THEN ret.found ELSE <<>>]

\* Mutation: the simulation is marked unavailable only before the first one.
WithSimulationLatched(c) ==
    [c EXCEPT !.available = sim.available \/ c.actual # 0,
              !.executed = sim.executed, !.timeout = sim.timeout,
              !.actual = IF ~sim.executed THEN @ ELSE IF sim.counted THEN round ELSE 0,
              !.gap = @ \/ (stmt.kind = "INSERT" /\ sim.executed)]

\* SandboxClient.apply_to_contract: without an execution the counts of an
\* earlier round stay.  The warning about sequences is never taken back.
WithSimulation(c) ==
    [c EXCEPT !.available = sim.available, !.executed = sim.executed,
              !.timeout = sim.timeout,
              !.actual = IF ~sim.executed THEN @ ELSE IF sim.counted THEN round ELSE 0,
              !.gap = @ \/ (stmt.kind = "INSERT" /\ sim.executed)]

\* Both tasks are over.
ApplyResults ==
    /\ pc = "context" /\ ret.pc = "done" /\ sim.pc = "done"
    /\ pc' = "prose"
    /\ contract' = WithSimulation(WithPrecedents(contract))
    /\ attempt' = 0
    /\ UNCHANGED <<opVars, ret, sim, doc, memory, rejected>>

-----------------------------------------------------------------------------
(* CONTRACT: the prose and the document. *)

HasRejected(precedents) ==
    \E i \in DOMAIN precedents : precedents[i].outcome = "REJECTED"

\* _validate_and_sanitize_prose.
Valid(defects) == defects \cap Checked = {}

\* An answer of the LLM is used only if it is valid.  What it cites is not
\* modelled.
LlmAnswers ==
    /\ pc = "prose" /\ attempt < 2
    /\ attempt' = attempt + 1
    /\ \E defects \in SUBSET Defects :
         IF Valid(defects)
         THEN /\ pc' = "build"
              /\ contract' = [contract EXCEPT !.prose = [source |-> "llm",
                                  defects |-> defects, round |-> round, cites |-> NoCitation]]
         ELSE UNCHANGED <<pc, contract>>
    /\ UNCHANGED <<opVars, ret, sim, doc, memory, rejected>>

\* Mutation: one attempt too many.
LlmFailsOnceMore ==
    /\ pc = "prose" /\ attempt <= 2
    /\ attempt' = attempt + 1
    /\ UNCHANGED <<pc, opVars, contract, ret, sim, doc, memory, rejected>>

\* An exception, or an answer without the block that was asked for.
LlmFails ==
    /\ pc = "prose" /\ attempt < 2
    /\ attempt' = attempt + 1
    /\ UNCHANGED <<pc, opVars, contract, ret, sim, doc, memory, rejected>>

\* The past operation the fallback names: the first rejected one, else the first.
Named(precedents) ==
    LET hits == {i \in DOMAIN precedents : precedents[i].outcome = "REJECTED"}
        pool == IF hits = {} THEN DOMAIN precedents ELSE hits
    IN  {precedents[i].id : i \in {j \in pool : \A k \in pool : j <= k}}

Cited(c) ==
    [actual  |-> c.actual,
     history |-> IF ~c.retrieval THEN "unavailable"
                 ELSE IF c.precedents = <<>> THEN "none"
                 ELSE IF HasRejected(c.precedents) THEN "rejected" ELSE "others",
     named   |-> IF c.retrieval THEN Named(c.precedents) ELSE {}]

\* The text takes over the reason of the reversibility.  That of a statement
\* of unknown kind is an error message which lists the known ones, TRUNCATE
\* among them: a pattern the validation rejects.
FallbackDefects == IF stmt.kind = "UNKNOWN" THEN {"sql"} ELSE {}

FallbackText(c) ==
    [source |-> "fallback", defects |-> FallbackDefects, round |-> round, cites |-> Cited(c)]

\* _fallback_prose; its text is not validated.
FallbackProse ==
    /\ pc = "prose" /\ attempt = 2
    /\ pc' = "build"
    /\ contract' = [contract EXCEPT !.prose = FallbackText(contract)]
    /\ UNCHANGED <<opVars, ret, sim, attempt, doc, memory, rejected>>

\* Section 1: the note on the simulation.
SimulationNote(c) ==
    IF c.executed /\ c.actual # 0 THEN "affected"
    ELSE IF ~c.available THEN "unavailable" ELSE "none"

Section1(c) == [actual |-> c.actual, note |-> SimulationNote(c), prose |-> c.prose]

\* Section 3: the first three precedents, their outcomes as they are.
Section3(c) ==
    LET shown == FirstN(c.precedents, 3)
    IN  [precedents |-> shown, containsRejected |-> HasRejected(shown)]

Section4(c) ==
    [rejectionWarning |-> HasRejected(c.precedents),
     simulationUnavailable |-> ~c.available,
     retrievalUnavailable |-> ~c.retrieval,
     gapWarning |-> c.gap]

\* The sections side by side (section 2 is not modelled).
Document(one, three, four) ==
    [actual |-> one.actual, note |-> one.note, prose |-> one.prose,
     precedents |-> three.precedents, containsRejected |-> three.containsRejected,
     rejectionWarning |-> four.rejectionWarning,
     simulationUnavailable |-> four.simulationUnavailable,
     retrievalUnavailable |-> four.retrievalUnavailable, gapWarning |-> four.gapWarning]

\* build_approval_contract; HUMAN_REVIEW sets a modified contract back to
\* PENDING and offers it.
Build ==
    /\ pc = "build"
    /\ pc' = "review"
    /\ doc' = Document(Section1(contract), Section3(contract), Section4(contract))
    /\ contract' = [contract EXCEPT !.state = "PENDING"]
    /\ UNCHANGED <<opVars, ret, sim, attempt, memory, rejected>>

-----------------------------------------------------------------------------
(* The decision and what follows. *)

Modify ==
    /\ pc = "review" /\ round < MaxRounds
    /\ pc' = "analysis"
    /\ round' = round + 1
    /\ contract' = [contract EXCEPT !.state = "MODIFIED"]
    /\ UNCHANGED <<op, stmt, ret, sim, attempt, doc, memory, rejected>>

Settle(state) ==
    /\ pc = "review"
    /\ pc' = IF state = "APPROVED" THEN "execution" ELSE "audit"
    /\ contract' = [contract EXCEPT !.state = state]
    /\ UNCHANGED <<opVars, ret, sim, attempt, doc, memory, rejected>>

Execute ==
    /\ pc = "execution"
    /\ pc' = "audit"
    /\ \E success \in BOOLEAN : contract' = [contract EXCEPT !.success = success]
    /\ UNCHANGED <<opVars, ret, sim, attempt, doc, memory, rejected>>

\* _determine_outcome.
DetermineOutcome(c) ==
    CASE c.state # "APPROVED" -> c.state
      [] c.success            -> "APPROVED_EXECUTED"
      [] OTHER                -> "APPROVED_EXECUTION_FAILED"

\* The arguments AUDIT sends and the parameters of store_operation; those
\* left out have defaults.
Sent == {"operation_id", "tenant_id", "intent_summary", "raw_sql", "operation_type",
         "primary_table", "tables", "estimated_rows", "actual_rows", "outcome",
         "decision_reason", "risk_tier", "reversibility", "blast_radius_delta",
         "historical_rejection_surfaced"}
Required == {"operation_id", "tenant_id", "intent_summary", "affected_tables",
             "operation_type", "estimated_rows", "outcome", "decision_reason"}
Optional == {"actual_rows", "blast_radius_delta", "reanalysis_count", "embedding"}

\* The server calls the tool with the arguments as keywords; the table checks
\* the outcome.
StoreAccepted(outcome) ==
    /\ Required \subseteq Sent /\ Sent \subseteq Required \cup Optional
    /\ outcome \in Outcomes

\* Nobody passes an embedding, and the delta is computed only afterwards.
Entry(outcome) ==
    [id |-> op, own |-> TRUE, tables |-> contract.tables, outcome |-> outcome,
     delta |-> FALSE, similarity |-> 100, embedded |-> FALSE, textual |-> TRUE]

\* run_audit: an error of the memory store is logged only.  The next operation
\* of the tenant may be a similar one or another one.
Audit ==
    /\ pc = "audit"
    /\ LET outcome == DetermineOutcome(contract)
       IN  /\ \E answered \in {TRUE, Reliable} :
                memory' = IF answered /\ StoreAccepted(outcome)
                          THEN <<Entry(outcome)>> \o memory ELSE memory
           /\ rejected' = IF outcome = "REJECTED"
                          THEN rejected \cup {[id |-> op, tables |-> contract.tables]}
                          ELSE rejected
    /\ \/ /\ op < MaxOps
          /\ op' = op + 1
          /\ \E s \in Statements : StartOperation(s)
       \/ /\ op = MaxOps
          /\ pc' = "end"
          /\ UNCHANGED <<opVars, contract, ret, sim, attempt, doc>>

Next ==
    \/ Analyze
    \/ SearchMemory \/ FilterCandidates \/ RerankCandidates \/ RetrievalFails
    \/ SkipSimulation \/ Simulate \/ SimulationTimesOut \/ SimulationFails
    \/ ApplyResults
    \/ LlmAnswers \/ LlmFails \/ FallbackProse \/ Build
    \/ Modify \/ \E state \in {"APPROVED", "REJECTED", "TIMED_OUT"} : Settle(state)
    \/ Execute \/ Audit

Spec == Init /\ [][Next]_vars

-----------------------------------------------------------------------------

\* A reviewer never takes the row counts of an earlier round for those of this
\* one: where the document shows old counts it also says that the simulation
\* was unavailable, in section 1 and among the flags.
StaleCountsFlagged ==
    pc = "review" /\ doc.actual \notin {0, round}
    => doc.simulationUnavailable /\ doc.note = "unavailable"

\* The rejected operations of this tenant that touched enough of the same
\* tables and that the search can see.
Warnings ==
    {e \in Range(memory) : /\ e.own /\ e.embedded /\ e.outcome = "REJECTED"
                           /\ Overlaps(contract.tables, e.tables)}

\* What search, filter, ranking, document and flags make of a rejection in the
\* memory: unless the search had to drop entries, every such rejection is
\* shown, or only rejections are, and the flag is raised exactly then.
\* Without the retrieval nothing is shown and the document says so.
RejectedPrecedentShown ==
    pc = "review" =>
      IF ret.ok
      THEN ret.mode = "vector" /\ Cardinality(Hits("vector")) <= TopK =>
             /\ \/ Warnings \subseteq Range(doc.precedents)
                \/ Range(doc.precedents) \subseteq Warnings
             /\ doc.rejectionWarning = (Warnings # {})
             /\ doc.containsRejected = doc.rejectionWarning
      ELSE doc.precedents = <<>> /\ doc.retrievalUnavailable /\ ~doc.rejectionWarning

\* The prose and the sections beside it tell the reviewer the same, also in
\* later rounds, when the contract still holds the prose and the results of
\* earlier ones.  It is of this round.  A fallback text cites the count of
\* section 1, speaks of rejections or of an unavailable retrieval exactly when
\* the flags do, and names a precedent that is shown, a rejected one if there
\* are any.  Its text is the only one that may hold what the validation
\* rejects, and only for a statement of unknown kind.
ProseMatchesDocument ==
    pc = "review" =>
      /\ doc.prose.round = round
      /\ ~Valid(doc.prose.defects) => doc.prose.source = "fallback" /\ stmt.kind = "UNKNOWN"
      /\ doc.prose.source = "fallback" =>
           LET cites == doc.prose.cites
           IN  /\ cites.actual = doc.actual
               /\ (cites.history = "unavailable") = doc.retrievalUnavailable
               /\ (cites.history = "rejected") = doc.rejectionWarning
               /\ \A id \in cites.named : \E e \in Range(doc.precedents) :
                    e.id = id /\ (doc.containsRejected => e.outcome = "REJECTED")

\* README, on the memory: a rejected operation surfaces as a precedent when the
\* tenant submits a similar one (here: on the same tables), if the memory was
\* searched and its contents allow it.
RejectionSurfaces ==
    pc = "review" /\ ret.ok =>
      \A past \in rejected :
        past.tables = contract.tables /\ past.tables # {} =>
          \/ past.id \in {e.id : e \in Range(doc.precedents)}
          \/ doc.precedents # <<>>
             /\ \A e \in Range(doc.precedents) : e.outcome = "REJECTED"

=============================================================================
