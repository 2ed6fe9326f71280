--------------------------- MODULE RiskAssessment ---------------------------
(***************************************************************************)
(* How one SQL operation is rated: the proxy's quick_check, the graph's    *)
(* RISK_GATE, the facts the Analyzer and the retrieval gather, and the     *)
(* risk tier the Contract agent derives from them.  Every fact comes from  *)
(* an MCP server that may not answer; each caller then goes on with a      *)
(* default of its own, so a rating is built from any mixture of answers    *)
(* and defaults.  A MODIFY round gathers every fact again and overwrites   *)
(* the old ones, so one round is modelled.                                 *)
(*                                                                         *)
(* Scores are in thousandths and confidences in hundredths.                *)
(***************************************************************************)
EXTENDS Naturals, FiniteSets

CONSTANTS
    Keywords,         \* first words of the statements; "SELECT*" stands for a
                      \* SELECT with no white space after it
    Sources,          \* values of the X-ContraGate-Source header
    Tables, PiiTables,
    RowCounts, Cascades, TriggerCounts, Rejections, Confidences, Costs, Hours,
    ActiveRules, HardRules, FullContractRules, StandardRules, \* policy_rules
    ExplainServed     \* does the reader serve the EXPLAIN tool the gates ask
                      \* for?  (The one in mcp_servers/ names it differently.)

RuleIds == {"DDL_NO_BACKUP", "PII_STANDARD_REVIEW", "EXTERNAL_INPUT",
            "BULK_DELETE_SENSITIVE", "PAYMENT_WEBHOOK", "AFTER_HOURS",
            "AUTO_REJECT_PATTERN", "PII_EXPENSIVE_READ"}

ASSUME ConstantsAssumption ==
    /\ ActiveRules \subseteq RuleIds
    /\ RowCounts \subseteq Nat /\ Cascades \subseteq Nat
    /\ TriggerCounts \subseteq Nat /\ Rejections \subseteq Nat
    /\ Confidences \subseteq 0..100 /\ Costs \subseteq Nat
    /\ Hours \subseteq 0..23
    /\ ExplainServed \in BOOLEAN

VARIABLES
    pc,      \* the next step
    op,      \* the operation, and what is true of it in the database
    explain, \* what the gate at work knows from EXPLAIN
    policy,  \* the rules that, for all the gate at work knows, were triggered
    route,   \* how the two gates routed the operation
    facts,   \* what the agents found out
    missed,  \* history variable: the facts no server answered for
    score, tier

vars == <<pc, op, explain, policy, route, facts, missed, score, tier>>

OperationType == {"DDL", "DELETE", "UPDATE", "INSERT", "SELECT", "UNKNOWN"}
RiskTier == {"AUTO", "STANDARD", "FULL_CONTRACT"}
ReversibilityClass ==
    {"REVERSIBLE_AUTOMATED", "REVERSIBLE_PITR", "PARTIAL", "PERMANENT"}
Routing == {"none", "auto_reject", "auto_execute", "full_pipeline"}

\* "multi": there is a semicolon before the end, so it may be more than one
\* statement; "parsed": parse_sql_intent finds the primary table.
Operation == [keyword: Keywords, multi: BOOLEAN, source: Sources,
              tables: SUBSET Tables, parsed: BOOLEAN, rows: RowCounts,
              cascade: Cascades, triggers: TriggerCounts, soft: BOOLEAN]

Facts == [rows: Nat, confidence: 0..100, triggers: Nat, cascade: Nat,
          soft: BOOLEAN, rejections: Nat]

NoFacts == [rows |-> 0, confidence |-> 0, triggers |-> 0, cascade |-> 0,
            soft |-> FALSE, rejections |-> 0]

Steps == {"proxy_explain", "proxy_policy", "proxy_route", "explain", "policy",
          "route", "rows", "triggers", "cascade", "soft_delete", "history",
          "classify", "end"}

ConservativeCost == 999999

TypeOK ==
    /\ pc \in Steps
    /\ op \in Operation
    /\ explain \in [cost: Nat, rows: Nat]
    /\ policy \subseteq RuleIds
    /\ route \in [proxy: Routing, graph: Routing]
    /\ facts \in Facts
    /\ missed \subseteq {"policy", "rows", "triggers", "cascade", "soft_delete",
                         "history"}
    /\ score \in 0..1000
    /\ tier \in RiskTier \cup {"none"}

Init ==
    /\ pc = "proxy_explain"
    /\ op \in Operation
    /\ explain = [cost |-> ConservativeCost, rows |-> 0]
    /\ policy = {}
    /\ route = [proxy |-> "none", graph |-> "none"]
    /\ facts = NoFacts
    /\ missed = {}
    /\ score = 0
    /\ tier = "none"

-----------------------------------------------------------------------------
(* Classification by keyword and source.  (Definitions marked "Mutation"    *)
(* are faulty variants of the next one; no specification uses them.)        *)

DdlKeywords == {"TRUNCATE", "DROP", "ALTER", "CREATE"}
DmlKeywords == {"SELECT", "INSERT", "UPDATE", "DELETE"}

\* What a regular expression that stops at the end of the word matches.
FirstWord(k) == IF k = "SELECT*" THEN "SELECT" ELSE k

\* intercept_tool_call: op_type_map, with DDL for everything else.
ProxyType(k) == IF FirstWord(k) \in DmlKeywords THEN FirstWord(k) ELSE "DDL"

\* classify_operation_type of the Analyzer splits at white space.
ClassifyType(k) == CASE k \in DmlKeywords -> k
                     [] k \in DdlKeywords -> "DDL"
                     [] OTHER -> "UNKNOWN"

\* _detect_operation_type of INTAKE; the Analyzer overwrites it.
DetectType(k) == ClassifyType(FirstWord(k))

\* _detect_source_type: an unknown source counts as internal.
DetectSource(s) ==
    IF s \in {"external_user_input", "external_agent"} THEN s ELSE "internal_system"

PromptInjectionRisk(s) == DetectSource(s) # "internal_system"

-----------------------------------------------------------------------------
(* The rule engine of the policy store. *)

SensitiveTables == {"users", "orders", "invoices"}

\* _match_rule; a is what the gate sends to evaluate_rules.  Both gates send
\* has_external_triggers = False.
Matches(r, a) ==
    CASE r = "DDL_NO_BACKUP"       -> a.type \in {"DROP", "TRUNCATE"}
      [] r = "PII_STANDARD_REVIEW" -> a.tables \cap PiiTables # {}
      [] r = "EXTERNAL_INPUT"      -> a.source = "external_user_input"
      [] r = "BULK_DELETE_SENSITIVE" ->
            /\ a.type \in {"DELETE", "UPDATE"}
            /\ a.tables \cap SensitiveTables # {}
            /\ a.rows > 10000
      [] r = "AFTER_HOURS"         -> ~(7 <= a.hour /\ a.hour < 20)
      [] r = "PII_EXPENSIVE_READ"  ->
            /\ a.type = "SELECT"
            /\ a.tables \cap PiiTables # {}
            /\ a.cost > 100000
      [] OTHER                     -> FALSE

Triggered(a) == {r \in ActiveRules : Matches(r, a)}

HardViolation(rules) == rules \cap HardRules # {}

RequiredTier(rules) ==
    IF rules \cap FullContractRules # {} THEN "FULL_CONTRACT"
    ELSE IF rules \cap StandardRules # {} THEN "STANDARD" ELSE "none"

-----------------------------------------------------------------------------
(* Scores and tiers. *)

\* Mutation: the sum is not cut off.
CapNever(x) == x

Cap(x) == IF x > 1000 THEN 1000 ELSE x

\* _compute_risk_score of RISK_GATE.
GateScore(type, cost, rules, source) ==
    Cap((CASE type = "SELECT" -> 50
           [] type = "INSERT" -> 200
           [] type = "UPDATE" -> 400
           [] type = "DELETE" -> 600
           [] type = "DDL"    -> 850
           [] OTHER           -> 500)
        + (IF cost > 500000 THEN 200
           ELSE IF cost > 100000 THEN 100
           ELSE IF cost > 50000 THEN 50 ELSE 0)
        + (IF rules # {} THEN 100 ELSE 0)
        + (IF source = "external_user_input" THEN 150 ELSE 0))

\* classify_reversibility, as the Analyzer calls it (no PITR); a ValueError
\* (unknown type) becomes PERMANENT.
Reversibility(type, f) ==
    IF type \in {"DDL", "UNKNOWN"} \/ (type \in {"DELETE", "UPDATE"} /\ ~f.soft)
    THEN "PERMANENT"
    ELSE IF f.triggers > 0 THEN "PARTIAL" ELSE "REVERSIBLE_AUTOMATED"

BaseScore(type) == CASE type = "SELECT" -> 50
                     [] type = "INSERT" -> 150
                     [] type = "UPDATE" -> 250
                     [] type = "DELETE" -> 350
                     [] type = "DDL"    -> 500
                     [] OTHER           -> 200

\* Mutation: a zero is lost in the highest bucket.
RowsScoreMistyped(n) ==
    IF n > 1000000 THEN 30
    ELSE IF n > 100000 THEN 200
    ELSE IF n > 10000 THEN 150
    ELSE IF n > 1000 THEN 80 ELSE 0

RowsScore(n) ==
    IF n > 1000000 THEN 300
    ELSE IF n > 100000 THEN 200
    ELSE IF n > 10000 THEN 150
    ELSE IF n > 1000 THEN 80 ELSE 0

CascadeScore(n) ==
    IF n > 500000 THEN 250
    ELSE IF n > 100000 THEN 150
    ELSE IF n > 10000 THEN 100
    ELSE IF n > 0 THEN 50 ELSE 0

ConfidenceScore(c) == IF c < 25 THEN 100 ELSE IF c < 50 THEN 50 ELSE 0

\* _compute_risk_score of risk_rules.
RiskScore(type, f, violations) ==
    Cap(BaseScore(type) + RowsScore(f.rows) + CascadeScore(f.cascade)
        + 50 * f.triggers + 50 * f.rejections + ConfidenceScore(f.confidence)
        + 100 * violations
        + (IF Reversibility(type, f) = "PARTIAL" THEN 100 ELSE 0))

\* _apply_tier_rules: eight conditions for FULL_CONTRACT, then AUTO.
NeedsFullContract(type, f, rules, injection) ==
    \/ RequiredTier(rules) = "FULL_CONTRACT"
    \/ Reversibility(type, f) = "PERMANENT"
    \/ f.rejections > 0
    \/ injection
    \/ f.cascade > 50000
    \/ f.triggers >= 5
    \/ RiskScore(type, f, Cardinality(rules)) > 700
    \/ f.confidence < 25

RiskTierOf(type, f, rules, injection) ==
    IF NeedsFullContract(type, f, rules, injection) THEN "FULL_CONTRACT"
    ELSE IF type = "SELECT" /\ rules = {} /\ RiskScore(type, f, 0) < 300
         THEN "AUTO" ELSE "STANDARD"

-----------------------------------------------------------------------------
(* The two gates. *)

Unavailable == [cost |-> ConservativeCost, rows |-> 0]

\* An answer to EXPLAIN: a cost, or the gate's default where none is found in
\* it, and the rows the planner expects; the flat answer of the reader has no
\* plan_rows, which counts as 0.
Answers(default) ==
    IF ExplainServed THEN [cost: Costs \cup {default}, rows: {0, op.rows}] ELSE {}

\* Mutation: what has a semicolon inside is sent all the same.
ProxyExplainedAnyhow == {Unavailable} \cup Answers(ConservativeCost)

\* quick_check does not ask about what may be more than one statement.
ProxyExplained ==
    IF op.multi THEN {Unavailable} ELSE {Unavailable} \cup Answers(ConservativeCost)

\* run_risk_gate asks about anything; what comes back for several statements is
\* left open.
GateExplained == {Unavailable} \cup Answers(0)

ProxyExplain ==
    /\ pc = "proxy_explain"
    /\ explain' \in ProxyExplained
    /\ pc' = "proxy_policy"
    /\ UNCHANGED <<op, policy, route, facts, missed, score, tier>>

ProxyQuery(hour) == [type |-> ProxyType(op.keyword), tables |-> {},
                     source |-> op.source, rows |-> explain.rows,
                     cost |-> explain.cost, hour |-> hour]

\* The policy store answers, or the proxy goes on as if nothing triggered.
ProxyPolicy ==
    /\ pc = "proxy_policy"
    /\ \E hour \in Hours : policy' \in {{}, Triggered(ProxyQuery(hour))}
    /\ pc' = "proxy_route"
    /\ UNCHANGED <<op, explain, route, facts, missed, score, tier>>

\* quick_check's routing decision.
ProxyRouting ==
    IF HardViolation(policy) THEN "auto_reject"
    ELSE IF /\ ProxyType(op.keyword) = "SELECT"
            /\ FirstWord(op.keyword) \notin {"INSERT", "UPDATE", "DELETE"} \cup DdlKeywords
            /\ explain.cost < 50000
            /\ op.source = "internal_system"
         THEN "auto_execute" ELSE "full_pipeline"

ProxyRoute ==
    /\ pc = "proxy_route"
    /\ route' = [route EXCEPT !.proxy = ProxyRouting]
    /\ IF ProxyRouting = "full_pipeline"
       THEN pc' = "explain" /\ explain' = Unavailable /\ policy' = {}
       ELSE pc' = "end" /\ UNCHANGED <<explain, policy>>
    /\ UNCHANGED <<op, facts, missed, score, tier>>

GateExplain ==
    /\ pc = "explain"
    /\ explain' \in GateExplained
    /\ pc' = "policy"
    /\ UNCHANGED <<op, policy, route, facts, missed, score, tier>>

GateQuery(hour) == [type |-> DetectType(op.keyword), tables |-> op.tables,
                    source |-> DetectSource(op.source), rows |-> explain.rows,
                    cost |-> explain.cost, hour |-> hour]

\* run_risk_gate, steps 2 to 4: the safe defaults are no violation at all.
GatePolicy ==
    /\ pc = "policy"
    /\ \/ /\ \E hour \in Hours : policy' = Triggered(GateQuery(hour))
          /\ UNCHANGED missed
       \/ /\ policy' = {}
          /\ missed' = missed \cup {"policy"}
    /\ score' = GateScore(DetectType(op.keyword), explain.cost, policy',
                          DetectSource(op.source))
    /\ pc' = "route"
    /\ UNCHANGED <<op, explain, route, facts, tier>>

\* route_from_risk_gate and _is_fast_path.
GateRouting ==
    IF HardViolation(policy) THEN "auto_reject"
    ELSE IF /\ DetectType(op.keyword) = "SELECT"
            /\ policy = {}
            /\ score < 300
         THEN "auto_execute" ELSE "full_pipeline"

GateRoute ==
    /\ pc = "route"
    /\ route' = [route EXCEPT !.graph = GateRouting]
    /\ pc' = IF GateRouting = "full_pipeline" THEN "rows" ELSE "end"
    /\ UNCHANGED <<op, explain, policy, facts, missed, score, tier>>

-----------------------------------------------------------------------------
(* The Analyzer, the retrieval and the Contract agent. *)

\* A fact that no server answered for is set to its default.
Missing(default, name) ==
    /\ facts' = default
    /\ missed' = missed \cup {name}

\* Mutation: without an answer the confidence is one half.
CountRowsHalfTrusted ==
    /\ pc = "rows"
    /\ facts' = [facts EXCEPT !.rows = 0, !.confidence = 50]
    /\ missed' = missed \cup {"rows"}
    /\ pc' = "triggers"
    /\ UNCHANGED <<op, explain, policy, route, score, tier>>

CountRows ==
    /\ pc = "rows"
    /\ \/ /\ op.parsed
          /\ \E c \in Confidences :
               facts' = [facts EXCEPT !.rows = op.rows, !.confidence = c]
          /\ UNCHANGED missed
       \/ Missing([facts EXCEPT !.rows = 0, !.confidence = 0], "rows")
    /\ pc' = "triggers"
    /\ UNCHANGED <<op, explain, policy, route, score, tier>>

\* Without a primary table the remaining calls of the Analyzer are not made.
DetectTriggers ==
    /\ pc = "triggers"
    /\ \/ op.parsed /\ facts' = [facts EXCEPT !.triggers = op.triggers]
                    /\ UNCHANGED missed
       \/ Missing([facts EXCEPT !.triggers = 0], "triggers")
    /\ pc' = "cascade"
    /\ UNCHANGED <<op, explain, policy, route, score, tier>>

ChangesRows == ClassifyType(op.keyword) \in {"DELETE", "UPDATE"}

TraceCascade ==
    /\ pc = "cascade"
    /\ \/ op.parsed /\ ChangesRows
                    /\ facts' = [facts EXCEPT !.cascade = op.cascade]
                    /\ UNCHANGED missed
       \/ ChangesRows /\ Missing([facts EXCEPT !.cascade = 0], "cascade")
       \/ ~ChangesRows /\ UNCHANGED <<facts, missed>>
    /\ pc' = "soft_delete"
    /\ UNCHANGED <<op, explain, policy, route, score, tier>>

\* Mutation: a table that cannot be looked at is taken to be recoverable.
CheckSoftDeleteHopeful ==
    /\ pc = "soft_delete"
    /\ facts' = [facts EXCEPT !.soft = TRUE]
    /\ pc' = "history"
    /\ UNCHANGED <<op, explain, policy, route, missed, score, tier>>

CheckSoftDelete ==
    /\ pc = "soft_delete"
    /\ \/ op.parsed /\ ChangesRows
                    /\ facts' = [facts EXCEPT !.soft = op.soft]
                    /\ UNCHANGED missed
       \/ ChangesRows /\ Missing([facts EXCEPT !.soft = FALSE], "soft_delete")
       \/ ~ChangesRows /\ UNCHANGED <<facts, missed>>
    /\ pc' = "history"
    /\ UNCHANGED <<op, explain, policy, route, score, tier>>

\* retrieve: how many of the three precedents were rejected.
Retrieve ==
    /\ pc = "history"
    /\ \/ /\ \E n \in Rejections : facts' = [facts EXCEPT !.rejections = n]
          /\ UNCHANGED missed
       \/ Missing([facts EXCEPT !.rejections = 0], "history")
    /\ pc' = "classify"
    /\ UNCHANGED <<op, explain, policy, route, score, tier>>

\* classify_risk.
Classify ==
    /\ pc = "classify"
    /\ score' = RiskScore(ClassifyType(op.keyword), facts, Cardinality(policy))
    /\ tier' = RiskTierOf(ClassifyType(op.keyword), facts, policy,
                          PromptInjectionRisk(op.source))
    /\ pc' = "end"
    /\ UNCHANGED <<op, explain, policy, route, facts, missed>>

Next ==
    \/ ProxyExplain \/ ProxyPolicy \/ ProxyRoute
    \/ GateExplain \/ GatePolicy \/ GateRoute
    \/ CountRows \/ DetectTriggers \/ TraceCascade \/ CheckSoftDelete
    \/ Retrieve \/ Classify
    \/ pc = "end" /\ UNCHANGED vars

Spec == Init /\ [][Next]_vars

-----------------------------------------------------------------------------
(* Properties. *)

Rated == tier # "none"

\* What the proxy executes without any review is one statement, it reads, and
\* the database has priced it: whether the text has a semicolon inside, the
\* reader is down or its answer holds no cost, the conservative default keeps
\* it off the fast path, whatever the policy store answers.
FastPathIsOnePricedRead ==
    route.proxy = "auto_execute" =>
      ~op.multi /\ FirstWord(op.keyword) = "SELECT" /\ explain.cost # ConservativeCost

\* Facts like f in which one thing is worse.
Worse(f) ==
    {[f EXCEPT !.rows = n] : n \in {m \in RowCounts : m >= f.rows}}
    \cup {[f EXCEPT !.cascade = n] : n \in {m \in Cascades : m >= f.cascade}}
    \cup {[f EXCEPT !.triggers = n] : n \in {m \in TriggerCounts : m >= f.triggers}}
    \cup {[f EXCEPT !.rejections = n] : n \in {m \in Rejections : m >= f.rejections}}
    \cup {[f EXCEPT !.confidence = n] : n \in {m \in Confidences : m <= f.confidence}}
    \cup {[f EXCEPT !.soft = FALSE]}

Rank(t) == CASE t = "AUTO" -> 0 [] t = "STANDARD" -> 1 [] OTHER -> 2

\* classify_risk adds up bucketed scores and then tests eight conditions in
\* order: whatever it concluded, had one of the facts been worse it would not
\* have concluded a lower tier.
TierMonotone ==
    Rated => \A g \in Worse(facts) :
        Rank(tier) <= Rank(RiskTierOf(ClassifyType(op.keyword), g, policy,
                                      PromptInjectionRisk(op.source)))

\* An operation whose size nobody could estimate gets the full contract: the
\* default confidence 0 of _count_affected_rows reaches the tier rules.
UnsizedIsFull == Rated /\ "rows" \in missed => tier = "FULL_CONTRACT"

\* An operation that the database cannot take back (DDL, an unknown statement,
\* DELETE or UPDATE on a table without a soft-delete column) gets the full
\* contract, whichever of the calls that would tell go unanswered.
IrrecoverableIsFull ==
    /\ Rated
    /\ \/ ClassifyType(op.keyword) \in {"DDL", "UNKNOWN"}
       \/ ChangesRows /\ ~op.soft
    => tier = "FULL_CONTRACT"

=============================================================================
