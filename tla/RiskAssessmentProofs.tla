------------------------ MODULE RiskAssessmentProofs ------------------------
(***************************************************************************)
(* Theorems about RiskAssessment: for every rule table, every set of       *)
(* keywords, sources and tables, all row counts, confidences and costs,    *)
(* and whichever of the calls go unanswered.                               *)
(***************************************************************************)
EXTENDS RiskAssessment, FiniteSetTheorems, TLAPS

-----------------------------------------------------------------------------
(* The inductive invariant. *)

\* Until the proxy routes, what may be more than one statement has the default
\* cost; what it has executed stays as it was priced.
ProxyInv ==
    /\ pc \in {"proxy_policy", "proxy_route"} /\ op.multi => explain.cost = ConservativeCost
    /\ route.proxy = "auto_execute" => pc = "end"

\* Steps up to the one that asks for the row count.
BeforeRows == {"proxy_explain", "proxy_policy", "proxy_route", "explain", "policy",
               "route", "rows"}

\* Facts are never better than the truth where they decide about recovery, and
\* a missing row count leaves no confidence.
FactsInv ==
    /\ facts.soft => op.soft
    /\ "rows" \in missed => pc \notin BeforeRows /\ facts.confidence = 0

\* The tier is what the tier rules make of the facts, and the facts stay.
TierInv ==
    Rated => /\ pc = "end"
             /\ tier = RiskTierOf(ClassifyType(op.keyword), facts, policy,
                                  PromptInjectionRisk(op.source))

AssessmentInv ==
    ProxyInv /\ FactsInv /\ TierInv /\ FastPathIsOnePricedRead

-----------------------------------------------------------------------------
(* The operators. *)

\* The classifiers know these types only.
LEMMA ClassifierTypes ==
  ASSUME NEW k
  PROVE  /\ ClassifyType(k) \in OperationType
         /\ DetectType(k) \in OperationType
         /\ ProxyType(k) \in OperationType
  BY DEF ClassifyType, DetectType, ProxyType, OperationType, DmlKeywords, DdlKeywords

\* A set of rules is finite, so the score may count it.
LEMMA RulesFinite ==
  ASSUME NEW S \in SUBSET RuleIds
  PROVE  Cardinality(S) \in Nat
  <1>1. IsFiniteSet(RuleIds)
    <2> DEFINE R1 == {"DDL_NO_BACKUP"}
               R2 == R1 \cup {"PII_STANDARD_REVIEW"}
               R3 == R2 \cup {"EXTERNAL_INPUT"}
               R4 == R3 \cup {"BULK_DELETE_SENSITIVE"}
               R5 == R4 \cup {"PAYMENT_WEBHOOK"}
               R6 == R5 \cup {"AFTER_HOURS"}
               R7 == R6 \cup {"AUTO_REJECT_PATTERN"}
               R8 == R7 \cup {"PII_EXPENSIVE_READ"}
    <2>1. RuleIds = R8
      BY DEF RuleIds
    <2>2. IsFiniteSet(R1)
      BY FS_Singleton
    <2> HIDE DEF R1, R2, R3, R4, R5, R6, R7, R8
    <2>3. IsFiniteSet(R2) /\ IsFiniteSet(R3)
      BY <2>2, FS_AddElement DEF R2, R3
    <2>4. IsFiniteSet(R4) /\ IsFiniteSet(R5)
      BY <2>3, FS_AddElement DEF R4, R5
    <2>5. IsFiniteSet(R6) /\ IsFiniteSet(R7) /\ IsFiniteSet(R8)
      BY <2>4, FS_AddElement DEF R6, R7, R8
    <2> QED  BY <2>1, <2>5
  <1> QED
    BY <1>1, FS_Subset, FS_CardinalityType

\* The gate's score lies between 0 and 1.
LEMMA GateScoreType ==
  ASSUME NEW type, NEW cost \in Nat, NEW rules, NEW source
  PROVE  GateScore(type, cost, rules, source) \in 0..1000
  BY SMT DEF GateScore, Cap

\* So does the score of classify_risk.
LEMMA RiskScoreType ==
  ASSUME NEW type, NEW f \in Facts, NEW n \in Nat
  PROVE  RiskScore(type, f, n) \in 0..1000 /\ RiskScore(type, f, n) \in Nat
  <1> DEFINE P == IF Reversibility(type, f) = "PARTIAL" THEN 100 ELSE 0
             X == BaseScore(type) + RowsScore(f.rows) + CascadeScore(f.cascade)
                    + 50 * f.triggers + 50 * f.rejections
                    + ConfidenceScore(f.confidence) + 100 * n + P
  <1>1. BaseScore(type) \in Nat
    BY SMT DEF BaseScore
  <1>2. f.triggers \in Nat /\ f.rejections \in Nat /\ P \in Nat
    BY DEF Facts
  <1>3. /\ RowsScore(f.rows) \in Nat
        /\ CascadeScore(f.cascade) \in Nat
        /\ ConfidenceScore(f.confidence) \in Nat
    BY SMT DEF RowsScore, CascadeScore, ConfidenceScore
  <1>4. X \in Nat
    <2> HIDE DEF P
    <2> QED  BY <1>1, <1>2, <1>3
  <1>5. RiskScore(type, f, n) = Cap(X)
    BY DEF RiskScore
  <1> HIDE DEF X
  <1> QED  BY <1>4, <1>5 DEF Cap

\* g is nowhere better than f.
NoBetter(g, f) ==
    /\ g.rows >= f.rows /\ g.cascade >= f.cascade
    /\ g.triggers >= f.triggers /\ g.rejections >= f.rejections
    /\ g.confidence <= f.confidence
    /\ g.soft => f.soft

\* The sum of the bucketed scores does not decrease when facts get worse, unless
\* the operation has become irrecoverable.
LEMMA ScoreMonotone ==
  ASSUME NEW type, NEW f \in Facts, NEW g \in Facts, NEW n \in Nat,
         NoBetter(g, f), Reversibility(type, g) # "PERMANENT"
  PROVE  RiskScore(type, f, n) <= RiskScore(type, g, n)
  <1> DEFINE P(h) == IF Reversibility(type, h) = "PARTIAL" THEN 100 ELSE 0
             X(h) == BaseScore(type) + RowsScore(h.rows) + CascadeScore(h.cascade)
                       + 50 * h.triggers + 50 * h.rejections
                       + ConfidenceScore(h.confidence) + 100 * n + P(h)
  <1>1. BaseScore(type) \in Nat
    BY DEF BaseScore
  <1>2. /\ f.rows \in Nat /\ g.rows \in Nat /\ f.cascade \in Nat /\ g.cascade \in Nat
        /\ f.triggers \in Nat /\ g.triggers \in Nat
        /\ f.rejections \in Nat /\ g.rejections \in Nat
        /\ f.confidence \in Nat /\ g.confidence \in Nat
        /\ f.soft \in BOOLEAN /\ g.soft \in BOOLEAN
    BY DEF Facts
  <1>3. /\ RowsScore(f.rows) \in Nat /\ RowsScore(g.rows) \in Nat
        /\ RowsScore(f.rows) <= RowsScore(g.rows)
    BY <1>2, SMT DEF RowsScore, NoBetter
  <1>4. /\ CascadeScore(f.cascade) \in Nat /\ CascadeScore(g.cascade) \in Nat
        /\ CascadeScore(f.cascade) <= CascadeScore(g.cascade)
    BY <1>2, SMT DEF CascadeScore, NoBetter
  <1>5. /\ ConfidenceScore(f.confidence) \in Nat /\ ConfidenceScore(g.confidence) \in Nat
        /\ ConfidenceScore(f.confidence) <= ConfidenceScore(g.confidence)
    BY <1>2 DEF ConfidenceScore, NoBetter
  <1>6. P(f) \in Nat /\ P(g) \in Nat /\ P(f) <= P(g)
    BY <1>2 DEF Reversibility, NoBetter
  <1>7. X(f) \in Nat /\ X(g) \in Nat /\ X(f) <= X(g)
    <2> HIDE DEF P
    <2> QED  BY <1>1, <1>2, <1>3, <1>4, <1>5, <1>6 DEF NoBetter
  <1>8. RiskScore(type, f, n) = Cap(X(f)) /\ RiskScore(type, g, n) = Cap(X(g))
    BY DEF RiskScore
  <1> HIDE DEF X
  <1> QED
    BY <1>7, <1>8 DEF Cap

\* classify_risk is monotone: facts that are worse in any number of respects
\* never lead to a lower tier.
THEOREM TierIsMonotone ==
  ASSUME NEW type, NEW f \in Facts, NEW g \in Facts, NoBetter(g, f),
         NEW rules \in SUBSET RuleIds, NEW injection \in BOOLEAN
  PROVE  Rank(RiskTierOf(type, f, rules, injection))
           <= Rank(RiskTierOf(type, g, rules, injection))
  <1>1. CASE NeedsFullContract(type, g, rules, injection)
    <2>1. RiskTierOf(type, g, rules, injection) = "FULL_CONTRACT"
      BY <1>1 DEF RiskTierOf
    <2>2. RiskTierOf(type, f, rules, injection) \in RiskTier
      BY DEF RiskTierOf, RiskTier
    <2> QED  BY <2>1, <2>2 DEF Rank, RiskTier
  <1>2. CASE ~NeedsFullContract(type, g, rules, injection)
    <2>1. Reversibility(type, g) # "PERMANENT"
      BY <1>2 DEF NeedsFullContract
    <2>2. /\ Cardinality(rules) \in Nat
          /\ RiskScore(type, f, Cardinality(rules)) \in Nat
          /\ RiskScore(type, g, Cardinality(rules)) \in Nat
          /\ RiskScore(type, f, 0) \in Nat
          /\ RiskScore(type, g, 0) \in Nat
      BY RulesFinite, RiskScoreType
    <2>3. /\ RiskScore(type, f, Cardinality(rules)) <= RiskScore(type, g, Cardinality(rules))
          /\ RiskScore(type, f, 0) <= RiskScore(type, g, 0)
      BY <2>1, <2>2, ScoreMonotone
    <2>4. ~NeedsFullContract(type, f, rules, injection)
      <3>1. Reversibility(type, f) # "PERMANENT"
        <4>1. ~(type \in {"DDL", "UNKNOWN"}) /\ ~(type \in {"DELETE", "UPDATE"} /\ ~g.soft)
          BY <2>1 DEF Reversibility
        <4>2. ~(type \in {"DELETE", "UPDATE"} /\ ~f.soft)
          BY <4>1 DEF NoBetter
        <4> QED  BY <4>1, <4>2 DEF Reversibility
      <3>2. /\ ~(f.rejections > 0) /\ ~(f.cascade > 50000)
            /\ ~(f.triggers >= 5) /\ ~(f.confidence < 25)
        BY <1>2 DEF NeedsFullContract, NoBetter, Facts
      <3>3. ~(RiskScore(type, f, Cardinality(rules)) > 700)
        <4>1. ~(RiskScore(type, g, Cardinality(rules)) > 700)
          BY <1>2 DEF NeedsFullContract
        <4> QED  BY <2>2, <2>3, <4>1, SMT
      <3>4. RequiredTier(rules) # "FULL_CONTRACT" /\ ~injection
        BY <1>2 DEF NeedsFullContract
      <3> QED  BY <3>1, <3>2, <3>3, <3>4 DEF NeedsFullContract
    <2>5. RiskTierOf(type, g, rules, injection) = "AUTO"
            => RiskTierOf(type, f, rules, injection) = "AUTO"
      <3>1. RiskScore(type, g, 0) < 300 => RiskScore(type, f, 0) < 300
        BY <2>2, <2>3, SMT
      <3> QED  BY <1>2, <2>4, <3>1 DEF RiskTierOf
    <2>6. RiskTierOf(type, f, rules, injection) \in {"AUTO", "STANDARD"}
      BY <2>4 DEF RiskTierOf
    <2>7. RiskTierOf(type, g, rules, injection) \in {"AUTO", "STANDARD"}
      BY <1>2, SMTT(30) DEF RiskTierOf
    <2> QED  BY <2>5, <2>6, <2>7 DEF Rank
  <1> QED  BY <1>1, <1>2

-----------------------------------------------------------------------------
(* Types. *)

\* What the Analyzer's calls write into the facts.
LEMMA FactsWritten ==
  ASSUME NEW f \in Facts
  PROVE  /\ \A n \in Nat, c \in 0..100 :
              [f EXCEPT !.rows = n, !.confidence = c] \in Facts
         /\ \A b \in BOOLEAN : [f EXCEPT !.soft = b] \in Facts
  BY DEF Facts

\* Every variable keeps its type; in particular both scores stay within 0 and 1.
THEOREM RatingTyping == Spec => []TypeOK
  <1> USE ConstantsAssumption
  <1>0. ConservativeCost \in Nat
    BY SMT DEF ConservativeCost
  <1>1. Init => TypeOK
    BY <1>0 DEF Init, TypeOK, Steps, Routing, Facts, NoFacts
  <1>2. ASSUME TypeOK, [Next]_vars PROVE TypeOK'
    <2>0. /\ ProxyExplained \subseteq [cost: Nat, rows: Nat]
          /\ GateExplained \subseteq [cost: Nat, rows: Nat]
          /\ Unavailable \in [cost: Nat, rows: Nat]
      <3>1. op.rows \in Nat
        BY <1>2 DEF TypeOK, Operation
      <3>2. ASSUME NEW default \in Nat
            PROVE  Answers(default) \subseteq [cost: Nat, rows: Nat]
        <4>1. Costs \cup {default} \subseteq Nat /\ {0, op.rows} \subseteq Nat
          BY <3>1
        <4>2. [cost: Costs \cup {default}, rows: {0, op.rows}] \subseteq [cost: Nat, rows: Nat]
          BY <4>1, Zenon
        <4> QED  BY <4>2, Zenon DEF Answers
      <3>3. Unavailable \in [cost: Nat, rows: Nat]
        BY <1>0 DEF Unavailable
      <3>4. /\ Answers(ConservativeCost) \subseteq [cost: Nat, rows: Nat]
            /\ Answers(0) \subseteq [cost: Nat, rows: Nat]
        BY <1>0, <3>2
      <3> QED  BY <3>3, <3>4, Zenon DEF ProxyExplained, GateExplained
    <2>00. /\ op.rows \in Nat /\ op.cascade \in Nat /\ op.triggers \in Nat
           /\ op.soft \in BOOLEAN
      BY <1>2 DEF TypeOK, Operation
    <2> USE <1>2, <2>0, <2>00 DEF TypeOK
    <2>1. CASE ProxyExplain
      BY <2>1 DEF ProxyExplain, Steps
    <2>2. CASE ProxyPolicy
      BY <2>2 DEF ProxyPolicy, Steps, Triggered
    <2>3. CASE ProxyRoute
      BY <2>3 DEF ProxyRoute, Steps, ProxyRouting, Routing
    <2>4. CASE GateExplain
      <3>1. /\ explain' \in [cost: Nat, rows: Nat] /\ pc' \in Steps
            /\ UNCHANGED <<op, policy, route, facts, missed, score, tier>>
        <4>1. explain' \in GateExplained
          BY <2>4 DEF GateExplain
        <4> QED  BY <2>4, <4>1 DEF GateExplain, Steps
      <3> QED  BY <3>1
    <2>5. CASE GatePolicy
      <3>1. policy' \in SUBSET RuleIds
        BY <2>5 DEF GatePolicy, Triggered
      <3>2. score' \in 0..1000
        <4>1. explain.cost \in Nat  OBVIOUS
        <4> QED  BY <2>5, <4>1, GateScoreType DEF GatePolicy
      <3>3. /\ pc' \in Steps
            /\ missed' = missed \/ missed' = missed \cup {"policy"}
            /\ UNCHANGED <<op, explain, route, facts, tier>>
        BY <2>5 DEF GatePolicy, Steps
      <3>4. missed' \subseteq {"policy", "rows", "triggers", "cascade",
                               "soft_delete", "history"}
        BY <3>3, Zenon
      <3> QED  BY <3>1, <3>2, <3>3, <3>4, Zenon
    <2>6. CASE GateRoute
      BY <2>6 DEF GateRoute, Steps, GateRouting, Routing
    <2>7. CASE CountRows
      <3>1. facts' \in Facts
        <4>1. facts \in Facts /\ op.rows \in Nat /\ Confidences \subseteq 0..100
          OBVIOUS
        <4>2. 0 \in Nat /\ 0 \in 0..100
          OBVIOUS
        <4> HIDE <1>2, <2>0, <2>00 DEF TypeOK
        <4>3. \/ facts' = [facts EXCEPT !.rows = 0, !.confidence = 0]
              \/ \E c \in Confidences :
                   facts' = [facts EXCEPT !.rows = op.rows, !.confidence = c]
          BY <2>7, Zenon DEF CountRows, Missing
        <4>4. [facts EXCEPT !.rows = 0, !.confidence = 0] \in Facts
          BY <4>1, <4>2, FactsWritten, Zenon
        <4>5. \A c \in Confidences :
                [facts EXCEPT !.rows = op.rows, !.confidence = c] \in Facts
          BY <4>1, FactsWritten, Zenon
        <4> QED  BY <4>3, <4>4, <4>5, Zenon
      <3> QED  BY <2>7, <3>1 DEF CountRows, Missing, Steps
    <2>8. CASE DetectTriggers
      BY <2>8 DEF DetectTriggers, Missing, Steps, Facts
    <2>9. CASE TraceCascade
      BY <2>9 DEF TraceCascade, Missing, Steps, Facts
    <2>10. CASE CheckSoftDelete
      <3>1. facts' \in Facts
        <4>1. facts \in Facts /\ op.soft \in BOOLEAN
          OBVIOUS
        <4> HIDE <1>2, <2>0, <2>00 DEF TypeOK
        <4>2. \/ facts' = [facts EXCEPT !.soft = FALSE]
              \/ facts' = [facts EXCEPT !.soft = op.soft]
              \/ facts' = facts
          BY <2>10, Zenon DEF CheckSoftDelete, Missing
        <4> QED  BY <4>1, <4>2, FactsWritten, Zenon
      <3> QED  BY <2>10, <3>1 DEF CheckSoftDelete, Missing, Steps
    <2>11. CASE Retrieve
      BY <2>11 DEF Retrieve, Missing, Steps, Facts
    <2>12. CASE Classify
      <3>1. Cardinality(policy) \in Nat
        BY RulesFinite
      <3>2. score' \in 0..1000
        BY <2>12, <3>1, RiskScoreType DEF Classify
      <3>3. tier' \in RiskTier
        BY <2>12 DEF Classify, RiskTierOf, RiskTier
      <3> QED  BY <2>12, <3>2, <3>3 DEF Classify, Steps
    <2>13. CASE UNCHANGED vars
      BY <2>13 DEF vars
    <2> QED
      BY <2>1, <2>2, <2>3, <2>4, <2>5, <2>6, <2>7, <2>8, <2>9, <2>10, <2>11, <2>12, <2>13
         DEF Next
  <1> QED
    BY <1>1, <1>2, PTL DEF Spec

-----------------------------------------------------------------------------
(* The invariant and what follows from it. *)

\* The invariant holds in every reachable state.
THEOREM AssessmentInvariant == Spec => []AssessmentInv
  <1> USE ConstantsAssumption
  <1>1. Init => AssessmentInv
    BY DEF Init, AssessmentInv, ProxyInv, FactsInv, TierInv, FastPathIsOnePricedRead,
           Rated, NoFacts
  <1>2. ASSUME TypeOK, AssessmentInv, [Next]_vars PROVE AssessmentInv'
    <2> USE <1>2 DEF AssessmentInv
    <2>1. CASE ProxyExplain
      <3>1. op.multi => explain'.cost = ConservativeCost
        BY <2>1 DEF ProxyExplain, ProxyExplained, Unavailable
      <3> QED
        BY <2>1, <3>1 DEF ProxyExplain, ProxyInv, FactsInv, TierInv, FastPathIsOnePricedRead,
           Rated, BeforeRows
    <2>2. CASE ProxyPolicy
      BY <2>2 DEF ProxyPolicy, ProxyInv, FactsInv, TierInv, FastPathIsOnePricedRead,
         Rated, BeforeRows
    <2>3. CASE ProxyRoute
      <3>1. ASSUME ProxyRouting = "auto_execute"
            PROVE  ~op.multi /\ FirstWord(op.keyword) = "SELECT"
                   /\ explain.cost # ConservativeCost
        <4>1. ProxyType(op.keyword) = "SELECT" /\ explain.cost < 50000
          BY <3>1 DEF ProxyRouting
        <4>2. explain.cost # ConservativeCost
          BY <4>1, SMT DEF ConservativeCost
        <4>3. ~op.multi
          BY <2>3, <4>2 DEF ProxyRoute, ProxyInv
        <4> QED  BY <4>1, <4>2, <4>3 DEF ProxyType
      <3>2. FastPathIsOnePricedRead'
        BY <2>3, <3>1 DEF ProxyRoute, FastPathIsOnePricedRead, TypeOK
      <3>3. ProxyInv'
        BY <2>3 DEF ProxyRoute, ProxyInv, TypeOK
      <3> QED
        BY <2>3, <3>2, <3>3 DEF ProxyRoute, FactsInv, TierInv, Rated, BeforeRows
    <2>4. CASE GateExplain
      BY <2>4 DEF GateExplain, ProxyInv, FactsInv, TierInv, FastPathIsOnePricedRead,
         Rated, BeforeRows
    <2>5. CASE GatePolicy
      BY <2>5 DEF GatePolicy, ProxyInv, FactsInv, TierInv, FastPathIsOnePricedRead,
         Rated, BeforeRows
    <2>6. CASE GateRoute
      BY <2>6 DEF GateRoute, ProxyInv, FactsInv, TierInv, FastPathIsOnePricedRead,
         Rated, BeforeRows, TypeOK
    <2>7. CASE CountRows
      <3>1. /\ pc = "rows" /\ pc' = "triggers"
            /\ UNCHANGED <<op, explain, policy, route, score, tier>>
        BY <2>7 DEF CountRows
      <3>2. facts'.soft = facts.soft
        BY <2>7 DEF CountRows, Missing, TypeOK, Facts
      <3>3. missed' = missed \/ facts'.confidence = 0
        BY <2>7 DEF CountRows, Missing, TypeOK, Facts
      <3> QED
        BY <3>1, <3>2, <3>3 DEF ProxyInv, FactsInv, TierInv, FastPathIsOnePricedRead,
         Rated, BeforeRows
    <2>8. CASE DetectTriggers
      BY <2>8 DEF DetectTriggers, Missing, ProxyInv, FactsInv, TierInv, FastPathIsOnePricedRead,
         Rated, BeforeRows, TypeOK, Facts
    <2>9. CASE TraceCascade
      BY <2>9 DEF TraceCascade, Missing, ProxyInv, FactsInv, TierInv, FastPathIsOnePricedRead,
         Rated, BeforeRows, TypeOK, Facts
    <2>10. CASE CheckSoftDelete
      BY <2>10 DEF CheckSoftDelete, Missing, ProxyInv, FactsInv, TierInv, FastPathIsOnePricedRead,
         Rated, BeforeRows, TypeOK, Facts
    <2>11. CASE Retrieve
      BY <2>11 DEF Retrieve, Missing, ProxyInv, FactsInv, TierInv, FastPathIsOnePricedRead,
         Rated, BeforeRows, TypeOK, Facts
    <2>12. CASE Classify
      BY <2>12 DEF Classify, ProxyInv, FactsInv, TierInv, FastPathIsOnePricedRead,
         Rated, BeforeRows
    <2>13. CASE UNCHANGED vars
      BY <2>13 DEF vars, ProxyInv, FactsInv, TierInv, FastPathIsOnePricedRead,
         Rated
    <2> QED
      BY <2>1, <2>2, <2>3, <2>4, <2>5, <2>6, <2>7, <2>8, <2>9, <2>10, <2>11, <2>12, <2>13
         DEF Next
  <1> QED
    BY <1>1, <1>2, RatingTyping, PTL DEF Spec

\* Nothing but one statement that reads and that the database has priced leaves
\* the proxy by its fast path, whatever costs EXPLAIN may answer and whichever
\* calls fail.
THEOREM FastPathOnePricedRead == Spec => []FastPathIsOnePricedRead
  BY AssessmentInvariant, PTL DEF AssessmentInv

\* An operation whose rows nobody counted is never rated below FULL_CONTRACT.
THEOREM UnsizedGetsFull == Spec => []UnsizedIsFull
  <1>1. TypeOK /\ AssessmentInv => UnsizedIsFull
    BY DEF AssessmentInv, FactsInv, TierInv, UnsizedIsFull, RiskTierOf,
           NeedsFullContract
  <1> QED
    BY <1>1, RatingTyping, AssessmentInvariant, PTL

\* An operation that cannot be taken back is never rated below FULL_CONTRACT,
\* whichever calls went unanswered.
THEOREM IrrecoverableGetsFull == Spec => []IrrecoverableIsFull
  <1>1. TypeOK /\ AssessmentInv => IrrecoverableIsFull
    BY DEF AssessmentInv, FactsInv, TierInv, IrrecoverableIsFull, RiskTierOf,
           NeedsFullContract, Reversibility, ChangesRows, Rated
  <1> QED
    BY <1>1, RatingTyping, AssessmentInvariant, PTL

\* The tier of every rated operation is monotone in what was found out about it.
THEOREM RatedTierMonotone == Spec => []TierMonotone
  <1>1. ASSUME TypeOK, AssessmentInv PROVE TierMonotone
    <2> SUFFICES ASSUME Rated, NEW g \in Worse(facts)
                 PROVE  Rank(tier) <= Rank(RiskTierOf(ClassifyType(op.keyword), g,
                            policy, PromptInjectionRisk(op.source)))
      BY DEF TierMonotone
    <2>1. facts \in Facts /\ policy \in SUBSET RuleIds
      BY <1>1 DEF TypeOK
    <2>2. g \in Facts /\ NoBetter(g, facts)
      <3>0. /\ facts.rows \in Nat /\ facts.cascade \in Nat /\ facts.triggers \in Nat
            /\ facts.rejections \in Nat /\ facts.confidence \in 0..100
            /\ facts.soft \in BOOLEAN
        BY <2>1 DEF Facts
      <3>1. ASSUME NEW n \in Nat, n >= facts.rows, g = [facts EXCEPT !.rows = n]
            PROVE  g \in Facts /\ NoBetter(g, facts)
        BY <2>1, <3>0, <3>1 DEF NoBetter, Facts
      <3>2. ASSUME NEW n \in Nat, n >= facts.cascade, g = [facts EXCEPT !.cascade = n]
            PROVE  g \in Facts /\ NoBetter(g, facts)
        BY <2>1, <3>0, <3>2 DEF NoBetter, Facts
      <3>3. ASSUME NEW n \in Nat, n >= facts.triggers, g = [facts EXCEPT !.triggers = n]
            PROVE  g \in Facts /\ NoBetter(g, facts)
        BY <2>1, <3>0, <3>3 DEF NoBetter, Facts
      <3>4. ASSUME NEW n \in Nat, n >= facts.rejections, g = [facts EXCEPT !.rejections = n]
            PROVE  g \in Facts /\ NoBetter(g, facts)
        BY <2>1, <3>0, <3>4 DEF NoBetter, Facts
      <3>5. ASSUME NEW n \in 0..100, n <= facts.confidence, g = [facts EXCEPT !.confidence = n]
            PROVE  g \in Facts /\ NoBetter(g, facts)
        BY <2>1, <3>0, <3>5 DEF NoBetter, Facts
      <3>6. ASSUME g = [facts EXCEPT !.soft = FALSE]
            PROVE  g \in Facts /\ NoBetter(g, facts)
        <4>1. /\ g.rows = facts.rows /\ g.cascade = facts.cascade
              /\ g.triggers = facts.triggers /\ g.rejections = facts.rejections
              /\ g.confidence = facts.confidence /\ g.soft = FALSE
          BY <2>1, <3>6, Zenon DEF Facts
        <4>2. \A b \in BOOLEAN : [facts EXCEPT !.soft = b] \in Facts
          BY <2>1 DEF Facts
        <4>3. g \in Facts
          BY <3>6, <4>2, Zenon
        <4> QED  BY <3>0, <4>1, <4>3 DEF NoBetter
      <3> QED
        BY <3>1, <3>2, <3>3, <3>4, <3>5, <3>6, ConstantsAssumption DEF Worse
    <2>3. PromptInjectionRisk(op.source) \in BOOLEAN
      BY DEF PromptInjectionRisk
    <2>4. tier = RiskTierOf(ClassifyType(op.keyword), facts, policy,
                            PromptInjectionRisk(op.source))
      BY <1>1 DEF AssessmentInv, TierInv
    <2> QED  BY <2>1, <2>2, <2>3, <2>4, TierIsMonotone
  <1> QED
    BY <1>1, RatingTyping, AssessmentInvariant, PTL

=============================================================================
