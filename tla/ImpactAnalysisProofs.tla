------------------------ MODULE ImpactAnalysisProofs ------------------------
(***************************************************************************)
(* Theorems about ImpactAnalysis, for any tables, foreign keys and         *)
(* statements, any limit of the depth, and statistics that say anything    *)
(* and change at any time.                                                 *)
(***************************************************************************)
EXTENDS ImpactAnalysis, SequenceTheorems, WellFoundedInduction, TLAPS

-----------------------------------------------------------------------------
(* The inductive invariant. *)

Analysis == [rows: Nat, confidence: Confidences,
             external: SUBSET [table: Tables, extension: {"pg_net", "dblink"}, calls: Nat],
             cascade: Seq(Level), answered: BOOLEAN]

\* A call of _trace expects no more rows than the statistics give its table, and
\* the size it has read is the one they still give, unless they have changed
\* under the trace.
SoundFrame == {f \in Frame : steady => /\ f.rows <= stat[f.table]
                                       /\ f.fresh \/ f.size = stat[f.table]}

SoundLevel == {l \in Level : steady => l.rows <= stat[l.table]}

\* TypeOK with its sequences, and the sizes.
ImpactInv ==
    /\ fk \subseteq Tables \X Tables \X {1, 2}
    /\ trigs \in TriggerSets
    /\ stat \in [Tables -> Nat] /\ analysed \subseteq Tables /\ steady \in BOOLEAN
    /\ stmt \in Statements
    /\ pc \in {"count", "triggers", "cascade", "tracing", "soft_delete", "done"}
    /\ stack \in Seq(SoundFrame)
    /\ levels \in Seq(SoundLevel)
    /\ flags \in [circular: BOOLEAN, maxDepth: BOOLEAN]
    /\ found \in Analysis

-----------------------------------------------------------------------------
(* Lemmas on the operators. *)

\* A share of a table's rows is a number of rows, whatever the statistics say.
LEMMA ScaledTyped ==
  ASSUME NEW n \in Nat, NEW child \in Nat, NEW parent \in Nat,
         NEW m \in Scaled(n, child, parent)
  PROVE  m \in Nat
  <1>1. CASE parent = 0
    BY <1>1 DEF Scaled
  <1>2. CASE parent # 0
    <2>1. n * child \in Nat
      OBVIOUS
    <2>2. (n * child) \div parent \in Nat
      BY <1>2, <2>1
    <2> QED  BY <1>2, <2>2 DEF Scaled
  <1> QED  BY <1>1, <1>2

\* A share of a table's rows, times the size of another one: never more than
\* that size, rounded down or one short of it.
LEMMA ScaledBound ==
  ASSUME NEW n \in Nat, NEW child \in Nat, NEW parent \in Nat, n <= parent,
         NEW m \in Scaled(n, child, parent)
  PROVE  m \in Nat /\ m <= child
  <1>1. CASE parent = 0
    BY <1>1 DEF Scaled
  <1>2. CASE parent # 0
    <2> DEFINE exact == (n * child) \div parent
    <2>1. n * child \in Nat /\ n * child <= parent * child
      <3>1. PICK k \in Nat : parent = n + k
        <4>1. parent - n \in Nat /\ parent = n + (parent - n)
          OBVIOUS
        <4> QED  BY <4>1
      <3>2. parent * child = n * child + k * child /\ k * child \in Nat /\ n * child \in Nat
        BY <3>1
      <3> QED  BY <3>2
    <2>2. exact \in Nat /\ parent * exact <= n * child
      BY <1>2, <2>1
    <2>3. exact <= child
      <3> HIDE DEF exact
      <3> SUFFICES ASSUME exact > child PROVE FALSE
        BY <2>2
      <3>1. PICK k \in Nat : exact = child + 1 + k
        <4>1. exact - child - 1 \in Nat /\ exact = child + 1 + (exact - child - 1)
          BY <2>2
        <4> QED  BY <4>1
      <3>2. parent * exact = parent * child + parent + parent * k /\ parent * k \in Nat
            /\ parent * child \in Nat
        BY <3>1
      <3> QED  BY <1>2, <2>1, <2>2, <3>2
    <2> QED
      BY <1>2, <2>2, <2>3 DEF Scaled
  <1> QED  BY <1>1, <1>2

\* Every nonempty set of naturals has a least element; the proofs use
\* this where a reader would expect an induction.
LEMMA LeastNumber ==
  ASSUME NEW T \in SUBSET Nat, T # {}
  PROVE  \E n \in T : \A m \in T : n <= m
  <1> DEFINE R == {ss \in Nat \X Nat : ss[1] < ss[2]}
  <1>1. IsWellFoundedOn(R, Nat)
    BY NatLessThanWellFounded DEF OpToRel
  <1>2. PICK n \in T : \A m \in T : ~(<<m, n>> \in R)
    <2> HIDE DEF R
    <2> QED  BY <1>1, WFMin
  <1>3. \A u \in Nat, v \in Nat : u < v => <<u, v>> \in R
    OBVIOUS
  <1>4. \A m \in T : ~(m < n)
    <2> HIDE DEF R
    <2> QED  BY <1>2, <1>3, Zenon
  <1> QED
    BY <1>4

\* The loop over the children takes one of them: their order has a first.
LEMMA FirstChildIn ==
  ASSUME NEW todo \in SUBSET (Tables \X {1, 2}), todo # {}
  PROVE  FirstChild(todo) \in todo
  <1> DEFINE names == {a[1] : a \in todo}
  <1>1. names \subseteq Nat /\ names # {}
    <2>1. Tables \subseteq Nat
      BY ImpactAssumption
    <2>2. \A a \in todo : a[1] \in Tables
      OBVIOUS
    <2> QED  BY <2>1, <2>2
  <1>2. PICK t \in names : \A u \in names : t <= u
    <2> HIDE DEF names
    <2> QED  BY <1>1, LeastNumber
  <1>3. PICK a \in todo : a[1] = t /\ \A b \in todo : b[1] = t => a[2] <= b[2]
    <2>1. \A b \in todo : b = <<b[1], b[2]>> /\ b[2] \in {1, 2}
      OBVIOUS
    <2>2. CASE <<t, 1>> \in todo
      BY <2>1, <2>2
    <2>3. CASE <<t, 1>> \notin todo
      BY <2>1, <2>3
    <2> QED  BY <2>2, <2>3
  <1>4. \A b \in todo : Before(a, b)
    BY <1>1, <1>2, <1>3 DEF Before
  <1> QED
    BY <1>3, <1>4 DEF FirstChild

\* Confidences stay between 0 and 1.
LEMMA ConfidenceRange ==
  ASSUME NEW t, NEW c \in EstimateConfidence(t) PROVE c \in Confidences
  BY SMT DEF EstimateConfidence, Confidence, Confidences

\* What the server lists are triggers that call one of the two extensions.
LEMMA ExternalTypes ==
  ASSUME NEW t \in Tables, NEW n \in Nat
  PROVE  ExternalTriggers(t, n)
           \in SUBSET [table: Tables, extension: {"pg_net", "dblink"}, calls: Nat]
  BY DEF ExternalTriggers, DetectExtension

\* The ways in which the contract changes.
LEMMA AnalysisUpdates ==
  ASSUME NEW f \in Analysis
  PROVE  /\ \A n \in Nat, c \in Confidences :
               [f EXCEPT !.rows = n, !.confidence = c] \in Analysis
         /\ \A e \in SUBSET [table: Tables, extension: {"pg_net", "dblink"}, calls: Nat] :
               [f EXCEPT !.external = e] \in Analysis
         /\ \A l \in Seq(Level) : /\ [f EXCEPT !.cascade = l] \in Analysis
                                  /\ [f EXCEPT !.cascade = l, !.answered = TRUE] \in Analysis
  <1>1. ASSUME NEW n \in Nat, NEW c \in Confidences
        PROVE  [f EXCEPT !.rows = n, !.confidence = c] \in Analysis
    BY DEF Analysis
  <1>2. ASSUME NEW e \in SUBSET [table: Tables, extension: {"pg_net", "dblink"}, calls: Nat]
        PROVE  [f EXCEPT !.external = e] \in Analysis
    BY DEF Analysis
  <1>3. ASSUME NEW l \in Seq(Level)
        PROVE  /\ [f EXCEPT !.cascade = l] \in Analysis
               /\ [f EXCEPT !.cascade = l, !.answered = TRUE] \in Analysis
    BY DEF Analysis
  <1> QED
    BY <1>1, <1>2, <1>3

\* Replacing the innermost call of _trace.
LEMMA ReplaceTop ==
  ASSUME NEW S, NEW s \in Seq(S), s # <<>>, NEW f \in S
  PROVE  /\ Head(s) \in S /\ Tail(s) \in Seq(S)
         /\ <<f>> \o Tail(s) \in Seq(S)
         /\ \A g \in S : <<g>> \o (<<f>> \o Tail(s)) \in Seq(S)
  BY HeadTailProperties

-----------------------------------------------------------------------------
(* The steps. *)

\* What a call may expect depends on the statistics alone.
LEMMA SameStatistics ==
  ASSUME UNCHANGED <<stat, steady>>
  PROVE  SoundFrame' = SoundFrame /\ SoundLevel' = SoundLevel
  BY DEF SoundFrame, SoundLevel

\* A step of _trace keeps the invariant.
LEMMA TraceKeeps ==
  ASSUME ImpactInv, StartTrace \/ CutOff \/ Expand \/ Visit \/ Return
  PROVE  ImpactInv'
  <1> USE ImpactAssumption
  <1>1. UNCHANGED <<fk, trigs, stat, analysed, stmt, found>>
    BY DEF StartTrace, CutOff, Expand, Visit, Return, dbVars, statVars
  <1>0. CutOff \/ Expand \/ Visit \/ Return => /\ UNCHANGED steady
                                             /\ SoundFrame' = SoundFrame
                                             /\ SoundLevel' = SoundLevel
    <2>1. CutOff \/ Expand \/ Visit \/ Return => UNCHANGED steady
      BY Zenon DEF CutOff, Expand, Visit, Return, statVars
    <2> QED  BY <1>1, <2>1, SameStatistics, SMTT(30)
  <1>2. CASE StartTrace
    <2>1. PICK c \in EstimateConfidence(Root) :
            stack' = <<NewFrame(Root, stat[Root], c, 1, {Root})>>
      BY <1>2 DEF StartTrace
    <2>2. NewFrame(Root, stat[Root], c, 1, {Root}) \in SoundFrame'
      BY <1>1, ConfidenceRange DEF NewFrame, SoundFrame, Frame, ImpactInv
    <2>3. stack' \in Seq(SoundFrame')
      BY <2>1, <2>2
    <2> QED
      BY <1>1, <1>2, <2>3 DEF StartTrace, NoFlags, ImpactInv
  <1>3. CASE CutOff \/ Return
    <2>1. stack' \in Seq(SoundFrame)
      <3>1. stack \in Seq(SoundFrame) /\ stack # <<>> /\ stack' = Tail(stack)
        BY <1>3 DEF CutOff, Return, Tracing, ImpactInv
      <3>2. Tail(stack) \in Seq(SoundFrame)
        BY <3>1, HeadTailProperties
      <3> QED  BY <3>1, <3>2
    <2>2. flags' \in [circular: BOOLEAN, maxDepth: BOOLEAN]
      BY <1>3 DEF CutOff, Return, ImpactInv
    <2> QED
      BY <1>0, <1>1, <1>3, <2>1, <2>2 DEF CutOff, Return, ImpactInv
  <1>4. CASE Expand
    <2> DEFINE top == Head(stack)
               new == [top EXCEPT !.fresh = FALSE, !.todo = CascadeChildren(top.table),
                                  !.size = stat[top.table]]
    <2>1. top \in SoundFrame
      BY <1>4, HeadTailProperties DEF Expand, Tracing, ImpactInv
    <2>2. CascadeChildren(top.table) \in SUBSET (Tables \X {1, 2})
      BY DEF CascadeChildren, ImpactInv
    <2>3. stat[top.table] \in Nat
      <3>1. top.table \in Tables
        BY <2>1 DEF SoundFrame, Frame
      <3>2. \A u \in Tables : stat[u] \in Nat
        BY DEF ImpactInv
      <3> QED  BY <3>1, <3>2, Zenon
    <2>4. new \in SoundFrame
      <3> HIDE DEF top
      <3> QED  BY <2>1, <2>2, <2>3 DEF SoundFrame, Frame
    <2>5. stack' = <<new>> \o Tail(stack)
      BY <1>4 DEF Expand
    <2> HIDE DEF new
    <2>6. stack' \in Seq(SoundFrame)
      BY <1>4, <2>4, <2>5, ReplaceTop, SMTT(30) DEF Expand, Tracing, ImpactInv
    <2> QED
      BY <1>0, <1>1, <1>4, <2>6 DEF Expand, ImpactInv
  <1>5. CASE Visit
    <2> DEFINE top   == Head(stack)
               child == FirstChild(top.todo)
               t     == child[1]
               conf  == (top.confidence * 8) \div 10
               left  == [top EXCEPT !.todo = @ \ {child}]
               rest  == <<left>> \o Tail(stack)
    <2>1. top \in SoundFrame /\ stack # <<>> /\ ~top.fresh /\ top.todo # {}
      BY <1>5, HeadTailProperties DEF Visit, Tracing, ImpactInv
    <2>2. t \in Tables
      BY <2>1, FirstChildIn DEF SoundFrame, Frame
    <2>3. conf \in Confidences
      <3>1. top.confidence \in Confidences
        BY <2>1 DEF SoundFrame, Frame
      <3>2. \A x \in Confidences : (x * 8) \div 10 \in Confidences
        BY SMTT(30) DEF Confidences
      <3> QED  BY <3>1, <3>2
    <2>4. left \in SoundFrame
      <3> HIDE DEF top, child
      <3> QED  BY <2>1, SMTT(30) DEF SoundFrame, Frame
    <2>5. CASE /\ stack' = rest /\ flags' = [flags EXCEPT !.circular = TRUE]
               /\ UNCHANGED levels
      <3> HIDE DEF left
      <3>1. stack' \in Seq(SoundFrame)
        BY <2>1, <2>4, <2>5, ReplaceTop DEF ImpactInv
      <3>2. flags' \in [circular: BOOLEAN, maxDepth: BOOLEAN]
        BY <2>5 DEF ImpactInv
      <3> QED  BY <1>0, <1>1, <1>5, <2>5, <3>1, <3>2 DEF Visit, ImpactInv
    <2>6. ASSUME NEW n \in Scaled(top.rows, stat[t], top.size),
                 levels' = Append(levels, [table |-> t, parent |-> top.table, rows |-> n,
                                           confidence |-> conf, depth |-> top.depth]),
                 stack' = <<NewFrame(t, n, conf, top.depth + 1, top.path \cup {t})>> \o rest,
                 UNCHANGED flags
          PROVE  ImpactInv'
      <3>1. n \in Nat /\ (steady => n <= stat[t])
        <4>1. top.rows \in Nat /\ top.size \in Nat /\ stat[t] \in Nat
          <5>1. top.rows \in Nat /\ top.size \in Nat
            BY <2>1 DEF SoundFrame, Frame
          <5> HIDE DEF top, t
          <5> QED  BY <2>2, <5>1 DEF ImpactInv
        <4>2. n \in Nat
          BY <2>6, <4>1, ScaledTyped
        <4>3. ASSUME steady PROVE n <= stat[t]
          <5>1. top.rows <= top.size
            BY <2>1, <4>3 DEF SoundFrame, Frame
          <5> QED  BY <2>6, <4>1, <5>1, ScaledBound
        <4> QED  BY <4>2, <4>3
      <3> DEFINE new == NewFrame(t, n, conf, top.depth + 1, top.path \cup {t})
                 lev == [table |-> t, parent |-> top.table, rows |-> n,
                         confidence |-> conf, depth |-> top.depth]
      <3> HIDE DEF t, conf
      <3>2. new \in SoundFrame
        BY <2>1, <2>2, <2>3, <3>1 DEF SoundFrame, Frame, NewFrame
      <3>3. lev \in SoundLevel
        BY <2>1, <2>2, <2>3, <3>1 DEF SoundFrame, Frame, SoundLevel, Level
      <3> HIDE DEF new, lev, left
      <3>4. stack' \in Seq(SoundFrame)
        BY <2>1, <2>4, <2>6, <3>2, ReplaceTop DEF ImpactInv, new
      <3>5. levels' \in Seq(SoundLevel)
        BY <2>6, <3>3 DEF ImpactInv, lev
      <3> QED  BY <1>0, <1>1, <1>5, <2>6, <3>4, <3>5 DEF Visit, ImpactInv
    <2> QED
      BY <1>5, <2>5, <2>6, ZenonT(40) DEF Visit
  <1> QED
    BY <1>2, <1>3, <1>4, <1>5

\* So does every other step: another query, or an ANALYZE in between.
LEMMA OtherStepsKeep ==
  ASSUME ImpactInv,
         \/ \E t \in Tables : Analyze(t)
         \/ CountRows \/ DetectTriggers \/ TraceFails \/ TraceAnswered \/ CheckSoftDelete
         \/ UNCHANGED vars
  PROVE  ImpactInv'
  <1> USE ImpactAssumption
  <1>1. UNCHANGED <<fk, trigs, stmt, stack, levels, flags>>
    BY DEF Analyze, CountRows, DetectTriggers, TraceFails, TraceAnswered, CheckSoftDelete, vars,
       dbVars, traceVars
  <1>0. \/ \E t \in Tables : Analyze(t)
        \/ UNCHANGED <<stat, analysed, steady>> /\ SoundFrame' = SoundFrame
           /\ SoundLevel' = SoundLevel
    <2>1. \/ \E t \in Tables : Analyze(t)
          \/ UNCHANGED <<stat, analysed, steady>>
      BY DEF CountRows, DetectTriggers, TraceFails, TraceAnswered, CheckSoftDelete, vars,
         statVars
    <2> QED  BY <2>1, SameStatistics
  <1>2. ASSUME NEW t \in Tables, Analyze(t) PROVE ImpactInv'
    <2>1. SoundFrame \subseteq SoundFrame' /\ SoundLevel \subseteq SoundLevel'
      BY <1>2 DEF Analyze, SoundFrame, SoundLevel
    <2>2. stack' \in Seq(SoundFrame') /\ levels' \in Seq(SoundLevel')
      BY <1>1, <2>1 DEF ImpactInv
    <2>3. PICK n \in Counts[t] : stat' = [stat EXCEPT ![t] = n]
      BY <1>2 DEF Analyze
    <2>4. stat' \in [Tables -> Nat]
      BY <2>3 DEF ImpactInv
    <2> QED
      BY <1>1, <1>2, <2>2, <2>4 DEF Analyze, ImpactInv
  <1>3. ASSUME CountRows, ~ \E t \in Tables : Analyze(t) PROVE ImpactInv'
    <2>1. found' \in Analysis
      <3>1. \A n \in EstimateRows(Root, stmt.where) : n \in Nat
        BY DEF EstimateRows, ImpactInv
      <3>2. \A n \in Nat, c \in Confidences :
              [found EXCEPT !.rows = n, !.confidence = c] \in Analysis
        BY AnalysisUpdates DEF ImpactInv
      <3>3. 0 \in Nat /\ 0 \in Confidences
        BY SMT DEF Confidences
      <3>4. \A c \in EstimateConfidence(Root) : c \in Confidences
        BY ConfidenceRange
      <3>5. PICK n \in Nat, c \in Confidences :
              found' = [found EXCEPT !.rows = n, !.confidence = c]
        <4>1. CASE found' = [found EXCEPT !.rows = 0, !.confidence = 0]
          BY <3>3, <4>1
        <4>2. ASSUME NEW n \in EstimateRows(Root, stmt.where), NEW c \in EstimateConfidence(Root),
                     found' = [found EXCEPT !.rows = n, !.confidence = c]
              PROVE  \E m \in Nat, d \in Confidences :
                       found' = [found EXCEPT !.rows = m, !.confidence = d]
          <5>1. n \in Nat /\ c \in Confidences
            BY <3>1, <3>4
          <5> QED  BY <4>2, <5>1
        <4> QED  BY <1>3, <4>1, <4>2, Zenon DEF CountRows
      <3> QED  BY <3>2, <3>5
    <2> QED
      BY <1>0, <1>1, <1>3, <2>1 DEF CountRows, ImpactInv
  <1>4. ASSUME DetectTriggers, ~ \E t \in Tables : Analyze(t) PROVE ImpactInv'
    <2>1. found' \in Analysis
      <3>1. ExternalTriggers(Root, found.rows)
              \in SUBSET [table: Tables, extension: {"pg_net", "dblink"}, calls: Nat]
        BY ExternalTypes DEF ImpactInv, Analysis
      <3>2. {} \in SUBSET [table: Tables, extension: {"pg_net", "dblink"}, calls: Nat]
        OBVIOUS
      <3>3. \A e \in {ExternalTriggers(Root, found.rows), {}} :
              [found EXCEPT !.external = e] \in Analysis
        BY <3>1, <3>2, AnalysisUpdates DEF ImpactInv
      <3> QED  BY <1>4, <3>3, Zenon DEF DetectTriggers
    <2> QED
      BY <1>0, <1>1, <1>4, <2>1 DEF DetectTriggers, ImpactInv
  <1>5. ASSUME TraceFails \/ TraceAnswered, ~ \E t \in Tables : Analyze(t) PROVE ImpactInv'
    <2>1. levels \in Seq(Level)
      BY DEF ImpactInv, SoundLevel
    <2>2. found' \in Analysis
      <3>1. <<>> \in Seq(Level)
        OBVIOUS
      <3>2. /\ [found EXCEPT !.cascade = <<>>] \in Analysis
            /\ [found EXCEPT !.cascade = levels, !.answered = TRUE] \in Analysis
        BY <2>1, <3>1, AnalysisUpdates DEF ImpactInv
      <3> QED  BY <1>5, <3>2, Zenon DEF TraceFails, TraceAnswered
    <2> QED
      BY <1>0, <1>1, <1>5, <2>2 DEF TraceFails, TraceAnswered, ImpactInv
  <1>6. ASSUME CheckSoftDelete \/ UNCHANGED vars, ~ \E t \in Tables : Analyze(t) PROVE ImpactInv'
    BY <1>0, <1>1, <1>6 DEF CheckSoftDelete, vars, ImpactInv
  <1> QED
    BY <1>2, <1>3, <1>4, <1>5, <1>6

\* The invariant holds in every reachable state.
THEOREM ImpactInvariant == Spec => []ImpactInv
  <1>1. Init => ImpactInv
    <2> SUFFICES ASSUME Init PROVE ImpactInv
      OBVIOUS
    <2> USE ImpactAssumption
    <2>1. /\ fk \subseteq Tables \X Tables \X {1, 2} /\ analysed \subseteq Tables
          /\ stat \in [Tables -> Nat]
      BY DEF Init, Statistics
    <2>2. stack \in Seq(SoundFrame) /\ levels \in Seq(SoundLevel)
      BY DEF Init
    <2>3. found \in Analysis
      <3>1. 0 \in Confidences /\ <<>> \in Seq(Level)
        BY SMT DEF Confidences
      <3> QED  BY <3>1 DEF Init, Analysis
    <2> QED
      BY <2>1, <2>2, <2>3 DEF Init, NoFlags, ImpactInv
  <1>2. ImpactInv /\ [Next]_vars => ImpactInv'
    BY TraceKeeps, OtherStepsKeep DEF Next
  <1> QED
    BY <1>1, <1>2, PTL DEF Spec

-----------------------------------------------------------------------------
(* What follows. *)

\* Every variable keeps its type; the triggers in a contract call an extension
\* whose effects no roll-back undoes.
THEOREM ImpactTyping == Spec => []TypeOK
  <1>1. ImpactInv => TypeOK
    BY DEF ImpactInv, TypeOK, Analysis, SoundFrame, SoundLevel
  <1> QED
    BY <1>1, ImpactInvariant, PTL

\* While the statistics stay as they were when the trace began, no level of a
\* cascade is estimated above what they say of its own table, however deep it is.
THEOREM CascadeWithinStatistics == Spec => []WithinStatistics
  <1>1. ImpactInv => WithinStatistics
    BY DEF ImpactInv, WithinStatistics, SoundLevel
  <1> QED
    BY <1>1, ImpactInvariant, PTL

\* The count of a table without the time of an ANALYZE is never trusted,
\* whatever a VACUUM has written into its reltuples.
THEOREM UncountedNeverTrusted == Spec => []UncountedIsUntrusted
  <1>1. Init => UncountedIsUntrusted
    BY DEF Init, UncountedIsUntrusted
  <1>2. ASSUME ImpactInv, UncountedIsUntrusted, [Next]_vars PROVE UncountedIsUntrusted'
    <2> USE <1>2
    <2>1. CASE CountRows
      <3>1. UNCHANGED analysed
        BY <2>1 DEF CountRows, statVars
      <3>2. CASE found' = [found EXCEPT !.rows = 0, !.confidence = 0]
        BY <3>2 DEF UncountedIsUntrusted, ImpactInv, Analysis
      <3>3. CASE Serialisable(Root)
        BY <3>1, <3>3 DEF Serialisable, NeverAnalysed, UncountedIsUntrusted
      <3> QED  BY <2>1, <3>2, <3>3 DEF CountRows
    <2>2. CASE ~CountRows
      <3>1. analysed \subseteq analysed' /\ (pc' # "count" => pc # "count")
        BY <2>2, SMTT(30) DEF Next, Analyze, DetectTriggers, StartTrace, TraceFails, CutOff, Expand, Visit,
           Return, TraceAnswered, CheckSoftDelete, vars, statVars, Tracing
      <3>2. found'.rows = found.rows /\ found'.confidence = found.confidence
        BY <2>2 DEF Next, Analyze, DetectTriggers, StartTrace, TraceFails, CutOff, Expand, Visit,
           Return, TraceAnswered, CheckSoftDelete, vars, ImpactInv, Analysis
      <3> QED  BY <3>1, <3>2, SMTT(30) DEF UncountedIsUntrusted
    <2> QED  BY <2>1, <2>2
  <1> QED
    BY <1>1, <1>2, ImpactInvariant, PTL DEF Spec

=============================================================================
