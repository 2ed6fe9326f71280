--------------------------- MODULE ImpactAnalysis ---------------------------
(***************************************************************************)
(* What the Analyzer finds out about one statement: it asks the            *)
(* postgres-reader server, one call after the other, for the rows the      *)
(* statement touches, the triggers of its table, the tables its deletions  *)
(* cascade to, and a soft-delete column; the server answers with the       *)
(* functions of sql_analysis_lib.  RiskAssessment starts from the numbers; *)
(* this module is about how they come about.                               *)
(*                                                                         *)
(* The server's connection is read-only and in autocommit mode: every      *)
(* query sees the catalogue as it is then, and an ANALYZE may run between  *)
(* any two of them.  Only statistics are read, never the tables: nothing   *)
(* is assumed about how far they are from the truth.  Tables are numbered  *)
(* in the order of their names; confidences are in ten-thousandths.        *)
(***************************************************************************)
EXTENDS Naturals, Sequences, FiniteSets

CONSTANTS
    Tables,        \* numbered tables
    Root,          \* the statement's primary table
    Schemas,       \* foreign keys ON DELETE CASCADE: sets of <<parent, child, column>>
    Counts,        \* what the statistics of a table may say of its size
    Matches,       \* numbers of rows the planner may expect for a condition
    Analysed,      \* sets of tables that have been analysed at first
    Statements,    \* does it change rows, has it a WHERE clause?
    TriggerSets,   \* sets of triggers [table, calls]
    Installed,     \* extensions in pg_extension
    Ages,          \* ages of the statistics, in hours
    MaxDepth       \* max_depth of get_fk_graph (5)

ASSUME ImpactAssumption ==
    /\ Tables \subseteq Nat /\ IsFiniteSet(Tables)
    /\ Root \in Tables
    /\ \A S \in Schemas : S \subseteq Tables \X Tables \X {1, 2}
    /\ Counts \in [Tables -> SUBSET Nat]
    /\ Analysed \subseteq SUBSET Tables
    /\ Statements \subseteq [changes: BOOLEAN, where: BOOLEAN]
    /\ Matches \subseteq Nat /\ Ages \subseteq Nat
    /\ MaxDepth \in Nat

VARIABLES
    fk, trigs,       \* the database: foreign keys and triggers
    stat,            \* reltuples as max(0, ...) reads it
    analysed,        \* the tables with a last_analyze or last_autoanalyze
    steady,          \* history variable: no statistics have changed since the
                     \* trace began
    stmt,            \* the statement
    pc,              \* the Analyzer's next call
    stack,           \* the calls of _trace, innermost first
    levels, flags,   \* what _trace has collected
    found            \* what the contract holds

dbVars    == <<fk, trigs>>
statVars  == <<stat, analysed, steady>>
traceVars == <<stack, levels, flags>>
vars == <<dbVars, statVars, stmt, pc, traceVars, found>>

Confidences == 0..10000

Level == [table: Tables, parent: Tables, rows: Nat, confidence: Confidences, depth: Nat]
Frame == [table: Tables, rows: Nat, confidence: Confidences, depth: Nat,
          path: SUBSET Tables, fresh: BOOLEAN, size: Nat,
          todo: SUBSET (Tables \X {1, 2})]

\* Everything in the contract has its type; the triggers it lists call an
\* extension whose effects no roll-back undoes.
TypeOK ==
    /\ fk \subseteq Tables \X Tables \X {1, 2}
    /\ trigs \in TriggerSets
    /\ stat \in [Tables -> Nat] /\ analysed \subseteq Tables /\ steady \in BOOLEAN
    /\ stmt \in Statements
    /\ pc \in {"count", "triggers", "cascade", "tracing", "soft_delete", "done"}
    /\ \A i \in DOMAIN stack : stack[i] \in Frame
    /\ \A i \in DOMAIN levels : levels[i] \in Level
    /\ flags \in [circular: BOOLEAN, maxDepth: BOOLEAN]
    /\ found.rows \in Nat /\ found.confidence \in Confidences
    /\ found.external \subseteq [table: Tables, extension: {"pg_net", "dblink"}, calls: Nat]
    /\ found.answered \in BOOLEAN
    /\ \A i \in DOMAIN found.cascade : found.cascade[i] \in Level

NoFlags == [circular |-> FALSE, maxDepth |-> FALSE]

\* What the statistics may say.  They may be old, and those of a table that was
\* analysed while it was empty say 0.
Statistics ==
    {s \in [Tables -> UNION {Counts[t] : t \in Tables}] : \A t \in Tables : s[t] \in Counts[t]}

Init ==
    /\ fk \in Schemas /\ trigs \in TriggerSets
    /\ stat \in Statistics /\ analysed \in Analysed /\ steady = TRUE
    /\ stmt \in Statements
    /\ pc = "count"
    /\ stack = <<>> /\ levels = <<>> /\ flags = NoFlags
    /\ found = [rows |-> 0, confidence |-> 0, external |-> {},
                cascade |-> <<>>, answered |-> FALSE]

\* ANALYZE or autovacuum, at any time: the count goes up or down.  A VACUUM sets
\* the count, but not the time of the last ANALYZE.
Analyze(t) ==
    /\ \E n \in Counts[t] : stat' = [stat EXCEPT ![t] = n]
    /\ analysed' \in {analysed, analysed \cup {t}}
    /\ steady' = FALSE
    /\ UNCHANGED <<dbVars, stmt, pc, traceVars, found>>

-----------------------------------------------------------------------------
(* estimate_row_count. *)

\* _compute_confidence, for a table that has been analysed.
Confidence(age) ==
    IF age < 24 THEN 8000
    ELSE IF age < 72 THEN 7000
    ELSE IF age < 168 THEN 6000 ELSE 5000

\* A table that was never analysed has no age, whatever reltuples says.
NeverAnalysed(t) == t \notin analysed

\* Mutation: an infinite age is something JSON can carry.
SerialisableAlways(t) == TRUE

\* The age of statistics that do not exist is math.inf, which the server's
\* JSONResponse refuses: the call fails with status 500.
Serialisable(t) == ~NeverAnalysed(t)

\* estimate_rows: reltuples without a condition; with one the planner's
\* expectation, or reltuples where EXPLAIN fails.
EstimateRows(t, where) ==
    IF where THEN {stat[t]} \cup Matches ELSE {stat[t]}

EstimateConfidence(t) ==
    IF NeverAnalysed(t) THEN {4000} ELSE {Confidence(a) : a \in Ages}

\* _count_affected_rows: without an answer no rows and no confidence.
CountRows ==
    /\ pc = "count"
    /\ pc' = "triggers"
    /\ \/ /\ Serialisable(Root)
          /\ \E n \in EstimateRows(Root, stmt.where), c \in EstimateConfidence(Root) :
               found' = [found EXCEPT !.rows = n, !.confidence = c]
       \/ found' = [found EXCEPT !.rows = 0, !.confidence = 0]
    /\ UNCHANGED <<dbVars, statVars, stmt, traceVars>>

-----------------------------------------------------------------------------
(* list_triggers. *)

NonTransactional == {"pg_net", "dblink"}

\* Mutation: any installed extension that is called will do.
DetectExtensionAny(tr) ==
    LET called == tr.calls \cap Installed
    IN  IF called = {} THEN "none" ELSE CHOOSE e \in called : TRUE

\* _detect_extension: the first extension in the list that is installed and
\* called (pg_net before dblink).
DetectExtension(tr) ==
    LET called == tr.calls \cap NonTransactional \cap Installed
    IN  IF "pg_net" \in called THEN "pg_net"
        ELSE IF "dblink" \in called THEN "dblink" ELSE "none"

\* build_external_triggers and estimate_api_fanout: one call per row.
ExternalTriggers(t, n) ==
    {[table |-> t, extension |-> DetectExtension(tr), calls |-> n] :
        tr \in {tr \in trigs : tr.table = t /\ DetectExtension(tr) # "none"}}

\* _detect_triggers: only the primary table is looked at; without an answer
\* there are no triggers.
DetectTriggers ==
    /\ pc = "triggers"
    /\ pc' = IF stmt.changes THEN "cascade" ELSE "done"
    /\ \E ext \in {ExternalTriggers(Root, found.rows), {}} :
         found' = [found EXCEPT !.external = ext]
    /\ UNCHANGED <<dbVars, statVars, stmt, traceVars>>

-----------------------------------------------------------------------------
(* get_fk_graph: _trace, one step per query of it. *)

\* _get_cascade_children: one row per column of a foreign key.
CascadeChildren(t) == {<<e[2], e[3]>> : e \in {e \in fk : e[1] = t}}

\* The order of the rows.
Before(a, b) == a[1] < b[1] \/ (a[1] = b[1] /\ a[2] <= b[2])

FirstChild(todo) == CHOOSE a \in todo : \A b \in todo : Before(a, b)

\* Mutation: the ratio upside down.
ScaledInverse(n, child, parent) == IF child > 0 THEN {(n * parent) \div child} ELSE {0}

\* int(parent_rows * (child / parent)) in floating point: where the product is
\* an integer and the quotient had to be rounded, it may come out one short.
Scaled(n, child, parent) ==
    IF parent = 0 THEN {0}
    ELSE LET exact == (n * child) \div parent
         IN  {exact} \cup
             (IF child % parent # 0 /\ (n * child) % parent = 0 /\ exact > 0
              THEN {exact - 1} ELSE {})

NewFrame(t, n, conf, depth, path) ==
    [table |-> t, rows |-> n, confidence |-> conf, depth |-> depth, path |-> path,
     fresh |-> TRUE, size |-> 0, todo |-> {}]

\* trace_cascades: condition=None, so the root's estimate is reltuples.
StartTrace ==
    /\ pc = "cascade"
    /\ pc' = "tracing"
    /\ \E c \in EstimateConfidence(Root) :
         stack' = <<NewFrame(Root, stat[Root], c, 1, {Root})>>
    /\ levels' = <<>>
    /\ flags' = NoFlags
    /\ steady' = TRUE
    /\ UNCHANGED <<dbVars, stat, analysed, stmt, found>>

\* _trace_fk_graph: the call fails, and the contract gets an empty list.
TraceFails ==
    /\ pc = "cascade"
    /\ pc' = "soft_delete"
    /\ found' = [found EXCEPT !.cascade = <<>>]
    /\ UNCHANGED <<dbVars, statVars, stmt, traceVars>>

Tracing == pc = "tracing" /\ stack # <<>>

\* Mutation: the limit is not reported.
CutOffSilently ==
    /\ Tracing
    /\ Head(stack).fresh /\ Head(stack).depth > MaxDepth
    /\ stack' = Tail(stack)
    /\ UNCHANGED <<dbVars, statVars, stmt, pc, levels, flags, found>>

\* Too deep: the flag is set whether or not the table has children.
CutOff ==
    /\ Tracing
    /\ Head(stack).fresh /\ Head(stack).depth > MaxDepth
    /\ flags' = [flags EXCEPT !.maxDepth = TRUE]
    /\ stack' = Tail(stack)
    /\ UNCHANGED <<dbVars, statVars, stmt, pc, levels, found>>

\* The children and the parent's reltuples are fetched.
Expand ==
    /\ Tracing
    /\ Head(stack).fresh /\ Head(stack).depth <= MaxDepth
    /\ LET top == Head(stack)
       IN  stack' = <<[top EXCEPT !.fresh = FALSE, !.todo = CascadeChildren(top.table),
                                  !.size = stat[top.table]]>> \o Tail(stack)
    /\ UNCHANGED <<dbVars, statVars, stmt, pc, levels, flags, found>>

\* Mutation: a table is visited once in the whole trace.
OnPathOrListed(t, frame) ==
    t \in frame.path \/ \E i \in DOMAIN levels : levels[i].table = t

\* The circularity test looks at the path from the root only.
OnPath(t, frame) == t \in frame.path

\* One turn of the loop over the children.
Visit ==
    /\ Tracing
    /\ ~Head(stack).fresh /\ Head(stack).todo # {}
    /\ LET top   == Head(stack)
           child == FirstChild(top.todo)
           t     == child[1]
           conf  == (top.confidence * 8) \div 10
           rest  == <<[top EXCEPT !.todo = @ \ {child}]>> \o Tail(stack)
       IN  IF OnPath(t, top)
           THEN /\ flags' = [flags EXCEPT !.circular = TRUE]
                /\ stack' = rest
                /\ UNCHANGED levels
           ELSE \E n \in Scaled(top.rows, stat[t], top.size) :
                /\ levels' = Append(levels, [table |-> t, parent |-> top.table,
                                             rows |-> n, confidence |-> conf,
                                             depth |-> top.depth])
                /\ stack' = <<NewFrame(t, n, conf, top.depth + 1, top.path \cup {t})>>
                            \o rest
                /\ UNCHANGED flags
    /\ UNCHANGED <<dbVars, statVars, stmt, pc, found>>

Return ==
    /\ Tracing
    /\ ~Head(stack).fresh /\ Head(stack).todo = {}
    /\ stack' = Tail(stack)
    /\ UNCHANGED <<dbVars, statVars, stmt, pc, levels, flags, found>>

\* build_cascade_entries takes the levels; the two flags are dropped.
TraceAnswered ==
    /\ pc = "tracing" /\ stack = <<>>
    /\ pc' = "soft_delete"
    /\ found' = [found EXCEPT !.cascade = levels, !.answered = TRUE]
    /\ UNCHANGED <<dbVars, statVars, stmt, traceVars>>

\* check_soft_delete; what follows from it is in RiskAssessment.
CheckSoftDelete ==
    /\ pc = "soft_delete"
    /\ pc' = "done"
    /\ UNCHANGED <<dbVars, statVars, stmt, traceVars, found>>

Next ==
    \/ \E t \in Tables : Analyze(t)
    \/ CountRows \/ DetectTriggers
    \/ StartTrace \/ TraceFails \/ CutOff \/ Expand \/ Visit \/ Return \/ TraceAnswered
    \/ CheckSoftDelete

Spec == Init /\ [][Next]_vars

-----------------------------------------------------------------------------

Edges == {<<e[1], e[2]>> : e \in fk}

\* The tables that a chain of at most n foreign keys leads to.
ReachedWithin[n \in Nat] ==
    IF n = 0 THEN {Root}
    ELSE ReachedWithin[n - 1]
         \cup {t \in Tables : \E s \in ReachedWithin[n - 1] : <<s, t>> \in Edges}

Reachable == ReachedWithin[Cardinality(Tables)]

\* A set of tables each of which has a parent in the set contains a cycle.
HasCycle ==
    \E S \in SUBSET Reachable :
        S # {} /\ \A t \in S : \E s \in S : <<s, t>> \in Edges

Listed == {levels[i].table : i \in DOMAIN levels}

Traced == pc = "tracing" /\ stack = <<>>

\* The trace lists exactly the tables a deletion can cascade to within the
\* depth limit, however chains overlap, part or run in circles.
ListsWhatCascades == Traced => Listed = ReachedWithin[MaxDepth] \ {Root}

\* The flags tell the truth about the schema: a table that is missing is
\* announced by max_depth_reached, has_circular_reference is raised for
\* circles only (not for a table reached on two ways), and a trace without
\* flags is the whole, acyclic cascade.
FlagsTellTheTruth ==
    Traced => /\ Reachable \subseteq Listed \cup {Root} \/ flags.maxDepth
              /\ flags.circular => HasCycle
              /\ ~flags.circular /\ ~flags.maxDepth => ~HasCycle

\* However many ratios were multiplied and cut to integers on the way, and
\* whatever the root was estimated at, no level of a cascade is estimated above
\* what the statistics say of its own table, as long as these stay as they were
\* when the trace began.
WithinStatistics ==
    steady => \A i \in DOMAIN levels : levels[i].rows <= stat[levels[i].table]

\* The count of a table that has never been analysed is not trusted at all: the
\* confidence 0.4 meant for it never arrives, and the tier rules see 0, also
\* where reltuples has a value.
UncountedIsUntrusted ==
    pc # "count" /\ Root \notin analysed => found.rows = 0 /\ found.confidence = 0

=============================================================================
