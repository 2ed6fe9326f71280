-------------------------- MODULE MCImpactAnalysis --------------------------
(***************************************************************************)
(* Schemas of up to MaxKeys foreign keys over four tables, one of which    *)
(* may have two columns.  Chains that part and meet again, circles with    *)
(* and without the root and a reference of a table to itself all occur.    *)
(***************************************************************************)
EXTENDS ImpactAnalysis

CONSTANT MaxKeys

MCTables == 1..4

MCSchemas ==
    LET keys == {<<1, 1, 1>>, <<1, 2, 1>>, <<1, 2, 2>>, <<1, 3, 1>>, <<2, 1, 1>>,
                 <<2, 3, 1>>, <<2, 4, 1>>, <<3, 2, 1>>, <<3, 4, 1>>}
    IN  {S \in SUBSET keys : Cardinality(S) <= MaxKeys}

\* Table 1 may be empty, or have been when it was analysed; its statistics may
\* be too large or too small.
MCCounts == <<{0, 7, 49}, {1}, {7}, {3}>>

MCAnalysed == {MCTables, MCTables \ {1}}

MCStatements == {[changes |-> TRUE, where |-> FALSE],
                 [changes |-> FALSE, where |-> TRUE]}

MCTriggerSets == {{[table |-> 1, calls |-> {"dblink", "pg_net"}],
                   [table |-> 1, calls |-> {"http"}],
                   [table |-> 2, calls |-> {"pg_net"}]}}

=============================================================================
