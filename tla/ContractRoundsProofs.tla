------------------------ MODULE ContractRoundsProofs ------------------------
(***************************************************************************)
(* Theorems about ContractRounds, for any number of operations and rounds, *)
(* any statements and contents of the memory, and whichever calls fail.    *)
(***************************************************************************)
EXTENDS ContractRounds, SequenceTheorems, FiniteSetTheorems, TLAPS

-----------------------------------------------------------------------------
(* The inductive invariants. *)

\* The contract object and the simulation keep their fields.
Shape ==
    /\ DOMAIN contract = {"tables", "retrieval", "precedents", "available", "executed",
                          "timeout", "actual", "gap", "prose", "state", "success"}
    /\ DOMAIN sim = {"pc", "attempt", "available", "executed", "timeout", "counted"}

\* The counts in a contract are those of this round, or it says that there was
\* no simulation.  An operation that is never simulated never has counts: that
\* is why its simulation may count as available.
CountsInv ==
    /\ round \in Nat
    /\ Skipped => contract.actual = 0
    /\ pc = "context" =>
          /\ sim.executed => ~Skipped
          /\ sim.pc = "done" /\ sim.available /\ ~sim.executed => Skipped
    /\ pc \in {"prose", "build"} /\ contract.actual \notin {0, round} =>
          ~contract.available /\ ~contract.executed
    /\ StaleCountsFlagged

\* The prose of a contract that goes into a document is of this round, valid
\* or the fallback's, and the fallback's cites the contract as it stands.
ProseInv ==
    /\ pc = "build" =>
         /\ contract.prose.round = round
         /\ ~Valid(contract.prose.defects) =>
              contract.prose.source = "fallback" /\ stmt.kind = "UNKNOWN"
         /\ contract.prose.source = "fallback" => contract.prose.cites = Cited(contract)
    /\ ProseMatchesDocument

-----------------------------------------------------------------------------

\* What a document takes from the contract.
LEMMA Documents ==
  ASSUME Build
  PROVE  /\ doc'.actual = contract.actual
         /\ doc'.note = SimulationNote(contract)
         /\ doc'.prose = contract.prose
         /\ doc'.simulationUnavailable = ~contract.available
         /\ doc'.retrievalUnavailable = ~contract.retrieval
  BY DEF Build, Document, Section1, Section3, Section4

\* The steps that leave both the contract and the document alone.
TaskStep ==
    \/ SearchMemory \/ FilterCandidates \/ RerankCandidates \/ RetrievalFails
    \/ SkipSimulation \/ Simulate \/ SimulationTimesOut \/ SimulationFails
    \/ LlmFails

\* No step loses a field.
LEMMA ShapeKept ==
  ASSUME Shape, [Next]_vars PROVE Shape'
  <1>1. DOMAIN contract' = DOMAIN contract \/ contract' = NewContract
    <2>1. CASE TaskStep \/ UNCHANGED vars
      BY <2>1 DEF TaskStep, SearchMemory, FilterCandidates, RerankCandidates, RetrievalFails,
         SkipSimulation, Simulate, SimulationTimesOut, SimulationFails, LlmFails, vars
    <2>2. CASE Analyze \/ ApplyResults
      BY <2>2 DEF Analyze, ApplyResults, WithSimulation, WithPrecedents
    <2>3. CASE LlmAnswers \/ FallbackProse \/ Build
      BY <2>3 DEF LlmAnswers, FallbackProse, Build
    <2>4. CASE Modify \/ (\E state \in {"APPROVED", "REJECTED", "TIMED_OUT"} : Settle(state))
               \/ Execute
      BY <2>4 DEF Modify, Settle, Execute
    <2>5. CASE Audit
      BY <2>5 DEF Audit, StartOperation
    <2> QED  BY <2>1, <2>2, <2>3, <2>4, <2>5 DEF Next, TaskStep
  <1>2. DOMAIN sim' = DOMAIN sim \/ DOMAIN sim' = DOMAIN NoSimulation
    <2>1. CASE SkipSimulation \/ Simulate \/ SimulationTimesOut \/ SimulationFails
      BY <2>1 DEF SkipSimulation, Simulate, SimulationTimesOut, SimulationFails
    <2>2. CASE Analyze
      BY <2>2 DEF Analyze
    <2>3. CASE Audit
      BY <2>3 DEF Audit, StartOperation
    <2>4. CASE UNCHANGED sim
      BY <2>4
    <2> QED
      BY <2>1, <2>2, <2>3, <2>4 DEF Next, vars, SearchMemory, FilterCandidates,
         RerankCandidates, RetrievalFails, ApplyResults, LlmAnswers, LlmFails, FallbackProse,
         Build, Modify, Settle, Execute
  <1> QED
    BY <1>1, <1>2 DEF Shape, NewContract, NoSimulation

\* A contract and its simulation keep their fields.
THEOREM FieldsKept == Spec => []Shape
  <1>1. Init => Shape
    BY DEF Init, Shape, NewContract, NoSimulation
  <1> QED
    BY <1>1, ShapeKept, PTL DEF Spec

-----------------------------------------------------------------------------
(* The counts. *)

\* Every step keeps the invariant of the counts: over rounds that measure, that
\* time out and that fail, in any order.
LEMMA CountsKept ==
  ASSUME Shape, CountsInv, [Next]_vars PROVE CountsInv'
  <1> USE DEF CountsInv, Shape
  <1>1. CASE Analyze
    <2>1. /\ pc' = "context" /\ UNCHANGED <<round, stmt>> /\ contract'.actual = contract.actual
          /\ sim'.pc = "run" /\ ~sim'.executed
      BY <1>1 DEF Analyze, opVars, NoSimulation
    <2> QED
      BY <2>1 DEF Skipped, StaleCountsFlagged
  <1>2. CASE SearchMemory \/ FilterCandidates \/ RerankCandidates \/ RetrievalFails
    BY <1>2 DEF SearchMemory, FilterCandidates, RerankCandidates, RetrievalFails, opVars,
       Skipped, StaleCountsFlagged
  <1>3. CASE SkipSimulation
    <2>1. /\ pc = "context" /\ UNCHANGED <<pc, round, stmt, contract, doc>> /\ Skipped
          /\ sim'.executed = sim.executed
      BY <1>3 DEF SkipSimulation, opVars
    <2> QED
      BY <2>1 DEF Skipped, StaleCountsFlagged
  <1>4. CASE Simulate
    <2>1. /\ pc = "context" /\ UNCHANGED <<pc, round, stmt, contract, doc>> /\ ~Skipped
          /\ sim'.executed
      BY <1>4 DEF Simulate, opVars
    <2> QED
      BY <2>1 DEF Skipped, StaleCountsFlagged
  <1>5. CASE SimulationTimesOut
    <2>1. /\ pc = "context" /\ UNCHANGED <<pc, round, stmt, contract, doc>> /\ ~Skipped
          /\ sim'.pc = "run"
      BY <1>5 DEF SimulationTimesOut, opVars
    <2> QED
      BY <2>1 DEF Skipped, StaleCountsFlagged
  <1>6. CASE SimulationFails
    <2>1. /\ pc = "context" /\ UNCHANGED <<pc, round, stmt, contract, doc>> /\ ~Skipped
          /\ ~sim'.executed /\ ~sim'.available
      BY <1>6 DEF SimulationFails, opVars, NoSimulation
    <2> QED
      BY <2>1 DEF Skipped, StaleCountsFlagged
  <1>7. CASE ApplyResults
    <2>1. /\ pc = "context" /\ pc' = "prose" /\ UNCHANGED <<round, stmt, doc>>
          /\ sim.pc = "done"
      BY <1>7 DEF ApplyResults, opVars
    <2>2. /\ contract'.available = sim.available /\ contract'.executed = sim.executed
          /\ contract'.actual = IF ~sim.executed THEN contract.actual
                                ELSE IF sim.counted THEN round ELSE 0
      BY <1>7 DEF ApplyResults, WithSimulation, WithPrecedents
    <2> QED
      BY <2>1, <2>2 DEF Skipped, StaleCountsFlagged
  <1>8. CASE LlmAnswers \/ LlmFails \/ FallbackProse
    <2>1. /\ pc = "prose" /\ pc' \in {"prose", "build"} /\ UNCHANGED <<round, stmt, doc>>
          /\ contract'.actual = contract.actual /\ contract'.available = contract.available
          /\ contract'.executed = contract.executed
      BY <1>8 DEF LlmAnswers, LlmFails, FallbackProse, opVars
    <2> QED
      BY <2>1 DEF Skipped, StaleCountsFlagged
  <1>9. CASE Build
    <2>1. /\ pc = "build" /\ pc' = "review" /\ UNCHANGED <<round, stmt>>
          /\ contract'.actual = contract.actual
      BY <1>9 DEF Build, opVars
    <2>2. /\ doc'.actual = contract.actual /\ doc'.note = SimulationNote(contract)
          /\ doc'.simulationUnavailable = ~contract.available
      BY <1>9, Documents
    <2> QED
      BY <2>1, <2>2 DEF Skipped, SimulationNote, StaleCountsFlagged
  <1>10. CASE Modify
    <2>1. /\ pc' = "analysis" /\ round' = round + 1 /\ UNCHANGED stmt
          /\ contract'.actual = contract.actual
      BY <1>10 DEF Modify
    <2> QED
      BY <2>1 DEF Skipped, StaleCountsFlagged
  <1>11. CASE (\E state \in {"APPROVED", "REJECTED", "TIMED_OUT"} : Settle(state)) \/ Execute
    <2>1. /\ pc' \in {"execution", "audit"} /\ UNCHANGED <<round, stmt>>
          /\ contract'.actual = contract.actual
      BY <1>11 DEF Settle, Execute, opVars
    <2> QED
      BY <2>1 DEF Skipped, StaleCountsFlagged
  <1>12. CASE Audit
    <2>1. \/ pc' = "analysis" /\ round' = 1 /\ contract'.actual = 0
          \/ pc' = "end" /\ UNCHANGED <<round, stmt, contract>>
      BY <1>12 DEF Audit, StartOperation, NewContract, opVars
    <2> QED
      BY <2>1 DEF Skipped, StaleCountsFlagged
  <1>13. CASE UNCHANGED vars
    BY <1>13 DEF vars, opVars, Skipped, StaleCountsFlagged
  <1> QED
    BY <1>1, <1>2, <1>3, <1>4, <1>5, <1>6, <1>7, <1>8, <1>9, <1>10, <1>11, <1>12, <1>13 DEF Next

\* In no round does a reviewer see the row counts of another one unmarked.
THEOREM OldCountsMarked == Spec => []StaleCountsFlagged
  <1>1. Init => CountsInv
    BY DEF Init, CountsInv, NewContract, StaleCountsFlagged
  <1> QED
    BY <1>1, CountsKept, FieldsKept, PTL DEF Spec, CountsInv

-----------------------------------------------------------------------------
(* Sorting and cutting lists. *)

\* The sequence o consists of the entries of s in keep, by falling key.
SortedFrom(o, s, keep, key) ==
    \E at \in [1..Cardinality(keep) -> keep] :
       /\ \A r \in 1..Cardinality(keep) : o[r] = s[at[r]]
       /\ \A i \in keep : \E r \in 1..Cardinality(keep) : at[r] = i
       /\ \A q, r \in 1..Cardinality(keep) : q <= r => key[at[q]] >= key[at[r]]

\* What Ordered promises: the chosen entries, each of them, by falling key.
LEMMA OrderedSorts ==
  ASSUME NEW S, NEW s \in Seq(S), NEW keep \in SUBSET (DOMAIN s), NEW key \in [DOMAIN s -> Int]
  PROVE  /\ Cardinality(keep) \in Nat
         /\ Ordered(s, keep, key) \in Seq(S)
         /\ Len(Ordered(s, keep, key)) = Cardinality(keep)
         /\ SortedFrom(Ordered(s, keep, key), s, keep, key)
  <1> DEFINE N == Cardinality(keep)
             Ahead(i) == {j \in keep : key[j] > key[i] \/ (key[j] = key[i] /\ j < i)}
             rank(i) == Cardinality(Ahead(i))
  <1>1. /\ IsFiniteSet(keep) /\ N \in Nat
        /\ \A i \in keep : i \in Nat /\ i \in DOMAIN s /\ key[i] \in Int
    <2>1. DOMAIN s = 1..Len(s) /\ Len(s) \in Nat
      OBVIOUS
    <2>2. IsFiniteSet(DOMAIN s)
      BY <2>1, FS_Interval
    <2>3. IsFiniteSet(keep)
      BY <2>2, FS_Subset
    <2>4. N \in Nat
      BY <2>3, FS_CardinalityType
    <2> QED  BY <2>1, <2>3, <2>4
  <1> HIDE DEF N
  <1>2. ASSUME NEW i \in keep PROVE Ahead(i) \in SUBSET keep /\ rank(i) \in Nat /\ rank(i) + 1 \in 1..N
    <2>1. Ahead(i) \in SUBSET (keep \ {i})
      BY <1>1
    <2>2. IsFiniteSet(keep \ {i}) /\ Cardinality(keep \ {i}) = N - 1
      BY <1>1, FS_RemoveElement DEF N
    <2> HIDE DEF Ahead
    <2>3. IsFiniteSet(Ahead(i)) /\ rank(i) <= N - 1
      BY <2>1, <2>2, FS_Subset
    <2>4. rank(i) \in Nat
      BY <2>3, FS_CardinalityType
    <2> HIDE DEF rank
    <2> QED  BY <1>1, <2>1, <2>3, <2>4
  <1>3. ASSUME NEW i \in keep, NEW j \in keep, j \in Ahead(i) PROVE rank(j) < rank(i)
    <2>1. Ahead(j) \in SUBSET Ahead(i) /\ j \notin Ahead(j)
      BY <1>1, <1>3
    <2>2. Ahead(j) # Ahead(i)
      BY <1>3, <2>1
    <2>3. IsFiniteSet(Ahead(i))
      <3> HIDE DEF Ahead
      <3> QED  BY <1>1, <1>2, FS_Subset
    <2> HIDE DEF Ahead
    <2>4. rank(j) <= rank(i) /\ rank(j) # rank(i)
      BY <2>1, <2>2, <2>3, FS_Subset
    <2> HIDE DEF rank
    <2> QED  BY <1>2, <2>4
  <1>4. ASSUME NEW i \in keep, NEW j \in keep, rank(i) = rank(j) PROVE i = j
    <2>1. i # j => j \in Ahead(i) \/ i \in Ahead(j)
      BY <1>1
    <2> HIDE DEF Ahead
    <2>2. ~(rank(i) < rank(j)) /\ ~(rank(j) < rank(i))
      <3> HIDE DEF rank
      <3> QED  BY <1>2, <1>4
    <2> HIDE DEF rank
    <2> QED  BY <1>3, <2>1, <2>2
  <1> DEFINE f == [i \in keep |-> rank(i) + 1]
  <1>5. f \in Surjection(keep, 1..N)
    <2> HIDE DEF rank
    <2>1. f \in Injection(keep, 1..N)
      BY <1>2, <1>4, SMTT(30) DEF Injection, IsInjective
    <2>2. IsFiniteSet(1..N) /\ Cardinality(1..N) = N
      BY <1>1, FS_Interval
    <2> HIDE DEF f
    <2>3. Cardinality(keep) = Cardinality(1..N)
      BY <2>2 DEF N
    <2> QED  BY <2>1, <2>2, <2>3, FS_Injection
  <1>6. ASSUME NEW r \in 1..N PROVE \E i \in keep : rank(i) = r - 1
    <2> HIDE DEF rank
    <2>1. PICK i \in keep : f[i] = r
      <3> HIDE DEF f
      <3> QED  BY <1>5 DEF Surjection
    <2>2. rank(i) = r - 1
      BY <1>2, <2>1
    <2> QED  BY <2>2
  <1> DEFINE at == [r \in 1..N |-> CHOOSE i \in keep : rank(i) = r - 1]
             o == Ordered(s, keep, key)
  <1>7. o = [r \in 1..N |-> s[at[r]]]
    BY DEF Ordered, N
  <1>8. ASSUME NEW r \in 1..N PROVE at[r] \in keep /\ rank(at[r]) = r - 1
    <2>1. at[r] = CHOOSE i \in keep : rank(i) = r - 1
      OBVIOUS
    <2> HIDE DEF at, rank
    <2> QED  BY <1>6, <2>1
  <1>9. at \in [1..N -> keep]
    <2> HIDE DEF rank
    <2>1. \A r \in 1..N : (CHOOSE i \in keep : rank(i) = r - 1) \in keep
      BY <1>6
    <2> QED  BY <2>1
  <1> HIDE DEF at, o
  <1>10. ASSUME NEW i \in keep PROVE \E r \in 1..N : at[r] = i
    <2> HIDE DEF rank
    <2>1. rank(i) + 1 \in 1..N /\ rank(at[rank(i) + 1]) = (rank(i) + 1) - 1
      BY <1>2, <1>8
    <2>2. rank(at[rank(i) + 1]) = rank(i) /\ at[rank(i) + 1] \in keep
      BY <1>2, <1>8, <2>1
    <2>3. at[rank(i) + 1] = i
      BY <1>4, <2>2
    <2> QED  BY <2>1, <2>3
  <1>11. ASSUME NEW q \in 1..N, NEW r \in 1..N, q <= r PROVE key[at[q]] >= key[at[r]]
    <2>1. at[q] \in keep /\ at[r] \in keep /\ rank(at[q]) <= rank(at[r])
      <3> HIDE DEF rank
      <3> QED  BY <1>8, <1>11
    <2>2. at[r] \notin Ahead(at[q])
      <3> HIDE DEF Ahead
      <3>1. ~(rank(at[r]) < rank(at[q]))
        <4>1. rank(at[r]) \in Nat /\ rank(at[q]) \in Nat
          BY <1>2, <2>1
        <4> HIDE DEF rank
        <4> QED  BY <2>1, <4>1
      <3> HIDE DEF rank
      <3> QED  BY <1>3, <2>1, <3>1
    <2> QED  BY <1>1, <2>1, <2>2
  <1>12. o \in Seq(S) /\ Len(o) = N
    <2>1. \A r \in 1..N : s[at[r]] \in S
      BY <1>1, <1>9
    <2> QED  BY <1>1, <1>7, <2>1
  <1>13. \A r \in 1..N : o[r] = s[at[r]]
    BY <1>7
  <1> QED
    BY <1>1, <1>9, <1>10, <1>11, <1>12, <1>13 DEF N, o, SortedFrom

LEMMA OrderedRange ==
  ASSUME NEW S, NEW s \in Seq(S), NEW keep \in SUBSET (DOMAIN s), NEW key \in [DOMAIN s -> Int]
  PROVE  Range(Ordered(s, keep, key)) = {s[i] : i \in keep}
  <1> DEFINE o == Ordered(s, keep, key)
             N == Cardinality(keep)
  <1>1. o \in Seq(S) /\ Len(o) = N /\ SortedFrom(o, s, keep, key)
    BY OrderedSorts
  <1> HIDE DEF o
  <1>2. PICK at \in [1..N -> keep] : /\ \A r \in 1..N : o[r] = s[at[r]]
                                     /\ \A i \in keep : \E r \in 1..N : at[r] = i
    BY <1>1 DEF SortedFrom
  <1> HIDE DEF N
  <1>3. DOMAIN o = 1..N
    BY <1>1
  <1>4. Range(o) = {s[i] : i \in keep}
    BY <1>2, <1>3, SMTT(30) DEF Range
  <1> QED
    BY <1>4 DEF o

\* The list t is s, cut after n entries.
CutTo(t, s, n) ==
    /\ Len(t) <= n
    /\ Len(s) <= n => t = s
    /\ Len(s) > n => Len(t) = n
    /\ \A i \in 1..Len(t) : t[i] = s[i]
    /\ Range(t) \subseteq Range(s)
    /\ t = <<>> /\ n # 0 => s = <<>>

\* What FirstN promises.
LEMMA FirstNCuts ==
  ASSUME NEW S, NEW s \in Seq(S), NEW n \in Nat
  PROVE  FirstN(s, n) \in Seq(S) /\ CutTo(FirstN(s, n), s, n)
  <1> DEFINE m == IF Len(s) < n THEN Len(s) ELSE n
             t == FirstN(s, n)
  <1>1. m \in Nat /\ m <= Len(s) /\ m <= n /\ (Len(s) <= n => m = Len(s)) /\ (Len(s) > n => m = n)
        /\ Len(s) \in Nat
    OBVIOUS
  <1> HIDE DEF m
  <1>2. t = [i \in 1..m |-> s[i]]
    <2>1. t = SubSeq(s, 1, m)
      BY DEF FirstN, m
    <2>2. SubSeq(s, 1, m) = [i \in 1..m |-> s[i]]
      BY <1>1
    <2> QED  BY <2>1, <2>2
  <1> HIDE DEF t
  <1>3. t \in Seq(S) /\ Len(t) = m /\ DOMAIN t = 1..m
    BY <1>1, <1>2
  <1>4. \A i \in 1..m : t[i] = s[i]
    BY <1>2
  <1>5. Len(s) <= n => t = s
    BY <1>1, <1>3, <1>4
  <1>6. Range(t) \subseteq Range(s)
    BY <1>1, <1>3, <1>4 DEF Range
  <1>7. t = <<>> /\ n # 0 => s = <<>>
    BY <1>1, <1>3
  <1> QED
    BY <1>1, <1>3, <1>4, <1>5, <1>6, <1>7 DEF t, CutTo

-----------------------------------------------------------------------------
(* Types. *)

Contract ==
    [tables: SUBSET Tables, retrieval: BOOLEAN, precedents: Seq(Precedent),
     available: BOOLEAN, executed: BOOLEAN, timeout: BOOLEAN, actual: Nat,
     gap: BOOLEAN, prose: Prose,
     state: {"PENDING", "APPROVED", "REJECTED", "MODIFIED", "TIMED_OUT"},
     success: BOOLEAN]

Retrieval ==
    [pc: {"search", "filter", "rerank", "done"}, mode: {"none", "vector", "text", "recent"},
     found: Seq(Precedent), ok: BOOLEAN]

Simulation ==
    [pc: {"run", "done"}, attempt: 0..2, available: BOOLEAN, executed: BOOLEAN,
     timeout: BOOLEAN, counted: BOOLEAN]

\* TypeOK with the lists and records; counts are not of a later round, and a
\* simulation under way has an attempt left.
RoundsInv ==
    /\ pc \in {"analysis", "context", "prose", "build", "review", "execution",
               "audit", "end"}
    /\ op \in 1..MaxOps /\ stmt \in Statements /\ round \in 1..MaxRounds
    /\ attempt \in 0..2
    /\ contract \in Contract /\ contract.actual <= round
    /\ ret \in Retrieval
    /\ sim \in Simulation /\ (sim.pc = "run" => sim.attempt < 2)
    /\ doc.precedents \in Seq(Precedent) /\ Len(doc.precedents) <= 3
    /\ memory \in Seq(Precedent)

-----------------------------------------------------------------------------
(* Precedents. *)

\* The entries the vector search can see, and those on enough of the same
\* tables.
Seen == {e \in Range(memory) : e.own /\ e.embedded}
Relevant == {e \in Seen : Overlaps(contract.tables, e.tables)}

\* The search by embedding dropped nothing.
SearchedAll == ret.mode = "vector" /\ Cardinality(Hits("vector")) <= TopK

Rejections(entries) == {e \in entries : e.outcome = "REJECTED"}

\* A list of precedents does justice to the warnings: it shows them all, or
\* nothing else, and none only if there are none.
Shows(precedents, warnings) ==
    /\ warnings \subseteq Range(precedents) \/ Range(precedents) \subseteq warnings
    /\ HasRejected(precedents) <=> warnings # {}

\* Where the retrieval stands determines what it has found; the contract and
\* the document have it from there.
PrecedentsInv ==
    /\ pc = "context" =>
         /\ ret.pc = "filter" /\ SearchedAll => Range(ret.found) = Seen
         /\ ret.pc = "rerank" /\ SearchedAll => Range(ret.found) = Relevant
         /\ ret.pc = "done" /\ ret.ok =>
              Len(ret.found) <= 3 /\ (SearchedAll => Shows(ret.found, Warnings))
    /\ pc \in {"prose", "build"} =>
         /\ contract.retrieval <=> ret.ok
         /\ ~ret.ok => contract.precedents = <<>>
         /\ ret.ok => /\ Len(contract.precedents) <= 3
                      /\ SearchedAll => Shows(contract.precedents, Warnings)
    /\ RejectedPrecedentShown

-----------------------------------------------------------------------------
(* The three stages of the retrieval. *)

\* The fields of a precedent.
LEMMA PrecedentFields ==
  ASSUME NEW e \in Precedent
  PROVE  /\ e.similarity \in Int /\ e.similarity <= 100
         /\ e.outcome \in Outcomes /\ e.delta \in BOOLEAN /\ e.tables \in SUBSET Tables
  <1>1. e.similarity \in -100..100 /\ e.outcome \in Outcomes /\ e.delta \in BOOLEAN
        /\ e.tables \in SUBSET Tables
    BY DEF Precedent
  <1> QED
    BY <1>1

\* The search returns entries of the memory; all it can see if they fit.
LEMMA SearchFinds ==
  ASSUME memory \in Seq(Precedent), NEW mode
  PROVE  /\ Search(mode) \in Seq(Precedent)
         /\ mode = "vector" /\ Cardinality(Hits("vector")) <= TopK => Range(Search(mode)) = Seen
  <1> DEFINE key == [i \in DOMAIN memory |-> IF mode = "vector" THEN memory[i].similarity ELSE 0]
             all == Ordered(memory, Hits(mode), key)
  <1>1. key \in [DOMAIN memory -> Int] /\ Hits(mode) \in SUBSET (DOMAIN memory)
    <2>1. \A i \in DOMAIN memory : memory[i] \in Precedent
      OBVIOUS
    <2>2. \A i \in DOMAIN memory : memory[i].similarity \in Int
      BY <2>1, PrecedentFields
    <2> QED  BY <2>2 DEF Hits
  <1>2. TopK \in Nat
    BY RoundsAssumption
  <1>3. Search(mode) = FirstN(all, TopK)
    BY DEF Search
  <1> HIDE DEF key
  <1>4. all \in Seq(Precedent) /\ Len(all) = Cardinality(Hits(mode))
    BY <1>1, OrderedSorts
  <1>5. Range(all) = {memory[i] : i \in Hits(mode)}
    BY <1>1, OrderedRange
  <1> HIDE DEF all
  <1>6. Search(mode) \in Seq(Precedent) /\ (Len(all) <= TopK => Search(mode) = all)
    BY <1>2, <1>3, <1>4, FirstNCuts DEF CutTo
  <1>7. {memory[i] : i \in Hits("vector")} = Seen
    BY DEF Hits, Seen, Range
  <1> QED
    BY <1>4, <1>5, <1>6, <1>7

\* Jaccard indices of finite sets are numbers.
LEMMA JaccardType ==
  ASSUME NEW a \in SUBSET Tables, NEW b \in SUBSET Tables PROVE Jaccard(a, b) \in Int
  <1>1. IsFiniteSet(a) /\ IsFiniteSet(b)
    BY RoundsAssumption, FS_Subset
  <1>2. IsFiniteSet(a \cup b)
    BY <1>1, FS_Union
  <1>3. Cardinality(a \cup b) \in Nat
    BY <1>2, FS_CardinalityType
  <1>4. Cardinality(a \cap b) \in Nat
    BY <1>1, FS_Subset, FS_CardinalityType
  <1>5. CASE a \cup b = {}
    BY <1>5, SMT DEF Jaccard
  <1>6. CASE a \cup b # {}
    <2>1. Cardinality(a \cup b) # 0
      BY <1>2, <1>6, FS_EmptySet
    <2> DEFINE n == Cardinality(a \cup b)
               c == 20000 * Cardinality(a \cap b) + n
    <2>2. c \in Nat /\ 2 * n \in Nat \ {0}
      BY <1>3, <1>4, <2>1, SMT
    <2>3. Jaccard(a, b) = c \div (2 * n)
      BY <1>6, SMT DEF Jaccard
    <2> HIDE DEF c, n
    <2>4. c \div (2 * n) \in Int
      BY <2>2
    <2> QED  BY <2>3, <2>4
  <1> QED
    BY <1>5, <1>6

\* The filter keeps the candidates on enough of the same tables.
LEMMA FilterKeepsOverlaps ==
  ASSUME NEW cands \in Seq(Precedent), NEW tables \in SUBSET Tables
  PROVE  /\ FilterByTableOverlap(cands, tables) \in Seq(Precedent)
         /\ Range(FilterByTableOverlap(cands, tables))
              = {e \in Range(cands) : Overlaps(tables, e.tables)}
  <1> DEFINE keep == {i \in DOMAIN cands : Overlaps(tables, cands[i].tables)}
             key == [i \in DOMAIN cands |-> Jaccard(tables, cands[i].tables)]
  <1>1. key \in [DOMAIN cands -> Int]
    <2>1. ASSUME NEW i \in DOMAIN cands PROVE Jaccard(tables, cands[i].tables) \in Int
      <3>1. cands[i].tables \in SUBSET Tables
        <4>1. cands[i] \in Precedent
          OBVIOUS
        <4> QED  BY <4>1, PrecedentFields
      <3> QED  BY <3>1, JaccardType
    <2> QED  BY <2>1
  <1>2. keep \in SUBSET (DOMAIN cands)
    OBVIOUS
  <1>3. FilterByTableOverlap(cands, tables) = Ordered(cands, keep, key)
    BY DEF FilterByTableOverlap
  <1>4. {cands[i] : i \in keep} = {e \in Range(cands) : Overlaps(tables, e.tables)}
    BY DEF Range
  <1> HIDE DEF keep, key
  <1>5. Ordered(cands, keep, key) \in Seq(Precedent)
    BY <1>1, <1>2, OrderedSorts
  <1>6. Range(Ordered(cands, keep, key)) = {cands[i] : i \in keep}
    BY <1>1, <1>2, OrderedRange
  <1> QED
    BY <1>3, <1>4, <1>5, <1>6

\* A rejection scores higher than anything else.
LEMMA RejectedScores ==
  ASSUME NEW e \in Precedent
  PROVE  /\ RerankScore(e) \in Int /\ RerankScore(e) <= 1000
         /\ RerankScore(e) = 1000 <=> e.outcome = "REJECTED"
  BY PrecedentFields, SMT DEF RerankScore, Outcomes

\* The first three by score show every rejection among the candidates, or
\* rejections only.
LEMMA RerankShows ==
  ASSUME NEW cands \in Seq(Precedent)
  PROVE  /\ RerankByOutcome(cands) \in Seq(Precedent) /\ Len(RerankByOutcome(cands)) <= 3
         /\ Shows(RerankByOutcome(cands), Rejections(Range(cands)))
  <1> DEFINE W == Rejections(Range(cands))
             key == [i \in DOMAIN cands |-> RerankScore(cands[i])]
             o == Ordered(cands, DOMAIN cands, key)
             r == RerankByOutcome(cands)
             N == Cardinality(DOMAIN cands)
  <1>1. \A i \in DOMAIN cands : cands[i] \in Precedent
    OBVIOUS
  <1>2. key \in [DOMAIN cands -> Int]
    BY <1>1, RejectedScores
  <1>3. r = FirstN(o, 3)
    BY DEF RerankByOutcome
  <1>4. DOMAIN cands \in SUBSET (DOMAIN cands) /\ {cands[i] : i \in DOMAIN cands} = Range(cands)
    BY DEF Range
  <1>5. \A i \in DOMAIN cands : key[i] = RerankScore(cands[i])
    OBVIOUS
  <1> HIDE DEF key
  <1>6. N \in Nat /\ o \in Seq(Precedent) /\ Len(o) = N /\ SortedFrom(o, cands, DOMAIN cands, key)
    BY <1>2, <1>4, OrderedSorts
  <1>7. Range(o) = Range(cands)
    BY <1>2, <1>4, OrderedRange
  <1> HIDE DEF o, r
  <1>8. PICK at \in [1..N -> DOMAIN cands] :
          /\ \A a \in 1..N : o[a] = cands[at[a]]
          /\ \A a, b \in 1..N : a <= b => key[at[a]] >= key[at[b]]
    BY <1>6 DEF SortedFrom
  <1> HIDE DEF N
  <1>9. \A a \in 1..N : o[a] \in Precedent /\ key[at[a]] = RerankScore(o[a])
    BY <1>1, <1>5, <1>8
  <1>10. ASSUME NEW a \in 1..N, NEW b \in 1..N, a <= b, o[b].outcome = "REJECTED"
         PROVE  o[a].outcome = "REJECTED"
    <2>1. RerankScore(o[a]) >= RerankScore(o[b])
      BY <1>8, <1>9, <1>10
    <2>2. /\ RerankScore(o[b]) = 1000
          /\ RerankScore(o[a]) \in Int /\ RerankScore(o[a]) <= 1000
          /\ RerankScore(o[a]) = 1000 => o[a].outcome = "REJECTED"
      BY <1>9, <1>10, RejectedScores
    <2> QED  BY <2>1, <2>2, SMT
  <1>11. /\ r \in Seq(Precedent) /\ Len(r) <= 3 /\ (Len(o) <= 3 => r = o)
         /\ (Len(o) > 3 => Len(r) = 3) /\ (\A i \in 1..Len(r) : r[i] = o[i])
         /\ Range(r) \subseteq Range(o)
    <2>1. o \in Seq(Precedent) /\ 3 \in Nat
      BY <1>6
    <2>2. FirstN(o, 3) \in Seq(Precedent) /\ CutTo(FirstN(o, 3), o, 3)
      BY <2>1, FirstNCuts
    <2>3. r \in Seq(Precedent) /\ CutTo(r, o, 3)
      BY <1>3, <2>2
    <2> QED  BY <2>3 DEF CutTo
  <1>12. DOMAIN r = 1..Len(r) /\ DOMAIN o = 1..N
    BY <1>6, <1>11
  <1>13. HasRejected(r) <=> \E e \in Range(r) : e.outcome = "REJECTED"
    BY DEF HasRejected, Range
  <1>14. CASE Len(o) <= 3
    <2>1. Range(r) = Range(cands)
      BY <1>7, <1>11, <1>14
    <2> QED  BY <1>11, <1>13, <2>1 DEF Shows, Rejections, r
  <1>15. CASE Len(o) > 3
    <2>1. Len(r) = 3 /\ 3 \in 1..N /\ N > 3 /\ r[3] = o[3] /\ r[3] \in Range(r)
      BY <1>6, <1>11, <1>12, <1>15 DEF Range
    <2>2. CASE o[3].outcome = "REJECTED"
      <3>1. \A i \in 1..3 : r[i] = o[i] /\ o[i].outcome = "REJECTED" /\ i \in 1..N
        BY <1>6, <1>10, <1>11, <2>1, <2>2
      <3>2. Range(r) \subseteq W
        <4>1. ASSUME NEW e \in Range(r) PROVE e \in W
          <5>1. PICK i \in 1..3 : e = r[i]
            BY <1>12, <2>1 DEF Range
          <5>2. e.outcome = "REJECTED"
            BY <3>1, <5>1
          <5> QED  BY <1>7, <1>11, <5>2 DEF Rejections
        <4> QED  BY <4>1
      <3> QED  BY <1>11, <1>13, <2>1, <3>2 DEF Shows, Rejections, r
    <2>3. CASE o[3].outcome # "REJECTED"
      <3>1. ASSUME NEW e \in W PROVE e \in Range(r)
        <4>1. PICK b \in 1..N : e = o[b]
          BY <1>7, <1>12 DEF Range, Rejections
        <4>2. b < 3
          <5>1. 3 <= b => o[3].outcome = "REJECTED"
            BY <1>10, <2>1, <4>1 DEF Rejections
          <5> QED  BY <1>6, <2>3, <4>1, <5>1
        <4>3. b \in DOMAIN r /\ r[b] = o[b]
          BY <1>6, <1>11, <1>12, <2>1, <4>2
        <4> QED  BY <4>1, <4>3 DEF Range
      <3>2. W \subseteq Range(r) /\ Range(r) \subseteq Range(cands)
        BY <1>7, <1>11, <3>1
      <3> QED  BY <1>11, <1>13, <3>2 DEF Shows, Rejections, r
    <2> QED  BY <2>2, <2>3
  <1> QED
    BY <1>6, <1>14, <1>15

-----------------------------------------------------------------------------
(* Every variable keeps its type. *)

\* What the document takes from the contract on precedents.
LEMMA DocumentPrecedents ==
  ASSUME Build
  PROVE  /\ doc'.precedents = FirstN(contract.precedents, 3)
         /\ doc'.containsRejected = HasRejected(doc'.precedents)
         /\ doc'.rejectionWarning = HasRejected(contract.precedents)
         /\ doc'.retrievalUnavailable = ~contract.retrieval
  BY DEF Build, Document, Section1, Section3, Section4

\* The steps of the retrieval.
LEMMA RetrievalTypes ==
  ASSUME RoundsInv, SearchMemory \/ FilterCandidates \/ RerankCandidates \/ RetrievalFails
  PROVE  ret' \in Retrieval
  <1> USE DEF Retrieval
  <1>0. memory \in Seq(Precedent) /\ ret \in Retrieval /\ ret.found \in Seq(Precedent)
        /\ contract.tables \in SUBSET Tables
    BY DEF RoundsInv, Contract
  <1>1. CASE SearchMemory
    <2>1. PICK mode \in {"vector", "text", "recent"} :
            ret' = [pc |-> IF Search(mode) = <<>> THEN "done" ELSE "filter",
                    mode |-> mode, found |-> Search(mode), ok |-> Search(mode) = <<>>]
      BY <1>1 DEF SearchMemory
    <2>2. Search(mode) \in Seq(Precedent)
      BY <1>0, SearchFinds
    <2> QED  BY <2>1, <2>2
  <1>2. CASE FilterCandidates
    <2> DEFINE kept == FilterByTableOverlap(ret.found, contract.tables)
    <2>1. kept \in Seq(Precedent)
      BY <1>0, FilterKeepsOverlaps
    <2>2. ret' = [ret EXCEPT !.pc = IF kept = <<>> THEN "done" ELSE "rerank",
                             !.found = kept, !.ok = kept = <<>>]
      BY <1>2 DEF FilterCandidates
    <2> HIDE DEF kept
    <2> QED  BY <1>0, <2>1, <2>2
  <1>3. CASE RerankCandidates
    <2>1. RerankByOutcome(ret.found) \in Seq(Precedent)
      BY <1>0, RerankShows
    <2> QED  BY <1>0, <1>3, <2>1 DEF RerankCandidates
  <1>4. CASE RetrievalFails
    <2>1. <<>> \in Seq(Precedent)
      OBVIOUS
    <2> QED  BY <1>4, <2>1 DEF RetrievalFails, Idle
  <1> QED
    BY <1>1, <1>2, <1>3, <1>4

\* The row AUDIT writes is one the table takes.
LEMMA EntryType ==
  ASSUME RoundsInv, NEW outcome, StoreAccepted(outcome) PROVE Entry(outcome) \in Precedent
  <1>1. op \in Nat /\ contract.tables \in SUBSET Tables /\ outcome \in Outcomes
    BY RoundsAssumption DEF RoundsInv, Contract, StoreAccepted
  <1>2. 100 \in -100..100
    BY SMT
  <1> QED
    BY <1>1, <1>2, SMT DEF Entry, Precedent

\* What every operation starts with.
LEMMA FreshTypes ==
  /\ NewContract \in Contract /\ NewContract.actual = 0 /\ Idle \in Retrieval
  /\ NoSimulation \in Simulation /\ NoSimulation.pc = "done"
  /\ NoDocument.precedents = <<>> /\ <<>> \in Seq(Precedent)
  <1>1. <<>> \in Seq(Precedent) /\ MaxRounds \in Nat
    BY RoundsAssumption
  <1>2. NoProse \in Prose
    BY <1>1 DEF NoProse, Prose, NoCitation, Citations
  <1>3. NewContract \in Contract /\ NewContract.actual = 0
    BY <1>1, <1>2 DEF NewContract, Contract
  <1> QED
    BY <1>1, <1>3 DEF Idle, Retrieval, NoSimulation, Simulation, NoDocument

\* The fallback's text.
LEMMA FallbackTyped ==
  ASSUME contract \in Contract, round \in 1..MaxRounds, MaxRounds \in Nat
  PROVE  FallbackText(contract) \in Prose
  <1>1. contract.precedents \in Seq(Precedent) /\ contract.actual \in Nat
    BY DEF Contract
  <1>2. Named(contract.precedents) \in SUBSET Nat
    <2>1. \A i \in DOMAIN contract.precedents : contract.precedents[i].id \in Nat
      <3>1. \A i \in DOMAIN contract.precedents : contract.precedents[i] \in Precedent
        BY <1>1
      <3> QED  BY <3>1 DEF Precedent
    <2> QED  BY <2>1 DEF Named
  <1> DEFINE h == Cited(contract).history
             n == Cited(contract).named
  <1>3. /\ h \in {"unavailable", "none", "rejected", "others"} /\ n \in SUBSET Nat
        /\ Cited(contract) = [actual |-> contract.actual, history |-> h, named |-> n]
    BY <1>2 DEF Cited
  <1> HIDE DEF h, n
  <1>4. Cited(contract) \in Citations
    BY <1>1, <1>3 DEF Citations
  <1>5. FallbackDefects \in SUBSET Defects /\ round \in 0..MaxRounds
    BY DEF FallbackDefects, Defects
  <1> QED
    BY <1>4, <1>5 DEF FallbackText, Prose

\* Every step keeps every variable in its type.
LEMMA RoundsKept ==
  ASSUME RoundsInv, [Next]_vars PROVE RoundsInv'
  <1> USE DEF RoundsInv
  <1>0. MaxRounds \in Nat /\ MaxOps \in Nat /\ round \in Nat /\ contract.actual \in Nat
    BY RoundsAssumption DEF Contract
  <1>1. CASE Analyze
    <2>1. PICK children \in IF stmt.kind = "DELETE" THEN {stmt.cascade, {}} ELSE {{}} :
            contract' = [contract EXCEPT !.tables = stmt.primary \cup children]
      BY <1>1 DEF Analyze
    <2>2. stmt.primary \cup children \in SUBSET Tables
      <3>1. stmt \in [kind: {"DELETE", "INSERT", "SELECT", "DDL", "UNKNOWN"},
                      primary: SUBSET Tables, cascade: SUBSET Tables]
        BY RoundsAssumption
      <3> QED  BY <2>1, <3>1
    <2>3. contract' \in Contract /\ contract'.actual = contract.actual
      BY <2>1, <2>2 DEF Contract
    <2>4. /\ ret' \in Retrieval
          /\ sim' \in Simulation /\ sim'.attempt = 0
      BY <1>1, FreshTypes DEF Analyze, Idle, Retrieval, NoSimulation, Simulation
    <2> QED
      BY <1>1, <2>3, <2>4 DEF Analyze, opVars
  <1>2. CASE SearchMemory \/ FilterCandidates \/ RerankCandidates \/ RetrievalFails
    <2>1. ret' \in Retrieval
      BY <1>2, RetrievalTypes
    <2> QED
      BY <1>2, <2>1 DEF SearchMemory, FilterCandidates, RerankCandidates, RetrievalFails, opVars
  <1>3. CASE SkipSimulation \/ Simulate \/ SimulationTimesOut \/ SimulationFails
    <2>0. sim \in Simulation /\ sim.attempt \in 0..2 /\ (sim.pc = "run" => sim.attempt < 2)
      BY DEF Simulation
    <2>1. sim.pc = "run" /\ sim.attempt \in 0..1
      <3>1. sim.pc = "run"
        BY <1>3 DEF SkipSimulation, Simulate, SimulationTimesOut, SimulationFails
      <3> QED  BY <2>0, <3>1
    <2>2. sim' \in Simulation /\ (sim'.pc = "run" => sim'.attempt < 2)
      <3>1. CASE SkipSimulation
        BY <2>0, <3>1 DEF SkipSimulation, Simulation
      <3>2. CASE Simulate
        BY <2>0, <3>2 DEF Simulate, Simulation
      <3>3. CASE SimulationTimesOut
        <4>1. sim' = [sim EXCEPT !.attempt = 1] /\ 1 \in 0..2
          BY <3>3 DEF SimulationTimesOut
        <4>2. sim' \in Simulation /\ sim'.attempt = 1
          BY <2>0, <4>1 DEF Simulation
        <4> QED  BY <4>2
      <3>4. CASE SimulationFails
        <4>1. sim' = [NoSimulation EXCEPT !.attempt = sim.attempt + 1, !.timeout = TRUE]
          BY <3>4 DEF SimulationFails
        <4>2. sim.attempt + 1 \in 0..2
          BY <2>1
        <4>3. sim' \in Simulation /\ sim'.pc = "done"
          BY <4>1, <4>2, FreshTypes DEF Simulation
        <4> QED  BY <4>3
      <3> QED  BY <1>3, <3>1, <3>2, <3>3, <3>4
    <2> QED
      BY <1>3, <2>2 DEF SkipSimulation, Simulate, SimulationTimesOut, SimulationFails, opVars
  <1>4. CASE ApplyResults
    <2>1. /\ contract' = WithSimulation(WithPrecedents(contract)) /\ pc' = "prose" /\ attempt' = 0
          /\ UNCHANGED <<op, stmt, round, ret, sim, doc, memory>>
      BY <1>4 DEF ApplyResults, opVars
    <2>2. WithPrecedents(contract) \in Contract
          /\ WithPrecedents(contract).actual = contract.actual
      BY FreshTypes DEF WithPrecedents, Contract, Retrieval
    <2>3. ASSUME NEW c \in Contract, c.actual <= round
          PROVE  WithSimulation(c) \in Contract /\ WithSimulation(c).actual <= round
      <3> DEFINE n == IF ~sim.executed THEN c.actual ELSE IF sim.counted THEN round ELSE 0
                 g == c.gap \/ (stmt.kind = "INSERT" /\ sim.executed)
      <3>1. n \in Nat /\ n <= round /\ g \in BOOLEAN
        BY <1>0, <2>3 DEF Contract
      <3>2. WithSimulation(c)
              = [c EXCEPT !.available = sim.available, !.executed = sim.executed,
                          !.timeout = sim.timeout, !.actual = n, !.gap = g]
        BY DEF WithSimulation
      <3>3. sim.available \in BOOLEAN /\ sim.executed \in BOOLEAN /\ sim.timeout \in BOOLEAN
        BY DEF Simulation
      <3> HIDE DEF n, g
      <3>4. WithSimulation(c) \in Contract /\ WithSimulation(c).actual = n
        BY <3>1, <3>2, <3>3 DEF Contract
      <3> QED  BY <3>1, <3>4
    <2> QED
      BY <2>1, <2>2, <2>3
  <1>5. CASE LlmAnswers
    <2>1. PICK defects \in SUBSET Defects :
            IF Valid(defects)
            THEN /\ pc' = "build"
                 /\ contract' = [contract EXCEPT !.prose = [source |-> "llm",
                                     defects |-> defects, round |-> round,
                                     cites |-> NoCitation]]
            ELSE UNCHANGED <<pc, contract>>
      BY <1>5 DEF LlmAnswers
    <2>2. [source |-> "llm", defects |-> defects, round |-> round, cites |-> NoCitation] \in Prose
      BY <1>0 DEF Prose, NoCitation, Citations
    <2>3. /\ contract' \in Contract /\ contract'.actual = contract.actual
          /\ pc' \in {pc, "build"}
      BY <2>1, <2>2 DEF Contract
    <2> QED
      BY <1>5, <2>3 DEF LlmAnswers, opVars
  <1>6. CASE LlmFails
    BY <1>6 DEF LlmFails, opVars
  <1>7. CASE FallbackProse
    <2>1. FallbackText(contract) \in Prose
      BY <1>0, FallbackTyped
    <2>2. contract' \in Contract /\ contract'.actual = contract.actual
      BY <1>7, <2>1 DEF Contract, FallbackProse
    <2> QED
      BY <1>7, <2>2 DEF FallbackProse, opVars
  <1>8. CASE Build
    <2>1. contract.precedents \in Seq(Precedent) /\ 3 \in Nat
      BY DEF Contract
    <2>2. FirstN(contract.precedents, 3) \in Seq(Precedent)
          /\ CutTo(FirstN(contract.precedents, 3), contract.precedents, 3)
      BY <2>1, FirstNCuts
    <2>3. doc'.precedents \in Seq(Precedent) /\ Len(doc'.precedents) <= 3
      BY <1>8, <2>2, DocumentPrecedents DEF CutTo
    <2>4. contract' \in Contract /\ contract'.actual = contract.actual
      BY <1>8 DEF Contract, Build
    <2> QED
      BY <1>8, <2>3, <2>4 DEF Build, opVars
  <1>9. CASE Modify
    <2>1. contract' \in Contract /\ contract'.actual = contract.actual
      BY <1>9 DEF Contract, Modify
    <2> QED
      BY <1>0, <1>9, <2>1 DEF Modify
  <1>10. CASE \E state \in {"APPROVED", "REJECTED", "TIMED_OUT"} : Settle(state)
    <2>1. contract' \in Contract /\ contract'.actual = contract.actual
      BY <1>10 DEF Contract, Settle
    <2> QED
      BY <1>10, <2>1 DEF Settle, opVars
  <1>11. CASE Execute
    <2>1. contract' \in Contract /\ contract'.actual = contract.actual
      BY <1>11 DEF Contract, Execute
    <2> QED
      BY <1>11, <2>1 DEF Execute, opVars
  <1>12. CASE Audit
    <2>1. memory' \in Seq(Precedent)
      <3> DEFINE outcome == DetermineOutcome(contract)
      <3>1. \/ memory' = memory
            \/ StoreAccepted(outcome) /\ memory' = <<Entry(outcome)>> \o memory
        BY <1>12 DEF Audit
      <3> HIDE DEF outcome
      <3>2. StoreAccepted(outcome) => Entry(outcome) \in Precedent
        BY EntryType
      <3> QED  BY <3>1, <3>2
    <2>2. CASE pc' = "end" /\ UNCHANGED <<opVars, contract, ret, sim, attempt, doc>>
      BY <2>1, <2>2 DEF opVars
    <2>3. CASE op < MaxOps /\ op' = op + 1 /\ \E s \in Statements : StartOperation(s)
      <3>1. /\ pc' = "analysis" /\ stmt' \in Statements /\ round' = 1 /\ attempt' = 0
            /\ contract' = NewContract /\ ret' = Idle /\ sim' = NoSimulation
            /\ doc' = NoDocument
        BY <2>3 DEF StartOperation
      <3>2. op' \in 1..MaxOps /\ 1 \in 1..MaxRounds /\ Len(<<>>) = 0
        BY <1>0, <2>3, RoundsAssumption
      <3> QED  BY <2>1, <3>1, <3>2, FreshTypes
    <2> QED
      BY <1>12, <2>2, <2>3 DEF Audit
  <1>13. CASE UNCHANGED vars
    BY <1>13 DEF vars, opVars
  <1> QED
    BY <1>1, <1>2, <1>3, <1>4, <1>5, <1>6, <1>7, <1>8, <1>9, <1>10, <1>11, <1>12, <1>13 DEF Next

\* Whatever the memory held and whichever calls fail, contract, retrieval,
\* simulation, document and memory keep their types: the memory holds only rows
\* the table takes, and a contract no counts of a round to come.
THEOREM RoundsInvariant == Spec => []RoundsInv
  <1>1. Init => RoundsInv
    <2> SUFFICES ASSUME Init PROVE RoundsInv
      OBVIOUS
    <2>1. /\ 1 \in 1..MaxOps /\ 1 \in 1..MaxRounds /\ Len(<<>>) = 0
          /\ memory \in Seq(Precedent)
      BY RoundsAssumption DEF Init
    <2> QED
      BY <2>1, FreshTypes DEF Init, RoundsInv
  <1> QED
    BY <1>1, RoundsKept, PTL DEF Spec

\* TypeOK, of any number of operations and rounds.
THEOREM RoundsTyping == Spec => []TypeOK
  <1>1. RoundsInv => TypeOK
    <2> SUFFICES ASSUME RoundsInv PROVE TypeOK
      OBVIOUS
    <2>1. /\ \A i \in DOMAIN doc.precedents : doc.precedents[i].outcome \in Outcomes
          /\ \A i \in DOMAIN memory : memory[i].outcome \in Outcomes
      <3>1. /\ \A i \in DOMAIN doc.precedents : doc.precedents[i] \in Precedent
            /\ \A i \in DOMAIN memory : memory[i] \in Precedent
        BY DEF RoundsInv
      <3> QED  BY <3>1, PrecedentFields
    <2>2. contract.actual \in 0..round
      BY RoundsAssumption DEF RoundsInv, Contract
    <2> QED
      BY <2>1, <2>2 DEF RoundsInv, TypeOK, Contract, Prose, Retrieval, Simulation
  <1> QED
    BY <1>1, RoundsInvariant, PTL

-----------------------------------------------------------------------------
(* A rejected precedent reaches the document. *)

\* The tables of the contract and the memory determine what is to be shown.
LEMMA SameWarnings ==
  ASSUME UNCHANGED memory, contract'.tables = contract.tables
  PROVE  /\ Seen' = Seen /\ Relevant' = Relevant /\ Warnings' = Warnings
         /\ Hits("vector")' = Hits("vector")
  BY DEF Seen, Relevant, Warnings, Hits

\* The warnings are the rejections among the relevant entries.
LEMMA WarningsAre == Warnings = Rejections(Relevant)
  BY DEF Warnings, Rejections, Relevant, Seen

\* An empty list is right where there is nothing to warn of.
LEMMA NothingToShow ==
  ASSUME NEW entries, entries = {} PROVE Shows(<<>>, Rejections(entries))
  <1>1. DOMAIN <<>> = {}
    OBVIOUS
  <1>2. Rejections(entries) = {} /\ ~HasRejected(<<>>)
    BY <1>1 DEF Rejections, HasRejected
  <1> QED
    BY <1>2 DEF Shows

\* The steps of the retrieval: each stage has found what it should.
LEMMA StagesFind ==
  ASSUME RoundsInv, PrecedentsInv,
         SearchMemory \/ FilterCandidates \/ RerankCandidates \/ RetrievalFails
  PROVE  PrecedentsInv'
  <1>1. /\ pc = "context" /\ UNCHANGED <<pc, contract, memory>>
        /\ memory \in Seq(Precedent) /\ ret \in Retrieval /\ ret.found \in Seq(Precedent)
        /\ contract.tables \in SUBSET Tables
    BY DEF SearchMemory, FilterCandidates, RerankCandidates, RetrievalFails, RoundsInv,
       Contract, Retrieval
  <1>2. /\ Seen' = Seen /\ Relevant' = Relevant /\ Warnings' = Warnings
        /\ Hits("vector")' = Hits("vector")
    BY <1>1, SameWarnings
  <1> SUFFICES /\ ret'.pc = "filter" /\ SearchedAll' => Range(ret'.found) = Seen
               /\ ret'.pc = "rerank" /\ SearchedAll' => Range(ret'.found) = Relevant
               /\ ret'.pc = "done" /\ ret'.ok =>
                    Len(ret'.found) <= 3 /\ (SearchedAll' => Shows(ret'.found, Warnings))
    BY <1>1, <1>2 DEF PrecedentsInv, RejectedPrecedentShown, Shows, HasRejected
  <1>3. CASE SearchMemory
    <2>1. PICK mode \in {"vector", "text", "recent"} :
            ret' = [pc |-> IF Search(mode) = <<>> THEN "done" ELSE "filter",
                    mode |-> mode, found |-> Search(mode), ok |-> Search(mode) = <<>>]
      BY <1>3 DEF SearchMemory
    <2>2. /\ ret'.pc = (IF Search(mode) = <<>> THEN "done" ELSE "filter")
          /\ ret'.found = Search(mode) /\ ret'.mode = mode
      BY <2>1
    <2>3. SearchedAll' => Range(Search(mode)) = Seen
      BY <1>1, <1>2, <2>2, SearchFinds DEF SearchedAll
    <2>4. CASE Search(mode) = <<>>
      <3>1. Range(<<>>) = {} /\ Len(<<>>) <= 3
        BY DEF Range
      <3>2. SearchedAll' => Relevant = {}
        BY <2>3, <2>4, <3>1 DEF Relevant
      <3>3. SearchedAll' => Shows(<<>>, Warnings)
        BY <3>2, NothingToShow, WarningsAre
      <3> QED  BY <2>2, <2>4, <3>1, <3>3
    <2>5. CASE Search(mode) # <<>>
      BY <2>2, <2>3, <2>5
    <2> QED  BY <2>4, <2>5
  <1>4. CASE FilterCandidates
    <2> DEFINE kept == FilterByTableOverlap(ret.found, contract.tables)
    <2>1. /\ ret.pc = "filter"
          /\ ret' = [ret EXCEPT !.pc = IF kept = <<>> THEN "done" ELSE "rerank",
                                !.found = kept, !.ok = kept = <<>>]
      BY <1>4 DEF FilterCandidates
    <2>2. Range(kept) = {e \in Range(ret.found) : Overlaps(contract.tables, e.tables)}
      BY <1>1, FilterKeepsOverlaps
    <2> HIDE DEF kept
    <2>3. /\ ret'.pc = (IF kept = <<>> THEN "done" ELSE "rerank")
          /\ ret'.found = kept /\ ret'.mode = ret.mode
      BY <1>1, <2>1 DEF Retrieval
    <2>4. SearchedAll' => Range(kept) = Relevant
      <3>1. SearchedAll' => SearchedAll
        BY <1>2, <2>3 DEF SearchedAll
      <3>2. SearchedAll => Range(ret.found) = Seen
        BY <1>1, <2>1 DEF PrecedentsInv
      <3> QED  BY <2>2, <3>1, <3>2 DEF Relevant
    <2>5. CASE kept = <<>>
      <3>1. Range(<<>>) = {} /\ Len(<<>>) <= 3
        BY DEF Range
      <3>2. SearchedAll' => Relevant = {}
        BY <2>4, <2>5, <3>1
      <3>3. SearchedAll' => Shows(<<>>, Warnings)
        BY <3>2, NothingToShow, WarningsAre
      <3> QED  BY <2>3, <2>5, <3>1, <3>3
    <2>6. CASE kept # <<>>
      BY <2>3, <2>4, <2>6
    <2> QED  BY <2>5, <2>6
  <1>5. CASE RerankCandidates
    <2>1. /\ ret.pc = "rerank" /\ ret'.pc = "done" /\ ret'.mode = ret.mode
          /\ ret'.found = RerankByOutcome(ret.found)
      BY <1>1, <1>5 DEF RerankCandidates, Retrieval
    <2>2. /\ Len(RerankByOutcome(ret.found)) <= 3
          /\ Shows(RerankByOutcome(ret.found), Rejections(Range(ret.found)))
      BY <1>1, RerankShows
    <2>3. SearchedAll' => Range(ret.found) = Relevant
      <3>1. SearchedAll' => SearchedAll
        BY <1>2, <2>1 DEF SearchedAll
      <3> QED  BY <1>1, <2>1, <3>1 DEF PrecedentsInv
    <2> QED  BY <2>1, <2>2, <2>3, WarningsAre
  <1>6. CASE RetrievalFails
    BY <1>6 DEF RetrievalFails, Idle
  <1> QED
    BY <1>3, <1>4, <1>5, <1>6

\* Every step keeps what is known of the precedents.
LEMMA PrecedentsKept ==
  ASSUME RoundsInv, PrecedentsInv, [Next]_vars PROVE PrecedentsInv'
  <1>0. contract \in Contract
    BY DEF RoundsInv
  <1>1. CASE Analyze
    <2>1. pc' = "context" /\ ret'.pc = "search"
      BY <1>1 DEF Analyze, Idle
    <2> QED  BY <2>1 DEF PrecedentsInv, RejectedPrecedentShown
  <1>2. CASE SearchMemory \/ FilterCandidates \/ RerankCandidates \/ RetrievalFails
    BY <1>2, StagesFind
  <1>3. CASE \/ SkipSimulation \/ Simulate \/ SimulationTimesOut \/ SimulationFails
             \/ UNCHANGED vars
    <2>1. UNCHANGED <<pc, contract, ret, doc, memory>>
      BY <1>3 DEF SkipSimulation, Simulate, SimulationTimesOut, SimulationFails, vars
    <2>2. /\ Seen' = Seen /\ Relevant' = Relevant /\ Warnings' = Warnings
          /\ Hits("vector")' = Hits("vector")
      BY <2>1, SameWarnings
    <2> QED
      BY <2>1, <2>2 DEF PrecedentsInv, RejectedPrecedentShown, SearchedAll, Shows, HasRejected
  <1>4. CASE ApplyResults
    <2>1. /\ pc = "context" /\ pc' = "prose" /\ ret.pc = "done" /\ UNCHANGED <<ret, memory>>
      BY <1>4 DEF ApplyResults
    <2>2. /\ contract'.retrieval = ret.ok /\ contract'.tables = contract.tables
          /\ contract'.precedents = IF ret.ok THEN ret.found ELSE <<>>
      BY <1>0, <1>4 DEF ApplyResults, WithSimulation, WithPrecedents, Contract
    <2>3. Warnings' = Warnings /\ SearchedAll' = SearchedAll
      BY <2>1, <2>2, SameWarnings DEF SearchedAll
    <2>4. ret.ok => Len(ret.found) <= 3 /\ (SearchedAll => Shows(ret.found, Warnings))
      BY <2>1 DEF PrecedentsInv
    <2> QED
      BY <2>1, <2>2, <2>3, <2>4 DEF PrecedentsInv, RejectedPrecedentShown, Shows, HasRejected
  <1>5. CASE LlmAnswers \/ LlmFails \/ FallbackProse
    <2>1. /\ pc = "prose" /\ pc' \in {"prose", "build"} /\ UNCHANGED <<ret, memory>>
          /\ contract'.tables = contract.tables /\ contract'.retrieval = contract.retrieval
          /\ contract'.precedents = contract.precedents
      BY <1>0, <1>5 DEF LlmAnswers, LlmFails, FallbackProse, Contract
    <2>2. Warnings' = Warnings /\ SearchedAll' = SearchedAll
      BY <2>1, SameWarnings DEF SearchedAll
    <2> QED
      BY <2>1, <2>2 DEF PrecedentsInv, RejectedPrecedentShown, Shows, HasRejected
  <1>6. CASE Build
    <2>1. /\ pc = "build" /\ pc' = "review" /\ UNCHANGED <<ret, memory>>
          /\ contract'.tables = contract.tables
          /\ contract.precedents \in Seq(Precedent) /\ 3 \in Nat
      BY <1>0, <1>6 DEF Build, Contract
    <2>2. /\ contract.retrieval <=> ret.ok
          /\ ~ret.ok => contract.precedents = <<>>
          /\ ret.ok => /\ Len(contract.precedents) <= 3
                       /\ SearchedAll => Shows(contract.precedents, Warnings)
      BY <2>1 DEF PrecedentsInv
    <2>3. Len(contract.precedents) <= 3
      <3>1. Len(<<>>) <= 3
        OBVIOUS
      <3> QED  BY <2>2, <3>1
    <2>4. FirstN(contract.precedents, 3) = contract.precedents
      <3>1. CutTo(FirstN(contract.precedents, 3), contract.precedents, 3)
        BY <2>1, FirstNCuts
      <3> QED  BY <2>3, <3>1 DEF CutTo
    <2>5. /\ doc'.precedents = contract.precedents
          /\ doc'.containsRejected = HasRejected(contract.precedents)
          /\ doc'.rejectionWarning = HasRejected(contract.precedents)
          /\ doc'.retrievalUnavailable = ~contract.retrieval
      BY <1>6, <2>4, DocumentPrecedents
    <2>6. Warnings' = Warnings /\ Hits("vector")' = Hits("vector")
      BY <2>1, SameWarnings
    <2>7. RejectedPrecedentShown'
      <3>1. ASSUME ret.ok, ret.mode = "vector", Cardinality(Hits("vector")) <= TopK
            PROVE  /\ \/ Warnings \subseteq Range(doc'.precedents)
                      \/ Range(doc'.precedents) \subseteq Warnings
                   /\ doc'.rejectionWarning = (Warnings # {})
                   /\ doc'.containsRejected = doc'.rejectionWarning
        <4>1. Shows(contract.precedents, Warnings)
          BY <2>2, <3>1 DEF SearchedAll
        <4>2. HasRejected(contract.precedents) = (Warnings # {})
          BY <4>1 DEF Shows, HasRejected
        <4> QED  BY <2>5, <4>1, <4>2 DEF Shows
      <3>2. ASSUME ~ret.ok
            PROVE  doc'.precedents = <<>> /\ doc'.retrievalUnavailable /\ ~doc'.rejectionWarning
        <4>1. DOMAIN <<>> = {}
          OBVIOUS
        <4>2. ~HasRejected(<<>>)
          BY <4>1 DEF HasRejected
        <4> QED  BY <2>2, <2>5, <3>2, <4>2
      <3> QED  BY <2>1, <2>6, <3>1, <3>2 DEF RejectedPrecedentShown
    <2> QED
      BY <2>1, <2>7 DEF PrecedentsInv
  <1>7. CASE \/ Modify \/ Execute \/ Audit
             \/ \E state \in {"APPROVED", "REJECTED", "TIMED_OUT"} : Settle(state)
    <2>1. pc' \in {"analysis", "execution", "audit", "end"}
      BY <1>7 DEF Modify, Settle, Execute, Audit, StartOperation
    <2> QED
      BY <2>1 DEF PrecedentsInv, RejectedPrecedentShown
  <1> QED
    BY <1>1, <1>2, <1>3, <1>4, <1>5, <1>6, <1>7 DEF Next

\* Whatever the memory holds, however many operations and rounds there were and
\* whichever calls failed: a rejection on enough of the same tables that the
\* search can see is in the document and flagged, unless others fill it.
THEOREM RejectedPrecedentsShown == Spec => []RejectedPrecedentShown
  <1>1. Init => PrecedentsInv
    BY DEF Init, PrecedentsInv, RejectedPrecedentShown
  <1> QED
    BY <1>1, PrecedentsKept, RoundsInvariant, PTL DEF Spec, PrecedentsInv

-----------------------------------------------------------------------------
(* The prose. *)

\* The fallback names a precedent of the list, a rejected one if it has any.
LEMMA NamedIsListed ==
  ASSUME NEW s \in Seq(Precedent), NEW id \in Named(s)
  PROVE  \E e \in Range(s) : e.id = id /\ (HasRejected(s) => e.outcome = "REJECTED")
  <1> DEFINE hits == {i \in DOMAIN s : s[i].outcome = "REJECTED"}
             pool == IF hits = {} THEN DOMAIN s ELSE hits
  <1>1. PICK i \in pool : id = s[i].id
    BY DEF Named
  <1>2. i \in DOMAIN s /\ (hits # {} => s[i].outcome = "REJECTED")
    BY <1>1
  <1>3. HasRejected(s) => hits # {}
    BY DEF HasRejected
  <1>4. s[i] \in Range(s)
    BY <1>2 DEF Range
  <1> QED
    BY <1>1, <1>2, <1>3, <1>4

\* What a document says beside a fallback text that cites the contract.
LEMMA FallbackAgrees ==
  ASSUME RoundsInv, PrecedentsInv, ProseInv, Build PROVE ProseMatchesDocument'
  <1>1. /\ pc = "build" /\ pc' = "review" /\ UNCHANGED <<round, stmt>>
        /\ contract.precedents \in Seq(Precedent) /\ contract.retrieval \in BOOLEAN
    BY DEF Build, RoundsInv, Contract, opVars
  <1>2. /\ doc'.prose = contract.prose /\ doc'.actual = contract.actual
        /\ doc'.retrievalUnavailable = ~contract.retrieval
        /\ doc'.rejectionWarning = HasRejected(contract.precedents)
        /\ doc'.precedents = FirstN(contract.precedents, 3)
        /\ doc'.containsRejected = HasRejected(doc'.precedents)
    BY Documents, DocumentPrecedents
  <1>3. ~contract.retrieval => contract.precedents = <<>>
    BY <1>1 DEF PrecedentsInv
  <1>4. doc'.precedents = contract.precedents
    <2>1. Len(contract.precedents) <= 3
      <3>1. Len(<<>>) <= 3
        OBVIOUS
      <3> QED  BY <1>1, <3>1 DEF PrecedentsInv
    <2>2. CutTo(FirstN(contract.precedents, 3), contract.precedents, 3)
      BY <1>1, FirstNCuts
    <2> QED  BY <1>2, <2>1, <2>2 DEF CutTo
  <1>5. ~HasRejected(<<>>)
    BY DEF HasRejected
  <1>6. ASSUME contract.prose.source = "fallback"
        PROVE  /\ doc'.prose.cites.actual = doc'.actual
               /\ (doc'.prose.cites.history = "unavailable") = doc'.retrievalUnavailable
               /\ (doc'.prose.cites.history = "rejected") = doc'.rejectionWarning
               /\ \A id \in doc'.prose.cites.named : \E e \in Range(doc'.precedents) :
                    e.id = id /\ (doc'.containsRejected => e.outcome = "REJECTED")
    <2>1. doc'.prose.cites = Cited(contract)
      BY <1>1, <1>2, <1>6 DEF ProseInv
    <2>2. /\ Cited(contract).actual = contract.actual
          /\ (Cited(contract).history = "unavailable") <=> ~contract.retrieval
          /\ (Cited(contract).history = "rejected") <=> HasRejected(contract.precedents)
          /\ Cited(contract).named \subseteq Named(contract.precedents)
      BY <1>1, <1>3, <1>5 DEF Cited
    <2>3. \A id \in Cited(contract).named : \E e \in Range(contract.precedents) :
             e.id = id /\ (HasRejected(contract.precedents) => e.outcome = "REJECTED")
      BY <1>1, <2>2, NamedIsListed
    <2>4. HasRejected(contract.precedents) \in BOOLEAN
      BY DEF HasRejected
    <2> QED
      BY <1>1, <1>2, <1>4, <2>1, <2>2, <2>3, <2>4
  <1>7. /\ doc'.prose.round = round'
        /\ ~Valid(doc'.prose.defects) =>
             doc'.prose.source = "fallback" /\ stmt'.kind = "UNKNOWN"
    BY <1>1, <1>2 DEF ProseInv
  <1> QED
    BY <1>1, <1>2, <1>6, <1>7 DEF ProseMatchesDocument, Valid

\* Every step keeps what is known of the prose.
LEMMA ProseKept ==
  ASSUME RoundsInv, PrecedentsInv, ProseInv, [Next]_vars PROVE ProseInv'
  <1>0. contract \in Contract
    BY DEF RoundsInv
  <1>1. CASE LlmAnswers
    <2>1. PICK defects \in SUBSET Defects :
            IF Valid(defects)
            THEN /\ pc' = "build"
                 /\ contract' = [contract EXCEPT !.prose = [source |-> "llm",
                                     defects |-> defects, round |-> round,
                                     cites |-> NoCitation]]
            ELSE UNCHANGED <<pc, contract>>
      BY <1>1 DEF LlmAnswers
    <2>2. pc = "prose" /\ UNCHANGED <<round, stmt>>
      BY <1>1 DEF LlmAnswers, opVars
    <2>3. CASE Valid(defects)
      <3>1. /\ contract'.prose.source = "llm" /\ contract'.prose.defects = defects
            /\ contract'.prose.round = round
        BY <1>0, <2>1, <2>3 DEF Contract
      <3> QED
        BY <2>1, <2>2, <2>3, <3>1 DEF ProseInv, ProseMatchesDocument, Valid
    <2>4. CASE ~Valid(defects)
      BY <2>1, <2>2, <2>4 DEF ProseInv, ProseMatchesDocument
    <2> QED  BY <2>3, <2>4
  <1>2. CASE FallbackProse
    <2>1. /\ pc' = "build" /\ UNCHANGED <<round, stmt>>
          /\ contract' = [contract EXCEPT !.prose = FallbackText(contract)]
      BY <1>2 DEF FallbackProse, opVars
    <2>2. /\ contract'.prose = FallbackText(contract)
          /\ contract'.actual = contract.actual /\ contract'.retrieval = contract.retrieval
          /\ contract'.precedents = contract.precedents
      BY <1>0, <2>1 DEF Contract
    <2>3. Cited(contract') = Cited(contract)
      BY <2>2 DEF Cited
    <2>4. /\ contract'.prose.source = "fallback" /\ contract'.prose.round = round
          /\ contract'.prose.cites = Cited(contract')
          /\ contract'.prose.defects = FallbackDefects
      BY <2>2, <2>3 DEF FallbackText
    <2>5. ~Valid(FallbackDefects) => stmt.kind = "UNKNOWN"
      BY DEF Valid, FallbackDefects
    <2> QED
      BY <2>1, <2>4, <2>5 DEF ProseInv, ProseMatchesDocument, Valid
  <1>3. CASE Build
    <2>1. pc' = "review"
      BY <1>3 DEF Build
    <2> QED  BY <1>3, <2>1, FallbackAgrees DEF ProseInv
  <1>4. CASE UNCHANGED vars
    BY <1>4 DEF vars, opVars, ProseInv, ProseMatchesDocument, Valid, Cited, HasRejected, Named
  <1>5. CASE pc' \notin {"build", "review"}
    BY <1>5 DEF ProseInv, ProseMatchesDocument
  <1> QED
    BY <1>1, <1>2, <1>3, <1>4, <1>5 DEF Next, Analyze, SearchMemory, FilterCandidates,
       RerankCandidates, RetrievalFails, SkipSimulation, Simulate, SimulationTimesOut,
       SimulationFails, ApplyResults, LlmFails, Modify, Settle, Execute, Audit, StartOperation

\* In any round of any operation, whichever calls failed before: the prose and
\* the sections a reviewer sees beside it say the same, and only the fallback
\* for a statement of unknown kind holds what the validation rejects.
THEOREM ProseAgreesWithDocument == Spec => []ProseMatchesDocument
  <1>1. Init => ProseInv
    BY DEF Init, ProseInv, ProseMatchesDocument
  <1>2. Init => PrecedentsInv
    BY DEF Init, PrecedentsInv, RejectedPrecedentShown
  <1> QED
    BY <1>1, <1>2, ProseKept, PrecedentsKept, RoundsInvariant, PTL DEF Spec, ProseInv

=============================================================================
