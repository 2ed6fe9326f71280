--------------------------- MODULE CascadeProofs ---------------------------
(***************************************************************************)
(* The trace of the cascade lists the right tables and raises the right    *)
(* flags, for any finite schema and any limit of the depth.                *)
(*                                                                         *)
(* The argument is about chains of foreign keys.  _trace walks the simple  *)
(* chains from the root in depth-first order; a chain it has not yet       *)
(* followed to its end is pending at one of the calls on its stack.        *)
(***************************************************************************)
EXTENDS ImpactAnalysisProofs, FiniteSetTheorems

-----------------------------------------------------------------------------
(* Chains: functions on Nat, of which the first k + 1 values count. *)

Walks == [Nat -> Tables]

\* A chain of k foreign keys from the root.
Chain(p, k) == p[0] = Root /\ \A i \in 0..(k - 1) : <<p[i], p[i + 1]>> \in Edges

\* It meets no table twice.
Simple(p, k) == \A i, j \in 0..k : p[i] = p[j] => i = j

\* Its first d tables.
Prefix(p, d) == {p[j] : j \in 0..(d - 1)}

\* The tables that a chain of at most n foreign keys leads to.
ChainEnds(n) == {t \in Tables : \E p \in Walks, k \in 0..n : Chain(p, k) /\ p[k] = t}

\* The tables that one more foreign key leads to.
ChildrenOf(S) == {t \in Tables : \E s \in S : <<s, t>> \in Edges}

-----------------------------------------------------------------------------
(* The inductive invariant. *)

Frames == Range(stack)

\* A call of _trace stands at the end of a simple chain, whose tables are its
\* path; its loop is over children of its table.
FrameSound(f) ==
    /\ f.depth \in 1..(MaxDepth + 1)
    /\ f.fresh \/ f.depth <= MaxDepth
    /\ f.todo \subseteq CascadeChildren(f.table)
    /\ \E p \in Walks : /\ Chain(p, f.depth - 1) /\ Simple(p, f.depth - 1)
                        /\ p[f.depth - 1] = f.table /\ f.path = Prefix(p, f.depth)

\* The call f has still to follow the chain further.
PendingAt(f, p, k) ==
    /\ f.depth <= k /\ f.table = p[f.depth - 1]
    /\ f.path = Prefix(p, f.depth) /\ Simple(p, f.depth - 1)
    /\ f.fresh \/ \E c \in {1, 2} : <<p[f.depth], c>> \in f.todo

\* What has become of a chain, given the tables listed, the calls on the stack
\* and the flags.
Covered(p, k, listed, frames, raised) ==
    \/ Simple(p, k) /\ p[k] \in listed
    \/ \E f \in frames : PendingAt(f, p, k)
    \/ raised.maxDepth /\ k > MaxDepth
    \/ raised.circular /\ ~Simple(p, k)

\* A chain that closes a circle with its last foreign key.
ClosesCircle(p, k) ==
    k > 0 /\ Chain(p, k) /\ Simple(p, k - 1) /\ \E i \in 0..(k - 1) : p[i] = p[k]

\* The calls are sound, what is listed and reported is there, and while the
\* trace runs every chain is accounted for.
TraceInv ==
    /\ \A f \in Frames : FrameSound(f)
    /\ \A t \in Listed : t # Root /\ t \in ChainEnds(MaxDepth)
    /\ flags.circular => \E p \in Walks, k \in Nat : ClosesCircle(p, k)
    /\ pc = "tracing" => \A p \in Walks, k \in Nat \ {0} :
                            Chain(p, k) => Covered(p, k, Listed, Frames, flags)

-----------------------------------------------------------------------------
(* Lemmas on foreign keys and chains. *)

\* An edge is a foreign key with one of its columns.
LEMMA EdgeIsKey ==
  ASSUME ImpactInv, NEW s, NEW t
  PROVE  /\ <<s, t>> \in Edges <=> \E c \in {1, 2} : <<t, c>> \in CascadeChildren(s)
         /\ <<s, t>> \in Edges => s \in Tables /\ t \in Tables
         /\ \A a \in CascadeChildren(s) : <<s, a[1]>> \in Edges /\ a = <<a[1], a[2]>>
  <1>1. \A e \in fk : e = <<e[1], e[2], e[3]>> /\ e[1] \in Tables /\ e[2] \in Tables
                      /\ e[3] \in {1, 2}
    BY DEF ImpactInv
  <1> QED
    BY <1>1 DEF Edges, CascadeChildren

\* A chain goes on with an edge.
LEMMA ChainExtends ==
  ASSUME NEW p \in Walks, NEW k \in Nat, Chain(p, k), NEW t \in Tables, <<p[k], t>> \in Edges
  PROVE  \E q \in Walks : /\ Chain(q, k + 1) /\ q[k + 1] = t
                          /\ \A i \in 0..k : q[i] = p[i]
  <1> DEFINE q == [p EXCEPT ![k + 1] = t]
  <1>1. q \in Walks /\ q[k + 1] = t /\ \A i \in 0..k : q[i] = p[i]
    BY DEF Walks
  <1>2. Chain(q, k + 1)
    <2> HIDE DEF q
    <2> QED  BY <1>1 DEF Chain
  <1> QED
    BY <1>1, <1>2

\* The part of a chain up to one of its tables is a chain.
LEMMA ChainPrefix ==
  ASSUME NEW p \in Walks, NEW k \in Nat, Chain(p, k), NEW i \in 0..k
  PROVE  Chain(p, i)
  BY DEF Chain

\* What a chain of foreign keys leads to, by the length of the chain.
LEMMA ChainEndsBase == ChainEnds(0) = {Root}
  <1> DEFINE p == [n \in Nat |-> Root]
  <1>1. Root \in Tables
    BY ImpactAssumption
  <1>2. p \in Walks /\ Chain(p, 0) /\ p[0] = Root
    BY <1>1 DEF Walks, Chain
  <1>3. Root \in ChainEnds(0)
    <2> HIDE DEF p
    <2> QED  BY <1>1, <1>2 DEF ChainEnds
  <1>4. \A t \in ChainEnds(0) : t = Root
    BY DEF ChainEnds, Chain
  <1> QED
    BY <1>3, <1>4

LEMMA ChainEndsStep ==
  ASSUME NEW n \in Nat
  PROVE  ChainEnds(n + 1) = ChainEnds(n) \cup ChildrenOf(ChainEnds(n))
  <1>1. ASSUME NEW t \in ChainEnds(n + 1), t \notin ChainEnds(n)
        PROVE  \E s \in ChainEnds(n) : <<s, t>> \in Edges
    <2>1. PICK p \in Walks, k \in 0..(n + 1) : Chain(p, k) /\ p[k] = t
      BY <1>1 DEF ChainEnds
    <2>2. k = n + 1
      BY <1>1, <2>1 DEF ChainEnds
    <2>3. Chain(p, n) /\ <<p[n], t>> \in Edges
      BY <2>1, <2>2 DEF Chain
    <2>4. p[n] \in ChainEnds(n)
      BY <2>3 DEF ChainEnds, Walks
    <2> QED
      BY <2>3, <2>4
  <1>2. ASSUME NEW t \in ChainEnds(n) PROVE t \in ChainEnds(n + 1)
    BY <1>2 DEF ChainEnds
  <1>3. ASSUME NEW t \in Tables, NEW s \in ChainEnds(n), <<s, t>> \in Edges
        PROVE  t \in ChainEnds(n + 1)
    <2>1. PICK p \in Walks, k \in 0..n : Chain(p, k) /\ p[k] = s
      BY DEF ChainEnds
    <2>2. PICK q \in Walks : Chain(q, k + 1) /\ q[k + 1] = t
      <3>1. k \in Nat /\ <<p[k], t>> \in Edges
        BY <1>3, <2>1
      <3> QED  BY <2>1, <3>1, ChainExtends
    <2>3. k + 1 \in 0..(n + 1)
      OBVIOUS
    <2> QED
      BY <2>2, <2>3 DEF ChainEnds
  <1>4. \A t \in ChainEnds(n + 1) : t \in Tables
    BY DEF ChainEnds
  <1> QED
    BY <1>1, <1>2, <1>3, <1>4 DEF ChildrenOf

\* The recursive reference definition is well defined: it is what chains of
\* foreign keys lead to.
LEMMA ReachedByChains ==
  ASSUME NEW n \in Nat
  PROVE  ReachedWithin[n] = ChainEnds(n)
  <1> DEFINE Eq(g) == g = [m \in Nat |-> IF m = 0 THEN {Root}
                                         ELSE g[m - 1] \cup ChildrenOf(g[m - 1])]
             f == [m \in Nat |-> ChainEnds(m)]
  <1>1. Eq(f)
    <2>1. ASSUME NEW m \in Nat
          PROVE  f[m] = IF m = 0 THEN {Root} ELSE f[m - 1] \cup ChildrenOf(f[m - 1])
      <3>1. CASE m = 0
        BY <3>1, ChainEndsBase
      <3>2. CASE m # 0
        <4>1. m - 1 \in Nat /\ (m - 1) + 1 = m
          BY <3>2
        <4>2. ChainEnds((m - 1) + 1) = ChainEnds(m - 1) \cup ChildrenOf(ChainEnds(m - 1))
          BY <4>1, ChainEndsStep
        <4> QED  BY <3>2, <4>1, <4>2
      <3> QED  BY <3>1, <3>2
    <2>2. f = [m \in Nat |-> f[m]]
      OBVIOUS
    <2> HIDE DEF f
    <2> QED  BY <2>1, <2>2
  <1>2. Eq(ReachedWithin)
    <2> HIDE DEF f
    <2>1. ReachedWithin = CHOOSE g : Eq(g)
      BY DEF ReachedWithin, ChildrenOf
    <2> HIDE DEF Eq
    <2> QED  BY <1>1, <2>1, Zenon
  <1>3. \A m \in Nat : ReachedWithin[m] = IF m = 0 THEN {Root}
                         ELSE ReachedWithin[m - 1] \cup ChildrenOf(ReachedWithin[m - 1])
    BY <1>2
  <1> DEFINE wrong == {m \in Nat : ReachedWithin[m] # ChainEnds(m)}
  <1>4. CASE wrong = {}
    BY <1>4
  <1>5. CASE wrong # {}
    <2>1. PICK m \in wrong : \A l \in wrong : m <= l
      BY <1>5, LeastNumber
    <2>2. m # 0
      BY <1>3, <2>1, ChainEndsBase
    <2>3. m - 1 \in Nat /\ m - 1 \notin wrong /\ (m - 1) + 1 = m
      BY <2>1, <2>2
    <2>4. ReachedWithin[m - 1] = ChainEnds(m - 1)
      BY <2>3
    <2>5. ReachedWithin[m] = ChainEnds(m - 1) \cup ChildrenOf(ChainEnds(m - 1))
      BY <1>3, <2>2, <2>4
    <2>6. ChainEnds((m - 1) + 1) = ChainEnds(m - 1) \cup ChildrenOf(ChainEnds(m - 1))
      BY <2>3, ChainEndsStep
    <2> QED
      BY <2>1, <2>3, <2>5, <2>6
  <1> QED
    BY <1>4, <1>5

\* A shortest chain to a table meets no table twice.
LEMMA ShortestIsSimple ==
  ASSUME NEW t, NEW p \in Walks, NEW k \in Nat, Chain(p, k), p[k] = t
  PROVE  \E q \in Walks, l \in 0..k : Chain(q, l) /\ q[l] = t /\ Simple(q, l)
  <1> DEFINE lengths == {l \in Nat : \E q \in Walks : Chain(q, l) /\ q[l] = t}
  <1>1. lengths \in SUBSET Nat /\ k \in lengths
    OBVIOUS
  <1>2. PICK l \in lengths : \A m \in lengths : l <= m
    <2> HIDE DEF lengths
    <2> QED  BY <1>1, LeastNumber
  <1>3. PICK q \in Walks : Chain(q, l) /\ q[l] = t
    OBVIOUS
  <1>4. l \in 0..k
    <2> HIDE DEF lengths
    <2> QED  BY <1>1, <1>2
  <1>5. ASSUME NEW i \in 0..l, NEW j \in 0..l, q[i] = q[j], i < j PROVE FALSE
    <2> DEFINE d == j - i
               r == [n \in Nat |-> IF n <= i THEN q[n] ELSE q[n + d]]
    <2>1. l \in Nat /\ d \in Nat \ {0} /\ l - d \in Nat /\ i <= l - d /\ i + d = j
      BY <1>4, <1>5
    <2> HIDE DEF d
    <2>2. r \in Walks
      BY <2>1 DEF Walks
    <2>3. /\ \A n \in 0..i : r[n] = q[n]
          /\ \A n \in Nat : n >= i => r[n] = q[n + d]
      BY <1>5, <2>1
    <2> HIDE DEF r
    <2>4. Chain(r, l - d)
      <3>1. r[0] = Root
        BY <1>3, <2>1, <2>3 DEF Chain
      <3>2. ASSUME NEW n \in 0..((l - d) - 1) PROVE <<r[n], r[n + 1]>> \in Edges
        <4>1. CASE n < i
          <5>1. n \in 0..(l - 1) /\ r[n] = q[n] /\ r[n + 1] = q[n + 1]
            BY <1>5, <2>1, <2>3, <4>1
          <5> QED  BY <1>3, <5>1 DEF Chain
        <4>2. CASE n >= i
          <5>1. /\ n + d \in 0..(l - 1) /\ r[n] = q[n + d] /\ r[n + 1] = q[(n + 1) + d]
                /\ (n + 1) + d = (n + d) + 1
            BY <2>1, <2>3, <4>2
          <5> QED  BY <1>3, <5>1 DEF Chain
        <4> QED  BY <1>5, <4>1, <4>2
      <3> QED  BY <3>1, <3>2 DEF Chain
    <2>5. r[l - d] = t
      BY <1>3, <2>1, <2>3
    <2>6. l - d \in lengths
      BY <2>1, <2>2, <2>4, <2>5
    <2> HIDE DEF lengths
    <2> QED
      BY <1>2, <2>1, <2>6
  <1>6. Simple(q, l)
    <2> SUFFICES ASSUME NEW i \in 0..l, NEW j \in 0..l, q[i] = q[j], i # j PROVE FALSE
      BY DEF Simple
    <2>1. CASE i < j
      BY <1>5, <2>1
    <2>2. CASE j < i
      BY <1>5, <2>2
    <2> QED  BY <1>4, <2>1, <2>2
  <1> QED
    BY <1>3, <1>4, <1>6

\* A chain that meets no table twice has fewer foreign keys than there are
\* tables.
LEMMA SimpleIsShort ==
  ASSUME NEW p \in Walks, NEW k \in Nat, Simple(p, k)
  PROVE  k + 1 <= Cardinality(Tables) /\ Cardinality(Tables) \in Nat
  <1> DEFINE f == [i \in 0..k |-> p[i]]
  <1>1. f \in Injection(0..k, Tables)
    BY DEF Injection, IsInjective, Walks, Simple
  <1>2. IsFiniteSet(Tables)
    BY ImpactAssumption
  <1>3. Cardinality(0..k) = k + 1
    BY FS_Interval
  <1> HIDE DEF f
  <1>4. Cardinality(0..k) <= Cardinality(Tables)
    BY <1>1, <1>2, FS_Injection
  <1>5. Cardinality(Tables) \in Nat
    BY <1>2, FS_CardinalityType
  <1> QED
    BY <1>3, <1>4, <1>5

\* Whatever a chain leads to is reachable.
LEMMA ChainsReach ==
  ASSUME NEW p \in Walks, NEW k \in Nat, Chain(p, k) PROVE p[k] \in Reachable
  <1>1. PICK q \in Walks, l \in 0..k : Chain(q, l) /\ q[l] = p[k] /\ Simple(q, l)
    BY ShortestIsSimple
  <1>2. l \in 0..Cardinality(Tables) /\ Cardinality(Tables) \in Nat
    BY <1>1, SimpleIsShort
  <1>3. p[k] \in ChainEnds(Cardinality(Tables))
    BY <1>1, <1>2 DEF ChainEnds, Walks
  <1> QED
    BY <1>2, <1>3, ReachedByChains DEF Reachable

-----------------------------------------------------------------------------
(* Lemmas for the steps. *)

\* One table more on a path: a new one, or the circle is closed.
LEMMA PathGrows ==
  ASSUME NEW q \in Walks, NEW d \in Nat \ {0}, Simple(q, d - 1)
  PROVE  /\ q[d] \notin Prefix(q, d) => Simple(q, d)
         /\ q[d] \in Prefix(q, d) => \E i \in 0..(d - 1) : q[i] = q[d]
         /\ Prefix(q, d + 1) = Prefix(q, d) \cup {q[d]}
  <1>1. 0..d = (0..(d - 1)) \cup {d}
    OBVIOUS
  <1>2. (d + 1) - 1 = d
    OBVIOUS
  <1>3. Prefix(q, d + 1) = Prefix(q, d) \cup {q[d]}
    BY <1>1, <1>2 DEF Prefix
  <1>4. ASSUME q[d] \notin Prefix(q, d) PROVE Simple(q, d)
    BY <1>1, <1>4, SMTT(30) DEF Prefix, Simple
  <1>5. q[d] \in Prefix(q, d) => \E i \in 0..(d - 1) : q[i] = q[d]
    BY DEF Prefix
  <1> QED
    BY <1>3, <1>4, <1>5

\* The chain of a call, extended by a child of its table.
LEMMA CallExtends ==
  ASSUME NEW f \in Frame, FrameSound(f), NEW t \in Tables, <<f.table, t>> \in Edges
  PROVE  \E q \in Walks : /\ Chain(q, f.depth) /\ q[f.depth] = t /\ Simple(q, f.depth - 1)
                          /\ f.path = Prefix(q, f.depth)
  <1> DEFINE d == f.depth
  <1>1. d \in Nat \ {0} /\ d - 1 \in Nat /\ (d - 1) + 1 = d
    BY ImpactAssumption DEF FrameSound
  <1>2. PICK p \in Walks : /\ Chain(p, d - 1) /\ Simple(p, d - 1)
                           /\ p[d - 1] = f.table /\ f.path = Prefix(p, d)
    BY DEF FrameSound
  <1> HIDE DEF d
  <1>3. PICK q \in Walks : /\ Chain(q, (d - 1) + 1) /\ q[(d - 1) + 1] = t
                           /\ \A i \in 0..(d - 1) : q[i] = p[i]
    BY <1>1, <1>2, ChainExtends
  <1>4. Chain(q, d) /\ q[d] = t
    BY <1>1, <1>3
  <1>5. Simple(q, d - 1)
    BY <1>2, <1>3 DEF Simple
  <1>6. Prefix(q, d) = Prefix(p, d)
    BY <1>3 DEF Prefix
  <1> QED
    BY <1>2, <1>4, <1>5, <1>6 DEF d

\* A chain that was covered stays so if nothing listed and no flag is taken
\* back and what becomes of the calls that it was pending at covers it.
LEMMA StaysCovered ==
  ASSUME NEW p, NEW k, NEW L1, NEW F1, NEW r1, Covered(p, k, L1, F1, r1),
         NEW L2, NEW F2, NEW r2, L1 \subseteq L2,
         r1.maxDepth => r2.maxDepth, r1.circular => r2.circular,
         \A f \in F1 : PendingAt(f, p, k) => Covered(p, k, L2, F2, r2)
  PROVE  Covered(p, k, L2, F2, r2)
  BY Zenon DEF Covered

\* The invariant of the next state, in terms of the schema, which stays.
LEMMA TraceInvNext ==
  ASSUME fk' = fk,
         \A f \in Frames' : FrameSound(f),
         \A t \in Listed' : t # Root /\ t \in ChainEnds(MaxDepth),
         flags'.circular => \E p \in Walks, k \in Nat : ClosesCircle(p, k),
         pc' = "tracing" => \A p \in Walks, k \in Nat \ {0} :
                              Chain(p, k) => Covered(p, k, Listed', Frames', flags')
  PROVE  TraceInv'
  <1>1. Edges' = Edges
    BY DEF Edges
  <1>2. \A p, k : Chain(p, k)' <=> Chain(p, k)
    BY <1>1 DEF Chain
  <1>3. ChainEnds(MaxDepth)' = ChainEnds(MaxDepth)
    BY <1>2 DEF ChainEnds
  <1>4. \A f : FrameSound(f)' <=> FrameSound(f)
    BY <1>1 DEF FrameSound, Chain, CascadeChildren
  <1>5. \A p, k : ClosesCircle(p, k)' <=> ClosesCircle(p, k)
    BY <1>1 DEF ClosesCircle, Chain
  <1>6. \A p, k : Covered(p, k, Listed, Frames, flags)' <=> Covered(p, k, Listed', Frames', flags')
    BY DEF Covered
  <1> QED
    BY <1>2, <1>3, <1>4, <1>5, <1>6, Zenon DEF TraceInv

\* The calls on the stack after one of them was replaced or has returned.
LEMMA CallsOnStack ==
  ASSUME NEW S, NEW s \in Seq(S), s # <<>>, NEW f \in S
  PROVE  /\ Range(s) = {Head(s)} \cup Range(Tail(s))
         /\ Range(<<f>> \o Tail(s)) = {f} \cup Range(Tail(s))
         /\ \A g \in S : Range(<<g>> \o (<<f>> \o Tail(s))) = {g, f} \cup Range(Tail(s))
  <1>1. ASSUME NEW e \in S, NEW u \in Seq(S)
        PROVE  <<e>> \o u \in Seq(S) /\ Range(<<e>> \o u) = {e} \cup Range(u)
    <2> DEFINE w == <<e>> \o u
    <2>1. w \in Seq(S) /\ Len(w) = Len(u) + 1
      OBVIOUS
    <2>2. w[1] = e /\ \A i \in 1..Len(u) : w[i + 1] = u[i]
      OBVIOUS
    <2>3. DOMAIN w = 1..(Len(u) + 1) /\ DOMAIN u = 1..Len(u) /\ Len(u) \in Nat
      BY <2>1
    <2> HIDE DEF w
    <2>4. ASSUME NEW i \in DOMAIN w PROVE w[i] \in {e} \cup Range(u)
      <3>1. CASE i = 1
        BY <2>2, <3>1
      <3>2. CASE i # 1
        <4>1. i - 1 \in 1..Len(u) /\ i = (i - 1) + 1
          BY <2>3, <3>2
        <4>2. w[(i - 1) + 1] = u[i - 1]
          BY <2>2, <4>1
        <4> QED  BY <2>3, <4>1, <4>2 DEF Range
      <3> QED  BY <3>1, <3>2
    <2>5. ASSUME NEW i \in DOMAIN u PROVE u[i] \in Range(w)
      <3>1. i + 1 \in DOMAIN w /\ w[i + 1] = u[i]
        BY <2>2, <2>3
      <3> QED  BY <3>1 DEF Range
    <2>6. e \in Range(w)
      BY <2>2, <2>3 DEF Range
    <2>7. Range(w) = {e} \cup Range(u)
      BY <2>4, <2>5, <2>6, Zenon DEF Range
    <2> QED
      BY <2>1, <2>7 DEF w
  <1>2. Head(s) \in S /\ Tail(s) \in Seq(S) /\ s = <<Head(s)>> \o Tail(s)
    BY HeadTailProperties
  <1>3. Range(s) = {Head(s)} \cup Range(Tail(s))
    BY <1>1, <1>2
  <1>4. <<f>> \o Tail(s) \in Seq(S) /\ Range(<<f>> \o Tail(s)) = {f} \cup Range(Tail(s))
    BY <1>1, <1>2
  <1>5. ASSUME NEW g \in S
        PROVE  Range(<<g>> \o (<<f>> \o Tail(s))) = {g, f} \cup Range(Tail(s))
    <2> DEFINE u == <<f>> \o Tail(s)
    <2>1. u \in Seq(S) /\ Range(u) = {f} \cup Range(Tail(s))
      BY <1>4
    <2> HIDE DEF u
    <2>2. Range(<<g>> \o u) = {g} \cup Range(u)
      BY <1>1, <2>1
    <2>3. Range(<<g>> \o u) = {g, f} \cup Range(Tail(s))
      BY <2>1, <2>2
    <2> QED
      BY <2>3 DEF u
  <1> QED
    BY <1>3, <1>4, <1>5

-----------------------------------------------------------------------------
(* The steps of _trace. *)

\* The first call has every chain pending.
LEMMA StartKeeps ==
  ASSUME ImpactInv, StartTrace PROVE TraceInv'
  <1> USE ImpactAssumption
  <1>1. PICK c : stack' = <<NewFrame(Root, stat[Root], c, 1, {Root})>>
    BY DEF StartTrace
  <1> DEFINE f == NewFrame(Root, stat[Root], c, 1, {Root})
  <1>2. Frames' = {f} /\ Listed' = {} /\ flags' = NoFlags /\ fk' = fk
    <2>1. Listed' = {} /\ flags' = NoFlags /\ fk' = fk
      BY DEF StartTrace, Listed, dbVars
    <2> HIDE DEF f
    <2>2. stack' = <<f>> /\ DOMAIN <<f>> = {1} /\ <<f>>[1] = f
      BY <1>1 DEF f
    <2>3. Frames' = {f}
      BY <2>2 DEF Frames, Range
    <2> QED  BY <2>1, <2>3
  <1>3. /\ f.depth = 1 /\ f.table = Root /\ f.path = {Root} /\ f.fresh /\ f.todo = {}
    BY DEF NewFrame
  <1> HIDE DEF f
  <1>4. \A p \in Walks : p[0] = Root => Prefix(p, 1) = {Root} /\ Simple(p, 0)
    <2>1. 0..(1 - 1) = {0} /\ 0..0 = {0}
      OBVIOUS
    <2> QED  BY <2>1 DEF Prefix, Simple
  <1>5. FrameSound(f)
    <2> DEFINE p == [n \in Nat |-> Root]
    <2>1. p \in Walks /\ p[0] = Root /\ Chain(p, 0)
      BY DEF Walks, Chain
    <2> HIDE DEF p
    <2>2. f.depth - 1 = 0 /\ f.depth \in 1..(MaxDepth + 1)
      BY <1>3
    <2> QED  BY <1>3, <1>4, <2>1, <2>2 DEF FrameSound
  <1>6. ASSUME NEW p \in Walks, NEW k \in Nat \ {0}, Chain(p, k)
        PROVE  Covered(p, k, Listed', Frames', flags')
    <2>1. p[0] = Root /\ f.depth - 1 = 0 /\ f.depth <= k
      BY <1>3, <1>6 DEF Chain
    <2>2. PendingAt(f, p, k)
      BY <1>3, <1>4, <2>1 DEF PendingAt
    <2> QED  BY <1>2, <2>2 DEF Covered
  <1>7. ~flags'.circular
    BY <1>2 DEF NoFlags
  <1> QED
    BY <1>2, <1>5, <1>6, <1>7, TraceInvNext

\* A call returns because it is too deep, which raises the flag, or because it
\* is through with its children.
LEMMA ReturnKeeps ==
  ASSUME ImpactInv, TraceInv, CutOff \/ Return PROVE TraceInv'
  <1> USE ImpactAssumption
  <1> DEFINE top == Head(stack)
  <1>1. /\ stack \in Seq(SoundFrame) /\ stack # <<>> /\ stack' = Tail(stack)
        /\ pc = "tracing" /\ UNCHANGED <<fk, levels, pc>>
    BY DEF CutOff, Return, Tracing, ImpactInv, dbVars
  <1>2. Frames = {top} \cup Frames' /\ top \in SoundFrame
    BY <1>1, CallsOnStack, HeadTailProperties, ZenonT(60) DEF Frames
  <1>3. Listed' = Listed
    BY <1>1 DEF Listed
  <1>4. /\ flags.circular <=> flags'.circular
        /\ flags.maxDepth => flags'.maxDepth
    BY DEF CutOff, Return, ImpactInv
  <1>5. ASSUME NEW p \in Walks, NEW k \in Nat \ {0}, Chain(p, k)
        PROVE  Covered(p, k, Listed', Frames', flags')
    <2>1. Covered(p, k, Listed, Frames, flags)
      BY <1>1, <1>5 DEF TraceInv
    <2>2. PendingAt(top, p, k) => flags'.maxDepth /\ k > MaxDepth
      <3>1. top.depth \in Nat
        BY <1>2 DEF SoundFrame, Frame
      <3>2. CASE CutOff
        BY <3>1, <3>2 DEF CutOff, PendingAt, ImpactInv
      <3>3. CASE Return
        BY <3>3 DEF Return, PendingAt
      <3> QED  BY <3>2, <3>3
    <2>3. \A f \in Frames : PendingAt(f, p, k) => Covered(p, k, Listed', Frames', flags')
      BY <1>2, <2>2 DEF Covered
    <2> QED
      BY <1>3, <1>4, <2>1, <2>3, StaysCovered
  <1>6. \A f \in Frames' : FrameSound(f)
    BY <1>2 DEF TraceInv
  <1>7. \A t \in Listed' : t # Root /\ t \in ChainEnds(MaxDepth)
    BY <1>3 DEF TraceInv
  <1>8. flags'.circular => \E p \in Walks, k \in Nat : ClosesCircle(p, k)
    BY <1>4 DEF TraceInv
  <1> QED
    BY <1>1, <1>5, <1>6, <1>7, <1>8, TraceInvNext

\* The children are fetched: whatever chain was pending goes through one.
LEMMA ExpandKeeps ==
  ASSUME ImpactInv, TraceInv, Expand PROVE TraceInv'
  <1> USE ImpactAssumption
  <1> DEFINE top  == Head(stack)
             new  == [top EXCEPT !.fresh = FALSE, !.todo = CascadeChildren(top.table),
                                 !.size = stat[top.table]]
             Rest == Range(Tail(stack))
  <1>1. /\ stack \in Seq(Frame) /\ stack # <<>> /\ stack' = <<new>> \o Tail(stack)
        /\ top.fresh /\ top.depth <= MaxDepth
        /\ pc = "tracing" /\ UNCHANGED <<fk, levels, flags, pc>>
    BY DEF Expand, Tracing, ImpactInv, dbVars, SoundFrame
  <1>2. top \in Frame /\ CascadeChildren(top.table) \in SUBSET (Tables \X {1, 2})
        /\ stat[top.table] \in Nat
    <2>1. top \in Frame
      BY <1>1, HeadTailProperties
    <2>2. top.table \in Tables
      BY <2>1 DEF Frame
    <2> HIDE DEF top
    <2>3. CascadeChildren(top.table) \in SUBSET (Tables \X {1, 2})
      BY DEF CascadeChildren, ImpactInv
    <2>4. stat[top.table] \in Nat
      <3>1. \A u \in Tables : stat[u] \in Nat
        BY DEF ImpactInv
      <3> QED  BY <2>2, <3>1, Zenon
    <2> QED  BY <2>1, <2>3, <2>4
  <1>3. /\ new \in Frame /\ new.depth = top.depth /\ new.table = top.table
        /\ new.path = top.path /\ ~new.fresh /\ new.todo = CascadeChildren(top.table)
    <2> HIDE DEF top
    <2> QED  BY <1>2 DEF Frame
  <1> HIDE DEF new
  <1>4. Frames = {top} \cup Rest /\ Frames' = {new} \cup Rest
    BY <1>1, <1>3, CallsOnStack DEF Frames
  <1> HIDE DEF top, Rest
  <1>5. FrameSound(top)
    BY <1>4 DEF TraceInv
  <1>6. FrameSound(new)
    BY <1>1, <1>3, <1>5 DEF FrameSound
  <1>7. Listed' = Listed
    BY <1>1 DEF Listed
  <1>8. ASSUME NEW p \in Walks, NEW k \in Nat \ {0}, Chain(p, k)
        PROVE  Covered(p, k, Listed', Frames', flags')
    <2>1. Covered(p, k, Listed, Frames, flags)
      BY <1>1, <1>8 DEF TraceInv
    <2>2. PendingAt(top, p, k) => PendingAt(new, p, k)
      <3> SUFFICES ASSUME PendingAt(top, p, k) PROVE PendingAt(new, p, k)
        OBVIOUS
      <3> DEFINE d == top.depth
      <3>1. d \in Nat \ {0} /\ d <= k /\ top.table = p[d - 1]
        BY <1>5 DEF PendingAt, FrameSound
      <3>2. d - 1 \in 0..(k - 1) /\ (d - 1) + 1 = d
        BY <3>1
      <3>3. <<p[d - 1], p[d]>> \in Edges
        BY <1>8, <3>2 DEF Chain
      <3>4. \E c \in {1, 2} : <<p[d], c>> \in CascadeChildren(top.table)
        BY <3>1, <3>3, EdgeIsKey
      <3> QED  BY <1>3, <3>4 DEF PendingAt
    <2>3. \A f \in Frames : PendingAt(f, p, k) => Covered(p, k, Listed', Frames', flags')
      BY <1>4, <2>2 DEF Covered
    <2> QED
      BY <1>1, <1>7, <2>1, <2>3, StaysCovered
  <1>9. \A f \in Frames' : FrameSound(f)
    BY <1>4, <1>6 DEF TraceInv
  <1>10. \A t \in Listed' : t # Root /\ t \in ChainEnds(MaxDepth)
    BY <1>7 DEF TraceInv
  <1>11. flags'.circular => \E p \in Walks, k \in Nat : ClosesCircle(p, k)
    BY <1>1 DEF TraceInv
  <1> QED
    BY <1>1, <1>8, <1>9, <1>10, <1>11, TraceInvNext

\* A child on the path closes a circle and raises the flag; another one is
\* listed and gets a call of its own.
LEMMA VisitKeeps ==
  ASSUME ImpactInv, TraceInv, Visit PROVE TraceInv'
  <1> USE ImpactAssumption
  <1> DEFINE top   == Head(stack)
             child == FirstChild(top.todo)
             t     == child[1]
             d     == top.depth
             left  == [top EXCEPT !.todo = @ \ {child}]
             Rest  == Range(Tail(stack))
  <1>1. /\ stack \in Seq(Frame) /\ stack # <<>> /\ ~top.fresh /\ top.todo # {}
        /\ pc = "tracing" /\ UNCHANGED <<fk, pc>> /\ top \in Frame
    <2>1. stack \in Seq(Frame) /\ stack # <<>>
      BY DEF Visit, Tracing, ImpactInv, SoundFrame
    <2> QED  BY <2>1, HeadTailProperties DEF Visit, Tracing, dbVars
  <1>2. Frames = {top} \cup Rest /\ FrameSound(top)
    <2>1. Frames = {top} \cup Rest
      BY <1>1, CallsOnStack DEF Frames
    <2> QED  BY <2>1 DEF TraceInv
  <1>3. child \in top.todo /\ t \in Tables /\ <<top.table, t>> \in Edges /\ child = <<t, child[2]>>
    <2>1. top.todo \in SUBSET (Tables \X {1, 2})
      BY <1>1 DEF Frame
    <2> HIDE DEF top
    <2>2. child \in top.todo
      BY <1>1, <2>1, FirstChildIn
    <2>3. child \in CascadeChildren(top.table)
      BY <1>2, <2>2 DEF FrameSound
    <2> HIDE DEF child
    <2>4. t \in Tables
      BY <2>1, <2>2
    <2>5. <<top.table, t>> \in Edges /\ child = <<t, child[2]>>
      BY <2>3, EdgeIsKey
    <2> QED  BY <2>2, <2>4, <2>5
  <1>4. d \in 1..MaxDepth /\ d \in Nat \ {0}
    BY <1>1, <1>2 DEF FrameSound
  <1>5. PICK q \in Walks : Chain(q, d) /\ q[d] = t /\ Simple(q, d - 1) /\ top.path = Prefix(q, d)
    <2> HIDE DEF top, t
    <2> QED  BY <1>1, <1>2, <1>3, CallExtends
  <1>6. /\ left \in Frame /\ left.depth = d /\ left.table = top.table /\ left.path = top.path
        /\ ~left.fresh /\ left.todo = top.todo \ {child}
    <2> HIDE DEF top, child
    <2> QED  BY <1>1 DEF Frame
  <1>7. FrameSound(left)
    <2> HIDE DEF top, child, left
    <2> QED  BY <1>1, <1>2, <1>6 DEF FrameSound
  <1>8. ASSUME NEW p \in Walks, NEW k \in Nat \ {0}, PendingAt(top, p, k), ~PendingAt(left, p, k)
        PROVE  p[d] = t /\ d <= k /\ Simple(p, d - 1) /\ top.path = Prefix(p, d)
    <2>1. PICK c \in {1, 2} : <<p[d], c>> \in top.todo
      BY <1>1, <1>8 DEF PendingAt
    <2>2. <<p[d], c>> \notin top.todo \ {child}
      BY <1>6, <1>8 DEF PendingAt
    <2>3. <<p[d], c>> = child
      BY <2>1, <2>2
    <2>4. p[d] = t
      BY <2>3
    <2> QED  BY <1>8, <2>4 DEF PendingAt
  <1>9. CASE OnPath(t, top)
    <2>1. flags' = [flags EXCEPT !.circular = TRUE] /\ UNCHANGED levels
          /\ stack' = <<left>> \o Tail(stack)
      BY <1>9, Zenon DEF Visit
    <2>2. flags'.circular /\ flags'.maxDepth = flags.maxDepth /\ Listed' = Listed
      BY <2>1 DEF ImpactInv, Listed
    <2> HIDE DEF left
    <2>3. Frames' = {left} \cup Rest
      BY <1>1, <1>6, <2>1, CallsOnStack DEF Frames
    <2> HIDE DEF top, t, Rest, d
    <2>4. ASSUME NEW p \in Walks, NEW k \in Nat \ {0}, Chain(p, k)
          PROVE  Covered(p, k, Listed', Frames', flags')
      <3>1. Covered(p, k, Listed, Frames, flags)
        BY <1>1, <2>4 DEF TraceInv
      <3>2. ASSUME PendingAt(top, p, k), ~PendingAt(left, p, k) PROVE ~Simple(p, k)
        <4>1. p[d] = t /\ d <= k /\ Simple(p, d - 1) /\ p[d] \in Prefix(p, d)
          BY <1>8, <1>9, <3>2 DEF OnPath
        <4>2. PICK i \in 0..(d - 1) : p[i] = p[d]
          BY <4>1 DEF Prefix
        <4> QED  BY <1>4, <4>1, <4>2 DEF Simple
      <3>3. \A f \in Frames : PendingAt(f, p, k) => Covered(p, k, Listed', Frames', flags')
        BY <1>2, <2>2, <2>3, <3>2 DEF Covered
      <3> QED  BY <2>2, <3>1, <3>3, StaysCovered
    <2>5. ClosesCircle(q, d)
      <3>1. q[d] \in Prefix(q, d)
        BY <1>5, <1>9 DEF OnPath
      <3> QED  BY <1>4, <1>5, <3>1, PathGrows DEF ClosesCircle
    <2>6. \A f \in Frames' : FrameSound(f)
      BY <1>2, <1>7, <2>3 DEF TraceInv
    <2>7. \A u \in Listed' : u # Root /\ u \in ChainEnds(MaxDepth)
      BY <2>2 DEF TraceInv
    <2> QED
      BY <1>1, <1>4, <2>4, <2>5, <2>6, <2>7, TraceInvNext
  <1>10. CASE ~OnPath(t, top)
    <2>1. PICK n, conf :
            /\ levels' = Append(levels, [table |-> t, parent |-> top.table, rows |-> n,
                                         confidence |-> conf, depth |-> top.depth])
            /\ stack' = <<NewFrame(t, n, conf, top.depth + 1, top.path \cup {t})>>
                        \o (<<left>> \o Tail(stack))
            /\ UNCHANGED flags
      BY <1>10, Zenon DEF Visit
    <2> DEFINE new == NewFrame(t, n, conf, top.depth + 1, top.path \cup {t})
    <2>2. /\ new.depth = d + 1 /\ new.table = t /\ new.path = top.path \cup {t}
          /\ new.fresh /\ new.todo = {}
      <3> HIDE DEF top, t
      <3> QED  BY DEF NewFrame, d
    <2> HIDE DEF left, new
    <2>3. Frames' = {new, left} \cup Rest
      <3>1. stack \in Seq(Frame \cup {new}) /\ left \in Frame \cup {new} /\ new \in Frame \cup {new}
        BY <1>1, <1>6
      <3>2. stack' = <<new>> \o (<<left>> \o Tail(stack))
        BY <2>1 DEF new
      <3>3. Range(<<new>> \o (<<left>> \o Tail(stack))) = {new, left} \cup Range(Tail(stack))
        BY <1>1, <3>1, CallsOnStack
      <3> QED  BY <3>2, <3>3 DEF Frames
    <2>4. Listed' = Listed \cup {t}
      <3> DEFINE lev == [table |-> t, parent |-> top.table, rows |-> n,
                         confidence |-> conf, depth |-> top.depth]
      <3>1. lev.table = t
        OBVIOUS
      <3> HIDE DEF lev
      <3>2. levels \in Seq(SoundLevel) /\ levels' = Append(levels, lev)
        BY <2>1 DEF ImpactInv, lev
      <3>3. /\ DOMAIN levels' = 1..(Len(levels) + 1) /\ DOMAIN levels = 1..Len(levels)
            /\ levels'[Len(levels) + 1] = lev /\ Len(levels) \in Nat
            /\ \A i \in 1..Len(levels) : levels'[i] = levels[i]
        BY <3>2
      <3>4. 1..(Len(levels) + 1) = (1..Len(levels)) \cup {Len(levels) + 1}
        BY <3>3
      <3> HIDE <3>2 DEF t
      <3>5. \A u : u \in Listed' <=> u \in Listed \/ u = t
        BY <3>1, <3>3, <3>4 DEF Listed
      <3> QED  BY <3>5
    <2> HIDE DEF top, t, Rest, d
    <2>5. Simple(q, d) /\ Prefix(q, d + 1) = top.path \cup {t}
      BY <1>4, <1>5, <1>10, PathGrows DEF OnPath
    <2>6. FrameSound(new)
      <3>1. (d + 1) - 1 = d /\ d + 1 \in 1..(MaxDepth + 1)
        BY <1>4
      <3> QED  BY <1>5, <2>2, <2>5, <3>1 DEF FrameSound
    <2>7. ASSUME NEW p \in Walks, NEW k \in Nat \ {0}, Chain(p, k)
          PROVE  Covered(p, k, Listed', Frames', flags')
      <3>1. Covered(p, k, Listed, Frames, flags)
        BY <1>1, <2>7 DEF TraceInv
      <3>2. ASSUME PendingAt(top, p, k), ~PendingAt(left, p, k)
            PROVE  Covered(p, k, Listed', Frames', flags')
        <4>1. p[d] = t /\ d <= k /\ Simple(p, d - 1) /\ top.path = Prefix(p, d)
          BY <1>8, <3>2
        <4>2. Simple(p, d) /\ Prefix(p, d + 1) = top.path \cup {t}
          BY <1>4, <1>10, <4>1, PathGrows DEF OnPath
        <4>3. CASE d = k
          BY <2>4, <4>1, <4>2, <4>3 DEF Covered
        <4>4. CASE d < k
          <5>1. (d + 1) - 1 = d /\ d + 1 <= k
            BY <1>4, <4>4
          <5>2. PendingAt(new, p, k)
            BY <2>2, <4>1, <4>2, <5>1 DEF PendingAt
          <5> QED  BY <2>3, <5>2 DEF Covered
        <4> QED  BY <1>4, <4>1, <4>3, <4>4
      <3>3. \A f \in Frames : PendingAt(f, p, k) => Covered(p, k, Listed', Frames', flags')
        BY <1>2, <2>3, <3>2 DEF Covered
      <3> QED  BY <2>1, <2>4, <3>1, <3>3, StaysCovered
    <2>8. \A f \in Frames' : FrameSound(f)
      BY <1>2, <1>7, <2>3, <2>6 DEF TraceInv
    <2>9. t # Root /\ t \in ChainEnds(MaxDepth)
      <3>1. q[0] = Root /\ 0 \in 0..(d - 1)
        BY <1>4, <1>5 DEF Chain
      <3>2. Root \in Prefix(q, d)
        BY <3>1 DEF Prefix
      <3>3. d \in 0..MaxDepth
        BY <1>4
      <3>4. t \in ChainEnds(MaxDepth)
        BY <1>3, <1>5, <3>3 DEF ChainEnds
      <3> QED  BY <1>5, <1>10, <3>2, <3>4 DEF OnPath
    <2>10. \A u \in Listed' : u # Root /\ u \in ChainEnds(MaxDepth)
      BY <2>4, <2>9 DEF TraceInv
    <2>11. flags'.circular => \E p \in Walks, k \in Nat : ClosesCircle(p, k)
      BY <2>1 DEF TraceInv
    <2> QED
      BY <1>1, <2>7, <2>8, <2>10, <2>11, TraceInvNext
  <1> QED
    BY <1>9, <1>10

\* The other steps leave the trace alone.
LEMMA TraceUntouched ==
  ASSUME TraceInv, UNCHANGED <<fk, stack, levels, flags>>, pc' = "tracing" => pc = "tracing"
  PROVE  TraceInv'
  <1>1. Frames' = Frames /\ Listed' = Listed
    BY DEF Frames, Listed
  <1> QED
    BY <1>1, TraceInvNext DEF TraceInv

\* Every chain of foreign keys is followed, pending or accounted for by a flag,
\* in every reachable state.
THEOREM TraceInvariant == Spec => []TraceInv
  <1>1. Init => TraceInv
    <2> SUFFICES ASSUME Init PROVE TraceInv
      OBVIOUS
    <2>1. Frames = {} /\ Listed = {} /\ ~flags.circular /\ pc # "tracing"
      BY DEF Init, Frames, Range, Listed, NoFlags
    <2> QED
      BY <2>1 DEF TraceInv
  <1>2. ASSUME ImpactInv, TraceInv, [Next]_vars PROVE TraceInv'
    <2> USE <1>2
    <2>1. CASE StartTrace
      BY <2>1, StartKeeps
    <2>2. CASE CutOff \/ Return
      BY <2>2, ReturnKeeps
    <2>3. CASE Expand
      BY <2>3, ExpandKeeps
    <2>4. CASE Visit
      BY <2>4, VisitKeeps
    <2>5. CASE \/ \E t \in Tables : Analyze(t)
               \/ CountRows \/ DetectTriggers \/ TraceFails \/ TraceAnswered \/ CheckSoftDelete
               \/ UNCHANGED vars
      <3>1. UNCHANGED <<fk, stack, levels, flags>> /\ (pc' = "tracing" => pc = "tracing")
        BY <2>5 DEF Analyze, CountRows, DetectTriggers, TraceFails, TraceAnswered,
           CheckSoftDelete, vars, dbVars, traceVars
      <3> QED  BY <3>1, TraceUntouched
    <2> QED
      BY <2>1, <2>2, <2>3, <2>4, <2>5 DEF Next
  <1> QED
    BY <1>1, <1>2, ImpactInvariant, PTL DEF Spec

-----------------------------------------------------------------------------
(* What a finished trace shows. *)

\* With nothing pending, a chain has been followed to its end or a flag says
\* why not.
LEMMA NothingPending ==
  ASSUME TraceInv, Traced, NEW p \in Walks, NEW k \in Nat \ {0}, Chain(p, k)
  PROVE  \/ Simple(p, k) /\ p[k] \in Listed
         \/ flags.maxDepth /\ k > MaxDepth
         \/ flags.circular /\ ~Simple(p, k)
  <1>1. Frames = {} /\ pc = "tracing"
    BY DEF Traced, Frames, Range
  <1>2. Covered(p, k, Listed, Frames, flags)
    BY <1>1 DEF TraceInv
  <1> QED
    BY <1>1, <1>2 DEF Covered

\* A table that chains lead to is listed, or is too deep for every chain.
LEMMA ReachedIsListed ==
  ASSUME TraceInv, Traced, NEW n \in Nat, NEW t \in ChainEnds(n), t # Root
  PROVE  t \in Listed \/ (flags.maxDepth /\ n > MaxDepth)
  <1>1. PICK p \in Walks, k \in 0..n : Chain(p, k) /\ p[k] = t
    BY DEF ChainEnds
  <1>2. PICK q \in Walks, l \in 0..k : Chain(q, l) /\ q[l] = t /\ Simple(q, l)
    BY <1>1, ShortestIsSimple
  <1>3. l \in Nat \ {0}
    BY <1>2 DEF Chain
  <1>4. \/ Simple(q, l) /\ q[l] \in Listed
        \/ flags.maxDepth /\ l > MaxDepth
        \/ flags.circular /\ ~Simple(q, l)
    BY <1>2, <1>3, NothingPending
  <1> QED
    BY <1>2, <1>4, ImpactAssumption

\* A circle that was met is one.
LEMMA CircleIsCycle ==
  ASSUME NEW p \in Walks, NEW k \in Nat, ClosesCircle(p, k) PROVE HasCycle
  <1>1. k > 0 /\ Chain(p, k)
    BY DEF ClosesCircle
  <1>2. PICK i \in 0..(k - 1) : p[i] = p[k]
    BY DEF ClosesCircle
  <1> DEFINE S == {p[j] : j \in i..(k - 1)}
  <1>3. ASSUME NEW j \in i..(k - 1) PROVE p[j] \in Reachable
    <2>1. j \in Nat /\ Chain(p, j)
      BY <1>1, ChainPrefix
    <2> QED  BY <2>1, ChainsReach
  <1>4. p[i] \in S
    BY <1>1
  <1>5. ASSUME NEW j \in i..(k - 1) PROVE \E s \in S : <<s, p[j]>> \in Edges
    <2>1. CASE j = i
      <3>1. k - 1 \in i..(k - 1) /\ k - 1 \in 0..(k - 1) /\ (k - 1) + 1 = k
        BY <1>1
      <3>2. <<p[k - 1], p[k]>> \in Edges
        BY <1>1, <3>1 DEF Chain
      <3> QED  BY <1>2, <2>1, <3>1, <3>2
    <2>2. CASE j # i
      <3>1. j - 1 \in i..(k - 1) /\ j - 1 \in 0..(k - 1) /\ (j - 1) + 1 = j
        BY <2>2
      <3>2. <<p[j - 1], p[j]>> \in Edges
        BY <1>1, <3>1 DEF Chain
      <3> QED  BY <3>1, <3>2
    <2> QED  BY <2>1, <2>2
  <1> QED
    <2>1. S \in SUBSET Reachable /\ S # {}
      BY <1>3, <1>4
    <2>2. \A t \in S : \E s \in S : <<s, t>> \in Edges
      BY <1>5
    <2> HIDE DEF S
    <2> QED  BY <2>1, <2>2 DEF HasCycle

\* Where every chain is simple there is no cycle: the tables of one would each
\* have a parent with a shorter longest chain.
LEMMA SimpleIsAcyclic ==
  ASSUME \A p \in Walks, k \in Nat : Chain(p, k) => Simple(p, k)
  PROVE  ~HasCycle
  <1> SUFFICES ASSUME NEW S \in SUBSET Reachable, S # {},
                      \A t \in S : \E s \in S : <<s, t>> \in Edges
               PROVE  FALSE
    BY DEF HasCycle
  <1> DEFINE Bounded(t, n) == \A p \in Walks, k \in Nat : Chain(p, k) /\ p[k] = t => k <= n
             bounds == {n \in Nat : \E t \in S : Bounded(t, n)}
  <1>1. Cardinality(Tables) \in Nat
    BY ImpactAssumption, FS_CardinalityType
  <1>2. \A t \in S : t \in ChainEnds(Cardinality(Tables))
    BY <1>1, ReachedByChains DEF Reachable
  <1>3. \A t \in S : t \in Tables /\ \E p \in Walks, k \in Nat : Chain(p, k) /\ p[k] = t
    BY <1>1, <1>2 DEF ChainEnds
  <1>4. Cardinality(Tables) \in bounds
    <2>1. ASSUME NEW p \in Walks, NEW k \in Nat, Chain(p, k) PROVE k <= Cardinality(Tables)
      <3>1. k + 1 <= Cardinality(Tables)
        BY <2>1, SimpleIsShort
      <3> QED  BY <1>1, <3>1
    <2>2. \A t \in S : Bounded(t, Cardinality(Tables))
      BY <2>1
    <2> HIDE DEF Bounded
    <2> QED  BY <1>1, <2>2
  <1>5. PICK n \in bounds : \A m \in bounds : n <= m
    <2>1. bounds \in SUBSET Nat
      OBVIOUS
    <2> HIDE DEF bounds
    <2> QED  BY <1>4, <2>1, LeastNumber
  <1>6. PICK t \in S : Bounded(t, n)
    OBVIOUS
  <1>7. PICK s \in S : <<s, t>> \in Edges
    OBVIOUS
  <1>8. ASSUME NEW p \in Walks, NEW k \in Nat, Chain(p, k), p[k] = s PROVE k + 1 <= n
    <2>1. PICK q \in Walks : Chain(q, k + 1) /\ q[k + 1] = t
      BY <1>3, <1>7, <1>8, ChainExtends
    <2> QED  BY <1>6, <2>1
  <1>9. n - 1 \in bounds
    <2>1. PICK p \in Walks, k \in Nat : Chain(p, k) /\ p[k] = s
      BY <1>3
    <2>2. k + 1 <= n
      BY <1>8, <2>1
    <2>3. n \in Nat /\ n - 1 \in Nat
      BY <2>2
    <2>4. Bounded(s, n - 1)
      BY <1>8, <2>3
    <2> HIDE DEF Bounded
    <2> QED  BY <2>3, <2>4
  <1>10. n \in Nat
    OBVIOUS
  <1> HIDE DEF bounds
  <1> QED
    BY <1>5, <1>9, <1>10

\* A finished trace lists exactly the tables within the depth limit, whatever
\* circles and joins the foreign keys form.
THEOREM CascadeIsComplete == Spec => []ListsWhatCascades
  <1>1. ASSUME TraceInv PROVE ListsWhatCascades
    <2> SUFFICES ASSUME Traced PROVE Listed = ReachedWithin[MaxDepth] \ {Root}
      BY DEF ListsWhatCascades
    <2>1. MaxDepth \in Nat /\ ReachedWithin[MaxDepth] = ChainEnds(MaxDepth)
      BY ImpactAssumption, ReachedByChains
    <2>2. \A t \in Listed : t # Root /\ t \in ChainEnds(MaxDepth)
      BY <1>1 DEF TraceInv
    <2>3. \A t \in ChainEnds(MaxDepth) : t # Root => t \in Listed
      BY <1>1, <2>1, ReachedIsListed
    <2> QED
      BY <2>1, <2>2, <2>3
  <1> QED
    BY <1>1, TraceInvariant, PTL

\* The flags of a finished trace: no table is missing without max_depth_reached,
\* has_circular_reference means a circle, and without either the cascade is
\* whole and has none.
THEOREM FlagsAreTrue == Spec => []FlagsTellTheTruth
  <1>1. ASSUME TraceInv PROVE FlagsTellTheTruth
    <2> SUFFICES ASSUME Traced
                 PROVE  /\ Reachable \subseteq Listed \cup {Root} \/ flags.maxDepth
                        /\ flags.circular => HasCycle
                        /\ ~flags.circular /\ ~flags.maxDepth => ~HasCycle
      BY DEF FlagsTellTheTruth
    <2>1. Reachable \subseteq Listed \cup {Root} \/ flags.maxDepth
      <3>1. Cardinality(Tables) \in Nat
        BY ImpactAssumption, FS_CardinalityType
      <3>2. Reachable = ChainEnds(Cardinality(Tables))
        BY <3>1, ReachedByChains DEF Reachable
      <3> QED  BY <1>1, <3>1, <3>2, ReachedIsListed
    <2>2. flags.circular => HasCycle
      BY <1>1, CircleIsCycle DEF TraceInv
    <2>3. ASSUME ~flags.circular, ~flags.maxDepth PROVE ~HasCycle
      <3>1. ASSUME NEW p \in Walks, NEW k \in Nat, Chain(p, k) PROVE Simple(p, k)
        <4>1. CASE k = 0
          BY <4>1 DEF Simple
        <4>2. CASE k # 0
          BY <1>1, <2>3, <3>1, <4>2, NothingPending
        <4> QED  BY <4>1, <4>2
      <3> QED  BY <3>1, SimpleIsAcyclic
    <2> QED
      BY <2>1, <2>2, <2>3
  <1> QED
    BY <1>1, TraceInvariant, PTL

=============================================================================
