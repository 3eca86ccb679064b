--------------------------- MODULE LoweringProofs ----------------------------
(***************************************************************************)
(* For every set of graphs and contexts: that the search for cycles finds  *)
(* one exactly if there is one, and that the statements of a lowered pass   *)
(* are those the Output needs, in an order that defines every operand       *)
(* before its use, at the types the checker inferred.  The invariant has a  *)
(* part for each stage: SearchInv, that the stack is a path and that what   *)
(* is finished leads only to what was finished before; VerdictInv;          *)
(* OrderInv, the same of the search for the order; EmitInv, of statements   *)
(* and the nodes still to come.  That every graph without diagnostics has   *)
(* types, though Inferred recurs through its edges, and that types and      *)
(* declarations agree, is by induction over the order of finished.          *)
(* Of a shader file (ShaderPipeline): that an answer of the cache is the    *)
(* compilation of the text its includes have now, or of one with its hash.  *)
(***************************************************************************)
EXTENDS Lowering, ShaderPipeline, SequenceTheorems, FiniteSetTheorems, WellFoundedInduction, TLAPS

\* Induction, in the form the provers can use: a set of numbers has a least one.
LEMMA LeastNumber ==
  ASSUME NEW S \in SUBSET Nat, S # {}
  PROVE  \E n \in S : \A m \in S : n <= m
<1> DEFINE Less == OpToRel(<, Nat)
<1>1. \A x, y \in Nat : x < y => <<x, y>> \in Less
  BY Zenon DEF OpToRel
<1>2. IsWellFoundedOn(Less, Nat)
  BY NatLessThanWellFounded
<1> HIDE DEF Less
<1>3. PICK x \in S : \A y \in S : ~ (<<y, x>> \in Less)
  BY <1>2, WFMin
<1>4. ASSUME NEW m \in S PROVE x <= m
  <2>1. ~ (m < x)
    BY <1>1, <1>3
  <2> QED BY <2>1
<1> QED BY <1>4

------------------------------------------------------------------------------
(* Sets of numbers in ascending order.                                       *)

\* A function on 1 .. n is a sequence of length n.
LEMMA FunctionIsSeq ==
  ASSUME NEW S, NEW n \in Nat, NEW f \in [1 .. n -> S]
  PROVE  f \in Seq(S) /\ Len(f) = n
OBVIOUS

\* Every member of a finite set of numbers has its place: as many members are
\* below it as places are before.
LEMMA Ranks ==
  ASSUME NEW S \in SUBSET Nat, IsFiniteSet(S)
  PROVE  /\ \A x, y \in S :
              Cardinality({z \in S : z < x}) = Cardinality({z \in S : z < y}) => x = y
         /\ \A x \in S : Cardinality({y \in S : y < x}) \in 0 .. Cardinality(S) - 1
         /\ \A k \in 1 .. Cardinality(S) : \E x \in S : Cardinality({y \in S : y < x}) = k - 1
<1> DEFINE N == Cardinality(S)
           Below(x) == {y \in S : y < x}
           rank == [x \in S |-> Cardinality(Below(x))]
<1>0. N \in Nat
  BY FS_CardinalityType
<1>1. ASSUME NEW x \in S
      PROVE  IsFiniteSet(Below(x)) /\ Cardinality(Below(x)) \in 0 .. N - 1
  <2>1. Below(x) \in SUBSET S /\ x \notin Below(x)
    OBVIOUS
  <2>2. /\ IsFiniteSet(Below(x)) /\ Cardinality(Below(x)) <= N
        /\ N = Cardinality(Below(x)) => S = Below(x)
    BY <2>1, FS_Subset
  <2>3. Cardinality(Below(x)) \in Nat
    BY <2>2, FS_CardinalityType
  <2> QED BY <2>1, <2>2, <2>3, <1>0
<1>2. ASSUME NEW x \in S, NEW y \in S, x < y
      PROVE  Cardinality(Below(x)) < Cardinality(Below(y))
  <2>0. x \in Nat /\ y \in Nat /\ \A z \in S : z \in Nat
    OBVIOUS
  <2>3. ASSUME NEW z \in Below(x) PROVE z \in Below(y)
    <3>1. z \in S /\ z \in Nat /\ z < x
      BY <2>0
    <3>2. z < y
      BY <3>1, <2>0, <1>2
    <3> QED BY <3>1, <3>2
  <2>4. x \in Below(y) /\ x \notin Below(x)
    <3>1. ~ (x < x)
      BY <2>0
    <3> QED BY <3>1, <1>2
  <2>1. Below(x) \in SUBSET Below(y) /\ x \in Below(y) /\ x \notin Below(x)
    BY <2>3, <2>4, Zenon
  <2>2. /\ Cardinality(Below(x)) <= Cardinality(Below(y))
        /\ Cardinality(Below(y)) = Cardinality(Below(x)) => Below(y) = Below(x)
    BY <2>1, <1>1, FS_Subset
  <2> QED BY <2>1, <2>2, <1>1
<1>3. rank \in [S -> 0 .. N - 1]
  BY <1>1
<1>4. \A x, y \in S : rank[x] = rank[y] => x = y
  <2> SUFFICES ASSUME NEW x \in S, NEW y \in S, x # y PROVE rank[x] # rank[y]
    OBVIOUS
  <2>1. x < y \/ y < x
    OBVIOUS
  <2>2. Cardinality(Below(x)) \in Nat /\ Cardinality(Below(y)) \in Nat
    BY <1>1
  <2> QED BY <2>1, <2>2, <1>2
<1>5. rank \in Injection(S, 0 .. N - 1)
  BY <1>3, <1>4 DEF Injection, IsInjective
<1>6. IsFiniteSet(0 .. N - 1) /\ Cardinality(0 .. N - 1) = N
  <2>1. 0 \in Int /\ N - 1 \in Int /\ (0 > N - 1 => N = 0) /\ N - 1 - 0 + 1 = N
    BY <1>0
  <2> HIDE DEF N
  <2> QED BY <2>1, FS_Interval
<1>7. rank \in Surjection(S, 0 .. N - 1)
  BY <1>5, <1>6, FS_Injection
<1>8. ASSUME NEW k \in 1 .. N PROVE \E x \in S : Cardinality(Below(x)) = k - 1
  <2>1. k - 1 \in 0 .. N - 1
    BY <1>0
  <2>2. PICK x \in S : rank[x] = k - 1
    BY <2>1, <1>7 DEF Surjection
  <2> QED BY <2>2
<1> QED BY <1>1, <1>4, <1>8

\* Ascending lists the members of a set, all of them and nothing else.
LEMMA AscendingLists ==
  ASSUME NEW S \in SUBSET Nat, IsFiniteSet(S)
  PROVE  /\ Ascending(S) \in Seq(S) /\ Len(Ascending(S)) = Cardinality(S)
         /\ ToSet(Ascending(S)) = S
<1> DEFINE N == Cardinality(S)
           At(k) == CHOOSE x \in S : Cardinality({y \in S : y < x}) = k - 1
<1>0. N \in Nat
  BY FS_CardinalityType
<1>1. Ascending(S) = [k \in 1 .. N |-> At(k)]
  BY DEF Ascending
<1>2. ASSUME NEW k \in 1 .. N
      PROVE  At(k) \in S /\ Cardinality({y \in S : y < At(k)}) = k - 1
  <2>1. \E x \in S : Cardinality({y \in S : y < x}) = k - 1
    BY Ranks
  <2> QED BY ONLY <2>1
<1>3. Ascending(S) \in [1 .. N -> S]
  BY <1>1, <1>2
<1>4. Ascending(S) \in Seq(S) /\ Len(Ascending(S)) = N
  BY <1>3, <1>0, FunctionIsSeq
<1>5. ASSUME NEW x \in S PROVE x \in ToSet(Ascending(S))
  <2> DEFINE k == Cardinality({y \in S : y < x}) + 1
  <2>1. k \in 1 .. N /\ Cardinality({y \in S : y < x}) = k - 1
    BY Ranks, <1>0
  <2>2. At(k) \in S /\ Cardinality({y \in S : y < At(k)}) = k - 1
    BY <1>2, <2>1
  <2>3. At(k) = x
    BY <2>1, <2>2, Ranks
  <2> QED BY <2>1, <2>3, <1>1 DEF ToSet
<1>6. ToSet(Ascending(S)) \subseteq S
  BY <1>3 DEF ToSet
<1> QED BY <1>4, <1>5, <1>6

\* The members of a sequence without repetition, counted.
LEMMA DistinctCount ==
  ASSUME NEW S, NEW s \in Seq(S), \A i, j \in DOMAIN s : s[i] = s[j] => i = j
  PROVE  IsFiniteSet(ToSet(s)) /\ Cardinality(ToSet(s)) = Len(s)
<1> DEFINE n == Len(s)
           T == ToSet(s)
<1>1. n \in Nat /\ DOMAIN s = 1 .. n
  OBVIOUS
<1>2. s \in [1 .. n -> T]
  BY <1>1 DEF ToSet
<1>3. \A t \in T : \E i \in 1 .. n : s[i] = t
  BY <1>1 DEF ToSet
<1>4. s \in Bijection(1 .. n, T)
  BY <1>1, <1>2, <1>3 DEF Bijection, Injection, Surjection, IsInjective
<1>5. IsFiniteSet(1 .. n) /\ Cardinality(1 .. n) = n
  <2>1. 1 \in Int /\ n \in Int /\ (1 > n => n = 0) /\ n - 1 + 1 = n
    BY <1>1
  <2> HIDE DEF n
  <2> QED BY <2>1, FS_Interval
<1>6. ExistsBijection(1 .. n, T)
  BY <1>4 DEF ExistsBijection
<1> HIDE DEF n, T
<1>7. IsFiniteSet(T) /\ Cardinality(T) = n
  BY <1>5, <1>6, FS_Bijection
<1> QED BY <1>7 DEF n, T

------------------------------------------------------------------------------
(* The parts of a graph.                                                     *)

LEMMA GraphFacts ==
  ASSUME NEW g, IsIrGraph(g)
  PROVE  /\ Len(g.nodes) \in Nat /\ DOMAIN g.nodes = 1 .. Len(g.nodes)
         /\ Len(g.edges) \in Nat /\ DOMAIN g.edges = 1 .. Len(g.edges)
         /\ \A i \in DOMAIN g.nodes : g.nodes[i].id \in Nat /\ IsNodeOp(g.nodes[i].op)
         /\ \A i \in DOMAIN g.edges : IsIrEdge(g.edges[i])
         /\ Ids(g) \subseteq Nat /\ IsFiniteSet(Ids(g)) /\ Cardinality(Ids(g)) <= Len(g.nodes)
<1>1. g.nodes \in Seq(ToSet(g.nodes)) /\ g.edges \in Seq(ToSet(g.edges))
  BY DEF IsIrGraph, IsSequence
<1>2. /\ Len(g.nodes) \in Nat /\ DOMAIN g.nodes = 1 .. Len(g.nodes)
      /\ Len(g.edges) \in Nat /\ DOMAIN g.edges = 1 .. Len(g.edges)
  BY <1>1
<1>3. \A i \in DOMAIN g.nodes : g.nodes[i].id \in Nat /\ IsNodeOp(g.nodes[i].op)
  BY DEF IsIrGraph, ToSet
<1>4. \A i \in DOMAIN g.edges : IsIrEdge(g.edges[i])
  BY DEF IsIrGraph, ToSet
<1>5. Ids(g) \subseteq Nat
  BY <1>3 DEF Ids
<1> DEFINE n == Len(g.nodes)
           ids == [i \in 1 .. n |-> g.nodes[i].id]
<1>6. ids \in Surjection(1 .. n, Ids(g))
  BY <1>2 DEF Surjection, Ids
<1>7. IsFiniteSet(1 .. n) /\ Cardinality(1 .. n) = n
  <2>1. 1 \in Int /\ n \in Int /\ (1 > n => n = 0) /\ n - 1 + 1 = n
    BY <1>2
  <2> HIDE DEF n
  <2> QED BY <2>1, FS_Interval
<1>8. IsFiniteSet(Ids(g)) /\ Cardinality(Ids(g)) <= n
  <2> HIDE DEF n, ids
  <2> QED BY <1>6, <1>7, FS_Surjection
<1> QED BY <1>2, <1>3, <1>4, <1>5, <1>8

\* The least of a set of numbers is one of them.
LEMMA MinIsLeast ==
  ASSUME NEW S \in SUBSET Nat, S # {}
  PROVE  Min(S) \in S /\ \A x \in S : Min(S) <= x
<1>1. \E n \in S : \A m \in S : n <= m
  BY LeastNumber
<1> QED BY <1>1 DEF Min

\* The greatest of a finite set of numbers is one of them.
LEMMA MaxIsGreatest ==
  ASSUME NEW n \in Nat, NEW S \in SUBSET (0 .. n), S # {}
  PROVE  Max(S) \in S /\ \A x \in S : x <= Max(S)
<1> DEFINE T == {n - x : x \in S}
<1>1. T \in SUBSET Nat /\ T # {}
  <2>1. \A x \in 0 .. n : n - x \in Nat
    OBVIOUS
  <2>2. \A x \in S : n - x \in Nat
    BY <2>1
  <2> QED BY <2>2
<1>2. PICK m \in T : \A k \in T : m <= k
  BY <1>1, LeastNumber
<1>3. PICK x \in S : m = n - x
  BY <1>2
<1>4. \A y \in S : x >= y
  <2> SUFFICES ASSUME NEW y \in S PROVE x >= y
    OBVIOUS
  <2>1. n - y \in T
    OBVIOUS
  <2>2. m <= n - y
    BY <2>1, <1>2
  <2> QED BY <2>2, <1>3
<1>5. \E z \in S : \A y \in S : z >= y
  BY <1>4
<1>6. Max(S) \in S /\ \A y \in S : Max(S) >= y
  BY <1>5 DEF Max
<1> QED BY <1>6

LEMMA NodeOpFacts ==
  ASSUME NEW g, IsIrGraph(g), NEW n \in Ids(g)
  PROVE  \E i \in DOMAIN g.nodes : /\ g.nodes[i].id = n /\ NodeOp(g, n) = g.nodes[i].op
                                   /\ IsNodeOp(NodeOp(g, n))
<1> DEFINE S == {i \in DOMAIN g.nodes : g.nodes[i].id = n}
<1>1. S \in SUBSET Nat
  BY GraphFacts
<1>2. S # {}
  BY DEF Ids
<1>3. Min(S) \in S
  BY <1>1, <1>2, MinIsLeast
<1>4. NodeOp(g, n) = g.nodes[Min(S)].op
  BY DEF NodeOp
<1>5. IsNodeOp(g.nodes[Min(S)].op)
  BY <1>3, GraphFacts
<1> QED BY <1>3, <1>4, <1>5

\* The children of a node are the targets of its edges.
LEMMA ChildrenFacts ==
  ASSUME graph \in Graphs, NEW n
  PROVE  /\ Children(n) \in Seq(Ids(graph))
         /\ \A c : c \in ToSet(Children(n)) <=>
              \E i \in DOMAIN graph.edges : /\ graph.edges[i].from = n /\ graph.edges[i].to = c
                                            /\ {n, c} \subseteq Ids(graph)
<1> DEFINE S == {i \in DOMAIN graph.edges :
                   graph.edges[i].from = n /\ {n, graph.edges[i].to} \subseteq Ids(graph)}
           out == Ascending(S)
<1>1. IsIrGraph(graph)
  BY GraphsAssumption
<1>2. S \in SUBSET Nat /\ IsFiniteSet(S)
  <2>1. S \in SUBSET Nat /\ \A s \in S : s <= Len(graph.edges)
    BY <1>1, GraphFacts
  <2>2. Len(graph.edges) \in Nat
    BY <1>1, GraphFacts
  <2> HIDE DEF S
  <2> QED BY <2>1, <2>2, FS_BoundedSetOfNaturals
<1>3. out \in Seq(S) /\ ToSet(out) = S
  BY <1>2, AscendingLists
<1>4. Children(n) = [k \in DOMAIN out |-> graph.edges[out[k]].to]
  BY DEF Children
<1>5. DOMAIN out = 1 .. Len(out) /\ Len(out) \in Nat /\ \A k \in DOMAIN out : out[k] \in S
  <2> HIDE DEF out, S
  <2> QED BY <1>3
<1>6. Children(n) \in [1 .. Len(out) -> Ids(graph)]
  <2> HIDE DEF out
  <2> QED BY <1>4, <1>5
<1>7. Children(n) \in Seq(Ids(graph))
  <2> HIDE DEF out
  <2> QED BY <1>5, <1>6, FunctionIsSeq
<1>8. ToSet(Children(n)) = {graph.edges[s].to : s \in ToSet(out)}
  <2> HIDE DEF out
  <2> QED BY <1>4 DEF ToSet
<1>9. ASSUME NEW c
      PROVE  c \in ToSet(Children(n)) <=>
              \E i \in DOMAIN graph.edges : /\ graph.edges[i].from = n /\ graph.edges[i].to = c
                                            /\ {n, c} \subseteq Ids(graph)
  <2> HIDE DEF out
  <2> QED BY <1>8, <1>3
<1> QED BY <1>7, <1>9

LEMMA ChildrenOfFacts ==
  ASSUME graph \in Graphs
  PROVE  /\ ChildrenOf \in [Ids(graph) -> SUBSET Ids(graph)]
         /\ \A n \in Ids(graph) : ChildrenOf[n] = ToSet(Children(n))
<1>1. \A n \in Ids(graph) : Children(n) \in Seq(Ids(graph))
  BY ChildrenFacts
<1>2. \A n \in Ids(graph) : ToSet(Children(n)) \in SUBSET Ids(graph)
  BY <1>1 DEF ToSet
<1> QED BY <1>2 DEF ChildrenOf

\* The dependencies of a node are the sources of the edges that feed its ports.
LEMMA DepsFacts ==
  ASSUME graph \in Graphs, NEW n
  PROVE  /\ Deps(n) \in Seq(Ids(graph))
         /\ \A d : d \in ToSet(Deps(n)) <=>
              /\ d \in Ids(graph)
              /\ \E k \in DOMAIN InputPorts(NodeOp(graph, n)) :
                   \E e \in InputSource(n, InputPorts(NodeOp(graph, n))[k]) : e.from = d
<1> DEFINE ports == InputPorts(NodeOp(graph, n))
           edges == UNION {InputSource(n, ports[i]) : i \in DOMAIN ports}
           S == {e.from : e \in edges} \cap Ids(graph)
<1>1. IsIrGraph(graph)
  BY GraphsAssumption
<1>2. S \in SUBSET Nat /\ IsFiniteSet(S)
  <2>1. S \in SUBSET Ids(graph) /\ Ids(graph) \subseteq Nat /\ IsFiniteSet(Ids(graph))
    BY <1>1, GraphFacts
  <2> HIDE DEF S
  <2> QED BY <2>1, FS_Subset
<1>3. Ascending(S) \in Seq(S) /\ ToSet(Ascending(S)) = S
  BY <1>2, AscendingLists
<1>4. Deps(n) = Ascending(S)
  BY DEF Deps
<1>5. Deps(n) \in Seq(Ids(graph)) /\ ToSet(Deps(n)) = S
  <2>1. S \in SUBSET Ids(graph)
    OBVIOUS
  <2> HIDE DEF S
  <2> QED BY <1>3, <1>4, <2>1
<1>6. \A d : d \in ToSet(Deps(n)) <=>
              /\ d \in Ids(graph)
              /\ \E k \in DOMAIN ports : \E e \in InputSource(n, ports[k]) : e.from = d
  BY <1>5
<1> QED BY <1>5, <1>6

LEMMA DepsOfFacts ==
  ASSUME graph \in Graphs
  PROVE  /\ DepsOf \in [Ids(graph) -> SUBSET Ids(graph)]
         /\ \A n \in Ids(graph) : DepsOf[n] = ToSet(Deps(n))
         /\ \A n \in Ids(graph) : \A d \in DepsOf[n] : n \in ChildrenOf[d]
<1>1. \A n \in Ids(graph) : Deps(n) \in Seq(Ids(graph))
  BY DepsFacts
<1>2. \A n \in Ids(graph) : ToSet(Deps(n)) \in SUBSET Ids(graph)
  BY <1>1 DEF ToSet
<1>3. DepsOf \in [Ids(graph) -> SUBSET Ids(graph)] /\ \A n \in Ids(graph) : DepsOf[n] = ToSet(Deps(n))
  BY <1>2 DEF DepsOf
<1>4. ASSUME NEW n \in Ids(graph), NEW d \in DepsOf[n]
      PROVE  n \in ChildrenOf[d]
  <2>1. d \in Ids(graph) /\ d \in ToSet(Deps(n))
    BY <1>3
  <2>0. PICK k \in DOMAIN InputPorts(NodeOp(graph, n)) :
            \E e \in InputSource(n, InputPorts(NodeOp(graph, n))[k]) : e.from = d
    BY <2>1, DepsFacts
  <2>2. PICK e \in InputSource(n, InputPorts(NodeOp(graph, n))[k]) : e.from = d
    BY <2>0
  <2>3. PICK i \in DOMAIN graph.edges : graph.edges[i].to = n /\ e = graph.edges[i]
    BY DEF InputSource
  <2>4. n \in ToSet(Children(d))
    BY <2>1, <2>2, <2>3, ChildrenFacts
  <2> QED BY <2>1, <2>4, ChildrenOfFacts
<1> QED BY <1>3, <1>4

------------------------------------------------------------------------------
(* Reach.                                                                    *)

\* Reach is the last of a chain of growing sets.
LEMMA ReachSteps ==
  ASSUME graph \in Graphs, NEW from, NEW succ
  PROVE  \E f : /\ f = [k \in 0 .. Len(graph.nodes) |->
                          IF k = 0 THEN from ELSE f[k - 1] \cup UNION {succ[n] : n \in f[k - 1]}]
                /\ Reach(from, succ) = f[Len(graph.nodes)]
<1> DEFINE N == Len(graph.nodes)
           Wider(r) == r \cup UNION {succ[n] : n \in r}
           Steps(g, n) == g = [k \in 0 .. n |-> IF k = 0 THEN from ELSE Wider(g[k - 1])]
           Bad == {n \in Nat : ~ \E g : Steps(g, n)}
<1>0. N \in Nat
  BY GraphsAssumption, GraphFacts
<1>1. ASSUME Bad # {} PROVE FALSE
  <2> HIDE DEF Wider
  <2>1. PICK n \in Bad : \A m \in Bad : n <= m
    BY <1>1, LeastNumber, Zenon
  <2>2. CASE n = 0
    <3>1. Steps([k \in 0 .. 0 |-> from], 0)
      OBVIOUS
    <3> QED BY <3>1, <2>2
  <2>3. CASE n # 0
    <3>1. n \in Nat
      BY <2>1
    <3> HIDE DEF Bad
    <3>2. n - 1 \in Nat /\ n - 1 \notin Bad
      BY <2>1, <2>3, <3>1
    <3> USE DEF Bad
    <3>3. n - 1 \in Nat /\ n - 1 \notin Bad
      BY <3>2, Zenon
    <3>4. PICK g : Steps(g, n - 1)
      BY <3>3
    <3> DEFINE h == [k \in 0 .. n |-> IF k = n THEN Wider(g[n - 1]) ELSE g[k]]
    <3>5. ASSUME NEW k \in 0 .. n
          PROVE  h[k] = IF k = 0 THEN from ELSE Wider(h[k - 1])
      <4>1. CASE k = n
        <5>1. h[k - 1] = g[n - 1]
          BY <4>1, <2>3
        <5> QED BY <4>1, <5>1, <2>3
      <4>2. CASE k # n
        <5>1. k \in 0 .. n - 1 /\ (k # 0 => k - 1 \in 0 .. n - 1 /\ k - 1 # n /\ k - 1 \in 0 .. n)
          BY <4>2
        <5>2. g[k] = IF k = 0 THEN from ELSE Wider(g[k - 1])
          BY <3>4, <5>1
        <5> QED BY <4>2, <5>1, <5>2
      <4> QED BY <4>1, <4>2
    <3>6. Steps(h, n)
      BY <3>5
    <3> QED BY <3>6
  <2> QED BY <2>2, <2>3
<1> DEFINE f == CHOOSE g : g = [k \in 0 .. Len(graph.nodes) |->
                   IF k = 0 THEN from ELSE LET r == g[k - 1] IN r \cup UNION {succ[n] : n \in r}]
<1>2. \E g : Steps(g, N)
  BY <1>0, <1>1
<1>3. Steps(f, N)
  BY <1>2
<1>4. Reach(from, succ) = f[N]
  BY DEF Reach
<1> QED BY <1>3, <1>4

\* Reach stays inside a set that is closed.
LEMMA ReachClosed ==
  ASSUME graph \in Graphs, NEW from, NEW succ, NEW C,
         from \subseteq C, \A n \in C : succ[n] \subseteq C
  PROVE  Reach(from, succ) \subseteq C
<1> DEFINE N == Len(graph.nodes)
<1>0. N \in Nat
  BY GraphsAssumption, GraphFacts
<1>1. PICK f : /\ f = [k \in 0 .. N |->
                         IF k = 0 THEN from ELSE f[k - 1] \cup UNION {succ[n] : n \in f[k - 1]}]
               /\ Reach(from, succ) = f[N]
  BY ReachSteps
<1> DEFINE Bad == {k \in 0 .. N : ~ (f[k] \subseteq C)}
<1> HIDE DEF N
<1>2. ASSUME NEW k \in 0 .. N
      PROVE  f[k] = IF k = 0 THEN from ELSE f[k - 1] \cup UNION {succ[n] : n \in f[k - 1]}
  BY <1>1
<1>3. ASSUME Bad # {} PROVE FALSE
  <2>1. Bad \in SUBSET Nat
    BY <1>0
  <2>2. PICK k \in Bad : \A m \in Bad : k <= m
    BY <1>3, <2>1, LeastNumber
  <2>3. k \in 0 .. N /\ ~ (f[k] \subseteq C)
    OBVIOUS
  <2>4. k # 0
    BY <1>2, <2>3
  <2>5. k - 1 \in 0 .. N /\ ~ (k <= k - 1)
    BY <2>3, <2>4, <1>0
  <2>6. f[k - 1] \subseteq C
    BY <2>2, <2>5
  <2>7. UNION {succ[n] : n \in f[k - 1]} \subseteq C
    BY <2>6
  <2> QED BY <1>2, <2>3, <2>4, <2>6, <2>7
<1>4. \A k \in 0 .. N : f[k] \subseteq C
  BY <1>3
<1>5. N \in 0 .. N
  BY <1>0
<1> QED BY ONLY <1>1, <1>4, <1>5

\* A path as long as the graph has nodes ends in Reach.
LEMMA ReachPath ==
  ASSUME graph \in Graphs, NEW from, NEW succ, NEW T, NEW p \in Seq(T),
         Len(p) \in 1 .. Len(graph.nodes) + 1, p[1] \in from,
         \A i \in 1 .. Len(p) - 1 : p[i + 1] \in succ[p[i]]
  PROVE  p[Len(p)] \in Reach(from, succ)
<1> DEFINE N == Len(graph.nodes)
           L == Len(p)
<1>0. N \in Nat /\ L \in 1 .. N + 1
  BY GraphsAssumption, GraphFacts
<1>1. PICK f : /\ f = [k \in 0 .. N |->
                         IF k = 0 THEN from ELSE f[k - 1] \cup UNION {succ[n] : n \in f[k - 1]}]
               /\ Reach(from, succ) = f[N]
  BY ReachSteps
<1> DEFINE Bad == {k \in 0 .. N : ~ (p[IF k < L THEN k + 1 ELSE L] \in f[k])}
<1> HIDE DEF N, L
<1>2. ASSUME NEW k \in 0 .. N
      PROVE  f[k] = IF k = 0 THEN from ELSE f[k - 1] \cup UNION {succ[n] : n \in f[k - 1]}
  BY <1>1
<1>3. ASSUME Bad # {} PROVE FALSE
  <2>1. Bad \in SUBSET Nat
    BY <1>0
  <2>2. PICK k \in Bad : \A m \in Bad : k <= m
    BY <1>3, <2>1, LeastNumber
  <2>3. k \in 0 .. N /\ ~ (p[IF k < L THEN k + 1 ELSE L] \in f[k])
    OBVIOUS
  <2>4. k # 0
    <3> SUFFICES ASSUME k = 0 PROVE FALSE
      OBVIOUS
    <3>1. (IF k < L THEN k + 1 ELSE L) = 1
      BY <1>0
    <3>2. f[k] = from
      BY <1>2, <2>3
    <3> QED BY <3>1, <3>2, <2>3
  <2>5. k - 1 \in 0 .. N /\ ~ (k <= k - 1)
    BY <2>3, <2>4, <1>0
  <2>6. p[IF k - 1 < L THEN k ELSE L] \in f[k - 1]
    <3>1. k - 1 \notin Bad
      BY <2>2, <2>5
    <3>2. p[IF k - 1 < L THEN k - 1 + 1 ELSE L] \in f[k - 1]
      BY <3>1, <2>5
    <3>3. k - 1 + 1 = k
      BY <2>3
    <3> QED BY <3>2, <3>3
  <2>7. f[k] = f[k - 1] \cup UNION {succ[n] : n \in f[k - 1]}
    BY <1>2, <2>3, <2>4
  <2>8. CASE k < L
    <3>1. k \in 1 .. L - 1 /\ k - 1 < L
      BY <2>8, <2>3, <2>4, <1>0
    <3>2. p[k] \in f[k - 1] /\ p[k + 1] \in succ[p[k]]
      BY <3>1, <2>6 DEF L
    <3> QED BY <3>2, <2>3, <2>7, <2>8
  <2>9. CASE ~ (k < L)
    <3>1. (IF k - 1 < L THEN k ELSE L) = L
      BY <2>9, <2>3, <2>4, <1>0
    <3> QED BY <3>1, <2>3, <2>6, <2>7, <2>9
  <2> QED BY <2>8, <2>9
<1>4. \A k \in 0 .. N : p[IF k < L THEN k + 1 ELSE L] \in f[k]
  BY <1>3
<1>5. N \in 0 .. N /\ (IF N < L THEN N + 1 ELSE L) = L
  BY <1>0
<1>6. p[L] \in f[N]
  BY ONLY <1>4, <1>5
<1> QED BY <1>1, <1>6 DEF L
------------------------------------------------------------------------------
(* The inductive invariant.                                                  *)

Distinct(s) == \A i, j \in DOMAIN s : s[i] = s[j] => i = j
Earlier(s, i) == {s[j] : j \in 1 .. i - 1}

\* Whatever a member of the sequence leads to stands before it.
Closed(s, succ) == \A i \in DOMAIN s : succ[s[i]] \subseteq Earlier(s, i)

Frames(V) == [node : V, next : Nat \ {0}]

NodesOf(s) == {s[i].node : i \in DOMAIN s}
AdvanceOf(s) == [s EXCEPT ![Len(s)].next = @ + 1]
PushOf(s, c) == Append(AdvanceOf(s), Frame(c))
NextOf(list, s) == list[s[Len(s)].node][s[Len(s)].next]

\* A stack of frames is a path of distinct nodes: each is what the frame below
\* it looked at last.
IsPath(V, list, s) ==
  /\ s \in Seq(Frames(V))
  /\ \A i, j \in DOMAIN s : s[i].node = s[j].node => i = j
  /\ \A i \in DOMAIN s : s[i].next <= Len(list[s[i].node]) + 1
  /\ \A i \in 1 .. Len(s) - 1 : s[i].next > 1 /\ list[s[i].node][s[i].next - 1] = s[i + 1].node

\* What a frame has looked at is done, or is the frame above it.
Settled(list, s, done) ==
  \A i \in DOMAIN s : \A k \in 1 .. s[i].next - 1 :
    list[s[i].node][k] \in done \/ (i < Len(s) /\ k = s[i].next - 1)

ChildLists == [n \in Ids(graph) |-> Children(n)]
DepLists == [n \in Ids(graph) |-> Deps(n)]

Looping == {n \in Ids(graph) : n \in Reach(ChildrenOf[n], ChildrenOf)}
Needed == Reach({OutputNode}, DepsOf)

\* The search for cycles.
SearchInv ==
  /\ graph \in Graphs /\ ctx \in Contexts
  /\ pc \in {"edges", "cycles", "order", "emit", "write", "refused", "done"}
  /\ pc \notin {"cycles", "order"} => stack = <<>>
  /\ pc = "edges" => finished = <<>> /\ cycles = {}
  /\ pc # "edges" => incoming = Incoming(graph)
  /\ finished \in Seq(Ids(graph)) /\ Distinct(finished)
  /\ cycles \subseteq Looping
  /\ cycles = {} => Closed(finished, ChildrenOf)
  /\ pc = "cycles" => /\ IsPath(Ids(graph), ChildLists, stack)
                      /\ OnStack \cap ToSet(finished) = {}
                      /\ cycles = {} => Settled(ChildLists, stack, ToSet(finished))
  /\ pc \notin {"edges", "cycles"} => Ids(graph) \subseteq ToSet(finished)

\* The verdict.
VerdictInv ==
  /\ pc \in {"edges", "cycles"} => diagnostics = {}
  /\ pc \notin {"edges", "cycles"} => diagnostics = Check(graph, ctx, incoming, cycles)
  /\ pc \notin {"edges", "cycles"} => (pc = "refused" <=> diagnostics # {})

\* The search for the order of the statements.
OrderInv ==
  /\ pc \in {"edges", "cycles", "refused"} => order = <<>>
  /\ pc \in {"edges", "cycles", "refused", "order"} => stmts = <<>>
  /\ pc = "order" =>
       /\ IsPath(Ids(graph), DepLists, stack)
       /\ stack # <<>> /\ stack[1].node = OutputNode
       /\ order \in Seq(Ids(graph)) /\ Distinct(order) /\ Closed(order, DepsOf)
       /\ OnStack \cap ToSet(order) = {}
       /\ OnStack \cup ToSet(order) \subseteq Needed
       /\ Settled(DepLists, stack, ToSet(order))

\* The nodes whose statements are there: those needed and no longer to come.
Lowered == Needed \ ToSet(order)

\* A statement stands for an output port of its node, one of those lowered, and
\* reads what feeds it.
StmtIn(S, i, lowered) ==
  LET s == S[i]
      op == NodeOp(graph, s.node)
      ports == InputPorts(s.op)
  IN  /\ s.node \in lowered /\ s.type \in PortType
      /\ HasOutputPort(op, s.port)
      /\ s.op.kind = op.kind /\ (op.kind # "Sample" => s.op = op) /\ ports = InputPorts(op)
      /\ Len(s.operands) = Len(ports)
      /\ \A k \in DOMAIN ports :
             LET t == s.operands[k]
             IN  /\ t \in Nat /\ t + 1 < i
                 /\ \E e \in InputSource(s.node, ports[k]) :
                      S[t + 1].node = e.from /\ S[t + 1].port = e.out

\* It has the type the checker found, if it found one.
UntypedOf(type, s) ==
  \/ s.op.kind = "Builtin" /\ s.op.semantic = "Mvp"
  \/ /\ s.op.kind = "Expr"
     /\ \E k \in DOMAIN s.op.operands : InputType(type, incoming, s.node, s.op.operands[k]) = None

AgreesWith(type, s) ==
  LET t == type[<<s.node, s.port>>]
  IN  t = s.type \/ (t = None /\ UntypedOf(type, s))

\* The statements.  What is still to come is in order, the Output last.
EmitInv ==
  pc \in {"emit", "write", "done"} =>
    /\ order \in Seq(Ids(graph)) /\ order # <<>> /\ Distinct(order)
    /\ order[Len(order)] = OutputNode /\ ToSet(order) \subseteq Needed
    /\ pc # "emit" => Len(order) = 1
    /\ \A i \in DOMAIN order : DepsOf[order[i]] \subseteq Lowered \cup Earlier(order, i)
    /\ IsSequence(stmts)
    /\ \A i \in Stmts : StmtIn(stmts, i, Lowered)
    /\ \A n \in Lowered : \A port \in OutputPorts(NodeOp(graph, n)) : Defining(n, port) # {}
    /\ OutputsAreNamedApart =>
         /\ \A i, j \in Stmts : stmts[i].node = stmts[j].node /\ stmts[i].port = stmts[j].port => i = j
         /\ \A i \in Stmts : AgreesWith(Inferred(graph, incoming), stmts[i])

------------------------------------------------------------------------------
(* What the steps of a search do to its stack.                               *)

LEMMA AdvanceFacts ==
  ASSUME NEW V, NEW s \in Seq(Frames(V)), s # <<>>
  PROVE  LET t == [s EXCEPT ![Len(s)].next = @ + 1]
         IN  /\ t \in Seq(Frames(V)) /\ Len(t) = Len(s) /\ DOMAIN t = DOMAIN s
             /\ \A i \in DOMAIN s : /\ t[i].node = s[i].node
                                    /\ t[i].next = IF i = Len(s) THEN s[i].next + 1 ELSE s[i].next
<1> DEFINE L == Len(s)
           t == [s EXCEPT ![L].next = @ + 1]
<1>1. L \in Nat \ {0} /\ DOMAIN s = 1 .. L /\ \A i \in 1 .. L : s[i] \in Frames(V)
  OBVIOUS
<1> HIDE DEF L
<1>2. ASSUME NEW i \in 1 .. L
      PROVE  /\ s[i] = [node |-> s[i].node, next |-> s[i].next]
             /\ s[i].node \in V /\ s[i].next \in Nat \ {0}
  BY <1>1 DEF Frames
<1>3. DOMAIN t = 1 .. L
  BY <1>1
<1>4. ASSUME NEW i \in 1 .. L
      PROVE  t[i] = IF i = L THEN [node |-> s[i].node, next |-> s[i].next + 1] ELSE s[i]
  BY <1>1, <1>2
<1>5. ASSUME NEW i \in 1 .. L
      PROVE  /\ t[i] \in Frames(V) /\ t[i].node = s[i].node
             /\ t[i].next = IF i = L THEN s[i].next + 1 ELSE s[i].next
  BY <1>1, <1>2, <1>4 DEF Frames
<1>6. t \in [1 .. L -> Frames(V)]
  <2>1. t = [i \in 1 .. L |-> t[i]]
    BY <1>1
  <2> HIDE DEF t
  <2> QED BY <2>1, <1>5
<1>7. t \in Seq(Frames(V)) /\ Len(t) = L
  <2> HIDE DEF t
  <2> QED BY <1>1, <1>6, FunctionIsSeq
<1> QED BY <1>1, <1>3, <1>5, <1>7 DEF L

\* A step over a node that is done, or (in the search for cycles) on the stack.
LEMMA AdvanceKeeps ==
  ASSUME NEW V, NEW list \in [V -> Seq(V)], NEW s, IsPath(V, list, s), s # <<>>,
         s[Len(s)].next <= Len(list[s[Len(s)].node])
  PROVE  LET t == AdvanceOf(s)
         IN  /\ IsPath(V, list, t) /\ t # <<>> /\ t[1].node = s[1].node
             /\ NodesOf(t) = NodesOf(s)
             /\ \A done : Settled(list, s, done) /\ list[s[Len(s)].node][s[Len(s)].next] \in done
                            => Settled(list, t, done)
<1> DEFINE L == Len(s)
           t == [s EXCEPT ![L].next = @ + 1]
<1>0. s \in Seq(Frames(V)) /\ L \in Nat \ {0} /\ DOMAIN s = 1 .. L
  BY DEF IsPath
<1>1. /\ t \in Seq(Frames(V)) /\ Len(t) = L /\ DOMAIN t = 1 .. L
      /\ \A i \in 1 .. L : /\ t[i].node = s[i].node
                           /\ t[i].next = IF i = L THEN s[i].next + 1 ELSE s[i].next
  BY <1>0, AdvanceFacts
<1>2. ASSUME NEW i \in 1 .. L
      PROVE  s[i].node \in V /\ s[i].next \in Nat \ {0} /\ Len(list[s[i].node]) \in Nat
  <2>1. s[i] \in Frames(V)
    BY <1>0
  <2>2. s[i].node \in V /\ s[i].next \in Nat \ {0}
    BY <2>1 DEF Frames
  <2> QED BY <2>2
<1>3. s[L].next <= Len(list[s[L].node])
  OBVIOUS
<1> HIDE DEF t, L
<1>4. IsPath(V, list, t)
  <2>1. ASSUME NEW i \in 1 .. L PROVE t[i].next <= Len(list[t[i].node]) + 1
    <3>1. s[i].next <= Len(list[s[i].node]) + 1
      BY <1>0 DEF IsPath
    <3>2. s[i].next \in Nat /\ Len(list[s[i].node]) \in Nat
      BY <1>2
    <3>3. t[i].node = s[i].node /\ t[i].next = IF i = L THEN s[i].next + 1 ELSE s[i].next
      BY <1>1
    <3>4. i = L => s[i].next <= Len(list[s[i].node])
      BY <1>3
    <3> QED BY <3>1, <3>2, <3>3, <3>4
  <2>2. \A i, j \in DOMAIN t : t[i].node = t[j].node => i = j
    BY <1>0, <1>1 DEF IsPath
  <2>3. \A i \in 1 .. Len(t) - 1 : t[i].next > 1 /\ list[t[i].node][t[i].next - 1] = t[i + 1].node
    <3> SUFFICES ASSUME NEW i \in 1 .. L - 1
                 PROVE  t[i].next > 1 /\ list[t[i].node][t[i].next - 1] = t[i + 1].node
      BY <1>1
    <3>1. i \in 1 .. L /\ i + 1 \in 1 .. L /\ i # L
      BY <1>0
    <3>2. s[i].next > 1 /\ list[s[i].node][s[i].next - 1] = s[i + 1].node
      BY DEF IsPath, L
    <3> QED BY <1>1, <3>1, <3>2
  <2> QED BY <1>1, <2>1, <2>2, <2>3 DEF IsPath
<1>5. {t[i].node : i \in DOMAIN t} = {s[i].node : i \in DOMAIN s}
  BY <1>0, <1>1
<1>6. ASSUME NEW done, Settled(list, s, done), list[s[L].node][s[L].next] \in done
      PROVE  Settled(list, t, done)
  <2> SUFFICES ASSUME NEW i \in 1 .. L, NEW k \in 1 .. t[i].next - 1
               PROVE  list[t[i].node][k] \in done \/ (i < L /\ k = t[i].next - 1)
    BY <1>1 DEF Settled
  <2>1. CASE i = L
    <3>1. k \in 1 .. s[i].next - 1 \/ k = s[i].next
      BY <1>1, <1>2, <2>1
    <3>2. ASSUME k \in 1 .. s[i].next - 1 PROVE list[s[i].node][k] \in done
      <4>1. list[s[i].node][k] \in done \/ (i < L /\ k = s[i].next - 1)
        BY <1>0, <1>6, <3>2 DEF Settled, L
      <4> QED BY <4>1, <2>1, <1>0
    <3> QED BY <3>1, <3>2, <1>1, <1>6, <2>1
  <2>2. CASE i # L
    <3>1. k \in 1 .. s[i].next - 1
      BY <1>1, <2>2
    <3>2. list[s[i].node][k] \in done \/ (i < L /\ k = s[i].next - 1)
      BY <1>0, <1>6, <3>1 DEF Settled, L
    <3> QED BY <1>1, <2>2, <3>2
  <2> QED BY <2>1, <2>2
<1>7. \A done : Settled(list, s, done) /\ list[s[L].node][s[L].next] \in done => Settled(list, t, done)
  BY <1>6
<1>8. t = AdvanceOf(s) /\ t # <<>> /\ t[1].node = s[1].node
  BY <1>0, <1>1 DEF t, L, AdvanceOf
<1>9. NodesOf(t) = NodesOf(s)
  BY <1>5 DEF NodesOf
<1> QED BY <1>4, <1>7, <1>8, <1>9 DEF L

LEMMA PushNodes ==
  ASSUME NEW V, NEW s \in Seq(Frames(V)), s # <<>>, NEW c \in V
  PROVE  /\ NodesOf(PushOf(s, c)) = NodesOf(s) \cup {c}
         /\ Len(PushOf(s, c)) = Len(s) + 1 /\ PushOf(s, c)[Len(s) + 1].node = c
<1> DEFINE L == Len(s)
           u == AdvanceOf(s)
           t == PushOf(s, c)
<1>0. L \in Nat /\ DOMAIN s = 1 .. L
  OBVIOUS
<1>1. /\ u \in Seq(Frames(V)) /\ Len(u) = L /\ DOMAIN u = 1 .. L
      /\ \A i \in 1 .. L : u[i].node = s[i].node
  BY <1>0, AdvanceFacts DEF AdvanceOf
<1>2. Frame(c) \in Frames(V) /\ Frame(c).node = c
  BY DEF Frame, Frames
<1> HIDE DEF u
<1>3. DOMAIN t = 1 .. L + 1 /\ (\A i \in 1 .. L : t[i] = u[i]) /\ t[L + 1] = Frame(c) /\ Len(t) = L + 1
  BY <1>0, <1>1, <1>2 DEF PushOf, u
<1> HIDE DEF t, L
<1>4. \A i \in 1 .. L + 1 : t[i].node = IF i = L + 1 THEN c ELSE s[i].node
  <2> SUFFICES ASSUME NEW i \in 1 .. L + 1 PROVE t[i].node = IF i = L + 1 THEN c ELSE s[i].node
    OBVIOUS
  <2>1. i \in 1 .. L \/ i = L + 1
    BY <1>0
  <2>2. i \in 1 .. L => i # L + 1
    BY <1>0
  <2> QED BY <2>1, <2>2, <1>1, <1>2, <1>3
<1>5. \A x \in NodesOf(t) : x \in NodesOf(s) \cup {c}
  <2>1. \A i \in 1 .. L + 1 : i \in 1 .. L \/ i = L + 1
    BY <1>0
  <2> QED BY <2>1, <1>0, <1>3, <1>4 DEF NodesOf
<1>6. \A x \in NodesOf(s) : x \in NodesOf(t)
  <2>1. \A i \in 1 .. L : i \in 1 .. L + 1 /\ i # L + 1
    BY <1>0
  <2> QED BY <2>1, <1>0, <1>3, <1>4 DEF NodesOf
<1>7. c \in NodesOf(t)
  <2>1. L + 1 \in 1 .. L + 1
    BY <1>0
  <2> QED BY <2>1, <1>3, <1>4 DEF NodesOf
<1> QED BY <1>2, <1>3, <1>5, <1>6, <1>7 DEF t, L

\* A step to a node not seen yet.
LEMMA PushKeeps ==
  ASSUME NEW V, NEW list \in [V -> Seq(V)], NEW s, IsPath(V, list, s), s # <<>>,
         s[Len(s)].next <= Len(list[s[Len(s)].node]), NextOf(list, s) \notin NodesOf(s)
  PROVE  LET c == NextOf(list, s)
             t == PushOf(s, c)
         IN  /\ c \in V /\ IsPath(V, list, t) /\ t # <<>> /\ t[1].node = s[1].node
             /\ \A done : Settled(list, s, done) => Settled(list, t, done)
<1> DEFINE L == Len(s)
           c == NextOf(list, s)
           u == [s EXCEPT ![L].next = @ + 1]
           t == Append(u, Frame(c))
<1>0. s \in Seq(Frames(V)) /\ L \in Nat \ {0} /\ DOMAIN s = 1 .. L
  BY DEF IsPath
<1>1. /\ u \in Seq(Frames(V)) /\ Len(u) = L /\ DOMAIN u = 1 .. L
      /\ \A i \in 1 .. L : /\ u[i].node = s[i].node
                           /\ u[i].next = IF i = L THEN s[i].next + 1 ELSE s[i].next
  BY <1>0, AdvanceFacts
<1>2. ASSUME NEW i \in 1 .. L
      PROVE  /\ s[i].node \in V /\ s[i].next \in Nat \ {0} /\ list[s[i].node] \in Seq(V)
             /\ Len(list[s[i].node]) \in Nat
  <2>1. s[i] \in Frames(V)
    BY <1>0
  <2>2. s[i].node \in V /\ s[i].next \in Nat \ {0}
    BY <2>1 DEF Frames
  <2> QED BY <2>2
<1>3. s[L].next <= Len(list[s[L].node]) /\ c = list[s[L].node][s[L].next] /\ c \notin NodesOf(s)
  BY DEF NextOf
<1> HIDE DEF c
<1>4. c \in V
  <2>1. L \in 1 .. L
    BY <1>0
  <2>2. s[L].next \in 1 .. Len(list[s[L].node])
    BY <1>2, <1>3, <2>1
  <2> QED BY <1>2, <1>3, <2>1, <2>2
<1>5. Frame(c) \in Frames(V) /\ Frame(c).node = c /\ Frame(c).next = 1
  BY <1>4 DEF Frame, Frames
<1> HIDE DEF u, L
<1>6. /\ t \in Seq(Frames(V)) /\ Len(t) = L + 1 /\ DOMAIN t = 1 .. L + 1
      /\ \A i \in 1 .. L : t[i] = u[i]
      /\ t[L + 1] = Frame(c)
  BY <1>0, <1>1, <1>5
<1> HIDE DEF t
<1>7. ASSUME NEW i \in 1 .. L + 1
      PROVE  \/ /\ i \in 1 .. L /\ i # L + 1 /\ t[i].node = s[i].node
                /\ t[i].next = IF i = L THEN s[i].next + 1 ELSE s[i].next
             \/ i = L + 1 /\ t[i].node = c /\ t[i].next = 1
  <2>1. i \in 1 .. L \/ i = L + 1
    BY <1>0
  <2>2. CASE i \in 1 .. L
    <3>1. i # L + 1 /\ t[i] = u[i]
      BY <1>0, <1>6, <2>2
    <3>2. u[i].node = s[i].node /\ u[i].next = IF i = L THEN s[i].next + 1 ELSE s[i].next
      BY <1>1, <2>2
    <3> QED BY <2>2, <3>1, <3>2
  <2>3. CASE i = L + 1
    BY <1>5, <1>6, <2>3
  <2> QED BY <2>1, <2>2, <2>3
<1>8. IsPath(V, list, t)
  <2>1. ASSUME NEW i \in 1 .. L + 1 PROVE t[i].next <= Len(list[t[i].node]) + 1
    <3>1. CASE i = L + 1
      <4>1. t[i].next = 1 /\ t[i].node = c
        BY <1>7, <3>1, <1>0
      <4>2. Len(list[c]) \in Nat
        BY <1>4
      <4> QED BY <4>1, <4>2
    <3>2. CASE i \in 1 .. L
      <4>1. s[i].next <= Len(list[s[i].node]) + 1
        BY <1>0, <3>2 DEF IsPath
      <4>2. s[i].next \in Nat /\ Len(list[s[i].node]) \in Nat
        BY <1>2, <3>2
      <4>3. i # L + 1
        BY <1>0, <3>2
      <4>4. t[i].node = s[i].node /\ t[i].next = IF i = L THEN s[i].next + 1 ELSE s[i].next
        BY <1>7, <4>3
      <4>5. i = L => s[i].next <= Len(list[s[i].node])
        BY <1>3
      <4> QED BY <4>1, <4>2, <4>4, <4>5
    <3> QED BY <3>1, <3>2, <1>0
  <2>2. ASSUME NEW i \in 1 .. L + 1, NEW j \in 1 .. L + 1, t[i].node = t[j].node PROVE i = j
    <3>1. ASSUME NEW k \in 1 .. L PROVE s[k].node # c
      BY <1>0, <1>3 DEF NodesOf
    <3>2. ASSUME i \in 1 .. L, j \in 1 .. L, s[i].node = s[j].node PROVE i = j
      BY <1>0, <3>2 DEF IsPath
    <3> QED BY <1>7, <2>2, <3>1, <3>2
  <2>3. ASSUME NEW i \in 1 .. L
        PROVE  t[i].next > 1 /\ list[t[i].node][t[i].next - 1] = t[i + 1].node
    <3>1. i \in 1 .. L + 1 /\ i + 1 \in 1 .. L + 1
      BY <1>0
    <3>2. CASE i = L
      <4>1. t[i].node = s[i].node /\ t[i].next = s[i].next + 1 /\ t[i + 1].node = c
        BY <1>7, <3>1, <3>2, <1>0
      <4> QED BY <4>1, <1>2, <1>3, <3>2
    <3>3. CASE i # L
      <4>1. i \in 1 .. L - 1 /\ i + 1 \in 1 .. L
        BY <1>0, <3>3
      <4>2. s[i].next > 1 /\ list[s[i].node][s[i].next - 1] = s[i + 1].node
        BY <4>1 DEF IsPath, L
      <4>3. t[i].node = s[i].node /\ t[i].next = s[i].next /\ t[i + 1].node = s[i + 1].node
        BY <1>1, <1>6, <4>1, <3>3
      <4> QED BY <4>2, <4>3
    <3> QED BY <3>2, <3>3
  <2>4. 1 .. Len(t) - 1 = 1 .. L
    BY <1>0, <1>6
  <2> QED BY <1>6, <2>1, <2>2, <2>3, <2>4 DEF IsPath
<1>10. ASSUME NEW done, Settled(list, s, done) PROVE Settled(list, t, done)
  <2> SUFFICES ASSUME NEW i \in 1 .. L + 1, NEW k \in 1 .. t[i].next - 1
               PROVE  list[t[i].node][k] \in done \/ (i < L + 1 /\ k = t[i].next - 1)
    BY <1>6 DEF Settled
  <2>1. CASE i = L + 1
    BY <1>7, <2>1, <1>0
  <2>2. CASE i \in 1 .. L
    <3>1. i < L + 1 /\ t[i].node = s[i].node /\ t[i].next = IF i = L THEN s[i].next + 1 ELSE s[i].next
      BY <1>0, <1>1, <1>6, <2>2
    <3>4. s[i].next \in Nat \ {0} /\ k \in 1 .. t[i].next - 1
      BY <1>2, <2>2
    <3>2. k \in 1 .. s[i].next - 1 \/ k = t[i].next - 1
      BY <3>1, <3>4
    <3>3. ASSUME k \in 1 .. s[i].next - 1, k # t[i].next - 1 PROVE list[s[i].node][k] \in done
      <4>1. list[s[i].node][k] \in done \/ (i < L /\ k = s[i].next - 1)
        BY <1>0, <1>10, <3>3, <2>2 DEF Settled, L
      <4>2. i < L => t[i].next = s[i].next
        BY <3>1, <1>0
      <4> QED BY <4>1, <4>2, <3>3
    <3> QED BY <3>1, <3>2, <3>3
  <2> QED BY <2>1, <2>2, <1>0
<1>11. t # <<>> /\ t[1].node = s[1].node
  BY <1>0, <1>1, <1>6
<1> QED BY <1>4, <1>8, <1>10, <1>11 DEF t, u, c, L, AdvanceOf, PushOf

\* A node all of whose children, or dependencies, have been looked at.
LEMMA PopKeeps ==
  ASSUME NEW V, NEW list \in [V -> Seq(V)], NEW s, IsPath(V, list, s), s # <<>>,
         ~ (s[Len(s)].next <= Len(list[s[Len(s)].node]))
  PROVE  LET t == Front(s)
             top == s[Len(s)].node
         IN  /\ top \in V /\ IsPath(V, list, t)
             /\ IF Len(s) = 1 THEN t = <<>> ELSE t # <<>> /\ t[1].node = s[1].node
             /\ NodesOf(s) = NodesOf(t) \cup {top}
             /\ top \notin NodesOf(t)
             /\ \A done : Settled(list, s, done) => /\ ToSet(list[top]) \subseteq done
                                                    /\ Settled(list, t, done \cup {top})
<1> DEFINE L == Len(s)
           t == Front(s)
           top == s[L].node
<1>0. s \in Seq(Frames(V)) /\ L \in Nat \ {0} /\ DOMAIN s = 1 .. L
  BY DEF IsPath
<1>1. t \in Seq(Frames(V)) /\ Len(t) = L - 1 /\ DOMAIN t = 1 .. L - 1 /\ \A i \in 1 .. L - 1 : t[i] = s[i]
  BY <1>0 DEF Front
<1>2. ASSUME NEW i \in 1 .. L
      PROVE  /\ s[i].node \in V /\ s[i].next \in Nat \ {0} /\ list[s[i].node] \in Seq(V)
             /\ Len(list[s[i].node]) \in Nat
  <2>1. s[i] \in Frames(V)
    BY <1>0
  <2>2. s[i].node \in V /\ s[i].next \in Nat \ {0}
    BY <2>1 DEF Frames
  <2> QED BY <2>2
<1>3. ~ (s[L].next <= Len(list[s[L].node]))
  OBVIOUS
<1> HIDE DEF t, L
<1>4. L \in 1 .. L /\ \A i \in 1 .. L : i \in 1 .. L - 1 \/ i = L
  BY <1>0
<1>5. top \in V
  BY <1>2, <1>4
<1>6. IsPath(V, list, t)
  <2>0. \A i \in 1 .. L - 1 : i \in 1 .. L
    BY <1>0
  <2>1. ASSUME NEW i \in 1 .. L - 1 PROVE t[i].next <= Len(list[t[i].node]) + 1
    BY <1>0, <1>1, <2>0 DEF IsPath
  <2>2. ASSUME NEW i \in 1 .. L - 1, NEW j \in 1 .. L - 1, t[i].node = t[j].node PROVE i = j
    <3>1. i \in DOMAIN s /\ j \in DOMAIN s /\ s[i].node = s[j].node
      BY <1>0, <1>1, <2>0, <2>2
    <3> QED BY <3>1 DEF IsPath
  <2>3. ASSUME NEW i \in 1 .. L - 1 - 1
        PROVE  t[i].next > 1 /\ list[t[i].node][t[i].next - 1] = t[i + 1].node
    <3>1. i \in 1 .. L - 1 /\ i + 1 \in 1 .. L - 1
      BY <1>0
    <3>2. s[i].next > 1 /\ list[s[i].node][s[i].next - 1] = s[i + 1].node
      BY <3>1 DEF IsPath, L
    <3> QED BY <1>1, <3>1, <3>2
  <2>4. \A i \in DOMAIN t : t[i].next <= Len(list[t[i].node]) + 1
    BY <1>1, <2>1
  <2>5. \A i, j \in DOMAIN t : t[i].node = t[j].node => i = j
    BY <1>1, <2>2
  <2>6. \A i \in 1 .. Len(t) - 1 : t[i].next > 1 /\ list[t[i].node][t[i].next - 1] = t[i + 1].node
    BY <1>1, <2>3
  <2> QED BY <1>1, <2>4, <2>5, <2>6 DEF IsPath
<1>7. IF L = 1 THEN t = <<>> ELSE t # <<>> /\ t[1].node = s[1].node
  <2>1. CASE L = 1
    BY <1>1, <2>1
  <2>2. CASE L # 1
    <3>1. 1 \in 1 .. L - 1
      BY <1>0, <2>2
    <3> QED BY <1>1, <3>1, <2>2
  <2> QED BY <2>1, <2>2
<1>8. {s[i].node : i \in DOMAIN s} = {t[i].node : i \in DOMAIN t} \cup {top}
  <2>1. \A i \in 1 .. L - 1 : i \in 1 .. L
    BY <1>0
  <2>2. \A i \in DOMAIN s : s[i].node \in {t[j].node : j \in DOMAIN t} \cup {top}
    BY <1>0, <1>1, <1>4
  <2>3. \A i \in DOMAIN t : t[i].node \in {s[j].node : j \in DOMAIN s}
    BY <1>0, <1>1, <2>1
  <2>4. top \in {s[j].node : j \in DOMAIN s}
    BY <1>0, <1>4
  <2> QED BY <2>2, <2>3, <2>4
<1>9. top \notin {t[i].node : i \in DOMAIN t}
  <2>1. \A i \in 1 .. L - 1 : i \in 1 .. L /\ i # L
    BY <1>0
  <2>2. \A i, j \in 1 .. L : s[i].node = s[j].node => i = j
    BY <1>0 DEF IsPath
  <2>3. \A i \in 1 .. L - 1 : t[i].node # top
    BY <1>1, <1>4, <2>1, <2>2
  <2> QED BY <1>1, <2>3
<1>10. ASSUME NEW done, Settled(list, s, done)
       PROVE  ToSet(list[top]) \subseteq done /\ Settled(list, t, done \cup {top})
  <2>1. ASSUME NEW k \in DOMAIN list[top] PROVE list[top][k] \in done
    <3>1. k \in 1 .. Len(list[top])
      BY <1>2, <1>4
    <3>2. L \in DOMAIN s /\ s[L].next \in Nat /\ Len(list[top]) \in Nat
      BY <1>0, <1>2, <1>4
    <3>3. k \in 1 .. s[L].next - 1
      BY <3>1, <3>2, <1>3
    <3>4. list[s[L].node][k] \in done \/ (L < Len(s) /\ k = s[L].next - 1)
      BY <1>10, <3>2, <3>3 DEF Settled
    <3> QED BY <3>4, <1>0 DEF L
  <2>2. ToSet(list[top]) \subseteq done
    BY <2>1 DEF ToSet
  <2>3. ASSUME NEW i \in 1 .. L - 1, NEW k \in 1 .. t[i].next - 1
        PROVE  list[t[i].node][k] \in done \cup {top} \/ (i < L - 1 /\ k = t[i].next - 1)
    <3>1. i \in 1 .. L /\ t[i] = s[i]
      BY <1>0, <1>1
    <3>2. k \in 1 .. s[i].next - 1 /\ i \in DOMAIN s
      BY <1>0, <3>1
    <3>3. list[s[i].node][k] \in done \/ (i < Len(s) /\ k = s[i].next - 1)
      BY <1>10, <3>2 DEF Settled
    <3>4. CASE i = L - 1 /\ k = s[i].next - 1
      <4>1. list[s[i].node][s[i].next - 1] = s[i + 1].node
        BY DEF IsPath, L
      <4>2. i + 1 = L
        BY <3>4, <1>0
      <4> QED BY <3>1, <3>4, <4>1, <4>2
    <3>5. CASE i # L - 1
      BY <3>1, <3>3, <3>5, <1>0
    <3>6. CASE k # s[i].next - 1
      BY <3>1, <3>3, <3>6
    <3> QED BY <3>4, <3>5, <3>6
  <2>4. Settled(list, t, done \cup {top})
    BY <1>1, <2>3 DEF Settled
  <2> QED BY <2>2, <2>4
<1> QED BY <1>5, <1>6, <1>7, <1>8, <1>9, <1>10 DEF t, L, AdvanceOf, NodesOf

\* No search goes deeper than the graph has nodes.
LEMMA PathIsShort ==
  ASSUME NEW g, IsIrGraph(g), NEW list, NEW s, IsPath(Ids(g), list, s)
  PROVE  /\ Len(s) <= Len(g.nodes)
         /\ Cardinality(NodesOf(s)) = Len(s)
<1> DEFINE p == [i \in 1 .. Len(s) |-> s[i].node]
           n == Len(g.nodes)
           V == Ids(g)
<1>1. s \in Seq(Frames(V)) /\ Len(s) \in Nat /\ DOMAIN s = 1 .. Len(s)
  BY DEF IsPath
<1>2. \A i \in 1 .. Len(s) : s[i].node \in V
  <2>1. \A i \in 1 .. Len(s) : s[i] \in Frames(V)
    BY <1>1
  <2> QED BY <2>1 DEF Frames
<1>3. p \in [1 .. Len(s) -> V]
  BY <1>2
<1>4. p \in Seq(V) /\ Len(p) = Len(s)
  <2> HIDE DEF p, V
  <2> QED BY <1>1, <1>3, FunctionIsSeq
<1>5. \A i, j \in DOMAIN p : p[i] = p[j] => i = j
  BY <1>1 DEF IsPath
<1>6. ToSet(p) = {s[i].node : i \in DOMAIN s} /\ ToSet(p) \subseteq V
  BY <1>1, <1>2 DEF ToSet
<1>7. IsFiniteSet(ToSet(p)) /\ Cardinality(ToSet(p)) = Len(p)
  <2> HIDE DEF p, V
  <2> QED BY <1>4, <1>5, DistinctCount
<1>8. IsFiniteSet(V) /\ Cardinality(V) <= n /\ n \in Nat
  BY GraphFacts
<1>9. Cardinality(ToSet(p)) <= Cardinality(V) /\ Cardinality(V) \in Nat
  <2> HIDE DEF p, V
  <2> QED BY <1>6, <1>8, FS_Subset, FS_CardinalityType
<1>10. Len(s) <= n
  <2> HIDE DEF p, V, n
  <2> QED BY <1>1, <1>4, <1>7, <1>8, <1>9
<1> QED BY <1>4, <1>6, <1>7, <1>10 DEF NodesOf

------------------------------------------------------------------------------
(* The search for cycles keeps its invariant.                                *)

\* What is read off the graph stays while the graph does.
LEMMA Kept ==
  ASSUME graph' = graph
  PROVE  /\ ChildLists' = ChildLists /\ ChildrenOf' = ChildrenOf /\ Looping' = Looping
         /\ DepLists' = DepLists /\ DepsOf' = DepsOf
         /\ OutputNode' = OutputNode /\ Needed' = Needed
         /\ OutputsAreNamedApart' = OutputsAreNamedApart
BY DEF ChildLists, ChildrenOf, Looping, DepLists, DepsOf, OutputNode, Needed, OutputsAreNamedApart,
       Children, Deps, InputSource, Reach

LEMMA ListFacts ==
  ASSUME graph \in Graphs
  PROVE  /\ ChildLists \in [Ids(graph) -> Seq(Ids(graph))]
         /\ \A n \in Ids(graph) : ChildLists[n] = Children(n) /\ ToSet(ChildLists[n]) = ChildrenOf[n]
         /\ DepLists \in [Ids(graph) -> Seq(Ids(graph))]
         /\ \A n \in Ids(graph) : DepLists[n] = Deps(n) /\ ToSet(DepLists[n]) = DepsOf[n]
<1>1. \A n \in Ids(graph) : Children(n) \in Seq(Ids(graph)) /\ Deps(n) \in Seq(Ids(graph))
  BY ChildrenFacts, DepsFacts
<1> QED BY <1>1, ChildrenOfFacts, DepsOfFacts DEF ChildLists, DepLists

\* A child that is on the stack closes a cycle.
LEMMA BackEdgeLoops ==
  ASSUME graph \in Graphs, NEW s, IsPath(Ids(graph), ChildLists, s), NEW i \in DOMAIN s,
         s[Len(s)].next <= Len(ChildLists[s[Len(s)].node]),
         s[i].node = ChildLists[s[Len(s)].node][s[Len(s)].next]
  PROVE  s[i].node \in Looping
<1> DEFINE L == Len(s)
           V == Ids(graph)
           M == L - i + 1
           c == s[i].node
           p == [k \in 1 .. M |-> IF k = M THEN c ELSE s[i + k].node]
<1>0. s \in Seq(Frames(V)) /\ L \in Nat /\ DOMAIN s = 1 .. L /\ i \in 1 .. L
  BY DEF IsPath
<1>1. ASSUME NEW j \in 1 .. L
      PROVE  s[j].node \in V /\ s[j].next \in Nat \ {0} /\ ChildLists[s[j].node] \in Seq(V)
  <2>1. s[j] \in Frames(V)
    BY <1>0
  <2>2. s[j].node \in V /\ s[j].next \in Nat \ {0}
    BY <2>1 DEF Frames
  <2> QED BY <2>2, ListFacts
<1>2. ASSUME NEW j \in 1 .. L, NEW k \in 1 .. Len(ChildLists[s[j].node])
      PROVE  ChildLists[s[j].node][k] \in ChildrenOf[s[j].node]
  <2>1. ChildLists[s[j].node][k] \in ToSet(ChildLists[s[j].node])
    BY <1>1 DEF ToSet
  <2> QED BY <2>1, <1>1, ListFacts
<1>3. s[i].node \in ChildrenOf[s[L].node]
  <2>1. L \in 1 .. L
    BY <1>0
  <2>2. s[L].next \in 1 .. Len(ChildLists[s[L].node])
    BY <2>1, <1>1
  <2> QED BY <2>1, <2>2, <1>2
<1>4. ASSUME NEW j \in 1 .. L - 1 PROVE s[j + 1].node \in ChildrenOf[s[j].node]
  <2>1. j \in 1 .. L /\ j + 1 \in 1 .. L
    BY <1>0
  <2>2. /\ s[j].next > 1 /\ s[j].next <= Len(ChildLists[s[j].node]) + 1
        /\ ChildLists[s[j].node][s[j].next - 1] = s[j + 1].node
    BY <1>0, <2>1 DEF IsPath
  <2>3. s[j].next - 1 \in 1 .. Len(ChildLists[s[j].node])
    BY <2>2, <2>1, <1>1
  <2> QED BY <2>1, <2>2, <2>3, <1>2
<1>5. M \in Nat \ {0} /\ M <= L
  BY <1>0
<1>6. p \in Seq(V) /\ Len(p) = M
  <2>1. \A k \in 1 .. M : k # M => i + k \in 1 .. L
    BY <1>0
  <2>2. p \in [1 .. M -> V]
    BY <2>1, <1>0, <1>1
  <2> HIDE DEF p, V, M
  <2> QED BY <1>5, <2>2, FunctionIsSeq
<1>7. p[1] \in ChildrenOf[c]
  <2>1. CASE M = 1
    <3>1. i = L /\ p[1] = c
      BY <2>1, <1>0
    <3> QED BY <3>1, <1>3
  <2>2. CASE M # 1
    <3>1. i \in 1 .. L - 1 /\ p[1] = s[i + 1].node
      BY <2>2, <1>0
    <3> QED BY <3>1, <1>4
  <2> QED BY <2>1, <2>2
<1>8. ASSUME NEW k \in 1 .. M - 1 PROVE p[k + 1] \in ChildrenOf[p[k]]
  <2>1. i + k \in 1 .. L /\ p[k] = s[i + k].node
    BY <1>0
  <2>2. CASE k + 1 = M
    <3>1. i + k = L /\ p[k + 1] = c
      BY <2>2, <1>0
    <3> QED BY <2>1, <3>1, <1>3
  <2>3. CASE k + 1 # M
    <3>1. i + k \in 1 .. L - 1 /\ p[k + 1] = s[i + k + 1].node
      BY <2>3, <1>0
    <3> QED BY <2>1, <3>1, <1>4
  <2> QED BY <2>2, <2>3
<1>9. L <= Len(graph.nodes) /\ Len(graph.nodes) \in Nat
  BY PathIsShort, GraphsAssumption, GraphFacts
<1>10. p[Len(p)] = c /\ Len(p) \in 1 .. Len(graph.nodes) + 1
  BY <1>5, <1>6, <1>9, <1>0
<1> HIDE DEF p, M
<1>11. c \in Reach(ChildrenOf[c], ChildrenOf)
  BY <1>6, <1>7, <1>8, <1>10, ReachPath
<1> QED BY <1>11, <1>0, <1>1 DEF Looping

\* A node is appended behind all its successors.
LEMMA ClosedGrows ==
  ASSUME NEW V, NEW s \in Seq(V), NEW n \in V, n \notin ToSet(s), NEW succ, Distinct(s)
  PROVE  /\ Append(s, n) \in Seq(V) /\ Distinct(Append(s, n))
         /\ ToSet(Append(s, n)) = ToSet(s) \cup {n}
         /\ Closed(s, succ) /\ succ[n] \subseteq ToSet(s) => Closed(Append(s, n), succ)
<1> DEFINE t == Append(s, n)
           L == Len(s)
<1>1. /\ t \in Seq(V) /\ Len(t) = L + 1 /\ L \in Nat /\ DOMAIN s = 1 .. L /\ DOMAIN t = 1 .. L + 1
      /\ \A i \in 1 .. L : t[i] = s[i]
      /\ t[L + 1] = n
  OBVIOUS
<1> HIDE DEF t, L
<1>2. \A i \in 1 .. L + 1 : i \in 1 .. L \/ i = L + 1
  BY <1>1
<1>3. L + 1 \in 1 .. L + 1 /\ \A i \in 1 .. L : i \in 1 .. L + 1 /\ i # L + 1
  BY <1>1
<1>4. \A i \in 1 .. L : s[i] # n
  BY <1>1 DEF ToSet
<1>5. Distinct(t)
  BY <1>1, <1>2, <1>4 DEF Distinct
<1>6. ToSet(t) = ToSet(s) \cup {n}
  <2>1. \A x \in ToSet(t) : x \in ToSet(s) \cup {n}
    BY <1>1, <1>2 DEF ToSet
  <2>2. \A x \in ToSet(s) \cup {n} : x \in ToSet(t)
    BY <1>1, <1>3 DEF ToSet
  <2> QED BY <2>1, <2>2
<1>7. ASSUME Closed(s, succ), succ[n] \subseteq ToSet(s)
      PROVE  Closed(t, succ)
  <2>1. ASSUME NEW i \in 1 .. L PROVE Earlier(t, i) = Earlier(s, i)
    <3>1. \A j \in 1 .. i - 1 : t[j] = s[j]
      BY <1>1
    <3> QED BY <3>1 DEF Earlier
  <2>2. Earlier(t, L + 1) = ToSet(s)
    <3>1. 1 .. L + 1 - 1 = DOMAIN s
      BY <1>1
    <3>2. \A j \in DOMAIN s : t[j] = s[j]
      BY <1>1
    <3>3. \A x : x \in Earlier(t, L + 1) <=> \E j \in DOMAIN s : x = t[j]
      BY <1>1, <3>1 DEF Earlier
    <3>4. \A x : x \in ToSet(s) <=> \E j \in DOMAIN s : x = s[j]
      BY DEF ToSet
    <3> QED BY <3>2, <3>3, <3>4
  <2>3. ASSUME NEW i \in DOMAIN t PROVE succ[t[i]] \subseteq Earlier(t, i)
    <3>1. CASE i \in 1 .. L
      <4>1. t[i] = s[i] /\ Earlier(t, i) = Earlier(s, i) /\ i \in DOMAIN s
        BY <1>1, <2>1, <3>1
      <4>2. succ[s[i]] \subseteq Earlier(s, i)
        BY <1>7, <4>1 DEF Closed
      <4> QED BY <4>1, <4>2
    <3>2. CASE i = L + 1
      BY <3>2, <1>1, <1>7, <2>2
    <3> QED BY <3>1, <3>2, <1>1, <1>2
  <2> QED BY <2>3 DEF Closed
<1> QED BY <1>1, <1>5, <1>6, <1>7 DEF t

\* Outside the search for cycles nothing it found changes.
LEMMA SearchIsOver ==
  ASSUME SearchInv, pc \notin {"edges", "cycles"},
         pc' \in {"order", "emit", "write", "refused", "done"}, pc' # "order" => stack' = <<>>,
         UNCHANGED <<graph, ctx, incoming, finished, cycles>>
  PROVE  SearchInv'
<1>1. ChildrenOf' = ChildrenOf /\ Looping' = Looping
  BY Kept
<1>2. graph' = graph /\ ctx' = ctx /\ incoming' = incoming /\ finished' = finished /\ cycles' = cycles
  OBVIOUS
<1>3. pc' \notin {"edges", "cycles"} /\ (pc' \notin {"cycles", "order"} => stack' = <<>>)
  OBVIOUS
<1>4. /\ graph \in Graphs /\ ctx \in Contexts /\ incoming = Incoming(graph)
      /\ finished \in Seq(Ids(graph)) /\ Distinct(finished)
      /\ cycles \subseteq Looping /\ (cycles = {} => Closed(finished, ChildrenOf))
      /\ Ids(graph) \subseteq ToSet(finished)
  BY DEF SearchInv
<1> QED BY <1>1, <1>2, <1>3, <1>4 DEF SearchInv

\* A step inside it, from what the step leaves.
LEMMA SearchGoesOn ==
  ASSUME SearchInv, pc = "cycles", pc' = "cycles", UNCHANGED <<graph, ctx, incoming>>,
         finished' \in Seq(Ids(graph)), Distinct(finished'), cycles' \subseteq Looping,
         cycles' = {} => Closed(finished', ChildrenOf),
         IsPath(Ids(graph), ChildLists, stack'), OnStack' \cap ToSet(finished') = {},
         cycles' = {} => Settled(ChildLists, stack', ToSet(finished'))
  PROVE  SearchInv'
<1>1. ChildrenOf' = ChildrenOf /\ Looping' = Looping /\ ChildLists' = ChildLists
  BY Kept
<1>2. graph \in Graphs /\ ctx \in Contexts /\ incoming = Incoming(graph)
  BY DEF SearchInv
<1>3. graph' = graph /\ ctx' = ctx /\ incoming' = incoming
  OBVIOUS
<1> QED BY <1>1, <1>2, <1>3 DEF SearchInv

LEMMA SearchKeeps ==
  ASSUME SearchInv, VerdictInv, pc' # "noOutput", Next \/ UNCHANGED vars
  PROVE  SearchInv'
<1> DEFINE V == Ids(graph)
<1>0. /\ graph \in Graphs /\ ctx \in Contexts /\ IsIrGraph(graph)
      /\ finished \in Seq(V) /\ Distinct(finished) /\ cycles \subseteq Looping
      /\ cycles = {} => Closed(finished, ChildrenOf)
  BY GraphsAssumption DEF SearchInv
<1>1. CASE ReadEdges
  <2>1. ChildrenOf' = ChildrenOf /\ Looping' = Looping /\ ChildLists' = ChildLists
    BY <1>1, Kept DEF ReadEdges
  <2>2. stack' = <<>> /\ OnStack' = {} /\ pc' = "cycles"
    BY <1>1 DEF ReadEdges, SearchInv, OnStack
  <2>3. IsPath(V, ChildLists, <<>>) /\ Settled(ChildLists, <<>>, ToSet(finished))
    BY DEF IsPath, Settled
  <2> QED BY <1>0, <1>1, <2>1, <2>2, <2>3 DEF ReadEdges, SearchInv
<1>2. CASE SearchFrom
  <2>0. ChildrenOf' = ChildrenOf /\ Looping' = Looping /\ ChildLists' = ChildLists
    BY <1>2, Kept DEF SearchFrom
  <2> DEFINE n == graph.nodes[Min(Unseen)].id
  <2>1. n \in V /\ n \notin ToSet(finished)
    <3>1. Unseen \in SUBSET Nat /\ Unseen # {}
      BY <1>0, <1>2, GraphFacts DEF Unseen, SearchFrom
    <3>2. Min(Unseen) \in Unseen
      BY <3>1, MinIsLeast
    <3> QED BY <3>2 DEF Unseen, Ids
  <2> HIDE DEF n
  <2>2. stack' = <<Frame(n)>> /\ pc' = "cycles" /\ pc = "cycles"
    BY <1>2 DEF SearchFrom, n
  <2>3. OnStack' = {n}
    <3>1. OnStack' = {stack'[i].node : i \in DOMAIN stack'}
      BY DEF OnStack
    <3>2. DOMAIN stack' = {1} /\ stack'[1].node = n
      BY <2>2 DEF Frame
    <3> QED BY <3>1, <3>2
  <2>4. IsPath(V, ChildLists, <<Frame(n)>>)
    <3>1. Frame(n) \in Frames(V) /\ Frame(n).node = n /\ Frame(n).next = 1
      BY <2>1 DEF Frame, Frames
    <3>2. Len(ChildLists[n]) \in Nat
      BY <1>0, <2>1, ListFacts
    <3>3. /\ <<Frame(n)>> \in Seq(Frames(V)) /\ DOMAIN <<Frame(n)>> = {1} /\ Len(<<Frame(n)>>) = 1
          /\ <<Frame(n)>>[1] = Frame(n) /\ 1 .. 0 = {}
      BY <3>1
    <3> QED BY <3>1, <3>2, <3>3 DEF IsPath
  <2>5. Settled(ChildLists, <<Frame(n)>>, ToSet(finished))
    BY DEF Settled, Frame
  <2>6. finished' = finished /\ cycles' = cycles /\ graph' = graph /\ ctx' = ctx /\ incoming' = incoming
    BY <1>2 DEF SearchFrom
  <2> QED BY <1>0, <2>0, <2>1, <2>2, <2>3, <2>4, <2>5, <2>6 DEF SearchInv
<1>3. ASSUME pc = "cycles"
      PROVE  /\ IsPath(V, ChildLists, stack) /\ ChildLists \in [V -> Seq(V)]
             /\ OnStack \cap ToSet(finished) = {}
             /\ cycles = {} => Settled(ChildLists, stack, ToSet(finished))
             /\ stack # <<>> => Top.node \in V /\ ChildLists[Top.node] = Children(Top.node)
  <2>1. /\ IsPath(V, ChildLists, stack) /\ ChildLists \in [V -> Seq(V)]
        /\ OnStack \cap ToSet(finished) = {}
        /\ cycles = {} => Settled(ChildLists, stack, ToSet(finished))
    BY <1>0, <1>3, ListFacts DEF SearchInv
  <2>2. ASSUME stack # <<>> PROVE Top.node \in V
    <3>1. stack \in Seq(Frames(V))
      BY <2>1 DEF IsPath
    <3>2. Top \in Frames(V)
      BY <3>1, <2>2 DEF Top
    <3> QED BY <3>2 DEF Frames
  <2> QED BY <1>0, <2>1, <2>2, ListFacts
<1>4. CASE VisitChild
  <2>0. ChildrenOf' = ChildrenOf /\ Looping' = Looping /\ ChildLists' = ChildLists
    BY <1>4, Kept DEF VisitChild
  <2> DEFINE L == Len(stack)
             child == Children(Top.node)[Top.next]
             t == AdvanceOf(stack)
  <2>1. pc = "cycles" /\ stack # <<>> /\ pc' = "cycles" /\ Top.next <= Len(Children(Top.node))
    BY <1>4 DEF VisitChild
  <2>2. /\ finished' = finished /\ graph' = graph /\ ctx' = ctx /\ incoming' = incoming
        /\ cycles' = IF child \in OnStack THEN cycles \cup {child} ELSE cycles
        /\ stack' = IF child \in OnStack \cup ToSet(finished) THEN t ELSE Append(t, Frame(child))
    BY <1>4 DEF VisitChild, Advance, AdvanceOf
  <2>3. /\ IsPath(V, ChildLists, stack) /\ ChildLists \in [V -> Seq(V)]
        /\ stack[L].next <= Len(ChildLists[stack[L].node])
        /\ child = ChildLists[stack[L].node][stack[L].next]
    BY <1>3, <2>1 DEF Top
  <2>4. incoming = Incoming(graph)
    BY <2>1 DEF SearchInv
  <2>5. OnStack' = NodesOf(stack') /\ OnStack = NodesOf(stack)
    BY DEF OnStack, NodesOf
  <2> HIDE DEF child, t
  <2>6. CASE child \in OnStack
    <3>1. child \in Looping
      <4>1. PICK i \in DOMAIN stack : stack[i].node = child
        BY <2>6 DEF OnStack
      <4> QED BY <4>1, <2>3, <1>0, BackEdgeLoops
    <3>2. IsPath(V, ChildLists, t) /\ NodesOf(t) = NodesOf(stack)
      BY <2>1, <2>3, AdvanceKeeps DEF t
    <3>3. OnStack' = OnStack /\ stack' = t
      BY <2>2, <2>5, <2>6, <3>2
    <3>4. cycles' \subseteq Looping /\ cycles' # {}
      BY <2>2, <2>6, <3>1, <1>0
    <3>5. finished' \in Seq(V) /\ Distinct(finished') /\ UNCHANGED <<graph, ctx, incoming>>
      BY <1>0, <2>2
    <3>6. IsPath(V, ChildLists, stack') /\ OnStack' \cap ToSet(finished') = {}
      BY <1>3, <2>1, <2>2, <3>2, <3>3
    <3> QED BY <2>1, <3>4, <3>5, <3>6, SearchGoesOn
  <2>7. CASE child \notin OnStack /\ child \in ToSet(finished)
    <3>1. /\ IsPath(V, ChildLists, t) /\ NodesOf(t) = NodesOf(stack)
          /\ Settled(ChildLists, stack, ToSet(finished)) => Settled(ChildLists, t, ToSet(finished))
      BY <2>1, <2>3, <2>7, AdvanceKeeps DEF t
    <3>2. OnStack' = OnStack /\ stack' = t /\ cycles' = cycles
      BY <2>2, <2>5, <2>7, <3>1
    <3>3. finished' \in Seq(V) /\ Distinct(finished') /\ UNCHANGED <<graph, ctx, incoming>>
      BY <1>0, <2>2
    <3>4. IsPath(V, ChildLists, stack') /\ OnStack' \cap ToSet(finished') = {}
      BY <1>3, <2>1, <2>2, <3>1, <3>2
    <3>5. cycles' = {} => Closed(finished', ChildrenOf) /\ Settled(ChildLists, stack', ToSet(finished'))
      BY <1>0, <1>3, <2>1, <2>2, <3>1, <3>2
    <3>6. cycles' \subseteq Looping
      BY <1>0, <3>2
    <3> QED BY <2>1, <3>3, <3>4, <3>5, <3>6, SearchGoesOn
  <2>8. CASE child \notin OnStack /\ child \notin ToSet(finished)
    <3> DEFINE u == PushOf(stack, child)
    <3>0. child \notin NodesOf(stack)
      BY <2>8 DEF OnStack, NodesOf
    <3>1. /\ IsPath(V, ChildLists, u) /\ child \in V
          /\ NodesOf(u) = NodesOf(stack) \cup {child}
          /\ Settled(ChildLists, stack, ToSet(finished)) => Settled(ChildLists, u, ToSet(finished))
      <4>1. child = NextOf(ChildLists, stack)
        BY <2>3 DEF NextOf
      <4>2. IsPath(V, ChildLists, u)
        BY <2>1, <2>3, <3>0, <4>1, PushKeeps
      <4>3. child \in V
        BY <2>1, <2>3, <3>0, <4>1, PushKeeps
      <4>4. NodesOf(u) = NodesOf(stack) \cup {child}
        <5>1. stack \in Seq(Frames(V)) /\ stack # <<>>
          BY <2>1, <2>3 DEF IsPath
        <5> QED BY <5>1, <4>3, PushNodes
      <4>5. Settled(ChildLists, stack, ToSet(finished)) => Settled(ChildLists, u, ToSet(finished))
        BY <2>1, <2>3, <3>0, <4>1, PushKeeps
      <4> QED BY <4>2, <4>3, <4>4, <4>5
    <3> HIDE DEF u
    <3>2. stack' = u /\ cycles' = cycles
      BY <2>2, <2>8 DEF t, u, PushOf
    <3>3. OnStack' = OnStack \cup {child}
      BY <2>5, <3>1, <3>2
    <3>4. OnStack' \cap ToSet(finished) = {}
      BY <1>3, <2>1, <2>8, <3>3
    <3>5. finished' \in Seq(V) /\ Distinct(finished') /\ UNCHANGED <<graph, ctx, incoming>>
      BY <1>0, <2>2
    <3>6. IsPath(V, ChildLists, stack') /\ OnStack' \cap ToSet(finished') = {}
      BY <2>2, <3>1, <3>2, <3>4
    <3>7. cycles' = {} => Closed(finished', ChildrenOf) /\ Settled(ChildLists, stack', ToSet(finished'))
      BY <1>0, <1>3, <2>1, <2>2, <3>1, <3>2
    <3>8. cycles' \subseteq Looping
      BY <1>0, <3>2
    <3> QED BY <2>1, <3>5, <3>6, <3>7, <3>8, SearchGoesOn
  <2> QED BY <2>6, <2>7, <2>8
<1>5. CASE Finish
  <2>0. ChildrenOf' = ChildrenOf /\ Looping' = Looping /\ ChildLists' = ChildLists
    BY <1>5, Kept DEF Finish
  <2> DEFINE L == Len(stack)
             top == stack[L].node
             t == Front(stack)
  <2>1. pc = "cycles" /\ stack # <<>> /\ pc' = "cycles" /\ ~ (Top.next <= Len(Children(Top.node)))
    <3>1. pc = "cycles" /\ stack # <<>> /\ pc' = "cycles" /\ Top.next > Len(Children(Top.node))
      BY <1>5 DEF Finish
    <3>2. Top.next \in Nat /\ Len(Children(Top.node)) \in Nat
      <4>1. stack \in Seq(Frames(V))
        BY <1>3, <3>1 DEF IsPath
      <4>2. Top \in Frames(V)
        BY <3>1, <4>1 DEF Top
      <4>3. Children(Top.node) \in Seq(V)
        BY <1>0, ChildrenFacts
      <4> QED BY <4>2, <4>3 DEF Frames
    <3> QED BY <3>1, <3>2
  <2>2. /\ finished' = Append(finished, top) /\ stack' = t /\ cycles' = cycles
        /\ graph' = graph /\ ctx' = ctx /\ incoming' = incoming
    BY <1>5 DEF Finish, Pop, Top
  <2>3. /\ IsPath(V, ChildLists, stack) /\ ChildLists \in [V -> Seq(V)]
        /\ ~ (stack[L].next <= Len(ChildLists[stack[L].node]))
    BY <1>3, <2>1 DEF Top
  <2>4. incoming = Incoming(graph)
    BY <2>1 DEF SearchInv
  <2>5. OnStack' = NodesOf(stack') /\ OnStack = NodesOf(stack)
    BY DEF OnStack, NodesOf
  <2>6. /\ top \in V /\ IsPath(V, ChildLists, t)
        /\ NodesOf(stack) = NodesOf(t) \cup {top}
        /\ top \notin NodesOf(t)
        /\ Settled(ChildLists, stack, ToSet(finished)) =>
             /\ ToSet(ChildLists[top]) \subseteq ToSet(finished)
             /\ Settled(ChildLists, t, ToSet(finished) \cup {top})
    BY <2>1, <2>3, PopKeeps
  <2> HIDE DEF t, top
  <2>7. OnStack = OnStack' \cup {top} /\ top \notin OnStack'
    BY <2>2, <2>5, <2>6
  <2>8. top \notin ToSet(finished)
    BY <2>7, <1>3, <2>1
  <2>9. /\ finished' \in Seq(V) /\ Distinct(finished') /\ ToSet(finished') = ToSet(finished) \cup {top}
        /\ Closed(finished, ChildrenOf) /\ ChildrenOf[top] \subseteq ToSet(finished)
             => Closed(finished', ChildrenOf)
    BY <1>0, <2>2, <2>6, <2>8, ClosedGrows
  <2>10. cycles = {} => Closed(finished', ChildrenOf) /\ Settled(ChildLists, t, ToSet(finished'))
    <3>1. ToSet(ChildLists[top]) = ChildrenOf[top]
      BY <1>0, <2>6, ListFacts
    <3> QED BY <1>0, <1>3, <2>1, <2>6, <2>9, <3>1
  <2>11. OnStack' \cap ToSet(finished') = {}
    BY <1>3, <2>1, <2>7, <2>9
  <2>12. cycles' \subseteq Looping /\ UNCHANGED <<graph, ctx, incoming>>
    BY <1>0, <2>2
  <2>13. cycles' = {} => Closed(finished', ChildrenOf) /\ Settled(ChildLists, stack', ToSet(finished'))
    BY <2>2, <2>10
  <2>14. IsPath(V, ChildLists, stack')
    BY <2>2, <2>6
  <2> QED BY <2>1, <2>9, <2>11, <2>12, <2>13, <2>14, SearchGoesOn
<1>6. CASE Judge
  <2>0. ChildrenOf' = ChildrenOf /\ Looping' = Looping
    BY <1>6, Kept DEF Judge
  <2>1. /\ pc = "cycles" /\ stack = <<>> /\ Unseen = {} /\ pc' \in {"order", "refused"}
        /\ pc' # "order" => stack' = <<>>
        /\ finished' = finished /\ cycles' = cycles
        /\ graph' = graph /\ ctx' = ctx /\ incoming' = incoming
    BY <1>6 DEF Judge
  <2>2. incoming = Incoming(graph)
    BY <2>1 DEF SearchInv
  <2>3. OnStack = {}
    BY <2>1 DEF OnStack
  <2>4. V \subseteq ToSet(finished)
    BY <2>1, <2>3 DEF Unseen, Ids
  <2> QED BY <1>0, <2>0, <2>1, <2>2, <2>4 DEF SearchInv
<1>7. CASE VisitDep
  <2>1. /\ pc = "order" /\ pc' = "order"
        /\ UNCHANGED <<graph, ctx, incoming, finished, cycles>>
    BY <1>7 DEF VisitDep
  <2> QED BY <2>1, SearchIsOver
<1>8. CASE Place
  <2>1. /\ pc = "order" /\ pc' \in {"order", "emit"} /\ stack' = Pop
        /\ pc' = "emit" => Len(stack) = 1
        /\ UNCHANGED <<graph, ctx, incoming, finished, cycles>>
    BY <1>8 DEF Place
  <2>2. Len(stack) = 1 => Pop = <<>>
    BY DEF Pop, Front
  <2> QED BY <2>1, <2>2, SearchIsOver
<1>9. CASE EmitNode
  <2>1. /\ pc = "emit" /\ pc' \in {"emit", "write"} /\ stack' = stack
        /\ UNCHANGED <<graph, ctx, incoming, finished, cycles>>
    BY <1>9 DEF EmitNode
  <2>2. stack = <<>>
    BY <2>1 DEF SearchInv
  <2> QED BY <2>1, <2>2, SearchIsOver
<1>10. CASE Write
  <2>1. /\ pc = "write" /\ pc' \in {"noOutput", "done"} /\ stack' = stack
        /\ UNCHANGED <<graph, ctx, incoming, finished, cycles>>
    BY <1>10 DEF Write
  <2>2. stack = <<>>
    BY <2>1 DEF SearchInv
  <2> QED BY <2>1, <2>2, SearchIsOver
<1>11. CASE UNCHANGED vars
  <2>1. ChildrenOf' = ChildrenOf /\ Looping' = Looping /\ ChildLists' = ChildLists /\ OnStack' = OnStack
    BY <1>11, Kept DEF vars, OnStack
  <2> QED BY <1>11, <2>1 DEF vars, SearchInv
<1> QED BY <1>1, <1>2, <1>4, <1>5, <1>6, <1>7, <1>8, <1>9, <1>10, <1>11 DEF Next

\* A search that is over has found the cycles: otherwise the finished nodes are
\* in an order in which edges only lead back.
LEMMA SearchFindsCycles ==
  ASSUME SearchInv, pc \notin {"edges", "cycles"}
  PROVE  CyclesAreFound
<1>1. /\ graph \in Graphs /\ cycles \subseteq Looping
      /\ finished \in Seq(Ids(graph)) /\ Distinct(finished)
      /\ cycles = {} => Closed(finished, ChildrenOf)
      /\ Ids(graph) \subseteq ToSet(finished)
  BY DEF SearchInv
<1>2. \A n \in cycles : n \in Reach(ChildrenOf[n], ChildrenOf)
  BY <1>1 DEF Looping
<1>3. ASSUME cycles = {}, NEW n \in Ids(graph)
      PROVE  n \notin Reach(ChildrenOf[n], ChildrenOf)
  <2>1. PICK i \in DOMAIN finished : finished[i] = n
    BY <1>1 DEF ToSet
  <2> DEFINE C == Earlier(finished, i)
  <2>2. DOMAIN finished = 1 .. Len(finished) /\ Len(finished) \in Nat /\ i \in Nat
    BY <1>1
  <2>3. ChildrenOf[n] \subseteq C
    BY <1>1, <1>3, <2>1 DEF Closed
  <2>4. ASSUME NEW m \in C PROVE ChildrenOf[m] \subseteq C
    <3>1. PICK j \in 1 .. i - 1 : m = finished[j]
      BY DEF Earlier
    <3>2. j \in DOMAIN finished /\ \A k \in 1 .. j - 1 : k \in 1 .. i - 1
      BY <2>2
    <3>3. ChildrenOf[m] \subseteq Earlier(finished, j)
      BY <1>1, <1>3, <3>1, <3>2 DEF Closed
    <3>4. Earlier(finished, j) \subseteq C
      BY <3>2 DEF Earlier
    <3> QED BY <3>3, <3>4
  <2>5. n \notin C
    <3> SUFFICES ASSUME NEW j \in 1 .. i - 1, finished[j] = n PROVE FALSE
      BY DEF Earlier
    <3>1. j \in DOMAIN finished /\ j # i
      BY <2>2
    <3> QED BY <3>1, <2>1, <1>1 DEF Distinct
  <2> HIDE DEF C
  <2>6. Reach(ChildrenOf[n], ChildrenOf) \subseteq C
    BY <1>1, <2>3, <2>4, ReachClosed
  <2> QED BY <2>5, <2>6
<1> QED BY <1>2, <1>3 DEF CyclesAreFound

------------------------------------------------------------------------------
(* The verdict, and what a graph without diagnostics is like.                *)

LEMMA VerdictKeeps ==
  ASSUME SearchInv, VerdictInv, pc' # "noOutput", Next \/ UNCHANGED vars
  PROVE  VerdictInv'
<1>1. CASE ReadEdges \/ SearchFrom \/ VisitChild \/ Finish
  <2>1. pc \in {"edges", "cycles"} /\ pc' = "cycles" /\ diagnostics' = diagnostics
    BY <1>1 DEF ReadEdges, SearchFrom, VisitChild, Finish
  <2> QED BY <2>1 DEF VerdictInv
<1>2. CASE Judge
  <2>1. /\ diagnostics' = Check(graph, ctx, incoming, cycles)
        /\ pc' = IF diagnostics' = {} THEN "order" ELSE "refused"
        /\ graph' = graph /\ ctx' = ctx /\ incoming' = incoming /\ cycles' = cycles
    BY <1>2 DEF Judge
  <2> QED BY <2>1 DEF VerdictInv
<1>3. CASE VisitDep \/ Place \/ EmitNode \/ Write
  <2>1. /\ pc \in {"order", "emit", "write"} /\ pc' \in {"order", "emit", "write", "done"}
        /\ diagnostics' = diagnostics
        /\ graph' = graph /\ ctx' = ctx /\ incoming' = incoming /\ cycles' = cycles
    BY <1>3 DEF VisitDep, Place, EmitNode, Write
  <2> QED BY <2>1 DEF VerdictInv
<1>4. CASE UNCHANGED vars
  BY <1>4 DEF vars, VerdictInv
<1> QED BY <1>1, <1>2, <1>3, <1>4 DEF Next

\* The parts of an empty verdict.
LEMMA NoErrors ==
  ASSUME NEW g, NEW c, NEW inc, NEW cyc, Check(g, c, inc, cyc) = {}
  PROVE  /\ cyc = {}
         /\ \A j \in DOMAIN g.nodes : \A k \in 1 .. j - 1 : g.nodes[k].id # g.nodes[j].id
         /\ \A n \in ToSet(g.nodes) : ReferenceErrors(n.op, c) = {}
         /\ EdgeErrors(g) = {} /\ RequiredInputErrors(g, inc) = {} /\ OutputErrors(g) = {}
         /\ EdgeTypeErrors(g, Inferred(g, inc)) = {}
         /\ OperandErrors(g, Inferred(g, inc), inc) = {}
<1> DEFINE type == Inferred(g, inc)
           A1 == {<<"duplicateNodeId", g.nodes[i].id>> : i \in
                   {j \in DOMAIN g.nodes : \E k \in 1 .. j - 1 : g.nodes[k].id = g.nodes[j].id}}
           A2 == UNION {{<<e, n.id>> : e \in ReferenceErrors(n.op, c)} : n \in ToSet(g.nodes)}
           A3 == {<<"cycle", n>> : n \in cyc}
           A4 == IF cyc # {} THEN {} ELSE EdgeTypeErrors(g, type) \cup OperandErrors(g, type, inc)
<1>1. Check(g, c, inc, cyc) =
        A1 \cup A2 \cup EdgeErrors(g) \cup RequiredInputErrors(g, inc) \cup OutputErrors(g) \cup A3 \cup A4
  BY DEF Check
<1> HIDE DEF A1, A2, A3, A4, type
<1>2. /\ A1 = {} /\ A2 = {} /\ A3 = {} /\ A4 = {}
      /\ EdgeErrors(g) = {} /\ RequiredInputErrors(g, inc) = {} /\ OutputErrors(g) = {}
  BY <1>1
<1>3. cyc = {}
  BY <1>2 DEF A3
<1>4. EdgeTypeErrors(g, type) = {} /\ OperandErrors(g, type, inc) = {}
  BY <1>2, <1>3 DEF A4
<1>5. \A n \in ToSet(g.nodes) : ReferenceErrors(n.op, c) = {}
  <2> SUFFICES ASSUME NEW n \in ToSet(g.nodes), NEW e \in ReferenceErrors(n.op, c) PROVE FALSE
    OBVIOUS
  <2>1. <<e, n.id>> \in A2
    BY DEF A2
  <2> QED BY <2>1, <1>2
<1>6. \A j \in DOMAIN g.nodes : \A k \in 1 .. j - 1 : g.nodes[k].id # g.nodes[j].id
  BY <1>2 DEF A1
<1> QED BY <1>2, <1>3, <1>4, <1>5, <1>6 DEF type

\* A node is told by its id, and all edges are sound.
LEMMA NodesAreTold ==
  ASSUME NEW g, IsIrGraph(g),
         \A j \in DOMAIN g.nodes : \A k \in 1 .. j - 1 : g.nodes[k].id # g.nodes[j].id
  PROVE  /\ \A i, j \in DOMAIN g.nodes : g.nodes[i].id = g.nodes[j].id => i = j
         /\ \A i \in DOMAIN g.nodes : NodeOp(g, g.nodes[i].id) = g.nodes[i].op
         /\ \A m \in ToSet(g.nodes) : m.id \in Ids(g) /\ NodeOp(g, m.id) = m.op
         /\ \A n \in Ids(g) : \E m \in ToSet(g.nodes) : m.id = n /\ m.op = NodeOp(g, n)
<1>1. DOMAIN g.nodes = 1 .. Len(g.nodes) /\ Len(g.nodes) \in Nat
  BY GraphFacts
<1>2. ASSUME NEW i \in DOMAIN g.nodes, NEW j \in DOMAIN g.nodes, g.nodes[i].id = g.nodes[j].id
      PROVE  i = j
  <2>1. i \in Nat /\ j \in Nat /\ i >= 1 /\ j >= 1
    BY <1>1
  <2>2. ~ (i < j)
    <3> SUFFICES ASSUME i < j PROVE FALSE
      OBVIOUS
    <3>1. i \in 1 .. j - 1
      BY <2>1
    <3> QED BY <3>1, <1>2
  <2>3. ~ (j < i)
    <3> SUFFICES ASSUME j < i PROVE FALSE
      OBVIOUS
    <3>1. j \in 1 .. i - 1
      BY <2>1
    <3> QED BY <3>1, <1>2
  <2> QED BY <2>1, <2>2, <2>3
<1>3. ASSUME NEW i \in DOMAIN g.nodes PROVE NodeOp(g, g.nodes[i].id) = g.nodes[i].op
  <2>1. g.nodes[i].id \in Ids(g)
    BY DEF Ids
  <2>2. PICK j \in DOMAIN g.nodes : /\ g.nodes[j].id = g.nodes[i].id
                                    /\ NodeOp(g, g.nodes[i].id) = g.nodes[j].op
    BY <2>1, NodeOpFacts
  <2> QED BY <2>2, <1>2
<1>4. \A m \in ToSet(g.nodes) : m.id \in Ids(g) /\ NodeOp(g, m.id) = m.op
  BY <1>3 DEF ToSet, Ids
<1>5. \A n \in Ids(g) : \E m \in ToSet(g.nodes) : m.id = n /\ m.op = NodeOp(g, n)
  BY <1>3 DEF ToSet, Ids
<1> QED BY <1>2, <1>3, <1>4, <1>5

LEMMA EdgesAreSound ==
  ASSUME NEW g, EdgeErrors(g) = {}
  PROVE  Sound(g) = DOMAIN g.edges
<1>1. ASSUME NEW i \in DOMAIN g.edges
      PROVE  EndErrors(g, g.edges[i].from, SourceOk(g, g.edges[i])) = {} /\
             EndErrors(g, g.edges[i].to, TargetOk(g, g.edges[i])) = {}
  <2> DEFINE X(j) == EndErrors(g, g.edges[j].from, SourceOk(g, g.edges[j]))
                     \cup EndErrors(g, g.edges[j].to, TargetOk(g, g.edges[j]))
  <2>1. EdgeErrors(g) = (UNION {X(j) : j \in DOMAIN g.edges})
          \cup {<<"duplicateInput", g.edges[j].to>> : j \in
                  {j \in Sound(g) : \E k \in Sound(g) : k < j /\ SamePort(g.edges[j], g.edges[k])}}
    BY Zenon DEF EdgeErrors
  <2> HIDE DEF X
  <2>2. X(i) = {}
    BY <2>1
  <2> QED BY <2>2 DEF X
<1>2. ASSUME NEW i \in DOMAIN g.edges PROVE SourceOk(g, g.edges[i]) /\ TargetOk(g, g.edges[i])
  <2>1. SourceOk(g, g.edges[i])
    <3> SUFFICES ASSUME ~ SourceOk(g, g.edges[i]) PROVE FALSE
      OBVIOUS
    <3>1. EndErrors(g, g.edges[i].from, SourceOk(g, g.edges[i])) # {}
      BY Zenon DEF EndErrors
    <3> QED BY <3>1, <1>1
  <2>2. TargetOk(g, g.edges[i])
    <3> SUFFICES ASSUME ~ TargetOk(g, g.edges[i]) PROVE FALSE
      OBVIOUS
    <3>1. EndErrors(g, g.edges[i].to, TargetOk(g, g.edges[i])) # {}
      BY Zenon DEF EndErrors
    <3> QED BY <3>1, <1>1
  <2> QED BY <2>1, <2>2
<1> QED BY <1>2 DEF Sound

\* One node is the Output.
LEMMA OneOutput ==
  ASSUME NEW g, IsIrGraph(g), OutputErrors(g) = {}
  PROVE  \E o \in DOMAIN g.nodes : /\ g.nodes[o].op.kind = "Output"
                                   /\ \A i \in DOMAIN g.nodes : g.nodes[i].op.kind = "Output" => i = o
<1> DEFINE S == {i \in DOMAIN g.nodes : g.nodes[i].op.kind = "Output"}
<1>1. S # {}
  BY DEF OutputErrors
<1>2. ~ (Cardinality(S) > 1)
  <2> SUFFICES ASSUME Cardinality(S) > 1 PROVE FALSE
    OBVIOUS
  <2>1. {<<"multipleOutputs", g.nodes[i].id>> : i \in S} = {}
    BY <1>1 DEF OutputErrors
  <2> QED BY <2>1, <1>1
<1>3. IsFiniteSet(S) /\ Cardinality(S) \in Nat
  <2>1. S \in SUBSET Nat /\ (\A s \in S : s <= Len(g.nodes)) /\ Len(g.nodes) \in Nat
    BY GraphFacts
  <2> HIDE DEF S
  <2>2. IsFiniteSet(S)
    BY <2>1, FS_BoundedSetOfNaturals
  <2> QED BY <2>2, FS_CardinalityType
<1> HIDE DEF S
<1>4. Cardinality(S) # 0
  BY <1>1, <1>3, FS_EmptySet
<1>5. Cardinality(S) = 1
  BY <1>2, <1>3, <1>4
<1>6. PICK o : S = {o}
  BY <1>3, <1>5, FS_Singleton
<1> QED BY <1>6 DEF S

\* An input port is fed by one edge at most, whichever way it is looked up.
LEMMA FedByOne ==
  ASSUME graph \in Graphs, Sound(graph) = DOMAIN graph.edges, incoming = Incoming(graph),
         NEW n, NEW port
  PROVE  /\ InputSource(n, port) = Feeding(incoming, n, port)
         /\ \A e, f \in InputSource(n, port) : e = f
         /\ \A e \in InputSource(n, port) :
              /\ IsIrEdge(e) /\ SourceOk(graph, e) /\ e.to = n /\ e.in = port
<1> DEFINE D == DOMAIN graph.edges
           S == {i \in D : graph.edges[i].to = n /\ graph.edges[i].in = port}
           last == {j \in S : \A k \in S : k <= j}
           final == {j \in D : \A k \in D : SamePort(graph.edges[j], graph.edges[k]) => k <= j}
<1>0. D \subseteq Nat /\ \A i \in D : IsIrEdge(graph.edges[i])
  BY GraphsAssumption, GraphFacts
<1>1. InputSource(n, port) = {graph.edges[i] : i \in last}
  BY DEF InputSource
<1>2. incoming = {graph.edges[i] : i \in final}
  BY DEF Incoming
<1>3. \A i \in D : i \in last <=> i \in final /\ graph.edges[i].to = n /\ graph.edges[i].in = port
  BY DEF SamePort
<1>4. \A i, j \in last : i = j
  BY <1>0
<1>5. last \subseteq D /\ final \subseteq D
  OBVIOUS
<1>6. \A i \in D : SourceOk(graph, graph.edges[i])
  BY DEF Sound
<1>7. \A i \in last : graph.edges[i].to = n /\ graph.edges[i].in = port
  OBVIOUS
<1> HIDE DEF D, S, last, final
<1>8. \A e : e \in InputSource(n, port) <=> e \in Feeding(incoming, n, port)
  BY <1>1, <1>2, <1>3, <1>5 DEF Feeding
<1>9. InputSource(n, port) = Feeding(incoming, n, port)
  <2>1. Feeding(incoming, n, port) \subseteq InputSource(n, port)
    BY <1>8
  <2>2. InputSource(n, port) \subseteq Feeding(incoming, n, port)
    BY <1>8
  <2> QED BY <2>1, <2>2
<1>10. \A e, f \in InputSource(n, port) : e = f
  BY <1>1, <1>4
<1>11. \A e \in InputSource(n, port) : IsIrEdge(e) /\ SourceOk(graph, e) /\ e.to = n /\ e.in = port
  BY <1>0, <1>1, <1>5, <1>6, <1>7
<1> QED BY <1>9, <1>10, <1>11

\* The edge that feeds a port, of a graph without errors.
Fed(n, port, e) ==
  /\ InputSource(n, port) = {e} /\ Feeding(incoming, n, port) = {e}
  /\ IsIrEdge(e) /\ e.to = n /\ e.in = port
  /\ e.from \in Ids(graph) /\ HasOutputPort(NodeOp(graph, e.from), e.out)

\* A graph without errors.
LEMMA CleanGraph ==
  ASSUME graph \in Graphs, incoming = Incoming(graph), Check(graph, ctx, incoming, cycles) = {}
  PROVE  /\ cycles = {}
         /\ \A m \in ToSet(graph.nodes) : m.id \in Ids(graph) /\ NodeOp(graph, m.id) = m.op
         /\ \A n \in Ids(graph) : \E m \in ToSet(graph.nodes) : m.id = n /\ m.op = NodeOp(graph, n)
         /\ \A n \in Ids(graph) : ReferenceErrors(NodeOp(graph, n), ctx) = {}
         /\ OutputNode \in Ids(graph) /\ NodeOp(graph, OutputNode).kind = "Output"
         /\ \A n \in Ids(graph) : NodeOp(graph, n).kind = "Output" => n = OutputNode
         /\ OutputNode = Min({n.id : n \in {m \in ToSet(graph.nodes) : m.op.kind = "Output"}})
         /\ \A n \in Ids(graph) : \A k \in DOMAIN InputPorts(NodeOp(graph, n)) :
              \E e : Fed(n, InputPorts(NodeOp(graph, n))[k], e)
         /\ \A n \in Ids(graph) : NodeOp(graph, n).kind = "Expr" =>
              OperandsOk(NodeOp(graph, n),
                         [i \in DOMAIN NodeOp(graph, n).operands |->
                            InputType(Inferred(graph, incoming), incoming, n, NodeOp(graph, n).operands[i])])
<1> DEFINE type == Inferred(graph, incoming)
<1>0. IsIrGraph(graph)
  BY GraphsAssumption
<1>1. /\ cycles = {}
      /\ \A j \in DOMAIN graph.nodes : \A k \in 1 .. j - 1 : graph.nodes[k].id # graph.nodes[j].id
      /\ \A n \in ToSet(graph.nodes) : ReferenceErrors(n.op, ctx) = {}
      /\ EdgeErrors(graph) = {} /\ RequiredInputErrors(graph, incoming) = {} /\ OutputErrors(graph) = {}
      /\ OperandErrors(graph, type, incoming) = {}
  BY NoErrors
<1>2. /\ \A i, j \in DOMAIN graph.nodes : graph.nodes[i].id = graph.nodes[j].id => i = j
      /\ \A i \in DOMAIN graph.nodes : NodeOp(graph, graph.nodes[i].id) = graph.nodes[i].op
      /\ \A m \in ToSet(graph.nodes) : m.id \in Ids(graph) /\ NodeOp(graph, m.id) = m.op
      /\ \A n \in Ids(graph) : \E m \in ToSet(graph.nodes) : m.id = n /\ m.op = NodeOp(graph, n)
  BY <1>0, <1>1, NodesAreTold
<1>3. \A n \in Ids(graph) : ReferenceErrors(NodeOp(graph, n), ctx) = {}
  BY <1>1, <1>2
<1>4. PICK o \in DOMAIN graph.nodes :
         /\ graph.nodes[o].op.kind = "Output"
         /\ \A i \in DOMAIN graph.nodes : graph.nodes[i].op.kind = "Output" => i = o
  BY <1>0, <1>1, OneOutput
<1> DEFINE out == graph.nodes[o].id
<1>5. out \in Ids(graph) /\ NodeOp(graph, out).kind = "Output"
  BY <1>2, <1>4 DEF Ids
<1>6. ASSUME NEW n \in Ids(graph), NodeOp(graph, n).kind = "Output" PROVE n = out
  <2>1. PICK i \in DOMAIN graph.nodes : graph.nodes[i].id = n
    BY DEF Ids
  <2> QED BY <2>1, <1>2, <1>4, <1>6
<1>7. OutputNode = out
  BY <1>5, <1>6 DEF OutputNode
<1>8. {n.id : n \in {m \in ToSet(graph.nodes) : m.op.kind = "Output"}} = {out}
  <2>1. \A m \in ToSet(graph.nodes) : m.op.kind = "Output" => m.id = out
    BY <1>2, <1>6
  <2>2. graph.nodes[o] \in ToSet(graph.nodes)
    BY DEF ToSet
  <2> QED BY <2>1, <2>2, <1>4
<1>9. Min({out}) = out
  <2>1. out \in Nat
    BY <1>0, <1>5, GraphFacts
  <2> HIDE DEF out
  <2> QED BY <2>1, MinIsLeast
<1>10. OutputNode = Min({n.id : n \in {m \in ToSet(graph.nodes) : m.op.kind = "Output"}})
  BY <1>7, <1>8, <1>9
<1>11. ASSUME NEW n \in Ids(graph), NEW k \in DOMAIN InputPorts(NodeOp(graph, n))
       PROVE  \E e : Fed(n, InputPorts(NodeOp(graph, n))[k], e)
  <2> DEFINE port == InputPorts(NodeOp(graph, n))[k]
  <2>1. PICK m \in ToSet(graph.nodes) : m.id = n /\ m.op = NodeOp(graph, n)
    BY <1>2
  <2>2. Feeding(incoming, n, port) # {}
    <3> SUFFICES ASSUME Feeding(incoming, n, port) = {} PROVE FALSE
      OBVIOUS
    <3>1. Feeding(incoming, m.id, InputPorts(m.op)[k]) = {} /\ k \in DOMAIN InputPorts(m.op)
      BY <2>1
    <3>2. <<"danglingInput", m.id>> \in RequiredInputErrors(graph, incoming)
      BY <3>1 DEF RequiredInputErrors
    <3> QED BY <3>2, <1>1
  <2>3. Sound(graph) = DOMAIN graph.edges
    BY <1>1, EdgesAreSound
  <2> HIDE DEF port
  <2>4. /\ InputSource(n, port) = Feeding(incoming, n, port)
        /\ \A e, f \in InputSource(n, port) : e = f
        /\ \A e \in InputSource(n, port) : IsIrEdge(e) /\ SourceOk(graph, e) /\ e.to = n /\ e.in = port
    BY <2>3, FedByOne
  <2>5. PICK e : e \in Feeding(incoming, n, port)
    BY <2>2
  <2>6. InputSource(n, port) = {e} /\ Feeding(incoming, n, port) = {e}
    BY <2>4, <2>5
  <2>7. Fed(n, port, e)
    BY <2>4, <2>5, <2>6 DEF Fed, SourceOk
  <2> QED BY <2>7 DEF port
<1>12. ASSUME NEW n \in Ids(graph), NodeOp(graph, n).kind = "Expr"
       PROVE  OperandsOk(NodeOp(graph, n),
                         [i \in DOMAIN NodeOp(graph, n).operands |->
                            InputType(type, incoming, n, NodeOp(graph, n).operands[i])])
  <2>1. PICK m \in ToSet(graph.nodes) : m.id = n /\ m.op = NodeOp(graph, n)
    BY <1>2
  <2> HIDE DEF type
  <2>2. ~ ~ OperandsOk(m.op, [i \in DOMAIN m.op.operands |->
                                InputType(type, incoming, m.id, m.op.operands[i])])
    <3> DEFINE bad(x) == ~ OperandsOk(x.op, [i \in DOMAIN x.op.operands |->
                                InputType(type, incoming, x.id, x.op.operands[i])])
    <3>1. OperandErrors(graph, type, incoming) =
            {<<IF x.op.op = "swizzle" THEN "illegalSwizzle" ELSE "operandType", x.id>> : x \in
               {y \in ToSet(graph.nodes) : y.op.kind = "Expr" /\ bad(y)}}
      BY Zenon DEF OperandErrors
    <3> HIDE DEF bad
    <3>2. ~ bad(m)
      BY <1>1, <1>12, <2>1, <3>1
    <3> QED BY <3>2 DEF bad
  <2> QED BY <2>1, <2>2
<1> QED BY <1>1, <1>2, <1>3, <1>5, <1>6, <1>7, <1>10, <1>11, <1>12

------------------------------------------------------------------------------
(* The search for the order keeps its invariant.                             *)

LEMMA SingleFrame ==
  ASSUME NEW V, NEW list \in [V -> Seq(V)], NEW n \in V
  PROVE  /\ IsPath(V, list, <<Frame(n)>>) /\ NodesOf(<<Frame(n)>>) = {n}
         /\ \A done : Settled(list, <<Frame(n)>>, done)
<1>1. Frame(n) \in Frames(V) /\ Frame(n).node = n /\ Frame(n).next = 1
  BY DEF Frame, Frames
<1>2. Len(list[n]) \in Nat
  OBVIOUS
<1>3. /\ <<Frame(n)>> \in Seq(Frames(V)) /\ DOMAIN <<Frame(n)>> = {1} /\ Len(<<Frame(n)>>) = 1
      /\ <<Frame(n)>>[1] = Frame(n) /\ 1 .. 0 = {}
  BY <1>1
<1>4. IsPath(V, list, <<Frame(n)>>)
  BY <1>1, <1>2, <1>3 DEF IsPath
<1>5. NodesOf(<<Frame(n)>>) = {n}
  BY <1>1, <1>3 DEF NodesOf
<1>6. \A done : Settled(list, <<Frame(n)>>, done)
  BY <1>1, <1>3 DEF Settled
<1> QED BY <1>4, <1>5, <1>6

\* A frame is a member of the list of the frame below it.
LEMMA PathSteps ==
  ASSUME NEW V, NEW list \in [V -> Seq(V)], NEW s, IsPath(V, list, s)
  PROVE  /\ s \in Seq(Frames(V)) /\ Len(s) \in Nat /\ DOMAIN s = 1 .. Len(s)
         /\ \A i \in 1 .. Len(s) : s[i].node \in V
         /\ \A i \in 1 .. Len(s) - 1 : s[i + 1].node \in ToSet(list[s[i].node])
<1>0. s \in Seq(Frames(V)) /\ Len(s) \in Nat /\ DOMAIN s = 1 .. Len(s)
  BY DEF IsPath
<1>1. ASSUME NEW j \in 1 .. Len(s)
      PROVE  s[j].node \in V /\ s[j].next \in Nat \ {0} /\ list[s[j].node] \in Seq(V)
  <2>1. s[j] \in Frames(V)
    BY <1>0
  <2>2. s[j].node \in V /\ s[j].next \in Nat \ {0}
    BY <2>1 DEF Frames
  <2> QED BY <2>2
<1>2. ASSUME NEW j \in 1 .. Len(s) - 1 PROVE s[j + 1].node \in ToSet(list[s[j].node])
  <2>1. j \in 1 .. Len(s) /\ j + 1 \in 1 .. Len(s)
    BY <1>0
  <2>2. /\ s[j].next > 1 /\ s[j].next <= Len(list[s[j].node]) + 1
        /\ list[s[j].node][s[j].next - 1] = s[j + 1].node
    BY <1>0, <2>1 DEF IsPath
  <2>3. s[j].next - 1 \in DOMAIN list[s[j].node]
    BY <2>2, <2>1, <1>1
  <2> QED BY <2>2, <2>3 DEF ToSet
<1> QED BY <1>0, <1>1, <1>2

\* What is on the stack of the second search is needed by the Output.
LEMMA PathIsNeeded ==
  ASSUME graph \in Graphs, NEW s, IsPath(Ids(graph), DepLists, s), s # <<>>, s[1].node = OutputNode
  PROVE  s[Len(s)].node \in Needed
<1> DEFINE V == Ids(graph)
           L == Len(s)
           p == [i \in 1 .. L |-> s[i].node]
<1>0. DepLists \in [V -> Seq(V)] /\ \A n \in V : ToSet(DepLists[n]) = DepsOf[n]
  BY ListFacts
<1>1. /\ s \in Seq(Frames(V)) /\ L \in Nat /\ DOMAIN s = 1 .. L
      /\ \A i \in 1 .. L : s[i].node \in V
      /\ \A i \in 1 .. L - 1 : s[i + 1].node \in ToSet(DepLists[s[i].node])
  BY <1>0, PathSteps
<1>2. L # 0
  BY <1>1
<1>3. L <= Len(graph.nodes) /\ Len(graph.nodes) \in Nat
  BY PathIsShort, GraphsAssumption, GraphFacts
<1> HIDE DEF L
<1>4. p \in Seq(V) /\ Len(p) = L
  <2>1. p \in [1 .. L -> V]
    BY <1>1
  <2> HIDE DEF p, V
  <2> QED BY <1>1, <2>1, FunctionIsSeq
<1>5. p[1] \in {OutputNode} /\ p[L] = s[L].node
  BY <1>1, <1>2
<1>6. \A i \in 1 .. Len(p) - 1 : p[i + 1] \in DepsOf[p[i]]
  <2> SUFFICES ASSUME NEW i \in 1 .. L - 1 PROVE p[i + 1] \in DepsOf[p[i]]
    BY <1>4
  <2>1. i \in 1 .. L /\ i + 1 \in 1 .. L
    BY <1>1
  <2>2. p[i] = s[i].node /\ p[i + 1] = s[i + 1].node
    BY <2>1
  <2> QED BY <2>1, <2>2, <1>0, <1>1
<1>7. Len(p) \in 1 .. Len(graph.nodes) + 1
  BY <1>1, <1>2, <1>3, <1>4
<1> HIDE DEF p
<1>8. p[Len(p)] \in Reach({OutputNode}, DepsOf)
  BY <1>4, <1>5, <1>6, <1>7, ReachPath
<1> QED BY <1>4, <1>5, <1>8 DEF Needed, L

\* The place of a node among the finished ones.
Rank == [n \in Ids(graph) |-> CHOOSE i \in DOMAIN finished : finished[i] = n]

\* Without cycles a child is finished before its parent, and what a node depends on after it.
LEMMA RankFacts ==
  ASSUME graph \in Graphs, finished \in Seq(Ids(graph)), Distinct(finished),
         Closed(finished, ChildrenOf), Ids(graph) \subseteq ToSet(finished)
  PROVE  /\ Rank \in [Ids(graph) -> 1 .. Len(finished)]
         /\ \A n \in Ids(graph) : \A c \in ChildrenOf[n] : c \in Ids(graph) /\ Rank[c] < Rank[n]
         /\ \A n \in Ids(graph) : \A d \in DepsOf[n] : d \in Ids(graph) /\ Rank[n] < Rank[d]
<1>0. DOMAIN finished = 1 .. Len(finished) /\ Len(finished) \in Nat
  OBVIOUS
<1>1. ASSUME NEW n \in Ids(graph)
      PROVE  Rank[n] \in DOMAIN finished /\ finished[Rank[n]] = n
  <2>1. \E i \in DOMAIN finished : finished[i] = n
    BY DEF ToSet
  <2> QED BY <2>1 DEF Rank
<1>2. Rank \in [Ids(graph) -> 1 .. Len(finished)]
  BY <1>0, <1>1 DEF Rank
<1>3. ASSUME NEW n \in Ids(graph), NEW c \in ChildrenOf[n]
      PROVE  c \in Ids(graph) /\ Rank[c] < Rank[n]
  <2>1. c \in Ids(graph)
    BY ChildrenOfFacts
  <2>2. c \in Earlier(finished, Rank[n])
    BY <1>1 DEF Closed
  <2>3. PICK j \in 1 .. Rank[n] - 1 : finished[j] = c
    BY <2>2 DEF Earlier
  <2>4. j \in DOMAIN finished /\ j < Rank[n]
    BY <1>0, <1>1
  <2>5. j = Rank[c]
    BY <1>1, <2>1, <2>3, <2>4 DEF Distinct
  <2> QED BY <2>1, <2>4, <2>5
<1>4. ASSUME NEW n \in Ids(graph), NEW d \in DepsOf[n]
      PROVE  d \in Ids(graph) /\ Rank[n] < Rank[d]
  BY <1>3, DepsOfFacts
<1> QED BY <1>2, <1>3, <1>4

\* A rising list ends in its greatest.
LEMMA LastIsGreatest ==
  ASSUME NEW L \in Nat, NEW r \in [1 .. L -> Nat], \A i \in 1 .. L - 1 : r[i] < r[i + 1]
  PROVE  \A i \in 1 .. L : r[i] <= r[L]
<1> DEFINE Bad == {m \in 0 .. L - 1 : ~ (r[L - m] <= r[L])}
<1>1. ASSUME Bad # {} PROVE FALSE
  <2>1. Bad \in SUBSET Nat
    OBVIOUS
  <2>2. PICK m \in Bad : \A k \in Bad : m <= k
    BY <1>1, <2>1, LeastNumber
  <2>3. m \in 0 .. L - 1 /\ ~ (r[L - m] <= r[L])
    OBVIOUS
  <2>4. m # 0
    <3> SUFFICES ASSUME m = 0 PROVE FALSE
      OBVIOUS
    <3>1. L - m = L /\ L \in 1 .. L
      BY <2>3
    <3>2. r[L] \in Nat
      BY <3>1
    <3> QED BY <3>1, <3>2, <2>3
  <2>5. m - 1 \in 0 .. L - 1 /\ ~ (m <= m - 1)
    BY <2>3, <2>4
  <2>6. r[L - (m - 1)] <= r[L]
    BY <2>2, <2>5
  <2>7. L - m \in 1 .. L - 1 /\ L - m + 1 = L - (m - 1) /\ L \in 1 .. L /\ L - m \in 1 .. L /\ L - m + 1 \in 1 .. L
    BY <2>3, <2>4
  <2>8. r[L - m] < r[L - (m - 1)]
    BY <2>7
  <2>9. r[L] \in Nat /\ r[L - m] \in Nat /\ r[L - (m - 1)] \in Nat
    BY <2>7
  <2> QED BY <2>3, <2>6, <2>8, <2>9
<1>2. \A m \in 0 .. L - 1 : r[L - m] <= r[L]
  BY <1>1
<1>3. ASSUME NEW i \in 1 .. L PROVE r[i] <= r[L]
  <2>1. L - i \in 0 .. L - 1 /\ L - (L - i) = i
    OBVIOUS
  <2> QED BY <1>2, <2>1
<1> QED BY <1>3

\* No dependency of the top frame is on the stack: it was finished later than all of them.
LEMMA DepIsNew ==
  ASSUME graph \in Graphs, finished \in Seq(Ids(graph)), Distinct(finished),
         Closed(finished, ChildrenOf), Ids(graph) \subseteq ToSet(finished),
         NEW s, IsPath(Ids(graph), DepLists, s), s # <<>>, NEW d \in DepsOf[s[Len(s)].node]
  PROVE  d \in Ids(graph) /\ d \notin NodesOf(s)
<1> DEFINE V == Ids(graph)
           L == Len(s)
           r == [i \in 1 .. L |-> Rank[s[i].node]]
<1>0. DepLists \in [V -> Seq(V)] /\ \A n \in V : ToSet(DepLists[n]) = DepsOf[n]
  BY ListFacts
<1>1. /\ s \in Seq(Frames(V)) /\ L \in Nat /\ DOMAIN s = 1 .. L
      /\ \A i \in 1 .. L : s[i].node \in V
      /\ \A i \in 1 .. L - 1 : s[i + 1].node \in ToSet(DepLists[s[i].node])
  BY <1>0, PathSteps
<1>2. L # 0 /\ L \in 1 .. L
  BY <1>1
<1>3. /\ Rank \in [V -> 1 .. Len(finished)] /\ Len(finished) \in Nat
      /\ \A n \in V : \A x \in DepsOf[n] : x \in V /\ Rank[n] < Rank[x]
  BY RankFacts
<1> HIDE DEF L, V
<1>4. r \in [1 .. L -> Nat]
  BY <1>1, <1>3
<1>5. ASSUME NEW i \in 1 .. L - 1 PROVE r[i] < r[i + 1]
  <2>1. i \in 1 .. L /\ i + 1 \in 1 .. L
    BY <1>1
  <2>2. s[i + 1].node \in DepsOf[s[i].node] /\ s[i].node \in V
    BY <1>0, <1>1, <2>1
  <2> QED BY <1>3, <2>1, <2>2
<1>6. \A i \in 1 .. L : r[i] <= r[L]
  <2> HIDE DEF r
  <2> QED BY <1>1, <1>4, <1>5, LastIsGreatest
<1>7. d \in V /\ Rank[s[L].node] < Rank[d]
  BY <1>1, <1>2, <1>3 DEF L
<1>8. \A i \in 1 .. L : s[i].node # d
  <2> SUFFICES ASSUME NEW i \in 1 .. L, s[i].node = d PROVE FALSE
    OBVIOUS
  <2>1. r[i] = Rank[d] /\ r[L] = Rank[s[L].node] /\ r[i] <= r[L]
    BY <1>2, <1>6
  <2>2. Rank[d] \in Nat /\ Rank[s[L].node] \in Nat
    BY <1>1, <1>2, <1>3, <1>7
  <2> QED BY <2>1, <2>2, <1>7
<1> QED BY <1>1, <1>7, <1>8 DEF NodesOf, V

\* A step inside the search, from what it leaves.
LEMMA OrderGoesOn ==
  ASSUME graph' = graph, pc' = "order", stmts' = <<>>,
         IsPath(Ids(graph), DepLists, stack'), stack' # <<>>, stack'[1].node = OutputNode,
         order' \in Seq(Ids(graph)), Distinct(order'), Closed(order', DepsOf),
         OnStack' \cap ToSet(order') = {}, OnStack' \cup ToSet(order') \subseteq Needed,
         Settled(DepLists, stack', ToSet(order'))
  PROVE  OrderInv'
<1>1. DepsOf' = DepsOf /\ DepLists' = DepLists /\ Needed' = Needed /\ OutputNode' = OutputNode
  BY Kept
<1> QED BY <1>1 DEF OrderInv

LEMMA OrderKeeps ==
  ASSUME SearchInv, VerdictInv, OrderInv, Next \/ UNCHANGED vars
  PROVE  OrderInv'
<1> DEFINE V == Ids(graph)
<1>0. /\ graph \in Graphs /\ finished \in Seq(V) /\ Distinct(finished)
      /\ cycles = {} => Closed(finished, ChildrenOf)
      /\ DepLists \in [V -> Seq(V)]
      /\ \A n \in V : DepLists[n] = Deps(n) /\ ToSet(DepLists[n]) = DepsOf[n]
  BY ListFacts DEF SearchInv
<1>1. CASE ReadEdges \/ SearchFrom \/ VisitChild \/ Finish
  <2>1. pc \in {"edges", "cycles"} /\ pc' = "cycles" /\ order' = order /\ stmts' = stmts
    BY <1>1 DEF ReadEdges, SearchFrom, VisitChild, Finish
  <2> QED BY <2>1 DEF OrderInv
<1>2. CASE Judge
  <2>1. /\ pc = "cycles" /\ order' = order /\ stmts' = stmts /\ graph' = graph
        /\ diagnostics' = Check(graph, ctx, incoming, cycles)
        /\ pc' = IF diagnostics' = {} THEN "order" ELSE "refused"
    BY <1>2 DEF Judge
  <2>2. order = <<>> /\ stmts = <<>> /\ incoming = Incoming(graph)
    BY <2>1 DEF OrderInv, SearchInv
  <2>3. CASE diagnostics' # {}
    BY <2>1, <2>2, <2>3 DEF OrderInv
  <2>4. CASE diagnostics' = {}
    <3>1. Check(graph, ctx, incoming, cycles) = {}
      BY <2>1, <2>4
    <3>2. /\ OutputNode \in V
          /\ OutputNode = Min({n.id : n \in {m \in ToSet(graph.nodes) : m.op.kind = "Output"}})
      BY <1>0, <2>2, <3>1, CleanGraph
    <3>3. stack' = <<Frame(OutputNode)>>
      <4> DEFINE least == Min({n.id : n \in {m \in ToSet(graph.nodes) : m.op.kind = "Output"}})
      <4>1. stack' = IF diagnostics' = {} THEN <<Frame(least)>> ELSE <<>>
        BY <1>2 DEF Judge
      <4>2. least = OutputNode
        BY <3>2
      <4> HIDE DEF least
      <4> QED BY <4>1, <4>2, <2>4
    <3>4. /\ IsPath(V, DepLists, stack') /\ OnStack' = {OutputNode} /\ Settled(DepLists, stack', {})
      <4>1. IsPath(V, DepLists, stack')
        BY <1>0, <3>2, <3>3, SingleFrame
      <4>2. NodesOf(stack') = {OutputNode} /\ Settled(DepLists, stack', {})
        BY <1>0, <3>2, <3>3, SingleFrame
      <4>3. OnStack' = NodesOf(stack')
        BY DEF OnStack, NodesOf
      <4> QED BY <4>1, <4>2, <4>3
    <3>5. stack' # <<>> /\ Len(stack') = 1 /\ stack'[1].node = OutputNode
      BY <3>3 DEF Frame
    <3>6. OutputNode \in Needed
      BY <1>0, <3>4, <3>5, PathIsNeeded
    <3>7. ToSet(order') = {} /\ Distinct(order') /\ Closed(order', DepsOf) /\ order' \in Seq(V)
      BY <2>1, <2>2 DEF ToSet, Distinct, Closed
    <3> QED BY <2>1, <2>2, <2>4, <3>4, <3>5, <3>6, <3>7, OrderGoesOn
  <2> QED BY <2>3, <2>4
<1>3. ASSUME pc = "order"
      PROVE  /\ cycles = {} /\ stmts = <<>> /\ V \subseteq ToSet(finished)
             /\ IsPath(V, DepLists, stack) /\ stack # <<>> /\ stack[1].node = OutputNode
             /\ order \in Seq(V) /\ Distinct(order) /\ Closed(order, DepsOf)
             /\ OnStack \cap ToSet(order) = {} /\ OnStack \cup ToSet(order) \subseteq Needed
             /\ Settled(DepLists, stack, ToSet(order))
             /\ Top.node \in V /\ DepLists[Top.node] = Deps(Top.node)
             /\ Top.next \in Nat \ {0} /\ Len(Deps(Top.node)) \in Nat
  <2>1. /\ stmts = <<>> /\ V \subseteq ToSet(finished)
        /\ IsPath(V, DepLists, stack) /\ stack # <<>> /\ stack[1].node = OutputNode
        /\ order \in Seq(V) /\ Distinct(order) /\ Closed(order, DepsOf)
        /\ OnStack \cap ToSet(order) = {} /\ OnStack \cup ToSet(order) \subseteq Needed
        /\ Settled(DepLists, stack, ToSet(order))
    BY <1>3 DEF OrderInv, SearchInv
  <2>2. cycles = {}
    BY <1>3, NoErrors DEF VerdictInv
  <2>3. Top \in Frames(V)
    <3>1. stack \in Seq(Frames(V))
      BY <2>1 DEF IsPath
    <3> QED BY <3>1, <2>1 DEF Top
  <2>4. Top.node \in V /\ Top.next \in Nat \ {0}
    BY <2>3 DEF Frames
  <2>5. Len(Deps(Top.node)) \in Nat
    BY <1>0, <2>4
  <2> QED BY <1>0, <2>1, <2>2, <2>4, <2>5
<1>4. CASE VisitDep
  <2> DEFINE dep == Deps(Top.node)[Top.next]
  <2>1. pc = "order" /\ pc' = "order" /\ Top.next <= Len(Deps(Top.node))
    BY <1>4 DEF VisitDep
  <2>2. /\ order' = order /\ stmts' = stmts /\ graph' = graph
        /\ stack' = IF dep \in OnStack \cup ToSet(order) THEN AdvanceOf(stack)
                    ELSE Append(AdvanceOf(stack), Frame(dep))
    BY <1>4 DEF VisitDep, Advance, AdvanceOf
  <2>3. /\ IsPath(V, DepLists, stack) /\ stack # <<>>
        /\ stack[Len(stack)].next <= Len(DepLists[stack[Len(stack)].node])
        /\ dep = NextOf(DepLists, stack)
    BY <1>3, <2>1 DEF Top, NextOf
  <2>4. dep \in DepsOf[stack[Len(stack)].node]
    <3>1. Deps(Top.node) \in Seq(V) /\ Top.next \in 1 .. Len(Deps(Top.node))
      BY <1>0, <1>3, <2>1
    <3>2. dep \in ToSet(Deps(Top.node))
      BY <3>1 DEF ToSet
    <3> QED BY <3>2, <1>0, <1>3, <2>1 DEF Top
  <2> HIDE DEF dep
  <2>5. dep \in V /\ dep \notin NodesOf(stack)
    BY <1>0, <1>3, <2>1, <2>3, <2>4, DepIsNew
  <2>6. OnStack' = NodesOf(stack') /\ OnStack = NodesOf(stack)
    BY DEF OnStack, NodesOf
  <2>7. order' \in Seq(V) /\ Distinct(order') /\ Closed(order', DepsOf) /\ stmts' = <<>>
    BY <1>3, <2>1, <2>2
  <2>8. CASE dep \in ToSet(order)
    <3> DEFINE t == AdvanceOf(stack)
    <3>1. /\ IsPath(V, DepLists, t) /\ t # <<>> /\ t[1].node = stack[1].node
          /\ NodesOf(t) = NodesOf(stack)
      BY <1>0, <2>3, AdvanceKeeps
    <3>2. Settled(DepLists, t, ToSet(order))
      <4>1. DepLists[stack[Len(stack)].node][stack[Len(stack)].next] \in ToSet(order)
        BY <2>3, <2>8 DEF NextOf
      <4> QED BY <1>0, <1>3, <2>1, <2>3, <4>1, AdvanceKeeps
    <3> HIDE DEF t
    <3>3. stack' = t
      BY <2>2, <2>8 DEF t
    <3>4. OnStack' = OnStack
      BY <2>6, <3>1, <3>3
    <3>5. OnStack' \cap ToSet(order') = {} /\ OnStack' \cup ToSet(order') \subseteq Needed
      BY <1>3, <2>1, <2>2, <3>4
    <3>6. /\ IsPath(V, DepLists, stack') /\ stack' # <<>> /\ stack'[1].node = OutputNode
          /\ Settled(DepLists, stack', ToSet(order'))
      BY <1>3, <2>1, <2>2, <3>1, <3>2, <3>3
    <3> QED BY <2>1, <2>2, <2>7, <3>5, <3>6, OrderGoesOn
  <2>9. CASE dep \notin ToSet(order)
    <3> DEFINE t == PushOf(stack, dep)
    <3>1. IsPath(V, DepLists, t) /\ t # <<>> /\ t[1].node = stack[1].node
      BY <1>0, <2>3, <2>5, PushKeeps
    <3>2. Settled(DepLists, t, ToSet(order))
      BY <1>0, <1>3, <2>1, <2>3, <2>5, PushKeeps
    <3>3. NodesOf(t) = NodesOf(stack) \cup {dep} /\ Len(t) = Len(stack) + 1 /\ t[Len(stack) + 1].node = dep
      <4>1. stack \in Seq(Frames(V))
        BY <2>3 DEF IsPath
      <4> QED BY <4>1, <2>3, <2>5, PushNodes
    <3> HIDE DEF t
    <3>4. stack' = t
      BY <2>2, <2>5, <2>6, <2>9 DEF t, PushOf
    <3>5. OnStack' = OnStack \cup {dep}
      BY <2>6, <3>3, <3>4
    <3>6. t[Len(t)].node = dep /\ t[1].node = OutputNode
      BY <1>3, <2>1, <3>1, <3>3
    <3>7. dep \in Needed
      BY <1>0, <3>1, <3>6, PathIsNeeded
    <3>8. OnStack' \cap ToSet(order') = {} /\ OnStack' \cup ToSet(order') \subseteq Needed
      BY <1>3, <2>1, <2>2, <2>9, <3>5, <3>7
    <3>9. /\ IsPath(V, DepLists, stack') /\ stack' # <<>> /\ stack'[1].node = OutputNode
          /\ Settled(DepLists, stack', ToSet(order'))
      BY <2>2, <3>1, <3>2, <3>4, <3>6
    <3> QED BY <2>1, <2>2, <2>7, <3>8, <3>9, OrderGoesOn
  <2> QED BY <2>8, <2>9
<1>5. CASE Place
  <2> DEFINE t == Front(stack)
             top == stack[Len(stack)].node
  <2>1. /\ pc = "order" /\ ~ (Top.next <= Len(Deps(Top.node)))
        /\ order' = Append(order, top) /\ stack' = t /\ graph' = graph /\ stmts' = stmts
        /\ pc' = IF Len(stack) = 1 THEN "emit" ELSE "order"
    <3>1. pc = "order" /\ Top.next > Len(Deps(Top.node))
      BY <1>5 DEF Place
    <3>2. ~ (Top.next <= Len(Deps(Top.node)))
      BY <3>1, <1>3
    <3> QED BY <1>5, <3>2 DEF Place, Top, Pop
  <2>2. /\ IsPath(V, DepLists, stack) /\ stack # <<>>
        /\ ~ (stack[Len(stack)].next <= Len(DepLists[stack[Len(stack)].node]))
    BY <1>3, <2>1 DEF Top
  <2>3. /\ top \in V /\ IsPath(V, DepLists, t)
        /\ IF Len(stack) = 1 THEN t = <<>> ELSE t # <<>> /\ t[1].node = stack[1].node
        /\ NodesOf(stack) = NodesOf(t) \cup {top} /\ top \notin NodesOf(t)
    BY <1>0, <2>2, PopKeeps
  <2>4. ToSet(DepLists[top]) \subseteq ToSet(order) /\ Settled(DepLists, t, ToSet(order) \cup {top})
    BY <1>0, <1>3, <2>1, <2>2, PopKeeps
  <2>5. OnStack' = NodesOf(stack') /\ OnStack = NodesOf(stack)
    BY DEF OnStack, NodesOf
  <2> HIDE DEF t, top
  <2>6. CASE Len(stack) = 1
    BY <2>1, <2>6, <1>3 DEF OrderInv
  <2>7. CASE Len(stack) # 1
    <3>1. DepsOf[top] \subseteq ToSet(order)
      BY <1>0, <2>3, <2>4
    <3>2. top \in OnStack /\ top \notin ToSet(order) /\ OnStack' \subseteq OnStack /\ top \notin OnStack'
      BY <1>3, <2>1, <2>3, <2>5
    <3>3. /\ order' \in Seq(V) /\ Distinct(order') /\ ToSet(order') = ToSet(order) \cup {top}
          /\ Closed(order', DepsOf)
      BY <1>3, <2>1, <2>3, <3>1, <3>2, ClosedGrows
    <3>4. OnStack' \cap ToSet(order') = {} /\ OnStack' \cup ToSet(order') \subseteq Needed
      BY <1>3, <2>1, <3>2, <3>3
    <3>5. /\ IsPath(V, DepLists, stack') /\ stack' # <<>> /\ stack'[1].node = OutputNode
          /\ Settled(DepLists, stack', ToSet(order'))
      BY <1>3, <2>1, <2>3, <2>4, <2>7, <3>3
    <3>6. pc' = "order" /\ stmts' = <<>> /\ graph' = graph
      BY <1>3, <2>1, <2>7
    <3> QED BY <3>3, <3>4, <3>5, <3>6, OrderGoesOn
  <2> QED BY <2>6, <2>7
<1>6. CASE EmitNode \/ Write
  <2>1. pc' \in {"emit", "write", "done", "noOutput"}
    BY <1>6 DEF EmitNode, Write
  <2> QED BY <2>1 DEF OrderInv
<1>7. CASE UNCHANGED vars
  <2>1. DepsOf' = DepsOf /\ DepLists' = DepLists /\ Needed' = Needed /\ OutputNode' = OutputNode
    BY <1>7, Kept DEF vars
  <2>2. OnStack' = OnStack /\ pc' = pc /\ order' = order /\ stmts' = stmts /\ stack' = stack /\ graph' = graph
    BY <1>7 DEF vars, OnStack
  <2> QED BY <2>1, <2>2 DEF OrderInv
<1> QED BY <1>1, <1>2, <1>4, <1>5, <1>6, <1>7 DEF Next
------------------------------------------------------------------------------
(* The types the checker infers.                                             *)

\* Past the verdict the graph is without errors, and the nodes are ranked.
LEMMA CheckedGraph ==
  ASSUME SearchInv, VerdictInv, pc \in {"order", "emit", "write", "done"}
  PROVE  /\ graph \in Graphs /\ IsIrGraph(graph) /\ incoming = Incoming(graph)
         /\ Check(graph, ctx, incoming, cycles) = {} /\ cycles = {}
         /\ Len(finished) \in Nat /\ Rank \in [Ids(graph) -> 1 .. Len(finished)]
         /\ \A n \in Ids(graph) : \A c \in ChildrenOf[n] : c \in Ids(graph) /\ Rank[c] < Rank[n]
<1>1. /\ graph \in Graphs /\ incoming = Incoming(graph)
      /\ finished \in Seq(Ids(graph)) /\ Distinct(finished)
      /\ cycles = {} => Closed(finished, ChildrenOf)
      /\ Ids(graph) \subseteq ToSet(finished)
  BY DEF SearchInv
<1>2. Check(graph, ctx, incoming, cycles) = {}
  BY DEF VerdictInv
<1>3. cycles = {}
  BY <1>2, NoErrors
<1>4. Len(finished) \in Nat
  BY <1>1
<1> QED BY <1>1, <1>2, <1>3, <1>4, RankFacts, GraphsAssumption

OperandTypes(type, n) ==
  [port \in ToSet(InputPorts(NodeOp(graph, n))) |-> InputType(type, incoming, n, port)]

TypedPorts == UNION {{n} \X OutputPorts(NodeOp(graph, n)) : n \in Ids(graph)}

\* One step of the inference.
Infer(type, p) == InferOutput(NodeOp(graph, p[1]), p[2], OperandTypes(type, p[1]))

\* What feeds a port is a node of the graph of higher rank.
LEMMA FeedRanks ==
  ASSUME SearchInv, VerdictInv, pc \in {"order", "emit", "write", "done"},
         NEW n, NEW port, NEW e \in Feeding(incoming, n, port)
  PROVE  /\ n \in Ids(graph) /\ e.from \in Ids(graph) /\ Rank[n] < Rank[e.from]
         /\ <<e.from, e.out>> \in TypedPorts
<1>1. PICK i \in DOMAIN graph.edges : e = graph.edges[i] /\ i \in Sound(graph)
  <2>1. e \in Incoming(graph)
    BY CheckedGraph DEF Feeding
  <2>2. \E i \in Sound(graph) : e = graph.edges[i]
    BY <2>1 DEF Incoming
  <2> QED BY <2>2 DEF Sound
<1>2. e.to = n /\ e.from \in Ids(graph) /\ e.to \in Ids(graph)
  BY <1>1 DEF Feeding, Sound, SourceOk, TargetOk
<1>3. n \in ToSet(Children(e.from))
  BY <1>1, <1>2, ChildrenFacts, CheckedGraph
<1>4. n \in ChildrenOf[e.from]
  BY <1>2, <1>3, ChildrenOfFacts, CheckedGraph
<1>5. e.out \in OutputPorts(NodeOp(graph, e.from))
  BY <1>1 DEF Sound, SourceOk, HasOutputPort
<1> QED BY <1>2, <1>4, <1>5, CheckedGraph DEF TypedPorts

\* The recursion of Inferred is well-founded: it has a solution.
LEMMA InferenceEnds ==
  ASSUME SearchInv, VerdictInv, pc \in {"order", "emit", "write", "done"}
  PROVE  \E type : type = [p \in TypedPorts |-> Infer(type, p)]
<1> DEFINE N == Len(finished)
           D == TypedPorts
           Level(n) == IF n \in Ids(graph) THEN N - Rank[n] ELSE 0
           Upto(f, k) == f = [p \in D |-> f[p]] /\ \A p \in D : Level(p[1]) < k => f[p] = Infer(f, p)
           Bad == {k \in Nat : ~ \E f : Upto(f, k)}
<1>1. N \in Nat /\ \A n : Level(n) \in 0 .. N
  <2>1. N \in Nat /\ Rank \in [Ids(graph) -> 1 .. N]
    BY CheckedGraph
  <2> HIDE DEF N
  <2> QED BY <2>1
<1>2. ASSUME NEW f, NEW g, NEW k \in Nat, NEW p \in D, Level(p[1]) <= k,
             \A q \in D : Level(q[1]) < k => f[q] = g[q]
      PROVE  Infer(f, p) = Infer(g, p)
  <2>1. ASSUME NEW port
        PROVE  InputType(f, incoming, p[1], port) = InputType(g, incoming, p[1], port)
    <3>1. CASE Feeding(incoming, p[1], port) = {}
      BY <3>1 DEF InputType
    <3>2. CASE Feeding(incoming, p[1], port) # {}
      <4> DEFINE e == CHOOSE x \in Feeding(incoming, p[1], port) : TRUE
      <4>1. e \in Feeding(incoming, p[1], port)
        BY <3>2
      <4> HIDE DEF e
      <4>2. /\ p[1] \in Ids(graph) /\ e.from \in Ids(graph) /\ Rank[p[1]] < Rank[e.from]
            /\ <<e.from, e.out>> \in D
        BY <4>1, FeedRanks
      <4>3. Rank[p[1]] \in 1 .. N /\ Rank[e.from] \in 1 .. N
        BY <4>2, CheckedGraph
      <4>4. Level(e.from) = N - Rank[e.from] /\ Level(p[1]) = N - Rank[p[1]]
        BY <4>2
      <4>5. Level(e.from) < k
        <5> HIDE DEF N, Level
        <5> QED BY <4>2, <4>3, <4>4, <1>1, <1>2
      <4> DEFINE q == <<e.from, e.out>>
      <4>6. q \in D /\ q[1] = e.from
        BY <4>2
      <4>7. f[q] = g[q]
        <5> HIDE DEF q, D, Level
        <5> QED BY <4>5, <4>6, <1>2
      <4> QED BY <3>2, <4>7 DEF InputType, e
    <3> QED BY <3>1, <3>2
  <2>2. OperandTypes(f, p[1]) = OperandTypes(g, p[1])
    BY <2>1 DEF OperandTypes
  <2> QED BY <2>2 DEF Infer
<1> HIDE DEF D, Level, N
<1>3. ASSUME NEW k \in Nat, NEW f, Upto(f, k) PROVE Upto([p \in D |-> Infer(f, p)], k + 1)
  <2> DEFINE g == [p \in D |-> Infer(f, p)]
  <2>1. \A q \in D : Level(q[1]) < k => g[q] = f[q]
    BY <1>3
  <2>2. ASSUME NEW p \in D, Level(p[1]) < k + 1 PROVE g[p] = Infer(g, p)
    <3>1. Level(p[1]) <= k
      BY <2>2, <1>1
    <3>2. g[p] = Infer(f, p)
      OBVIOUS
    <3> HIDE DEF g
    <3>3. Infer(g, p) = Infer(f, p)
      BY <1>2, <2>1, <3>1
    <3> QED BY <3>2, <3>3
  <2>3. g = [p \in D |-> g[p]]
    OBVIOUS
  <2> QED BY <2>2, <2>3
<1>4. ASSUME Bad # {} PROVE FALSE
  <2>1. PICK k \in Bad : \A m \in Bad : k <= m
    BY <1>4, LeastNumber, Zenon
  <2>2. k \in Nat /\ ~ \E f : Upto(f, k)
    BY <2>1, Zenon
  <2>3. k # 0
    <3> SUFFICES ASSUME k = 0 PROVE FALSE
      OBVIOUS
    <3>1. Upto([p \in D |-> None], 0)
      BY <1>1
    <3> HIDE DEF Upto
    <3> QED BY <3>1, <2>2
  <2> HIDE DEF Upto, Bad
  <2>4. k - 1 \in Nat /\ k - 1 \notin Bad
    BY <2>1, <2>2, <2>3
  <2>5. PICK f : Upto(f, k - 1)
    BY <2>4, Zenon DEF Bad
  <2>6. Upto([p \in D |-> Infer(f, p)], k - 1 + 1) /\ k - 1 + 1 = k
    BY <1>3, <2>2, <2>4, <2>5
  <2> QED BY <2>2, <2>6
<1>5. N + 1 \in Nat /\ N + 1 \notin Bad
  BY <1>1, <1>4
<1>6. PICK f : Upto(f, N + 1)
  BY <1>5, Zenon
<1>7. \A p \in D : f[p] = Infer(f, p)
  BY <1>1, <1>6
<1>8. f = [p \in D |-> f[p]]
  BY <1>6
<1>9. f = [p \in D |-> Infer(f, p)]
  BY <1>7, <1>8
<1> QED BY <1>9 DEF D

\* So the inferred type of a port is what one step makes of the types before it.
LEMMA InferredFacts ==
  ASSUME SearchInv, VerdictInv, pc \in {"order", "emit", "write", "done"},
         NEW n \in Ids(graph), NEW port \in OutputPorts(NodeOp(graph, n))
  PROVE  Inferred(graph, incoming)[<<n, port>>] = Infer(Inferred(graph, incoming), <<n, port>>)
<1> DEFINE type == Inferred(graph, incoming)
<1>1. type = CHOOSE f : f = [p \in TypedPorts |-> Infer(f, p)]
  BY DEF Inferred, Infer, OperandTypes, InputType, TypedPorts
<1>2. type = [p \in TypedPorts |-> Infer(type, p)]
  <2> HIDE DEF type
  <2> QED BY <1>1, InferenceEnds
<1>3. <<n, port>> \in {n} \X OutputPorts(NodeOp(graph, n))
  OBVIOUS
<1>4. <<n, port>> \in TypedPorts
  BY <1>3 DEF TypedPorts
<1> HIDE DEF type
<1>5. type[<<n, port>>] = Infer(type, <<n, port>>)
  BY ONLY <1>2, <1>4
<1> QED BY <1>5 DEF type

------------------------------------------------------------------------------
(* The statements.                                                           *)

\* The search for the order ends with the Output, after all it needs.
LEMMA OrderIsComplete ==
  ASSUME SearchInv, VerdictInv, OrderInv, Place, Len(stack) = 1
  PROVE  EmitInv'
<1> DEFINE V == Ids(graph)
           L == Len(order)
<1>1. /\ pc = "order" /\ pc' = "emit" /\ ~ (Top.next <= Len(Deps(Top.node))) /\ Top.node = OutputNode
      /\ order' = Append(order, OutputNode) /\ graph' = graph /\ stmts' = stmts
  <2>1. /\ pc = "order" /\ pc' = "emit" /\ Top.next > Len(Deps(Top.node))
        /\ order' = Append(order, Top.node) /\ graph' = graph /\ stmts' = stmts
    BY DEF Place
  <2>2. Top.node = OutputNode /\ Top \in Frames(V)
    BY <2>1 DEF OrderInv, IsPath, Top
  <2>3. Top.next \in Nat /\ Top.node \in V
    BY <2>2 DEF Frames
  <2>4. Len(Deps(Top.node)) \in Nat
    <3>1. Deps(Top.node) \in Seq(V)
      BY CheckedGraph, <2>1, DepsFacts
    <3> QED BY <3>1
  <2> QED BY <2>1, <2>2, <2>3, <2>4
<1>2. /\ graph \in Graphs /\ IsPath(V, DepLists, stack) /\ stack # <<>>
      /\ order \in Seq(V) /\ Distinct(order) /\ Closed(order, DepsOf) /\ stmts = <<>>
      /\ OnStack \cap ToSet(order) = {} /\ OnStack \cup ToSet(order) \subseteq Needed
      /\ Settled(DepLists, stack, ToSet(order))
  BY <1>1, CheckedGraph DEF OrderInv
<1>3. DepLists \in [V -> Seq(V)] /\ \A n \in V : DepLists[n] = Deps(n) /\ ToSet(DepLists[n]) = DepsOf[n]
  BY <1>2, ListFacts
<1>4. stack[Len(stack)] = Top /\ stack[Len(stack)].node = OutputNode
  BY <1>1 DEF Top
<1>5. OutputNode \in V
  BY CheckedGraph, <1>1, CleanGraph
<1>6. DepsOf[OutputNode] \subseteq ToSet(order)
  <2>1. ~ (stack[Len(stack)].next <= Len(DepLists[stack[Len(stack)].node]))
    BY <1>1, <1>3, <1>4, <1>5
  <2>2. ToSet(DepLists[stack[Len(stack)].node]) \subseteq ToSet(order)
    BY <1>2, <1>3, <2>1, PopKeeps
  <2> QED BY <1>3, <1>4, <1>5, <2>2
<1>7. OutputNode \in OnStack
  <2>1. stack[Len(stack)].node \in OnStack
    <3>1. Len(stack) \in DOMAIN stack
      BY <1>2 DEF IsPath
    <3> QED BY <3>1 DEF OnStack
  <2> QED BY <2>1, <1>4
<1>8. /\ order' \in Seq(V) /\ Distinct(order') /\ ToSet(order') = ToSet(order) \cup {OutputNode}
      /\ Closed(order', DepsOf)
  <2>1. OutputNode \notin ToSet(order)
    BY <1>2, <1>7
  <2> QED BY <1>1, <1>2, <1>5, <1>6, <2>1, ClosedGrows
<1>9. ToSet(order') \subseteq Needed
  BY <1>2, <1>7, <1>8
<1>10. Needed \subseteq ToSet(order')
  <2>1. ASSUME NEW n \in ToSet(order') PROVE DepsOf[n] \subseteq ToSet(order')
    <3>1. PICK i \in DOMAIN order' : order'[i] = n
      BY DEF ToSet
    <3>2. DepsOf[n] \subseteq Earlier(order', i)
      BY <1>8, <3>1 DEF Closed
    <3>3. \A j \in 1 .. i - 1 : j \in DOMAIN order'
      <4>1. DOMAIN order' = 1 .. Len(order') /\ Len(order') \in Nat
        BY <1>8
      <4> QED BY <4>1
    <3> QED BY <3>2, <3>3 DEF Earlier, ToSet
  <2> DEFINE C == ToSet(order')
  <2>2. {OutputNode} \subseteq C
    BY <1>8
  <2> HIDE DEF C
  <2>3. Reach({OutputNode}, DepsOf) \subseteq C
    BY <1>2, <2>1, <2>2, ReachClosed DEF C
  <2> QED BY <2>3 DEF Needed, C
<1>11. DepsOf' = DepsOf /\ Needed' = Needed /\ OutputNode' = OutputNode
  BY <1>1, Kept
<1>12. Lowered' = {}
  BY <1>10, <1>11 DEF Lowered
<1>13. order' # <<>> /\ order'[Len(order')] = OutputNode
  <2>1. order \in Seq(V) /\ order' = Append(order, OutputNode)
    BY <1>1, <1>2
  <2> QED BY <2>1
<1>14. stmts' = <<>> /\ Stmts' = {} /\ IsSequence(stmts')
  BY <1>1, <1>2 DEF Stmts, IsSequence
<1>15. \A i \in DOMAIN order' : DepsOf[order'[i]] \subseteq Earlier(order', i)
  BY <1>8 DEF Closed
<1>16. graph' = graph /\ pc' = "emit"
  BY <1>1
<1> QED BY <1>8, <1>9, <1>11, <1>12, <1>13, <1>14, <1>15, <1>16 DEF EmitInv

\* A port of a node whose dependencies are lowered has a temporary to read.
LEMMA InputIsDefined ==
  ASSUME SearchInv, VerdictInv, EmitInv, pc \in {"emit", "write"},
         NEW n \in Ids(graph), DepsOf[n] \subseteq Lowered,
         NEW k \in DOMAIN InputPorts(NodeOp(graph, n))
  PROVE  \E t, e :
           /\ t \in Nat /\ Fed(n, InputPorts(NodeOp(graph, n))[k], e)
           /\ t + 1 \in Stmts /\ stmts[t + 1].node = e.from /\ stmts[t + 1].port = e.out
           /\ InputTemp(n, InputPorts(NodeOp(graph, n))[k]) = {t} /\ TempOr0({t}) = t
           /\ OperandType(n, InputPorts(NodeOp(graph, n))[k]) = stmts[t + 1].type
<1> DEFINE port == InputPorts(NodeOp(graph, n))[k]
<1>1. PICK e : Fed(n, port, e)
  BY CheckedGraph, CleanGraph
<1>2. e.from \in DepsOf[n]
  <2>1. e \in InputSource(n, port) /\ e.from \in Ids(graph)
    BY <1>1 DEF Fed
  <2> HIDE DEF port
  <2>2. e.from \in ToSet(Deps(n))
    BY <2>1, CheckedGraph, DepsFacts DEF port
  <2> QED BY <2>2, CheckedGraph, DepsOfFacts
<1> DEFINE defs == Defining(e.from, e.out)
<1>3. defs # {}
  <2>1. e.out \in OutputPorts(NodeOp(graph, e.from))
    BY <1>1 DEF Fed, HasOutputPort
  <2> QED BY <1>2, <2>1 DEF EmitInv
<1>4. Len(stmts) \in Nat /\ DOMAIN stmts = 1 .. Len(stmts)
  <2>1. stmts \in Seq(ToSet(stmts))
    BY DEF EmitInv, IsSequence
  <2> QED BY <2>1
<1>5. defs \in SUBSET (0 .. Len(stmts)) /\ defs \subseteq Stmts
  BY <1>4 DEF Defining, Stmts
<1>6. Max(defs) \in defs
  <2> HIDE DEF defs
  <2> QED BY <1>3, <1>4, <1>5, MaxIsGreatest
<1> DEFINE t == Max(defs) - 1
<1>7. t \in Nat /\ t + 1 = Max(defs) /\ t + 1 \in Stmts
  <2> HIDE DEF defs
  <2>1. Max(defs) \in 1 .. Len(stmts)
    BY <1>5, <1>6 DEF Stmts
  <2> QED BY <2>1, <1>4 DEF Stmts
<1>8. stmts[t + 1].node = e.from /\ stmts[t + 1].port = e.out
  BY <1>6, <1>7 DEF Defining
<1>9. InputTemp(n, port) = {t}
  <2>1. UNION {Defining(x.from, x.out) : x \in InputSource(n, port)} = defs
    BY <1>1 DEF Fed
  <2> HIDE DEF defs
  <2> QED BY <2>1, <1>3 DEF InputTemp
<1> HIDE DEF defs, t, port
<1>10. Max({t}) = t
  <2>1. {t} \in SUBSET (0 .. t)
    BY <1>7
  <2> QED BY <2>1, <1>7, MaxIsGreatest
<1>11. TempOr0({t}) = t /\ OperandType(n, port) = stmts[t + 1].type
  BY <1>9, <1>10 DEF TempOr0, OperandType
<1> QED BY <1>1, <1>7, <1>8, <1>9, <1>11 DEF port

OperandTemps(n) ==
  [i \in DOMAIN InputPorts(NodeOp(graph, n)) |-> TempOr0(InputTemp(n, InputPorts(NodeOp(graph, n))[i]))]

\* The type an expression is declared with is one of the types there are.
LEMMA ResultHasType ==
  ASSUME NEW n, NEW op, op = NodeOp(graph, n), IsNodeOp(op), op.kind = "Expr",
         \A k \in DOMAIN InputPorts(op) : OperandType(n, InputPorts(op)[k]) \in PortType
  PROVE  ExprResultType(n, op) \in PortType
<1> DEFINE first == IF op.operands = <<>> THEN None ELSE OperandType(n, op.operands[1])
           counts == {IF t = "Sampler2D" THEN 1 ELSE ComponentCount(t) : t \in
                        {OperandType(n, op.operands[i]) : i \in DOMAIN op.operands} \ {None}}
           OrFloat(t) == IF t = None THEN "Float" ELSE t
<1>1. ExprResultType(n, op) =
        CASE op.op \in Componentwise -> OrFloat(FloatWithComponents(Max({0} \cup counts)))
          [] op.op \in {"dot", "length"} -> "Float"
          [] op.op = "construct" -> op.type
          [] op.op = "swizzle" -> OrFloat(IF first = None THEN None ELSE SwizzleResult(first, op.mask))
          [] OTHER -> OrFloat(first)
  BY Zenon DEF ExprResultType
<1>2. \A x : OrFloat(FloatWithComponents(x)) \in PortType
  BY DEF FloatWithComponents, VectorOf, PortType, None
<1>3. op.operands \in Seq(STRING) /\ InputPorts(op) = op.operands /\ op.op \in ExprOp
      /\ (op.op = "construct" => op.type \in PortType)
  BY DEF IsNodeOp, InputPorts
<1>4. first \in PortType \cup {None}
  <2>1. CASE op.operands = <<>>
    BY <2>1
  <2>2. CASE op.operands # <<>>
    <3>1. 1 \in DOMAIN op.operands
      BY <1>3, <2>2
    <3> QED BY <2>2, <3>1, <1>3
  <2> QED BY <2>1, <2>2
<1>5. OrFloat(first) \in PortType
  BY <1>4 DEF PortType
<1>6. OrFloat(IF first = None THEN None ELSE SwizzleResult(first, op.mask)) \in PortType
  <2>1. SwizzleResult(first, op.mask) = None \/ SwizzleResult(first, op.mask) = FloatWithComponents(Len(op.mask))
    BY Zenon DEF SwizzleResult
  <2> QED BY <2>1, <1>2 DEF PortType
<1> HIDE DEF first, counts, OrFloat
<1>7. "Float" \in PortType
  BY DEF PortType
<1> QED BY <1>1, <1>2, <1>3, <1>5, <1>6, <1>7

\* What a node adds: a statement for each of its output ports, reading its inputs.
EmittedBy(n, s) ==
  LET op == NodeOp(graph, n)
  IN  /\ s.node = n /\ s.type \in PortType /\ HasOutputPort(op, s.port)
      /\ s.op.kind = op.kind /\ (op.kind # "Sample" => s.op = op) /\ InputPorts(s.op) = InputPorts(op)
      /\ s.operands = OperandTemps(n)

LEMMA EmittedFacts ==
  ASSUME NEW n, IsNodeOp(NodeOp(graph, n)), NodeOp(graph, n).kind # "Output",
         \A k \in DOMAIN InputPorts(NodeOp(graph, n)) :
           OperandType(n, InputPorts(NodeOp(graph, n))[k]) \in PortType
  PROVE  /\ IsSequence(Emitted(n))
         /\ \A i \in DOMAIN Emitted(n) : EmittedBy(n, Emitted(n)[i])
         /\ \A port : HasOutputPort(NodeOp(graph, n), port) =>
              \E i \in DOMAIN Emitted(n) : Emitted(n)[i].port = port
         /\ NodeOp(graph, n).kind # "CustomSnippet" => Len(Emitted(n)) = 1
         /\ NodeOp(graph, n).kind = "CustomSnippet" =>
              /\ Len(Emitted(n)) = Len(NodeOp(graph, n).outputs)
              /\ \A i \in DOMAIN Emitted(n) : /\ Emitted(n)[i].port = NodeOp(graph, n).outputs[i].name
                                              /\ Emitted(n)[i].type = NodeOp(graph, n).outputs[i].type
         /\ NodeOp(graph, n).kind = "Const" => Emitted(n)[1].type = NodeOp(graph, n).type
         /\ NodeOp(graph, n).kind = "Param" => Emitted(n)[1].type = "Float"
         /\ NodeOp(graph, n).kind = "Sample" => Emitted(n)[1].type = "Vec4"
         /\ NodeOp(graph, n).kind = "Builtin" =>
              Emitted(n)[1].type = IF BuiltinType(NodeOp(graph, n).semantic) = None THEN "Int"
                                   ELSE BuiltinType(NodeOp(graph, n).semantic)
         /\ NodeOp(graph, n).kind = "Expr" => Emitted(n)[1].type = ExprResultType(n, NodeOp(graph, n))
<1> DEFINE op == NodeOp(graph, n)
           Temps(ports) == [i \in DOMAIN ports |-> TempOr0(InputTemp(n, ports[i]))]
<1>0. OperandTemps(n) = Temps(InputPorts(op))
  BY DEF OperandTemps
<1>1. op.kind \in {"Sample", "Builtin", "Const", "Expr", "CustomSnippet", "Param", "Output"}
  BY DEF IsNodeOp
<1>2. Emitted(n) =
        CASE op.kind = "Const" -> <<Stmt(n, "out", op.type, op, <<>>)>>
          [] op.kind = "Param" -> <<Stmt(n, "out", "Float", op, <<>>)>>
          [] op.kind = "Builtin" ->
               <<Stmt(n, "out", IF BuiltinType(op.semantic) = None THEN "Int" ELSE BuiltinType(op.semantic),
                      op, <<>>)>>
          [] op.kind = "Sample" ->
               <<Stmt(n, "out", "Vec4", [op EXCEPT !.texture = CanonicalTexture(@)], Temps(<<"coord">>))>>
          [] op.kind = "Expr" -> <<Stmt(n, "out", ExprResultType(n, op), op, Temps(op.operands))>>
          [] op.kind = "CustomSnippet" ->
               [i \in DOMAIN op.outputs |->
                  Stmt(n, op.outputs[i].name, op.outputs[i].type, op, Temps(InputPorts(op)))]
          [] op.kind = "Output" -> <<>>
  BY Zenon DEF Emitted
<1>3. \A s : IsSequence(<<s>>) /\ Len(<<s>>) = 1 /\ DOMAIN <<s>> = {1} /\ <<s>>[1] = s
  BY DEF IsSequence, ToSet
<1>4. \A port, type, o, operands :
        /\ Stmt(n, port, type, o, operands).node = n /\ Stmt(n, port, type, o, operands).port = port
        /\ Stmt(n, port, type, o, operands).type = type /\ Stmt(n, port, type, o, operands).op = o
        /\ Stmt(n, port, type, o, operands).operands = operands
  BY DEF Stmt
<1>5. "Float" \in PortType /\ "Vec4" \in PortType /\ "Int" \in PortType
  BY DEF PortType
<1> HIDE DEF Temps
<1>6. op.kind \notin {"CustomSnippet", "Output"} =>
        \A port : HasOutputPort(op, port) <=> port = "out"
  BY DEF HasOutputPort, OutputPorts
<1>7. Temps(<<>>) = <<>>
  BY DEF Temps
<1>8. CASE op.kind \in {"Const", "Param", "Builtin"}
  <2> DEFINE type == IF op.kind = "Const" THEN op.type ELSE IF op.kind = "Param" THEN "Float"
                     ELSE IF BuiltinType(op.semantic) = None THEN "Int" ELSE BuiltinType(op.semantic)
             s == Stmt(n, "out", type, op, <<>>)
  <2>1. Emitted(n) = <<s>>
    BY <1>2, <1>8
  <2>2. type \in PortType
    BY <1>5, <1>8 DEF IsNodeOp, ConstValue, BuiltinType, PortType
  <2>3. InputPorts(op) = <<>>
    BY <1>8 DEF InputPorts
  <2> HIDE DEF type
  <2>4. s.node = n /\ s.port = "out" /\ s.type = type /\ s.op = op /\ s.operands = <<>>
    BY <1>4
  <2> HIDE DEF s
  <2>5. EmittedBy(n, s)
    BY <1>0, <1>6, <1>7, <1>8, <2>2, <2>3, <2>4 DEF EmittedBy
  <2>6. IsSequence(Emitted(n)) /\ Len(Emitted(n)) = 1 /\ DOMAIN Emitted(n) = {1} /\ Emitted(n)[1] = s
    BY <1>3, <2>1
  <2> HIDE DEF op
  <2>7. op.kind \notin {"CustomSnippet", "Output", "Sample", "Expr"} /\ Emitted(n)[1].type = type
    BY <1>8, <2>4, <2>6
  <2>8. (op.kind = "Const" => type = op.type) /\ (op.kind = "Param" => type = "Float")
        /\ (op.kind = "Builtin" =>
              type = IF BuiltinType(op.semantic) = None THEN "Int" ELSE BuiltinType(op.semantic))
    BY DEF type
  <2> QED BY <1>6, <2>4, <2>5, <2>6, <2>7, <2>8 DEF op
<1>9. CASE op.kind = "Sample"
  <2> DEFINE o == [op EXCEPT !.texture = CanonicalTexture(@)]
             s == Stmt(n, "out", "Vec4", o, Temps(<<"coord">>))
  <2>1. Emitted(n) = <<s>>
    BY <1>2, <1>9
  <2>2. InputPorts(op) = <<"coord">>
    BY <1>9 DEF InputPorts
  <2>3. o.kind = "Sample" /\ InputPorts(o) = <<"coord">>
    <3>1. op \in [kind : {"Sample"}, texture : TextureSource]
      BY <1>9 DEF IsNodeOp
    <3>2. o.kind = "Sample"
      BY <3>1
    <3> QED BY <3>2 DEF InputPorts
  <2> HIDE DEF o
  <2>4. /\ s.node = n /\ s.port = "out" /\ s.type = "Vec4" /\ s.op = o
        /\ s.operands = Temps(<<"coord">>)
    BY <1>4
  <2> HIDE DEF s
  <2>5. EmittedBy(n, s)
    BY <1>0, <1>5, <1>6, <1>9, <2>2, <2>3, <2>4 DEF EmittedBy
  <2>6. IsSequence(Emitted(n)) /\ Len(Emitted(n)) = 1 /\ DOMAIN Emitted(n) = {1} /\ Emitted(n)[1] = s
    BY <1>3, <2>1
  <2> HIDE DEF op
  <2> QED BY <1>6, <1>9, <2>4, <2>5, <2>6 DEF op
<1>10. CASE op.kind = "Expr"
  <2> DEFINE s == Stmt(n, "out", ExprResultType(n, op), op, Temps(op.operands))
  <2>1. Emitted(n) = <<s>>
    BY <1>2, <1>10
  <2>2. InputPorts(op) = op.operands
    BY <1>10 DEF InputPorts
  <2>3. ExprResultType(n, op) \in PortType
    BY <1>10, ResultHasType
  <2>4. /\ s.node = n /\ s.port = "out" /\ s.type = ExprResultType(n, op) /\ s.op = op
        /\ s.operands = Temps(op.operands)
    BY <1>4
  <2> HIDE DEF s
  <2>5. EmittedBy(n, s)
    BY <1>0, <1>6, <1>10, <2>2, <2>3, <2>4 DEF EmittedBy
  <2>6. IsSequence(Emitted(n)) /\ Len(Emitted(n)) = 1 /\ DOMAIN Emitted(n) = {1} /\ Emitted(n)[1] = s
    BY <1>3, <2>1
  <2> HIDE DEF op
  <2> QED BY <1>6, <1>10, <2>4, <2>5, <2>6 DEF op
<1>11. CASE op.kind = "CustomSnippet"
  <2> DEFINE L == Len(op.outputs)
             At(i) == Stmt(n, op.outputs[i].name, op.outputs[i].type, op, Temps(InputPorts(op)))
  <2>1. op.outputs \in Seq(ToSet(op.outputs)) /\ \A d \in ToSet(op.outputs) : IsPortDecl(d)
    BY <1>11 DEF IsNodeOp, IsSequence
  <2>2. L \in Nat /\ DOMAIN op.outputs = 1 .. L /\ \A i \in 1 .. L : IsPortDecl(op.outputs[i])
    BY <2>1
  <2>3. Emitted(n) = [i \in 1 .. L |-> At(i)]
    BY <1>2, <1>11, <2>2
  <2>4. \A i : /\ At(i).node = n /\ At(i).port = op.outputs[i].name /\ At(i).type = op.outputs[i].type
               /\ At(i).op = op /\ At(i).operands = Temps(InputPorts(op))
    BY <1>4
  <2> HIDE DEF At
  <2>5. ASSUME NEW i \in 1 .. L PROVE EmittedBy(n, At(i))
    <3>1. op.outputs[i].name \in Names(op.outputs)
      BY <2>2 DEF Names
    <3>2. HasOutputPort(op, op.outputs[i].name)
      BY <1>11, <3>1 DEF HasOutputPort, OutputPorts
    <3>3. op.outputs[i].type \in PortType
      BY <2>2 DEF IsPortDecl
    <3> QED BY <1>0, <2>4, <3>2, <3>3 DEF EmittedBy
  <2>6. ASSUME NEW port, HasOutputPort(op, port) PROVE \E i \in 1 .. L : At(i).port = port
    <3>1. port \in Names(op.outputs)
      BY <1>11, <2>6 DEF HasOutputPort, OutputPorts
    <3> QED BY <3>1, <2>2, <2>4 DEF Names
  <2> HIDE DEF L
  <2>7. DOMAIN Emitted(n) = 1 .. L /\ \A i \in 1 .. L : Emitted(n)[i] = At(i)
    BY <2>3
  <2>8. Emitted(n) \in [1 .. L -> {At(i) : i \in 1 .. L}]
    BY <2>3
  <2>9. Len(Emitted(n)) = L /\ IsSequence(Emitted(n))
    <3>1. Emitted(n) \in Seq({At(i) : i \in 1 .. L}) /\ Len(Emitted(n)) = L
      BY <2>2, <2>8, FunctionIsSeq
    <3>2. Emitted(n) \in [1 .. L -> ToSet(Emitted(n))]
      BY <2>7, <2>8 DEF ToSet
    <3> QED BY <2>2, <3>1, <3>2, FunctionIsSeq DEF IsSequence
  <2> HIDE DEF op
  <2> QED BY <1>11, <2>4, <2>5, <2>6, <2>7, <2>9 DEF op, L
<1> QED BY <1>1, <1>8, <1>9, <1>10, <1>11

\* The number of operands is that of the operator.
LEMMA OperandsCounted ==
  ASSUME NEW op, NEW c, op.kind = "Expr", IsNodeOp(op), ReferenceErrors(op, c) = {}
  PROVE  /\ op.operands \in Seq(STRING) /\ op.op \in ExprOp /\ InputPorts(op) = op.operands
         /\ 1 \in DOMAIN op.operands /\ op.operands # <<>>
<1>1. op.operands \in Seq(STRING) /\ op.op \in ExprOp /\ InputPorts(op) = op.operands
  BY DEF IsNodeOp, InputPorts
<1>2. ~ (IF op.op = "construct" THEN Len(op.operands) < 1 ELSE Len(op.operands) # Arity(op.op))
  <2> SUFFICES ASSUME IF op.op = "construct" THEN Len(op.operands) < 1 ELSE Len(op.operands) # Arity(op.op)
               PROVE  FALSE
    OBVIOUS
  <2>1. "wrongArity" \in ReferenceErrors(op, c)
    BY DEF ReferenceErrors
  <2> QED BY <2>1
<1>3. Arity(op.op) \in 1 .. 3
  BY DEF Arity
<1>4. Len(op.operands) >= 1
  BY <1>1, <1>2, <1>3
<1> QED BY <1>1, <1>4

LEMMA CountsAreSmall == \A t : ComponentCount(t) \in 1 .. 4
BY DEF ComponentCount

\* The widest of numeric types is one of the types there are, a float or a vector.
LEMMA WidestIsAType ==
  ASSUME NEW T, NEW x \in T, \A t \in T : t # None /\ IsNumeric(t)
  PROVE  /\ WidestNumeric(T) = FloatWithComponents(Max({0} \cup {ComponentCount(t) : t \in T}))
         /\ WidestNumeric(T) # None
<1> DEFINE C == {ComponentCount(t) : t \in T}
           M == {0} \cup C
<1>1. ~ \E t \in T : t = None \/ ~IsNumeric(t)
  OBVIOUS
<1>2. WidestNumeric(T) = FloatWithComponents(Max(M))
  BY <1>1 DEF WidestNumeric
<1>3. M \in SUBSET (0 .. 4) /\ M # {} /\ ComponentCount(x) \in M /\ ComponentCount(x) >= 1
  BY CountsAreSmall
<1> HIDE DEF M
<1>4. Max(M) \in M /\ ComponentCount(x) <= Max(M)
  BY <1>3, MaxIsGreatest
<1>5. Max(M) \in 1 .. 4
  <2>1. Max(M) \in 0 .. 4 /\ ComponentCount(x) \in 0 .. 4
    BY <1>3, <1>4
  <2>2. Max(M) # 0
    BY <1>3, <1>4, <2>1
  <2> QED BY <2>1, <2>2
<1>6. FloatWithComponents(Max(M)) # None
  BY <1>5 DEF FloatWithComponents, VectorOf, None
<1> QED BY <1>2, <1>6 DEF M

\* The declared type of an expression is what the checker computes from the types
\* of what feeds it, as far as it knows them.
LEMMA ExprAgrees ==
  ASSUME NEW n, NEW op, op = NodeOp(graph, n), IsNodeOp(op), op.kind = "Expr",
         ReferenceErrors(op, ctx) = {}, NEW type,
         OperandsOk(op, [k \in DOMAIN op.operands |-> InputType(type, incoming, n, op.operands[k])]),
         \A k \in DOMAIN op.operands :
           /\ OperandType(n, op.operands[k]) \in PortType
           /\ \/ InputType(type, incoming, n, op.operands[k]) = OperandType(n, op.operands[k])
              \/ InputType(type, incoming, n, op.operands[k]) = None
  PROVE  \/ ExprResult(op, OperandTypes(type, n)) = ExprResultType(n, op)
         \/ /\ ExprResult(op, OperandTypes(type, n)) = None
            /\ \E k \in DOMAIN op.operands : InputType(type, incoming, n, op.operands[k]) = None
<1> DEFINE D == DOMAIN op.operands
           In(k) == InputType(type, incoming, n, op.operands[k])
           Out(k) == OperandType(n, op.operands[k])
           types == [k \in D |-> In(k)]
           operand == OperandTypes(type, n)
           first == IF op.operands = <<>> THEN None ELSE Out(1)
           from == IF op.operands = <<>> THEN None ELSE operand[op.operands[1]]
           counts == {IF t = "Sampler2D" THEN 1 ELSE ComponentCount(t) : t \in
                        {Out(k) : k \in D} \ {None}}
           OrFloat(t) == IF t = None THEN "Float" ELSE t
           declared == ExprResultType(n, op)
           inferred == ExprResult(op, operand)
<1>0. /\ op.operands \in Seq(STRING) /\ op.op \in ExprOp /\ 1 \in D /\ op.operands # <<>>
  BY OperandsCounted
<1>1. declared =
        CASE op.op \in Componentwise -> OrFloat(FloatWithComponents(Max({0} \cup counts)))
          [] op.op \in {"dot", "length"} -> "Float"
          [] op.op = "construct" -> op.type
          [] op.op = "swizzle" -> OrFloat(IF first = None THEN None ELSE SwizzleResult(first, op.mask))
          [] OTHER -> OrFloat(first)
  BY Zenon DEF ExprResultType
<1>2. inferred =
        CASE op.op \in Componentwise -> WidestNumeric({operand[port] : port \in ToSet(op.operands)})
          [] op.op \in {"dot", "length"} -> "Float"
          [] op.op = "construct" -> op.type
          [] op.op = "swizzle" -> IF from = None THEN None ELSE SwizzleResult(from, op.mask)
          [] OTHER -> from
  BY Zenon DEF ExprResult
<1>3. \A k \in D : operand[op.operands[k]] = In(k)
  <2>1. NodeOp(graph, n) = op /\ InputPorts(op) = op.operands
    BY OperandsCounted
  <2>2. \A k \in D : op.operands[k] \in ToSet(op.operands)
    BY DEF ToSet
  <2>3. operand = [port \in ToSet(op.operands) |-> InputType(type, incoming, n, port)]
    BY <2>1 DEF OperandTypes
  <2> HIDE DEF operand, D
  <2> QED BY <2>2, <2>3
<1>4. first = Out(1) /\ from = In(1)
  BY <1>0, <1>3
<1>5. \A k \in D : Out(k) \in PortType /\ Out(k) # None /\ (In(k) = Out(k) \/ In(k) = None)
  BY DEF PortType, None
<1>6. OperandsOk(op, types)
  OBVIOUS
<1>7. {operand[port] : port \in ToSet(op.operands)} = {In(k) : k \in D}
  <2> HIDE DEF In, operand
  <2>1. ToSet(op.operands) = {op.operands[k] : k \in D}
    BY DEF ToSet
  <2> HIDE DEF D
  <2> QED BY <2>1, <1>3
<1>8. types[1] = In(1) /\ types # <<>>
  BY <1>0
<1> HIDE DEF In, Out, types, operand, first, from, OrFloat, declared, inferred
<1>9. CASE op.op \in Componentwise
  <2> DEFINE T == {In(k) : k \in D}
  <2>0. op.op \notin {"dot", "length", "construct", "swizzle"}
    BY <1>9 DEF Componentwise
  <2>4. declared = OrFloat(FloatWithComponents(Max({0} \cup counts)))
    <3> HIDE DEF counts
    <3> QED BY <1>1, <1>9, <2>0
  <2>1. inferred = WidestNumeric(T)
    <3> DEFINE U == {operand[port] : port \in ToSet(op.operands)}
    <3>1. U = T
      BY <1>7, Zenon
    <3> HIDE DEF U, T
    <3>2. inferred = WidestNumeric(U)
      BY <1>2, <1>9, <2>0 DEF U
    <3> QED BY <3>1, <3>2
  <2>2. CASE \E k \in D : In(k) = None
    <3>1. \E t \in T : t = None
      BY <2>2, Zenon
    <3>2. WidestNumeric(T) = None
      BY <3>1 DEF WidestNumeric
    <3>3. \E k \in DOMAIN op.operands : InputType(type, incoming, n, op.operands[k]) = None
      BY <2>2 DEF In
    <3>4. inferred = None
      BY <2>1, <3>2
    <3> QED BY <3>3, <3>4 DEF inferred, operand
  <2>3. CASE \A k \in D : In(k) # None
    <3>1. ComponentwiseOk(types)
      <4>1. op.op \notin {"dot", "construct"}
        BY <1>9 DEF Componentwise
      <4> QED BY <1>6, <1>9, <4>1 DEF OperandsOk
    <3>2. ASSUME NEW k \in D PROVE IsNumeric(In(k)) /\ In(k) # "Sampler2D" /\ In(k) # None
      <4>1. In(k) \in Present(types)
        BY <2>3 DEF Present, types
      <4>2. IsFloatFamily(In(k)) \/ In(k) = "Int"
        BY <3>1, <4>1 DEF ComponentwiseOk
      <4> QED BY <4>2, <2>3 DEF IsFloatFamily, IsNumeric, IsScalar, IsVector
    <3>3. In(1) \in T /\ \A t \in T : t # None /\ IsNumeric(t) /\ t # "Sampler2D"
      BY <1>0, <3>2
    <3>4. \A k \in D : Out(k) = In(k)
      BY <1>5, <2>3
    <3>5. {Out(k) : k \in D} \ {None} = T
      BY <3>3, <3>4
    <3>6. counts = {ComponentCount(t) : t \in T}
      <4>1. counts = {IF t = "Sampler2D" THEN 1 ELSE ComponentCount(t) : t \in T}
        BY <3>5
      <4> HIDE DEF counts, T
      <4> QED BY <3>3, <4>1
    <3> HIDE DEF counts, T
    <3>7. /\ WidestNumeric(T) = FloatWithComponents(Max({0} \cup counts))
          /\ WidestNumeric(T) # None
      BY <3>3, <3>6, WidestIsAType
    <3>8. inferred = declared
      BY <2>1, <2>4, <3>7 DEF OrFloat
    <3> QED BY <3>8 DEF inferred, declared, operand
  <2> QED BY <2>2, <2>3
<1>10. CASE op.op \in {"dot", "length"}
  <2>1. op.op \notin Componentwise
    BY <1>10 DEF Componentwise
  <2>2. inferred = declared
    BY <1>1, <1>2, <1>10, <2>1
  <2> QED BY <2>2 DEF inferred, declared, operand
<1>11. CASE op.op = "construct"
  <2>1. op.op \notin Componentwise
    BY <1>11 DEF Componentwise
  <2>2. inferred = declared
    BY <1>1, <1>2, <1>11, <2>1
  <2> QED BY <2>2 DEF inferred, declared, operand
<1>12. CASE op.op = "swizzle"
  <2>1. op.op \notin Componentwise \cup UnaryMath \cup {"dot", "construct", "normalize", "length"}
    BY <1>12 DEF Componentwise, UnaryMath
  <2>2. /\ inferred = IF In(1) = None THEN None ELSE SwizzleResult(In(1), op.mask)
        /\ declared = OrFloat(SwizzleResult(Out(1), op.mask))
    BY <1>0, <1>1, <1>2, <1>4, <1>5, <1>12, <2>1
  <2>3. CASE In(1) = None
    BY <1>0, <2>2, <2>3 DEF inferred, operand, In
  <2>4. CASE In(1) # None
    <3>1. SwizzleResult(In(1), op.mask) # None
      BY <1>6, <1>8, <2>1, <2>4 DEF OperandsOk
    <3>2. In(1) = Out(1)
      BY <1>0, <1>5, <2>4
    <3>3. inferred = declared
      BY <2>2, <2>4, <3>1, <3>2 DEF OrFloat
    <3> QED BY <3>3 DEF inferred, declared, operand
  <2> QED BY <2>3, <2>4
<1>13. CASE op.op \in UnaryMath \cup {"normalize"}
  <2>1. op.op \notin Componentwise \cup {"dot", "construct", "swizzle", "length"}
    BY <1>13 DEF Componentwise, UnaryMath
  <2>2. inferred = In(1) /\ declared = OrFloat(Out(1))
    BY <1>1, <1>2, <1>4, <2>1
  <2>3. CASE In(1) = None
    BY <1>0, <2>2, <2>3 DEF inferred, operand, In
  <2>4. CASE In(1) # None
    <3>1. inferred = declared
      BY <1>0, <1>5, <2>2, <2>4 DEF OrFloat
    <3> QED BY <3>1 DEF inferred, declared, operand
  <2> QED BY <2>3, <2>4
<1>14. op.op \in Componentwise \cup UnaryMath \cup {"dot", "normalize", "length", "swizzle", "construct"}
  BY <1>0 DEF ExprOp
<1> QED BY <1>9, <1>10, <1>11, <1>12, <1>13, <1>14

\* What is known of the type of an operand is the type of its temporary.
LEMMA OperandsAgree ==
  ASSUME SearchInv, VerdictInv, EmitInv, pc = "emit",
         NEW n \in Ids(graph), DepsOf[n] \subseteq Lowered,
         NEW k \in DOMAIN InputPorts(NodeOp(graph, n))
  PROVE  /\ OperandType(n, InputPorts(NodeOp(graph, n))[k]) \in PortType
         /\ OutputsAreNamedApart =>
              InputType(Inferred(graph, incoming), incoming, n, InputPorts(NodeOp(graph, n))[k])
                \in {OperandType(n, InputPorts(NodeOp(graph, n))[k]), None}
<1> DEFINE port == InputPorts(NodeOp(graph, n))[k]
           type == Inferred(graph, incoming)
<1>1. PICK t, e :
           /\ t \in Nat /\ Fed(n, port, e)
           /\ t + 1 \in Stmts /\ stmts[t + 1].node = e.from /\ stmts[t + 1].port = e.out
           /\ OperandType(n, port) = stmts[t + 1].type
  BY InputIsDefined
<1>2. stmts[t + 1].type \in PortType
  <2>1. StmtIn(stmts, t + 1, Lowered)
    BY <1>1 DEF EmitInv
  <2> QED BY <2>1 DEF StmtIn
<1>3. InputType(type, incoming, n, port) = type[<<e.from, e.out>>]
  <2>1. Feeding(incoming, n, port) = {e}
    BY <1>1 DEF Fed
  <2> HIDE DEF type, port
  <2> QED BY <2>1 DEF InputType
<1>4. OutputsAreNamedApart => AgreesWith(type, stmts[t + 1])
  BY <1>1 DEF EmitInv
<1> HIDE DEF type, port
<1>5. OutputsAreNamedApart => type[<<e.from, e.out>>] \in {stmts[t + 1].type, None}
  BY <1>1, <1>4 DEF AgreesWith
<1> QED BY <1>1, <1>2, <1>3, <1>5 DEF type, port

\* The statements a node adds are sound.
LEMMA NewStatements ==
  ASSUME SearchInv, VerdictInv, EmitInv, pc = "emit",
         NEW n \in Ids(graph), NodeOp(graph, n).kind # "Output", DepsOf[n] \subseteq Lowered
  PROVE  /\ IsSequence(Emitted(n))
         /\ \A i \in DOMAIN Emitted(n) : EmittedBy(n, Emitted(n)[i])
         /\ \A port : HasOutputPort(NodeOp(graph, n), port) =>
              \E i \in DOMAIN Emitted(n) : Emitted(n)[i].port = port
         /\ OutputsAreNamedApart =>
              /\ \A i, j \in DOMAIN Emitted(n) : Emitted(n)[i].port = Emitted(n)[j].port => i = j
              /\ \A i \in DOMAIN Emitted(n) : AgreesWith(Inferred(graph, incoming), Emitted(n)[i])
<1> DEFINE op == NodeOp(graph, n)
           type == Inferred(graph, incoming)
<1>1. IsNodeOp(op) /\ ReferenceErrors(op, ctx) = {}
  BY CheckedGraph, CleanGraph, NodeOpFacts
<1>2. \A k \in DOMAIN InputPorts(op) : OperandType(n, InputPorts(op)[k]) \in PortType
  BY OperandsAgree
<1>3. /\ IsSequence(Emitted(n))
      /\ \A i \in DOMAIN Emitted(n) : EmittedBy(n, Emitted(n)[i])
      /\ \A port : HasOutputPort(op, port) => \E i \in DOMAIN Emitted(n) : Emitted(n)[i].port = port
      /\ op.kind # "CustomSnippet" => Len(Emitted(n)) = 1
      /\ op.kind = "CustomSnippet" =>
           /\ Len(Emitted(n)) = Len(op.outputs)
           /\ \A i \in DOMAIN Emitted(n) : /\ Emitted(n)[i].port = op.outputs[i].name
                                           /\ Emitted(n)[i].type = op.outputs[i].type
  BY <1>1, <1>2, EmittedFacts
<1>4. /\ op.kind = "Const" => Emitted(n)[1].type = op.type
      /\ op.kind = "Param" => Emitted(n)[1].type = "Float"
      /\ op.kind = "Sample" => Emitted(n)[1].type = "Vec4"
      /\ op.kind = "Builtin" =>
           Emitted(n)[1].type = IF BuiltinType(op.semantic) = None THEN "Int" ELSE BuiltinType(op.semantic)
      /\ op.kind = "Expr" => Emitted(n)[1].type = ExprResultType(n, op)
  BY <1>1, <1>2, EmittedFacts
<1>5. DOMAIN Emitted(n) = 1 .. Len(Emitted(n)) /\ Len(Emitted(n)) \in Nat
  <2>1. Emitted(n) \in Seq(ToSet(Emitted(n)))
    BY <1>3 DEF IsSequence
  <2> QED BY <2>1
<1>6. op.kind \in {"Sample", "Builtin", "Const", "Expr", "CustomSnippet", "Param", "Output"}
  BY <1>1 DEF IsNodeOp
<1>7. op.kind = "CustomSnippet" =>
        /\ Len(op.outputs) \in Nat /\ DOMAIN op.outputs = 1 .. Len(op.outputs)
        /\ \A i \in DOMAIN op.outputs : IsPortDecl(op.outputs[i])
  <2> SUFFICES ASSUME op.kind = "CustomSnippet"
               PROVE  /\ Len(op.outputs) \in Nat /\ DOMAIN op.outputs = 1 .. Len(op.outputs)
                      /\ \A i \in DOMAIN op.outputs : IsPortDecl(op.outputs[i])
    OBVIOUS
  <2>1. op.outputs \in Seq(ToSet(op.outputs)) /\ \A d \in ToSet(op.outputs) : IsPortDecl(d)
    BY <1>1 DEF IsNodeOp, IsSequence
  <2> QED BY <2>1
<1>8. ASSUME OutputsAreNamedApart, op.kind = "CustomSnippet"
      PROVE  \A i, j \in DOMAIN op.outputs : op.outputs[i].name = op.outputs[j].name => i = j
  <2>1. PICK m \in ToSet(graph.nodes) : m.id = n /\ m.op = NodeOp(graph, n)
    BY CheckedGraph, CleanGraph
  <2> QED BY <2>1, <1>8 DEF OutputsAreNamedApart
<1>9. ASSUME OutputsAreNamedApart
      PROVE  \A i, j \in DOMAIN Emitted(n) : Emitted(n)[i].port = Emitted(n)[j].port => i = j
  <2>1. CASE op.kind = "CustomSnippet"
    BY <1>3, <1>5, <1>7, <1>8, <1>9, <2>1
  <2>2. CASE op.kind # "CustomSnippet"
    BY <1>3, <1>5, <2>2
  <2> QED BY <2>1, <2>2
<1>10. ASSUME OutputsAreNamedApart, NEW i \in DOMAIN Emitted(n)
       PROVE  AgreesWith(type, Emitted(n)[i])
  <2> DEFINE s == Emitted(n)[i]
             operand == OperandTypes(type, n)
             t == type[<<n, s.port>>]
  <2>1. EmittedBy(n, s)
    BY <1>3
  <2>2. op.kind # "CustomSnippet" => s.port = "out" /\ i = 1
    BY <1>3, <1>5, <2>1 DEF EmittedBy, HasOutputPort, OutputPorts
  <2>3. s.port \in OutputPorts(op)
    BY <2>1 DEF EmittedBy, HasOutputPort
  <2>4. t = InferOutput(op, s.port, operand)
    <3>1. Inferred(graph, incoming)[<<n, s.port>>] = Infer(Inferred(graph, incoming), <<n, s.port>>)
      BY <2>3, InferredFacts
    <3> HIDE DEF type, s
    <3>2. Infer(type, <<n, s.port>>) = InferOutput(op, s.port, operand)
      BY DEF Infer
    <3> QED BY <3>1, <3>2 DEF type
  <2> HIDE DEF type, operand, s, t
  <2>5. InferOutput(op, s.port, operand) =
          CASE op.kind = "Sample" -> "Vec4"
            [] op.kind = "Builtin" -> BuiltinType(op.semantic)
            [] op.kind = "Param" -> "Float"
            [] op.kind = "Const" -> op.type
            [] op.kind = "CustomSnippet" -> TypeOf(op.outputs, s.port)
            [] op.kind = "Expr" -> ExprResult(op, operand)
    BY DEF InferOutput
  <2>6. s.node = n /\ s.op.kind = op.kind /\ (op.kind # "Sample" => s.op = op)
    BY <2>1 DEF EmittedBy
  <2>7. t = s.type \/ (t = None /\ UntypedOf(type, s))
    <3>1. CASE op.kind \in {"Sample", "Param", "Const"}
      BY <1>4, <2>2, <2>4, <2>5, <3>1 DEF s
    <3>2. CASE op.kind = "Builtin"
      <4>1. t = BuiltinType(op.semantic)
        BY <2>4, <2>5, <3>2
      <4>2. s.type = IF BuiltinType(op.semantic) = None THEN "Int" ELSE BuiltinType(op.semantic)
        BY <1>4, <2>2, <3>2 DEF s
      <4>3. BuiltinType(op.semantic) = None => op.semantic = "Mvp"
        BY <1>1, <3>2 DEF IsNodeOp, BuiltinType, BuiltinSemantic, None
      <4> HIDE DEF op
      <4> QED BY <2>6, <3>2, <4>1, <4>2, <4>3 DEF UntypedOf
    <3>3. CASE op.kind = "CustomSnippet"
      <4>1. t = TypeOf(op.outputs, s.port)
        BY <2>4, <2>5, <3>3
      <4>2. i \in DOMAIN op.outputs /\ s.port = op.outputs[i].name /\ s.type = op.outputs[i].type
        BY <1>3, <1>5, <1>7, <3>3 DEF s
      <4>3. (CHOOSE j \in DOMAIN op.outputs : op.outputs[j].name = s.port) = i
        BY <1>8, <1>10, <3>3, <4>2
      <4> QED BY <4>1, <4>2, <4>3 DEF TypeOf
    <3>4. CASE op.kind = "Expr"
      <4>1. t = ExprResult(op, operand)
        BY <2>4, <2>5, <3>4
      <4>2. s.type = ExprResultType(n, op)
        BY <1>4, <2>2, <3>4 DEF s
      <4>3. InputPorts(op) = op.operands
        BY <3>4 DEF InputPorts
      <4>4. \A k \in DOMAIN op.operands :
              /\ OperandType(n, op.operands[k]) \in PortType
              /\ InputType(type, incoming, n, op.operands[k]) \in {OperandType(n, op.operands[k]), None}
        BY <1>10, <4>3, OperandsAgree DEF type
      <4>5. OperandsOk(op, [k \in DOMAIN op.operands |-> InputType(type, incoming, n, op.operands[k])])
        BY <3>4, CheckedGraph, CleanGraph DEF type
      <4>6. \/ ExprResult(op, OperandTypes(type, n)) = ExprResultType(n, op)
            \/ /\ ExprResult(op, OperandTypes(type, n)) = None
               /\ \E k \in DOMAIN op.operands : InputType(type, incoming, n, op.operands[k]) = None
        BY <1>1, <3>4, <4>4, <4>5, ExprAgrees
      <4> HIDE DEF op
      <4> QED BY <2>6, <3>4, <4>1, <4>2, <4>6 DEF operand, UntypedOf
    <3> QED BY <1>6, <3>1, <3>2, <3>3, <3>4
  <2>8. t = type[<<s.node, s.port>>]
    BY <2>6 DEF t
  <2> QED BY <2>7, <2>8 DEF AgreesWith, s
<1> HIDE DEF op
<1> QED BY <1>3, <1>9, <1>10 DEF op, type

LEMMA Concatenated ==
  ASSUME NEW s, NEW e, IsSequence(s), IsSequence(e)
  PROVE  /\ IsSequence(s \o e) /\ Len(s) \in Nat /\ Len(e) \in Nat
         /\ DOMAIN s = 1 .. Len(s) /\ DOMAIN e = 1 .. Len(e)
         /\ DOMAIN (s \o e) = 1 .. Len(s) + Len(e) /\ Len(s \o e) = Len(s) + Len(e)
         /\ \A i \in 1 .. Len(s) : i \in 1 .. Len(s \o e) /\ (s \o e)[i] = s[i]
         /\ \A i \in 1 .. Len(s \o e) : ~ (i \in 1 .. Len(s)) =>
              i - Len(s) \in 1 .. Len(e) /\ (s \o e)[i] = e[i - Len(s)]
         /\ \A i \in 1 .. Len(e) : Len(s) + i \in 1 .. Len(s \o e) /\ (s \o e)[Len(s) + i] = e[i]
<1> DEFINE U == ToSet(s) \cup ToSet(e)
<1>1. s \in Seq(ToSet(s)) /\ e \in Seq(ToSet(e))
  BY DEF IsSequence
<1>2. s \in Seq(U) /\ e \in Seq(U)
  <2>1. ToSet(s) \subseteq U /\ ToSet(e) \subseteq U
    OBVIOUS
  <2> HIDE DEF U
  <2> QED BY <1>1, <2>1
<1> HIDE DEF U
<1>3. /\ Len(s) \in Nat /\ Len(e) \in Nat
      /\ DOMAIN s = 1 .. Len(s) /\ DOMAIN e = 1 .. Len(e)
      /\ s \o e \in Seq(U) /\ Len(s \o e) = Len(s) + Len(e)
      /\ DOMAIN (s \o e) = 1 .. Len(s) + Len(e)
      /\ \A i \in 1 .. Len(s) + Len(e) : (s \o e)[i] = IF i <= Len(s) THEN s[i] ELSE e[i - Len(s)]
  BY <1>2
<1> DEFINE c == s \o e
<1>4. /\ c \in Seq(U) /\ Len(c) = Len(s) + Len(e) /\ DOMAIN c = 1 .. Len(c)
      /\ \A i \in 1 .. Len(c) : c[i] = IF i <= Len(s) THEN s[i] ELSE e[i - Len(s)]
  BY <1>3
<1> HIDE DEF c
<1>5. c \in [1 .. Len(c) -> ToSet(c)] /\ Len(c) \in Nat
  BY <1>3, <1>4 DEF ToSet
<1>6. IsSequence(c)
  BY <1>5, FunctionIsSeq DEF IsSequence
<1>7. \A i \in 1 .. Len(s) : i \in 1 .. Len(c) /\ c[i] = s[i]
  BY <1>3, <1>4
<1>8. \A i \in 1 .. Len(c) : ~ (i \in 1 .. Len(s)) => i - Len(s) \in 1 .. Len(e) /\ c[i] = e[i - Len(s)]
  BY <1>3, <1>4
<1>9. ASSUME NEW i \in 1 .. Len(e) PROVE Len(s) + i \in 1 .. Len(c) /\ c[Len(s) + i] = e[i]
  <2>1. Len(s) + i \in 1 .. Len(c) /\ ~ (Len(s) + i <= Len(s)) /\ Len(s) + i - Len(s) = i
    BY <1>3, <1>4
  <2> QED BY <1>4, <2>1
<1> QED BY <1>3, <1>4, <1>6, <1>7, <1>8, <1>9 DEF c

\* The head of a sequence without repetition is gone from its tail.
LEMMA TailFacts ==
  ASSUME NEW V, NEW s \in Seq(V), Distinct(s), Len(s) > 1
  PROVE  /\ Tail(s) \in Seq(V) /\ Tail(s) # <<>> /\ Distinct(Tail(s))
         /\ Tail(s)[Len(Tail(s))] = s[Len(s)] /\ s[1] # s[Len(s)]
         /\ ToSet(Tail(s)) = ToSet(s) \ {s[1]} /\ s[1] \in ToSet(s)
         /\ \A i \in DOMAIN Tail(s) : /\ i + 1 \in DOMAIN s /\ Tail(s)[i] = s[i + 1]
                                      /\ Earlier(s, i + 1) = {s[1]} \cup Earlier(Tail(s), i)
<1> DEFINE t == Tail(s)
<1>1. Len(s) \in Nat /\ DOMAIN s = 1 .. Len(s) /\ 1 \in DOMAIN s /\ Len(s) \in DOMAIN s
  OBVIOUS
<1>2. /\ t \in Seq(V) /\ Len(t) = Len(s) - 1 /\ DOMAIN t = 1 .. Len(s) - 1
      /\ \A i \in DOMAIN t : i + 1 \in DOMAIN s /\ t[i] = s[i + 1]
  BY <1>1
<1> HIDE DEF t
<1>3. t # <<>>
  BY <1>1, <1>2
<1>4. \A i, j \in DOMAIN t : t[i] = t[j] => i = j
  BY <1>1, <1>2 DEF Distinct
<1>5. t[Len(t)] = s[Len(s)]
  <2>1. Len(t) \in DOMAIN t /\ Len(t) + 1 = Len(s)
    BY <1>1, <1>2
  <2> QED BY <1>2, <2>1
<1>6. s[1] # s[Len(s)]
  BY <1>1 DEF Distinct
<1>7. ASSUME NEW x PROVE x \in ToSet(t) <=> x \in ToSet(s) /\ x # s[1]
  <2>1. ASSUME x \in ToSet(t) PROVE x \in ToSet(s) /\ x # s[1]
    <3>1. PICK i \in DOMAIN t : t[i] = x
      BY <2>1 DEF ToSet
    <3>2. i + 1 \in DOMAIN s /\ x = s[i + 1] /\ i + 1 # 1
      BY <1>1, <1>2, <3>1
    <3>3. x # s[1]
      BY <1>1, <3>2 DEF Distinct
    <3>4. x \in ToSet(s)
      BY <3>2, Zenon DEF ToSet
    <3> QED BY <3>3, <3>4
  <2>2. ASSUME x \in ToSet(s), x # s[1] PROVE x \in ToSet(t)
    <3>1. PICK i \in DOMAIN s : s[i] = x
      BY <2>2 DEF ToSet
    <3>2. i # 1
      BY <2>2, <3>1
    <3>3. i - 1 \in DOMAIN t /\ i - 1 + 1 = i
      BY <1>1, <1>2, <3>2
    <3> QED BY <1>2, <3>1, <3>3 DEF ToSet
  <2> QED BY <2>1, <2>2
<1>8. s[1] \in ToSet(s)
  BY <1>1 DEF ToSet
<1>9. ASSUME NEW i \in DOMAIN t PROVE Earlier(s, i + 1) = {s[1]} \cup Earlier(t, i)
  <2>1. ASSUME NEW x \in Earlier(s, i + 1) PROVE x = s[1] \/ x \in Earlier(t, i)
    <3>1. PICK j \in 1 .. i + 1 - 1 : s[j] = x
      BY DEF Earlier
    <3>2. CASE j = 1
      BY <3>1, <3>2
    <3>3. CASE j # 1
      <4>1. j - 1 \in 1 .. i - 1 /\ j - 1 \in DOMAIN t /\ j - 1 + 1 = j
        BY <1>1, <1>2, <3>3
      <4> QED BY <1>2, <3>1, <4>1 DEF Earlier
    <3> QED BY <3>2, <3>3
  <2>2. s[1] \in Earlier(s, i + 1)
    <3>1. 1 \in 1 .. i + 1 - 1
      BY <1>1, <1>2
    <3> QED BY <3>1 DEF Earlier
  <2>3. ASSUME NEW x \in Earlier(t, i) PROVE x \in Earlier(s, i + 1)
    <3>1. PICK j \in 1 .. i - 1 : t[j] = x
      BY DEF Earlier
    <3>2. j + 1 \in 1 .. i + 1 - 1 /\ j \in DOMAIN t
      BY <1>1, <1>2
    <3>3. s[j + 1] = x
      BY <1>2, <3>1, <3>2
    <3>4. PICK m : m \in 1 .. i + 1 - 1 /\ s[m] = x
      BY <3>2, <3>3
    <3> QED BY <3>4 DEF Earlier
  <2> QED BY <2>1, <2>2, <2>3
<1>10. ToSet(t) = ToSet(s) \ {s[1]}
  BY <1>7
<1> QED BY <1>2, <1>3, <1>4, <1>5, <1>6, <1>8, <1>9, <1>10 DEF Distinct, t

\* A statement that stays where it is, with those before it, stays sound.
LEMMA StatementStays ==
  ASSUME graph' = graph, NEW i \in Nat, StmtIn(stmts, i, Lowered), Lowered \subseteq Lowered',
         \A j \in 1 .. i : stmts'[j] = stmts[j], i # 0
  PROVE  StmtIn(stmts, i, Lowered)'
<1>0. PICK s : s = stmts[i]
  OBVIOUS
<1> DEFINE op == NodeOp(graph, s.node)
           ports == InputPorts(s.op)
<1>1. stmts'[i] = s
  <2>1. i \in 1 .. i
    OBVIOUS
  <2> QED BY <1>0, <2>1
<1>2. /\ s.node \in Lowered /\ s.type \in PortType
      /\ HasOutputPort(op, s.port)
      /\ s.op.kind = op.kind /\ (op.kind # "Sample" => s.op = op) /\ ports = InputPorts(op)
      /\ Len(s.operands) = Len(ports)
      /\ \A k \in DOMAIN ports :
           /\ s.operands[k] \in Nat /\ s.operands[k] + 1 < i
           /\ \E e \in InputSource(s.node, ports[k]) :
                stmts[s.operands[k] + 1].node = e.from /\ stmts[s.operands[k] + 1].port = e.out
  BY <1>0 DEF StmtIn
<1>3. ASSUME NEW k \in DOMAIN ports
      PROVE  \E e \in InputSource(s.node, ports[k]) :
               stmts'[s.operands[k] + 1].node = e.from /\ stmts'[s.operands[k] + 1].port = e.out
  <2> DEFINE t == s.operands[k]
  <2>1. t \in Nat /\ t + 1 < i
    BY <1>2
  <2>2. PICK e \in InputSource(s.node, ports[k]) : stmts[t + 1].node = e.from /\ stmts[t + 1].port = e.out
    BY <1>2
  <2> HIDE DEF t, ports
  <2>3. t + 1 \in 1 .. i
    BY <2>1
  <2>4. stmts'[t + 1] = stmts[t + 1]
    BY <2>3
  <2> QED BY <2>2, <2>4 DEF t
<1>4. \A n, port : InputSource(n, port)' = InputSource(n, port)
  BY DEF InputSource
<1>5. /\ s.node \in Lowered' /\ s.type \in PortType
      /\ HasOutputPort(NodeOp(graph', s.node), s.port)
      /\ s.op.kind = NodeOp(graph', s.node).kind
      /\ (NodeOp(graph', s.node).kind # "Sample" => s.op = NodeOp(graph', s.node))
      /\ ports = InputPorts(NodeOp(graph', s.node))
      /\ Len(s.operands) = Len(ports)
  BY <1>2
<1>6. \A k \in DOMAIN ports :
        /\ s.operands[k] \in Nat /\ s.operands[k] + 1 < i
        /\ \E e \in InputSource(s.node, ports[k])' :
             stmts'[s.operands[k] + 1].node = e.from /\ stmts'[s.operands[k] + 1].port = e.out
  <2> HIDE DEF ports, op
  <2> QED BY <1>2, <1>3, <1>4
<1> QED BY <1>1, <1>5, <1>6 DEF StmtIn

\* A statement of a new node is sound: it reads temporaries that are there.
LEMMA StatementAdded ==
  ASSUME SearchInv, VerdictInv, EmitInv, pc = "emit", graph' = graph,
         NEW n \in Ids(graph), NodeOp(graph, n).kind # "Output", DepsOf[n] \subseteq Lowered,
         n \in Lowered', NEW i \in Nat, ~ (i \in Stmts), i # 0,
         \A j \in Stmts : stmts'[j] = stmts[j],
         NEW s, EmittedBy(n, s), stmts'[i] = s
  PROVE  StmtIn(stmts, i, Lowered)'
<1>0. PICK op, ports : op = NodeOp(graph, n) /\ ports = InputPorts(op)
  OBVIOUS
<1>1. /\ s.node = n /\ s.type \in PortType /\ HasOutputPort(op, s.port)
      /\ s.op.kind = op.kind /\ (op.kind # "Sample" => s.op = op) /\ InputPorts(s.op) = ports
      /\ s.operands = OperandTemps(n)
  BY <1>0 DEF EmittedBy
<1>2. s.operands = [k \in DOMAIN ports |-> TempOr0(InputTemp(n, ports[k]))]
  BY <1>0, <1>1 DEF OperandTemps
<1>3. Len(s.operands) = Len(ports)
  <2>1. IsNodeOp(op)
    BY <1>0, CheckedGraph, NodeOpFacts
  <2>2. \E L \in Nat : DOMAIN ports = 1 .. L
    <3>1. CASE op.kind = "CustomSnippet"
      <4>1. op.inputs \in Seq(ToSet(op.inputs))
        BY <2>1, <3>1 DEF IsNodeOp, IsSequence
      <4>2. ports = [k \in DOMAIN op.inputs |-> op.inputs[k].name]
        BY <1>0, <3>1 DEF InputPorts
      <4>3. DOMAIN op.inputs = 1 .. Len(op.inputs) /\ Len(op.inputs) \in Nat
        BY <4>1
      <4> QED BY <4>2, <4>3
    <3>2. CASE op.kind = "Expr"
      <4>1. op.operands \in Seq(STRING) /\ ports = op.operands
        BY <1>0, <2>1, <3>2 DEF IsNodeOp, InputPorts
      <4> QED BY <4>1
    <3>3. CASE op.kind \notin {"CustomSnippet", "Expr"}
      <4>1. ports \in {<<"coord">>, <<"color">>, <<>>}
        BY <1>0, <3>3 DEF InputPorts
      <4>2. DOMAIN ports = 1 .. 1 \/ DOMAIN ports = 1 .. 0
        BY <4>1
      <4> QED BY <4>2
    <3> QED BY <3>1, <3>2, <3>3
  <2>3. DOMAIN s.operands = DOMAIN ports
    BY <1>2
  <2> QED BY <2>2, <2>3
<1>4. ASSUME NEW k \in DOMAIN ports
      PROVE  /\ s.operands[k] \in Nat /\ s.operands[k] + 1 < i
             /\ \E e \in InputSource(n, ports[k]) :
                  stmts'[s.operands[k] + 1].node = e.from /\ stmts'[s.operands[k] + 1].port = e.out
  <2>1. PICK t, e :
           /\ t \in Nat /\ Fed(n, ports[k], e)
           /\ t + 1 \in Stmts /\ stmts[t + 1].node = e.from /\ stmts[t + 1].port = e.out
           /\ InputTemp(n, ports[k]) = {t} /\ TempOr0({t}) = t
    BY <1>0, InputIsDefined
  <2>2. s.operands[k] = t
    BY <1>2, <2>1
  <2>3. t + 1 < i
    <3>1. Len(stmts) \in Nat
      <4>1. stmts \in Seq(ToSet(stmts))
        BY DEF EmitInv, IsSequence
      <4> QED BY <4>1
    <3> QED BY <2>1, <3>1 DEF Stmts
  <2>4. e \in InputSource(n, ports[k])
    BY <2>1 DEF Fed
  <2>5. stmts'[t + 1] = stmts[t + 1]
    BY <2>1
  <2> QED BY <2>1, <2>2, <2>3, <2>4, <2>5
<1>5. \A x, port : InputSource(x, port)' = InputSource(x, port)
  BY DEF InputSource
<1>6. \A k \in DOMAIN ports :
        /\ s.operands[k] \in Nat /\ s.operands[k] + 1 < i
        /\ \E e \in InputSource(s.node, ports[k])' :
             stmts'[s.operands[k] + 1].node = e.from /\ stmts'[s.operands[k] + 1].port = e.out
  <2> QED BY <1>1, <1>4, <1>5
<1>7. /\ s.node \in Lowered' /\ s.type \in PortType
      /\ HasOutputPort(NodeOp(graph', s.node), s.port)
      /\ s.op.kind = NodeOp(graph', s.node).kind
      /\ (NodeOp(graph', s.node).kind # "Sample" => s.op = NodeOp(graph', s.node))
      /\ InputPorts(s.op) = InputPorts(NodeOp(graph', s.node)) /\ InputPorts(s.op) = ports
      /\ Len(s.operands) = Len(InputPorts(s.op))
  BY <1>0, <1>1, <1>3
<1> QED BY <1>6, <1>7 DEF StmtIn

\* The parts of the invariant once the graph is checked.
LEMMA EmitFacts ==
  ASSUME SearchInv, VerdictInv, EmitInv, pc \in {"emit", "write", "done"}
  PROVE  /\ order \in Seq(Ids(graph)) /\ order # <<>> /\ Distinct(order)
         /\ Len(order) \in Nat /\ DOMAIN order = 1 .. Len(order) /\ Len(order) >= 1 /\ 1 \in DOMAIN order
         /\ Head(order) = order[1] /\ order[1] \in Ids(graph) /\ order[1] \in ToSet(order)
         /\ DepsOf[order[1]] \subseteq Lowered
         /\ order[Len(order)] = OutputNode /\ NodeOp(graph, OutputNode).kind = "Output"
         /\ \A n \in Ids(graph) : NodeOp(graph, n).kind = "Output" => n = OutputNode
<1>1. /\ order \in Seq(Ids(graph)) /\ order # <<>> /\ Distinct(order) /\ order[Len(order)] = OutputNode
      /\ \A i \in DOMAIN order : DepsOf[order[i]] \subseteq Lowered \cup Earlier(order, i)
  BY DEF EmitInv
<1>2. /\ Len(order) \in Nat /\ DOMAIN order = 1 .. Len(order) /\ Len(order) >= 1 /\ 1 \in DOMAIN order
      /\ Head(order) = order[1] /\ order[1] \in Ids(graph)
  BY <1>1
<1>3. order[1] \in ToSet(order)
  BY <1>2 DEF ToSet
<1>4. Earlier(order, 1) = {}
  BY DEF Earlier
<1>5. DepsOf[order[1]] \subseteq Lowered
  BY <1>1, <1>2, <1>4
<1>6. /\ NodeOp(graph, OutputNode).kind = "Output"
      /\ \A n \in Ids(graph) : NodeOp(graph, n).kind = "Output" => n = OutputNode
  BY CheckedGraph, CleanGraph
<1> QED BY <1>1, <1>2, <1>3, <1>5, <1>6

\* A step that leaves the statements and the graph keeps the invariant.
LEMMA EmitStays ==
  ASSUME EmitInv, pc \in {"emit", "write", "done"}, pc' \in {"emit", "write", "done"},
         pc' # "emit" => Len(order) = 1,
         UNCHANGED <<graph, incoming, order, stmts>>
  PROVE  EmitInv'
<1>1. /\ order \in Seq(Ids(graph)) /\ order # <<>> /\ Distinct(order)
      /\ order[Len(order)] = OutputNode /\ ToSet(order) \subseteq Needed
      /\ \A i \in DOMAIN order : DepsOf[order[i]] \subseteq Lowered \cup Earlier(order, i)
      /\ IsSequence(stmts)
  BY DEF EmitInv
<1>2. /\ \A i \in Stmts : StmtIn(stmts, i, Lowered)
      /\ \A n \in Lowered : \A port \in OutputPorts(NodeOp(graph, n)) : Defining(n, port) # {}
  BY DEF EmitInv
<1>3. OutputsAreNamedApart =>
        /\ \A i, j \in Stmts : stmts[i].node = stmts[j].node /\ stmts[i].port = stmts[j].port => i = j
        /\ \A i \in Stmts : AgreesWith(Inferred(graph, incoming), stmts[i])
  BY DEF EmitInv
<1>4. /\ DepsOf' = DepsOf /\ OutputNode' = OutputNode /\ Needed' = Needed
      /\ OutputsAreNamedApart' = OutputsAreNamedApart
  BY Kept
<1>5. Lowered' = Lowered /\ Stmts' = Stmts
  BY <1>4 DEF Lowered, Stmts
<1>6. ASSUME NEW i \in Stmts PROVE StmtIn(stmts, i, Lowered)'
  <2>1. i \in Nat /\ i # 0 /\ StmtIn(stmts, i, Lowered)
    BY <1>2 DEF Stmts
  <2> QED BY <1>5, <2>1, StatementStays
<1>7. \A n \in Lowered : \A port \in OutputPorts(NodeOp(graph, n)) : Defining(n, port)' # {}
  BY <1>2 DEF Defining
<1>8. \A i \in Stmts : AgreesWith(Inferred(graph, incoming), stmts[i])'
                         = AgreesWith(Inferred(graph, incoming), stmts[i])
  BY DEF AgreesWith, UntypedOf, Inferred
<1>9. graph' = graph /\ order' = order /\ stmts' = stmts
  OBVIOUS
<1>10. OutputsAreNamedApart' =>
        /\ \A i, j \in Stmts' : stmts'[i].node = stmts'[j].node /\ stmts'[i].port = stmts'[j].port => i = j
        /\ \A i \in Stmts' : AgreesWith(Inferred(graph, incoming), stmts[i])'
  BY <1>3, <1>4, <1>5, <1>8, <1>9
<1>11. \A n \in Lowered' : \A port \in OutputPorts(NodeOp(graph, n))' : Defining(n, port)' # {}
  BY <1>5, <1>7
<1>12. \A i \in Stmts' : StmtIn(stmts, i, Lowered)'
  BY <1>5, <1>6
<1> QED BY <1>1, <1>4, <1>5, <1>9, <1>10, <1>11, <1>12 DEF EmitInv

\* Lowering one node keeps the invariant.
LEMMA EmitNodeKeeps ==
  ASSUME SearchInv, VerdictInv, EmitInv, EmitNode
  PROVE  EmitInv'
<1>0. /\ pc = "emit" /\ UNCHANGED <<graph, ctx, incoming>>
      /\ stmts' = stmts \o Emitted(Head(order))
      /\ IF Len(order) > 1 THEN order' = Tail(order) /\ pc' = pc
                           ELSE order' = order /\ pc' = "write"
  BY DEF EmitNode
<1>1. /\ order \in Seq(Ids(graph)) /\ order # <<>> /\ Distinct(order)
      /\ Len(order) \in Nat /\ DOMAIN order = 1 .. Len(order) /\ Len(order) >= 1 /\ 1 \in DOMAIN order
      /\ Head(order) = order[1] /\ order[1] \in Ids(graph) /\ order[1] \in ToSet(order)
      /\ DepsOf[order[1]] \subseteq Lowered
      /\ order[Len(order)] = OutputNode /\ NodeOp(graph, OutputNode).kind = "Output"
      /\ \A n \in Ids(graph) : NodeOp(graph, n).kind = "Output" => n = OutputNode
  BY <1>0, EmitFacts
<1>2. CASE ~ (Len(order) > 1)
  <2>1. Len(order) = 1
    BY <1>1, <1>2
  <2>2. Emitted(Head(order)) = <<>>
    <3>1. NodeOp(graph, Head(order)).kind = "Output"
      BY <1>1, <2>1
    <3> QED BY <3>1 DEF Emitted
  <2>3. stmts' = stmts
    <3>1. stmts \in Seq(ToSet(stmts))
      BY <1>0 DEF EmitInv, IsSequence
    <3> QED BY <1>0, <2>2, <3>1
  <2>4. pc' = "write" /\ order' = order
    BY <1>0, <1>2
  <2> QED BY <1>0, <2>1, <2>3, <2>4, EmitStays
<1>3. CASE Len(order) > 1
  <2>0. PICK n, E, L : n = order[1] /\ E = Emitted(n) /\ L = Len(stmts)
    OBVIOUS
  <2>1. /\ n \in Ids(graph) /\ NodeOp(graph, n).kind # "Output" /\ DepsOf[n] \subseteq Lowered
        /\ n \notin Lowered
    <3>1. n # order[Len(order)]
      BY <1>1, <1>3, <2>0, TailFacts
    <3> QED BY <1>1, <2>0, <3>1 DEF Lowered
  <2>2. /\ IsSequence(E)
        /\ \A i \in DOMAIN E : EmittedBy(n, E[i])
        /\ \A port : HasOutputPort(NodeOp(graph, n), port) => \E i \in DOMAIN E : E[i].port = port
        /\ OutputsAreNamedApart =>
             /\ \A i, j \in DOMAIN E : E[i].port = E[j].port => i = j
             /\ \A i \in DOMAIN E : AgreesWith(Inferred(graph, incoming), E[i])
    BY <1>0, <2>0, <2>1, NewStatements
  <2>3. pc' = "emit" /\ order' = Tail(order) /\ stmts' = stmts \o E /\ graph' = graph /\ incoming' = incoming
    BY <1>0, <1>1, <1>3, <2>0
  <2>4. /\ IsSequence(stmts) /\ ToSet(order) \subseteq Needed
        /\ \A i \in DOMAIN order : DepsOf[order[i]] \subseteq Lowered \cup Earlier(order, i)
        /\ \A i \in Stmts : StmtIn(stmts, i, Lowered)
        /\ \A m \in Lowered : \A port \in OutputPorts(NodeOp(graph, m)) : Defining(m, port) # {}
    BY <1>0 DEF EmitInv
  <2>5. OutputsAreNamedApart =>
          /\ \A i, j \in Stmts : stmts[i].node = stmts[j].node /\ stmts[i].port = stmts[j].port => i = j
          /\ \A i \in Stmts : AgreesWith(Inferred(graph, incoming), stmts[i])
    BY <1>0 DEF EmitInv
  <2>6. /\ DepsOf' = DepsOf /\ OutputNode' = OutputNode /\ Needed' = Needed
        /\ OutputsAreNamedApart' = OutputsAreNamedApart
    BY <2>3, Kept
  <2>7. /\ order' \in Seq(Ids(graph)) /\ order' # <<>> /\ Distinct(order')
        /\ order'[Len(order')] = OutputNode
        /\ ToSet(order') = ToSet(order) \ {n}
        /\ \A i \in DOMAIN order' : /\ i + 1 \in DOMAIN order /\ order'[i] = order[i + 1]
                                    /\ Earlier(order, i + 1) = {n} \cup Earlier(order', i)
    BY <1>1, <1>3, <2>0, <2>3, TailFacts
  <2>8. Lowered' = Lowered \cup {n} /\ n \in Lowered'
    BY <1>1, <2>0, <2>4, <2>6, <2>7 DEF Lowered
  <2>9. \A i \in DOMAIN order' : DepsOf[order'[i]] \subseteq Lowered' \cup Earlier(order', i)
    BY <2>4, <2>7, <2>8
  <2>10. /\ IsSequence(stmts') /\ L \in Nat /\ Len(E) \in Nat
         /\ DOMAIN stmts = 1 .. L /\ DOMAIN E = 1 .. Len(E)
         /\ Len(stmts') \in Nat /\ DOMAIN stmts' = 1 .. Len(stmts')
         /\ \A i \in 1 .. L : i \in 1 .. Len(stmts') /\ stmts'[i] = stmts[i]
         /\ \A i \in 1 .. Len(stmts') : ~ (i \in 1 .. L) =>
              i - L \in 1 .. Len(E) /\ stmts'[i] = E[i - L]
         /\ \A i \in 1 .. Len(E) : L + i \in 1 .. Len(stmts') /\ stmts'[L + i] = E[i]
    <3> DEFINE c == stmts \o E
    <3>1. /\ IsSequence(c) /\ L \in Nat /\ Len(E) \in Nat
          /\ DOMAIN stmts = 1 .. L /\ DOMAIN E = 1 .. Len(E)
          /\ DOMAIN c = 1 .. L + Len(E) /\ Len(c) = L + Len(E)
          /\ \A i \in 1 .. L : i \in 1 .. Len(c) /\ c[i] = stmts[i]
          /\ \A i \in 1 .. Len(c) : ~ (i \in 1 .. L) => i - L \in 1 .. Len(E) /\ c[i] = E[i - L]
          /\ \A i \in 1 .. Len(E) : L + i \in 1 .. Len(c) /\ c[L + i] = E[i]
      BY <2>0, <2>2, <2>4, Concatenated
    <3>2. stmts' = c
      BY <2>3
    <3> HIDE DEF c
    <3>3. Len(c) \in Nat /\ DOMAIN c = 1 .. Len(c)
      BY <3>1
    <3> QED BY <3>1, <3>2, <3>3
  <2>11. Stmts = 1 .. L /\ Stmts' = 1 .. Len(stmts')
    BY <2>0 DEF Stmts
  <2>12. ASSUME NEW i \in Stmts' PROVE StmtIn(stmts, i, Lowered)'
    <3>0. i \in Nat /\ i # 0
      BY <2>10, <2>11
    <3>1. CASE i \in Stmts
      <4>1. \A j \in 1 .. i : j \in 1 .. L
        BY <2>10, <2>11, <3>1
      <4>2. \A j \in 1 .. i : stmts'[j] = stmts[j]
        BY <2>10, <4>1
      <4> QED BY <2>3, <2>4, <2>8, <3>0, <3>1, <4>2, StatementStays
    <3>2. CASE ~ (i \in Stmts)
      <4>1. i - L \in DOMAIN E /\ stmts'[i] = E[i - L]
        BY <2>10, <2>11, <3>2
      <4>2. EmittedBy(n, E[i - L])
        BY <2>2, <4>1
      <4>3. \A j \in Stmts : stmts'[j] = stmts[j]
        BY <2>10, <2>11
      <4> QED BY <1>0, <2>1, <2>3, <2>8, <3>0, <3>2, <4>1, <4>2, <4>3, StatementAdded
    <3> QED BY <3>1, <3>2
  <2>13. ASSUME NEW m \in Lowered', NEW port \in OutputPorts(NodeOp(graph, m))
         PROVE  Defining(m, port)' # {}
    <3>1. CASE m \in Lowered
      <4>1. PICK i : i \in Defining(m, port)
        BY <2>4, <3>1
      <4>2. i \in 1 .. L /\ stmts[i].node = m /\ stmts[i].port = port
        BY <2>10, <4>1 DEF Defining
      <4>3. i \in DOMAIN stmts' /\ stmts'[i] = stmts[i]
        BY <2>10, <4>2
      <4>4. i \in Defining(m, port)'
        BY <4>2, <4>3 DEF Defining
      <4> QED BY <4>4
    <3>2. CASE m = n
      <4>1. PICK i \in DOMAIN E : E[i].port = port
        BY <2>2, <3>2 DEF HasOutputPort
      <4>2. E[i].node = m
        BY <2>2, <3>2 DEF EmittedBy
      <4>3. L + i \in DOMAIN stmts' /\ stmts'[L + i] = E[i]
        BY <2>10
      <4>4. L + i \in Defining(m, port)'
        BY <4>1, <4>2, <4>3 DEF Defining
      <4> QED BY <4>4
    <3> QED BY <2>8, <3>1, <3>2
  <2>14. ASSUME OutputsAreNamedApart, NEW i \in Stmts', NEW j \in Stmts',
                stmts'[i].node = stmts'[j].node, stmts'[i].port = stmts'[j].port
         PROVE  i = j
    <3>1. \A k \in Stmts : k \in 1 .. L /\ stmts'[k] = stmts[k] /\ stmts'[k].node # n
      <4>1. \A k \in Stmts : stmts[k].node \in Lowered
        BY <2>4 DEF StmtIn
      <4> QED BY <2>1, <2>10, <2>11, <4>1
    <3>2. \A k \in Stmts' : ~ (k \in Stmts) => /\ k - L \in DOMAIN E /\ stmts'[k] = E[k - L]
                                               /\ stmts'[k].node = n
      <4>1. \A k \in DOMAIN E : E[k].node = n
        BY <2>2 DEF EmittedBy
      <4> QED BY <2>10, <2>11, <4>1
    <3>3. CASE i \in Stmts /\ j \in Stmts
      BY <2>5, <2>14, <3>1, <3>3
    <3>4. CASE ~ (i \in Stmts) /\ ~ (j \in Stmts)
      <4>1. i - L = j - L
        BY <2>2, <2>14, <3>2, <3>4
      <4>2. i \in Nat /\ j \in Nat
        BY <2>10, <2>11
      <4> QED BY <2>10, <4>1, <4>2
    <3> QED BY <2>14, <3>1, <3>2, <3>3, <3>4
  <2>15. ASSUME OutputsAreNamedApart, NEW i \in Stmts' PROVE AgreesWith(Inferred(graph, incoming), stmts[i])'
    <3>0. \A s : AgreesWith(Inferred(graph, incoming), s)' = AgreesWith(Inferred(graph, incoming), s)
      BY <2>3 DEF AgreesWith, UntypedOf, Inferred
    <3>1. CASE i \in Stmts
      <4>1. AgreesWith(Inferred(graph, incoming), stmts[i]) /\ stmts'[i] = stmts[i]
        BY <2>5, <2>10, <2>11, <2>15, <3>1
      <4> QED BY <3>0, <4>1
    <3>2. CASE ~ (i \in Stmts)
      <4>1. i - L \in DOMAIN E /\ stmts'[i] = E[i - L]
        BY <2>10, <2>11, <3>2
      <4>2. AgreesWith(Inferred(graph, incoming), E[i - L])
        BY <2>2, <2>15, <4>1
      <4> QED BY <3>0, <4>1, <4>2
    <3> QED BY <3>1, <3>2
  <2>16. /\ ToSet(order') \subseteq Needed' /\ order'[Len(order')] = OutputNode'
         /\ \A i \in DOMAIN order' : DepsOf'[order'[i]] \subseteq Lowered' \cup Earlier(order', i)
    BY <2>4, <2>6, <2>7, <2>9
  <2>17. \A m \in Lowered' : \A port \in OutputPorts(NodeOp(graph, m))' : Defining(m, port)' # {}
    BY <2>3, <2>13
  <2> QED BY <2>3, <2>6, <2>7, <2>10, <2>12, <2>14, <2>15, <2>16, <2>17 DEF EmitInv
<1> QED BY <1>2, <1>3

\* The Output finds its colour.
LEMMA WriteKeeps ==
  ASSUME SearchInv, VerdictInv, EmitInv, Write
  PROVE  pc' = "done" /\ EmitInv'
<1>1. pc = "write" /\ UNCHANGED <<graph, incoming, order, stmts>>
  BY DEF Write
<1>2. Len(order) = 1
  BY <1>1 DEF EmitInv
<1>3. /\ Head(order) = OutputNode /\ OutputNode \in Ids(graph) /\ DepsOf[OutputNode] \subseteq Lowered
      /\ NodeOp(graph, OutputNode).kind = "Output"
  BY <1>1, <1>2, EmitFacts
<1>4. InputPorts(NodeOp(graph, OutputNode)) = <<"color">>
  BY <1>3 DEF InputPorts
<1>5. PICK t \in Nat : InputTemp(OutputNode, "color") = {t}
  <2>1. 1 \in DOMAIN InputPorts(NodeOp(graph, OutputNode)) /\ InputPorts(NodeOp(graph, OutputNode))[1] = "color"
    BY <1>4
  <2>2. \E t \in Nat : InputTemp(OutputNode, InputPorts(NodeOp(graph, OutputNode))[1]) = {t}
    BY <1>1, <1>3, <2>1, InputIsDefined
  <2> QED BY <2>1, <2>2
<1>6. pc' = "done"
  <2>1. InputTemp(Head(order), "color") # {}
    BY <1>3, <1>5
  <2> QED BY <2>1 DEF Write
<1> QED BY <1>1, <1>2, <1>6, EmitStays

\* All of it.
IInv == SearchInv /\ VerdictInv /\ OrderInv /\ EmitInv

LEMMA InitKeeps == Init => IInv
<1> SUFFICES ASSUME Init PROVE IInv
  OBVIOUS
<1>1. /\ graph \in Graphs /\ ctx \in Contexts /\ pc = "edges" /\ stack = <<>> /\ finished = <<>>
      /\ cycles = {} /\ diagnostics = {} /\ order = <<>> /\ stmts = <<>>
  BY DEF Init
<1>2. SearchInv
  BY <1>1 DEF SearchInv, Distinct, Closed
<1>3. VerdictInv /\ OrderInv /\ EmitInv
  BY <1>1 DEF VerdictInv, OrderInv, EmitInv
<1> QED BY <1>2, <1>3 DEF IInv

LEMMA EmitKeeps ==
  ASSUME IInv, Next \/ UNCHANGED vars
  PROVE  pc' # "noOutput" /\ EmitInv'
<1>0. SearchInv /\ VerdictInv /\ OrderInv /\ EmitInv
  BY DEF IInv
<1>1. CASE ReadEdges \/ SearchFrom \/ VisitChild \/ Finish \/ Judge \/ VisitDep
  <2>1. pc' \in {"cycles", "order", "refused"}
    BY <1>1 DEF ReadEdges, SearchFrom, VisitChild, Finish, Judge, VisitDep
  <2> QED BY <2>1 DEF EmitInv
<1>2. CASE Place
  <2>1. pc' = IF Len(stack) = 1 THEN "emit" ELSE "order"
    BY <1>2 DEF Place
  <2>2. CASE Len(stack) = 1
    BY <1>0, <1>2, <2>1, <2>2, OrderIsComplete
  <2>3. CASE Len(stack) # 1
    BY <2>1, <2>3 DEF EmitInv
  <2> QED BY <2>2, <2>3
<1>3. CASE EmitNode
  <2>1. pc' \in {"emit", "write"}
    BY <1>3 DEF EmitNode
  <2> QED BY <1>0, <1>3, <2>1, EmitNodeKeeps
<1>4. CASE Write
  BY <1>0, <1>4, WriteKeeps
<1>5. CASE UNCHANGED vars
  <2>1. pc' = pc /\ UNCHANGED <<graph, incoming, order, stmts>>
    BY <1>5 DEF vars
  <2>2. pc' # "noOutput"
    BY <1>0, <2>1 DEF SearchInv
  <2>3. CASE pc \in {"emit", "write", "done"}
    <3>1. pc' # "emit" => Len(order) = 1
      BY <1>0, <2>1, <2>3 DEF EmitInv
    <3> QED BY <1>0, <2>1, <2>2, <2>3, <3>1, EmitStays
  <2>4. CASE pc \notin {"emit", "write", "done"}
    BY <2>1, <2>2, <2>4 DEF EmitInv
  <2> QED BY <2>3, <2>4
<1> QED BY <1>1, <1>2, <1>3, <1>4, <1>5 DEF Next

LEMMA NextKeeps == IInv /\ [Next]_vars => IInv'
<1> SUFFICES ASSUME IInv, Next \/ UNCHANGED vars PROVE IInv'
  OBVIOUS
<1>1. SearchInv /\ VerdictInv /\ OrderInv
  BY DEF IInv
<1>2. pc' # "noOutput" /\ EmitInv'
  BY EmitKeeps
<1>3. SearchInv' /\ VerdictInv' /\ OrderInv'
  BY <1>1, <1>2, SearchKeeps, VerdictKeeps, OrderKeeps
<1> QED BY <1>2, <1>3 DEF IInv

\* The invariant holds throughout compile_graph, of any graph: the searches keep
\* to paths of it, and every statement is sound when it is added and after.
THEOREM IInvAlways == Spec => []IInv
<1>1. Init => IInv
  BY InitKeeps
<1>2. IInv /\ [Next]_vars => IInv'
  BY NextKeeps
<1> QED BY <1>1, <1>2, PTL DEF Spec

------------------------------------------------------------------------------
(* What the invariant shows.                                                 *)

\* Every diagnostic names a node of the graph, or one that is missing, or none.
LEMMA DiagnosticsNameNodes ==
  ASSUME NEW g, NEW c, NEW inc, NEW cyc, cyc \subseteq Ids(g), IsIrGraph(g),
         NEW d \in Check(g, c, inc, cyc)
  PROVE  d[2] \in Ids(g) \cup {NoNode} \/ d[1] = "unknownNode"
<1> DEFINE type == Inferred(g, inc)
           N == Ids(g) \cup {NoNode}
           A1 == {<<"duplicateNodeId", g.nodes[i].id>> : i \in
                   {j \in DOMAIN g.nodes : \E k \in 1 .. j - 1 : g.nodes[k].id = g.nodes[j].id}}
           A2 == UNION {{<<e, n.id>> : e \in ReferenceErrors(n.op, c)} : n \in ToSet(g.nodes)}
           A3 == {<<"cycle", n>> : n \in cyc}
           A4 == IF cyc # {} THEN {} ELSE EdgeTypeErrors(g, type) \cup OperandErrors(g, type, inc)
<1>1. Check(g, c, inc, cyc) =
        A1 \cup A2 \cup EdgeErrors(g) \cup RequiredInputErrors(g, inc) \cup OutputErrors(g) \cup A3 \cup A4
  BY DEF Check
<1>2. \A n \in ToSet(g.nodes) : n.id \in Ids(g)
  BY DEF ToSet, Ids
<1>3. \A i \in DOMAIN g.nodes : g.nodes[i].id \in Ids(g)
  BY DEF Ids
<1> HIDE DEF A1, A2, A3, A4, type
<1>4. CASE d \in A1
  BY <1>3, <1>4 DEF A1
<1>5. CASE d \in A2
  BY <1>2, <1>5 DEF A2
<1>6. CASE d \in EdgeErrors(g)
  <2> DEFINE X(j) == EndErrors(g, g.edges[j].from, SourceOk(g, g.edges[j]))
                     \cup EndErrors(g, g.edges[j].to, TargetOk(g, g.edges[j]))
             Y == {<<"duplicateInput", g.edges[j].to>> : j \in
                     {j \in Sound(g) : \E k \in Sound(g) : k < j /\ SamePort(g.edges[j], g.edges[k])}}
  <2>1. EdgeErrors(g) = (UNION {X(j) : j \in DOMAIN g.edges}) \cup Y
    BY Zenon DEF EdgeErrors
  <2>2. \A id, ok : \A e \in EndErrors(g, id, ok) : e[2] \in Ids(g) \/ e[1] = "unknownNode"
    BY DEF EndErrors
  <2>3. \A j \in DOMAIN g.edges : \A e \in X(j) : e[2] \in Ids(g) \/ e[1] = "unknownNode"
    BY <2>2
  <2>4. \A e \in Y : e[2] \in Ids(g)
    <3>1. \A j \in Sound(g) : g.edges[j].to \in Ids(g)
      BY DEF Sound, TargetOk
    <3>2. TAKE e \in Y
    <3>3. PICK j \in Sound(g) : e = <<"duplicateInput", g.edges[j].to>>
      BY <3>2
    <3> QED BY <3>1, <3>3
  <2> HIDE DEF X, Y
  <2>5. CASE d \in Y
    BY <2>4, <2>5
  <2>6. CASE d \in UNION {X(j) : j \in DOMAIN g.edges}
    <3>1. PICK j \in DOMAIN g.edges : d \in X(j)
      BY <2>6
    <3> QED BY <2>3, <3>1
  <2> QED BY <1>6, <2>1, <2>5, <2>6
<1>7. CASE d \in RequiredInputErrors(g, inc)
  BY <1>2, <1>7 DEF RequiredInputErrors
<1>8. CASE d \in OutputErrors(g)
  BY <1>3, <1>8 DEF OutputErrors
<1>9. CASE d \in A3
  BY <1>9 DEF A3
<1>10. CASE d \in A4
  <2>1. CASE d \in EdgeTypeErrors(g, type)
    <3>1. \A j \in Sound(g) : g.edges[j].to \in Ids(g)
      BY DEF Sound, TargetOk
    <3> DEFINE Bad(j) == LET e == g.edges[j]
                             t == type[<<e.from, e.out>>]
                         IN  /\ t # None
                             /\ ~ConnectionLegal(t, Target(NodeOp(g, e.to), e.in))
    <3>2. EdgeTypeErrors(g, type) = {<<"typeMismatch", g.edges[i].to>> : i \in {j \in Sound(g) : Bad(j)}}
      BY Zenon DEF EdgeTypeErrors
    <3> HIDE DEF Bad
    <3>3. PICK j \in Sound(g) : d = <<"typeMismatch", g.edges[j].to>>
      BY <2>1, <3>2
    <3> QED BY <3>1, <3>3
  <2>2. CASE d \in OperandErrors(g, type, inc)
    <3> DEFINE Bad(m) == /\ m.op.kind = "Expr"
                         /\ ~OperandsOk(m.op, [i \in DOMAIN m.op.operands |->
                                                 InputType(type, inc, m.id, m.op.operands[i])])
    <3>1. OperandErrors(g, type, inc) =
            {<<IF n.op.op = "swizzle" THEN "illegalSwizzle" ELSE "operandType", n.id>> : n \in
               {m \in ToSet(g.nodes) : Bad(m)}}
      BY Zenon DEF OperandErrors
    <3> HIDE DEF Bad
    <3>2. PICK n \in ToSet(g.nodes) : d[2] = n.id
      BY <2>2, <3>1
    <3> QED BY <1>2, <3>2
  <2> QED BY <1>10, <2>1, <2>2 DEF A4
<1> QED BY <1>1, <1>4, <1>5, <1>6, <1>7, <1>8, <1>9, <1>10

\* Whatever is needed is a node of the graph.
LEMMA NeededAreNodes ==
  ASSUME SearchInv, VerdictInv, pc \in {"order", "emit", "write", "done"}
  PROVE  Needed \subseteq Ids(graph)
<1>1. graph \in Graphs /\ OutputNode \in Ids(graph) /\ DepsOf \in [Ids(graph) -> SUBSET Ids(graph)]
  BY CheckedGraph, CleanGraph, DepsOfFacts
<1> QED BY <1>1, ReachClosed DEF Needed

\* A search over a path holds no node twice; at other times the stack is empty.
LEMMA StackIsSound ==
  ASSUME IInv
  PROVE  /\ \A i \in DOMAIN stack : stack[i].node \in Ids(graph) /\ stack[i].next \in Nat \ {0}
         /\ Cardinality(OnStack) = Len(stack)
<1>1. OnStack = NodesOf(stack)
  BY DEF OnStack, NodesOf
<1>2. ASSUME NEW list, IsPath(Ids(graph), list, stack), IsIrGraph(graph)
      PROVE  /\ \A i \in DOMAIN stack : stack[i].node \in Ids(graph) /\ stack[i].next \in Nat \ {0}
             /\ Cardinality(OnStack) = Len(stack)
  <2>1. stack \in Seq(Frames(Ids(graph)))
    BY <1>2 DEF IsPath
  <2>2. \A i \in DOMAIN stack : stack[i] \in Frames(Ids(graph))
    BY <2>1
  <2> QED BY <1>1, <1>2, <2>2, PathIsShort DEF Frames
<1>3. IsIrGraph(graph)
  BY GraphsAssumption DEF IInv, SearchInv
<1>4. CASE pc = "cycles"
  BY <1>2, <1>3, <1>4 DEF IInv, SearchInv
<1>5. CASE pc = "order"
  BY <1>2, <1>3, <1>5 DEF IInv, OrderInv
<1>6. CASE pc \notin {"cycles", "order"}
  <2>1. stack = <<>>
    BY <1>6 DEF IInv, SearchInv
  <2>2. OnStack = {} /\ Len(stack) = 0 /\ DOMAIN stack = {}
    BY <2>1 DEF OnStack
  <2> QED BY <2>2, FS_EmptySet
<1> QED BY <1>4, <1>5, <1>6

\* The statements are of nodes that were lowered, and of types a port may have.
LEMMA StatementsAreSound ==
  ASSUME IInv, NEW i \in Stmts
  PROVE  /\ pc \in {"emit", "write", "done"}
         /\ StmtIn(stmts, i, Lowered) /\ stmts[i].node \in Ids(graph)
<1>1. pc \in {"emit", "write", "done"}
  <2> SUFFICES ASSUME pc \in {"edges", "cycles", "refused", "order"} PROVE FALSE
    BY DEF IInv, SearchInv
  <2>1. stmts = <<>>
    BY DEF IInv, OrderInv
  <2> QED BY <2>1 DEF Stmts
<1>2. StmtIn(stmts, i, Lowered)
  BY <1>1 DEF IInv, EmitInv
<1>3. Lowered \subseteq Ids(graph)
  BY <1>1, NeededAreNodes DEF IInv, Lowered
<1> QED BY <1>1, <1>2, <1>3 DEF StmtIn

\* What the invariant says of the stages, one property of LoweringIsSound each.
LEMMA StagesAreTyped == IInv => TypeOK
<1> SUFFICES ASSUME IInv PROVE TypeOK
  OBVIOUS
<1>1. /\ graph \in Graphs /\ ctx \in Contexts
      /\ pc \in {"edges", "cycles", "order", "emit", "write", "refused", "done", "noOutput"}
  BY DEF IInv, SearchInv
<1>2. ToSet(finished) \subseteq Ids(graph) /\ Cardinality(ToSet(finished)) = Len(finished)
  <2>1. finished \in Seq(Ids(graph)) /\ \A i, j \in DOMAIN finished : finished[i] = finished[j] => i = j
    BY DEF IInv, SearchInv, Distinct
  <2>2. ToSet(finished) \subseteq Ids(graph)
    BY <2>1 DEF ToSet
  <2> QED BY <2>1, <2>2, DistinctCount
<1>3. \A d \in diagnostics : d[2] \in Ids(graph) \cup {NoNode} \/ d[1] = "unknownNode"
  <2>1. CASE pc \in {"edges", "cycles"}
    BY <2>1 DEF IInv, VerdictInv
  <2>2. CASE pc \notin {"edges", "cycles"}
    <3>1. diagnostics = Check(graph, ctx, incoming, cycles)
      BY <2>2 DEF IInv, VerdictInv
    <3>2. cycles \subseteq Ids(graph) /\ IsIrGraph(graph)
      BY GraphsAssumption DEF IInv, SearchInv, Looping
    <3> QED BY <3>1, <3>2, DiagnosticsNameNodes
  <2> QED BY <2>1, <2>2
<1>4. \A i \in Stmts : stmts[i].node \in Ids(graph) /\ stmts[i].type \in PortType
  BY StatementsAreSound DEF StmtIn
<1> QED BY <1>1, <1>2, <1>3, <1>4, StackIsSound DEF TypeOK

LEMMA OperandsComeFirst == IInv => OperandsAreDefined
<1> SUFFICES ASSUME IInv PROVE OperandsAreDefined
  OBVIOUS
<1>1. \A i \in Stmts : StmtIn(stmts, i, Lowered)
  BY StatementsAreSound
<1> QED BY <1>1 DEF OperandsAreDefined, StmtIn

LEMMA LoweredAreNeeded == IInv => LowersWhatTheOutputNeeds
<1> SUFFICES ASSUME IInv PROVE LowersWhatTheOutputNeeds
  OBVIOUS
<1>1. pc # "noOutput"
  BY DEF IInv, SearchInv
<1>2. ASSUME pc = "done"
      PROVE  /\ {stmts[i].node : i \in Stmts} =
                  {n \in Reach({OutputNode}, DepsOf) \ {OutputNode} :
                     NodeOp(graph, n).kind = "CustomSnippet" => NodeOp(graph, n).outputs # <<>>}
             /\ OutputsAreNamedApart =>
                  \A i, j \in Stmts : stmts[i].node = stmts[j].node /\ stmts[i].port = stmts[j].port => i = j
  <2>1. /\ order \in Seq(Ids(graph)) /\ Len(order) = 1 /\ order[Len(order)] = OutputNode
        /\ \A n \in Lowered : \A port \in OutputPorts(NodeOp(graph, n)) : Defining(n, port) # {}
        /\ OutputsAreNamedApart =>
             \A i, j \in Stmts : stmts[i].node = stmts[j].node /\ stmts[i].port = stmts[j].port => i = j
    BY <1>2 DEF IInv, EmitInv
  <2>2. ToSet(order) = {OutputNode}
    BY <2>1 DEF ToSet
  <2>3. Lowered = Needed \ {OutputNode} /\ Needed = Reach({OutputNode}, DepsOf)
    BY <2>2 DEF Lowered, Needed
  <2>4. /\ \A n \in Ids(graph) : NodeOp(graph, n).kind = "Output" => n = OutputNode
        /\ Needed \subseteq Ids(graph) /\ IsIrGraph(graph)
    BY <1>2, CheckedGraph, CleanGraph, NeededAreNodes DEF IInv
  <2>5. ASSUME NEW i \in Stmts
        PROVE  /\ stmts[i].node \in Lowered
               /\ NodeOp(graph, stmts[i].node).kind = "CustomSnippet"
                    => NodeOp(graph, stmts[i].node).outputs # <<>>
    <3>1. stmts[i].node \in Lowered /\ stmts[i].port \in OutputPorts(NodeOp(graph, stmts[i].node))
      BY StatementsAreSound DEF StmtIn, HasOutputPort
    <3>2. PICK op : op = NodeOp(graph, stmts[i].node)
      OBVIOUS
    <3>3. op.kind = "CustomSnippet" => op.outputs # <<>>
      BY <3>1, <3>2 DEF OutputPorts, Names
    <3> QED BY <3>1, <3>2, <3>3
  <2>6. ASSUME NEW n \in Lowered,
               NodeOp(graph, n).kind = "CustomSnippet" => NodeOp(graph, n).outputs # <<>>
        PROVE  \E i \in Stmts : stmts[i].node = n
    <3>1. n \in Ids(graph) /\ NodeOp(graph, n).kind # "Output" /\ IsNodeOp(NodeOp(graph, n))
      BY <2>3, <2>4, NodeOpFacts
    <3>2. PICK op : op = NodeOp(graph, n)
      OBVIOUS
    <3>3. OutputPorts(op) # {}
      <4>1. CASE op.kind = "CustomSnippet"
        <5>1. IsSequence(op.outputs) /\ op.outputs # <<>>
          BY <2>6, <3>1, <3>2, <4>1 DEF IsNodeOp
        <5>2. DOMAIN op.outputs # {}
          BY <5>1 DEF IsSequence
        <5> QED BY <4>1, <5>2 DEF OutputPorts, Names
      <4> QED BY <3>1, <3>2, <4>1 DEF OutputPorts
    <3>4. PICK port \in OutputPorts(op) : Defining(n, port) # {}
      BY <2>1, <3>2, <3>3
    <3>5. IsSequence(stmts)
      BY <1>2 DEF IInv, EmitInv
    <3>6. DOMAIN stmts = Stmts
      BY <3>5 DEF IsSequence, Stmts
    <3> QED BY <3>4, <3>6 DEF Defining
  <2>7. {stmts[i].node : i \in Stmts} =
          {n \in Lowered : NodeOp(graph, n).kind = "CustomSnippet" => NodeOp(graph, n).outputs # <<>>}
    BY <2>5, <2>6
  <2> QED BY <2>1, <2>3, <2>7
<1> QED BY <1>1, <1>2 DEF LowersWhatTheOutputNeeds

LEMMA TypesAreInferred == IInv => DeclaredTypesAreInferred
<1> SUFFICES ASSUME IInv, pc \in {"write", "done"}, OutputsAreNamedApart, NEW i \in Stmts
             PROVE  LET t == Inferred(graph, incoming)[<<stmts[i].node, stmts[i].port>>]
                    IN  t = stmts[i].type \/ (t = None /\ Untyped(Inferred(graph, incoming), i))
  BY Zenon DEF DeclaredTypesAreInferred
<1>1. AgreesWith(Inferred(graph, incoming), stmts[i])
  BY DEF IInv, EmitInv
<1>2. PICK type : type = Inferred(graph, incoming)
  OBVIOUS
<1>3. UntypedOf(type, stmts[i]) => Untyped(type, i)
  BY DEF Untyped, UntypedOf
<1> QED BY <1>1, <1>2, <1>3 DEF AgreesWith

\* lower.rs:10, :14 and :526, of every graph: what is lowered is what the Output
\* needs, operands are defined before they are used and are what feeds the port,
\* and a temporary is declared with the type the checker inferred.
THEOREM LoweringIsSoundAlways == Spec => []LoweringIsSound
<1>1. IInv => LoweringIsSound
  BY StagesAreTyped, OperandsComeFirst, LoweredAreNeeded, TypesAreInferred DEF LoweringIsSound
<1> QED BY <1>1, IInvAlways, PTL

\* typecheck.rs:531, of every graph: from the verdict on, a cycle is reported
\* exactly if the graph has one, and only nodes that are on one.
THEOREM CyclesAreFoundAlways == Spec => [](pc \notin {"edges", "cycles"} => CyclesAreFound)
<1>1. IInv => (pc \notin {"edges", "cycles"} => CyclesAreFound)
  BY SearchFindsCycles DEF IInv
<1> QED BY <1>1, IInvAlways, PTL

-----------------------------------------------------------------------------
(* From a shader to its stages: the cache, and a request under way. *)

\* A stage of a text after its rewrites.
NormalStage(lines, s) ==
    NormalizeStage(CompiledStages(lines)[s], FreeBindingAcross({CompiledStages(lines)["vertex"], CompiledStages(lines)["fragment"]})).module

\* The disk, the source and the text of a request are what they were when it was made.
RequestOK == /\ disk \in Disks
             /\ phase \in Working => text = CurrentText /\ text \in Texts

\* Each hash in the cache has the compilation of a text with that hash.
CacheOK == \A key \in DOMAIN cache : \E t \in Texts : Hash(t) = key /\ cache[key] = Compilation(t)

\* What a request may be answered with.
Answers(lines) == {Compilation(t) : t \in IF cached THEN Alike(lines) ELSE {lines}}

\* Each phase has the results of the ones before it.
PhaseOK ==
    /\ phase \in {"preprocessed", "compiled", "halfway", "normalized"} => pre = Preprocess(text)
    /\ phase \in {"compiled", "halfway", "normalized"} =>
          raw = CompiledStages(text) /\ target = FreeBindingAcross({raw["vertex"], raw["fragment"]})
    /\ phase \in {"resolved", "preprocessed", "compiled"} => compiled = NoShader
    /\ phase = "halfway" => compiled = [NoShader EXCEPT !.stages["vertex"] = NormalStage(text, "vertex")]
    /\ phase = "normalized" =>
          compiled = [stages |-> [s \in Stages |-> NormalStage(text, s)], parameters |-> <<>>]
    /\ phase = "ready" => compiled \in Answers(text)

PipelineInv == RequestOK /\ CacheOK /\ PhaseOK

\* The rewrites are the same as long as the tools are.
LEMMA SameTools ==
  ASSUME UNCHANGED tools
  PROVE  \A lines : Compilation(lines)' = Compilation(lines) /\ \A s : NormalStage(lines, s)' = NormalStage(lines, s)
<1>1. ASSUME NEW lines PROVE Compilation(lines)' = Compilation(lines)
  BY DEF Compilation, CompiledStages, NormalizeStage, Through
<1>2. ASSUME NEW lines, NEW s PROVE NormalStage(lines, s)' = NormalStage(lines, s)
  BY DEF NormalStage, CompiledStages, NormalizeStage, Through
<1> QED BY <1>1, <1>2

LEMMA CompilationOfStages ==
  ASSUME NEW lines
  PROVE  Compilation(lines) = [stages |-> [s \in Stages |-> NormalStage(lines, s)], parameters |-> Preprocess(lines).parameters]
BY DEF Compilation, NormalStage

\* What a step leaves alone.
LEMMA KeptByOthers ==
  ASSUME PipelineInv, UNCHANGED <<disk, tools, cache, source, cached, text, pre, raw, target, compiled>>,
         phase' = phase \/ phase' \notin Working
  PROVE  PipelineInv'
<1>1. \A lines : Compilation(lines)' = Compilation(lines) /\ \A s : NormalStage(lines, s)' = NormalStage(lines, s)
  BY SameTools
<1>2. RequestOK' /\ CacheOK'
  BY <1>1 DEF PipelineInv, RequestOK, CacheOK, CurrentText
<1>3. PhaseOK'
  BY <1>1 DEF PipelineInv, PhaseOK, Working, Answers
<1> QED BY <1>2, <1>3 DEF PipelineInv

LEMMA RequestKeeps ==
  ASSUME PipelineInv, NEW src \in Sources, NEW viaCache, Request(src, viaCache)
  PROVE  PipelineInv'
<1>1. \A lines : Compilation(lines)' = Compilation(lines)
  BY SameTools DEF Request
<1>2. CacheOK'
  BY <1>1 DEF Request, PipelineInv, CacheOK
<1>3. phase' \in {"resolved", "failed"} /\ compiled' = NoShader
      /\ source' = src /\ disk' = disk /\ text' = ResolveIncludes(disk, src.lines, src.dir).lines
  BY DEF Request, Fail
<1>4. RequestOK'
  <2>1. disk \in Disks
    BY DEF PipelineInv, RequestOK
  <2> QED BY <1>3, <2>1 DEF RequestOK, CurrentText, Texts
<1>5. PhaseOK'
  BY <1>3 DEF PhaseOK
<1> QED BY <1>2, <1>4, <1>5 DEF PipelineInv

\* A hit is the compilation of the text that was asked for.
LEMMA CacheHitKeeps ==
  ASSUME PipelineInv, CacheHit
  PROVE  PipelineInv'
<1>1. \A lines : Compilation(lines)' = Compilation(lines)
  BY SameTools DEF CacheHit
<1>2. UNCHANGED <<disk, cache, source, cached, text>> /\ phase = "resolved" /\ phase' = "ready"
  BY DEF CacheHit
<1>3. cached /\ \E t \in Alike(text) : compiled' = Compilation(t)
  BY DEF CacheHit, CacheKey, PipelineInv, CacheOK, Alike
<1>4. RequestOK' /\ CacheOK'
  BY <1>1, <1>2 DEF PipelineInv, RequestOK, CacheOK, Working, CurrentText
<1>5. PhaseOK'
  <2>1. compiled' \in Answers(text)'
    BY <1>1, <1>2, <1>3 DEF Answers
  <2> QED BY <1>2, <2>1 DEF PhaseOK
<1> QED BY <1>4, <1>5 DEF PipelineInv

LEMMA RunPreprocessKeeps ==
  ASSUME PipelineInv, RunPreprocess
  PROVE  PipelineInv'
<1>1. \A lines : Compilation(lines)' = Compilation(lines)
  BY SameTools DEF RunPreprocess
<1>2. /\ UNCHANGED <<disk, cache, source, text, compiled>> /\ phase = "resolved" /\ pre' = Preprocess(text)
      /\ phase' \in {"preprocessed", "failed"}
  BY DEF RunPreprocess, Fail
<1>3. RequestOK' /\ CacheOK'
  BY <1>1, <1>2 DEF PipelineInv, RequestOK, CacheOK, Working, CurrentText
<1>4. PhaseOK'
  BY <1>2 DEF PipelineInv, PhaseOK
<1> QED BY <1>3, <1>4 DEF PipelineInv

LEMMA CompileStagesKeeps ==
  ASSUME PipelineInv, CompileStages
  PROVE  PipelineInv'
<1>1. \A lines : Compilation(lines)' = Compilation(lines)
  BY SameTools DEF CompileStages
<1>2. UNCHANGED <<disk, cache, source, text, pre, compiled>> /\ phase = "preprocessed" /\ phase' \in {"compiled", "failed"}
  BY DEF CompileStages, Fail
<1>3. pre = Preprocess(text) /\ compiled = NoShader
  BY <1>2 DEF PipelineInv, PhaseOK
<1>4. ASSUME phase' = "compiled"
      PROVE  raw' = CompiledStages(text) /\ target' = FreeBindingAcross({raw'["vertex"], raw'["fragment"]})
  <2> DEFINE v == Glslang(pre.vertex)
             f == Glslang(pre.fragment)
  <2>1. /\ raw' = [s \in Stages |-> IF s = "vertex" THEN v.module ELSE f.module]
        /\ target' = FreeBindingAcross({v.module, f.module})
    BY <1>4 DEF CompileStages, Fail
  <2>2. v = Glslang(Preprocess(text).vertex) /\ f = Glslang(Preprocess(text).fragment)
    BY <1>3
  <2> HIDE DEF v, f
  <2>3. raw'["vertex"] = v.module /\ raw'["fragment"] = f.module
    BY <2>1 DEF Stages
  <2>4. raw' = CompiledStages(text)
    BY <2>1, <2>2 DEF CompiledStages, Stages
  <2> QED BY <2>1, <2>3, <2>4
<1>5. RequestOK' /\ CacheOK'
  BY <1>1, <1>2 DEF PipelineInv, RequestOK, CacheOK, Working, CurrentText
<1>6. PhaseOK'
  BY <1>2, <1>3, <1>4 DEF PhaseOK
<1> QED BY <1>5, <1>6 DEF PipelineInv

LEMMA NormalizeKeeps ==
  ASSUME PipelineInv, NEW stage \in Stages, Normalize(stage)
  PROVE  PipelineInv'
<1>1. \A lines : Compilation(lines)' = Compilation(lines) /\ \A s : NormalStage(lines, s)' = NormalStage(lines, s)
  BY SameTools DEF Normalize
<1>2. /\ UNCHANGED <<disk, cache, source, text, pre, raw, target>>
      /\ phase = (IF stage = "vertex" THEN "compiled" ELSE "halfway")
      /\ phase' \in {IF stage = "vertex" THEN "halfway" ELSE "normalized", "failed"}
  BY DEF Normalize, Fail
<1>3. /\ pre = Preprocess(text) /\ raw = CompiledStages(text)
      /\ target = FreeBindingAcross({raw["vertex"], raw["fragment"]})
  BY <1>2 DEF PipelineInv, PhaseOK
<1>4. phase' # "failed" => compiled' = [compiled EXCEPT !.stages[stage] = NormalStage(text, stage)]
  <2>1. phase' # "failed" => compiled' = [compiled EXCEPT !.stages[stage] = NormalizeStage(raw[stage], target).module]
    BY DEF Normalize, Fail
  <2>2. NormalizeStage(raw[stage], target).module = NormalStage(text, stage)
    BY <1>3 DEF NormalStage
  <2> QED BY <2>1, <2>2
<1>5. phase' = "halfway" => compiled' = [NoShader EXCEPT !.stages["vertex"] = NormalStage(text, "vertex")]
  BY <1>2, <1>4 DEF PipelineInv, PhaseOK
<1>6. phase' = "normalized" => compiled' = [stages |-> [s \in Stages |-> NormalStage(text, s)], parameters |-> <<>>]
  <2>1. SUFFICES ASSUME phase' = "normalized"
                 PROVE  compiled' = [stages |-> [s \in Stages |-> NormalStage(text, s)], parameters |-> <<>>]
    OBVIOUS
  <2> DEFINE v == NormalStage(text, "vertex")
             f == NormalStage(text, "fragment")
  <2> HIDE DEF v, f
  <2>2. stage = "fragment" /\ phase = "halfway"
    BY <1>2, <2>1 DEF Stages
  <2>3. compiled = [NoShader EXCEPT !.stages["vertex"] = v] /\ compiled' = [compiled EXCEPT !.stages["fragment"] = f]
    BY <1>4, <2>1, <2>2 DEF PipelineInv, PhaseOK, v, f
  <2>4. compiled = [stages |-> [s \in Stages |-> IF s = "vertex" THEN v ELSE NoModule], parameters |-> <<>>]
    BY <2>3 DEF NoShader, NoStages, Stages
  <2> DEFINE half == [s \in Stages |-> IF s = "vertex" THEN v ELSE NoModule]
             full == [s \in Stages |-> IF s = "vertex" THEN v ELSE f]
  <2>5. compiled' = [stages |-> full, parameters |-> <<>>]
    <3>1. [half EXCEPT !["fragment"] = f] = full
      BY DEF Stages
    <3>2. compiled = [stages |-> half, parameters |-> <<>>] /\ compiled' = [compiled EXCEPT !.stages["fragment"] = f]
      BY <2>3, <2>4
    <3> HIDE DEF half, full
    <3>3. compiled' = [stages |-> [half EXCEPT !["fragment"] = f], parameters |-> <<>>]
      BY <3>2
    <3> QED BY <3>1, <3>3
  <2>6. full = [s \in Stages |-> NormalStage(text, s)]
    BY DEF Stages, v, f
  <2> QED BY <2>5, <2>6
<1>7. RequestOK' /\ CacheOK'
  BY <1>1, <1>2 DEF PipelineInv, RequestOK, CacheOK, Working, CurrentText
<1>8. PhaseOK'
  BY <1>1, <1>2, <1>3, <1>5, <1>6 DEF PhaseOK
<1> QED BY <1>7, <1>8 DEF PipelineInv

LEMMA InliningFailsKeeps ==
  ASSUME PipelineInv, NEW stage \in Stages, InliningFails(stage)
  PROVE  PipelineInv'
<1>1. UNCHANGED <<disk, tools, cache, source, cached, text, pre, raw, target, compiled>> /\ phase' \notin Working
  BY DEF InliningFails, Fail, Working
<1> QED BY <1>1, KeptByOthers

LEMMA AnswerKeeps ==
  ASSUME PipelineInv, Answer
  PROVE  PipelineInv'
<1>1. \A lines : Compilation(lines)' = Compilation(lines)
  BY SameTools DEF Answer
<1>2. UNCHANGED <<disk, source, cached, text>> /\ phase = "normalized" /\ phase' = "ready"
  BY DEF Answer
<1>3. pre = Preprocess(text) /\ compiled = [stages |-> [s \in Stages |-> NormalStage(text, s)], parameters |-> <<>>]
  BY <1>2 DEF PipelineInv, PhaseOK
<1>4. compiled' = Compilation(text)
  <2> DEFINE stages == [s \in Stages |-> NormalStage(text, s)]
  <2>1. compiled' = [compiled EXCEPT !.parameters = pre.parameters] /\ compiled = [stages |-> stages, parameters |-> <<>>]
    BY <1>3 DEF Answer
  <2> HIDE DEF stages
  <2>2. compiled' = [stages |-> stages, parameters |-> pre.parameters]
    BY <2>1
  <2> QED BY <1>3, <2>2, CompilationOfStages DEF stages
<1>5. CacheOK'
  <2>1. CASE ~ cached
    BY <1>1, <2>1 DEF Answer, PipelineInv, CacheOK
  <2>2. CASE cached
    <3>1. cache' = With(cache, Hash(text), Compilation(text)) /\ text \in Texts
      BY <1>2, <1>4, <2>2 DEF Answer, CacheKey, PipelineInv, RequestOK, Working
    <3>2. \A key \in DOMAIN cache' : \E t \in Texts : Hash(t) = key /\ cache'[key] = Compilation(t)
      BY <3>1 DEF With, PipelineInv, CacheOK
    <3> QED BY <1>1, <3>2 DEF CacheOK
  <2> QED BY <2>1, <2>2
<1>6. RequestOK'
  BY <1>2 DEF PipelineInv, RequestOK, Working, CurrentText
<1>7. PhaseOK'
  <2>1. text \in Alike(text)
    BY <1>2 DEF PipelineInv, RequestOK, Working, Alike
  <2>2. compiled' \in Answers(text)'
    BY <1>1, <1>2, <1>4, <2>1 DEF Answers
  <2> QED BY <1>2, <2>2 DEF PhaseOK
<1> QED BY <1>5, <1>6, <1>7 DEF PipelineInv

LEMMA EditFileKeeps ==
  ASSUME PipelineInv, EditFile
  PROVE  PipelineInv'
<1>1. \A lines : Compilation(lines)' = Compilation(lines)
  BY SameTools DEF EditFile
<1>2. phase \notin Working /\ UNCHANGED <<phase, cache>> /\ disk' \in Disks
  BY DEF EditFile, Resting, Working
<1>3. RequestOK' /\ CacheOK'
  BY <1>1, <1>2 DEF PipelineInv, RequestOK, CacheOK
<1>4. PhaseOK'
  BY <1>2 DEF PhaseOK, Working
<1> QED BY <1>3, <1>4 DEF PipelineInv

LEMMA PipelineKeeps ==
  ASSUME PipelineInv, [PipelineNext]_pipelineVars
  PROVE  PipelineInv'
<1>1. CASE EditFile
  BY <1>1, EditFileKeeps
<1>2. ASSUME NEW src \in Sources, NEW c \in BOOLEAN, Request(src, c) PROVE PipelineInv'
  BY <1>2, RequestKeeps
<1>3. ASSUME NEW s \in Stages, Normalize(s) \/ InliningFails(s) PROVE PipelineInv'
  BY <1>3, NormalizeKeeps, InliningFailsKeeps
<1>4. ASSUME NEW o \in Overrides, SetChain(o) PROVE PipelineInv'
  <2>1. UNCHANGED <<disk, tools, cache, source, cached, text, pre, raw, target, compiled>> /\ phase' \notin Working
    BY <1>4 DEF SetChain, front, Working
  <2> QED BY <2>1, KeptByOthers
<1>5. ASSUME NEW s \in Settings, SetParameter(s) PROVE PipelineInv'
  <2>1. UNCHANGED <<disk, tools, cache, source, cached, text, pre, raw, target, compiled, phase>>
    BY <1>5 DEF SetParameter, front
  <2> QED BY <2>1, KeptByOthers
<1>6. CASE Render
  <2>1. UNCHANGED <<disk, tools, cache, source, cached, text, pre, raw, target, compiled, phase>>
    BY <1>6 DEF Render, front
  <2> QED BY <2>1, KeptByOthers
<1>7. CASE UNCHANGED pipelineVars
  <2>1. UNCHANGED <<disk, tools, cache, source, cached, text, pre, raw, target, compiled, phase>>
    BY <1>7 DEF pipelineVars, front
  <2> QED BY <2>1, KeptByOthers
<1> QED BY <1>1, <1>2, <1>3, <1>4, <1>5, <1>6, <1>7, CacheHitKeeps, RunPreprocessKeeps, CompileStagesKeeps, AnswerKeeps
        DEF PipelineNext, Compile

\* Whatever was compiled before and whichever include changed since: an answer, from the
\* cache or not, is what compiling the source as the disk has it now would give
\* (CompileCache::get_or_compile, cache.rs:30), for any hash of texts: where two texts
\* have the same, the cache may answer with the other's.
THEOREM CacheNeverLies == PipelineSpec => []AnswersAreOfTheCurrentText
<1>1. PipelineInit => PipelineInv
  BY DEF PipelineInit, PipelineInv, RequestOK, CacheOK, PhaseOK, Working
<1>2. PipelineInv /\ [PipelineNext]_pipelineVars => PipelineInv'
  BY PipelineKeeps
<1>3. PipelineInv => AnswersAreOfTheCurrentText
  BY DEF PipelineInv, RequestOK, PhaseOK, Answers, AnswersAreOfTheCurrentText, Compiled, Working
<1> QED BY <1>1, <1>2, <1>3, PTL DEF PipelineSpec
=============================================================================
