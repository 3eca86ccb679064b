------------------------- MODULE GraphEditingProofs --------------------------
(***************************************************************************)
(* That whatever a document and the editor refer to is there, that         *)
(* references to passes follow them, and that edits change the inlined     *)
(* graph as they should: for any documents to start from, any nesting of   *)
(* subgraph nodes, any number of edits, undone and redone.                 *)
(*                                                                         *)
(* An edit changes the graph at the end of the path the author has drilled *)
(* into and may leave boundary ports of the subgraph node around it (and   *)
(* of no other) that lead nowhere.  The document is then Half-whole at     *)
(* that node.  Reconciling a node makes it whole and moves the fault one   *)
(* level up, so that writing back along the whole path ends with a whole   *)
(* document.  One lemma says of each edit that it leaves the document      *)
(* Half-whole, one of each pass operation that it leaves it whole.         *)
(*                                                                         *)
(* The recursive functions of the model (writing back, resolving an end of *)
(* an edge) are reasoned about by the least number for which a claim       *)
(* fails.  Where an end of an edge arrives is determined by two equations  *)
(* (EndUnfolds, EndIsUnique), so that what an edit does to the wires is    *)
(* shown by a function that satisfies them in the edited document.         *)
(***************************************************************************)
EXTENDS GraphEditing, SequenceTheorems, FiniteSetTheorems, WellFoundedInduction, TLAPS

\* Induction, in the form the provers can use: a set of numbers has a least one.
LEMMA LeastNumber ==
  ASSUME NEW S \in SUBSET Nat, S # {}
  PROVE  \E n \in S : \A m \in S : n <= m
<1> DEFINE Less == OpToRel(<, Nat)
<1>1. \A x, y \in Nat : x < y => <<x, y>> \in Less
  BY Zenon DEF OpToRel
<1>2. IsWellFoundedOn(Less, Nat)
  BY NatLessThanWellFounded
<1> HIDE DEF Less
<1>3. \E x \in S : \A y \in S : ~ (<<y, x>> \in Less)
  BY <1>2, WFMin
<1>4. PICK x \in S : \A y \in S : ~ (<<y, x>> \in Less)
  BY <1>3
<1>5. ASSUME NEW m \in S PROVE x <= m
  <2>1. ~ (m < x)
    BY <1>1, <1>4
  <2> QED BY <2>1
<1> QED BY <1>5

\* What is inside the nodes of S is in their tree, and nothing else.
LEMMA TreeIsClosed ==
  ASSUME NEW d, NEW S \in SUBSET Ids(d)
  PROVE  /\ S \subseteq Tree(d, S) /\ Tree(d, S) \subseteq Ids(d)
         /\ \A n \in Ids(d) : d.nodes[n].home \in Tree(d, S) => n \in Tree(d, S)
         /\ \A n \in Tree(d, S) : n \in S \/ d.nodes[n].home \in Tree(d, S)
<1> DEFINE Closed(T) == S \subseteq T /\ \A n \in Ids(d) : d.nodes[n].home \in T => n \in T
<1>1. \A n : n \in Tree(d, S) <=> n \in Ids(d) /\ \A T \in SUBSET Ids(d) : Closed(T) => n \in T
  BY DEF Tree
<1>2. Closed(Tree(d, S)) /\ Tree(d, S) \subseteq Ids(d)
  BY <1>1
<1>3. ASSUME NEW n \in Tree(d, S), n \notin S, d.nodes[n].home \notin Tree(d, S)
      PROVE  FALSE
  <2> DEFINE T == Tree(d, S) \ {n}
  <2>1. Closed(T)
    BY <1>2, <1>3
  <2>2. T \in SUBSET Ids(d)
    BY <1>2
  <2> QED BY <1>1, <2>1, <2>2
<1> QED BY <1>2, <1>3

-----------------------------------------------------------------------------
(* Paths, and what an edit may break. *)

\* The path leads from the pass a through nested subgraph nodes.
PathOpens(d, a, path) ==
  \A k \in 1..Len(path) : /\ IsSub(d, path[k])
                          /\ d.nodes[path[k]].home = IF k = 1 THEN a ELSE path[k-1]

\* The graph at depth k of the path.
GraphAt(a, path, k) == IF k = 0 THEN a ELSE path[k]

\* A whole document but for boundary ports of g that may lead nowhere.
Half(d, g) ==
  /\ d \in Documents(Ids(d)) /\ Ids(d) \subseteq NodeIds
  /\ d.passes # <<>> /\ IsInjective(d.passes) /\ d.code \subseteq Range(d.passes)
  /\ d.feedbackPass \in {None, DANGLING_INDEX} \cup (0..Len(d.passes)-1)
  /\ IsFiniteSet(d.edges)
  /\ NestingOK(d) /\ EdgesOK(d) /\ DrawnOK(d)
  /\ \A bp \in d.ports : IsSub(d, bp.sub) /\ (bp.sub # g => EndpointLives(d, bp))

\* validPath gives a path that opens, and leaves one that does as it is.
LEMMA ValidPathOpens ==
  ASSUME NEW d, NEW a, NEW path \in Seq(NodeIds)
  PROVE  /\ ValidPath(d, a, path) \in Seq(NodeIds)
         /\ PathOpens(d, a, ValidPath(d, a, path))
         /\ PathOpens(d, a, path) => ValidPath(d, a, path) = path
<1> DEFINE opens(k) == /\ IsSub(d, path[k])
                       /\ d.nodes[path[k]].home = IF k = 1 THEN a ELSE path[k-1]
           K == {k \in 0..Len(path) : \A i \in 1..k : opens(i)}
           valid == Max(K)
<1>1. valid \in K /\ \A k \in K : k <= valid
  <2> DEFINE B == {Len(path) - k : k \in K}
  <2>1. B \in SUBSET Nat /\ Len(path) - 0 \in B
    <3>1. 0 \in K
      OBVIOUS
    <3> QED BY <3>1
  <2>2. PICK b \in B : \A c \in B : b <= c
    BY <2>1, LeastNumber
  <2>3. PICK k \in K : b = Len(path) - k
    BY <2>2
  <2>4. \A j \in K : j <= k
    <3> TAKE j \in K
    <3>1. b <= Len(path) - j
      BY <2>2
    <3> QED BY <2>3, <3>1
  <2>5. K \subseteq Nat
    OBVIOUS
  <2> HIDE DEF K
  <2> QED BY <2>4, <2>5 DEF Max
<1>2. ValidPath(d, a, path) = SubSeq(path, 1, valid)
  BY DEF ValidPath
<1>3. valid \in 0..Len(path) /\ \A i \in 1..valid : opens(i)
  BY <1>1
<1>4. (\A i \in 1..Len(path) : opens(i)) => valid = Len(path)
  <2> SUFFICES ASSUME \A i \in 1..Len(path) : opens(i) PROVE valid = Len(path)
    OBVIOUS
  <2>1. Len(path) \in K
    OBVIOUS
  <2> QED BY <2>1, <1>1, <1>3
<1> HIDE DEF valid
<1>5. /\ SubSeq(path, 1, valid) \in Seq(NodeIds) /\ Len(SubSeq(path, 1, valid)) = valid
      /\ \A i \in 1..valid : SubSeq(path, 1, valid)[i] = path[i]
  BY <1>3
<1>6. PathOpens(d, a, SubSeq(path, 1, valid))
  <2> SUFFICES ASSUME NEW k \in 1..valid
               PROVE  /\ IsSub(d, SubSeq(path, 1, valid)[k])
                      /\ d.nodes[SubSeq(path, 1, valid)[k]].home = IF k = 1 THEN a ELSE SubSeq(path, 1, valid)[k-1]
    BY <1>5 DEF PathOpens
  <2>1. opens(k)
    BY <1>3
  <2>2. k # 1 => SubSeq(path, 1, valid)[k-1] = path[k-1]
    BY <1>3, <1>5
  <2> HIDE DEF IsSub
  <2> QED BY <2>1, <2>2, <1>5
<1>7. PathOpens(d, a, path) => SubSeq(path, 1, valid) = path
  BY <1>4 DEF PathOpens
<1> QED BY <1>2, <1>5, <1>6, <1>7

\* No node of the path is in the graph the path leads to: it is around it.
LEMMA PathIsAbove ==
  ASSUME NEW d, NestingOK(d), NEW a, NEW path \in Seq(NodeIds), PathOpens(d, a, path),
         a \notin NodeIds, NEW k \in 1..Len(path)
  PROVE  d.nodes[path[k]].home # GraphAt(a, path, Len(path))
<1> SUFFICES ASSUME d.nodes[path[k]].home = path[Len(path)] PROVE FALSE
  BY DEF GraphAt
<1> DEFINE A == {path[j] : j \in k..Len(path)}
<1>1. A \in SUBSET Ids(d)
  BY DEF PathOpens, IsSub
<1>2. path[k] \in A /\ path[Len(path)] \in A
  OBVIOUS
<1>3. ASSUME NEW n \in A PROVE d.nodes[n].home \in A
  <2>1. PICK j \in k..Len(path) : n = path[j]
    BY <1>3
  <2>2. CASE j = k
    BY <1>2, <2>1, <2>2
  <2>3. CASE j # k
    <3>1. j-1 \in k..Len(path) /\ d.nodes[path[j]].home = path[j-1]
      BY <2>1, <2>3 DEF PathOpens
    <3> QED BY <3>1, <2>1
  <2> QED BY <2>2, <2>3
<1> QED BY <1>1, <1>2, <1>3 DEF NestingOK

\* reconcileBoundaryPorts with pruneExteriorEdges mends s and may break only
\* the graph around it, whose boundary may name the ports of s that went.
LEMMA ReconcileMovesUp ==
  ASSUME NEW d, NEW s, IsSub(d, s), Half(d, s)
  PROVE  LET r == Reconcile(d, s)
         IN  /\ Half(r, d.nodes[s].home)
             /\ r.nodes = d.nodes /\ r.passes = d.passes /\ r.code = d.code
<1> DEFINE r == Reconcile(d, s)
           pruned == {bp \in d.ports : bp.sub = s /\ ~EndpointLives(d, bp)}
           names == {bp.name : bp \in pruned}
           edges == {e \in d.edges : /\ ~(e.dst = s /\ e.dp \in names)
                                     /\ ~(e.src = s /\ e.sp \in names)}
<1>1. /\ r.nodes = d.nodes /\ r.passes = d.passes /\ r.code = d.code
      /\ r.feedbackPass = d.feedbackPass /\ r.edges = edges /\ r.ports = d.ports \ pruned
      /\ r \in Documents(Ids(d))
  BY DEF Reconcile, Half, Documents
<1>2. Ids(r) = Ids(d) /\ (\A n : IsSub(r, n) = IsSub(d, n))
  BY <1>1 DEF Ids, IsSub
<1>3. IsFiniteSet(r.edges)
  BY <1>1, FS_Subset DEF Half
<1>4. NestingOK(r)
  BY <1>1, <1>2 DEF Half, NestingOK
<1>5. \A n, dir : n # s => Ports(r, n, dir) = Ports(d, n, dir)
  BY <1>1 DEF Ports
<1>6. \A dir, p : p \in Ports(d, s, dir) /\ p \notin names => p \in Ports(r, s, dir)
  BY <1>1 DEF Ports, IsSub
<1>7. EdgesOK(r)
  <2> SUFFICES ASSUME NEW e \in edges
               PROVE  /\ e.src \in Ids(r) /\ e.dst \in Ids(r)
                      /\ r.nodes[e.src].home = r.nodes[e.dst].home
                      /\ e.sp \in Ports(r, e.src, "out") /\ e.dp \in Ports(r, e.dst, "in")
    BY <1>1 DEF EdgesOK
  <2>1. /\ e.src \in Ids(d) /\ e.dst \in Ids(d)
        /\ d.nodes[e.src].home = d.nodes[e.dst].home
        /\ e.sp \in Ports(d, e.src, "out") /\ e.dp \in Ports(d, e.dst, "in")
    BY DEF Half, EdgesOK
  <2> QED BY <1>1, <1>2, <1>5, <1>6, <2>1
<1>8. ASSUME NEW bp \in r.ports, bp.sub # d.nodes[s].home PROVE EndpointLives(r, bp)
  <2>1. EndpointLives(d, bp)
    BY <1>1, <1>8 DEF Half
  <2>2. bp.node # s
    BY <2>1, <1>8 DEF EndpointLives, In
  <2> QED BY <1>1, <1>2, <1>5, <2>1, <2>2 DEF EndpointLives, In
<1>9. DrawnOK(r)
  BY <1>1 DEF Half, DrawnOK
<1> QED BY <1>1, <1>2, <1>3, <1>4, <1>7, <1>8, <1>9 DEF Half

\* The recursive function of ReplaceGraph exists.
LEMMA ReplacementEnds ==
  ASSUME NEW d, NEW path, Len(path) \in Nat
  PROVE  \E up : /\ up = [k \in 0..Len(path) |->
                            IF k = 0 THEN d ELSE Reconcile(up[k-1], path[Len(path) + 1 - k])]
                 /\ ReplaceGraph(d, path) = up[Len(path)]
<1> DEFINE Step(g, n) == g = [k \in 0..n |-> IF k = 0 THEN d ELSE Reconcile(g[k-1], path[Len(path) + 1 - k])]
           Bad == {n \in Nat : ~ \E g : Step(g, n)}
<1>1. ASSUME Bad # {} PROVE FALSE
  <2>1. PICK n \in Bad : \A m \in Bad : n <= m
    BY <1>1, LeastNumber, Zenon
  <2>2. CASE n = 0
    <3>1. Step([k \in 0..0 |-> d], 0)
      OBVIOUS
    <3> QED BY <3>1, <2>2
  <2>3. CASE n # 0
    <3>1. n \in Nat
      BY <2>1
    <3> HIDE DEF Bad
    <3>2. n - 1 \in Nat /\ n - 1 \notin Bad
      BY <2>1, <2>3, <3>1
    <3> USE DEF Bad
    <3>3. n - 1 \in Nat /\ n - 1 \notin Bad
      BY <3>2, Zenon
    <3>4. PICK g : Step(g, n - 1)
      BY <3>3
    <3> DEFINE h == [k \in 0..n |-> IF k = n THEN Reconcile(g[n-1], path[Len(path) + 1 - n]) ELSE g[k]]
    <3>5. ASSUME NEW k \in 0..n
          PROVE  h[k] = IF k = 0 THEN d ELSE Reconcile(h[k-1], path[Len(path) + 1 - k])
      <4>1. CASE k = n
        <5>1. h[k-1] = g[n-1]
          BY <4>1, <2>3
        <5> QED BY <4>1, <5>1, <2>3
      <4>2. CASE k # n
        <5>1. k \in 0..n-1 /\ (k # 0 => k-1 \in 0..n-1 /\ k-1 # n /\ k-1 \in 0..n)
          BY <4>2
        <5>2. g[k] = IF k = 0 THEN d ELSE Reconcile(g[k-1], path[Len(path) + 1 - k])
          BY <3>4, <5>1
        <5> QED BY <4>2, <5>1, <5>2
      <4> QED BY <4>1, <4>2
    <3>6. Step(h, n)
      BY <3>5
    <3> QED BY <3>6
  <2> QED BY <2>2, <2>3
<1> DEFINE up == CHOOSE g : g = [k \in 0..Len(path) |->
                   IF k = 0 THEN d ELSE Reconcile(g[k-1], path[Len(path) + 1 - k])]
<1>2. \E g : Step(g, Len(path))
  BY <1>1
<1>3. Step(up, Len(path))
  BY <1>2
<1>4. ReplaceGraph(d, path) = up[Len(path)]
  BY DEF ReplaceGraph
<1> QED BY <1>3, <1>4

\* replaceGraph: after the last level of the path the document is whole.
LEMMA ReplaceGraphMends ==
  ASSUME NEW d, NEW a, a \notin NodeIds, NEW path \in Seq(NodeIds), PathOpens(d, a, path),
         Half(d, GraphAt(a, path, Len(path)))
  PROVE  LET r == ReplaceGraph(d, path)
         IN  /\ DocumentOK(r)
             /\ r.nodes = d.nodes /\ r.passes = d.passes /\ r.code = d.code
<1>1. PICK up : /\ up = [k \in 0..Len(path) |->
                            IF k = 0 THEN d ELSE Reconcile(up[k-1], path[Len(path) + 1 - k])]
                /\ ReplaceGraph(d, path) = up[Len(path)]
  BY ReplacementEnds
<1> DEFINE Mended(k) == /\ Half(up[k], GraphAt(a, path, Len(path) - k))
                        /\ up[k].nodes = d.nodes /\ up[k].passes = d.passes /\ up[k].code = d.code
           Bad == {k \in 0..Len(path) : ~Mended(k)}
<1>2. ASSUME Bad # {} PROVE FALSE
  <2>0. Bad \in SUBSET Nat
    BY SMT
  <2>1. PICK k \in Bad : \A m \in Bad : k <= m
    BY <1>2, <2>0, LeastNumber, Zenon
  <2>2. k # 0
    <3>1. up[0] = d
      BY <1>1
    <3> QED BY <3>1
  <2>3. k - 1 \in 0..Len(path) /\ k - 1 \notin Bad
    BY <2>1, <2>2
  <2> DEFINE s == path[Len(path) + 1 - k]
  <2>4. up[k] = Reconcile(up[k-1], s)
    BY <1>1, <2>1, <2>2
  <2>5. Mended(k-1)
    BY <2>3
  <2>6. GraphAt(a, path, Len(path) - (k-1)) = s
    BY <2>1, <2>2 DEF GraphAt
  <2>7. IsSub(up[k-1], s) /\ up[k-1].nodes[s].home = GraphAt(a, path, Len(path) - k)
    <3>1. Len(path) + 1 - k \in 1..Len(path)
      BY <2>1, <2>2
    <3>2. IsSub(d, s) /\ d.nodes[s].home = GraphAt(a, path, Len(path) - k)
      BY <3>1 DEF PathOpens, GraphAt
    <3> QED BY <3>2, <2>5 DEF IsSub, Ids
  <2>8. Half(up[k-1], s)
    BY <2>5, <2>6
  <2>9. Mended(k)
    BY <2>4, <2>5, <2>7, <2>8, ReconcileMovesUp
  <2> QED BY <2>9
<1>3. Mended(Len(path))
  BY <1>2
<1>4. Half(up[Len(path)], a)
  BY <1>3 DEF GraphAt
<1>5. \A bp \in up[Len(path)].ports : bp.sub # a
  BY <1>4 DEF Half, IsSub
<1> QED BY <1>1, <1>3, <1>4, <1>5 DEF DocumentOK, Half, PortsOK

\* The recursive function of Resolve exists.
LEMMA ResolutionEnds ==
  ASSUME NEW d, NEW x, NEW p, NEW dir, Cardinality(Ids(d)) \in Nat
  PROVE  \E at : /\ at = [k \in 0..Cardinality(Ids(d)) |->
                            IF k = 0 THEN <<x, p>>
                            ELSE IF IsSub(d, at[k-1][1]) THEN Inward(d, at[k-1], dir) ELSE at[k-1]]
                 /\ Resolve(d, x, p, dir) = at[Cardinality(Ids(d))]
<1> DEFINE Follow(e) == IF IsSub(d, e[1]) THEN Inward(d, e, dir) ELSE e
           Step(g, n) == g = [k \in 0..n |-> IF k = 0 THEN <<x, p>> ELSE Follow(g[k-1])]
           Bad == {n \in Nat : ~ \E g : Step(g, n)}
<1>1. ASSUME Bad # {} PROVE FALSE
  <2> HIDE DEF Follow
  <2>1. PICK n \in Bad : \A m \in Bad : n <= m
    BY <1>1, LeastNumber, Zenon
  <2>2. CASE n = 0
    <3>1. Step([k \in 0..0 |-> <<x, p>>], 0)
      OBVIOUS
    <3> QED BY <3>1, <2>2
  <2>3. CASE n # 0
    <3>1. n \in Nat
      BY <2>1
    <3> HIDE DEF Bad
    <3>2. n - 1 \in Nat /\ n - 1 \notin Bad
      BY <2>1, <2>3, <3>1
    <3> USE DEF Bad
    <3>3. n - 1 \in Nat /\ n - 1 \notin Bad
      BY <3>2, Zenon
    <3>4. PICK g : Step(g, n - 1)
      BY <3>3
    <3> DEFINE h == [k \in 0..n |-> IF k = n THEN Follow(g[n-1]) ELSE g[k]]
    <3>5. ASSUME NEW k \in 0..n
          PROVE  h[k] = IF k = 0 THEN <<x, p>> ELSE Follow(h[k-1])
      <4>1. CASE k = n
        <5>1. h[k-1] = g[n-1]
          BY <4>1, <2>3
        <5> QED BY <4>1, <5>1, <2>3
      <4>2. CASE k # n
        <5>1. k \in 0..n-1 /\ (k # 0 => k-1 \in 0..n-1 /\ k-1 # n /\ k-1 \in 0..n)
          BY <4>2
        <5>2. g[k] = IF k = 0 THEN <<x, p>> ELSE Follow(g[k-1])
          BY <3>4, <5>1
        <5> QED BY <4>2, <5>1, <5>2
      <4> QED BY <4>1, <4>2
    <3>6. Step(h, n)
      BY <3>5
    <3> QED BY <3>6
  <2> QED BY <2>2, <2>3
<1> DEFINE at == CHOOSE g : g = [k \in 0..Cardinality(Ids(d)) |->
                   IF k = 0 THEN <<x, p>>
                   ELSE IF IsSub(d, g[k-1][1]) THEN Inward(d, g[k-1], dir) ELSE g[k-1]]
<1>2. \E g : Step(g, Cardinality(Ids(d)))
  BY <1>1
<1>3. Step(at, Cardinality(Ids(d)))
  BY <1>2
<1>4. Resolve(d, x, p, dir) = at[Cardinality(Ids(d))]
  BY DEF Resolve
<1> QED BY <1>3, <1>4

\* A boundary port leads one level down, to a port that is there.
LEMMA InwardArrives ==
  ASSUME NEW d, DocumentOK(d), NEW dir, NEW e, IsSub(d, e[1]), e[2] \in Ports(d, e[1], dir)
  PROVE  LET i == Inward(d, e, dir)
         IN  i[1] \in Ids(d) /\ d.nodes[i[1]].home = e[1] /\ i[2] \in Ports(d, i[1], dir)
<1> DEFINE bound == {bp \in d.ports : bp.sub = e[1] /\ bp.name = e[2] /\ bp.dir = dir}
           b == CHOOSE bp \in bound : TRUE
<1>1. bound # {}
  <2>1. Ports(d, e[1], dir) = {bp.name : bp \in {bp \in d.ports : bp.sub = e[1] /\ bp.dir = dir}}
    BY DEF Ports, IsSub
  <2> QED BY <2>1
<1>2. b \in bound
  BY <1>1
<1>3. EndpointLives(d, b) /\ b.sub = e[1] /\ b.dir = dir
  BY <1>2 DEF DocumentOK, PortsOK
<1>4. Inward(d, e, dir) = <<b.node, b.port>>
  BY <1>1 DEF Inward
<1> QED BY <1>3, <1>4 DEF EndpointLives, In

\* Following boundary ports from any offered port ends at a primitive node:
\* every step goes one level down, and there are as many levels as nodes at
\* most.
LEMMA EndsArePrimitive ==
  ASSUME NEW d, DocumentOK(d), NEW dir, NEW x \in Ids(d), NEW p \in Ports(d, x, dir)
  PROVE  Resolve(d, x, p, dir)[1] \in Primitives(d)
<1> DEFINE N == Cardinality(Ids(d))
<1>1. IsFiniteSet(Ids(d)) /\ N \in Nat
  BY IdsAssumption, FS_Subset, FS_CardinalityType DEF DocumentOK
<1>2. PICK at : /\ at = [k \in 0..N |->
                            IF k = 0 THEN <<x, p>>
                            ELSE IF IsSub(d, at[k-1][1]) THEN Inward(d, at[k-1], dir) ELSE at[k-1]]
                /\ Resolve(d, x, p, dir) = at[N]
  BY <1>1, ResolutionEnds
<1> HIDE DEF N
<1>3. /\ at[0] = <<x, p>>
      /\ \A k \in 0..N : k # 0 => at[k] = IF IsSub(d, at[k-1][1]) THEN Inward(d, at[k-1], dir) ELSE at[k-1]
  <2>1. 0 \in 0..N
    BY <1>1
  <2>2. at = [k \in 0..N |-> IF k = 0 THEN <<x, p>>
                ELSE IF IsSub(d, at[k-1][1]) THEN Inward(d, at[k-1], dir) ELSE at[k-1]]
    BY <1>2
  <2>3. at[0] = <<x, p>>
    BY ONLY <2>1, <2>2
  <2>4. \A k \in 0..N : k # 0 => at[k] = IF IsSub(d, at[k-1][1]) THEN Inward(d, at[k-1], dir) ELSE at[k-1]
    BY ONLY <2>2, Zenon
  <2> QED BY <2>3, <2>4
<1>4. \A k \in 0..N : at[k][1] \in Ids(d) /\ at[k][2] \in Ports(d, at[k][1], dir)
  <2> DEFINE Bad == {k \in 0..N : ~(at[k][1] \in Ids(d) /\ at[k][2] \in Ports(d, at[k][1], dir))}
  <2>1. Bad \in SUBSET Nat
    BY <1>1
  <2>2. ASSUME Bad # {} PROVE FALSE
    <3>1. PICK k \in Bad : \A m \in Bad : k <= m
      BY <2>1, <2>2, LeastNumber, Zenon
    <3>2. k # 0
      BY <1>3
    <3>3. k \in 0..N /\ k - 1 \in 0..N /\ k - 1 \notin Bad
      BY <3>1, <3>2, <1>1
    <3>4. at[k-1][1] \in Ids(d) /\ at[k-1][2] \in Ports(d, at[k-1][1], dir)
      BY <3>3
    <3>5. at[k] = IF IsSub(d, at[k-1][1]) THEN Inward(d, at[k-1], dir) ELSE at[k-1]
      BY <3>2, <3>3, <1>3
    <3>6. at[k][1] \in Ids(d) /\ at[k][2] \in Ports(d, at[k][1], dir)
      BY <3>4, <3>5, InwardArrives
    <3> QED BY <3>1, <3>6
  <2> QED BY <2>2
<1>5. SUFFICES ASSUME IsSub(d, at[N][1]) PROVE FALSE
  <2>1. at[N][1] \in Ids(d)
    BY <1>1, <1>4
  <2> QED BY <1>2, <2>1 DEF Primitives, IsSub
<1>6. \A k \in 0..N : IsSub(d, at[k][1])
  <2> SUFFICES ASSUME NEW k \in 0..N, ~IsSub(d, at[k][1]) PROVE FALSE
    OBVIOUS
  <2> DEFINE Bad == {m \in k..N : at[m] # at[k]}
  <2>1. Bad \in SUBSET Nat /\ N \in Bad
    BY <1>1, <1>5
  <2>2. PICK m \in Bad : \A j \in Bad : m <= j
    BY <2>1, LeastNumber, Zenon
  <2>3. m \in k..N /\ at[m] # at[k]
    BY <2>2
  <2>4. m # k /\ m - 1 \in k..N /\ m - 1 \notin Bad /\ m \in 0..N /\ m # 0
    BY <2>2, <2>3, <1>1
  <2>5. at[m-1] = at[k]
    BY <2>4
  <2> QED BY <2>3, <2>4, <2>5, <1>3
<1>7. \A k \in 0..N : k # 0 => d.nodes[at[k][1]].home = at[k-1][1]
  <2> SUFFICES ASSUME NEW k \in 0..N, k # 0 PROVE d.nodes[at[k][1]].home = at[k-1][1]
    OBVIOUS
  <2>1. k - 1 \in 0..N
    BY <1>1
  <2>2. at[k] = Inward(d, at[k-1], dir)
    BY <2>1, <1>3, <1>6
  <2> QED BY <2>1, <2>2, <1>4, <1>6, InwardArrives
<1>8. ASSUME NEW i \in 0..N, NEW j \in 0..N, i < j PROVE at[i][1] # at[j][1]
  <2> SUFFICES ASSUME at[i][1] = at[j][1] PROVE FALSE
    OBVIOUS
  <2> DEFINE A == {at[m][1] : m \in i+1..j}
  <2>1. A \in SUBSET Ids(d) /\ at[j][1] \in A
    BY <1>1, <1>4, <1>8
  <2>2. ASSUME NEW n \in A PROVE d.nodes[n].home \in A
    <3>1. PICK m \in i+1..j : n = at[m][1]
      BY <2>2
    <3>2. m \in 0..N /\ m # 0 /\ d.nodes[n].home = at[m-1][1]
      BY <3>1, <1>1, <1>7
    <3>3. m = i + 1 \/ m - 1 \in i+1..j
      BY <3>1, <1>1
    <3> QED BY <3>2, <3>3, <2>1
  <2> QED BY <2>1, <2>2 DEF DocumentOK, NestingOK
<1>9. IsFiniteSet(0..N) /\ Cardinality(0..N) = N + 1
  BY <1>1, FS_Interval
<1> DEFINE f == [k \in 0..N |-> at[k][1]]
<1>10. f \in [0..N -> Ids(d)]
  BY <1>4
<1>11. \E i, j \in 0..N : i # j /\ f[i] = f[j]
  <2>1. Cardinality(Ids(d)) < Cardinality(0..N)
    BY <1>1, <1>9 DEF N
  <2> HIDE DEF f
  <2> QED BY <2>1, <1>1, <1>9, <1>10, FS_PigeonHole
<1> QED BY <1>8, <1>11, <1>1

-----------------------------------------------------------------------------
(* The edits of a graph. *)

\* The graph of a pass or of a subgraph node in it is open.
Opened(d, a, path) ==
  /\ DocumentOK(d) /\ a \in Range(d.passes) \ d.code
  /\ path \in Seq(NodeIds) /\ PathOpens(d, a, path)

\* What an edit at that graph makes of the document, before it is written back.
Edited(d, next, a, path) ==
  /\ Half(next, GraphAt(a, path, Len(path))) /\ PathOpens(next, a, path)
  /\ next.passes = d.passes /\ next.code = d.code

\* A pass is no node.
LEMMA PassesAreNoNodes ==
  ASSUME NEW d, DocumentOK(d)
  PROVE  Range(d.passes) \subseteq PassIds /\ Range(d.passes) \cap NodeIds = {}
<1>1. d.passes \in Seq(PassIds)
  BY DEF DocumentOK, Documents
<1>2. \A i \in DOMAIN d.passes : d.passes[i] \in PassIds
  BY <1>1
<1> QED BY <1>2, IdsAssumption DEF Range

\* The open graph is one, and the nodes of the path are not in it.
LEMMA OpenGraphIsOne ==
  ASSUME NEW d, NEW a, NEW path, Opened(d, a, path)
  PROVE  LET g == GraphAt(a, path, Len(path))
         IN  /\ a \notin NodeIds
             /\ g \in (Range(d.passes) \ d.code) \cup {s \in Ids(d) : IsSub(d, s)}
             /\ g \in NodeIds \cup PassIds
             /\ \A k \in 1..Len(path) : path[k] \in Ids(d) /\ d.nodes[path[k]].home # g /\ path[k] \notin In(d, g)
<1> DEFINE g == GraphAt(a, path, Len(path))
<1>1. a \notin NodeIds
  BY PassesAreNoNodes DEF Opened
<1>2. Len(path) \in Nat
  BY DEF Opened
<1>3. Len(path) # 0 => Len(path) \in 1..Len(path)
  BY <1>2
<1>4. g \in (Range(d.passes) \ d.code) \cup {s \in Ids(d) : IsSub(d, s)}
  BY <1>3 DEF Opened, PathOpens, GraphAt, IsSub
<1>5. g \in NodeIds \cup PassIds
  BY <1>4, PassesAreNoNodes DEF Opened, DocumentOK
<1>6. ASSUME NEW k \in 1..Len(path) PROVE path[k] \in Ids(d) /\ d.nodes[path[k]].home # g
  BY <1>1, PathIsAbove DEF Opened, DocumentOK, PathOpens, IsSub
<1> QED BY <1>1, <1>4, <1>5, <1>6 DEF In

\* A path stays open when its nodes keep their kind and their place.
LEMMA PathStaysOpen ==
  ASSUME NEW d, NEW r, NEW a, NEW path, PathOpens(d, a, path),
         \A k \in 1..Len(path) : /\ path[k] \in Ids(r)
                                 /\ r.nodes[path[k]].kind = d.nodes[path[k]].kind
                                 /\ r.nodes[path[k]].home = d.nodes[path[k]].home
  PROVE  PathOpens(r, a, path)
BY DEF PathOpens, IsSub

\* Nesting is a matter of the nodes' kinds and places.
LEMMA NestingOfAlike ==
  ASSUME NEW d, NEW r, NestingOK(d), Ids(r) = Ids(d), r.passes = d.passes, r.code = d.code,
         \A n \in Ids(d) : r.nodes[n].home = d.nodes[n].home /\ r.nodes[n].kind = d.nodes[n].kind
  PROVE  NestingOK(r)
<1>1. \A n : IsSub(r, n) <=> IsSub(d, n)
  BY DEF IsSub
<1> QED BY <1>1 DEF NestingOK

\* The ports a node offers are a matter of its kind and its boundary.
LEMMA PortsOfAlike ==
  ASSUME NEW d, NEW r, r.ports = d.ports, NEW n, r.nodes[n].kind = d.nodes[n].kind, NEW dir
  PROVE  Ports(r, n, dir) = Ports(d, n, dir)
BY DEF Ports

\* One edge of EdgesOK.
EdgeOK(d, e) ==
  /\ e.src \in Ids(d) /\ e.dst \in Ids(d)
  /\ d.nodes[e.src].home = d.nodes[e.dst].home
  /\ e.sp \in Ports(d, e.src, "out") /\ e.dp \in Ports(d, e.dst, "in")

\* An edit that changes edges and what nodes carry, not where they are.
LEMMA AlikeIsEdited ==
  ASSUME NEW d, NEW r, NEW a, NEW path, Opened(d, a, path),
         r \in Documents(Ids(d)), Ids(r) = Ids(d),
         r.passes = d.passes, r.code = d.code, r.feedbackPass = d.feedbackPass, r.ports = d.ports,
         \A n \in Ids(d) : r.nodes[n].home = d.nodes[n].home /\ r.nodes[n].kind = d.nodes[n].kind,
         IsFiniteSet(r.edges), \A e \in r.edges : EdgeOK(d, e) /\ e.src # e.dst
  PROVE  Edited(d, r, a, path)
<1>1. NestingOK(r)
  BY NestingOfAlike DEF Opened, DocumentOK
<1>2. \A n \in Ids(d) : \A dir : Ports(r, n, dir) = Ports(d, n, dir)
  BY PortsOfAlike
<1>3. EdgesOK(r)
  BY <1>2 DEF EdgesOK, EdgeOK
<1>4. \A bp \in r.ports : IsSub(r, bp.sub) /\ EndpointLives(r, bp)
  BY <1>2 DEF Opened, DocumentOK, PortsOK, EndpointLives, In, IsSub
<1>5. PathOpens(r, a, path)
  BY PathStaysOpen DEF Opened, PathOpens, IsSub
<1>6. DrawnOK(r)
  BY DEF Opened, DocumentOK, DrawnOK
<1> QED BY <1>1, <1>3, <1>4, <1>5, <1>6 DEF Edited, Half, Opened, DocumentOK

\* addEdge within the open graph.
LEMMA AddEdgeKeeps ==
  ASSUME NEW d, NEW a, NEW path, Opened(d, a, path),
         NEW s \in In(d, GraphAt(a, path, Len(path))), NEW t \in In(d, GraphAt(a, path, Len(path))),
         NEW sp \in Ports(d, s, "out"), NEW tp \in Ports(d, t, "in"), s # t
  PROVE  Edited(d, [d EXCEPT !.edges = @ \cup {[src |-> s, sp |-> sp, dst |-> t, dp |-> tp]}], a, path)
<1> DEFINE e == [src |-> s, sp |-> sp, dst |-> t, dp |-> tp]
           r == [d EXCEPT !.edges = @ \cup {e}]
<1>1. \A n \in Ids(d), dir \in {"in", "out"} : Ports(d, n, dir) \subseteq Nat
  BY DEF Opened, DocumentOK, Documents, PortRecords, Ports
<1>2. e \in EdgeRecords
  BY <1>1 DEF EdgeRecords, In, Opened, DocumentOK
<1>3. /\ r.nodes = d.nodes /\ r.passes = d.passes /\ r.code = d.code /\ r.ports = d.ports
      /\ r.feedbackPass = d.feedbackPass /\ r.edges = d.edges \cup {e}
      /\ r \in Documents(Ids(d)) /\ Ids(r) = Ids(d)
  BY <1>2 DEF Opened, DocumentOK, Documents, Ids
<1>4. IsFiniteSet(d.edges \cup {e})
  <2>1. IsFiniteSet(d.edges) /\ IsFiniteSet({e})
    BY FS_Singleton DEF Opened, DocumentOK
  <2> QED BY <2>1, FS_Union
<1>5. \A x \in d.edges : EdgeOK(d, x) /\ x.src # x.dst
  BY DEF Opened, DocumentOK, EdgesOK, EdgeOK, DrawnOK
<1>6. EdgeOK(d, e) /\ e.src # e.dst
  BY DEF EdgeOK, In
<1> HIDE DEF r, e
<1>7. Edited(d, r, a, path)
  BY <1>3, <1>4, <1>5, <1>6, AlikeIsEdited
<1> QED BY <1>7 DEF r, e

\* An edge removed.
LEMMA RemoveEdgeKeeps ==
  ASSUME NEW d, NEW a, NEW path, Opened(d, a, path), NEW e
  PROVE  Edited(d, [d EXCEPT !.edges = @ \ {e}], a, path)
<1> DEFINE r == [d EXCEPT !.edges = @ \ {e}]
<1>1. /\ r.nodes = d.nodes /\ r.passes = d.passes /\ r.code = d.code /\ r.ports = d.ports
      /\ r.feedbackPass = d.feedbackPass /\ r.edges = d.edges \ {e}
      /\ r \in Documents(Ids(d)) /\ Ids(r) = Ids(d)
  BY DEF Opened, DocumentOK, Documents, Ids
<1>2. IsFiniteSet(r.edges)
  BY <1>1, FS_Subset DEF Opened, DocumentOK
<1>3. \A x \in r.edges : EdgeOK(d, x) /\ x.src # x.dst
  BY <1>1 DEF Opened, DocumentOK, EdgesOK, EdgeOK, DrawnOK
<1> HIDE DEF r
<1>4. Edited(d, r, a, path)
  BY <1>1, <1>2, <1>3, AlikeIsEdited
<1> QED BY <1>4 DEF r

\* The index of a sampler changed.
LEMMA SetIndexKeeps ==
  ASSUME NEW d, NEW a, NEW path, Opened(d, a, path), NEW n \in Ids(d), NEW i \in Int
  PROVE  Edited(d, [d EXCEPT !.nodes[n].index = i], a, path)
<1> DEFINE r == [d EXCEPT !.nodes[n].index = i]
<1>1. d.nodes \in [Ids(d) -> NodeRecords]
  BY DEF Opened, DocumentOK, Documents
<1>2. r.nodes = [d.nodes EXCEPT ![n].index = i]
  BY DEF Opened, DocumentOK, Documents
<1>3. r.nodes \in [Ids(d) -> NodeRecords]
  BY <1>1, <1>2 DEF NodeRecords
<1>4. /\ r.passes = d.passes /\ r.code = d.code /\ r.ports = d.ports
      /\ r.feedbackPass = d.feedbackPass /\ r.edges = d.edges
      /\ r \in Documents(Ids(d)) /\ Ids(r) = Ids(d)
  BY <1>2, <1>3 DEF Opened, DocumentOK, Documents, Ids
<1>5. \A m \in Ids(d) : r.nodes[m].home = d.nodes[m].home /\ r.nodes[m].kind = d.nodes[m].kind
  BY <1>1, <1>2 DEF NodeRecords
<1>6. IsFiniteSet(r.edges) /\ \A x \in r.edges : EdgeOK(d, x) /\ x.src # x.dst
  BY <1>4 DEF Opened, DocumentOK, EdgesOK, EdgeOK, DrawnOK
<1> HIDE DEF r
<1>7. Edited(d, r, a, path)
  BY <1>4, <1>5, <1>6, AlikeIsEdited
<1> QED BY <1>7 DEF r

\* A node added to the open graph.
LEMMA AddNodeKeeps ==
  ASSUME NEW d, NEW a, NEW path, Opened(d, a, path), NEW n \in NodeIds \ Ids(d),
         NEW kind \in {"op", "sampler"}
  PROVE  Edited(d, WithNode(d, n, [kind |-> kind, home |-> GraphAt(a, path, Len(path)), index |-> 0]), a, path)
<1> DEFINE g == GraphAt(a, path, Len(path))
           node == [kind |-> kind, home |-> g, index |-> 0]
           r == WithNode(d, n, node)
<1>1. d.nodes \in [Ids(d) -> NodeRecords] /\ Ids(d) \subseteq NodeIds
  BY DEF Opened, DocumentOK, Documents
<1>2. /\ g \in (Range(d.passes) \ d.code) \cup {s \in Ids(d) : IsSub(d, s)}
      /\ g \in NodeIds \cup PassIds
      /\ \A k \in 1..Len(path) : path[k] \in Ids(d)
      /\ Range(d.passes) \cap NodeIds = {}
  BY OpenGraphIsOne, PassesAreNoNodes DEF Opened
<1> HIDE DEF g
<1>3. node \in NodeRecords
  BY <1>2 DEF NodeRecords
<1>4. r.nodes = [m \in Ids(d) \cup {n} |-> IF m = n THEN node ELSE d.nodes[m]]
  BY <1>1 DEF Opened, DocumentOK, Documents, Ids, WithNode
<1>5. r.nodes \in [Ids(d) \cup {n} -> NodeRecords]
  BY <1>1, <1>3, <1>4
<1>6. /\ r.passes = d.passes /\ r.code = d.code /\ r.ports = d.ports
      /\ r.feedbackPass = d.feedbackPass /\ r.edges = d.edges
      /\ r \in Documents(Ids(d) \cup {n}) /\ Ids(r) = Ids(d) \cup {n} /\ Ids(r) \subseteq NodeIds
  BY <1>1, <1>4, <1>5 DEF Opened, DocumentOK, Documents, Ids, WithNode
<1>7. /\ \A m \in Ids(d) : r.nodes[m] = d.nodes[m]
      /\ r.nodes[n] = node
  BY <1>4
<1> HIDE DEF r
<1>8. NestingOK(r)
  <2>1. \A m \in Ids(r) : r.nodes[m].home \in (Range(r.passes) \ r.code) \cup {s \in Ids(r) : IsSub(r, s)}
    BY <1>2, <1>6, <1>7 DEF Opened, DocumentOK, NestingOK, IsSub
  <2>2. ASSUME NEW S \in SUBSET Ids(r), S # {}, \A m \in S : r.nodes[m].home \in S PROVE FALSE
    <3>1. \A m \in Ids(d) : d.nodes[m].home # n
      BY <1>2 DEF Opened, DocumentOK, NestingOK
    <3>2. \A m \in S \ {n} : d.nodes[m].home \in S \ {n}
      BY <1>6, <1>7, <2>2, <3>1
    <3>3. S \ {n} # {}
      BY <1>2, <1>7, <2>2
    <3>4. S \ {n} \in SUBSET Ids(d)
      BY <1>6
    <3> QED BY <3>2, <3>3, <3>4 DEF Opened, DocumentOK, NestingOK
  <2> QED BY <2>1, <2>2 DEF NestingOK
<1>9. \A m \in Ids(d) : \A dir : Ports(r, m, dir) = Ports(d, m, dir)
  BY <1>6, <1>7 DEF Ports
<1>10. EdgesOK(r)
  BY <1>6, <1>7, <1>9 DEF EdgesOK, Opened, DocumentOK
<1>11. \A bp \in r.ports : IsSub(r, bp.sub) /\ EndpointLives(r, bp)
  BY <1>6, <1>7, <1>9 DEF Opened, DocumentOK, PortsOK, EndpointLives, In, IsSub
<1>12. PathOpens(r, a, path)
  BY <1>2, <1>6, <1>7, PathStaysOpen DEF Opened
<1>13. DrawnOK(r)
  BY <1>6 DEF Opened, DocumentOK, DrawnOK
<1>14. Edited(d, r, a, path)
  BY <1>6, <1>8, <1>10, <1>11, <1>12, <1>13 DEF Edited, Half, Opened, DocumentOK
<1> QED BY <1>14 DEF r, g

\* Nodes of one graph removed with everything inside them: at most the
\* boundary of that graph is broken.
LEMMA WithoutKeeps ==
  ASSUME NEW d, DocumentOK(d), NEW g, NEW S \in SUBSET In(d, g)
  PROVE  LET r == Without(d, S)
         IN  /\ Half(r, g)
             /\ r.passes = d.passes /\ r.code = d.code
             /\ Ids(r) = Ids(d) \ Tree(d, S)
             /\ \A n \in Ids(r) : n \in Ids(d) /\ n \notin S /\ r.nodes[n] = d.nodes[n]
             /\ \A bp \in r.ports : bp \in d.ports
<1> DEFINE T == Tree(d, S)
           r == Without(d, S)
           edges == {e \in d.edges : e.src \notin T /\ e.dst \notin T}
           ports == {bp \in d.ports : bp.sub \notin T}
<1>1. /\ S \subseteq T /\ T \subseteq Ids(d)
      /\ \A n \in Ids(d) : d.nodes[n].home \in T => n \in T
      /\ \A n \in T : n \in S \/ d.nodes[n].home \in T
  <2>1. S \in SUBSET Ids(d)
    BY DEF In
  <2> QED BY <2>1, TreeIsClosed
<1> HIDE DEF T
<1>2. d.nodes \in [Ids(d) -> NodeRecords] /\ Ids(d) \subseteq NodeIds
  BY DEF DocumentOK, Documents
<1>3. r.nodes = [n \in Ids(d) \ T |-> d.nodes[n]]
  BY <1>2 DEF DocumentOK, Documents, Without, Restrict, T
<1>4. /\ r.passes = d.passes /\ r.code = d.code /\ r.feedbackPass = d.feedbackPass
      /\ r.edges = edges /\ r.ports = ports
  BY DEF DocumentOK, Documents, Without, T
<1>5. Ids(r) = Ids(d) \ T /\ \A n \in Ids(r) : r.nodes[n] = d.nodes[n]
  BY <1>3 DEF Ids
<1>6. r \in Documents(Ids(d) \ T)
  <2>1. r.nodes \in [Ids(d) \ T -> NodeRecords]
    BY <1>2, <1>3
  <2> QED BY <2>1, <1>4 DEF DocumentOK, Documents, Without
<1> HIDE DEF r
<1>7. IsFiniteSet(r.edges)
  BY <1>4, FS_Subset DEF DocumentOK
<1>8. \A n \in Ids(r) : IsSub(r, n) <=> IsSub(d, n)
  BY <1>5 DEF IsSub
<1>9. NestingOK(r)
  <2>1. \A n \in Ids(r) : r.nodes[n].home \in (Range(r.passes) \ r.code) \cup {s \in Ids(r) : IsSub(r, s)}
    BY <1>1, <1>4, <1>5, <1>8 DEF DocumentOK, NestingOK
  <2>2. ASSUME NEW U \in SUBSET Ids(r), U # {} PROVE \E n \in U : r.nodes[n].home \notin U
    BY <1>5, <2>2 DEF DocumentOK, NestingOK
  <2> QED BY <2>1, <2>2 DEF NestingOK
<1>10. \A n \in Ids(r) : \A dir : Ports(r, n, dir) = Ports(d, n, dir)
  <2> SUFFICES ASSUME NEW n \in Ids(r), NEW dir PROVE Ports(r, n, dir) = Ports(d, n, dir)
    OBVIOUS
  <2>1. r.nodes[n] = d.nodes[n] /\ n \notin T
    BY <1>5
  <2>2. \A bp : bp \in r.ports /\ bp.sub = n <=> bp \in d.ports /\ bp.sub = n
    BY <1>4, <2>1
  <2> QED BY <2>1, <2>2 DEF Ports
<1>11. EdgesOK(r)
  BY <1>4, <1>5, <1>10 DEF EdgesOK, DocumentOK
<1>12. ASSUME NEW bp \in r.ports
       PROVE  IsSub(r, bp.sub) /\ (bp.sub # g => EndpointLives(r, bp))
  <2>1. IsSub(d, bp.sub) /\ bp.sub \notin T /\ EndpointLives(d, bp)
    BY <1>4 DEF DocumentOK, PortsOK
  <2>2. IsSub(r, bp.sub)
    BY <1>5, <2>1 DEF IsSub
  <2>3. ASSUME bp.sub # g PROVE bp.node \notin T
    BY <1>1, <2>1, <2>3 DEF EndpointLives, In
  <2>4. ASSUME bp.sub # g PROVE EndpointLives(r, bp)
    <3>1. bp.node \in Ids(r)
      BY <1>5, <2>1, <2>3, <2>4 DEF EndpointLives, In
    <3> QED BY <1>5, <1>10, <2>1, <3>1 DEF EndpointLives, In
  <2> QED BY <2>2, <2>4
<1>13. DrawnOK(r)
  BY <1>4 DEF DocumentOK, DrawnOK
<1>14. Half(r, g)
  BY <1>2, <1>4, <1>5, <1>6, <1>7, <1>9, <1>11, <1>12, <1>13 DEF Half, DocumentOK
<1> QED BY <1>1, <1>4, <1>5, <1>14 DEF r, T

\* A path through none of the nodes S leads through none inside them either.
LEMMA PathIsNotInside ==
  ASSUME NEW d, NEW a, a \notin NodeIds, NEW path, Len(path) \in Nat, PathOpens(d, a, path),
         Ids(d) \subseteq NodeIds, NEW S \in SUBSET Ids(d), \A k \in 1..Len(path) : path[k] \notin S
  PROVE  \A k \in 1..Len(path) : path[k] \notin Tree(d, S)
<1> DEFINE Bad == {k \in 1..Len(path) : path[k] \in Tree(d, S)}
<1>1. Bad \in SUBSET Nat
  OBVIOUS
<1>2. ASSUME Bad # {} PROVE FALSE
  <2>1. PICK k \in Bad : \A m \in Bad : k <= m
    BY <1>1, <1>2, LeastNumber, Zenon
  <2>2. k \in 1..Len(path) /\ path[k] \in Tree(d, S)
    BY <2>1
  <2>3. d.nodes[path[k]].home \in Tree(d, S)
    BY <2>2, TreeIsClosed
  <2>4. k # 1
    BY <2>2, <2>3, TreeIsClosed DEF PathOpens
  <2>5. k - 1 \in 1..Len(path) /\ path[k-1] \in Tree(d, S)
    BY <2>2, <2>3, <2>4 DEF PathOpens
  <2>6. k - 1 \in Bad
    BY <2>5
  <2> HIDE DEF Bad
  <2> QED BY <2>1, <2>2, <2>6
<1> QED BY <1>2

\* Nodes of the open graph removed.
LEMMA RemoveNodesKeeps ==
  ASSUME NEW d, NEW a, NEW path, Opened(d, a, path),
         NEW S \in SUBSET In(d, GraphAt(a, path, Len(path)))
  PROVE  Edited(d, Without(d, S), a, path)
<1> DEFINE g == GraphAt(a, path, Len(path))
<1>1. /\ a \notin NodeIds
      /\ \A k \in 1..Len(path) : path[k] \in Ids(d) /\ path[k] \notin S
  BY OpenGraphIsOne
<1>2. S \in SUBSET Ids(d) /\ Ids(d) \subseteq NodeIds /\ Len(path) \in Nat
  BY DEF In, Opened, DocumentOK
<1>3. \A k \in 1..Len(path) : path[k] \notin Tree(d, S)
  BY <1>1, <1>2, PathIsNotInside DEF Opened
<1> HIDE DEF g
<1> DEFINE r == Without(d, S)
<1>4. /\ Half(r, g) /\ r.passes = d.passes /\ r.code = d.code
      /\ Ids(r) = Ids(d) \ Tree(d, S)
      /\ \A n \in Ids(r) : r.nodes[n] = d.nodes[n]
  BY WithoutKeeps DEF Opened, g
<1> HIDE DEF r
<1>5. PathOpens(r, a, path)
  BY <1>1, <1>3, <1>4, PathStaysOpen DEF Opened
<1> QED BY <1>4, <1>5 DEF Edited, g, r

\* There is an injection into a set that is large enough.
LEMMA InjectionExists ==
  ASSUME NEW S, NEW T, IsFiniteSet(S), IsFiniteSet(T), Cardinality(S) <= Cardinality(T)
  PROVE  \E f \in [S -> T] : IsInjective(f)
<1> DEFINE m == Cardinality(S)
           n == Cardinality(T)
<1>1. PICK b \in Bijection(1..m, S) : TRUE
  BY FS_CardinalityType DEF ExistsBijection
<1>2. PICK c \in Bijection(1..n, T) : TRUE
  BY FS_CardinalityType DEF ExistsBijection
<1>3. m \in Nat /\ n \in Nat /\ m <= n
  BY FS_CardinalityType
<1> HIDE DEF m, n
<1>4. b \in [1..m -> S] /\ \A x \in S : \E i \in 1..m : b[i] = x
  BY <1>1 DEF Bijection, Surjection
<1>5. c \in [1..n -> T] /\ \A i, j \in 1..n : c[i] = c[j] => i = j
  BY <1>2 DEF Bijection, Injection, IsInjective
<1> DEFINE place(x) == CHOOSE i \in 1..m : b[i] = x
           f == [x \in S |-> c[place(x)]]
<1>6. \A x \in S : place(x) \in 1..m /\ b[place(x)] = x
  BY <1>4
<1> HIDE DEF place
<1>7. \A x \in S : place(x) \in 1..n
  BY <1>3, <1>6
<1>8. f \in [S -> T]
  BY <1>5, <1>7
<1>9. \A x, y \in S : c[place(x)] = c[place(y)] => x = y
  BY <1>5, <1>6, <1>7
<1>10. IsInjective(f)
  BY <1>9 DEF IsInjective
<1> QED BY <1>8, <1>10

\* The image of a finite set is finite.
LEMMA ImageIsFinite ==
  ASSUME NEW S, IsFiniteSet(S), NEW f, DOMAIN f = S, f = [x \in S |-> f[x]]
  PROVE  IsFiniteSet({f[x] : x \in S})
<1> DEFINE T == {f[x] : x \in S}
<1>1. f \in [S -> T] /\ \A t \in T : \E x \in S : f[x] = t
  OBVIOUS
<1>2. f \in Surjection(S, T)
  BY <1>1 DEF Surjection
<1> QED BY <1>2, FS_Surjection

\* The edge e of r at the subgraph node s stands for c: it leads, through a
\* boundary port of s, to the end of c that is inside.
StandsFor(r, s, e, c) ==
  \/ /\ e.src = c.src /\ e.sp = c.sp /\ e.dst = s
     /\ \E bp \in r.ports : /\ bp.sub = s /\ bp.name = e.dp /\ bp.dir = "in"
                            /\ bp.node = c.dst /\ bp.port = c.dp
  \/ /\ e.dst = c.dst /\ e.dp = c.dp /\ e.src = s
     /\ \E bp \in r.ports : /\ bp.sub = s /\ bp.name = e.sp /\ bp.dir = "out"
                            /\ bp.node = c.src /\ bp.port = c.sp

\* r is d with some of its nodes inside the subgraph node s.
Grouped(d, r, s) ==
  /\ Ids(r) = Ids(d) \cup {s} /\ s \notin Ids(d) /\ IsSub(r, s)
  /\ \A n \in Ids(d) : r.nodes[n].kind = d.nodes[n].kind
  /\ \A bp : bp \in d.ports <=> bp \in r.ports /\ bp.sub # s
  /\ \A e \in r.edges : e \in d.edges \/ \E c \in d.edges : StandsFor(r, s, e, c)
  /\ \A c \in d.edges : c \in r.edges \/ \E e \in r.edges : StandsFor(r, s, e, c)

\* collapseSelection: a node around a selection of the open graph.
LEMMA CollapseKeeps ==
  ASSUME NEW d, NEW a, NEW path, Opened(d, a, path),
         NEW S \in SUBSET In(d, GraphAt(a, path, Len(path))), S # {}, NEW s \in NodeIds \ Ids(d)
  PROVE  /\ Edited(d, CollapseSelection(d, S, s), a, path)
         /\ Grouped(d, CollapseSelection(d, S, s), s)
<1> DEFINE g == GraphAt(a, path, Len(path))
           crossing == {e \in d.edges : (e.src \in S) # (e.dst \in S)}
           name == CHOOSE f \in [crossing -> 1..Cardinality(crossing)] : IsInjective(f)
           port(e) == IF e.dst \in S
                      THEN [sub |-> s, name |-> name[e], dir |-> "in", node |-> e.dst, port |-> e.dp]
                      ELSE [sub |-> s, name |-> name[e], dir |-> "out", node |-> e.src, port |-> e.sp]
           rewired(e) == IF e.dst \in S THEN [e EXCEPT !.dst = s, !.dp = name[e]]
                         ELSE [e EXCEPT !.src = s, !.sp = name[e]]
           home == d.nodes[CHOOSE m \in S : TRUE].home
           nodes == [n \in Ids(d) \cup {s} |->
                      IF n = s THEN [kind |-> "sub", home |-> home, index |-> 0]
                      ELSE IF n \in S THEN [d.nodes[n] EXCEPT !.home = s] ELSE d.nodes[n]]
           edges == (d.edges \ crossing) \cup {rewired(e) : e \in crossing}
           ports == d.ports \cup {port(e) : e \in crossing}
           r == CollapseSelection(d, S, s)
<1>1. /\ d.nodes \in [Ids(d) -> NodeRecords] /\ Ids(d) \subseteq NodeIds
      /\ d.edges \subseteq EdgeRecords /\ d.ports \subseteq PortRecords
  BY DEF Opened, DocumentOK, Documents
<1>2. /\ g \in (Range(d.passes) \ d.code) \cup {n \in Ids(d) : IsSub(d, n)}
      /\ g \in NodeIds \cup PassIds
      /\ \A k \in 1..Len(path) : path[k] \in Ids(d) /\ path[k] \notin S
      /\ Range(d.passes) \cap NodeIds = {}
  BY OpenGraphIsOne, PassesAreNoNodes DEF Opened
<1> HIDE DEF g
<1>3. /\ \A n \in S : n \in Ids(d) /\ d.nodes[n].home = g
      /\ home = g
  BY DEF In, g
<1>4. IsFiniteSet(d.edges) /\ IsFiniteSet(crossing)
  BY FS_Subset DEF Opened, DocumentOK
<1>5. r = [d EXCEPT !.nodes = nodes, !.edges = edges, !.ports = ports]
  BY DEF CollapseSelection
<1> HIDE DEF r, home, nodes, edges, ports
<1>6. /\ r.passes = d.passes /\ r.code = d.code /\ r.feedbackPass = d.feedbackPass
      /\ r.nodes = nodes /\ r.edges = edges /\ r.ports = ports
      /\ \A I : /\ nodes \in [I -> NodeRecords]
                 /\ edges \subseteq EdgeRecords /\ ports \subseteq PortRecords
                 => r \in Documents(I)
  BY <1>5 DEF Opened, DocumentOK, Documents
<1>7. /\ r.nodes \in [Ids(d) \cup {s} -> NodeRecords] /\ Ids(r) = Ids(d) \cup {s}
      /\ r.nodes[s].kind = "sub" /\ r.nodes[s].home = g
      /\ \A n \in Ids(d) : /\ r.nodes[n].kind = d.nodes[n].kind
                           /\ r.nodes[n].home = IF n \in S THEN s ELSE d.nodes[n].home
  <2>2. [kind |-> "sub", home |-> g, index |-> 0] \in NodeRecords
    BY <1>2 DEF NodeRecords
  <2>3. ASSUME NEW n \in Ids(d)
        PROVE  /\ [d.nodes[n] EXCEPT !.home = s] \in NodeRecords
               /\ [d.nodes[n] EXCEPT !.home = s].kind = d.nodes[n].kind
               /\ [d.nodes[n] EXCEPT !.home = s].home = s
    BY <1>1 DEF NodeRecords
  <2> QED BY <1>1, <1>3, <1>6, <2>2, <2>3 DEF Ids, nodes
<1> HIDE DEF name
<1>8. name \in [crossing -> Nat] /\ IsInjective(name)
  <2> HIDE DEF crossing
  <2>1. Cardinality(crossing) \in Nat
    BY <1>4, FS_CardinalityType
  <2>2. IsFiniteSet(1..Cardinality(crossing)) /\ Cardinality(1..Cardinality(crossing)) = Cardinality(crossing)
    BY <2>1, FS_Interval
  <2> DEFINE T == 1..Cardinality(crossing)
  <2>3. IsFiniteSet(T) /\ Cardinality(crossing) <= Cardinality(T)
    BY <2>1, <2>2
  <2> HIDE DEF T
  <2>4. \E f \in [crossing -> T] : IsInjective(f)
    BY <1>4, <2>3, InjectionExists
  <2>5. name \in [crossing -> 1..Cardinality(crossing)] /\ IsInjective(name)
    BY <2>4 DEF name, T
  <2> QED BY <2>1, <2>5
<1>9. ASSUME NEW e \in crossing
      PROVE  /\ e.src \in Ids(d) /\ e.dst \in Ids(d)
             /\ d.nodes[e.src].home = g /\ d.nodes[e.dst].home = g
             /\ e.sp \in Ports(d, e.src, "out") /\ e.dp \in Ports(d, e.dst, "in")
             /\ e.sp \in Nat /\ e.dp \in Nat /\ name[e] \in Nat
             /\ e \in EdgeRecords
             /\ (e.src \in S) # (e.dst \in S)
  BY <1>1, <1>3, <1>8 DEF Opened, DocumentOK, EdgesOK, EdgeRecords
<1>10. ASSUME NEW e \in crossing
      PROVE  /\ rewired(e) \in EdgeRecords /\ port(e) \in PortRecords
             /\ port(e).sub = s /\ port(e).name = name[e]
             /\ e.dst \in S => /\ rewired(e).src = e.src /\ rewired(e).sp = e.sp
                                /\ rewired(e).dst = s /\ rewired(e).dp = name[e]
                                /\ port(e).dir = "in" /\ port(e).node = e.dst /\ port(e).port = e.dp
             /\ e.dst \notin S => /\ rewired(e).src = s /\ rewired(e).sp = name[e]
                                   /\ rewired(e).dst = e.dst /\ rewired(e).dp = e.dp
                                   /\ port(e).dir = "out" /\ port(e).node = e.src /\ port(e).port = e.sp
  BY <1>1, <1>9 DEF EdgeRecords, PortRecords
<1> HIDE DEF rewired, port
<1>11. crossing \subseteq d.edges
  OBVIOUS
<1>12. IsFiniteSet(r.edges)
  <2> HIDE DEF crossing
  <2> DEFINE f == [e \in crossing |-> rewired(e)]
  <2>0. DOMAIN f = crossing /\ f = [e \in crossing |-> f[e]]
    OBVIOUS
  <2>2. {f[e] : e \in crossing} = {rewired(e) : e \in crossing}
    OBVIOUS
  <2> HIDE DEF f
  <2>1. IsFiniteSet({f[e] : e \in crossing})
    BY <1>4, <2>0, ImageIsFinite
  <2>3. IsFiniteSet(d.edges \ crossing)
    BY <1>4, FS_Subset
  <2>4. IsFiniteSet((d.edges \ crossing) \cup {rewired(e) : e \in crossing})
    <3> DEFINE A == d.edges \ crossing
               B == {rewired(e) : e \in crossing}
    <3>1. IsFiniteSet(A) /\ IsFiniteSet(B)
      BY <2>1, <2>2, <2>3
    <3> HIDE DEF A, B
    <3>2. IsFiniteSet(A \cup B)
      BY <3>1, FS_Union
    <3> QED BY <3>2 DEF A, B
  <2> QED BY <1>6, <2>4 DEF edges
<1>13. /\ \A e : e \in r.edges <=> e \in d.edges \ crossing \/ \E c \in crossing : e = rewired(c)
      /\ \A bp : bp \in r.ports <=> bp \in d.ports \/ \E c \in crossing : bp = port(c)
  BY <1>6 DEF edges, ports
<1>14. \A e \in d.edges \ crossing : (e.src \in S) = (e.dst \in S)
  OBVIOUS
<1> HIDE DEF crossing
<1>15. r \in Documents(Ids(r)) /\ Ids(r) \subseteq NodeIds
  BY <1>1, <1>6, <1>7, <1>13, <1>10, <1>11
<1>16. NestingOK(r)
  <2>1. \A n \in Ids(r) : r.nodes[n].home \in (Range(r.passes) \ r.code) \cup {m \in Ids(r) : IsSub(r, m)}
    BY <1>2, <1>6, <1>7 DEF Opened, DocumentOK, NestingOK, IsSub
  <2>2. ASSUME NEW U \in SUBSET Ids(r), U # {}, \A n \in U : r.nodes[n].home \in U PROVE FALSE
    <3>1. \A n \in Ids(d) : d.nodes[n].home # s
      BY <1>2 DEF Opened, DocumentOK, NestingOK
    <3>2. ASSUME NEW n \in U \ {s} PROVE d.nodes[n].home \in U \ {s}
      <4>1. n \in Ids(d)
        BY <1>7
      <4>2. CASE n \notin S
        BY <1>7, <2>2, <3>1, <4>1, <4>2
      <4>3. CASE n \in S
        BY <1>3, <1>7, <2>2, <3>1, <4>1, <4>3
      <4> QED BY <4>2, <4>3
    <3>3. U \ {s} # {}
      BY <1>2, <1>7, <2>2
    <3>4. U \ {s} \in SUBSET Ids(d)
      BY <1>7
    <3> QED BY <3>2, <3>3, <3>4 DEF Opened, DocumentOK, NestingOK
  <2> QED BY <2>1, <2>2 DEF NestingOK
<1>17. \A n \in Ids(d) : \A dir : Ports(r, n, dir) = Ports(d, n, dir)
  <2> SUFFICES ASSUME NEW n \in Ids(d), NEW dir PROVE Ports(r, n, dir) = Ports(d, n, dir)
    OBVIOUS
  <2>1. \A bp : bp \in r.ports /\ bp.sub = n <=> bp \in d.ports /\ bp.sub = n
    BY <1>13, <1>10
  <2> QED BY <1>7, <2>1 DEF Ports
<1>18. ASSUME NEW e \in crossing PROVE name[e] \in Ports(r, s, port(e).dir)
  <2>1. port(e) \in r.ports /\ port(e).sub = s /\ port(e).name = name[e]
    BY <1>13, <1>10
  <2> QED BY <1>7, <2>1 DEF Ports
<1>19. EdgesOK(r)
  <2>1. ASSUME NEW e \in d.edges \ crossing PROVE EdgeOK(r, e)
    BY <1>3, <1>7, <1>17, <1>14, <2>1 DEF EdgeOK, Opened, DocumentOK, EdgesOK
  <2>2. ASSUME NEW e \in crossing PROVE EdgeOK(r, rewired(e))
    <3>1. CASE e.dst \in S
      <4>1. name[e] \in Ports(r, s, "in")
        BY <3>1, <1>18, <1>10
      <4> QED BY <1>7, <1>9, <1>17, <1>10, <3>1, <4>1 DEF EdgeOK
    <3>2. CASE e.dst \notin S
      <4>1. name[e] \in Ports(r, s, "out")
        BY <3>2, <1>18, <1>10
      <4> QED BY <1>7, <1>9, <1>17, <1>10, <3>2, <4>1 DEF EdgeOK
    <3> QED BY <3>1, <3>2
  <2>3. \A e \in r.edges : EdgeOK(r, e)
    BY <1>13, <2>1, <2>2
  <2> QED BY <2>3 DEF EdgesOK, EdgeOK
<1>20. ASSUME NEW bp \in r.ports
       PROVE  IsSub(r, bp.sub) /\ (bp.sub # g => EndpointLives(r, bp))
  <2>1. CASE bp \in d.ports
    <3>1. IsSub(d, bp.sub) /\ EndpointLives(d, bp)
      BY <2>1 DEF Opened, DocumentOK, PortsOK
    <3>2. IsSub(r, bp.sub)
      BY <1>7, <3>1 DEF IsSub
    <3>3. ASSUME bp.sub # g PROVE EndpointLives(r, bp)
      BY <1>3, <1>7, <1>17, <3>1, <3>3 DEF EndpointLives, In
    <3> QED BY <3>2, <3>3
  <2>2. CASE bp \notin d.ports
    <3>1. PICK e \in crossing : bp = port(e)
      BY <1>13, <2>2
    <3>2. bp.sub = s /\ bp.node \in S /\ bp.port \in Ports(d, bp.node, bp.dir)
      BY <1>9, <1>10, <3>1
    <3> QED BY <1>3, <1>7, <1>17, <3>2 DEF EndpointLives, In, IsSub
  <2> QED BY <2>1, <2>2
<1>21. PathOpens(r, a, path)
  BY <1>2, <1>7, PathStaysOpen DEF Opened
<1>22. DrawnOK(r)
  <2>1. ASSUME NEW e \in r.edges PROVE e.src # e.dst
    BY <1>7, <1>9, <1>10, <1>13 DEF Opened, DocumentOK, DrawnOK
  <2>2. ASSUME NEW b \in r.ports, NEW c \in r.ports, b.sub = c.sub, b.name = c.name PROVE b = c
    <3>1. \A x \in d.ports : x.sub # s
      BY DEF Opened, DocumentOK, PortsOK, IsSub
    <3>2. \A x, y \in crossing : name[x] = name[y] => x = y
      BY <1>8 DEF IsInjective
    <3> QED BY <1>10, <1>13, <2>2, <3>1, <3>2 DEF Opened, DocumentOK, DrawnOK
  <2> QED BY <2>1, <2>2 DEF DrawnOK
<1>23. Half(r, g)
  BY <1>6, <1>15, <1>12, <1>16, <1>19, <1>20, <1>22 DEF Half, Opened, DocumentOK
<1>24. Grouped(d, r, s)
  <2>1. ASSUME NEW c \in crossing PROVE rewired(c) \in r.edges /\ StandsFor(r, s, rewired(c), c)
    <3>1. rewired(c) \in r.edges /\ port(c) \in r.ports
      BY <1>13
    <3>2. CASE c.dst \in S
      BY <1>10, <3>1, <3>2 DEF StandsFor
    <3>3. CASE c.dst \notin S
      BY <1>10, <3>1, <3>3 DEF StandsFor
    <3> QED BY <3>1, <3>2, <3>3
  <2>2. \A e \in r.edges : e \in d.edges \/ \E c \in d.edges : StandsFor(r, s, e, c)
    BY <1>11, <1>13, <2>1
  <2>3. \A c \in d.edges : c \in r.edges \/ \E e \in r.edges : StandsFor(r, s, e, c)
    BY <1>13, <2>1
  <2>4. \A bp \in d.ports : bp.sub # s
    BY DEF Opened, DocumentOK, PortsOK, IsSub
  <2>5. \A bp : bp \in d.ports <=> bp \in r.ports /\ bp.sub # s
    BY <1>10, <1>13, <2>4
  <2> QED BY <1>7, <2>2, <2>3, <2>5 DEF Grouped, IsSub
<1> QED BY <1>6, <1>21, <1>23, <1>24 DEF Edited, r, g

\* expandSubgraph: the interior of a node of the open graph moved into it.
LEMMA ExpandKeeps ==
  ASSUME NEW d, NEW a, NEW path, Opened(d, a, path),
         NEW s \in In(d, GraphAt(a, path, Len(path))), IsSub(d, s)
  PROVE  /\ Edited(d, ExpandSubgraph(d, s), a, path)
         /\ Grouped(ExpandSubgraph(d, s), d, s)
<1> DEFINE g == GraphAt(a, path, Len(path))
           bound(name, dir) == {bp \in d.ports : bp.sub = s /\ bp.name = name /\ bp.dir = dir}
           the(name, dir) == CHOOSE bp \in bound(name, dir) : TRUE
           inward(e) == IF e.dst # s THEN e
                        ELSE [e EXCEPT !.dst = the(e.dp, "in").node, !.dp = the(e.dp, "in").port]
           outward(e) == IF e.src # s THEN e
                         ELSE [e EXCEPT !.src = the(e.sp, "out").node, !.sp = the(e.sp, "out").port]
           kept == {e \in d.edges : /\ e.dst = s => bound(e.dp, "in") # {}
                                    /\ e.src = s => bound(e.sp, "out") # {}}
           nodes == [n \in Ids(d) \ {s} |->
                      IF d.nodes[n].home = s THEN [d.nodes[n] EXCEPT !.home = d.nodes[s].home]
                      ELSE d.nodes[n]]
           edges == {outward(inward(e)) : e \in kept}
           ports == {bp \in d.ports : bp.sub # s}
           r == ExpandSubgraph(d, s)
<1>1. /\ d.nodes \in [Ids(d) -> NodeRecords] /\ Ids(d) \subseteq NodeIds
      /\ d.edges \subseteq EdgeRecords /\ d.ports \subseteq PortRecords
  BY DEF Opened, DocumentOK, Documents
<1>2. /\ g \in (Range(d.passes) \ d.code) \cup {n \in Ids(d) : IsSub(d, n)}
      /\ g \in NodeIds \cup PassIds
      /\ \A k \in 1..Len(path) : path[k] \in Ids(d) /\ path[k] # s /\ d.nodes[path[k]].home # g
      /\ Range(d.passes) \cap NodeIds = {}
  BY OpenGraphIsOne, PassesAreNoNodes DEF Opened, In
<1> HIDE DEF g
<1>3. s \in Ids(d) /\ s \in NodeIds /\ d.nodes[s].home = g
  BY <1>1 DEF In, g
<1>4. g # s
  <2>1. {s} \in SUBSET Ids(d)
    BY <1>3
  <2> QED BY <1>3, <2>1 DEF Opened, DocumentOK, NestingOK
<1>5. r = [d EXCEPT !.nodes = nodes, !.edges = edges, !.ports = ports]
  BY DEF ExpandSubgraph
<1> HIDE DEF r, nodes, edges, ports
<1>6. /\ r.passes = d.passes /\ r.code = d.code /\ r.feedbackPass = d.feedbackPass
      /\ r.nodes = nodes /\ r.edges = edges /\ r.ports = ports
      /\ \A I : /\ nodes \in [I -> NodeRecords]
                 /\ edges \subseteq EdgeRecords /\ ports \subseteq PortRecords
                 => r \in Documents(I)
  BY <1>5 DEF Opened, DocumentOK, Documents
<1>7. /\ r.nodes \in [Ids(d) \ {s} -> NodeRecords] /\ Ids(r) = Ids(d) \ {s}
      /\ \A n \in Ids(r) : /\ r.nodes[n].kind = d.nodes[n].kind
                           /\ r.nodes[n].home = IF d.nodes[n].home = s THEN g ELSE d.nodes[n].home
  <2>1. ASSUME NEW n \in Ids(d)
        PROVE  /\ [d.nodes[n] EXCEPT !.home = g] \in NodeRecords
               /\ [d.nodes[n] EXCEPT !.home = g].kind = d.nodes[n].kind
               /\ [d.nodes[n] EXCEPT !.home = g].home = g
    BY <1>1, <1>2 DEF NodeRecords
  <2> QED BY <1>1, <1>3, <1>6, <2>1 DEF Ids, nodes
<1>8. ASSUME NEW name, NEW dir, bound(name, dir) # {}
      PROVE  LET bp == the(name, dir)
             IN  /\ bp.node \in Ids(d) /\ d.nodes[bp.node].home = s
                 /\ bp.port \in Ports(d, bp.node, dir) /\ bp.node \in NodeIds /\ bp.port \in Nat
  <2>1. the(name, dir) \in bound(name, dir)
    BY <1>8
  <2> HIDE DEF the
  <2> DEFINE bp == the(name, dir)
  <2>2. bp \in d.ports /\ bp.sub = s /\ bp.dir = dir
    BY <2>1
  <2> HIDE DEF bp
  <2>3. EndpointLives(d, bp) /\ bp \in PortRecords
    BY <1>1, <2>2 DEF Opened, DocumentOK, PortsOK
  <2>4. bp.node \in Ids(d) /\ d.nodes[bp.node].home = s /\ bp.port \in Ports(d, bp.node, dir)
    BY <2>2, <2>3 DEF EndpointLives, In
  <2> QED BY <1>1, <2>3, <2>4 DEF PortRecords, bp
<1> HIDE DEF the
<1> DEFINE rewired(e) == outward(inward(e))
<1>9. ASSUME NEW e \in kept
      PROVE  LET w == rewired(e)
             IN  /\ w \in EdgeRecords
                 /\ w.src = IF e.src = s THEN the(e.sp, "out").node ELSE e.src
                 /\ w.sp = IF e.src = s THEN the(e.sp, "out").port ELSE e.sp
                 /\ w.dst = IF e.dst = s THEN the(e.dp, "in").node ELSE e.dst
                 /\ w.dp = IF e.dst = s THEN the(e.dp, "in").port ELSE e.dp
  <2>1. e \in EdgeRecords
    BY <1>1
  <2>2. /\ e.dst = s => the(e.dp, "in").node \in NodeIds /\ the(e.dp, "in").port \in Nat
        /\ e.src = s => the(e.sp, "out").node \in NodeIds /\ the(e.sp, "out").port \in Nat
    BY <1>8
  <2> HIDE DEF kept
  <2>3. /\ inward(e) \in EdgeRecords /\ inward(e).src = e.src /\ inward(e).sp = e.sp
        /\ inward(e).dst = IF e.dst = s THEN the(e.dp, "in").node ELSE e.dst
        /\ inward(e).dp = IF e.dst = s THEN the(e.dp, "in").port ELSE e.dp
    BY <2>1, <2>2 DEF EdgeRecords
  <2> HIDE DEF inward
  <2> QED BY <2>2, <2>3 DEF EdgeRecords
<1>10. \A e : e \in r.edges <=> \E c \in kept : e = rewired(c)
  BY <1>6 DEF edges
<1> HIDE DEF rewired
<1>11. IsFiniteSet(r.edges)
  <2>1. IsFiniteSet(kept)
    BY FS_Subset DEF Opened, DocumentOK
  <2> HIDE DEF kept
  <2> DEFINE f == [e \in kept |-> rewired(e)]
  <2>2. DOMAIN f = kept /\ f = [e \in kept |-> f[e]]
    OBVIOUS
  <2>3. {f[e] : e \in kept} = r.edges
    BY <1>10
  <2> HIDE DEF f
  <2>4. IsFiniteSet({f[e] : e \in kept})
    BY <2>1, <2>2, ImageIsFinite
  <2> QED BY <2>3, <2>4
<1>12. r \in Documents(Ids(r)) /\ Ids(r) \subseteq NodeIds
  <2>1. edges \subseteq EdgeRecords /\ ports \subseteq PortRecords
    <3> HIDE DEF kept
    <3> QED BY <1>1, <1>6, <1>9, <1>10 DEF ports
  <2> QED BY <1>1, <1>6, <1>7, <2>1
<1>13. NestingOK(r)
  <2>1. \A n \in Ids(r) : r.nodes[n].home \in (Range(r.passes) \ r.code) \cup {m \in Ids(r) : IsSub(r, m)}
    BY <1>2, <1>4, <1>6, <1>7 DEF Opened, DocumentOK, NestingOK, IsSub
  <2>2. ASSUME NEW U \in SUBSET Ids(r), U # {}, \A n \in U : r.nodes[n].home \in U PROVE FALSE
    <3>1. CASE \E n \in U : d.nodes[n].home = s
      <4>1. U \cup {s} \in SUBSET Ids(d)
        BY <1>3, <1>7
      <4>2. \A n \in U \cup {s} : d.nodes[n].home \in U \cup {s}
        BY <1>3, <1>7, <2>2, <3>1
      <4> QED BY <4>1, <4>2 DEF Opened, DocumentOK, NestingOK
    <3>2. CASE ~ \E n \in U : d.nodes[n].home = s
      <4>1. U \in SUBSET Ids(d) /\ \A n \in U : d.nodes[n].home \in U
        BY <1>7, <2>2, <3>2
      <4> QED BY <2>2, <4>1 DEF Opened, DocumentOK, NestingOK
    <3> QED BY <3>1, <3>2
  <2> QED BY <2>1, <2>2 DEF NestingOK
<1>14. \A n \in Ids(r) : \A dir : Ports(r, n, dir) = Ports(d, n, dir)
  <2> SUFFICES ASSUME NEW n \in Ids(r), NEW dir PROVE Ports(r, n, dir) = Ports(d, n, dir)
    OBVIOUS
  <2>1. \A bp : bp \in r.ports /\ bp.sub = n <=> bp \in d.ports /\ bp.sub = n
    BY <1>6, <1>7 DEF ports
  <2> QED BY <1>7, <2>1 DEF Ports
<1>15. EdgesOK(r)
  <2>1. ASSUME NEW e \in kept PROVE EdgeOK(r, rewired(e))
    <3>1. EdgeOK(d, e)
      BY DEF EdgeOK, Opened, DocumentOK, EdgesOK
    <3>2. /\ e.dst = s => bound(e.dp, "in") # {}
          /\ e.src = s => bound(e.sp, "out") # {}
      OBVIOUS
    <3> DEFINE w == rewired(e)
    <3>3. /\ w.src = IF e.src = s THEN the(e.sp, "out").node ELSE e.src
          /\ w.sp = IF e.src = s THEN the(e.sp, "out").port ELSE e.sp
          /\ w.dst = IF e.dst = s THEN the(e.dp, "in").node ELSE e.dst
          /\ w.dp = IF e.dst = s THEN the(e.dp, "in").port ELSE e.dp
      BY <1>9
    <3> HIDE DEF w, bound, kept
    <3>4. ASSUME e.src = s
          PROVE  /\ w.src \in Ids(r) /\ r.nodes[w.src].home = g /\ w.sp \in Ports(d, w.src, "out")
                 /\ d.nodes[e.src].home = g
      BY <1>3, <1>4, <1>7, <1>8, <3>2, <3>3, <3>4
    <3>5. ASSUME e.dst = s
          PROVE  /\ w.dst \in Ids(r) /\ r.nodes[w.dst].home = g /\ w.dp \in Ports(d, w.dst, "in")
                 /\ d.nodes[e.dst].home = g
      BY <1>3, <1>4, <1>7, <1>8, <3>2, <3>3, <3>5
    <3>6. ASSUME e.src # s
          PROVE  /\ w.src \in Ids(r) /\ w.sp \in Ports(d, w.src, "out")
                 /\ r.nodes[w.src].home = IF d.nodes[e.src].home = s THEN g ELSE d.nodes[e.src].home
      BY <1>7, <3>1, <3>3, <3>6 DEF EdgeOK
    <3>7. ASSUME e.dst # s
          PROVE  /\ w.dst \in Ids(r) /\ w.dp \in Ports(d, w.dst, "in")
                 /\ r.nodes[w.dst].home = IF d.nodes[e.dst].home = s THEN g ELSE d.nodes[e.dst].home
      BY <1>7, <3>1, <3>3, <3>7 DEF EdgeOK
    <3>8. d.nodes[e.src].home = d.nodes[e.dst].home
      BY <3>1 DEF EdgeOK
    <3>9. EdgeOK(r, w)
      BY <1>4, <1>14, <3>4, <3>5, <3>6, <3>7, <3>8 DEF EdgeOK
    <3> QED BY <3>9 DEF w
  <2>2. \A e \in r.edges : EdgeOK(r, e)
    <3> HIDE DEF kept
    <3> QED BY <1>10, <2>1
  <2> QED BY <2>2 DEF EdgesOK, EdgeOK
<1>16. ASSUME NEW bp \in r.ports
       PROVE  IsSub(r, bp.sub) /\ (bp.sub # g => EndpointLives(r, bp))
  <2>1. bp \in d.ports /\ bp.sub # s
    BY <1>6 DEF ports
  <2>2. IsSub(d, bp.sub) /\ EndpointLives(d, bp)
    BY <2>1 DEF Opened, DocumentOK, PortsOK
  <2>3. IsSub(r, bp.sub)
    BY <1>7, <2>1, <2>2 DEF IsSub
  <2>4. ASSUME bp.sub # g PROVE EndpointLives(r, bp)
    <3>1. bp.node \in Ids(r) /\ r.nodes[bp.node].home = bp.sub
      BY <1>3, <1>7, <2>1, <2>2, <2>4 DEF EndpointLives, In
    <3> QED BY <1>14, <2>2, <3>1 DEF EndpointLives, In
  <2> QED BY <2>3, <2>4
<1>17. PathOpens(r, a, path)
  <2> SUFFICES ASSUME NEW k \in 1..Len(path)
               PROVE  /\ path[k] \in Ids(r)
                      /\ r.nodes[path[k]].kind = d.nodes[path[k]].kind
                      /\ r.nodes[path[k]].home = d.nodes[path[k]].home
    BY PathStaysOpen DEF Opened
  <2>1. path[k] \in Ids(r)
    BY <1>2, <1>7
  <2>2. d.nodes[path[k]].home # s
    <3>1. CASE k = 1
      <4>1. a \notin NodeIds
        BY OpenGraphIsOne
      <4> QED BY <3>1, <4>1, <1>3 DEF Opened, PathOpens
    <3>2. CASE k # 1
      <4>1. k - 1 \in 1..Len(path) /\ d.nodes[path[k]].home = path[k-1]
        BY <3>2 DEF Opened, PathOpens
      <4> QED BY <4>1, <1>2
    <3> QED BY <3>1, <3>2
  <2> QED BY <1>7, <2>1, <2>2
<1>18. DrawnOK(r)
  <2>1. ASSUME NEW e \in kept PROVE rewired(e).src # rewired(e).dst
    <3>1. EdgeOK(d, e) /\ e.src # e.dst
      BY DEF EdgeOK, Opened, DocumentOK, EdgesOK, DrawnOK
    <3>2. /\ e.dst = s => bound(e.dp, "in") # {}
          /\ e.src = s => bound(e.sp, "out") # {}
      OBVIOUS
    <3>3. /\ rewired(e).src = IF e.src = s THEN the(e.sp, "out").node ELSE e.src
          /\ rewired(e).dst = IF e.dst = s THEN the(e.dp, "in").node ELSE e.dst
      BY <1>9
    <3> HIDE DEF bound, kept
    <3>4. CASE e.src = s
      BY <1>3, <1>4, <1>8, <3>1, <3>2, <3>3, <3>4 DEF EdgeOK
    <3>5. CASE e.dst = s
      BY <1>3, <1>4, <1>8, <3>1, <3>2, <3>3, <3>5 DEF EdgeOK
    <3> QED BY <3>1, <3>3, <3>4, <3>5
  <2>2. \A e \in r.edges : e.src # e.dst
    <3> HIDE DEF kept
    <3> QED BY <1>10, <2>1
  <2>3. r.ports \subseteq d.ports
    BY <1>6 DEF ports
  <2> QED BY <2>2, <2>3 DEF Opened, DocumentOK, DrawnOK
<1>19. Half(r, g)
  BY <1>6, <1>11, <1>12, <1>13, <1>15, <1>16, <1>18 DEF Half, Opened, DocumentOK
<1>20. Grouped(r, d, s)
  <2>1. ASSUME NEW e \in d.edges
        PROVE  /\ e \in kept
               /\ e.dst = s => the(e.dp, "in") \in bound(e.dp, "in")
               /\ e.src = s => the(e.sp, "out") \in bound(e.sp, "out")
    <3>1. EdgeOK(d, e)
      BY DEF EdgeOK, Opened, DocumentOK, EdgesOK
    <3>2. /\ e.dst = s => bound(e.dp, "in") # {}
          /\ e.src = s => bound(e.sp, "out") # {}
      BY <3>1 DEF EdgeOK, Ports, IsSub
    <3> HIDE DEF bound
    <3> QED BY <3>2 DEF the
  <2>2. ASSUME NEW e \in d.edges
        PROVE  /\ rewired(e) \in r.edges
               /\ rewired(e) = e \/ StandsFor(d, s, e, rewired(e))
    <3>1. e.src # e.dst /\ rewired(e) \in r.edges
      BY <1>10, <2>1 DEF Opened, DocumentOK, DrawnOK
    <3>2. /\ rewired(e).src = IF e.src = s THEN the(e.sp, "out").node ELSE e.src
          /\ rewired(e).sp = IF e.src = s THEN the(e.sp, "out").port ELSE e.sp
          /\ rewired(e).dst = IF e.dst = s THEN the(e.dp, "in").node ELSE e.dst
          /\ rewired(e).dp = IF e.dst = s THEN the(e.dp, "in").port ELSE e.dp
      BY <1>9, <2>1
    <3>3. CASE e.src # s /\ e.dst # s
      BY <3>1, <3>3 DEF rewired
    <3>4. CASE e.dst = s
      <4>1. the(e.dp, "in") \in bound(e.dp, "in")
        BY <2>1, <3>4
      <4> DEFINE bp == the(e.dp, "in")
      <4>2. bp \in d.ports /\ bp.sub = s /\ bp.name = e.dp /\ bp.dir = "in"
        BY <4>1
      <4> HIDE DEF kept, bound
      <4> QED BY <3>1, <3>2, <3>4, <4>2 DEF StandsFor
    <3>5. CASE e.src = s
      <4>1. the(e.sp, "out") \in bound(e.sp, "out")
        BY <2>1, <3>5
      <4> DEFINE bp == the(e.sp, "out")
      <4>2. bp \in d.ports /\ bp.sub = s /\ bp.name = e.sp /\ bp.dir = "out"
        BY <4>1
      <4> HIDE DEF kept, bound
      <4> QED BY <3>1, <3>2, <3>5, <4>2 DEF StandsFor
    <3> QED BY <3>1, <3>3, <3>4, <3>5
  <2>3. \A bp : bp \in r.ports <=> bp \in d.ports /\ bp.sub # s
    BY <1>6 DEF ports
  <2>4. kept \subseteq d.edges
    OBVIOUS
  <2> HIDE DEF kept, bound
  <2>5. \A e \in r.edges : e \in d.edges \/ \E c \in d.edges : StandsFor(d, s, c, e)
    BY <1>10, <2>2, <2>4
  <2>6. \A e \in d.edges : e \in r.edges \/ \E c \in r.edges : StandsFor(d, s, e, c)
    BY <2>2
  <2> QED BY <1>3, <1>7, <2>3, <2>5, <2>6 DEF Grouped
<1> QED BY <1>6, <1>17, <1>19, <1>20 DEF Edited, r, g

\* c is the copy of the edge e, of the boundary port b.
EdgeCopy(copy, c, e) ==
  c.src = copy[e.src] /\ c.sp = e.sp /\ c.dst = copy[e.dst] /\ c.dp = e.dp
PortCopy(copy, c, b) ==
  c.sub = copy[b.sub] /\ c.name = b.name /\ c.dir = b.dir /\ c.node = copy[b.node] /\ c.port = b.port

\* r is d with copies of the nodes of T, of the edges between them and of
\* their boundary ports.
Copied(d, r, T, copy) ==
  /\ \A x \in T : copy[x] \in NodeIds \ Ids(d)
  /\ \A x, y \in T : copy[x] = copy[y] => x = y
  /\ \A n \in Ids(d) : n \in Ids(r) /\ r.nodes[n] = d.nodes[n]
  /\ \A x \in T : copy[x] \in Ids(r) /\ r.nodes[copy[x]].kind = d.nodes[x].kind
  /\ \A n \in Ids(r) : n \in Ids(d) \/ \E x \in T : n = copy[x]
  /\ d.edges \subseteq r.edges
  /\ \A e \in d.edges : e.src \in T /\ e.dst \in T => \E c \in r.edges : EdgeCopy(copy, c, e)
  /\ \A c \in r.edges : c \in d.edges
                        \/ \E e \in d.edges : e.src \in T /\ e.dst \in T /\ EdgeCopy(copy, c, e)
  /\ d.ports \subseteq r.ports
  /\ \A b \in d.ports : b.sub \in T => \E c \in r.ports : PortCopy(copy, c, b)
  /\ \A c \in r.ports : c \in d.ports
                        \/ \E b \in d.ports : b.sub \in T /\ b.node \in T /\ PortCopy(copy, c, b)

\* Nodes of the open graph copied with everything inside them.
LEMMA DuplicateKeeps ==
  ASSUME NEW d, NEW a, NEW path, Opened(d, a, path),
         NEW S \in SUBSET In(d, GraphAt(a, path, Len(path))), Room(d, Cardinality(Tree(d, S)))
  PROVE  /\ Edited(d, Duplicate(d, S), a, path) /\ PortsOK(Duplicate(d, S))
         /\ Copied(d, Duplicate(d, S), Tree(d, S), Copies(d, Tree(d, S)))
<1> DEFINE g == GraphAt(a, path, Len(path))
           tree == Tree(d, S)
           copy == Copies(d, tree)
           ren(x) == IF x \in tree THEN copy[x] ELSE x
           inner == {e \in d.edges : e.src \in tree /\ e.dst \in tree}
           owned == {bp \in d.ports : bp.sub \in tree}
           twin(e) == [e EXCEPT !.src = ren(@), !.dst = ren(@)]
           alike(bp) == [bp EXCEPT !.sub = ren(@), !.node = ren(@)]
           nodes == [n \in Ids(d) \cup Range(copy) |->
                      IF n \in Ids(d) THEN d.nodes[n]
                      ELSE LET o == CHOOSE x \in tree : copy[x] = n
                           IN  [d.nodes[o] EXCEPT !.home = ren(@)]]
           edges == d.edges \cup {twin(e) : e \in inner}
           ports == d.ports \cup {alike(bp) : bp \in owned}
           r == Duplicate(d, S)
<1>1. /\ d.nodes \in [Ids(d) -> NodeRecords] /\ Ids(d) \subseteq NodeIds
      /\ d.edges \subseteq EdgeRecords /\ d.ports \subseteq PortRecords
  BY DEF Opened, DocumentOK, Documents
<1>2. /\ g \in (Range(d.passes) \ d.code) \cup {n \in Ids(d) : IsSub(d, n)}
      /\ g \in NodeIds \cup PassIds
      /\ \A k \in 1..Len(path) : path[k] \in Ids(d)
      /\ Range(d.passes) \cap NodeIds = {}
  BY OpenGraphIsOne, PassesAreNoNodes DEF Opened, In
<1>3. r = [d EXCEPT !.nodes = nodes, !.edges = edges, !.ports = ports]
  BY DEF Duplicate
<1> HIDE DEF r, nodes, edges, ports
<1>4. /\ r.passes = d.passes /\ r.code = d.code /\ r.feedbackPass = d.feedbackPass
      /\ r.nodes = nodes /\ r.edges = edges /\ r.ports = ports
      /\ \A I : /\ nodes \in [I -> NodeRecords]
                 /\ edges \subseteq EdgeRecords /\ ports \subseteq PortRecords
                 => r \in Documents(I)
  BY <1>3 DEF Opened, DocumentOK, Documents
<1>5. /\ tree \subseteq Ids(d)
      /\ \A n \in Ids(d) : d.nodes[n].home \in tree => n \in tree
      /\ \A n \in tree : d.nodes[n].home \in tree \/ n \in S
  <2>1. S \in SUBSET Ids(d)
    BY DEF In
  <2> QED BY <2>1, TreeIsClosed
<1>6. \A n \in S : d.nodes[n].home = g
  BY DEF In
<1> HIDE DEF g
<1>7. /\ copy \in [tree -> NodeIds \ Ids(d)]
      /\ \A x, y \in tree : copy[x] = copy[y] => x = y
  <2> DEFINE T == NodeIds \ Ids(d)
  <2>1. IsFiniteSet(tree) /\ IsFiniteSet(T)
    BY <1>1, <1>5, IdsAssumption, FS_Subset
  <2>2. Cardinality(tree) <= Cardinality(T)
    BY <2>1, FS_CardinalityType DEF Room
  <2> HIDE DEF tree, T
  <2>3. \E f \in [tree -> T] : IsInjective(f)
    BY <2>1, <2>2, InjectionExists
  <2>4. copy = CHOOSE f \in [tree -> T] : IsInjective(f)
    BY DEF Copies, T
  <2> HIDE DEF copy
  <2>5. copy \in [tree -> T] /\ IsInjective(copy)
    BY <2>3, <2>4
  <2> QED BY <2>5 DEF T, IsInjective
<1> HIDE DEF tree, copy
<1>8. /\ \A n : n \in Range(copy) <=> \E x \in tree : n = copy[x]
      /\ \A x \in tree : copy[x] \in NodeIds /\ copy[x] \notin Ids(d)
      /\ \A x \in tree : (CHOOSE y \in tree : copy[y] = copy[x]) = x
  BY <1>7 DEF Range
<1>9. \A x : /\ x \in tree => ren(x) = copy[x]
             /\ x \notin tree => ren(x) = x
  OBVIOUS
<1> HIDE DEF ren
<1>10. ASSUME NEW x \in tree
       PROVE  LET c == [d.nodes[x] EXCEPT !.home = ren(@)]
              IN  /\ c \in NodeRecords /\ c.kind = d.nodes[x].kind
                  /\ c.home = ren(d.nodes[x].home)
  <2>1. x \in Ids(d) /\ d.nodes[x] \in NodeRecords
    BY <1>1, <1>5
  <2>2. ren(d.nodes[x].home) \in NodeIds \cup PassIds
    BY <1>8, <1>9, <2>1 DEF NodeRecords
  <2> QED BY <2>1, <2>2 DEF NodeRecords
<1>11. /\ nodes \in [Ids(d) \cup Range(copy) -> NodeRecords]
       /\ \A n \in Ids(d) : nodes[n] = d.nodes[n]
       /\ \A x \in tree : /\ nodes[copy[x]].kind = d.nodes[x].kind
                          /\ nodes[copy[x]].home = ren(d.nodes[x].home)
  <2>1. \A n \in Ids(d) : nodes[n] = d.nodes[n]
    BY DEF nodes
  <2>2. ASSUME NEW x \in tree PROVE nodes[copy[x]] = [d.nodes[x] EXCEPT !.home = ren(@)]
    <3>1. copy[x] \in Ids(d) \cup Range(copy) /\ copy[x] \notin Ids(d)
      BY <1>8
    <3> QED BY <1>8, <3>1 DEF nodes
  <2>3. ASSUME NEW n \in Ids(d) \cup Range(copy) PROVE nodes[n] \in NodeRecords
    <3>1. CASE n \in Ids(d)
      BY <1>1, <2>1, <3>1
    <3>2. CASE n \notin Ids(d)
      <4>1. PICK x \in tree : n = copy[x]
        BY <1>8, <3>2
      <4> QED BY <1>10, <2>2, <4>1
    <3> QED BY <3>1, <3>2
  <2>4. nodes \in [Ids(d) \cup Range(copy) -> NodeRecords]
    <3>1. nodes = [n \in Ids(d) \cup Range(copy) |-> nodes[n]]
      BY DEF nodes
    <3> HIDE DEF nodes
    <3> QED BY <2>3, <3>1
  <2> QED BY <1>10, <2>1, <2>2, <2>4
<1>12. Ids(r) = Ids(d) \cup Range(copy) /\ Ids(r) \subseteq NodeIds
  BY <1>1, <1>4, <1>8, <1>11 DEF Ids
<1>13. ASSUME NEW e \in inner
       PROVE  /\ twin(e) \in EdgeRecords
              /\ e.src \in tree /\ e.dst \in tree
              /\ twin(e).src = copy[e.src] /\ twin(e).dst = copy[e.dst]
              /\ twin(e).sp = e.sp /\ twin(e).dp = e.dp
  <2>1. e \in EdgeRecords /\ e.src \in tree /\ e.dst \in tree
    BY <1>1
  <2>2. /\ ren(e.src) = copy[e.src] /\ ren(e.src) \in NodeIds
        /\ ren(e.dst) = copy[e.dst] /\ ren(e.dst) \in NodeIds
    BY <1>8, <1>9, <2>1
  <2> HIDE DEF inner
  <2> QED BY <2>1, <2>2 DEF EdgeRecords
<1>14. ASSUME NEW bp \in owned
       PROVE  /\ bp.sub \in tree /\ bp.node \in tree /\ bp.node \in Ids(d)
              /\ d.nodes[bp.node].home = bp.sub /\ bp.port \in Ports(d, bp.node, bp.dir)
              /\ alike(bp) \in PortRecords
              /\ alike(bp).sub = copy[bp.sub] /\ alike(bp).node = copy[bp.node]
              /\ alike(bp).name = bp.name /\ alike(bp).dir = bp.dir /\ alike(bp).port = bp.port
  <2>1. bp.sub \in tree /\ EndpointLives(d, bp) /\ bp \in PortRecords
    BY <1>1 DEF Opened, DocumentOK, PortsOK
  <2>2. bp.node \in Ids(d) /\ d.nodes[bp.node].home = bp.sub /\ bp.port \in Ports(d, bp.node, bp.dir)
    BY <2>1 DEF EndpointLives, In
  <2>3. bp.node \in tree
    BY <1>5, <2>1, <2>2
  <2> QED BY <1>8, <1>9, <2>1, <2>2, <2>3 DEF PortRecords
<1>15. /\ \A e : e \in r.edges <=> e \in d.edges \/ \E c \in inner : e = twin(c)
       /\ \A bp : bp \in r.ports <=> bp \in d.ports \/ \E c \in owned : bp = alike(c)
  BY <1>4 DEF edges, ports
<1>16. IsFiniteSet(r.edges)
  <2>1. IsFiniteSet(inner) /\ IsFiniteSet(d.edges)
    BY FS_Subset DEF Opened, DocumentOK
  <2> HIDE DEF inner, twin
  <2> DEFINE f == [e \in inner |-> twin(e)]
  <2>2. DOMAIN f = inner /\ f = [e \in inner |-> f[e]]
    OBVIOUS
  <2>3. {f[e] : e \in inner} = {twin(e) : e \in inner}
    OBVIOUS
  <2> HIDE DEF f
  <2>4. IsFiniteSet({f[e] : e \in inner})
    BY <2>1, <2>2, ImageIsFinite
  <2> DEFINE B == {twin(e) : e \in inner}
  <2>5. IsFiniteSet(B)
    BY <2>3, <2>4
  <2>6. edges = d.edges \cup B
    BY DEF edges
  <2> HIDE DEF B
  <2>7. IsFiniteSet(d.edges \cup B)
    BY <2>1, <2>5, FS_Union
  <2> QED BY <1>4, <2>6, <2>7
<1>17. /\ \A c \in owned : c \in d.ports
       /\ \A bp \in d.ports : bp.sub \in tree => bp \in owned
       /\ \A e \in inner : e \in d.edges
  OBVIOUS
<1> HIDE DEF inner, owned, twin, alike
<1>18. r \in Documents(Ids(r))
  <2>1. edges \subseteq EdgeRecords /\ ports \subseteq PortRecords
    BY <1>1, <1>4, <1>13, <1>14, <1>15
  <2> QED BY <1>4, <1>11, <1>12, <2>1
<1>19. /\ \A n \in Ids(d) : n \in Ids(r) /\ r.nodes[n] = d.nodes[n]
       /\ \A x \in tree : /\ copy[x] \in Ids(r)
                          /\ r.nodes[copy[x]].kind = d.nodes[x].kind
                          /\ r.nodes[copy[x]].home = ren(d.nodes[x].home)
  BY <1>4, <1>8, <1>11, <1>12
<1>20. \A n \in Ids(r) : n \in Ids(d) \/ \E x \in tree : n = copy[x]
  BY <1>8, <1>12
<1>21. NestingOK(r)
  <2>1. ASSUME NEW n \in Ids(r)
        PROVE  r.nodes[n].home \in (Range(r.passes) \ r.code) \cup {m \in Ids(r) : IsSub(r, m)}
    <3>1. CASE n \in Ids(d)
      BY <1>4, <1>19, <3>1 DEF Opened, DocumentOK, NestingOK, IsSub
    <3>2. CASE n \notin Ids(d)
      <4>1. PICK x \in tree : n = copy[x]
        BY <1>20, <3>2
      <4>2. d.nodes[x].home \in (Range(d.passes) \ d.code) \cup {m \in Ids(d) : IsSub(d, m)}
        BY <1>5 DEF Opened, DocumentOK, NestingOK
      <4>3. CASE d.nodes[x].home \in tree
        <5>1. IsSub(d, d.nodes[x].home)
          BY <1>1, <1>2, <1>5, <4>2, <4>3
        <5> QED BY <1>9, <1>19, <4>1, <4>3, <5>1 DEF IsSub
      <4>4. CASE d.nodes[x].home \notin tree
        BY <1>4, <1>9, <1>19, <4>1, <4>2, <4>4 DEF IsSub
      <4> QED BY <4>3, <4>4
    <3> QED BY <3>1, <3>2
  <2>2. ASSUME NEW U \in SUBSET Ids(r), U # {}, \A n \in U : r.nodes[n].home \in U PROVE FALSE
    <3>1. \A n \in Ids(d) : d.nodes[n].home \in Ids(d) \/ d.nodes[n].home \notin NodeIds
      BY <1>2 DEF Opened, DocumentOK, NestingOK
    <3>2. CASE U \cap Ids(d) # {}
      <4>1. \A n \in U \cap Ids(d) : d.nodes[n].home \in U \cap Ids(d)
        <5>1. U \subseteq NodeIds
          BY <1>12
        <5> QED BY <1>19, <2>2, <3>1, <5>1
      <4> QED BY <3>2, <4>1 DEF Opened, DocumentOK, NestingOK
    <3>3. CASE U \cap Ids(d) = {}
      <4> DEFINE O == {x \in tree : copy[x] \in U}
      <4>1. O \in SUBSET Ids(d) /\ O # {}
        BY <1>5, <1>20, <2>2, <3>3
      <4>2. ASSUME NEW x \in O PROVE d.nodes[x].home \in O
        <5>1. ren(d.nodes[x].home) \in U
          BY <1>19, <2>2
        <5>2. d.nodes[x].home \in tree
          BY <1>5, <1>9, <1>12, <3>1, <3>3, <5>1
        <5> QED BY <1>9, <5>1, <5>2
      <4> QED BY <4>1, <4>2 DEF Opened, DocumentOK, NestingOK
    <3> QED BY <3>2, <3>3
  <2> QED BY <2>1, <2>2 DEF NestingOK
<1>22. \A n \in Ids(d) : \A dir : Ports(r, n, dir) = Ports(d, n, dir)
  <2> SUFFICES ASSUME NEW n \in Ids(d), NEW dir PROVE Ports(r, n, dir) = Ports(d, n, dir)
    OBVIOUS
  <2>1. \A bp : bp \in r.ports /\ bp.sub = n <=> bp \in d.ports /\ bp.sub = n
    BY <1>8, <1>14, <1>15
  <2> QED BY <1>19, <2>1 DEF Ports
<1>23. ASSUME NEW x \in tree, NEW dir, NEW p \in Ports(d, x, dir) PROVE p \in Ports(r, copy[x], dir)
  <2>1. CASE d.nodes[x].kind = "sub"
    <3>1. PICK bp \in d.ports : bp.sub = x /\ bp.dir = dir /\ bp.name = p
      BY <2>1 DEF Ports
    <3>2. alike(bp) \in r.ports /\ alike(bp).sub = copy[x] /\ alike(bp).dir = dir /\ alike(bp).name = p
      BY <1>14, <1>15, <1>17, <3>1
    <3> QED BY <1>19, <2>1, <3>2 DEF Ports
  <2>2. CASE d.nodes[x].kind # "sub"
    BY <1>19, <2>2 DEF Ports
  <2> QED BY <2>1, <2>2
<1>24. EdgesOK(r)
  <2>1. ASSUME NEW e \in d.edges PROVE EdgeOK(r, e)
    BY <1>19, <1>22 DEF EdgeOK, Opened, DocumentOK, EdgesOK
  <2>2. ASSUME NEW e \in inner PROVE EdgeOK(r, twin(e))
    <3>1. EdgeOK(d, e)
      BY <1>17 DEF EdgeOK, Opened, DocumentOK, EdgesOK
    <3> QED BY <1>13, <1>19, <1>23, <3>1 DEF EdgeOK
  <2>3. \A e \in r.edges : EdgeOK(r, e)
    BY <1>15, <2>1, <2>2
  <2> QED BY <2>3 DEF EdgesOK, EdgeOK
<1>25. ASSUME NEW bp \in r.ports PROVE IsSub(r, bp.sub) /\ EndpointLives(r, bp)
  <2>1. CASE bp \in d.ports
    <3>1. IsSub(d, bp.sub) /\ EndpointLives(d, bp)
      BY <2>1 DEF Opened, DocumentOK, PortsOK
    <3> QED BY <1>19, <1>22, <3>1 DEF IsSub, EndpointLives, In
  <2>2. CASE bp \notin d.ports
    <3>1. PICK c \in owned : bp = alike(c)
      BY <1>15, <2>2
    <3>2. IsSub(d, c.sub)
      BY <1>17 DEF Opened, DocumentOK, PortsOK
    <3>3. IsSub(r, bp.sub)
      BY <1>14, <1>19, <3>1, <3>2 DEF IsSub
    <3>4. bp.node \in Ids(r) /\ r.nodes[bp.node].home = bp.sub
      BY <1>9, <1>14, <1>19, <3>1
    <3>5. bp.port \in Ports(r, bp.node, bp.dir)
      BY <1>14, <1>23, <3>1
    <3> QED BY <3>3, <3>4, <3>5 DEF EndpointLives, In
  <2> QED BY <2>1, <2>2
<1>26. PathOpens(r, a, path)
  BY <1>2, <1>19, PathStaysOpen DEF Opened
<1>27. DrawnOK(r)
  <2>1. ASSUME NEW e \in r.edges PROVE e.src # e.dst
    <3>1. CASE e \in d.edges
      BY <3>1 DEF Opened, DocumentOK, DrawnOK
    <3>2. CASE e \notin d.edges
      <4>1. PICK c \in inner : e = twin(c)
        BY <1>15, <3>2
      <4>2. c.src # c.dst
        BY <1>17 DEF Opened, DocumentOK, DrawnOK
      <4> QED BY <1>7, <1>13, <4>1, <4>2
    <3> QED BY <3>1, <3>2
  <2>2. ASSUME NEW b \in r.ports, NEW c \in r.ports, b.sub = c.sub, b.name = c.name PROVE b = c
    <3>1. \A x \in d.ports : x.sub \in Ids(d)
      BY DEF Opened, DocumentOK, PortsOK, IsSub
    <3>2. \A x, y \in d.ports : x.sub = y.sub /\ x.name = y.name => x = y
      BY DEF Opened, DocumentOK, DrawnOK
    <3>3. \A x \in owned : alike(x).sub \notin Ids(d)
      BY <1>8, <1>14
    <3>4. CASE b \in d.ports
      BY <1>15, <2>2, <3>1, <3>2, <3>3, <3>4
    <3>5. CASE b \notin d.ports
      <4>1. PICK x \in owned : b = alike(x)
        BY <1>15, <3>5
      <4>2. PICK y \in owned : c = alike(y)
        BY <1>15, <2>2, <3>1, <3>3, <4>1
      <4>3. x.sub = y.sub /\ x.name = y.name
        BY <1>7, <1>14, <2>2, <4>1, <4>2
      <4> QED BY <1>17, <3>2, <4>1, <4>2, <4>3
    <3> QED BY <3>4, <3>5
  <2> QED BY <2>1, <2>2 DEF DrawnOK
<1>28. Half(r, g)
  BY <1>4, <1>12, <1>16, <1>18, <1>21, <1>24, <1>25, <1>27 DEF Half, Opened, DocumentOK
<1>29. PortsOK(r)
  BY <1>25 DEF PortsOK
<1>30. Copied(d, r, tree, copy)
  <2>1. \A e \in d.edges : e.src \in tree /\ e.dst \in tree => e \in inner
    BY DEF inner
  <2>2. \A e \in inner : /\ e \in d.edges /\ e.src \in tree /\ e.dst \in tree
                         /\ twin(e) \in r.edges /\ EdgeCopy(copy, twin(e), e)
    BY <1>13, <1>15, <1>17 DEF EdgeCopy
  <2>3. \A b \in owned : /\ b \in d.ports /\ b.sub \in tree /\ b.node \in tree
                         /\ alike(b) \in r.ports /\ PortCopy(copy, alike(b), b)
    BY <1>14, <1>15, <1>17 DEF PortCopy
  <2>4. /\ d.edges \subseteq r.edges
        /\ \A e \in d.edges : e.src \in tree /\ e.dst \in tree => \E c \in r.edges : EdgeCopy(copy, c, e)
        /\ \A c \in r.edges : c \in d.edges
              \/ \E e \in d.edges : e.src \in tree /\ e.dst \in tree /\ EdgeCopy(copy, c, e)
    BY <1>15, <2>1, <2>2
  <2>5. /\ d.ports \subseteq r.ports
        /\ \A b \in d.ports : b.sub \in tree => \E c \in r.ports : PortCopy(copy, c, b)
        /\ \A c \in r.ports : c \in d.ports
              \/ \E b \in d.ports : b.sub \in tree /\ b.node \in tree /\ PortCopy(copy, c, b)
    BY <1>15, <1>17, <2>3
  <2> QED BY <1>7, <1>8, <1>19, <1>20, <2>4, <2>5 DEF Copied
<1> QED BY <1>4, <1>26, <1>28, <1>29, <1>30 DEF Edited, r, g, tree, copy

-----------------------------------------------------------------------------
(* The pass operations. *)

\* A sequence without repetition, one element taken out.
LEMMA RemovedAt ==
  ASSUME NEW T, NEW s \in Seq(T), IsInjective(s), NEW i \in DOMAIN s
  PROVE  LET r == RemoveAt(s, i)
         IN  /\ r \in Seq(T) /\ Len(r) = Len(s) - 1 /\ IsInjective(r)
             /\ Range(r) = Range(s) \ {s[i]}
<1> DEFINE r == RemoveAt(s, i)
           u == SubSeq(s, 1, i-1)
           v == SubSeq(s, i+1, Len(s))
<1>1. i \in 1..Len(s) /\ Len(s) \in Nat /\ \A k \in 1..Len(s) : s[k] \in T
  OBVIOUS
<1>2. u \in Seq(T) /\ Len(u) = i-1 /\ \A k \in 1..i-1 : u[k] = s[k]
  BY <1>1, SubSeqProperties
<1>3. v \in Seq(T) /\ Len(v) = Len(s)-i /\ \A k \in 1..Len(s)-i : v[k] = s[k+i]
  BY <1>1, SubSeqProperties
<1>4. r = u \o v
  BY DEF RemoveAt
<1> HIDE DEF r, u, v
<1>5. r \in Seq(T) /\ Len(r) = Len(s) - 1
      /\ \A k \in 1..Len(s)-1 : r[k] = IF k < i THEN s[k] ELSE s[k+1]
  BY <1>1, <1>2, <1>3, <1>4
<1>6. DOMAIN r = 1..Len(s)-1 /\ DOMAIN s = 1..Len(s)
  BY <1>5
<1>7. IsInjective(r)
  <2> SUFFICES ASSUME NEW j \in 1..Len(s)-1, NEW k \in 1..Len(s)-1, r[j] = r[k] PROVE j = k
    BY <1>6 DEF IsInjective
  <2> DEFINE old(m) == IF m < i THEN m ELSE m+1
  <2>1. \A m \in 1..Len(s)-1 : old(m) \in 1..Len(s) /\ r[m] = s[old(m)]
    BY <1>1, <1>5
  <2>2. old(j) = old(k)
    <3> HIDE DEF old
    <3> QED BY <1>6, <2>1 DEF IsInjective
  <2> QED BY <1>1, <2>2
<1>8. ASSUME NEW x PROVE x \in Range(r) <=> x \in Range(s) \ {s[i]}
  <2>1. ASSUME x \in Range(r) PROVE x \in Range(s) \ {s[i]}
    <3>1. PICK k \in 1..Len(s)-1 : x = r[k]
      BY <1>6, <2>1 DEF Range
    <3>2. PICK m \in 1..Len(s) : x = s[m] /\ m # i
      BY <1>1, <1>5, <3>1
    <3> QED BY <1>6, <3>2 DEF Range, IsInjective
  <2>2. ASSUME x \in Range(s), x # s[i] PROVE x \in Range(r)
    <3>1. PICK m \in 1..Len(s) : x = s[m] /\ m # i
      BY <1>6, <2>2 DEF Range
    <3>2. PICK k \in 1..Len(s)-1 : k = IF m < i THEN m ELSE m-1
      BY <1>1, <3>1
    <3>3. r[k] = x
      BY <1>1, <1>5, <3>1, <3>2
    <3> QED BY <1>6, <3>3 DEF Range
  <2> QED BY <2>1, <2>2
<1> QED BY <1>5, <1>7, <1>8 DEF r

\* A sequence without repetition, one element put in.
LEMMA InsertedAt ==
  ASSUME NEW T, NEW s \in Seq(T), IsInjective(s), NEW i \in 1..Len(s)+1, NEW e \in T, e \notin Range(s)
  PROVE  LET r == InsertAt(s, i, e)
         IN  /\ r \in Seq(T) /\ Len(r) = Len(s) + 1 /\ IsInjective(r)
             /\ Range(r) = Range(s) \cup {e}
<1> DEFINE r == InsertAt(s, i, e)
           u == SubSeq(s, 1, i-1)
           v == SubSeq(s, i, Len(s))
<1>1. Len(s) \in Nat /\ DOMAIN s = 1..Len(s) /\ \A k \in 1..Len(s) : s[k] \in T
  OBVIOUS
<1>2. u \in Seq(T) /\ Len(u) = i-1 /\ \A k \in 1..i-1 : u[k] = s[k]
  BY <1>1, SubSeqProperties
<1>3. v \in Seq(T) /\ Len(v) = Len(s)-i+1 /\ \A k \in 1..Len(s)-i+1 : v[k] = s[k+i-1]
  <2>1. \A k \in i..Len(s) : s[k] \in T
    BY <1>1
  <2>2. /\ v \in Seq(T) /\ Len(v) = IF i <= Len(s) THEN Len(s)-i+1 ELSE 0
        /\ \A k \in 1..Len(s)-i+1 : v[k] = s[i+k-1]
    BY <1>1, <2>1, SubSeqProperties
  <2> HIDE DEF v
  <2> QED BY <1>1, <2>2
<1>4. r = u \o <<e>> \o v
  BY DEF InsertAt
<1> HIDE DEF r, u, v
<1> DEFINE w == u \o <<e>>
<1>5. w \in Seq(T) /\ Len(w) = i /\ \A k \in 1..i : w[k] = IF k < i THEN s[k] ELSE e
  BY <1>1, <1>2
<1>6. r = w \o v
  BY <1>4
<1> HIDE DEF w
<1>7. r \in Seq(T) /\ Len(r) = Len(s) + 1
      /\ \A k \in 1..Len(s)+1 : r[k] = IF k < i THEN s[k] ELSE IF k = i THEN e ELSE s[k-1]
  <2>1. r \in Seq(T) /\ Len(r) = Len(w) + Len(v)
    BY <1>3, <1>5, <1>6, ConcatProperties
  <2>2. \A k \in 1..i : r[k] = w[k]
    BY <1>1, <1>3, <1>5, <1>6
  <2>3. ASSUME NEW k \in i+1..Len(s)+1 PROVE r[k] = s[k-1]
    <3>1. k - i \in 1..Len(v) /\ k - i + i - 1 = k - 1
      BY <1>1, <1>3
    <3>2. r[k] = v[k-i]
      BY <1>1, <1>3, <1>5, <1>6, <3>1
    <3> QED BY <1>1, <1>3, <3>1, <3>2
  <2> QED BY <1>1, <1>3, <1>5, <2>1, <2>2, <2>3
<1>8. DOMAIN r = 1..Len(s)+1
  BY <1>7
<1>9. \A k \in 1..Len(s) : s[k] # e
  BY <1>1 DEF Range
<1>10. IsInjective(r)
  <2> SUFFICES ASSUME NEW j \in 1..Len(s)+1, NEW k \in 1..Len(s)+1, r[j] = r[k] PROVE j = k
    BY <1>8 DEF IsInjective
  <2>1. \A p, q \in 1..Len(s) : s[p] = s[q] => p = q
    BY <1>1 DEF IsInjective
  <2> DEFINE old(m) == IF m < i THEN m ELSE m-1
  <2>2. ASSUME NEW m \in 1..Len(s)+1, m # i PROVE old(m) \in 1..Len(s) /\ r[m] = s[old(m)]
    BY <1>1, <1>7, <2>2
  <2>3. r[i] = e
    BY <1>1, <1>7
  <2>4. CASE j = i \/ k = i
    <3> HIDE DEF old
    <3> QED BY <1>9, <2>2, <2>3, <2>4
  <2>5. CASE j # i /\ k # i
    <3>1. old(j) = old(k)
      <4> HIDE DEF old
      <4> QED BY <2>1, <2>2, <2>5
    <3> QED BY <2>5, <3>1
  <2> QED BY <2>4, <2>5
<1>11. ASSUME NEW x PROVE x \in Range(r) <=> x \in Range(s) \cup {e}
  <2>1. ASSUME x \in Range(r) PROVE x \in Range(s) \cup {e}
    <3>1. PICK k \in 1..Len(s)+1 : x = r[k]
      BY <1>8, <2>1 DEF Range
    <3>2. x = e \/ \E m \in 1..Len(s) : x = s[m]
      BY <1>1, <1>7, <3>1
    <3> QED BY <1>1, <3>2 DEF Range
  <2>2. ASSUME x \in Range(s) PROVE x \in Range(r)
    <3>1. PICK m \in 1..Len(s) : x = s[m]
      BY <1>1, <2>2 DEF Range
    <3>2. PICK k \in 1..Len(s)+1 : k = IF m < i THEN m ELSE m+1
      BY <1>1, <3>1
    <3>3. r[k] = x
      BY <1>1, <1>7, <3>1, <3>2
    <3> QED BY <1>8, <3>3 DEF Range
  <2>3. e \in Range(r)
    <3>1. r[i] = e /\ i \in DOMAIN r
      BY <1>7, <1>8
    <3> QED BY <3>1 DEF Range
  <2> QED BY <2>1, <2>2, <2>3
<1> QED BY <1>7, <1>10, <1>11 DEF r

\* A document stays whole when only its list of passes changes, as long as no
\* node loses the graph it is in.
LEMMA PassesMove ==
  ASSUME NEW d, NEW r, DocumentOK(d), r \in Documents(Ids(d)), Ids(r) = Ids(d),
         r.edges = d.edges, r.ports = d.ports,
         r.passes # <<>>, IsInjective(r.passes), r.code \subseteq Range(r.passes),
         r.feedbackPass \in {None, DANGLING_INDEX} \cup (0..Len(r.passes)-1),
         \A n \in Ids(d) :
           /\ r.nodes[n].home = d.nodes[n].home /\ r.nodes[n].kind = d.nodes[n].kind
           /\ d.nodes[n].home \in Range(d.passes) \ d.code => d.nodes[n].home \in Range(r.passes) \ r.code
  PROVE  /\ DocumentOK(r)
         /\ \A a, path : PathOpens(d, a, path) => PathOpens(r, a, path)
<1>1. \A n : IsSub(r, n) <=> IsSub(d, n)
  BY DEF IsSub
<1>2. NestingOK(r)
  BY <1>1 DEF DocumentOK, NestingOK
<1>3. \A n \in Ids(d) : \A dir : Ports(r, n, dir) = Ports(d, n, dir)
  BY PortsOfAlike
<1>4. EdgesOK(r)
  BY <1>3 DEF DocumentOK, EdgesOK
<1>5. PortsOK(r)
  BY <1>1, <1>3 DEF DocumentOK, PortsOK, EndpointLives, In
<1>6. DocumentOK(r)
  BY <1>2, <1>4, <1>5 DEF DocumentOK, DrawnOK
<1>7. ASSUME NEW a, NEW path, PathOpens(d, a, path) PROVE PathOpens(r, a, path)
  BY <1>1, <1>7 DEF PathOpens, IsSub
<1> QED BY <1>6, <1>7

\* applyPermutation: indices follow their passes, -1 for a pass that went.
LEMMA Renumbering ==
  ASSUME NEW d, DocumentOK(d), NEW next \in Seq(PassIds), Range(next) \subseteq Range(d.passes)
  PROVE  LET r == ApplyPermutation(d, next)
             same(i, j) == PassAt(r, j) = IF PassAt(d, i) \in Range(next) THEN PassAt(d, i) ELSE None
         IN  /\ r \in Documents(Ids(d)) /\ Ids(r) = Ids(d)
             /\ r.passes = next /\ r.code = d.code /\ r.edges = d.edges /\ r.ports = d.ports
             /\ r.feedbackPass \in {None, DANGLING_INDEX} \cup (0..Len(next)-1)
             /\ \A n \in Ids(d) : /\ r.nodes[n].home = d.nodes[n].home
                                  /\ r.nodes[n].kind = d.nodes[n].kind
             /\ \A n \in Ids(d) : d.nodes[n].kind = "sampler" /\ d.nodes[n].home \in PassIds
                                  => same(d.nodes[n].index, r.nodes[n].index)
             /\ d.feedbackPass # None => same(d.feedbackPass, r.feedbackPass)
<1> DEFINE new(i) == IF i \in 0..Len(d.passes)-1 /\ Contains(next, d.passes[i+1])
                     THEN (CHOOSE j \in 1..Len(next) : next[j] = d.passes[i+1]) - 1
                     ELSE DANGLING_INDEX
           at(s, i) == IF i \in 0..Len(s)-1 THEN s[i+1] ELSE None
           moved(n) == d.nodes[n].kind = "sampler" /\ d.nodes[n].home \in PassIds
           nodes == [n \in Ids(d) |-> IF moved(n) THEN [d.nodes[n] EXCEPT !.index = new(@)] ELSE d.nodes[n]]
           feedback == IF d.feedbackPass = None THEN None ELSE new(d.feedbackPass)
           r == ApplyPermutation(d, next)
<1>1. /\ d.passes \in Seq(PassIds) /\ Len(d.passes) \in Nat /\ DOMAIN d.passes = 1..Len(d.passes)
      /\ Len(next) \in Nat /\ DOMAIN next = 1..Len(next)
      /\ d.nodes \in [Ids(d) -> NodeRecords]
      /\ None \notin PassIds \cup Int
      /\ d.feedbackPass \in Int \cup {None}
  BY IdsAssumption DEF DocumentOK, Documents
<1>2. ASSUME NEW i \in Int
      PROVE  /\ new(i) \in {DANGLING_INDEX} \cup (0..Len(next)-1)
             /\ at(next, new(i)) = IF at(d.passes, i) \in Range(next) THEN at(d.passes, i) ELSE None
  <2>1. CASE i \in 0..Len(d.passes)-1 /\ Contains(next, d.passes[i+1])
    <3> DEFINE j == CHOOSE j \in 1..Len(next) : next[j] = d.passes[i+1]
    <3>1. j \in 1..Len(next) /\ next[j] = d.passes[i+1]
      BY <2>1 DEF Contains
    <3>2. new(i) = j - 1
      BY <2>1
    <3> HIDE DEF j, new
    <3>3. new(i) \in 0..Len(next)-1 /\ at(next, new(i)) = d.passes[i+1]
      BY <1>1, <3>1, <3>2
    <3>4. at(d.passes, i) = d.passes[i+1] /\ d.passes[i+1] \in Range(next)
      BY <1>1, <2>1, <3>1 DEF Range
    <3> QED BY <3>3, <3>4
  <2>2. CASE ~(i \in 0..Len(d.passes)-1 /\ Contains(next, d.passes[i+1]))
    <3>1. new(i) = DANGLING_INDEX
      BY <2>2
    <3> HIDE DEF new
    <3>2. at(next, new(i)) = None
      BY <1>1, <3>1 DEF DANGLING_INDEX
    <3>3. None \notin Range(next)
      BY <1>1 DEF Range
    <3>4. at(d.passes, i) \notin Range(next)
      BY <1>1, <2>2, <3>3 DEF Range, Contains
    <3> QED BY <3>1, <3>2, <3>4
  <2> QED BY <2>1, <2>2
<1>3. r = [d EXCEPT !.passes = next, !.feedbackPass = feedback, !.nodes = nodes]
  BY DEF ApplyPermutation
<1> HIDE DEF new, r
<1>4. feedback \in {None, DANGLING_INDEX} \cup (0..Len(next)-1) /\ feedback \in Int \cup {None}
  BY <1>1, <1>2 DEF DANGLING_INDEX
<1>5. ASSUME NEW n \in Ids(d)
      PROVE  /\ nodes[n] \in NodeRecords
             /\ nodes[n].home = d.nodes[n].home /\ nodes[n].kind = d.nodes[n].kind
             /\ moved(n) => nodes[n].index = new(d.nodes[n].index)
             /\ d.nodes[n].index \in Int
  <2>1. d.nodes[n] \in NodeRecords /\ d.nodes[n].index \in Int
    BY <1>1 DEF NodeRecords
  <2>2. new(d.nodes[n].index) \in Int
    BY <1>1, <1>2, <2>1 DEF DANGLING_INDEX
  <2> QED BY <2>1, <2>2 DEF NodeRecords
<1>6. nodes \in [Ids(d) -> NodeRecords]
  BY <1>5
<1> HIDE DEF nodes, feedback
<1>7. /\ r.passes = next /\ r.code = d.code /\ r.edges = d.edges /\ r.ports = d.ports
      /\ r.feedbackPass = feedback /\ r.nodes = nodes
      /\ r \in Documents(Ids(d)) /\ Ids(r) = Ids(d)
  BY <1>3, <1>4, <1>6 DEF DocumentOK, Documents, Ids
<1>8. \A i : PassAt(r, i) = at(next, i) /\ PassAt(d, i) = at(d.passes, i)
  BY <1>7 DEF PassAt
<1>9. d.feedbackPass # None => feedback = new(d.feedbackPass)
  BY DEF feedback
<1> HIDE DEF at
<1>10. ASSUME NEW n \in Ids(d), moved(n)
       PROVE  PassAt(r, r.nodes[n].index) = IF PassAt(d, d.nodes[n].index) \in Range(next)
                                            THEN PassAt(d, d.nodes[n].index) ELSE None
  BY <1>2, <1>5, <1>7, <1>8, <1>10
<1>11. ASSUME d.feedbackPass # None
       PROVE  PassAt(r, r.feedbackPass) = IF PassAt(d, d.feedbackPass) \in Range(next)
                                          THEN PassAt(d, d.feedbackPass) ELSE None
  BY <1>1, <1>2, <1>7, <1>8, <1>9, <1>11
<1> QED BY <1>4, <1>5, <1>7, <1>10, <1>11 DEF r

\* addPass
LEMMA AddPassKeeps ==
  ASSUME NEW d, DocumentOK(d), NEW p \in PassIds \ Range(d.passes)
  PROVE  LET r == AddPass(d, p)
         IN  /\ DocumentOK(r) /\ Range(r.passes) = Range(d.passes) \cup {p}
             /\ r.nodes = d.nodes /\ r.feedbackPass = d.feedbackPass
             /\ Len(d.passes) \in Nat /\ Len(r.passes) = Len(d.passes) + 1
             /\ \A i \in 1..Len(d.passes) : r.passes[i] = d.passes[i]
<1> DEFINE r == AddPass(d, p)
           new == Append(d.passes, p)
<1>1. d.passes \in Seq(PassIds) /\ Len(d.passes) \in Nat /\ DOMAIN d.passes = 1..Len(d.passes)
  BY DEF DocumentOK, Documents
<1>2. /\ new \in Seq(PassIds) /\ new # <<>> /\ Len(new) = Len(d.passes) + 1
      /\ \A i \in 1..Len(d.passes) : new[i] = d.passes[i]
      /\ new[Len(d.passes)+1] = p
  BY <1>1, AppendProperties
<1>3. /\ r.passes = new /\ r.code = d.code /\ r.edges = d.edges /\ r.ports = d.ports
      /\ r.feedbackPass = d.feedbackPass /\ r.nodes = d.nodes /\ Ids(r) = Ids(d)
      /\ r \in Documents(Ids(d))
  BY <1>2 DEF AddPass, DocumentOK, Documents, Ids
<1> HIDE DEF new, r
<1>4. DOMAIN new = 1..Len(d.passes)+1
  BY <1>1, <1>2
<1>5. Range(new) = Range(d.passes) \cup {p}
  BY <1>1, <1>2, <1>4 DEF Range
<1>6. IsInjective(new)
  <2> SUFFICES ASSUME NEW j \in 1..Len(d.passes)+1, NEW k \in 1..Len(d.passes)+1, new[j] = new[k] PROVE j = k
    BY <1>4 DEF IsInjective
  <2>1. \A i, m \in 1..Len(d.passes) : d.passes[i] = d.passes[m] => i = m
    BY <1>1 DEF DocumentOK, IsInjective
  <2>2. \A i \in 1..Len(d.passes) : d.passes[i] # p
    BY <1>1 DEF Range
  <2>3. \A m \in 1..Len(d.passes)+1 : m = Len(d.passes)+1 \/ m \in 1..Len(d.passes)
    BY <1>1
  <2>4. CASE j = Len(d.passes)+1 \/ k = Len(d.passes)+1
    BY <1>2, <2>2, <2>3, <2>4
  <2>5. CASE j \in 1..Len(d.passes) /\ k \in 1..Len(d.passes)
    BY <1>2, <2>1, <2>5
  <2> QED BY <2>3, <2>4, <2>5
<1>7. /\ d.code \subseteq Range(new)
      /\ d.feedbackPass \in {None, DANGLING_INDEX} \cup (0..Len(new)-1)
  BY <1>1, <1>2, <1>5 DEF DocumentOK
<1>8. DocumentOK(r)
  BY <1>2, <1>3, <1>5, <1>6, <1>7, PassesMove
<1> QED BY <1>1, <1>2, <1>3, <1>5, <1>8 DEF r

\* reorderPass
LEMMA ReorderPassKeeps ==
  ASSUME NEW d, DocumentOK(d), NEW from \in DOMAIN d.passes, NEW to \in DOMAIN d.passes
  PROVE  LET r == ReorderPass(d, from, to)
             same(i, j) == PassAt(r, j) = IF PassAt(d, i) \in Range(r.passes) THEN PassAt(d, i) ELSE None
         IN  /\ DocumentOK(r) /\ Range(r.passes) = Range(d.passes) /\ Ids(r) = Ids(d) /\ r.code = d.code
             /\ \A a, path : PathOpens(d, a, path) => PathOpens(r, a, path)
             /\ \A n \in Ids(d) : d.nodes[n].kind = "sampler" /\ d.nodes[n].home \in PassIds
                                  => same(d.nodes[n].index, r.nodes[n].index)
             /\ d.feedbackPass # None => same(d.feedbackPass, r.feedbackPass)
<1> DEFINE rest == RemoveAt(d.passes, from)
           next == InsertAt(rest, to, d.passes[from])
           r == ReorderPass(d, from, to)
<1>1. d.passes \in Seq(PassIds) /\ Len(d.passes) \in Nat /\ DOMAIN d.passes = 1..Len(d.passes)
      /\ IsInjective(d.passes) /\ d.passes[from] \in PassIds /\ d.passes[from] \in Range(d.passes)
  BY DEF DocumentOK, Documents, Range
<1>2. /\ rest \in Seq(PassIds) /\ Len(rest) = Len(d.passes) - 1 /\ IsInjective(rest)
      /\ Range(rest) = Range(d.passes) \ {d.passes[from]}
  BY <1>1, RemovedAt
<1> HIDE DEF rest
<1>3. to \in 1..Len(rest)+1
  BY <1>1, <1>2
<1>4. /\ next \in Seq(PassIds) /\ Len(next) = Len(rest) + 1 /\ IsInjective(next)
      /\ Range(next) = Range(rest) \cup {d.passes[from]}
  BY <1>1, <1>2, <1>3, InsertedAt
<1> HIDE DEF next
<1>5. Range(next) = Range(d.passes) /\ next # <<>>
  BY <1>1, <1>2, <1>4
<1>6. r = ApplyPermutation(d, next)
  BY DEF ReorderPass, next, rest
<1> HIDE DEF r
<1> DEFINE same(i, j) == PassAt(r, j) = IF PassAt(d, i) \in Range(next) THEN PassAt(d, i) ELSE None
<1>7. /\ r \in Documents(Ids(d)) /\ Ids(r) = Ids(d)
      /\ r.passes = next /\ r.code = d.code /\ r.edges = d.edges /\ r.ports = d.ports
      /\ r.feedbackPass \in {None, DANGLING_INDEX} \cup (0..Len(next)-1)
      /\ \A n \in Ids(d) : r.nodes[n].home = d.nodes[n].home /\ r.nodes[n].kind = d.nodes[n].kind
      /\ \A n \in Ids(d) : d.nodes[n].kind = "sampler" /\ d.nodes[n].home \in PassIds
                           => same(d.nodes[n].index, r.nodes[n].index)
      /\ d.feedbackPass # None => same(d.feedbackPass, r.feedbackPass)
  BY <1>4, <1>5, <1>6, Renumbering
<1> HIDE DEF same
<1>8. r.code \subseteq Range(r.passes)
  BY <1>5, <1>7 DEF DocumentOK
<1>9. /\ DocumentOK(r)
      /\ \A a, path : PathOpens(d, a, path) => PathOpens(r, a, path)
  BY <1>4, <1>5, <1>7, <1>8, PassesMove
<1> QED BY <1>5, <1>7, <1>9 DEF r, same

\* The nodes of a pass go with everything inside them, and nothing else.
LEMMA WithoutPassKeeps ==
  ASSUME NEW d, DocumentOK(d), NEW p \in PassIds, p \notin NodeIds
  PROVE  LET w == Without(d, In(d, p))
         IN  /\ DocumentOK(w) /\ w.passes = d.passes /\ w.code = d.code /\ w.feedbackPass = d.feedbackPass
             /\ Ids(w) = Ids(d) \ Tree(d, In(d, p))
             /\ \A n \in Ids(w) : n \in Ids(d) /\ w.nodes[n] = d.nodes[n] /\ d.nodes[n].home # p
             /\ \A a, path : a # p /\ a \notin NodeIds /\ path \in Seq(NodeIds) /\ PathOpens(d, a, path)
                             => PathOpens(w, a, path)
<1> DEFINE S == In(d, p)
           w == Without(d, S)
<1>1. /\ Half(w, p) /\ w.passes = d.passes /\ w.code = d.code
      /\ Ids(w) = Ids(d) \ Tree(d, S)
      /\ \A n \in Ids(w) : n \in Ids(d) /\ n \notin S /\ w.nodes[n] = d.nodes[n]
  BY WithoutKeeps
<1>2. w.feedbackPass = d.feedbackPass
  BY DEF DocumentOK, Documents, Without
<1>3. Ids(w) \subseteq NodeIds /\ Ids(d) \subseteq NodeIds /\ S \in SUBSET Ids(d)
  BY <1>1 DEF Half, DocumentOK, In
<1>4. \A bp \in w.ports : bp.sub # p
  BY <1>1, <1>3 DEF Half, IsSub
<1>5. DocumentOK(w)
  BY <1>1, <1>4 DEF Half, DocumentOK, PortsOK
<1>6. \A n \in Ids(w) : d.nodes[n].home # p
  BY <1>1 DEF In
<1> HIDE DEF w
<1>7. ASSUME NEW a, NEW path, a # p, a \notin NodeIds, path \in Seq(NodeIds), PathOpens(d, a, path)
      PROVE  PathOpens(w, a, path)
  <2>1. ASSUME NEW k \in 1..Len(path) PROVE path[k] \in Ids(d) /\ path[k] \notin S
    <3>1. k # 1 => path[k-1] \in NodeIds
      BY <1>7
    <3> QED BY <1>7, <3>1 DEF PathOpens, IsSub, In
  <2>2. \A k \in 1..Len(path) : path[k] \notin Tree(d, S)
    BY <1>3, <1>7, <2>1, PathIsNotInside
  <2> QED BY <1>1, <1>7, <2>1, <2>2, PathStaysOpen
<1> QED BY <1>1, <1>2, <1>5, <1>6, <1>7 DEF w

\* passToWholePassCode
LEMMA PassToCodeKeeps ==
  ASSUME NEW d, DocumentOK(d), NEW p \in Range(d.passes)
  PROVE  LET r == PassToCode(d, p)
         IN  /\ DocumentOK(r) /\ r.passes = d.passes
             /\ \A a, path : a # p /\ a \notin NodeIds /\ path \in Seq(NodeIds) /\ PathOpens(d, a, path)
                             => PathOpens(r, a, path)
<1> DEFINE w == Without(d, In(d, p))
           r == PassToCode(d, p)
<1>1. p \in PassIds /\ p \notin NodeIds
  BY PassesAreNoNodes
<1>2. /\ DocumentOK(w) /\ w.passes = d.passes /\ w.code = d.code
      /\ \A n \in Ids(w) : n \in Ids(d) /\ w.nodes[n] = d.nodes[n] /\ d.nodes[n].home # p
      /\ \A a, path : a # p /\ a \notin NodeIds /\ path \in Seq(NodeIds) /\ PathOpens(d, a, path)
                      => PathOpens(w, a, path)
  BY <1>1, WithoutPassKeeps
<1>3. r = [w EXCEPT !.code = @ \cup {p}]
  BY DEF PassToCode
<1> HIDE DEF w, r
<1>4. /\ r.passes = w.passes /\ r.code = w.code \cup {p} /\ r.edges = w.edges /\ r.ports = w.ports
      /\ r.feedbackPass = w.feedbackPass /\ r.nodes = w.nodes /\ Ids(r) = Ids(w)
      /\ r \in Documents(Ids(w))
  BY <1>1, <1>2, <1>3 DEF DocumentOK, Documents, Ids
<1>5. /\ r.code \subseteq Range(r.passes) /\ r.passes # <<>> /\ IsInjective(r.passes)
      /\ r.feedbackPass \in {None, DANGLING_INDEX} \cup (0..Len(r.passes)-1)
  BY <1>2, <1>4 DEF DocumentOK
<1>6. /\ DocumentOK(r)
      /\ \A a, path : PathOpens(w, a, path) => PathOpens(r, a, path)
  BY <1>2, <1>4, <1>5, PassesMove
<1> QED BY <1>2, <1>4, <1>6 DEF r

\* A pass written as code gets an empty graph.
LEMMA PassToGraphKeeps ==
  ASSUME NEW d, DocumentOK(d), NEW p
  PROVE  LET r == PassToGraph(d, p)
         IN  /\ DocumentOK(r) /\ r.passes = d.passes /\ r.code \subseteq d.code
             /\ \A a, path : PathOpens(d, a, path) => PathOpens(r, a, path)
<1> DEFINE r == PassToGraph(d, p)
<1>1. /\ r.passes = d.passes /\ r.code = d.code \ {p} /\ r.edges = d.edges /\ r.ports = d.ports
      /\ r.feedbackPass = d.feedbackPass /\ r.nodes = d.nodes /\ Ids(r) = Ids(d)
      /\ r \in Documents(Ids(d))
  BY DEF PassToGraph, DocumentOK, Documents, Ids
<1> HIDE DEF r
<1>2. /\ r.code \subseteq Range(r.passes) /\ r.passes # <<>> /\ IsInjective(r.passes)
      /\ r.feedbackPass \in {None, DANGLING_INDEX} \cup (0..Len(r.passes)-1)
  BY <1>1 DEF DocumentOK
<1>3. /\ DocumentOK(r)
      /\ \A a, path : PathOpens(d, a, path) => PathOpens(r, a, path)
  BY <1>1, <1>2, PassesMove
<1> QED BY <1>1, <1>3 DEF r

\* setFeedbackPass
LEMMA SetFeedbackKeeps ==
  ASSUME NEW d, DocumentOK(d), NEW i \in {None} \cup (0..Len(d.passes)-1)
  PROVE  LET r == [d EXCEPT !.feedbackPass = i]
         IN  /\ DocumentOK(r) /\ r.passes = d.passes /\ r.code = d.code
             /\ \A a, path : PathOpens(d, a, path) => PathOpens(r, a, path)
<1> DEFINE r == [d EXCEPT !.feedbackPass = i]
<1>1. /\ r.passes = d.passes /\ r.code = d.code /\ r.edges = d.edges /\ r.ports = d.ports
      /\ r.feedbackPass = i /\ r.nodes = d.nodes /\ Ids(r) = Ids(d)
      /\ r \in Documents(Ids(d))
  BY DEF DocumentOK, Documents, Ids
<1> HIDE DEF r
<1>2. /\ r.code \subseteq Range(r.passes) /\ r.passes # <<>> /\ IsInjective(r.passes)
      /\ r.feedbackPass \in {None, DANGLING_INDEX} \cup (0..Len(r.passes)-1)
  BY <1>1 DEF DocumentOK
<1>3. /\ DocumentOK(r)
      /\ \A a, path : PathOpens(d, a, path) => PathOpens(r, a, path)
  BY <1>1, <1>2, PassesMove
<1> QED BY <1>1, <1>3 DEF r

\* removePass
LEMMA RemovePassKeeps ==
  ASSUME NEW d, DocumentOK(d), NEW i \in DOMAIN d.passes, Len(d.passes) > 1
  PROVE  LET p == d.passes[i]
             r == RemovePass(d, p)
             same(x, y) == PassAt(r, y) = IF PassAt(d, x) \in Range(r.passes) THEN PassAt(d, x) ELSE None
         IN  /\ DocumentOK(r) /\ Range(r.passes) = Range(d.passes) \ {p}
             /\ Len(r.passes) = Len(d.passes) - 1
             /\ \A a, path : a # p /\ a \notin NodeIds /\ path \in Seq(NodeIds) /\ PathOpens(d, a, path)
                             => PathOpens(r, a, path)
             /\ \A n \in Ids(r) : d.nodes[n].kind = "sampler" /\ d.nodes[n].home \in PassIds
                                  => same(d.nodes[n].index, r.nodes[n].index)
             /\ d.feedbackPass # None => same(d.feedbackPass, r.feedbackPass)
<1> DEFINE p == d.passes[i]
           next == RemoveAt(d.passes, i)
           kept == ApplyPermutation(d, next)
           w == Without(d, In(d, p))
           v == Without(kept, In(kept, p))
           r == RemovePass(d, p)
<1>1. d.passes \in Seq(PassIds) /\ Len(d.passes) \in Nat /\ DOMAIN d.passes = 1..Len(d.passes)
      /\ IsInjective(d.passes) /\ p \in Range(d.passes)
      /\ (CHOOSE j \in DOMAIN d.passes : d.passes[j] = p) = i
  BY DEF DocumentOK, Documents, Range, IsInjective
<1>2. r = [v EXCEPT !.code = @ \ {p}]
  BY <1>1 DEF RemovePass
<1>3. p \in PassIds /\ p \notin NodeIds
  BY <1>1, PassesAreNoNodes
<1>4. /\ next \in Seq(PassIds) /\ Len(next) = Len(d.passes) - 1 /\ IsInjective(next)
      /\ Range(next) = Range(d.passes) \ {p}
  BY <1>1, RemovedAt
<1>5. /\ DocumentOK(w) /\ w.passes = d.passes /\ w.code = d.code /\ w.feedbackPass = d.feedbackPass
      /\ Ids(w) = Ids(d) \ Tree(d, In(d, p))
      /\ \A n \in Ids(w) : n \in Ids(d) /\ w.nodes[n] = d.nodes[n] /\ d.nodes[n].home # p
      /\ \A a, path : a # p /\ a \notin NodeIds /\ path \in Seq(NodeIds) /\ PathOpens(d, a, path)
                      => PathOpens(w, a, path)
  BY <1>3, WithoutPassKeeps
<1> DEFINE alike(x, y) == PassAt(kept, y) = IF PassAt(d, x) \in Range(next) THEN PassAt(d, x) ELSE None
<1>6. /\ kept \in Documents(Ids(d)) /\ Ids(kept) = Ids(d)
      /\ kept.passes = next /\ kept.code = d.code /\ kept.edges = d.edges /\ kept.ports = d.ports
      /\ kept.feedbackPass \in {None, DANGLING_INDEX} \cup (0..Len(next)-1)
      /\ \A n \in Ids(d) : kept.nodes[n].home = d.nodes[n].home /\ kept.nodes[n].kind = d.nodes[n].kind
      /\ \A n \in Ids(d) : d.nodes[n].kind = "sampler" /\ d.nodes[n].home \in PassIds
                           => alike(d.nodes[n].index, kept.nodes[n].index)
      /\ d.feedbackPass # None => alike(d.feedbackPass, kept.feedbackPass)
  <2>1. Range(next) \subseteq Range(d.passes)
    BY <1>4
  <2> HIDE DEF next
  <2> QED BY <1>4, <2>1, Renumbering
<1> HIDE DEF alike, next, kept, p
<1>7. In(kept, p) = In(d, p)
  BY <1>6 DEF In
<1>8. Tree(kept, In(kept, p)) = Tree(d, In(d, p))
  BY <1>6, <1>7 DEF Tree
<1>9. /\ v.nodes = [n \in Ids(w) |-> kept.nodes[n]]
      /\ v.passes = next /\ v.code = d.code /\ v.feedbackPass = kept.feedbackPass
      /\ v.edges = w.edges /\ v.ports = w.ports
  BY <1>5, <1>6, <1>8 DEF Without, Documents, DocumentOK, Restrict
<1>10. v \in Documents(Ids(w))
  <2>1. w.edges \subseteq EdgeRecords /\ w.ports \subseteq PortRecords
    BY <1>5 DEF DocumentOK, Documents
  <2>2. v.nodes \in [Ids(w) -> NodeRecords]
    BY <1>5, <1>6, <1>9 DEF Documents
  <2>3. v = [kept EXCEPT !.nodes = v.nodes, !.edges = v.edges, !.ports = v.ports]
    BY <1>6 DEF Without, Documents
  <2> HIDE DEF v, w
  <2> QED BY <1>6, <1>9, <2>1, <2>2, <2>3 DEF Documents
<1> HIDE DEF v, w
<1>11. /\ r.nodes = v.nodes /\ r.passes = next /\ r.code = d.code \ {p} /\ r.feedbackPass = kept.feedbackPass
       /\ r.edges = w.edges /\ r.ports = w.ports
       /\ Ids(r) = Ids(w) /\ r \in Documents(Ids(w))
  <2>1. Ids(w) = DOMAIN v.nodes
    BY <1>9
  <2>2. /\ r.nodes = v.nodes /\ r.passes = v.passes /\ r.code = v.code \ {p} /\ r.feedbackPass = v.feedbackPass
        /\ r.edges = v.edges /\ r.ports = v.ports /\ r \in Documents(Ids(w))
    BY <1>2, <1>10 DEF Documents
  <2> HIDE DEF r
  <2> QED BY <1>9, <2>1, <2>2 DEF Ids
<1> HIDE DEF r
<1>12. \A n \in Ids(w) : /\ n \in Ids(d) /\ r.nodes[n] = kept.nodes[n] /\ w.nodes[n] = d.nodes[n]
                         /\ d.nodes[n].home # p
  BY <1>5, <1>9, <1>11
<1>13. /\ r.passes # <<>> /\ IsInjective(r.passes) /\ r.code \subseteq Range(r.passes)
       /\ r.feedbackPass \in {None, DANGLING_INDEX} \cup (0..Len(r.passes)-1)
  <2>1. Len(r.passes) # 0
    BY <1>1, <1>4, <1>11
  <2> QED BY <1>4, <1>6, <1>11, <2>1 DEF DocumentOK
<1>14. /\ DocumentOK(r)
       /\ \A a, path : PathOpens(w, a, path) => PathOpens(r, a, path)
  <2>1. \A n \in Ids(w) :
           /\ r.nodes[n].home = w.nodes[n].home /\ r.nodes[n].kind = w.nodes[n].kind
           /\ w.nodes[n].home \in Range(w.passes) \ w.code => w.nodes[n].home \in Range(r.passes) \ r.code
    BY <1>4, <1>5, <1>6, <1>11, <1>12
  <2> QED BY <1>5, <1>11, <1>13, <2>1, PassesMove
<1>15. \A x, y : alike(x, y) => PassAt(r, y) = IF PassAt(d, x) \in Range(next) THEN PassAt(d, x) ELSE None
  BY <1>6, <1>11 DEF PassAt, alike
<1>16. \A n \in Ids(r) : d.nodes[n].kind = "sampler" /\ d.nodes[n].home \in PassIds
                         => alike(d.nodes[n].index, r.nodes[n].index)
  BY <1>6, <1>11, <1>12
<1>17. d.feedbackPass # None => alike(d.feedbackPass, r.feedbackPass)
  BY <1>6, <1>11
<1> HIDE DEF alike
<1> QED BY <1>4, <1>5, <1>11, <1>14, <1>15, <1>16, <1>17 DEF r, p

-----------------------------------------------------------------------------
(* The inductive invariant. *)

\* What undo and redo may bring back.
Snapshots ==
  {snap \in [project : UNION {Documents(I) : I \in SUBSET NodeIds}, activePassId : PassIds] : SnapshotOK(snap)}

\* Documents are whole, also those in the history, and the path opens, which is
\* what OpenGraphExists says of a path of nodes.
IInv ==
  /\ DocumentOK(project)
  /\ activePassId \in Range(project.passes)
  /\ past \in Seq(Snapshots) /\ future \in Seq(Snapshots)
  /\ level \in {"pipeline", "pass"}
  /\ subgraphPath \in Seq(NodeIds) /\ PathOpens(project, activePassId, subgraphPath)
  /\ level = "pipeline" => subgraphPath = <<>>

\* The empty path opens in every document.
LEMMA NoPathOpens ==
  ASSUME NEW d, NEW a
  PROVE  <<>> \in Seq(NodeIds) /\ PathOpens(d, a, <<>>)
BY DEF PathOpens

\* A sequence without its last element.
LEMMA FrontIsPrefix ==
  ASSUME NEW T, NEW s \in Seq(T), s # <<>>
  PROVE  /\ Front(s) \in Seq(T) /\ Len(Front(s)) = Len(s) - 1
         /\ \A k \in 1..Len(s)-1 : Front(s)[k] = s[k]
<1> DEFINE n == Len(s) - 1
<1>1. n \in Nat /\ \A k \in 1..n : s[k] \in T
  OBVIOUS
<1> HIDE DEF n
<1>2. /\ SubSeq(s, 1, n) \in Seq(T) /\ Len(SubSeq(s, 1, n)) = IF 1 <= n THEN n-1+1 ELSE 0
      /\ \A k \in 1..n-1+1 : SubSeq(s, 1, n)[k] = s[1+k-1]
  BY <1>1, SubSeqProperties
<1>3. \A k \in 1..n : SubSeq(s, 1, n)[k] = s[k]
  BY <1>1, <1>2
<1>4. Len(SubSeq(s, 1, n)) = n
  BY <1>1, <1>2
<1>5. Front(s) = SubSeq(s, 1, n) /\ n = Len(s) - 1
  BY DEF Front, n
<1>6. /\ Front(s) \in Seq(T) /\ Len(Front(s)) = n
      /\ \A k \in 1..n : Front(s)[k] = s[k]
  BY <1>2, <1>3, <1>4, <1>5, Zenon
<1> QED BY <1>5, <1>6, Zenon

\* Both ends of every edge of a whole document are at primitive nodes.
LEMMA EdgesResolve ==
  ASSUME NEW d, DocumentOK(d), NEW e \in d.edges
  PROVE  /\ Resolve(d, e.src, e.sp, "out")[1] \in Primitives(d)
         /\ Resolve(d, e.dst, e.dp, "in")[1] \in Primitives(d)
<1>1. /\ e.src \in Ids(d) /\ e.dst \in Ids(d)
      /\ e.sp \in Ports(d, e.src, "out") /\ e.dp \in Ports(d, e.dst, "in")
  BY DEF DocumentOK, EdgesOK
<1> QED BY <1>1, EndsArePrimitive

\* The invariant says what the run checks.
LEMMA IInvResolves == IInv => ReferencesResolve
<1> SUFFICES ASSUME IInv PROVE ReferencesResolve
  OBVIOUS
<1>1. TypeOK
  <2>1. \A i \in DOMAIN past : past[i] \in Snapshots
    BY DEF IInv
  <2>2. \A i \in DOMAIN future : future[i] \in Snapshots
    BY DEF IInv
  <2> QED BY <2>1, <2>2 DEF IInv, TypeOK, Snapshots
<1>2. EveryEdgeResolves
  BY EdgesResolve DEF IInv, EveryEdgeResolves
<1>3. OpenGraphExists
  BY ValidPathOpens DEF IInv, OpenGraphExists
<1> QED BY <1>1, <1>2, <1>3 DEF ReferencesResolve

\* A snapshot is of a whole document.
LEMMA SnapshotIsWhole == IInv => Snapshot \in Snapshots
<1> SUFFICES ASSUME IInv PROVE Snapshot \in Snapshots
  OBVIOUS
<1>1. project \in Documents(Ids(project)) /\ Ids(project) \subseteq NodeIds
  BY DEF IInv, DocumentOK
<1>2. activePassId \in PassIds
  BY PassesAreNoNodes DEF IInv
<1> QED BY <1>1, <1>2 DEF IInv, Snapshot, Snapshots, SnapshotOK

\* The commit of a whole document.
LEMMA CommitKeeps ==
  ASSUME IInv, NEW next, Commit(next), DocumentOK(next)
  PROVE  DocumentOK(project') /\ project' = next /\ past' \in Seq(Snapshots) /\ future' \in Seq(Snapshots)
<1>1. Snapshot \in Snapshots
  BY SnapshotIsWhole
<1>2. past \in Seq(Snapshots)
  BY DEF IInv
<1>3. Append(past, Snapshot) \in Seq(Snapshots)
  BY <1>1, <1>2, AppendProperties
<1> QED BY <1>3 DEF Commit

\* The open graph of the editor is an opened graph of the document.
LEMMA GraphIsOpened ==
  ASSUME IInv, InGraph
  PROVE  /\ Opened(project, activePassId, subgraphPath)
         /\ ActiveGraph = GraphAt(activePassId, subgraphPath, Len(subgraphPath))
         /\ Nodes = In(project, GraphAt(activePassId, subgraphPath, Len(subgraphPath)))
<1>1. subgraphPath \in Seq(NodeIds) /\ (subgraphPath = <<>> <=> Len(subgraphPath) = 0)
  BY DEF IInv
<1>2. ActiveGraph = GraphAt(activePassId, subgraphPath, Len(subgraphPath))
  BY <1>1 DEF ActiveGraph, GraphAt, Last
<1> QED BY <1>2 DEF IInv, InGraph, Opened, Nodes

\* mutateGraph: an edit of the open graph, written back and committed.
LEMMA MutateGraphKeeps ==
  ASSUME IInv, InGraph, NEW next, Edited(project, next, activePassId, subgraphPath),
         MutateGraph(next), UNCHANGED <<activePassId, nav>>
  PROVE  IInv'
<1> DEFINE r == ReplaceGraph(next, subgraphPath)
<1>1. activePassId \notin NodeIds /\ subgraphPath \in Seq(NodeIds)
  BY PassesAreNoNodes DEF IInv
<1>2. DocumentOK(r) /\ r.nodes = next.nodes /\ r.passes = project.passes
  BY <1>1, ReplaceGraphMends DEF Edited
<1> HIDE DEF r
<1>3. project' = r /\ past' \in Seq(Snapshots) /\ future' \in Seq(Snapshots)
  BY <1>2, CommitKeeps DEF MutateGraph, r
<1>4. PathOpens(r, activePassId, subgraphPath)
  BY <1>2 DEF Edited, PathOpens, IsSub, Ids
<1> QED BY <1>2, <1>3, <1>4 DEF IInv, nav

\* Undo and redo: the view follows the document.
LEMMA JumpKeeps ==
  ASSUME IInv, NEW snap \in Snapshots, JumpTo(snap), past' \in Seq(Snapshots), future' \in Seq(Snapshots)
  PROVE  IInv'
<1>1. DocumentOK(snap.project) /\ snap.activePassId \in Range(snap.project.passes)
  BY DEF Snapshots, SnapshotOK
<1>2. /\ project' = snap.project /\ activePassId' = snap.activePassId /\ level' = level
      /\ level \in {"pipeline", "pass"}
  BY <1>1 DEF JumpTo, LevelFor, IInv
<1>3. /\ subgraphPath' \in Seq(NodeIds) /\ PathOpens(snap.project, snap.activePassId, subgraphPath')
      /\ level' = "pipeline" => subgraphPath' = <<>>
  <2>1. CASE level = "pass"
    <3>1. subgraphPath' = ValidPath(snap.project, snap.activePassId, subgraphPath)
      BY <1>2, <2>1 DEF JumpTo
    <3> QED BY <1>2, <2>1, <3>1, ValidPathOpens DEF IInv
  <2>2. CASE level = "pipeline"
    <3>1. subgraphPath' = <<>>
      BY <1>2, <2>2 DEF JumpTo
    <3> QED BY <3>1, NoPathOpens
  <2> QED BY <1>2, <2>1, <2>2
<1> QED BY <1>1, <1>2, <1>3 DEF IInv

\* loadProject
LEMMA InitEstablishes == Init => IInv
<1> SUFFICES ASSUME Init PROVE IInv
  OBVIOUS
<1>1. DocumentOK(project)
  BY ProjectsAssumption DEF Init
<1>2. project.passes \in Seq(PassIds) /\ project.passes # <<>>
  BY <1>1 DEF DocumentOK, Documents
<1>3. activePassId \in Range(project.passes)
  <2>1. 1 \in DOMAIN project.passes
    BY <1>2
  <2> QED BY <2>1 DEF Init, Range
<1> QED BY <1>1, <1>3, NoPathOpens DEF Init, IInv

\* Every action keeps the invariant.
LEMMA NextPreserves == IInv /\ [Next]_vars => IInv'
<1> SUFFICES ASSUME IInv, [Next]_vars PROVE IInv'
  OBVIOUS
<1> DEFINE path == subgraphPath
           g == GraphAt(activePassId, path, Len(path))
<1>1. CASE AddNode
  <2>1. Room(project, 1) => \E n \in NodeIds : n \in NodeIds \ Ids(project)
    <3>1. NodeIds \ Ids(project) = {} => Cardinality(NodeIds \ Ids(project)) = 0
      BY FS_EmptySet
    <3> QED BY <3>1 DEF Room
  <2>2. Fresh(project) \in NodeIds \ Ids(project)
    BY <1>1, <2>1 DEF AddNode, Fresh
  <2>3. PICK kind \in {"op", "sampler"} :
          MutateGraph(WithNode(project, Fresh(project), [kind |-> kind, home |-> ActiveGraph, index |-> 0]))
    BY <1>1 DEF AddNode
  <2> DEFINE next == WithNode(project, Fresh(project), [kind |-> kind, home |-> ActiveGraph, index |-> 0])
  <2>4. Edited(project, next, activePassId, path)
    BY <1>1, <2>2, GraphIsOpened, AddNodeKeeps DEF AddNode
  <2> HIDE DEF next
  <2> QED BY <1>1, <2>3, <2>4, MutateGraphKeeps DEF AddNode, next
<1>2. CASE AddEdge
  <2>1. PICK s \in Nodes, t \in Nodes : \E sp \in Ports(project, s, "out"), tp \in Ports(project, t, "in") :
          /\ s # t
          /\ MutateGraph([project EXCEPT !.edges = @ \cup {[src |-> s, sp |-> sp, dst |-> t, dp |-> tp]}])
    BY <1>2 DEF AddEdge
  <2>2. PICK sp \in Ports(project, s, "out"), tp \in Ports(project, t, "in") :
          s # t /\ MutateGraph([project EXCEPT !.edges = @ \cup {[src |-> s, sp |-> sp, dst |-> t, dp |-> tp]}])
    BY <2>1
  <2> DEFINE next == [project EXCEPT !.edges = @ \cup {[src |-> s, sp |-> sp, dst |-> t, dp |-> tp]}]
  <2>3. Edited(project, next, activePassId, path)
    BY <1>2, <2>2, GraphIsOpened, AddEdgeKeeps DEF AddEdge
  <2> HIDE DEF next
  <2> QED BY <1>2, <2>2, <2>3, MutateGraphKeeps DEF AddEdge, next
<1>3. CASE RemoveNodes
  <2> DEFINE next == Without(project, selection \cap Nodes)
  <2>1. selection \cap Nodes \in SUBSET In(project, g)
    BY <1>3, GraphIsOpened DEF RemoveNodes
  <2>2. Edited(project, next, activePassId, path)
    BY <1>3, <2>1, GraphIsOpened, RemoveNodesKeeps DEF RemoveNodes
  <2> HIDE DEF next
  <2> QED BY <1>3, <2>2, MutateGraphKeeps DEF RemoveNodes, next
<1>4. CASE RemoveEdge
  <2>1. PICK e : MutateGraph([project EXCEPT !.edges = @ \ {e}])
    BY <1>4 DEF RemoveEdge
  <2> DEFINE next == [project EXCEPT !.edges = @ \ {e}]
  <2>2. Edited(project, next, activePassId, path)
    BY <1>4, GraphIsOpened, RemoveEdgeKeeps DEF RemoveEdge
  <2> HIDE DEF next
  <2> QED BY <1>4, <2>1, <2>2, MutateGraphKeeps DEF RemoveEdge, next
<1>5. CASE DuplicateSelection
  <2> DEFINE next == Duplicate(project, selection \cap Nodes)
  <2>1. selection \cap Nodes \in SUBSET In(project, g)
    BY <1>5, GraphIsOpened DEF DuplicateSelection
  <2>2. Edited(project, next, activePassId, path)
    BY <1>5, <2>1, GraphIsOpened, DuplicateKeeps DEF DuplicateSelection
  <2> HIDE DEF next
  <2> QED BY <1>5, <2>2, MutateGraphKeeps DEF DuplicateSelection, next
<1>6. CASE SetIndex
  <2>1. PICK n \in Nodes, i \in 0..Len(project.passes)-1 : MutateGraph([project EXCEPT !.nodes[n].index = i])
    BY <1>6 DEF SetIndex
  <2> DEFINE next == [project EXCEPT !.nodes[n].index = i]
  <2>2. n \in Ids(project) /\ i \in Int
    BY DEF Nodes, In
  <2>3. Edited(project, next, activePassId, path)
    BY <1>6, <2>2, GraphIsOpened, SetIndexKeeps DEF SetIndex
  <2> HIDE DEF next
  <2> QED BY <1>6, <2>1, <2>3, MutateGraphKeeps DEF SetIndex, next
<1>7. CASE Collapse
  <2>1. NodeIds \ Ids(project) # {}
    <3>1. NodeIds \ Ids(project) = {} => Cardinality(NodeIds \ Ids(project)) = 0
      BY FS_EmptySet
    <3> QED BY <1>7, <3>1 DEF Collapse, Room
  <2>2. Fresh(project) \in NodeIds \ Ids(project)
    BY <2>1 DEF Fresh
  <2> DEFINE next == CollapseSelection(project, selection \cap Nodes, Fresh(project))
  <2>3. selection \cap Nodes \in SUBSET In(project, g) /\ selection \cap Nodes # {}
    BY <1>7, GraphIsOpened DEF Collapse
  <2>4. Edited(project, next, activePassId, path)
    BY <1>7, <2>2, <2>3, GraphIsOpened, CollapseKeeps DEF Collapse
  <2> HIDE DEF next
  <2> QED BY <1>7, <2>4, MutateGraphKeeps DEF Collapse, next
<1>8. CASE Expand
  <2>1. PICK s \in Nodes : IsSub(project, s) /\ MutateGraph(ExpandSubgraph(project, s))
    BY <1>8 DEF Expand
  <2> DEFINE next == ExpandSubgraph(project, s)
  <2>2. Edited(project, next, activePassId, path)
    BY <1>8, <2>1, GraphIsOpened, ExpandKeeps DEF Expand
  <2> HIDE DEF next
  <2> QED BY <1>8, <2>1, <2>2, MutateGraphKeeps DEF Expand, next
<1>9. CASE Select
  BY <1>9 DEF Select, IInv, nav, history
<1>10. CASE AddNewPass
  <2>1. PICK p \in PassIds \ Range(project.passes) : Commit(AddPass(project, p)) /\ activePassId' = p
    BY <1>10 DEF AddNewPass
  <2>2. DocumentOK(AddPass(project, p)) /\ p \in Range(AddPass(project, p).passes)
    <3>1. DocumentOK(project)
      BY DEF IInv
    <3>2. DocumentOK(AddPass(project, p)) /\ Range(AddPass(project, p).passes) = Range(project.passes) \cup {p}
      BY <3>1, AddPassKeeps
    <3> QED BY <3>2
  <2>3. project' = AddPass(project, p) /\ past' \in Seq(Snapshots) /\ future' \in Seq(Snapshots)
    BY <2>1, <2>2, CommitKeeps
  <2>4. subgraphPath' = <<>> /\ level' = level
    BY <1>10 DEF AddNewPass
  <2> QED BY <2>1, <2>2, <2>3, <2>4, NoPathOpens DEF IInv
<1>11. CASE DropPass
  <2>1. PICK i \in DOMAIN project.passes :
          LET p == project.passes[i]
              next == RemovePass(project, p)
          IN  /\ Commit(next)
              /\ activePassId' = IF activePassId = p
                                 THEN next.passes[Min({i, Len(next.passes)})] ELSE activePassId
              /\ subgraphPath' = IF activePassId = p THEN <<>> ELSE subgraphPath
    BY <1>11 DEF DropPass
  <2> DEFINE p == project.passes[i]
             next == RemovePass(project, p)
  <2>2. Len(project.passes) > 1 /\ level' = level
    BY <1>11 DEF DropPass
  <2>3. /\ DocumentOK(next) /\ Range(next.passes) = Range(project.passes) \ {p}
        /\ Len(next.passes) = Len(project.passes) - 1
        /\ activePassId # p /\ activePassId \notin NodeIds => PathOpens(next, activePassId, path)
    BY <2>2, RemovePassKeeps DEF IInv
  <2> HIDE DEF next, p
  <2>4. project' = next /\ past' \in Seq(Snapshots) /\ future' \in Seq(Snapshots)
    BY <2>1, <2>3, CommitKeeps DEF next, p
  <2>5. activePassId' \in Range(next.passes)
    <3>1. CASE activePassId = p
      <4>1. next.passes \in Seq(PassIds) /\ Len(next.passes) \in Nat /\ next.passes # <<>>
        BY <2>3 DEF DocumentOK, Documents
      <4>2. project.passes \in Seq(PassIds)
        BY DEF IInv, DocumentOK, Documents
      <4>3. i \in Nat \ {0}
        BY <4>2
      <4>4. Min({i, Len(next.passes)}) \in 1..Len(next.passes)
        BY <4>1, <4>3 DEF Min
      <4>5. activePassId' = next.passes[Min({i, Len(next.passes)})]
        BY <2>1, <3>1 DEF next, p
      <4>6. \A k \in 1..Len(next.passes) : next.passes[k] \in Range(next.passes)
        BY <4>1 DEF Range
      <4> QED BY <4>4, <4>5, <4>6
    <3>2. CASE activePassId # p
      <4>1. activePassId' = activePassId
        BY <2>1, <3>2 DEF p
      <4> QED BY <2>3, <3>2, <4>1 DEF IInv
    <3> QED BY <3>1, <3>2
  <2>6. subgraphPath' \in Seq(NodeIds) /\ PathOpens(next, activePassId', subgraphPath')
    <3>1. CASE activePassId = p
      <4>1. subgraphPath' = <<>>
        BY <2>1, <3>1 DEF p
      <4> QED BY <4>1, NoPathOpens
    <3>2. CASE activePassId # p
      <4>1. activePassId' = activePassId /\ subgraphPath' = subgraphPath
        BY <2>1, <3>2 DEF p
      <4>2. activePassId \notin NodeIds
        BY PassesAreNoNodes DEF IInv
      <4> QED BY <2>3, <3>2, <4>1, <4>2 DEF IInv
    <3> QED BY <3>1, <3>2
  <2>7. level' = "pipeline" => subgraphPath' = <<>>
    BY <2>1, <2>2 DEF IInv
  <2> QED BY <2>2, <2>3, <2>4, <2>5, <2>6, <2>7 DEF IInv
<1>12. CASE MovePass
  <2>1. PICK from \in DOMAIN project.passes, to \in DOMAIN project.passes : Commit(ReorderPass(project, from, to))
    BY <1>12 DEF MovePass
  <2> DEFINE next == ReorderPass(project, from, to)
  <2>2. /\ DocumentOK(next) /\ Range(next.passes) = Range(project.passes)
        /\ \A a, q : PathOpens(project, a, q) => PathOpens(next, a, q)
    BY ReorderPassKeeps DEF IInv
  <2> HIDE DEF next
  <2>3. project' = next /\ past' \in Seq(Snapshots) /\ future' \in Seq(Snapshots)
    BY <2>1, <2>2, CommitKeeps DEF next
  <2>4. UNCHANGED <<activePassId, level, subgraphPath>>
    BY <1>12 DEF MovePass, nav
  <2> QED BY <2>2, <2>3, <2>4 DEF IInv
<1>13. CASE SetPassToCode
  <2>1. PICK p \in Range(project.passes) :
          /\ Commit(PassToCode(project, p))
          /\ subgraphPath' = IF activePassId = p THEN <<>> ELSE subgraphPath
    BY <1>13 DEF SetPassToCode
  <2> DEFINE next == PassToCode(project, p)
  <2>2. activePassId \notin NodeIds
    BY PassesAreNoNodes DEF IInv
  <2>3. /\ DocumentOK(next) /\ next.passes = project.passes
        /\ activePassId # p => PathOpens(next, activePassId, subgraphPath)
    BY <2>2, PassToCodeKeeps DEF IInv
  <2> HIDE DEF next
  <2>4. project' = next /\ past' \in Seq(Snapshots) /\ future' \in Seq(Snapshots)
    BY <2>1, <2>3, CommitKeeps DEF next
  <2>5. UNCHANGED <<activePassId, level>>
    BY <1>13 DEF SetPassToCode
  <2>6. subgraphPath' \in Seq(NodeIds) /\ PathOpens(next, activePassId, subgraphPath')
    BY <2>1, <2>3, NoPathOpens DEF IInv
  <2>7. level' = "pipeline" => subgraphPath' = <<>>
    BY <2>1, <2>5 DEF IInv
  <2> QED BY <2>3, <2>4, <2>5, <2>6, <2>7 DEF IInv
<1>14. CASE SetPassToGraph
  <2>1. PICK p : Commit(PassToGraph(project, p))
    BY <1>14 DEF SetPassToGraph
  <2> DEFINE next == PassToGraph(project, p)
  <2>2. /\ DocumentOK(next) /\ next.passes = project.passes
        /\ \A a, q : PathOpens(project, a, q) => PathOpens(next, a, q)
    BY PassToGraphKeeps DEF IInv
  <2> HIDE DEF next
  <2>3. project' = next /\ past' \in Seq(Snapshots) /\ future' \in Seq(Snapshots)
    BY <2>1, <2>2, CommitKeeps DEF next
  <2>4. UNCHANGED <<activePassId, level, subgraphPath>>
    BY <1>14 DEF SetPassToGraph, nav
  <2> QED BY <2>2, <2>3, <2>4 DEF IInv
<1>15. CASE SetFeedbackPass
  <2>1. PICK i \in {None} \cup (0..Len(project.passes)-1) : Commit([project EXCEPT !.feedbackPass = i])
    BY <1>15 DEF SetFeedbackPass
  <2> DEFINE next == [project EXCEPT !.feedbackPass = i]
  <2>2. /\ DocumentOK(next) /\ next.passes = project.passes
        /\ \A a, q : PathOpens(project, a, q) => PathOpens(next, a, q)
    BY SetFeedbackKeeps DEF IInv
  <2> HIDE DEF next
  <2>3. project' = next /\ past' \in Seq(Snapshots) /\ future' \in Seq(Snapshots)
    BY <2>1, <2>2, CommitKeeps DEF next
  <2>4. UNCHANGED <<activePassId, level, subgraphPath>>
    BY <1>15 DEF SetFeedbackPass, nav
  <2> QED BY <2>2, <2>3, <2>4 DEF IInv
<1>16. CASE OpenPass
  BY <1>16, NoPathOpens DEF OpenPass, history, IInv
<1>17. CASE ShowPipeline
  BY <1>17, NoPathOpens DEF ShowPipeline, history, IInv
<1>18. CASE OpenSubgraph
  <2>1. PICK s \in Nodes : IsSub(project, s) /\ subgraphPath' = Append(subgraphPath, s)
    BY <1>18 DEF OpenSubgraph
  <2>2. s \in NodeIds /\ project.nodes[s].home = g
    BY <1>18, <2>1, GraphIsOpened DEF OpenSubgraph, In, IInv, DocumentOK
  <2>3. subgraphPath \in Seq(NodeIds) /\ Len(subgraphPath) \in Nat
    BY DEF IInv
  <2>4. /\ subgraphPath' \in Seq(NodeIds) /\ Len(subgraphPath') = Len(subgraphPath) + 1
        /\ \A k \in 1..Len(subgraphPath) : subgraphPath'[k] = subgraphPath[k]
        /\ subgraphPath'[Len(subgraphPath) + 1] = s
    BY <2>1, <2>2, <2>3, AppendProperties
  <2>5. UNCHANGED <<project, activePassId, level, past, future>> /\ level = "pass"
    BY <1>18 DEF OpenSubgraph, history, InGraph
  <2>6. PathOpens(project, activePassId, subgraphPath')
    <3> SUFFICES ASSUME NEW k \in 1..Len(subgraphPath')
                 PROVE  /\ IsSub(project, subgraphPath'[k])
                        /\ project.nodes[subgraphPath'[k]].home = IF k = 1 THEN activePassId ELSE subgraphPath'[k-1]
      BY DEF PathOpens
    <3>1. CASE k = Len(subgraphPath) + 1
      BY <2>1, <2>2, <2>3, <2>4, <3>1 DEF GraphAt
    <3>2. CASE k # Len(subgraphPath) + 1
      <4>1. k \in 1..Len(subgraphPath) /\ (k # 1 => k-1 \in 1..Len(subgraphPath))
        BY <2>3, <2>4, <3>2
      <4>2. subgraphPath'[k] = subgraphPath[k] /\ (k # 1 => subgraphPath'[k-1] = subgraphPath[k-1])
        BY <2>4, <4>1
      <4> QED BY <4>1, <4>2 DEF IInv, PathOpens
    <3> QED BY <3>1, <3>2
  <2> QED BY <2>4, <2>5, <2>6 DEF IInv
<1>19. CASE CloseSubgraph
  <2>1. subgraphPath # <<>> /\ subgraphPath' = Front(subgraphPath) /\ subgraphPath \in Seq(NodeIds)
    BY <1>19 DEF CloseSubgraph, IInv
  <2>2. /\ subgraphPath' \in Seq(NodeIds) /\ Len(subgraphPath') = Len(subgraphPath) - 1
        /\ \A k \in 1..Len(subgraphPath)-1 : subgraphPath'[k] = subgraphPath[k]
    BY <2>1, FrontIsPrefix
  <2>3. UNCHANGED <<project, activePassId, level, past, future>>
    BY <1>19 DEF CloseSubgraph, history
  <2>4. PathOpens(project, activePassId, subgraphPath')
    BY <2>1, <2>2 DEF IInv, PathOpens
  <2>5. level # "pipeline"
    BY <2>1 DEF IInv
  <2> QED BY <2>2, <2>3, <2>4, <2>5 DEF IInv
<1>20. CASE Undo
  <2>1. past \in Seq(Snapshots) /\ future \in Seq(Snapshots) /\ past # <<>>
    BY <1>20 DEF Undo, IInv
  <2>2. Last(past) \in Snapshots /\ Front(past) \in Seq(Snapshots)
    BY <2>1 DEF Last, Front
  <2>3. Append(future, Snapshot) \in Seq(Snapshots)
    BY <2>1, SnapshotIsWhole, AppendProperties
  <2> QED BY <1>20, <2>2, <2>3, JumpKeeps DEF Undo
<1>21. CASE Redo
  <2>1. past \in Seq(Snapshots) /\ future \in Seq(Snapshots) /\ future # <<>>
    BY <1>21 DEF Redo, IInv
  <2>2. Last(future) \in Snapshots /\ Front(future) \in Seq(Snapshots)
    BY <2>1 DEF Last, Front
  <2>3. Append(past, Snapshot) \in Seq(Snapshots)
    BY <2>1, SnapshotIsWhole, AppendProperties
  <2> QED BY <1>21, <2>2, <2>3, JumpKeeps DEF Redo
<1>22. CASE UNCHANGED vars
  BY <1>22 DEF vars, nav, history, IInv
<1> QED BY <1>1, <1>2, <1>3, <1>4, <1>5, <1>6, <1>7, <1>8, <1>9, <1>10, <1>11, <1>12, <1>13,
           <1>14, <1>15, <1>16, <1>17, <1>18, <1>19, <1>20, <1>21, <1>22 DEF Next

-----------------------------------------------------------------------------
(* What the document means to the compiler. *)

\* A document in which boundary ports lead one level down, if anywhere, and to
\* a port of the node if that is a primitive one.  Documents are, also before
\* an edit is written back.
Tame(d) ==
  /\ d \in Documents(Ids(d)) /\ Ids(d) \subseteq NodeIds /\ NestingOK(d) /\ DrawnOK(d)
  /\ \A bp \in d.ports :
       /\ bp.node \in Ids(d) => d.nodes[bp.node].home = bp.sub
       /\ bp.node \in Primitives(d) => bp.port \in Ports(d, bp.node, bp.dir)

\* Where an end of an edge may be, or arrive.
Ends == (NodeIds \cup {None}) \X (Nat \cup {None})

\* Where it arrives among the primitive nodes.
Nowhere == <<None, None>>
End(d, e, dir) ==
  IF Resolve(d, e[1], e[2], dir)[1] \in Primitives(d) THEN Resolve(d, e[1], e[2], dir) ELSE Nowhere

\* The steps Resolve takes.
Steps(d, dir, at) ==
  \A k \in 1..Cardinality(Ids(d)) :
    at[k] = IF IsSub(d, at[k-1][1]) THEN Inward(d, at[k-1], dir) ELSE at[k-1]

Resolution(d, e, dir, at) ==
  /\ at[0] = <<e[1], e[2]>>
  /\ Steps(d, dir, at)
  /\ Resolve(d, e[1], e[2], dir) = at[Cardinality(Ids(d))]

LEMMA ResolutionSteps ==
  ASSUME NEW d, Ids(d) \subseteq NodeIds, NEW e, NEW dir
  PROVE  /\ IsFiniteSet(Ids(d)) /\ Cardinality(Ids(d)) \in Nat
         /\ \E at : Resolution(d, e, dir, at)
<1> DEFINE N == Cardinality(Ids(d))
           x == e[1]
           p == e[2]
<1>1. IsFiniteSet(Ids(d)) /\ N \in Nat
  BY IdsAssumption, FS_Subset, FS_CardinalityType
<1>2. PICK at : /\ at = [k \in 0..N |->
                            IF k = 0 THEN <<x, p>>
                            ELSE IF IsSub(d, at[k-1][1]) THEN Inward(d, at[k-1], dir) ELSE at[k-1]]
                /\ Resolve(d, x, p, dir) = at[N]
  BY <1>1, ResolutionEnds
<1> HIDE DEF N
<1>3. 0 \in 0..N
  BY <1>1
<1>4. at = [k \in 0..N |-> IF k = 0 THEN <<x, p>>
              ELSE IF IsSub(d, at[k-1][1]) THEN Inward(d, at[k-1], dir) ELSE at[k-1]]
  BY <1>2
<1>5. at[0] = <<x, p>>
  BY ONLY <1>3, <1>4
<1>6. \A k \in 0..N : k # 0 => at[k] = IF IsSub(d, at[k-1][1]) THEN Inward(d, at[k-1], dir) ELSE at[k-1]
  BY ONLY <1>4, Zenon
<1>7. \A k \in 1..N : k \in 0..N /\ k # 0
  BY <1>1
<1>8. \A k \in 1..N : at[k] = IF IsSub(d, at[k-1][1]) THEN Inward(d, at[k-1], dir) ELSE at[k-1]
  BY ONLY <1>6, <1>7, Zenon
<1>9. Steps(d, dir, at)
  BY <1>8 DEF N, Steps
<1>10. Resolve(d, x, p, dir) = at[Cardinality(Ids(d))]
  BY <1>2 DEF N
<1>11. Resolution(d, e, dir, at)
  BY <1>5, <1>9, <1>10 DEF Resolution
<1> QED BY <1>1, <1>11, Zenon DEF N

\* A boundary port leads inside its node, to an end, or nowhere.
LEMMA InwardDescends ==
  ASSUME NEW d, Tame(d), NEW e, NEW dir
  PROVE  LET i == Inward(d, e, dir)
         IN  /\ i \in Ends
             /\ i = Nowhere \/ i[1] \in NodeIds
             /\ i[1] \in Ids(d) => d.nodes[i[1]].home = e[1]
<1> DEFINE bound == {bp \in d.ports : bp.sub = e[1] /\ bp.name = e[2] /\ bp.dir = dir}
           b == CHOOSE bp \in bound : TRUE
<1>1. CASE bound = {}
  BY <1>1, IdsAssumption DEF Inward, Ends, Nowhere, Tame
<1>2. CASE bound # {}
  <2>1. b \in bound
    BY <1>2
  <2>2. b \in PortRecords /\ b.sub = e[1] /\ (b.node \in Ids(d) => d.nodes[b.node].home = b.sub)
    BY <2>1 DEF Tame, Documents
  <2>3. Inward(d, e, dir) = <<b.node, b.port>>
    BY <1>2 DEF Inward
  <2> HIDE DEF b, bound
  <2> QED BY <2>2, <2>3 DEF PortRecords, Ends
<1> QED BY <1>1, <1>2

\* Where a boundary port leads is a matter of the ports at that end.
LEMMA SameBoundary ==
  ASSUME NEW d, NEW r, NEW e, NEW dir,
         {b \in r.ports : b.sub = e[1] /\ b.name = e[2] /\ b.dir = dir}
           = {b \in d.ports : b.sub = e[1] /\ b.name = e[2] /\ b.dir = dir}
  PROVE  Inward(r, e, dir) = Inward(d, e, dir)
<1> DEFINE R == {b \in r.ports : b.sub = e[1] /\ b.name = e[2] /\ b.dir = dir}
           D == {b \in d.ports : b.sub = e[1] /\ b.name = e[2] /\ b.dir = dir}
           To(B) == IF B = {} THEN <<None, None>>
                    ELSE <<(CHOOSE b \in B : TRUE).node, (CHOOSE b \in B : TRUE).port>>
<1>1. Inward(r, e, dir) = To(R) /\ Inward(d, e, dir) = To(D)
  BY DEF Inward
<1>2. R = D
  OBVIOUS
<1> HIDE DEF R, D, To
<1> QED BY <1>1, <1>2

\* There are as many levels as nodes at most: the steps end outside of a
\* subgraph node.
LEMMA ResolutionStops ==
  ASSUME NEW d, Tame(d), NEW at, NEW dir, Steps(d, dir, at)
  PROVE  ~IsSub(d, at[Cardinality(Ids(d))][1])
<1> DEFINE N == Cardinality(Ids(d))
<1>1. IsFiniteSet(Ids(d)) /\ N \in Nat
  BY IdsAssumption, FS_Subset, FS_CardinalityType DEF Tame
<1>2. SUFFICES ASSUME IsSub(d, at[N][1]) PROVE FALSE
  OBVIOUS
<1>3. \A k \in 1..N : at[k] = IF IsSub(d, at[k-1][1]) THEN Inward(d, at[k-1], dir) ELSE at[k-1]
  BY DEF Steps
<1> HIDE DEF N
<1>6. \A k \in 0..N : IsSub(d, at[k][1])
  <2> SUFFICES ASSUME NEW k \in 0..N, ~IsSub(d, at[k][1]) PROVE FALSE
    OBVIOUS
  <2> DEFINE Bad == {m \in k..N : at[m] # at[k]}
  <2>1. Bad \in SUBSET Nat /\ N \in Bad
    BY <1>1, <1>2
  <2>2. PICK m \in Bad : \A j \in Bad : m <= j
    BY <2>1, LeastNumber, Zenon
  <2>3. m \in k..N /\ at[m] # at[k]
    BY <2>2
  <2>4. m # k /\ m - 1 \in k..N /\ m - 1 \notin Bad /\ m \in 1..N
    BY <2>2, <2>3, <1>1
  <2>5. at[m-1] = at[k]
    BY <2>4
  <2> QED BY <2>3, <2>4, <2>5, <1>3
<1>4. \A k \in 0..N : at[k][1] \in Ids(d)
  BY <1>6 DEF IsSub
<1>7. \A k \in 1..N : d.nodes[at[k][1]].home = at[k-1][1]
  <2> SUFFICES ASSUME NEW k \in 1..N PROVE d.nodes[at[k][1]].home = at[k-1][1]
    OBVIOUS
  <2>1. k \in 0..N /\ k - 1 \in 0..N
    BY <1>1
  <2>2. at[k] = Inward(d, at[k-1], dir)
    BY <2>1, <1>3, <1>6
  <2> QED BY <2>1, <2>2, <1>4, InwardDescends
<1>8. ASSUME NEW i \in 0..N, NEW j \in 0..N, i < j PROVE at[i][1] # at[j][1]
  <2> SUFFICES ASSUME at[i][1] = at[j][1] PROVE FALSE
    OBVIOUS
  <2> DEFINE A == {at[m][1] : m \in i+1..j}
  <2>1. A \in SUBSET Ids(d) /\ at[j][1] \in A
    BY <1>1, <1>4, <1>8
  <2>2. ASSUME NEW n \in A PROVE d.nodes[n].home \in A
    <3>1. PICK m \in i+1..j : n = at[m][1]
      BY <2>2
    <3>2. m \in 1..N /\ d.nodes[n].home = at[m-1][1]
      BY <3>1, <1>1, <1>7
    <3>3. m = i + 1 \/ m - 1 \in i+1..j
      BY <3>1, <1>1
    <3> QED BY <3>2, <3>3, <2>1
  <2> QED BY <2>1, <2>2 DEF Tame, NestingOK
<1>9. IsFiniteSet(0..N) /\ Cardinality(0..N) = N + 1
  BY <1>1, FS_Interval
<1> DEFINE f == [k \in 0..N |-> at[k][1]]
<1>10. f \in [0..N -> Ids(d)]
  BY <1>4
<1>11. \E i, j \in 0..N : i # j /\ f[i] = f[j]
  <2>1. Cardinality(Ids(d)) < Cardinality(0..N)
    BY <1>1, <1>9 DEF N
  <2> HIDE DEF f
  <2> QED BY <2>1, <1>1, <1>9, <1>10, FS_PigeonHole
<1> QED BY <1>8, <1>11, <1>1

\* An end in a subgraph node arrives where its boundary port leads, any other
\* end has arrived.
LEMMA ResolutionUnfolds ==
  ASSUME NEW d, Tame(d), NEW e \in Ends, NEW dir
  PROVE  LET i == Inward(d, e, dir)
         IN  Resolve(d, e[1], e[2], dir) = IF IsSub(d, e[1]) THEN Resolve(d, i[1], i[2], dir) ELSE e
<1> DEFINE i == Inward(d, e, dir)
           N == Cardinality(Ids(d))
<1>0. Ids(d) \subseteq NodeIds
  BY DEF Tame
<1>1. N \in Nat /\ IsFiniteSet(Ids(d))
  BY <1>0, ResolutionSteps
<1> HIDE DEF i
<1>10. PICK at : Resolution(d, e, dir, at)
  BY <1>0, ResolutionSteps
<1>11. PICK bt : Resolution(d, i, dir, bt)
  BY <1>0, ResolutionSteps
<1>2. at[0] = <<e[1], e[2]>> /\ Steps(d, dir, at) /\ Resolve(d, e[1], e[2], dir) = at[N]
  BY <1>10 DEF Resolution
<1>3. bt[0] = <<i[1], i[2]>> /\ Steps(d, dir, bt) /\ Resolve(d, i[1], i[2], dir) = bt[N]
  BY <1>11 DEF Resolution
<1>4. e = <<e[1], e[2]>> /\ i = <<i[1], i[2]>>
  BY InwardDescends DEF Ends, i
<1>5. ~IsSub(d, at[N][1])
  BY <1>2, ResolutionStops
<1>8. \A k \in 1..N : at[k] = IF IsSub(d, at[k-1][1]) THEN Inward(d, at[k-1], dir) ELSE at[k-1]
  BY <1>2 DEF Steps
<1>9. \A k \in 1..N : bt[k] = IF IsSub(d, bt[k-1][1]) THEN Inward(d, bt[k-1], dir) ELSE bt[k-1]
  BY <1>3 DEF Steps
<1> HIDE DEF N
<1>6. CASE ~IsSub(d, e[1])
  <2> DEFINE Bad == {m \in 0..N : at[m] # e}
  <2>1. Bad \in SUBSET Nat
    BY <1>1
  <2>2. ASSUME Bad # {} PROVE FALSE
    <3>1. PICK m \in Bad : \A j \in Bad : m <= j
      BY <2>1, <2>2, LeastNumber, Zenon
    <3>2. m # 0 /\ m \in 1..N
      BY <3>1, <1>2, <1>4, <1>1
    <3>3. m - 1 \in 0..N /\ m - 1 \notin Bad
      BY <3>1, <3>2, <1>1
    <3> QED BY <3>1, <3>2, <3>3, <1>8, <1>6
  <2>3. at[N] = e
    BY <2>2, <1>1
  <2> QED BY <2>3, <1>2, <1>6
<1>7. CASE IsSub(d, e[1])
  <2>1. N >= 1
    <3>1. Ids(d) # {}
      BY <1>7 DEF IsSub
    <3>2. N # 0
      BY <1>1, <3>1, FS_EmptySet DEF N
    <3> QED BY <3>2, <1>1
  <2> DEFINE Bad == {m \in 0..N-1 : bt[m] # at[m+1]}
  <2>2. Bad \in SUBSET Nat
    BY <1>1
  <2>3. ASSUME Bad # {} PROVE FALSE
    <3>1. PICK m \in Bad : \A j \in Bad : m <= j
      BY <2>2, <2>3, LeastNumber, Zenon
    <3>2. m \in 0..N-1 /\ bt[m] # at[m+1]
      BY <3>1
    <3>3. CASE m = 0
      <4>1. at[1] = Inward(d, at[0], dir)
        BY <2>1, <1>1, <1>2, <1>8, <1>4, <1>7
      <4> QED BY <3>2, <3>3, <4>1, <1>2, <1>3, <1>4 DEF i
    <3>4. CASE m # 0
      <4>1. m - 1 \in 0..N-1 /\ m - 1 \notin Bad /\ m \in 1..N /\ m + 1 \in 1..N
        BY <3>1, <3>2, <3>4, <1>1
      <4>2. bt[m-1] = at[m]
        BY <4>1
      <4>3. /\ bt[m] = IF IsSub(d, bt[m-1][1]) THEN Inward(d, bt[m-1], dir) ELSE bt[m-1]
            /\ at[m+1] = IF IsSub(d, at[m][1]) THEN Inward(d, at[m], dir) ELSE at[m]
        BY <4>1, <1>8, <1>9
      <4> QED BY <3>2, <4>2, <4>3
    <3> QED BY <3>3, <3>4
  <2>4. bt[N-1] = at[N]
    <3>1. N - 1 \in 0..N-1 /\ N - 1 \notin Bad
      BY <2>1, <2>3, <1>1
    <3> QED BY <3>1, <1>1
  <2>5. bt[N] = bt[N-1]
    BY <2>1, <2>4, <1>1, <1>9, <1>5
  <2> QED BY <2>4, <2>5, <1>2, <1>3, <1>7 DEF i
<1> QED BY <1>6, <1>7 DEF i

\* What holds of the ends that have arrived, and of each end when it holds of
\* the one its boundary port leads to, holds of all.
LEMMA EndInduction ==
  ASSUME NEW d, Tame(d), NEW dir, NEW Good,
         \A e \in Ends : ~IsSub(d, e[1]) => e \in Good,
         \A e \in Ends : IsSub(d, e[1]) /\ Inward(d, e, dir) \in Good => e \in Good
  PROVE  \A e \in Ends : e \in Good
<1> SUFFICES ASSUME NEW e \in Ends PROVE e \in Good
  OBVIOUS
<1> DEFINE N == Cardinality(Ids(d))
<1>0. Ids(d) \subseteq NodeIds
  BY DEF Tame
<1>1. N \in Nat
  BY <1>0, ResolutionSteps
<1>10. PICK at : Resolution(d, e, dir, at)
  BY <1>0, ResolutionSteps
<1>2. at[0] = <<e[1], e[2]>> /\ Steps(d, dir, at)
  BY <1>10 DEF Resolution
<1>3. ~IsSub(d, at[N][1])
  BY <1>2, ResolutionStops
<1>4. at[0] = e
  BY <1>2 DEF Ends
<1>8. \A k \in 1..N : at[k] = IF IsSub(d, at[k-1][1]) THEN Inward(d, at[k-1], dir) ELSE at[k-1]
  BY <1>2 DEF Steps
<1> HIDE DEF N
<1>5. \A k \in 0..N : at[k] \in Ends
  <2> DEFINE Bad == {m \in 0..N : at[m] \notin Ends}
  <2>1. Bad \in SUBSET Nat
    BY <1>1
  <2>2. ASSUME Bad # {} PROVE FALSE
    <3>1. PICK m \in Bad : \A j \in Bad : m <= j
      BY <2>1, <2>2, LeastNumber, Zenon
    <3>2. m \in 1..N /\ m - 1 \in 0..N /\ m - 1 \notin Bad
      BY <3>1, <1>1, <1>4
    <3> QED BY <3>1, <3>2, <1>8, InwardDescends
  <2> QED BY <2>2
<1>6. \A k \in 0..N : at[N - k] \in Good
  <2> DEFINE Bad == {m \in 0..N : at[N - m] \notin Good}
  <2>1. Bad \in SUBSET Nat
    BY <1>1
  <2>2. ASSUME Bad # {} PROVE FALSE
    <3>1. PICK m \in Bad : \A j \in Bad : m <= j
      BY <2>1, <2>2, LeastNumber, Zenon
    <3>2. m \in 0..N /\ at[N - m] \notin Good
      BY <3>1
    <3>3. N - 0 \in 0..N /\ N - 0 = N
      BY <1>1
    <3>4. m # 0
      BY <3>2, <3>3, <1>3, <1>5
    <3>5. m - 1 \in 0..N /\ m - 1 \notin Bad /\ N - (m - 1) = (N - m) + 1 /\ N - m \in 0..N /\ (N - m) + 1 \in 1..N
      BY <3>1, <3>2, <3>4, <1>1
    <3>6. at[(N - m) + 1] \in Good
      BY <3>5
    <3>7. at[(N - m) + 1] = IF IsSub(d, at[N - m][1]) THEN Inward(d, at[N - m], dir) ELSE at[N - m]
      <4>1. ((N - m) + 1) - 1 = N - m
        BY <3>5
      <4> QED BY <3>5, <4>1, <1>8
    <3> QED BY <3>2, <3>5, <3>6, <3>7, <1>5
  <2> QED BY <2>2
<1>7. N \in 0..N /\ N - N = 0
  BY <1>1
<1> QED BY <1>4, <1>6, <1>7

\* The equations that determine where an end arrives.
LEMMA EndUnfolds ==
  ASSUME NEW d, Tame(d), NEW dir, NEW e \in Ends
  PROVE  /\ IsSub(d, e[1]) => End(d, e, dir) = End(d, Inward(d, e, dir), dir)
         /\ ~IsSub(d, e[1]) => End(d, e, dir) = IF e[1] \in Primitives(d) THEN e ELSE Nowhere
BY ResolutionUnfolds DEF End

LEMMA EndIsUnique ==
  ASSUME NEW d, Tame(d), NEW dir, NEW F,
         \A e \in Ends : IsSub(d, e[1]) => F[e] = F[Inward(d, e, dir)],
         \A e \in Ends : ~IsSub(d, e[1]) => F[e] = IF e[1] \in Primitives(d) THEN e ELSE Nowhere
  PROVE  \A e \in Ends : End(d, e, dir) = F[e]
<1> DEFINE Good == {e \in Ends : End(d, e, dir) = F[e]}
<1>1. \A e \in Ends : ~IsSub(d, e[1]) => e \in Good
  BY EndUnfolds
<1>2. \A e \in Ends : IsSub(d, e[1]) /\ Inward(d, e, dir) \in Good => e \in Good
  BY EndUnfolds
<1> HIDE DEF Good
<1>3. \A e \in Ends : e \in Good
  BY <1>1, <1>2, EndInduction
<1> QED BY <1>3 DEF Good

\* The ends of an edge, arrived.
Wire(d, e) == <<End(d, <<e.src, e.sp>>, "out"), End(d, <<e.dst, e.dp>>, "in")>>

LEMMA EndArrives ==
  ASSUME NEW d, Ids(d) \subseteq NodeIds, NEW e, NEW dir
  PROVE  /\ End(d, e, dir) = Nowhere \/ End(d, e, dir)[1] \in Primitives(d)
         /\ Nowhere[1] = None /\ None \notin Ids(d) /\ Nowhere \in Ends
BY IdsAssumption DEF End, Nowhere, Ends

LEMMA WiresAreEnds ==
  ASSUME NEW d, Ids(d) \subseteq NodeIds
  PROVE  \A w : w \in Wires(d) <=> \E e \in d.edges : w = Wire(d, e) /\ w[1] # Nowhere /\ w[2] # Nowhere
<1> SUFFICES ASSUME NEW w
             PROVE  w \in Wires(d) <=> \E e \in d.edges : w = Wire(d, e) /\ w[1] # Nowhere /\ w[2] # Nowhere
  OBVIOUS
<1> DEFINE Out(e) == Resolve(d, e.src, e.sp, "out")
           Inn(e) == Resolve(d, e.dst, e.dp, "in")
<1>1. w \in Wires(d) <=> \E e \in d.edges : /\ w = <<Out(e), Inn(e)>>
                                            /\ Out(e)[1] \in Primitives(d) /\ Inn(e)[1] \in Primitives(d)
  BY DEF Wires
<1>2. \A e : /\ Wire(d, e)[1] = IF Out(e)[1] \in Primitives(d) THEN Out(e) ELSE Nowhere
             /\ Wire(d, e)[2] = IF Inn(e)[1] \in Primitives(d) THEN Inn(e) ELSE Nowhere
             /\ Wire(d, e) = <<Wire(d, e)[1], Wire(d, e)[2]>>
  BY DEF Wire, End
<1>3. Nowhere[1] \notin Primitives(d)
  BY EndArrives DEF Primitives
<1> HIDE DEF Out, Inn
<1>4. ASSUME NEW e PROVE (/\ w = <<Out(e), Inn(e)>>
                          /\ Out(e)[1] \in Primitives(d) /\ Inn(e)[1] \in Primitives(d))
                         <=> (w = Wire(d, e) /\ w[1] # Nowhere /\ w[2] # Nowhere)
  BY <1>2, <1>3
<1> QED BY <1>1, <1>4

\* A whole document is tame.
LEMMA WholeIsTame ==
  ASSUME NEW d, DocumentOK(d)
  PROVE  Tame(d)
<1>1. \A bp \in d.ports : bp.node \in In(d, bp.sub) /\ bp.port \in Ports(d, bp.node, bp.dir)
  BY DEF DocumentOK, PortsOK, EndpointLives
<1> QED BY <1>1 DEF DocumentOK, Tame, In

\* The ends of edges are ends.
LEMMA EdgeHasEnds ==
  ASSUME NEW d, Tame(d), NEW e \in d.edges
  PROVE  <<e.src, e.sp>> \in Ends /\ <<e.dst, e.dp>> \in Ends
BY DEF Tame, Documents, EdgeRecords, Ends

\* Reconciling a node cuts no wire: what it prunes led nowhere.
LEMMA ReconcileCutsNothing ==
  ASSUME NEW d, NEW s, IsSub(d, s), Tame(d), EdgesOK(d)
  PROVE  LET r == Reconcile(d, s)
         IN  Tame(r) /\ r.nodes = d.nodes /\ Wires(r) = Wires(d)
<1> DEFINE r == Reconcile(d, s)
           pruned == {bp \in d.ports : bp.sub = s /\ ~EndpointLives(d, bp)}
           names == {bp.name : bp \in pruned}
           edges == {e \in d.edges : /\ ~(e.dst = s /\ e.dp \in names)
                                     /\ ~(e.src = s /\ e.sp \in names)}
<1>1. /\ r.nodes = d.nodes /\ r.passes = d.passes /\ r.code = d.code
      /\ r.edges = edges /\ r.ports = d.ports \ pruned
      /\ r \in Documents(Ids(d))
  BY DEF Reconcile, Tame, Documents
<1> HIDE DEF r
<1>2. Ids(r) = Ids(d) /\ Primitives(r) = Primitives(d) /\ (\A n : IsSub(r, n) <=> IsSub(d, n))
  BY <1>1 DEF Ids, IsSub, Primitives
<1>3. Tame(r)
  <2>1. NestingOK(r) /\ DrawnOK(r)
    BY <1>1, <1>2 DEF Tame, NestingOK, DrawnOK
  <2>2. \A n \in Primitives(d) : \A dir : Ports(r, n, dir) = Ports(d, n, dir)
    BY <1>1 DEF Ports, Primitives
  <2> QED BY <1>1, <1>2, <2>1, <2>2 DEF Tame
<1>4. \A b, c \in d.ports : b.sub = c.sub /\ b.name = c.name => b = c
  BY DEF Tame, DrawnOK
<1>5. ASSUME NEW bp \in pruned PROVE End(d, <<bp.sub, bp.name>>, bp.dir) = Nowhere
  <2>1. bp \in d.ports /\ bp.sub = s /\ bp \in PortRecords
    BY DEF Tame, Documents
  <2>2. <<s, bp.name>> \in Ends /\ <<bp.node, bp.port>> \in Ends
    BY <2>1 DEF Ends, PortRecords, IsSub, Tame
  <2>3. Inward(d, <<s, bp.name>>, bp.dir) = <<bp.node, bp.port>>
    <3> DEFINE bound == {b \in d.ports : b.sub = s /\ b.name = bp.name /\ b.dir = bp.dir}
    <3>1. bound = {bp}
      BY <1>4, <2>1
    <3> QED BY <3>1 DEF Inward
  <2>4. End(d, <<s, bp.name>>, bp.dir) = End(d, <<bp.node, bp.port>>, bp.dir)
    BY <2>2, <2>3, EndUnfolds
  <2>5. ~EndpointLives(d, bp)
    OBVIOUS
  <2> HIDE DEF pruned
  <2>6. CASE bp.node \notin Ids(d)
    BY <2>1, <2>2, <2>4, <2>6, EndUnfolds DEF IsSub, Primitives
  <2>7. CASE bp.node \in Ids(d)
    <3>1. d.nodes[bp.node].home = s /\ bp.port \notin Ports(d, bp.node, bp.dir)
      BY <2>1, <2>5, <2>7 DEF Tame, EndpointLives, In
    <3>2. IsSub(d, bp.node)
      BY <2>1, <2>7, <3>1 DEF Tame, Primitives, IsSub
    <3>3. \A b \in d.ports : ~(b.sub = bp.node /\ b.name = bp.port /\ b.dir = bp.dir)
      BY <3>1, <3>2 DEF Ports, IsSub
    <3>4. Inward(d, <<bp.node, bp.port>>, bp.dir) = Nowhere
      BY <3>3 DEF Inward, Nowhere
    <3>5. End(d, Nowhere, bp.dir) = Nowhere
      BY EndUnfolds, EndArrives DEF IsSub, Primitives, Tame
    <3> QED BY <2>1, <2>2, <2>4, <3>2, <3>4, <3>5, EndUnfolds
  <2> QED BY <2>6, <2>7
<1>6. \A dir : End(d, Nowhere, dir) = Nowhere
  BY EndUnfolds, EndArrives DEF IsSub, Primitives, Tame
<1>7. ASSUME NEW dir, NEW e \in Ends PROVE End(r, e, dir) = End(d, e, dir)
  <2> DEFINE F == [x \in Ends |-> End(d, x, dir)]
  <2>1. ASSUME NEW x \in Ends, IsSub(r, x[1]) PROVE F[x] = F[Inward(r, x, dir)]
    <3>1. Inward(r, x, dir) \in Ends /\ End(d, x, dir) = End(d, Inward(d, x, dir), dir)
      BY <1>2, <1>3, <2>1, InwardDescends, EndUnfolds
    <3>2. CASE \E bp \in pruned : bp.sub = x[1] /\ bp.name = x[2] /\ bp.dir = dir
      <4>1. Inward(r, x, dir) = Nowhere
        <5>1. ~ \E b \in r.ports : b.sub = x[1] /\ b.name = x[2] /\ b.dir = dir
          BY <1>1, <1>4, <3>2
        <5> QED BY <5>1 DEF Inward, Nowhere
      <4>2. End(d, <<x[1], x[2]>>, dir) = Nowhere
        BY <1>5, <3>2
      <4>3. x = <<x[1], x[2]>>
        BY DEF Ends
      <4> QED BY <1>6, <4>1, <4>2, <4>3, <3>1
    <3>3. CASE ~ \E bp \in pruned : bp.sub = x[1] /\ bp.name = x[2] /\ bp.dir = dir
      <4>1. {b \in r.ports : b.sub = x[1] /\ b.name = x[2] /\ b.dir = dir}
              = {b \in d.ports : b.sub = x[1] /\ b.name = x[2] /\ b.dir = dir}
        BY <1>1, <3>3
      <4>2. Inward(r, x, dir) = Inward(d, x, dir)
        BY <4>1, SameBoundary
      <4> QED BY <3>1, <4>2
    <3> QED BY <3>2, <3>3
  <2>2. ASSUME NEW x \in Ends, ~IsSub(r, x[1])
        PROVE  F[x] = IF x[1] \in Primitives(r) THEN x ELSE Nowhere
    BY <1>2, <2>2, EndUnfolds
  <2> HIDE DEF F
  <2>3. \A x \in Ends : End(r, x, dir) = F[x]
    BY <1>3, <2>1, <2>2, EndIsUnique
  <2> QED BY <2>3 DEF F
<1>8. ASSUME NEW e \in d.edges PROVE Wire(r, e) = Wire(d, e)
  BY <1>7, EdgeHasEnds DEF Wire
<1>9. ASSUME NEW e \in d.edges, e \notin r.edges
      PROVE  Wire(d, e)[1] = Nowhere \/ Wire(d, e)[2] = Nowhere
  <2>1. e.sp \in Ports(d, e.src, "out") /\ e.dp \in Ports(d, e.dst, "in")
    BY DEF EdgesOK
  <2>2. CASE e.dst = s /\ e.dp \in names
    <3>1. PICK bp \in pruned : bp.name = e.dp
      BY <2>2
    <3>2. PICK b \in d.ports : b.sub = s /\ b.name = e.dp /\ b.dir = "in"
      BY <2>1, <2>2 DEF Ports, IsSub
    <3>3. bp = b
      BY <1>4, <3>1, <3>2
    <3> QED BY <1>5, <2>2, <3>1, <3>2, <3>3 DEF Wire
  <2>3. CASE e.src = s /\ e.sp \in names
    <3>1. PICK bp \in pruned : bp.name = e.sp
      BY <2>3
    <3>2. PICK b \in d.ports : b.sub = s /\ b.name = e.sp /\ b.dir = "out"
      BY <2>1, <2>3 DEF Ports, IsSub
    <3>3. bp = b
      BY <1>4, <3>1, <3>2
    <3> QED BY <1>5, <2>3, <3>1, <3>2, <3>3 DEF Wire
  <2> QED BY <1>1, <1>9, <2>2, <2>3
<1>10. r.edges \subseteq d.edges
  BY <1>1
<1>11. Ids(d) \subseteq NodeIds /\ Ids(r) \subseteq NodeIds
  BY <1>2 DEF Tame
<1> HIDE DEF pruned, names, edges
<1>12. \A w : w \in Wires(r) <=> w \in Wires(d)
  <2>1. \A w : w \in Wires(d) <=> \E e \in d.edges : w = Wire(d, e) /\ w[1] # Nowhere /\ w[2] # Nowhere
    BY <1>11, WiresAreEnds
  <2>2. \A w : w \in Wires(r) <=> \E e \in r.edges : w = Wire(r, e) /\ w[1] # Nowhere /\ w[2] # Nowhere
    BY <1>11, WiresAreEnds
  <2> QED BY <1>8, <1>9, <1>10, <2>1, <2>2
<1> QED BY <1>1, <1>3, <1>12 DEF r

\* Nor does writing back along a path.
LEMMA ReplaceGraphCutsNothing ==
  ASSUME NEW d, NEW a, a \notin NodeIds, NEW path \in Seq(NodeIds), PathOpens(d, a, path),
         Half(d, GraphAt(a, path, Len(path))), Tame(d)
  PROVE  LET r == ReplaceGraph(d, path)
         IN  Tame(r) /\ r.nodes = d.nodes /\ Wires(r) = Wires(d)
<1>0. Len(path) \in Nat
  OBVIOUS
<1>1. PICK up : /\ up = [k \in 0..Len(path) |->
                            IF k = 0 THEN d ELSE Reconcile(up[k-1], path[Len(path) + 1 - k])]
                /\ ReplaceGraph(d, path) = up[Len(path)]
  BY ONLY <1>0, ReplacementEnds
<1> DEFINE Kept(k) == /\ Half(up[k], GraphAt(a, path, Len(path) - k))
                      /\ Tame(up[k]) /\ up[k].nodes = d.nodes /\ Wires(up[k]) = Wires(d)
           Bad == {k \in 0..Len(path) : ~Kept(k)}
<1>2. ASSUME Bad # {} PROVE FALSE
  <2>0. Bad \in SUBSET Nat
    BY SMT
  <2>1. PICK k \in Bad : \A m \in Bad : k <= m
    BY <1>2, <2>0, LeastNumber, Zenon
  <2>2. k # 0
    <3>1. up[0] = d
      BY <1>1
    <3> QED BY <3>1
  <2>3. k - 1 \in 0..Len(path) /\ k - 1 \notin Bad
    BY <2>1, <2>2
  <2> DEFINE s == path[Len(path) + 1 - k]
  <2>4. up[k] = Reconcile(up[k-1], s)
    BY <1>1, <2>1, <2>2
  <2>5. Kept(k-1)
    BY <2>3
  <2>6. GraphAt(a, path, Len(path) - (k-1)) = s
    BY <2>1, <2>2 DEF GraphAt
  <2>7. IsSub(up[k-1], s) /\ up[k-1].nodes[s].home = GraphAt(a, path, Len(path) - k)
    <3>1. Len(path) + 1 - k \in 1..Len(path)
      BY <2>1, <2>2
    <3>2. IsSub(d, s) /\ d.nodes[s].home = GraphAt(a, path, Len(path) - k)
      BY <3>1 DEF PathOpens, GraphAt
    <3> QED BY <3>2, <2>5 DEF IsSub, Ids
  <2>8. Half(up[k-1], s)
    BY <2>5, <2>6
  <2>9. EdgesOK(up[k-1])
    BY <2>8 DEF Half
  <2>10. /\ Half(up[k], GraphAt(a, path, Len(path) - k))
    BY <2>4, <2>7, <2>8, ReconcileMovesUp
  <2>11. Tame(up[k]) /\ up[k].nodes = d.nodes /\ Wires(up[k]) = Wires(d)
    BY <2>4, <2>5, <2>7, <2>9, ReconcileCutsNothing
  <2>12. Kept(k)
    BY <2>10, <2>11
  <2> QED BY <2>12
<1>3. Kept(Len(path))
  BY <1>2
<1> QED BY <1>1, <1>3

\* Where ends arrive is a matter of the nodes and the boundary ports.
LEMMA SameNodesSameEnds ==
  ASSUME NEW d, NEW r, Tame(d), Tame(r), r.nodes = d.nodes, r.ports = d.ports, NEW dir, NEW e \in Ends
  PROVE  End(r, e, dir) = End(d, e, dir)
<1> DEFINE F == [x \in Ends |-> End(d, x, dir)]
<1>1. /\ \A x : IsSub(r, x) <=> IsSub(d, x)
      /\ Primitives(r) = Primitives(d)
  BY DEF IsSub, Primitives, Ids
<1>2. \A x : Inward(r, x, dir) = Inward(d, x, dir)
  BY SameBoundary
<1>3. \A x \in Ends : IsSub(r, x[1]) => F[x] = F[Inward(r, x, dir)]
  BY <1>1, <1>2, InwardDescends, EndUnfolds
<1>4. \A x \in Ends : ~IsSub(r, x[1]) => F[x] = IF x[1] \in Primitives(r) THEN x ELSE Nowhere
  BY <1>1, EndUnfolds
<1> HIDE DEF F
<1>5. \A x \in Ends : End(r, x, dir) = F[x]
  BY <1>3, <1>4, EndIsUnique
<1> QED BY <1>5 DEF F

\* An end inside the nodes of a tree arrives inside it, if anywhere.
LEMMA InsideStays ==
  ASSUME NEW d, Tame(d), NEW T, \A n \in Ids(d) : d.nodes[n].home \in T => n \in T,
         NEW dir, NEW e \in Ends, e[1] \in T
  PROVE  End(d, e, dir)[1] \in T \cup {None}
<1> DEFINE Good == {x \in Ends : x[1] \in T => End(d, x, dir)[1] \in T \cup {None}}
<1>0. Ids(d) \subseteq NodeIds
  BY DEF Tame
<1>1. ASSUME NEW x \in Ends, ~IsSub(d, x[1]) PROVE x \in Good
  BY <1>0, <1>1, EndUnfolds, EndArrives
<1>2. ASSUME NEW x \in Ends, IsSub(d, x[1]), Inward(d, x, dir) \in Good PROVE x \in Good
  <2> DEFINE i == Inward(d, x, dir)
  <2>1. i \in Ends /\ (i[1] \in Ids(d) => d.nodes[i[1]].home = x[1])
    BY InwardDescends
  <2>2. End(d, x, dir) = End(d, i, dir)
    BY <1>2, EndUnfolds
  <2>3. i[1] \notin Ids(d) => End(d, i, dir) = Nowhere
    BY <2>1, EndUnfolds DEF IsSub, Primitives
  <2> HIDE DEF i
  <2> QED BY <1>0, <1>2, <2>1, <2>2, <2>3, EndArrives DEF i
<1> HIDE DEF Good
<1>3. \A x \in Ends : x \in Good
  BY <1>1, <1>2, EndInduction
<1> QED BY <1>3 DEF Good

\* Nodes removed take their wires along and no other.
LEMMA WithoutCutsItsWires ==
  ASSUME NEW d, DocumentOK(d), NEW g, NEW S \in SUBSET In(d, g)
  PROVE  LET r == Without(d, S)
         IN  Tame(r) /\ Wires(r) = {w \in Wires(d) : {w[1][1], w[2][1]} \subseteq Ids(r)}
<1> DEFINE T == Tree(d, S)
           r == Without(d, S)
<1>1. /\ T \subseteq Ids(d)
      /\ \A n \in Ids(d) : d.nodes[n].home \in T => n \in T
  <2>1. S \in SUBSET Ids(d)
    BY DEF In
  <2> QED BY <2>1, TreeIsClosed
<1>2. /\ Half(r, g) /\ Ids(r) = Ids(d) \ T
      /\ \A n \in Ids(r) : n \in Ids(d) /\ r.nodes[n] = d.nodes[n]
  BY WithoutKeeps
<1>3. /\ r.edges = {e \in d.edges : e.src \notin T /\ e.dst \notin T}
      /\ r.ports = {bp \in d.ports : bp.sub \notin T}
  BY DEF DocumentOK, Documents, Without
<1>4. Tame(d)
  BY WholeIsTame
<1> HIDE DEF T, r
<1>5. \A n \in Ids(r) : /\ IsSub(r, n) <=> IsSub(d, n)
                        /\ n \in Primitives(r) <=> n \in Primitives(d)
  BY <1>2 DEF IsSub, Primitives
<1>6. Tame(r)
  <2>1. \A n \in Primitives(r) : \A dir : Ports(r, n, dir) = Ports(d, n, dir)
    BY <1>2 DEF Ports, Primitives
  <2>2. ASSUME NEW bp \in r.ports
        PROVE  /\ bp.node \in Ids(r) => r.nodes[bp.node].home = bp.sub
               /\ bp.node \in Primitives(r) => bp.port \in Ports(r, bp.node, bp.dir)
    <3>1. /\ bp.node \in Ids(d) => d.nodes[bp.node].home = bp.sub
          /\ bp.node \in Primitives(d) => bp.port \in Ports(d, bp.node, bp.dir)
      BY <1>3, <1>4 DEF Tame
    <3> QED BY <1>2, <1>5, <2>1, <3>1 DEF Primitives
  <2> QED BY <1>2, <2>2 DEF Half, Tame
<1>7. Ids(d) \subseteq NodeIds /\ Ids(r) \subseteq NodeIds
  BY <1>4, <1>6 DEF Tame
<1>8. \A dir : \A x \in Ends : x[1] \in T => End(d, x, dir)[1] \notin Ids(r)
  BY <1>1, <1>2, <1>4, <1>7, InsideStays, EndArrives
<1>9. ASSUME NEW dir, NEW e \in Ends
      PROVE  End(r, e, dir) = IF End(d, e, dir)[1] \in Ids(r) THEN End(d, e, dir) ELSE Nowhere
  <2> DEFINE F == [x \in Ends |-> IF End(d, x, dir)[1] \in Ids(r) THEN End(d, x, dir) ELSE Nowhere]
  <2>1. ASSUME NEW x \in Ends, IsSub(r, x[1]) PROVE F[x] = F[Inward(r, x, dir)]
    <3>1. x[1] \in Ids(r) /\ x[1] \notin T /\ IsSub(d, x[1])
      BY <1>2, <1>5, <2>1 DEF IsSub
    <3>2. Inward(r, x, dir) = Inward(d, x, dir)
      <4>1. {b \in r.ports : b.sub = x[1] /\ b.name = x[2] /\ b.dir = dir}
              = {b \in d.ports : b.sub = x[1] /\ b.name = x[2] /\ b.dir = dir}
        BY <1>3, <3>1
      <4> QED BY <4>1, SameBoundary
    <3> QED BY <1>4, <3>1, <3>2, InwardDescends, EndUnfolds
  <2>2. ASSUME NEW x \in Ends, ~IsSub(r, x[1])
        PROVE  F[x] = IF x[1] \in Primitives(r) THEN x ELSE Nowhere
    <3>1. CASE x[1] \in Ids(r)
      <4>1. x[1] \in Primitives(r) /\ x[1] \in Primitives(d) /\ ~IsSub(d, x[1])
        BY <1>5, <2>2, <3>1 DEF IsSub, Primitives
      <4> QED BY <1>4, <3>1, <4>1, EndUnfolds
    <3>2. CASE x[1] \notin Ids(r)
      <4>1. x[1] \notin Primitives(r)
        BY <3>2 DEF Primitives
      <4>2. End(d, x, dir)[1] \notin Ids(r)
        <5>1. CASE x[1] \in T
          BY <1>8, <5>1
        <5>2. CASE x[1] \notin T
          <6>1. x[1] \notin Ids(d)
            BY <1>2, <3>2, <5>2
          <6>2. End(d, x, dir) = Nowhere
            BY <1>4, <6>1, EndUnfolds DEF IsSub, Primitives
          <6> QED BY <1>7, <6>2, EndArrives
        <5> QED BY <5>1, <5>2
      <4> QED BY <4>1, <4>2
    <3> QED BY <3>1, <3>2
  <2> HIDE DEF F
  <2>3. \A x \in Ends : End(r, x, dir) = F[x]
    BY <1>6, <2>1, <2>2, EndIsUnique
  <2> QED BY <2>3 DEF F
<1>10. ASSUME NEW w PROVE w \in Wires(r) <=> w \in Wires(d) /\ {w[1][1], w[2][1]} \subseteq Ids(r)
  <2>1. w \in Wires(d) <=> \E e \in d.edges : w = Wire(d, e) /\ w[1] # Nowhere /\ w[2] # Nowhere
    BY <1>7, WiresAreEnds
  <2>2. w \in Wires(r) <=> \E e \in r.edges : w = Wire(r, e) /\ w[1] # Nowhere /\ w[2] # Nowhere
    BY <1>7, WiresAreEnds
  <2>3. ASSUME NEW e \in d.edges
        PROVE  /\ e \in r.edges => Wire(r, e) = <<IF Wire(d, e)[1][1] \in Ids(r) THEN Wire(d, e)[1] ELSE Nowhere,
                                                  IF Wire(d, e)[2][1] \in Ids(r) THEN Wire(d, e)[2] ELSE Nowhere>>
               /\ e \notin r.edges => Wire(d, e)[1][1] \notin Ids(r) \/ Wire(d, e)[2][1] \notin Ids(r)
    BY <1>3, <1>4, <1>8, <1>9, EdgeHasEnds DEF Wire
  <2>4. \A e : Wire(d, e) = <<Wire(d, e)[1], Wire(d, e)[2]>>
    BY DEF Wire
  <2>5. Nowhere[1] \notin Ids(r)
    BY <1>7, EndArrives
  <2>6. r.edges \subseteq d.edges
    BY <1>3
  <2>7. ASSUME w \in Wires(r) PROVE w \in Wires(d) /\ {w[1][1], w[2][1]} \subseteq Ids(r)
    <3>1. PICK e \in r.edges : w = Wire(r, e) /\ w[1] # Nowhere /\ w[2] # Nowhere
      BY <2>2, <2>7
    <3>2. e \in d.edges /\ w[1] = Wire(d, e)[1] /\ w[2] = Wire(d, e)[2] /\ w[1][1] \in Ids(r) /\ w[2][1] \in Ids(r)
      BY <2>3, <2>6, <3>1
    <3>3. w = Wire(d, e)
      BY <2>3, <2>4, <3>1, <3>2
    <3> QED BY <2>1, <3>1, <3>2, <3>3
  <2>8. ASSUME w \in Wires(d), {w[1][1], w[2][1]} \subseteq Ids(r) PROVE w \in Wires(r)
    <3>1. PICK e \in d.edges : w = Wire(d, e) /\ w[1] # Nowhere /\ w[2] # Nowhere
      BY <2>1, <2>8
    <3>2. e \in r.edges /\ Wire(r, e) = w
      BY <2>3, <2>4, <2>8, <3>1
    <3> QED BY <2>2, <3>1, <3>2
  <2> QED BY <2>7, <2>8
<1> QED BY <1>6, <1>10 DEF r

\* An edge removed takes at most the wire along that it stands for.
LEMMA RemoveEdgeCutsItsWire ==
  ASSUME NEW d, DocumentOK(d), NEW e
  PROVE  LET r == [d EXCEPT !.edges = @ \ {e}]
         IN  /\ Tame(r) /\ Wires(r) \subseteq Wires(d)
             /\ Wires(d) \ Wires(r) \subseteq {Wire(d, e)}
<1> DEFINE r == [d EXCEPT !.edges = @ \ {e}]
<1>1. /\ r.nodes = d.nodes /\ r.ports = d.ports /\ r.passes = d.passes /\ r.code = d.code
      /\ r.edges = d.edges \ {e} /\ r \in Documents(Ids(d))
  <2> DEFINE E == d.edges \ {e}
  <2>1. E \subseteq EdgeRecords /\ r = [d EXCEPT !.edges = E]
    BY DEF DocumentOK, Documents
  <2> HIDE DEF E, r
  <2>2. /\ r.nodes = d.nodes /\ r.ports = d.ports /\ r.passes = d.passes /\ r.code = d.code
        /\ r.edges = E /\ r \in Documents(Ids(d))
    BY <2>1 DEF DocumentOK, Documents
  <2> QED BY <2>2 DEF E
<1>2. Tame(d)
  BY WholeIsTame
<1> HIDE DEF r
<1>3. Tame(r)
  <2>1. Ids(r) = Ids(d) /\ Primitives(r) = Primitives(d) /\ \A n : IsSub(r, n) <=> IsSub(d, n)
    BY <1>1 DEF Ids, IsSub, Primitives
  <2>2. NestingOK(r) /\ DrawnOK(r)
    BY <1>1, <1>2, <2>1 DEF Tame, NestingOK, DrawnOK
  <2>3. \A n, dir : Ports(r, n, dir) = Ports(d, n, dir)
    BY <1>1 DEF Ports
  <2> QED BY <1>1, <1>2, <2>1, <2>2, <2>3 DEF Tame
<1>4. ASSUME NEW x \in d.edges PROVE Wire(r, x) = Wire(d, x)
  <2>1. \A dir : \A y \in Ends : End(r, y, dir) = End(d, y, dir)
    BY <1>1, <1>2, <1>3, SameNodesSameEnds
  <2> QED BY <1>2, <2>1, EdgeHasEnds DEF Wire
<1>5. Ids(d) \subseteq NodeIds /\ Ids(r) \subseteq NodeIds
  BY <1>2, <1>3 DEF Tame
<1>6. \A w : w \in Wires(d) <=> \E x \in d.edges : w = Wire(d, x) /\ w[1] # Nowhere /\ w[2] # Nowhere
  BY <1>5, WiresAreEnds
<1>7. \A w : w \in Wires(r) <=> \E x \in r.edges : w = Wire(r, x) /\ w[1] # Nowhere /\ w[2] # Nowhere
  BY <1>5, WiresAreEnds
<1>8. Wires(r) \subseteq Wires(d) /\ Wires(d) \ Wires(r) \subseteq {Wire(d, e)}
  BY <1>1, <1>4, <1>6, <1>7
<1> QED BY <1>3, <1>8 DEF r

\* An end arrives at an end.
LEMMA EndsAreEnds ==
  ASSUME NEW d, Tame(d), NEW e \in Ends, NEW dir
  PROVE  End(d, e, dir) \in Ends
<1> DEFINE Good == {x \in Ends : End(d, x, dir) \in Ends}
<1>1. \A x \in Ends : ~IsSub(d, x[1]) => x \in Good
  BY EndUnfolds, EndArrives DEF Tame
<1>2. \A x \in Ends : IsSub(d, x[1]) /\ Inward(d, x, dir) \in Good => x \in Good
  BY EndUnfolds
<1> HIDE DEF Good
<1>3. \A x \in Ends : x \in Good
  BY <1>1, <1>2, EndInduction
<1> QED BY <1>3 DEF Good

\* Finitely many edges make finitely many wires.
LEMMA WiresAreFinite ==
  ASSUME NEW d, DocumentOK(d)
  PROVE  IsFiniteSet(Wires(d))
<1>1. IsFiniteSet(d.edges) /\ Ids(d) \subseteq NodeIds
  BY DEF DocumentOK
<1> DEFINE f == [e \in d.edges |-> Wire(d, e)]
<1>2. DOMAIN f = d.edges /\ f = [e \in d.edges |-> f[e]]
  OBVIOUS
<1>3. Wires(d) \subseteq {f[e] : e \in d.edges}
  BY <1>1, WiresAreEnds
<1> HIDE DEF f
<1>4. IsFiniteSet({f[e] : e \in d.edges})
  BY <1>1, <1>2, ImageIsFinite
<1> QED BY <1>3, <1>4, FS_Subset

\* A group of nodes means what its interior means.
LEMMA GroupsMeanTheSame ==
  ASSUME NEW d, DocumentOK(d), NEW r, DocumentOK(r), NEW s, Grouped(d, r, s)
  PROVE  Primitives(r) = Primitives(d) /\ Wires(r) = Wires(d)
<1>1. Tame(d) /\ Tame(r)
  BY WholeIsTame
<1>2. Ids(d) \subseteq NodeIds /\ Ids(r) \subseteq NodeIds
  BY <1>1 DEF Tame
<1>3. /\ Primitives(r) = Primitives(d) /\ s \in Ids(r) /\ s \notin Ids(d) /\ IsSub(r, s)
      /\ \A n : n # s => (IsSub(r, n) <=> IsSub(d, n))
  BY DEF Grouped, Primitives, IsSub
<1>4. \A x \in Ends : \A dir : Inward(d, x, dir)[1] # s
  <2> SUFFICES ASSUME NEW x \in Ends, NEW dir PROVE Inward(d, x, dir)[1] # s
    OBVIOUS
  <2> DEFINE bound == {bp \in d.ports : bp.sub = x[1] /\ bp.name = x[2] /\ bp.dir = dir}
             b == CHOOSE bp \in bound : TRUE
  <2>1. CASE bound = {}
    BY <1>2, <1>3, <2>1, IdsAssumption DEF Inward
  <2>2. CASE bound # {}
    <3>1. b \in bound
      BY <2>2
    <3>2. b.node \in Ids(d)
      BY <3>1 DEF DocumentOK, PortsOK, EndpointLives, In
    <3>3. Inward(d, x, dir) = <<b.node, b.port>>
      BY <2>2 DEF Inward
    <3> HIDE DEF b, bound
    <3> QED BY <1>3, <3>2, <3>3
  <2> QED BY <2>1, <2>2
<1>5. ASSUME NEW x, x[1] # s, NEW dir PROVE Inward(r, x, dir) = Inward(d, x, dir)
  <2>1. {b \in r.ports : b.sub = x[1] /\ b.name = x[2] /\ b.dir = dir}
          = {b \in d.ports : b.sub = x[1] /\ b.name = x[2] /\ b.dir = dir}
    BY <1>5 DEF Grouped
  <2> QED BY <2>1, SameBoundary
<1>6. ASSUME NEW x \in Ends, x[1] = s, NEW dir PROVE Inward(r, x, dir) \in Ends /\ Inward(r, x, dir)[1] # s
  <2> DEFINE i == Inward(r, x, dir)
  <2>1. i \in Ends /\ (i[1] \in Ids(r) => r.nodes[i[1]].home = s)
    BY <1>1, <1>6, InwardDescends
  <2> HIDE DEF i
  <2>2. i[1] # s
    <3> SUFFICES ASSUME i[1] = s PROVE FALSE
      OBVIOUS
    <3>1. r.nodes[s].home = s /\ {s} \in SUBSET Ids(r)
      BY <1>3, <2>1
    <3> QED BY <3>1 DEF DocumentOK, NestingOK
  <2> QED BY <2>1, <2>2 DEF i
<1>7. ASSUME NEW dir, NEW e \in Ends
      PROVE  /\ e[1] # s => End(r, e, dir) = End(d, e, dir)
             /\ e[1] = s => End(r, e, dir) = End(d, Inward(r, e, dir), dir)
  <2> DEFINE F == [x \in Ends |-> IF x[1] = s THEN End(d, Inward(r, x, dir), dir) ELSE End(d, x, dir)]
  <2>1. ASSUME NEW x \in Ends, IsSub(r, x[1]) PROVE F[x] = F[Inward(r, x, dir)]
    <3>1. CASE x[1] = s
      BY <1>6, <3>1
    <3>2. CASE x[1] # s
      <4>1. IsSub(d, x[1]) /\ Inward(r, x, dir) = Inward(d, x, dir) /\ Inward(d, x, dir)[1] # s
        BY <1>3, <1>4, <1>5, <2>1, <3>2
      <4>2. Inward(d, x, dir) \in Ends /\ End(d, x, dir) = End(d, Inward(d, x, dir), dir)
        BY <1>1, <4>1, InwardDescends, EndUnfolds
      <4> QED BY <3>2, <4>1, <4>2
    <3> QED BY <3>1, <3>2
  <2>2. ASSUME NEW x \in Ends, ~IsSub(r, x[1])
        PROVE  F[x] = IF x[1] \in Primitives(r) THEN x ELSE Nowhere
    <3>1. x[1] # s /\ ~IsSub(d, x[1])
      BY <1>3, <2>2
    <3>2. End(d, x, dir) = IF x[1] \in Primitives(d) THEN x ELSE Nowhere
      BY <1>1, <3>1, EndUnfolds
    <3> QED BY <1>3, <3>1, <3>2
  <2> HIDE DEF F
  <2>3. \A x \in Ends : End(r, x, dir) = F[x]
    BY <1>1, <2>1, <2>2, EndIsUnique
  <2> QED BY <2>3 DEF F
<1>8. ASSUME NEW bp \in r.ports, bp.sub = s
      PROVE  /\ <<bp.node, bp.port>> \in Ends /\ <<s, bp.name>> \in Ends
             /\ Inward(r, <<s, bp.name>>, bp.dir) = <<bp.node, bp.port>>
  <2>1. bp \in PortRecords
    BY <1>1 DEF Tame, Documents
  <2> DEFINE bound == {b \in r.ports : b.sub = s /\ b.name = bp.name /\ b.dir = bp.dir}
  <2>2. bound = {bp}
    BY <1>1, <1>8 DEF Tame, DrawnOK
  <2>3. Inward(r, <<s, bp.name>>, bp.dir) = <<bp.node, bp.port>>
    BY <2>2 DEF Inward
  <2> QED BY <1>8, <2>1, <2>3 DEF PortRecords, Ends
<1>9. ASSUME NEW c \in d.edges
      PROVE  c.src # s /\ c.dst # s /\ Wire(r, c) = Wire(d, c)
  <2>1. c.src # s /\ c.dst # s
    BY <1>3 DEF DocumentOK, EdgesOK
  <2> QED BY <1>1, <1>7, <2>1, EdgeHasEnds DEF Wire
<1>10. ASSUME NEW c \in d.edges, NEW e \in r.edges, StandsFor(r, s, e, c)
       PROVE  Wire(r, e) = Wire(d, c)
  <2>1. <<c.src, c.sp>> \in Ends /\ <<c.dst, c.dp>> \in Ends
    BY <1>1, EdgeHasEnds
  <2>2. c.src # s /\ c.dst # s
    BY <1>9
  <2>3. CASE /\ e.src = c.src /\ e.sp = c.sp /\ e.dst = s
             /\ \E bp \in r.ports : /\ bp.sub = s /\ bp.name = e.dp /\ bp.dir = "in"
                                    /\ bp.node = c.dst /\ bp.port = c.dp
    <3>1. PICK bp \in r.ports : /\ bp.sub = s /\ bp.name = e.dp /\ bp.dir = "in"
                                /\ bp.node = c.dst /\ bp.port = c.dp
      BY <2>3
    <3>2. <<s, e.dp>> \in Ends /\ Inward(r, <<s, e.dp>>, "in") = <<c.dst, c.dp>>
      BY <1>8, <3>1
    <3>3. End(r, <<s, e.dp>>, "in") = End(d, <<c.dst, c.dp>>, "in")
      BY <1>7, <3>2
    <3>4. End(r, <<c.src, c.sp>>, "out") = End(d, <<c.src, c.sp>>, "out")
      BY <1>7, <2>1, <2>2
    <3> QED BY <2>3, <3>3, <3>4 DEF Wire
  <2>4. CASE /\ e.dst = c.dst /\ e.dp = c.dp /\ e.src = s
             /\ \E bp \in r.ports : /\ bp.sub = s /\ bp.name = e.sp /\ bp.dir = "out"
                                    /\ bp.node = c.src /\ bp.port = c.sp
    <3>1. PICK bp \in r.ports : /\ bp.sub = s /\ bp.name = e.sp /\ bp.dir = "out"
                                /\ bp.node = c.src /\ bp.port = c.sp
      BY <2>4
    <3>2. <<s, e.sp>> \in Ends /\ Inward(r, <<s, e.sp>>, "out") = <<c.src, c.sp>>
      BY <1>8, <3>1
    <3>3. End(r, <<s, e.sp>>, "out") = End(d, <<c.src, c.sp>>, "out")
      BY <1>7, <3>2
    <3>4. End(r, <<c.dst, c.dp>>, "in") = End(d, <<c.dst, c.dp>>, "in")
      BY <1>7, <2>1, <2>2
    <3> QED BY <2>4, <3>3, <3>4 DEF Wire
  <2> QED BY <1>10, <2>3, <2>4 DEF StandsFor
<1>11. /\ \A w : w \in Wires(d) <=> \E e \in d.edges : w = Wire(d, e) /\ w[1] # Nowhere /\ w[2] # Nowhere
       /\ \A w : w \in Wires(r) <=> \E e \in r.edges : w = Wire(r, e) /\ w[1] # Nowhere /\ w[2] # Nowhere
  BY <1>2, WiresAreEnds
<1>12. /\ \A e \in r.edges : \E c \in d.edges : Wire(r, e) = Wire(d, c)
       /\ \A c \in d.edges : \E e \in r.edges : Wire(r, e) = Wire(d, c)
  BY <1>9, <1>10 DEF Grouped
<1>13. \A w : w \in Wires(r) <=> w \in Wires(d)
  BY <1>11, <1>12
<1> QED BY <1>3, <1>13

\* The graphs of a path are distinct.
LEMMA PathIsDistinct ==
  ASSUME NEW d, NestingOK(d), NEW a, NEW path \in Seq(NodeIds), PathOpens(d, a, path),
         NEW i \in 1..Len(path), NEW j \in 1..Len(path), path[i] = path[j]
  PROVE  i = j
<1>1. ASSUME NEW m \in 1..Len(path), NEW n \in 1..Len(path), m < n, path[m] = path[n] PROVE FALSE
  <2> DEFINE A == {path[k] : k \in m+1..n}
  <2>1. A \in SUBSET Ids(d) /\ path[n] \in A
    <3>1. \A k \in m+1..n : k \in 1..Len(path)
      BY <1>1
    <3> QED BY <1>1, <3>1 DEF PathOpens, IsSub
  <2>2. ASSUME NEW x \in A PROVE d.nodes[x].home \in A
    <3>1. PICK k \in m+1..n : x = path[k]
      BY <2>2
    <3>2. k \in 1..Len(path) /\ k # 1 /\ d.nodes[x].home = path[k-1]
      BY <1>1, <3>1 DEF PathOpens
    <3>3. k = m + 1 \/ k - 1 \in m+1..n
      BY <1>1, <3>1
    <3> QED BY <1>1, <2>1, <3>2, <3>3
  <2> QED BY <2>1, <2>2 DEF NestingOK
<1> QED BY <1>1

\* The end that corresponds to e among the copies.
Moved(copy, T, e) == IF e[1] \in T THEN <<copy[e[1]], e[2]>> ELSE e

\* An end at a copy arrives where the end at the original does, among the
\* copies; the others arrive where they did.
LEMMA CopiesArriveAlike ==
  ASSUME NEW d, DocumentOK(d), NEW r, DocumentOK(r), NEW T \in SUBSET Ids(d),
         \A n \in Ids(d) : d.nodes[n].home \in T => n \in T,
         NEW copy, Copied(d, r, T, copy), NEW dir
  PROVE  /\ \A e \in Ends : e[1] \in T =>
               /\ Moved(copy, T, e) \in Ends
               /\ End(r, Moved(copy, T, e), dir) = Moved(copy, T, End(d, e, dir))
         /\ \A e \in Ends : e[1] \in Ids(d) => End(r, e, dir) = End(d, e, dir)
<1>1. Tame(d) /\ Tame(r)
  BY WholeIsTame
<1>2. Ids(d) \subseteq NodeIds /\ Ids(r) \subseteq NodeIds /\ None \notin NodeIds
  BY <1>1, IdsAssumption DEF Tame
<1>3. /\ \A x \in T : copy[x] \in NodeIds /\ copy[x] \notin Ids(d) /\ copy[x] \in Ids(r)
      /\ \A x, y \in T : copy[x] = copy[y] => x = y
      /\ \A n \in Ids(d) : n \in Ids(r) /\ r.nodes[n] = d.nodes[n]
      /\ \A x \in T : r.nodes[copy[x]].kind = d.nodes[x].kind
      /\ \A n \in Ids(r) : n \in Ids(d) \/ \E x \in T : n = copy[x]
  BY DEF Copied
<1> DEFINE orig(n) == CHOOSE x \in T : copy[x] = n
           At(e) == <<orig(e[1]), e[2]>>
           IsCopy(n) == \E x \in T : n = copy[x]
<1>4. \A x \in T : orig(copy[x]) = x
  BY <1>3
<1> HIDE DEF orig
<1>5. /\ \A n : IsCopy(n) => orig(n) \in T /\ copy[orig(n)] = n /\ n \notin Ids(d) /\ n \in Ids(r)
      /\ \A n : ~IsCopy(n) => (n \in Ids(r) <=> n \in Ids(d))
      /\ ~IsCopy(None)
  BY <1>2, <1>3, <1>4
<1>6. /\ \A n : ~IsCopy(n) => /\ IsSub(r, n) <=> IsSub(d, n)
                              /\ n \in Primitives(r) <=> n \in Primitives(d)
      /\ \A n : IsCopy(n) => /\ IsSub(r, n) <=> IsSub(d, orig(n))
                             /\ n \in Primitives(r) <=> orig(n) \in Primitives(d)
  <2>1. \A n : ~IsCopy(n) => /\ IsSub(r, n) <=> IsSub(d, n)
                             /\ n \in Primitives(r) <=> n \in Primitives(d)
    BY <1>3, <1>5 DEF IsSub, Primitives
  <2>2. ASSUME NEW n, IsCopy(n)
        PROVE  /\ IsSub(r, n) <=> IsSub(d, orig(n))
               /\ n \in Primitives(r) <=> orig(n) \in Primitives(d)
    <3>1. orig(n) \in T /\ orig(n) \in Ids(d) /\ n \in Ids(r) /\ r.nodes[n].kind = d.nodes[orig(n)].kind
      BY <1>3, <1>5, <2>2
    <3> QED BY <3>1 DEF IsSub, Primitives
  <2> QED BY <2>1, <2>2
<1>7. /\ \A b \in d.ports : b.sub \in Ids(d) /\ b.node \in Ids(d) /\ d.nodes[b.node].home = b.sub
      /\ \A b, c \in d.ports : b.sub = c.sub /\ b.name = c.name => b = c
      /\ \A b, c \in r.ports : b.sub = c.sub /\ b.name = c.name => b = c
  BY DEF DocumentOK, PortsOK, EndpointLives, In, IsSub, DrawnOK
<1>8. ASSUME NEW e \in Ends, NEW n \in T, e[1] = n
      PROVE  /\ Inward(d, e, dir) \in Ends
             /\ Inward(r, <<copy[n], e[2]>>, dir) = Moved(copy, T, Inward(d, e, dir))
             /\ Inward(d, e, dir) = Nowhere \/ Inward(d, e, dir)[1] \in T
  <2> DEFINE D == {b \in d.ports : b.sub = n /\ b.name = e[2] /\ b.dir = dir}
             R == {b \in r.ports : b.sub = copy[n] /\ b.name = e[2] /\ b.dir = dir}
  <2>0. Inward(d, e, dir) \in Ends
    BY <1>1, InwardDescends
  <2>1. Inward(d, e, dir) = IF D = {} THEN Nowhere ELSE <<(CHOOSE b \in D : TRUE).node, (CHOOSE b \in D : TRUE).port>>
    BY <1>8 DEF Inward, Nowhere
  <2>2. Inward(r, <<copy[n], e[2]>>, dir)
          = IF R = {} THEN Nowhere ELSE <<(CHOOSE b \in R : TRUE).node, (CHOOSE b \in R : TRUE).port>>
    BY DEF Inward, Nowhere
  <2>3. CASE D = {}
    <3>1. ASSUME NEW c \in R PROVE FALSE
      <4>1. c \in r.ports /\ c.sub = copy[n] /\ c.name = e[2] /\ c.dir = dir
        OBVIOUS
      <4> HIDE DEF R
      <4>2. c \notin d.ports
        BY <1>3, <1>7, <4>1
      <4>3. PICK b \in d.ports : b.sub \in T /\ b.node \in T /\ PortCopy(copy, c, b)
        BY <4>1, <4>2 DEF Copied
      <4>4. copy[b.sub] = copy[n] /\ b.name = e[2] /\ b.dir = dir
        BY <4>1, <4>3 DEF PortCopy
      <4>5. b.sub = n
        BY <1>3, <4>3, <4>4
      <4> QED BY <2>3, <4>4, <4>5
    <3>2. R = {}
      BY <3>1
    <3>3. None \notin T
      BY <1>2
    <3> HIDE DEF D, R
    <3> QED BY <2>0, <2>1, <2>2, <2>3, <3>2, <3>3 DEF Moved, Nowhere
  <2>4. CASE D # {}
    <3>1. PICK b \in d.ports : b.sub = n /\ b.name = e[2] /\ b.dir = dir
      BY <2>4
    <3>2. PICK c \in r.ports : PortCopy(copy, c, b)
      BY <3>1 DEF Copied
    <3>3. c.sub = copy[n] /\ c.name = e[2] /\ c.dir = dir /\ c.node = copy[b.node] /\ c.port = b.port
      BY <3>1, <3>2 DEF PortCopy
    <3>4. D = {b}
      BY <1>7, <3>1
    <3>5. R = {c}
      BY <1>7, <3>3
    <3>6. b.node \in T
      BY <1>7, <3>1
    <3> HIDE DEF D, R
    <3>7. Inward(d, e, dir) = <<b.node, b.port>>
      BY <2>1, <3>4
    <3>8. Inward(r, <<copy[n], e[2]>>, dir) = <<copy[b.node], b.port>>
      BY <2>2, <3>3, <3>5
    <3> QED BY <2>0, <3>6, <3>7, <3>8 DEF Moved
  <2> QED BY <2>3, <2>4
<1>9. ASSUME NEW x, x[1] \in Ids(d)
      PROVE  /\ Inward(r, x, dir) = Inward(d, x, dir)
             /\ ~IsCopy(Inward(d, x, dir)[1])
  <2>1. \A c \in r.ports : c.sub \in Ids(d) => c \in d.ports
    <3> SUFFICES ASSUME NEW c \in r.ports, c.sub \in Ids(d), c \notin d.ports PROVE FALSE
      OBVIOUS
    <3>1. PICK b \in d.ports : b.sub \in T /\ b.node \in T /\ PortCopy(copy, c, b)
      BY DEF Copied
    <3> QED BY <1>3, <3>1 DEF PortCopy
  <2>2. d.ports \subseteq r.ports
    BY DEF Copied
  <2>3. {b \in r.ports : b.sub = x[1] /\ b.name = x[2] /\ b.dir = dir}
          = {b \in d.ports : b.sub = x[1] /\ b.name = x[2] /\ b.dir = dir}
    BY <1>9, <2>1, <2>2
  <2>4. Inward(r, x, dir) = Inward(d, x, dir)
    BY <2>3, SameBoundary
  <2> DEFINE D == {b \in d.ports : b.sub = x[1] /\ b.name = x[2] /\ b.dir = dir}
  <2>5. Inward(d, x, dir) = IF D = {} THEN Nowhere ELSE <<(CHOOSE b \in D : TRUE).node, (CHOOSE b \in D : TRUE).port>>
    BY DEF Inward, Nowhere
  <2>6. \A b \in D : ~IsCopy(b.node)
    BY <1>3, <1>7
  <2>7. D # {} => (CHOOSE b \in D : TRUE) \in D
    OBVIOUS
  <2> HIDE DEF D, IsCopy
  <2>8. ~IsCopy(Inward(d, x, dir)[1])
    BY <1>5, <2>5, <2>6, <2>7 DEF Nowhere
  <2> QED BY <2>4, <2>8
<1> DEFINE F == [x \in Ends |-> IF IsCopy(x[1]) THEN Moved(copy, T, End(d, At(x), dir)) ELSE End(d, x, dir)]
<1>10. ASSUME NEW x \in Ends, IsCopy(x[1])
       PROVE  /\ At(x) \in Ends /\ At(x)[1] \in T /\ x = <<copy[At(x)[1]], At(x)[2]>>
  BY <1>2, <1>5, <1>10 DEF Ends
<1> HIDE DEF IsCopy, At
<1>11. ASSUME NEW y \in Ends, y[1] \in T
       PROVE  /\ Moved(copy, T, y) \in Ends /\ IsCopy(Moved(copy, T, y)[1]) /\ At(Moved(copy, T, y)) = y
  <2>1. y = <<y[1], y[2]>> /\ y[2] \in Nat \cup {None}
    BY DEF Ends
  <2>2. copy[y[1]] \in NodeIds /\ IsCopy(copy[y[1]]) /\ orig(copy[y[1]]) = y[1]
    BY <1>3, <1>4, <1>11 DEF IsCopy
  <2> QED BY <1>11, <2>1, <2>2 DEF Moved, At, Ends
<1>12. ASSUME NEW x \in Ends, IsSub(r, x[1]) PROVE F[x] = F[Inward(r, x, dir)]
  <2>0. Inward(r, x, dir) \in Ends
    BY <1>1, InwardDescends
  <2>1. CASE IsCopy(x[1])
    <3> DEFINE y == At(x)
               i == Inward(d, y, dir)
    <3>1. y \in Ends /\ y[1] \in T /\ x = <<copy[y[1]], y[2]>> /\ IsSub(d, y[1])
      <4>1. y[1] = orig(x[1])
        BY DEF At
      <4> QED BY <1>6, <1>10, <1>12, <2>1, <4>1
    <3> HIDE DEF y
    <3>2. /\ i \in Ends /\ Inward(r, x, dir) = Moved(copy, T, i)
          /\ i = Nowhere \/ i[1] \in T
      BY <1>8, <3>1
    <3>3. End(d, y, dir) = End(d, i, dir)
      BY <1>1, <3>1, EndUnfolds
    <3> HIDE DEF i
    <3>4. F[x] = Moved(copy, T, End(d, i, dir))
      BY <2>1, <3>3 DEF y
    <3>5. CASE i[1] \in T
      <4>1. IsCopy(Moved(copy, T, i)[1]) /\ At(Moved(copy, T, i)) = i
        BY <1>11, <3>2, <3>5
      <4>2. F[Moved(copy, T, i)] = Moved(copy, T, End(d, i, dir))
        BY <2>0, <3>2, <4>1
      <4> QED BY <3>2, <3>4, <4>2
    <3>6. CASE i[1] \notin T
      <4>1. i = Nowhere
        BY <3>2, <3>6
      <4>2. End(d, i, dir) = Nowhere
        BY <1>1, <1>2, <3>2, <4>1, EndUnfolds, EndArrives DEF IsSub, Primitives
      <4>3. Moved(copy, T, Nowhere) = Nowhere /\ ~IsCopy(Nowhere[1])
        BY <1>2, <1>5 DEF Moved, Nowhere
      <4>4. F[Nowhere] = Nowhere
        BY <3>2, <4>1, <4>2, <4>3
      <4> QED BY <3>2, <3>4, <4>1, <4>2, <4>3, <4>4
    <3> QED BY <3>5, <3>6
  <2>2. CASE ~IsCopy(x[1])
    <3>1. IsSub(d, x[1]) /\ x[1] \in Ids(d)
      BY <1>6, <1>12, <2>2 DEF IsSub
    <3>2. Inward(r, x, dir) = Inward(d, x, dir) /\ ~IsCopy(Inward(d, x, dir)[1])
      BY <1>9, <3>1
    <3>3. End(d, x, dir) = End(d, Inward(d, x, dir), dir)
      BY <1>1, <3>1, EndUnfolds
    <3> QED BY <2>0, <2>2, <3>2, <3>3
  <2> QED BY <2>1, <2>2
<1>13. ASSUME NEW x \in Ends, ~IsSub(r, x[1])
       PROVE  F[x] = IF x[1] \in Primitives(r) THEN x ELSE Nowhere
  <2>1. CASE IsCopy(x[1])
    <3>1. At(x) \in Ends /\ At(x)[1] \in T /\ x = <<copy[At(x)[1]], At(x)[2]>> /\ At(x)[1] = orig(x[1])
      <4>1. At(x)[1] = orig(x[1])
        BY DEF At
      <4> QED BY <1>10, <2>1, <4>1
    <3>2. ~IsSub(d, At(x)[1]) /\ At(x)[1] \in Ids(d)
      BY <1>6, <1>13, <2>1, <3>1
    <3>3. At(x)[1] \in Primitives(d) /\ x[1] \in Primitives(r)
      BY <1>6, <2>1, <3>1, <3>2 DEF IsSub, Primitives
    <3>4. End(d, At(x), dir) = At(x)
      BY <1>1, <3>1, <3>2, <3>3, EndUnfolds
    <3> QED BY <2>1, <3>1, <3>3, <3>4 DEF Moved
  <2>2. CASE ~IsCopy(x[1])
    <3>1. ~IsSub(d, x[1])
      BY <1>6, <1>13, <2>2
    <3> QED BY <1>1, <1>6, <2>2, <3>1, EndUnfolds
  <2> QED BY <2>1, <2>2
<1>14. \A x \in Ends : F[x] = IF IsCopy(x[1]) THEN Moved(copy, T, End(d, At(x), dir)) ELSE End(d, x, dir)
  OBVIOUS
<1> HIDE DEF F
<1>15. \A x \in Ends : End(r, x, dir) = F[x]
  BY <1>1, <1>12, <1>13, EndIsUnique
<1>16. ASSUME NEW e \in Ends, e[1] \in T
       PROVE  /\ Moved(copy, T, e) \in Ends
              /\ End(r, Moved(copy, T, e), dir) = Moved(copy, T, End(d, e, dir))
  BY <1>11, <1>14, <1>15, <1>16
<1>17. \A e \in Ends : e[1] \in Ids(d) => End(r, e, dir) = End(d, e, dir)
  BY <1>5, <1>14, <1>15
<1> QED BY <1>16, <1>17

\* A wire between nodes of a selection with what is inside them is that of an
\* edge between such nodes: the other edges that could lead there are at nodes
\* of the path, and those are not in one graph with the selection nor with one
\* another.
LEMMA WiresWithinAreOfEdgesWithin ==
  ASSUME NEW d, NEW a, NEW path, Opened(d, a, path),
         NEW S \in SUBSET In(d, GraphAt(a, path, Len(path))),
         NEW e \in d.edges
  PROVE  LET T == Tree(d, S)
         IN  (e.src \in T /\ e.dst \in T) <=> (Wire(d, e)[1][1] \in T /\ Wire(d, e)[2][1] \in T)
<1> DEFINE T == Tree(d, S)
           g == GraphAt(a, path, Len(path))
           above == {path[k] : k \in 1..Len(path)}
<1>1. DocumentOK(d) /\ NestingOK(d) /\ Tame(d) /\ PathOpens(d, a, path) /\ path \in Seq(NodeIds) /\ Len(path) \in Nat
  BY WholeIsTame DEF Opened, DocumentOK
<1>2. /\ a \notin NodeIds
      /\ \A k \in 1..Len(path) : path[k] \in Ids(d) /\ d.nodes[path[k]].home # g /\ path[k] \notin S
  BY OpenGraphIsOne
<1>3. /\ T \subseteq Ids(d)
      /\ \A n \in Ids(d) : d.nodes[n].home \in T => n \in T
      /\ \A n \in T : d.nodes[n].home \in T \/ d.nodes[n].home = g
  <2>1. S \in SUBSET Ids(d) /\ \A n \in S : d.nodes[n].home = g
    BY DEF In
  <2> QED BY <2>1, TreeIsClosed
<1>4. \A n \in above : n \notin T
  <2>1. S \in SUBSET Ids(d) /\ Ids(d) \subseteq NodeIds
    BY <1>1 DEF In, Tame
  <2>2. \A k \in 1..Len(path) : path[k] \notin Tree(d, S)
    BY <1>1, <1>2, <2>1, PathIsNotInside
  <2> QED BY <2>2
<1>5. Len(path) # 0 => g \in above
  BY <1>1 DEF GraphAt
<1>6. \A n \in above : d.nodes[n].home \in above \/ d.nodes[n].home = a
  <2> SUFFICES ASSUME NEW k \in 1..Len(path)
               PROVE  d.nodes[path[k]].home \in above \/ d.nodes[path[k]].home = a
    OBVIOUS
  <2>1. k # 1 => k - 1 \in 1..Len(path)
    BY <1>1
  <2> QED BY <1>1, <2>1 DEF PathOpens
<1>7. Len(path) = 0 => g = a
  BY DEF GraphAt
<1>8. /\ <<e.src, e.sp>> \in Ends /\ <<e.dst, e.dp>> \in Ends
      /\ e.src \in Ids(d) /\ e.dst \in Ids(d) /\ d.nodes[e.src].home = d.nodes[e.dst].home
      /\ e.src # e.dst
  BY <1>1, EdgeHasEnds DEF DocumentOK, EdgesOK, DrawnOK
<1>9. Ids(d) \subseteq NodeIds /\ None \notin NodeIds
  BY <1>1, IdsAssumption DEF Tame
<1> HIDE DEF T, g
<1>10. ASSUME e.src \in T, e.dst \in T
       PROVE  Wire(d, e)[1][1] \in T /\ Wire(d, e)[2][1] \in T
  <2>1. Wire(d, e)[1][1] \in T \cup {None} /\ Wire(d, e)[2][1] \in T \cup {None}
    BY <1>1, <1>3, <1>8, <1>10, InsideStays DEF Wire
  <2>2. Wire(d, e)[1][1] \in Primitives(d) /\ Wire(d, e)[2][1] \in Primitives(d)
    BY <1>1, EdgesResolve DEF Wire, End
  <2> QED BY <1>9, <2>1, <2>2 DEF Primitives
<1>11. ASSUME NEW dir, NEW x \in Ends, End(d, x, dir)[1] \in T
       PROVE  x[1] \in T \cup above
  <2> DEFINE Good == {y \in Ends : End(d, y, dir)[1] \in T => y[1] \in T \cup above}
  <2> HIDE DEF above
  <2>1. ASSUME NEW y \in Ends, ~IsSub(d, y[1]) PROVE y \in Good
    <3>1. End(d, y, dir) = y \/ End(d, y, dir) = Nowhere
      BY <1>1, <2>1, EndUnfolds
    <3> QED BY <1>3, <1>9, <3>1 DEF Nowhere
  <2>2. ASSUME NEW y \in Ends, IsSub(d, y[1]), Inward(d, y, dir) \in Good PROVE y \in Good
    <3> DEFINE i == Inward(d, y, dir)
    <3>1. i \in Ends /\ (i[1] \in Ids(d) => d.nodes[i[1]].home = y[1])
      BY <1>1, InwardDescends
    <3>2. End(d, y, dir) = End(d, i, dir)
      BY <1>1, <2>2, EndUnfolds
    <3> SUFFICES ASSUME End(d, i, dir)[1] \in T PROVE y[1] \in T \cup above
      BY <3>2
    <3>3. i[1] \in T \cup above
      BY <2>2, <3>1
    <3>4. y[1] \in NodeIds
      BY <1>9, <2>2 DEF IsSub
    <3>5. i[1] \in Ids(d)
      BY <1>2, <1>3, <3>3 DEF above
    <3> HIDE DEF i
    <3>6. y[1] # a
      BY <1>2, <3>4
    <3>7. CASE i[1] \in T
      <4>1. y[1] \in T \/ y[1] = g
        BY <1>3, <3>1, <3>5, <3>7
      <4> QED BY <1>5, <1>7, <3>6, <4>1
    <3>8. CASE i[1] \in above
      BY <1>6, <3>1, <3>5, <3>6, <3>8
    <3> QED BY <3>3, <3>7, <3>8
  <2> HIDE DEF Good
  <2>3. \A y \in Ends : y \in Good
    BY <1>1, <2>1, <2>2, EndInduction
  <2> QED BY <1>11, <2>3 DEF Good
<1>12. ASSUME Wire(d, e)[1][1] \in T, Wire(d, e)[2][1] \in T
       PROVE  e.src \in T /\ e.dst \in T
  <2>1. e.src \in T \cup above /\ e.dst \in T \cup above
    BY <1>8, <1>11, <1>12 DEF Wire
  <2>2. ASSUME NEW m \in T, NEW n \in above, d.nodes[m].home = d.nodes[n].home PROVE FALSE
    <3>1. d.nodes[n].home # g
      BY <1>2 DEF g
    <3>2. d.nodes[n].home \in T
      BY <1>3, <2>2, <3>1
    <3> QED BY <1>3, <1>4, <3>2, <1>2
  <2>3. ASSUME NEW m \in above, NEW n \in above, m # n, d.nodes[m].home = d.nodes[n].home PROVE FALSE
    <3>1. PICK i \in 1..Len(path) : m = path[i]
      BY <2>3
    <3>2. PICK j \in 1..Len(path) : n = path[j]
      BY <2>3
    <3>3. i # j
      BY <2>3, <3>1, <3>2
    <3>4. /\ d.nodes[m].home = IF i = 1 THEN a ELSE path[i-1]
          /\ d.nodes[n].home = IF j = 1 THEN a ELSE path[j-1]
      BY <1>1, <3>1, <3>2 DEF PathOpens
    <3>5. /\ i # 1 => i - 1 \in 1..Len(path) /\ path[i-1] \in NodeIds
          /\ j # 1 => j - 1 \in 1..Len(path) /\ path[j-1] \in NodeIds
      BY <1>1, <3>1, <3>2
    <3>6. i # 1 /\ j # 1 /\ path[i-1] = path[j-1]
      BY <1>2, <2>3, <3>3, <3>4, <3>5
    <3>7. i - 1 = j - 1
      BY <1>1, <3>5, <3>6, PathIsDistinct
    <3> QED BY <3>3, <3>7, <3>1, <3>2
  <2> HIDE DEF above
  <2> QED BY <1>8, <2>1, <2>2, <2>3
<1> QED BY <1>10, <1>12 DEF T

\* Copies are wired as the originals are, and to nothing else.
LEMMA DuplicateWiresAlike ==
  ASSUME NEW d, NEW a, NEW path, Opened(d, a, path),
         NEW S \in SUBSET In(d, GraphAt(a, path, Len(path))), Room(d, Cardinality(Tree(d, S)))
  PROVE  LET r == Duplicate(d, S)
             T == Tree(d, S)
             new == Wires(r) \ Wires(d)
         IN  /\ Wires(d) \subseteq Wires(r)
             /\ Cardinality(new) = Cardinality({w \in Wires(d) : {w[1][1], w[2][1]} \subseteq T})
             /\ \A w \in new : {w[1][1], w[2][1]} \cap Ids(d) = {}
<1> DEFINE r == Duplicate(d, S)
           T == Tree(d, S)
           copy == Copies(d, T)
           new == Wires(r) \ Wires(d)
           old == {w \in Wires(d) : {w[1][1], w[2][1]} \subseteq T}
           M(x) == Moved(copy, T, x)
           MW(w) == <<M(w[1]), M(w[2])>>
<1>1. Edited(d, r, a, path) /\ PortsOK(r) /\ Copied(d, r, T, copy)
  BY DuplicateKeeps
<1>2. DocumentOK(d) /\ Tame(d)
  BY WholeIsTame DEF Opened
<1>3. /\ T \in SUBSET Ids(d)
      /\ \A n \in Ids(d) : d.nodes[n].home \in T => n \in T
  <2>1. S \in SUBSET Ids(d)
    BY DEF In
  <2> QED BY <2>1, TreeIsClosed
<1>4. \A e \in d.edges : (e.src \in T /\ e.dst \in T) <=> (Wire(d, e)[1][1] \in T /\ Wire(d, e)[2][1] \in T)
  BY WiresWithinAreOfEdgesWithin
<1> HIDE DEF r, T, copy
<1>5. DocumentOK(r)
  BY <1>1 DEF Edited, Half, DocumentOK
<1>6. Tame(r)
  BY <1>5, WholeIsTame
<1>7. Ids(d) \subseteq NodeIds /\ Ids(r) \subseteq NodeIds /\ None \notin NodeIds
  BY <1>2, <1>6, IdsAssumption DEF Tame
<1>8. \A dir : /\ \A e \in Ends : e[1] \in T => End(r, M(e), dir) = M(End(d, e, dir))
               /\ \A e \in Ends : e[1] \in Ids(d) => End(r, e, dir) = End(d, e, dir)
  BY <1>1, <1>2, <1>3, <1>5, CopiesArriveAlike
<1>9. /\ \A w : w \in Wires(d) <=> \E e \in d.edges : w = Wire(d, e) /\ w[1] # Nowhere /\ w[2] # Nowhere
      /\ \A w : w \in Wires(r) <=> \E e \in r.edges : w = Wire(r, e) /\ w[1] # Nowhere /\ w[2] # Nowhere
  BY <1>7, WiresAreEnds
<1>10. ASSUME NEW e \in d.edges
       PROVE  /\ e \in r.edges /\ Wire(r, e) = Wire(d, e)
              /\ Wire(d, e)[1] # Nowhere /\ Wire(d, e)[2] # Nowhere
  <2>1. e \in r.edges /\ e.src \in Ids(d) /\ e.dst \in Ids(d)
    BY <1>1, <1>2 DEF Copied, DocumentOK, EdgesOK
  <2>2. <<e.src, e.sp>> \in Ends /\ <<e.dst, e.dp>> \in Ends
    BY <1>2, EdgeHasEnds
  <2>3. Wire(d, e)[1][1] \in Primitives(d) /\ Wire(d, e)[2][1] \in Primitives(d)
    BY <1>2, EdgesResolve DEF Wire, End
  <2>4. Wire(d, e)[1] # Nowhere /\ Wire(d, e)[2] # Nowhere
    BY <1>7, <2>3 DEF Primitives, Nowhere
  <2> QED BY <1>8, <2>1, <2>2, <2>4 DEF Wire
<1>11. Wires(d) \subseteq Wires(r)
  BY <1>9, <1>10
<1>12. /\ \A x \in T : copy[x] \in NodeIds /\ copy[x] \notin Ids(d)
       /\ \A x, y \in T : copy[x] = copy[y] => x = y
  BY <1>1 DEF Copied
<1>13. ASSUME NEW e \in d.edges, e.src \in T, e.dst \in T, NEW c \in r.edges, EdgeCopy(copy, c, e)
       PROVE  /\ Wire(r, c) = MW(Wire(d, e))
              /\ Wire(r, c)[1][1] \in NodeIds \ Ids(d) /\ Wire(r, c)[2][1] \in NodeIds \ Ids(d)
  <2>1. <<e.src, e.sp>> \in Ends /\ <<e.dst, e.dp>> \in Ends
    BY <1>2, EdgeHasEnds
  <2>2. <<c.src, c.sp>> = M(<<e.src, e.sp>>) /\ <<c.dst, c.dp>> = M(<<e.dst, e.dp>>)
    BY <1>13 DEF EdgeCopy, Moved
  <2>3. Wire(r, c) = MW(Wire(d, e))
    BY <1>8, <1>13, <2>1, <2>2 DEF Wire
  <2>4. Wire(d, e)[1][1] \in T /\ Wire(d, e)[2][1] \in T
    BY <1>4, <1>13
  <2>5. ASSUME NEW x, x[1] \in T PROVE M(x)[1] \in NodeIds \ Ids(d)
    BY <1>12, <2>5 DEF Moved
  <2>6. MW(Wire(d, e))[1] = M(Wire(d, e)[1]) /\ MW(Wire(d, e))[2] = M(Wire(d, e)[2])
    OBVIOUS
  <2> HIDE DEF M, MW
  <2> QED BY <2>3, <2>4, <2>5, <2>6
<1>14. ASSUME NEW w \in new
       PROVE  /\ w[1][1] \notin Ids(d) /\ w[2][1] \notin Ids(d)
              /\ \E v \in old : w = MW(v)
  <2>1. PICK c \in r.edges : w = Wire(r, c) /\ w[1] # Nowhere /\ w[2] # Nowhere
    BY <1>9
  <2>2. c \notin d.edges
    BY <1>9, <1>10, <2>1
  <2>3. PICK e \in d.edges : e.src \in T /\ e.dst \in T /\ EdgeCopy(copy, c, e)
    BY <1>1, <2>2 DEF Copied
  <2>4. /\ Wire(r, c) = MW(Wire(d, e))
        /\ Wire(r, c)[1][1] \in NodeIds \ Ids(d) /\ Wire(r, c)[2][1] \in NodeIds \ Ids(d)
    BY <1>13, <2>3
  <2>5. Wire(d, e) \in old
    BY <1>4, <1>9, <1>10, <2>3
  <2> HIDE DEF MW, old, new
  <2> QED BY <2>1, <2>4, <2>5
<1>15. ASSUME NEW v \in old
       PROVE  MW(v) \in new
  <2>1. PICK e \in d.edges : v = Wire(d, e)
    BY <1>9
  <2>2. e.src \in T /\ e.dst \in T
    BY <1>4, <2>1
  <2>3. PICK c \in r.edges : EdgeCopy(copy, c, e)
    BY <1>1, <2>2 DEF Copied
  <2>4. /\ Wire(r, c) = MW(v)
        /\ Wire(r, c)[1][1] \in NodeIds \ Ids(d) /\ Wire(r, c)[2][1] \in NodeIds \ Ids(d)
    BY <1>13, <2>1, <2>2, <2>3
  <2> HIDE DEF MW, old
  <2>5. Wire(r, c)[1] # Nowhere /\ Wire(r, c)[2] # Nowhere
    BY <1>7, <2>4 DEF Nowhere
  <2>6. Wire(r, c) \in Wires(r)
    BY <1>9, <2>5
  <2>7. Wire(r, c) \notin Wires(d)
    <3>1. ASSUME NEW u \in Wires(d) PROVE u[1][1] \in Ids(d)
      BY <3>1 DEF Wires, Primitives
    <3> QED BY <2>4, <3>1
  <2> QED BY <2>4, <2>6, <2>7
<1>16. ASSUME NEW u \in old, NEW v \in old, MW(u) = MW(v) PROVE u = v
  <2>1. /\ u = <<u[1], u[2]>> /\ u[1] = <<u[1][1], u[1][2]>> /\ u[2] = <<u[2][1], u[2][2]>>
        /\ v = <<v[1], v[2]>> /\ v[1] = <<v[1][1], v[1][2]>> /\ v[2] = <<v[2][1], v[2][2]>>
    <3>1. ASSUME NEW w \in Wires(d)
          PROVE  w = <<w[1], w[2]>> /\ w[1] = <<w[1][1], w[1][2]>> /\ w[2] = <<w[2][1], w[2][2]>>
      <4>1. PICK e \in d.edges : w = Wire(d, e) /\ w[1] # Nowhere /\ w[2] # Nowhere
        BY <1>9
      <4>2. \A x \in Ends : \A dir : End(d, x, dir) = Nowhere \/ End(d, x, dir) \in Ends
        BY <1>2, EndsAreEnds
      <4>3. w[1] \in Ends /\ w[2] \in Ends
        BY <1>2, <4>1, <4>2, EdgeHasEnds DEF Wire
      <4> QED BY <4>1, <4>3 DEF Wire, Ends
    <3> QED BY <3>1
  <2>2. M(u[1]) = M(v[1]) /\ M(u[2]) = M(v[2])
    BY <1>16
  <2>3. u[1][1] \in T /\ u[2][1] \in T /\ v[1][1] \in T /\ v[2][1] \in T
    OBVIOUS
  <2>4. copy[u[1][1]] = copy[v[1][1]] /\ u[1][2] = v[1][2] /\ copy[u[2][1]] = copy[v[2][1]] /\ u[2][2] = v[2][2]
    BY <2>2, <2>3 DEF Moved
  <2> HIDE DEF old, M, MW
  <2>5. u[1][1] = v[1][1] /\ u[2][1] = v[2][1]
    BY <1>12, <2>3, <2>4
  <2> QED BY <2>1, <2>4, <2>5
<1>17. IsFiniteSet(old)
  <2>1. IsFiniteSet(Wires(d))
    BY <1>2, WiresAreFinite
  <2> QED BY <2>1, FS_Subset
<1>18. Cardinality(new) = Cardinality(old)
  <2> DEFINE f == [v \in old |-> MW(v)]
  <2> HIDE DEF old, new, MW
  <2>1. f \in [old -> new] /\ (\A u, v \in old : f[u] = f[v] => u = v) /\ (\A w \in new : \E v \in old : f[v] = w)
    BY <1>14, <1>15, <1>16
  <2> HIDE DEF f
  <2>2. f \in Bijection(old, new)
    BY <2>1 DEF Bijection, Injection, Surjection, IsInjective
  <2>3. ExistsBijection(old, new)
    BY <2>2 DEF ExistsBijection
  <2> QED BY <1>17, <2>3, FS_Bijection
<1>19. \A w \in new : {w[1][1], w[2][1]} \cap Ids(d) = {}
  BY <1>14
<1> QED BY <1>11, <1>18, <1>19 DEF r, T

\* The document after an edit means what the edit made of it: writing it back
\* along the path cuts nothing.
LEMMA WrittenBack ==
  ASSUME IInv, InGraph, NEW next, Edited(project, next, activePassId, subgraphPath), Tame(next),
         MutateGraph(next)
  PROVE  /\ project'.nodes = next.nodes /\ Ids(project') = Ids(next)
         /\ Primitives(project') = Primitives(next) /\ Wires(project') = Wires(next)
<1> DEFINE r == ReplaceGraph(next, subgraphPath)
<1>1. activePassId \notin NodeIds /\ subgraphPath \in Seq(NodeIds)
  BY PassesAreNoNodes DEF IInv
<1>2. r.nodes = next.nodes /\ Wires(r) = Wires(next)
  BY <1>1, ReplaceGraphCutsNothing DEF Edited
<1>3. project' = r
  BY DEF MutateGraph, Commit
<1> HIDE DEF r
<1> QED BY <1>2, <1>3 DEF Ids, Primitives

\* collapse and expand in the graph of a pass.
LEMMA RegroupingIsHarmless ==
  ASSUME IInv, Collapse \/ Expand, subgraphPath = <<>>
  PROVE  Primitives(project') = Primitives(project) /\ Wires(project') = Wires(project)
<1> DEFINE path == subgraphPath
           g == GraphAt(activePassId, path, Len(path))
<1>1. DocumentOK(project) /\ InGraph /\ activePassId \notin NodeIds
  BY PassesAreNoNodes DEF IInv, Collapse, Expand
<1>2. ASSUME NEW next, Edited(project, next, activePassId, path), MutateGraph(next)
      PROVE  /\ DocumentOK(next)
             /\ Primitives(project') = Primitives(next) /\ Wires(project') = Wires(next)
  <2>1. Half(next, activePassId)
    BY <1>2 DEF Edited, GraphAt
  <2>2. \A bp \in next.ports : bp.sub # activePassId
    BY <1>1, <2>1 DEF Half, IsSub
  <2>3. DocumentOK(next)
    BY <2>1, <2>2 DEF Half, DocumentOK, PortsOK
  <2> QED BY <1>1, <1>2, <2>3, WholeIsTame, WrittenBack
<1>3. CASE Collapse
  <2>1. NodeIds \ Ids(project) # {}
    <3>1. NodeIds \ Ids(project) = {} => Cardinality(NodeIds \ Ids(project)) = 0
      BY FS_EmptySet
    <3> QED BY <1>3, <3>1 DEF Collapse, Room
  <2>2. Fresh(project) \in NodeIds \ Ids(project)
    BY <2>1 DEF Fresh
  <2> DEFINE next == CollapseSelection(project, selection \cap Nodes, Fresh(project))
  <2>3. selection \cap Nodes \in SUBSET In(project, g) /\ selection \cap Nodes # {}
    BY <1>1, <1>3, GraphIsOpened DEF Collapse
  <2>4. Edited(project, next, activePassId, path) /\ Grouped(project, next, Fresh(project))
    BY <1>1, <2>2, <2>3, GraphIsOpened, CollapseKeeps
  <2>5. MutateGraph(next)
    BY <1>3 DEF Collapse
  <2> HIDE DEF next
  <2>6. /\ DocumentOK(next)
        /\ Primitives(project') = Primitives(next) /\ Wires(project') = Wires(next)
    BY <1>2, <2>4, <2>5
  <2> QED BY <1>1, <2>4, <2>6, GroupsMeanTheSame
<1>4. CASE Expand
  <2>1. PICK s \in Nodes : IsSub(project, s) /\ MutateGraph(ExpandSubgraph(project, s))
    BY <1>4 DEF Expand
  <2> DEFINE next == ExpandSubgraph(project, s)
  <2>2. Edited(project, next, activePassId, path) /\ Grouped(next, project, s)
    BY <1>1, <2>1, GraphIsOpened, ExpandKeeps
  <2> HIDE DEF next
  <2>3. /\ DocumentOK(next)
        /\ Primitives(project') = Primitives(next) /\ Wires(project') = Wires(next)
    BY <1>2, <2>1, <2>2 DEF next
  <2> QED BY <1>1, <2>2, <2>3, GroupsMeanTheSame
<1> QED BY <1>3, <1>4

\* removeSelection and duplicate at any depth.
LEMMA RemovalIsExact ==
  ASSUME IInv
  PROVE  /\ RemoveNodes =>
              Wires(project') = {w \in Wires(project) : {w[1][1], w[2][1]} \subseteq Ids(project')}
         /\ RemoveEdge =>
              /\ Wires(project') \subseteq Wires(project)
              /\ Cardinality(Wires(project) \ Wires(project')) <= 1
<1> DEFINE path == subgraphPath
           g == GraphAt(activePassId, path, Len(path))
<1>1. DocumentOK(project)
  BY DEF IInv
<1>2. ASSUME RemoveNodes
      PROVE  Wires(project') = {w \in Wires(project) : {w[1][1], w[2][1]} \subseteq Ids(project')}
  <2> DEFINE next == Without(project, selection \cap Nodes)
  <2>1. InGraph /\ MutateGraph(next)
    BY <1>2 DEF RemoveNodes
  <2>2. selection \cap Nodes \in SUBSET In(project, g)
    BY <2>1, GraphIsOpened
  <2>3. Edited(project, next, activePassId, path)
    BY <2>1, <2>2, GraphIsOpened, RemoveNodesKeeps
  <2>4. Tame(next) /\ Wires(next) = {w \in Wires(project) : {w[1][1], w[2][1]} \subseteq Ids(next)}
    BY <1>1, <2>2, WithoutCutsItsWires
  <2> HIDE DEF next
  <2>5. Ids(project') = Ids(next) /\ Wires(project') = Wires(next)
    BY <2>1, <2>3, <2>4, WrittenBack
  <2> QED BY <2>4, <2>5
<1>3. ASSUME RemoveEdge
      PROVE  /\ Wires(project') \subseteq Wires(project)
             /\ Cardinality(Wires(project) \ Wires(project')) <= 1
  <2>1. PICK e : MutateGraph([project EXCEPT !.edges = @ \ {e}])
    BY <1>3 DEF RemoveEdge
  <2> DEFINE next == [project EXCEPT !.edges = @ \ {e}]
  <2>2. InGraph
    BY <1>3 DEF RemoveEdge
  <2>3. Edited(project, next, activePassId, path)
    BY <2>2, GraphIsOpened, RemoveEdgeKeeps
  <2>4. Tame(next) /\ Wires(next) \subseteq Wires(project) /\ Wires(project) \ Wires(next) \subseteq {Wire(project, e)}
    BY <1>1, RemoveEdgeCutsItsWire
  <2>5. MutateGraph(next)
    BY <2>1
  <2> HIDE DEF next
  <2>6. Wires(project') = Wires(next)
    BY <2>2, <2>3, <2>4, <2>5, WrittenBack
  <2> DEFINE cut == Wires(project) \ Wires(project')
             only == {Wire(project, e)}
  <2>7. cut \subseteq only
    BY <2>4, <2>6
  <2>8. IsFiniteSet(only) /\ Cardinality(only) = 1
    BY FS_Singleton
  <2> HIDE DEF cut, only
  <2>9. Cardinality(cut) <= Cardinality(only)
    BY <2>7, <2>8, FS_Subset
  <2> QED BY <2>4, <2>6, <2>8, <2>9 DEF cut
<1> QED BY <1>2, <1>3

LEMMA CopyingIsExact ==
  ASSUME IInv, DuplicateSelection
  PROVE  LET copied == Tree(project, selection \cap Nodes)
             new == Wires(project') \ Wires(project)
         IN  /\ Wires(project) \subseteq Wires(project')
             /\ Cardinality(new) = Cardinality({w \in Wires(project) : {w[1][1], w[2][1]} \subseteq copied})
             /\ \A w \in new : {w[1][1], w[2][1]} \cap Ids(project) = {}
<1> DEFINE path == subgraphPath
           g == GraphAt(activePassId, path, Len(path))
           next == Duplicate(project, selection \cap Nodes)
<1>1. /\ InGraph /\ MutateGraph(next)
      /\ Room(project, Cardinality(Tree(project, selection \cap Nodes)))
  BY DEF DuplicateSelection
<1>2. selection \cap Nodes \in SUBSET In(project, g)
  BY <1>1, GraphIsOpened
<1>3. Edited(project, next, activePassId, path) /\ PortsOK(next)
  BY <1>1, <1>2, GraphIsOpened, DuplicateKeeps
<1>4. LET new == Wires(next) \ Wires(project)
      IN  /\ Wires(project) \subseteq Wires(next)
          /\ Cardinality(new) = Cardinality({w \in Wires(project) :
                                   {w[1][1], w[2][1]} \subseteq Tree(project, selection \cap Nodes)})
          /\ \A w \in new : {w[1][1], w[2][1]} \cap Ids(project) = {}
  BY <1>1, <1>2, GraphIsOpened, DuplicateWiresAlike
<1> HIDE DEF next
<1>5. DocumentOK(next)
  BY <1>3 DEF Edited, Half, DocumentOK
<1>6. Wires(project') = Wires(next)
  BY <1>1, <1>3, <1>5, WholeIsTame, WrittenBack
<1> QED BY <1>4, <1>6

-----------------------------------------------------------------------------
(* Theorems. *)

\* Whatever is edited, at whatever depth, and undone and redone: no edge leads
\* to a node or a boundary port that is not there, inlining finds both ends of
\* every edge at a primitive node, and the open graph exists.
THEOREM EverythingResolves == Spec => []ReferencesResolve
<1>1. Init => IInv
  BY InitEstablishes
<1>2. IInv /\ [Next]_vars => IInv'
  BY NextPreserves
<1>3. IInv => ReferencesResolve
  BY IInvResolves
<1> QED BY <1>1, <1>2, <1>3, PTL DEF Spec

\* What adding, removing and moving a pass does to the indices.
LEMMA PassChangesFollow ==
  ASSUME IInv, PassesChange
  PROVE  LET same(i, j) == PassAt(project', j) = IF PassAt(project, i) \in Range(project'.passes)
                                                 THEN PassAt(project, i) ELSE None
         IN  /\ \A n \in Samplers(project) \cap Ids(project') :
                  project.nodes[n].home \in PassIds /\ project.nodes[n].index < Len(project.passes)
                    => same(project.nodes[n].index, project'.nodes[n].index)
             /\ project.feedbackPass # None => same(project.feedbackPass, project'.feedbackPass)
<1> DEFINE same(i, j) == PassAt(project', j) = IF PassAt(project, i) \in Range(project'.passes)
                                               THEN PassAt(project, i) ELSE None
<1>1. CASE AddNewPass
  <2>1. PICK p \in PassIds \ Range(project.passes) : project' = AddPass(project, p)
    BY <1>1 DEF AddNewPass, Commit
  <2>2. /\ Range(project'.passes) = Range(project.passes) \cup {p}
        /\ project'.nodes = project.nodes /\ project'.feedbackPass = project.feedbackPass
        /\ Len(project.passes) \in Nat /\ Len(project'.passes) = Len(project.passes) + 1
        /\ \A i \in 1..Len(project.passes) : project'.passes[i] = project.passes[i]
    BY <2>1, AddPassKeeps DEF IInv
  <2>3. /\ Range(project'.passes) \subseteq PassIds /\ None \notin PassIds
        /\ \A i \in 1..Len(project.passes) : project.passes[i] \in Range(project.passes)
    <3>1. DOMAIN project.passes = 1..Len(project.passes)
      BY DEF IInv, DocumentOK, Documents
    <3>2. \A i \in 1..Len(project.passes) : project.passes[i] \in Range(project.passes)
      BY <3>1 DEF Range
    <3>3. Range(project.passes) \subseteq PassIds
      BY PassesAreNoNodes DEF IInv
    <3> QED BY <2>2, <3>2, <3>3, IdsAssumption
  <2>4. ASSUME NEW i \in Int, i < Len(project.passes) PROVE same(i, i)
    <3>1. CASE i < 0
      BY <2>2, <2>3, <3>1 DEF PassAt
    <3>2. CASE i >= 0
      <4>1. i + 1 \in 1..Len(project.passes) /\ i \in 0..Len(project.passes)-1 /\ i \in 0..Len(project'.passes)-1
        BY <2>2, <2>4, <3>2
      <4>2. PassAt(project, i) = project.passes[i+1] /\ PassAt(project', i) = project.passes[i+1]
        BY <2>2, <4>1 DEF PassAt
      <4>3. project.passes[i+1] \in Range(project'.passes)
        BY <2>2, <2>3, <4>1
      <4> QED BY <4>2, <4>3
    <3> QED BY <3>1, <3>2
  <2>5. \A n \in Ids(project) : project.nodes[n].index \in Int
    BY DEF IInv, DocumentOK, Documents, NodeRecords
  <2>6. project.feedbackPass # None => project.feedbackPass \in Int /\ project.feedbackPass < Len(project.passes)
    BY <2>2 DEF IInv, DocumentOK, DANGLING_INDEX
  <2> HIDE DEF same
  <2> QED BY <2>2, <2>4, <2>5, <2>6 DEF Samplers, same
<1>2. CASE DropPass
  <2>1. PICK i \in DOMAIN project.passes : project' = RemovePass(project, project.passes[i])
    BY <1>2 DEF DropPass, Commit
  <2>2. Len(project.passes) > 1
    BY <1>2 DEF DropPass
  <2> QED BY <2>1, <2>2, RemovePassKeeps DEF IInv, Samplers
<1>3. CASE MovePass
  <2>1. PICK from \in DOMAIN project.passes, to \in DOMAIN project.passes : project' = ReorderPass(project, from, to)
    BY <1>3 DEF MovePass, Commit
  <2> QED BY <2>1, ReorderPassKeeps DEF IInv, Samplers
<1> QED BY <1>1, <1>2, <1>3 DEF PassesChange

\* Samplers of pass graphs and the feedback pass keep naming the same pass when
\* passes are added, removed or moved, and none when that pass was removed.
THEOREM ReferencesFollow == Spec => PassReferencesFollow
<1>1. Init => IInv
  BY InitEstablishes
<1>2. IInv /\ [Next]_vars => IInv'
  BY NextPreserves
<1>3. IInv => [PassesChange =>
        \A n \in Samplers(project) \cap Ids(project') :
          project.nodes[n].home \in PassIds /\ project.nodes[n].index < Len(project.passes)
            => Follows(n)]_vars
  BY PassChangesFollow DEF Follows
<1>4. IInv => [PassesChange /\ project.feedbackPass # None =>
       LET before == PassAt(project, project.feedbackPass)
       IN  PassAt(project', project'.feedbackPass)
             = IF before \in Range(project'.passes) THEN before ELSE None]_vars
  BY PassChangesFollow
<1> QED BY <1>1, <1>2, <1>3, <1>4, PTL DEF Spec, PassReferencesFollow, SamplersFollowTheirPass, FeedbackFollowsItsPass

\* Collapsing a selection of a pass graph or expanding one of its subgraph
\* nodes leaves the primitive nodes and the wires between them as they were.
THEOREM GroupingIsPresentation == Spec => RegroupingKeepsTheMeaning
<1>1. Init => IInv
  BY InitEstablishes
<1>2. IInv /\ [Next]_vars => IInv'
  BY NextPreserves
<1>3. IInv => [(Collapse \/ Expand) /\ subgraphPath = <<>> =>
                 /\ Primitives(project') = Primitives(project)
                 /\ Wires(project') = Wires(project)]_vars
  BY RegroupingIsHarmless
<1> QED BY <1>1, <1>2, <1>3, PTL DEF Spec, RegroupingKeepsTheMeaning

\* Removing nodes or an edge at any depth cuts their wires and no other, and
\* copies are wired as the originals are and to nothing else.
THEOREM EditsAreExact == Spec => EditsKeepTheRest
<1>1. Init => IInv
  BY InitEstablishes
<1>2. IInv /\ [Next]_vars => IInv'
  BY NextPreserves
<1>3. IInv => [/\ RemoveNodes =>
                    Wires(project') = {w \in Wires(project) : {w[1][1], w[2][1]} \subseteq Ids(project')}
               /\ RemoveEdge =>
                    /\ Wires(project') \subseteq Wires(project)
                    /\ Cardinality(Wires(project) \ Wires(project')) <= 1]_vars
  BY RemovalIsExact
<1>4. IInv => [DuplicateSelection =>
                 LET copied == Tree(project, selection \cap Nodes)
                     new == Wires(project') \ Wires(project)
                 IN  /\ Wires(project) \subseteq Wires(project')
                     /\ Cardinality(new) = Cardinality({w \in Wires(project) : {w[1][1], w[2][1]} \subseteq copied})
                     /\ \A w \in new : {w[1][1], w[2][1]} \cap Ids(project) = {}]_vars
  BY CopyingIsExact
<1> QED BY <1>1, <1>2, <1>3, <1>4, PTL DEF Spec, EditsKeepTheRest, RemovalCutsOnlyItsWires, CopiesAreWiredAlike
=============================================================================
