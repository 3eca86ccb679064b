---------------------------- MODULE GraphDocument ----------------------------
(***************************************************************************)
(* Documents of the editor and the pure operations on them: the pass list  *)
(* with its index references (pipeline/passOps.ts), collapsing and         *)
(* expanding groups of nodes (store/collapse.ts, nodes/subgraph.ts), edits *)
(* of the graph at a path (store/subgraphNav.ts), duplication              *)
(* (store/clipboard.ts).                                                   *)
(*                                                                         *)
(* A document is kept flat: a node has a `home`, the pass or the subgraph  *)
(* node whose graph it is in, and an edge belongs to the graph its ends    *)
(* are in.  Nodes that only compute are "op" (one input, one output),      *)
(* those that read another pass by its index are "sampler" (one output).   *)
(* A boundary port has a number for a name, the port of a primitive is 0.  *)
(***************************************************************************)
EXTENDS Integers, Sequences, SequencesExt, FiniteSetsExt, Functions

CONSTANTS NodeIds, PassIds, None

ASSUME IdsAssumption ==
  /\ IsFiniteSet(NodeIds) /\ NodeIds \cap PassIds = {}
  /\ None \notin NodeIds \cup PassIds \cup Int

DANGLING_INDEX == -1

-----------------------------------------------------------------------------
(* Documents: code is the set of passes written as code, a boundary port of *)
(* the subgraph node sub stands for a port of a node inside it.             *)

NodeRecords == [kind : {"op", "sampler", "sub"}, home : NodeIds \cup PassIds, index : Int]
EdgeRecords == [src : NodeIds, sp : Nat, dst : NodeIds, dp : Nat]
PortRecords == [sub : NodeIds, name : Nat, dir : {"in", "out"}, node : NodeIds, port : Nat]

\* The documents with nodes I.
Documents(I) ==
  [passes : Seq(PassIds), code : SUBSET PassIds, feedbackPass : Int \cup {None},
   nodes : [I -> NodeRecords], edges : SUBSET EdgeRecords, ports : SUBSET PortRecords]

Ids(d) == DOMAIN d.nodes
In(d, g) == {n \in Ids(d) : d.nodes[n].home = g}
IsSub(d, n) == n \in Ids(d) /\ d.nodes[n].kind = "sub"

\* The nodes of S with everything inside them.
Tree(d, S) ==
  LET closed == {T \in SUBSET Ids(d) :
                   S \subseteq T /\ \A n \in Ids(d) : d.nodes[n].home \in T => n \in T}
  IN  {n \in Ids(d) : \A T \in closed : n \in T}

\* getDescriptor(kind).inputs / outputs: the ports a node offers.
Ports(d, n, dir) ==
  IF d.nodes[n].kind = "sub" THEN {bp.name : bp \in {b \in d.ports : b.sub = n /\ b.dir = dir}}
  ELSE IF dir = "out" \/ d.nodes[n].kind = "op" THEN {0} ELSE {}

\* The document without the nodes of S, what is inside them, their edges.
Without(d, S) ==
  LET gone == Tree(d, S)
  IN  [d EXCEPT !.nodes = Restrict(d.nodes, Ids(d) \ gone),
                !.edges = {e \in @ : e.src \notin gone /\ e.dst \notin gone},
                !.ports = {bp \in @ : bp.sub \notin gone}]

\* The document with one more node.
WithNode(d, n, node) ==
  [d EXCEPT !.nodes = [m \in Ids(d) \cup {n} |-> IF m = n THEN node ELSE d.nodes[m]]]

\* nextId: a token that no node has, and one for each of several copies.
Fresh(d) == CHOOSE n \in NodeIds \ Ids(d) : TRUE
Copies(d, S) == CHOOSE f \in [S -> NodeIds \ Ids(d)] : IsInjective(f)
Room(d, k) == Cardinality(NodeIds \ Ids(d)) >= k

-----------------------------------------------------------------------------
(* pipeline/passOps.ts *)

\* Mutant of applyPermutation: an index left over is clamped to the first pass.
ApplyPermutationClamps(d, next) ==
  LET new(i) == IF i \in 0..Len(d.passes)-1 /\ Contains(next, d.passes[i+1])
                THEN (CHOOSE j \in 1..Len(next) : next[j] = d.passes[i+1]) - 1
                ELSE 0
  IN  [d EXCEPT !.passes = next,
                !.nodes = [n \in Ids(d) |->
                  IF d.nodes[n].kind = "sampler" THEN [d.nodes[n] EXCEPT !.index = new(@)]
                  ELSE d.nodes[n]]]

\* applyPermutation: the passes in their new order, every index moved along.
\* remapPassIndices looks at the nodes of the pass's graph, not inside its
\* subgraph nodes.
ApplyPermutation(d, next) ==
  LET new(i) == IF i \in 0..Len(d.passes)-1 /\ Contains(next, d.passes[i+1])
                THEN (CHOOSE j \in 1..Len(next) : next[j] = d.passes[i+1]) - 1
                ELSE DANGLING_INDEX
  IN  [d EXCEPT !.passes = next,
                !.feedbackPass = IF @ = None THEN None ELSE new(@),
                !.nodes = [n \in Ids(d) |->
                  IF d.nodes[n].kind = "sampler" /\ d.nodes[n].home \in PassIds
                  THEN [d.nodes[n] EXCEPT !.index = new(@)]
                  ELSE d.nodes[n]]]

AddPass(d, p) == [d EXCEPT !.passes = Append(@, p)]

\* removePass: never the last one.
RemovePass(d, p) ==
  LET kept == ApplyPermutation(d, RemoveAt(d.passes, CHOOSE i \in DOMAIN d.passes : d.passes[i] = p))
  IN  [Without(kept, In(kept, p)) EXCEPT !.code = @ \ {p}]

\* reorderPass, from and to counted from 1.
ReorderPass(d, from, to) ==
  ApplyPermutation(d, InsertAt(RemoveAt(d.passes, from), to, d.passes[from]))

\* passToWholePassCode: the graph is discarded.
PassToCode(d, p) == [Without(d, In(d, p)) EXCEPT !.code = @ \cup {p}]
PassToGraph(d, p) == [d EXCEPT !.code = @ \ {p}]

-----------------------------------------------------------------------------
(* store/collapse.ts, nodes/subgraph.ts *)

\* Mutant of collapseSelection: a boundary port is named after its interior
\* port, with no number to tell two of them apart.
CollapseSharesPortNames(d, S, s) ==
  LET home == d.nodes[CHOOSE n \in S : TRUE].home
      crossing == {e \in d.edges : (e.src \in S) # (e.dst \in S)}
      port(e) == IF e.dst \in S
                 THEN [sub |-> s, name |-> 1, dir |-> "in", node |-> e.dst, port |-> e.dp]
                 ELSE [sub |-> s, name |-> 1, dir |-> "out", node |-> e.src, port |-> e.sp]
      rewired(e) == IF e.dst \in S THEN [e EXCEPT !.dst = s, !.dp = 1] ELSE [e EXCEPT !.src = s, !.sp = 1]
  IN  [d EXCEPT !.nodes = [n \in Ids(d) \cup {s} |->
                             IF n = s THEN [kind |-> "sub", home |-> home, index |-> 0]
                             ELSE IF n \in S THEN [d.nodes[n] EXCEPT !.home = s] ELSE d.nodes[n]],
                !.edges = (@ \ crossing) \cup {rewired(e) : e \in crossing},
                !.ports = @ \cup {port(e) : e \in crossing}]

\* collapseSelection: the nodes of S (of one graph) become the interior of s.
\* Each crossing edge gets a boundary port of its own, by the edge order.
CollapseSelection(d, S, s) ==
  LET home == d.nodes[CHOOSE n \in S : TRUE].home
      crossing == {e \in d.edges : (e.src \in S) # (e.dst \in S)}
      name == CHOOSE f \in [crossing -> 1..Cardinality(crossing)] : IsInjective(f)
      port(e) == IF e.dst \in S
                 THEN [sub |-> s, name |-> name[e], dir |-> "in", node |-> e.dst, port |-> e.dp]
                 ELSE [sub |-> s, name |-> name[e], dir |-> "out", node |-> e.src, port |-> e.sp]
      rewired(e) == IF e.dst \in S THEN [e EXCEPT !.dst = s, !.dp = name[e]]
                    ELSE [e EXCEPT !.src = s, !.sp = name[e]]
  IN  [d EXCEPT !.nodes = [n \in Ids(d) \cup {s} |->
                             IF n = s THEN [kind |-> "sub", home |-> home, index |-> 0]
                             ELSE IF n \in S THEN [d.nodes[n] EXCEPT !.home = s] ELSE d.nodes[n]],
                !.edges = (@ \ crossing) \cup {rewired(e) : e \in crossing},
                !.ports = @ \cup {port(e) : e \in crossing}]

\* expandSubgraph: the interior of s moves into its home; an edge at s is
\* rewired to the endpoint its boundary port names, or dropped without one.
\* (The code renames the interior nodes; here every node keeps its token.)
ExpandSubgraph(d, s) ==
  LET bound(name, dir) == {bp \in d.ports : bp.sub = s /\ bp.name = name /\ bp.dir = dir}
      the(name, dir) == CHOOSE bp \in bound(name, dir) : TRUE
      inward(e) == IF e.dst # s THEN e
                   ELSE [e EXCEPT !.dst = the(e.dp, "in").node, !.dp = the(e.dp, "in").port]
      outward(e) == IF e.src # s THEN e
                    ELSE [e EXCEPT !.src = the(e.sp, "out").node, !.sp = the(e.sp, "out").port]
      kept == {e \in d.edges : /\ e.dst = s => bound(e.dp, "in") # {}
                               /\ e.src = s => bound(e.sp, "out") # {}}
  IN  [d EXCEPT !.nodes = [n \in Ids(d) \ {s} |->
                             IF d.nodes[n].home = s THEN [d.nodes[n] EXCEPT !.home = d.nodes[s].home]
                             ELSE d.nodes[n]],
                !.edges = {outward(inward(e)) : e \in kept},
                !.ports = {bp \in @ : bp.sub # s}]

-----------------------------------------------------------------------------
(* store/subgraphNav.ts *)

\* boundaryEndpointLives
EndpointLives(d, bp) ==
  /\ bp.node \in In(d, bp.sub)
  /\ bp.port \in Ports(d, bp.node, bp.dir)

\* Mutant of the reconciliation: the edges at the lost ports stay.
ReconcilePortsOnly(d, s) == [d EXCEPT !.ports = {bp \in @ : bp.sub = s => EndpointLives(d, bp)}]

\* reconcileBoundaryPorts and pruneExteriorEdges for one subgraph node: the
\* ports whose endpoint is gone go, and with them the edges at those ports.
Reconcile(d, s) ==
  LET pruned == {bp \in d.ports : bp.sub = s /\ ~EndpointLives(d, bp)}
      names == {bp.name : bp \in pruned}
  IN  [d EXCEPT !.ports = @ \ pruned,
                !.edges = {e \in @ : /\ ~(e.dst = s /\ e.dp \in names)
                                     /\ ~(e.src = s /\ e.sp \in names)}]

\* replaceGraph: the edited interior is written back level by level, from the
\* deepest subgraph node of the path to the shallowest.
ReplaceGraph(d, path) ==
  LET up[k \in 0..Len(path)] ==
        IF k = 0 THEN d ELSE Reconcile(up[k-1], path[Len(path) + 1 - k])
  IN  up[Len(path)]

-----------------------------------------------------------------------------
(* store/clipboard.ts *)

\* Mutant of the duplication: the copy of a subgraph node keeps the boundary
\* of the original.
DuplicateSharesBoundary(d, S) ==
  LET tree == Tree(d, S)
      copy == Copies(d, tree)
      ren(x) == IF x \in tree THEN copy[x] ELSE x
  IN  [d EXCEPT !.nodes = [n \in Ids(d) \cup Range(copy) |->
                             IF n \in Ids(d) THEN d.nodes[n]
                             ELSE LET o == CHOOSE x \in tree : copy[x] = n
                                  IN  [d.nodes[o] EXCEPT !.home = ren(@)]],
                !.edges = @ \cup {[e EXCEPT !.src = ren(@), !.dst = ren(@)] :
                                     e \in {x \in d.edges : x.src \in tree /\ x.dst \in tree}},
                !.ports = @ \cup {[bp EXCEPT !.sub = ren(@)] : bp \in {b \in d.ports : b.sub \in tree}}]

\* captureClipboard then instantiateClipboard: the nodes of S with what is
\* inside them and the edges between them, as copies.
Duplicate(d, S) ==
  LET tree == Tree(d, S)
      copy == Copies(d, tree)
      ren(x) == IF x \in tree THEN copy[x] ELSE x
      inner == {e \in d.edges : e.src \in tree /\ e.dst \in tree}
  IN  [d EXCEPT !.nodes = [n \in Ids(d) \cup Range(copy) |->
                             IF n \in Ids(d) THEN d.nodes[n]
                             ELSE LET o == CHOOSE x \in tree : copy[x] = n
                                  IN  [d.nodes[o] EXCEPT !.home = ren(@)]],
                !.edges = @ \cup {[e EXCEPT !.src = ren(@), !.dst = ren(@)] : e \in inner},
                !.ports = @ \cup {[bp EXCEPT !.sub = ren(@), !.node = ren(@)] :
                                    bp \in {b \in d.ports : b.sub \in tree}}]

-----------------------------------------------------------------------------
(* What makes a document whole. *)

\* Nodes are in the graph of a pass or of a subgraph node, none inside itself.
NestingOK(d) ==
  /\ \A n \in Ids(d) : d.nodes[n].home \in (Range(d.passes) \ d.code)
                          \cup {s \in Ids(d) : IsSub(d, s)}
  /\ \A S \in SUBSET Ids(d) : S # {} => \E n \in S : d.nodes[n].home \notin S

\* Edges stay within one graph and are at ports that are offered.
EdgesOK(d) ==
  \A e \in d.edges :
    /\ e.src \in Ids(d) /\ e.dst \in Ids(d)
    /\ d.nodes[e.src].home = d.nodes[e.dst].home
    /\ e.sp \in Ports(d, e.src, "out") /\ e.dp \in Ports(d, e.dst, "in")

\* Boundary ports stand for ports that are there.
PortsOK(d) == \A bp \in d.ports : IsSub(d, bp.sub) /\ EndpointLives(d, bp)

\* No edge leads from a node to itself, and the boundary ports of a node differ
\* by name, whatever their direction (uniquePortName).
DrawnOK(d) ==
  /\ \A e \in d.edges : e.src # e.dst
  /\ \A b, c \in d.ports : b.sub = c.sub /\ b.name = c.name => b = c

\* A document is what the store's types say, and nothing in it leads nowhere
\* but an index, which may be the sentinel.
DocumentOK(d) ==
  /\ d \in Documents(Ids(d)) /\ Ids(d) \subseteq NodeIds
  /\ d.passes # <<>> /\ IsInjective(d.passes) /\ d.code \subseteq Range(d.passes)
  /\ d.feedbackPass \in {None, DANGLING_INDEX} \cup (0..Len(d.passes)-1)
  /\ IsFiniteSet(d.edges)
  /\ NestingOK(d) /\ EdgesOK(d) /\ PortsOK(d) /\ DrawnOK(d)

-----------------------------------------------------------------------------
(* What a document means to the compiler. *)

\* inlineAllSubgraphs: where an end of an edge arrives when the subgraph nodes
\* are replaced by their interiors, or None when a boundary port is missing.
Inward(d, e, dir) ==
  LET bound == {bp \in d.ports : bp.sub = e[1] /\ bp.name = e[2] /\ bp.dir = dir}
      b == CHOOSE bp \in bound : TRUE
  IN  IF bound = {} THEN <<None, None>> ELSE <<b.node, b.port>>

Resolve(d, n, p, dir) ==
  LET at[k \in 0..Cardinality(Ids(d))] ==
        IF k = 0 THEN <<n, p>>
        ELSE IF IsSub(d, at[k-1][1]) THEN Inward(d, at[k-1], dir) ELSE at[k-1]
  IN  at[Cardinality(Ids(d))]

Primitives(d) == {n \in Ids(d) : d.nodes[n].kind # "sub"}

\* The wires between primitive nodes that are left when all is inlined.
Wires(d) ==
  {w \in {<<Resolve(d, e.src, e.sp, "out"), Resolve(d, e.dst, e.dp, "in")>> : e \in d.edges} :
     w[1][1] \in Primitives(d) /\ w[2][1] \in Primitives(d)}

\* The pass an index stands for, None when it stands for no pass.
PassAt(d, i) == IF i \in 0..Len(d.passes)-1 THEN d.passes[i+1] ELSE None
=============================================================================
