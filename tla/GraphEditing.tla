---------------------------- MODULE GraphEditing -----------------------------
(***************************************************************************)
(* The author editing a document (documentStore.ts): the pipeline view     *)
(* with its pass operations, the graph of a pass, the interiors of its     *)
(* subgraph nodes, and undo and redo moving the document under the path    *)
(* the author has drilled into.                                            *)
(***************************************************************************)
EXTENDS GraphDocument

CONSTANTS
  Projects,   \* the documents a session may start from
  MaxEdits,   \* bound: discrete edits in a behaviour
  MaxPath     \* bound: nesting of subgraph nodes

\* Documents are read as the editor writes them.
ASSUME ProjectsAssumption == \A d \in Projects : DocumentOK(d)

VARIABLES
  project,        \* the document
  activePassId,   \* the pass whose graph is edited
  level,          \* "pipeline" or "pass"
  subgraphPath,   \* the subgraph nodes drilled into
  selection,      \* the selected nodes of the open graph
  past, future,   \* snapshots: [project, activePassId]
  edits           \* edits made so far (bound)

nav == <<level, subgraphPath>>
history == <<past, future, edits>>
vars == <<project, activePassId, nav, selection, history>>

Snapshot == [project |-> project, activePassId |-> activePassId]

\* activeGraph: the pass or subgraph node whose graph is open.
ActiveGraph == IF subgraphPath = <<>> THEN activePassId ELSE Last(subgraphPath)
Nodes == In(project, ActiveGraph)
InGraph == level = "pass" /\ activePassId \notin project.code

\* loadProject
Init ==
  /\ project \in Projects
  /\ activePassId = project.passes[1]
  /\ level = "pipeline"
  /\ subgraphPath = <<>>
  /\ selection = {}
  /\ past = <<>> /\ future = <<>>
  /\ edits = 0

Commit(next) ==
  /\ edits < MaxEdits
  /\ edits' = edits + 1
  /\ project' = next
  /\ past' = Append(past, Snapshot)
  /\ future' = <<>>

\* mutateGraph: the open graph replaced, the path to it written back.
MutateGraph(next) == Commit(ReplaceGraph(next, subgraphPath))

-----------------------------------------------------------------------------
(* The graph canvas. *)

AddNode ==
  /\ InGraph /\ Room(project, 1)
  /\ \E kind \in {"op", "sampler"} :
       LET n == Fresh(project)
       IN  MutateGraph(WithNode(project, n, [kind |-> kind, home |-> ActiveGraph, index |-> 0]))
  /\ UNCHANGED <<activePassId, nav, selection>>

\* addEdge: no self-loop, one edge per input port.
AddEdge ==
  /\ InGraph
  /\ \E s, t \in Nodes : \E sp \in Ports(project, s, "out"), tp \in Ports(project, t, "in") :
       /\ s # t
       /\ \A e \in project.edges : ~(e.dst = t /\ e.dp = tp)
       /\ MutateGraph([project EXCEPT !.edges = @ \cup {[src |-> s, sp |-> sp, dst |-> t, dp |-> tp]}])
  /\ UNCHANGED <<activePassId, nav, selection>>

\* removeSelection with nodes selected: they and their edges go.
RemoveNodes ==
  /\ InGraph
  /\ selection \cap Nodes # {}
  /\ MutateGraph(Without(project, selection \cap Nodes))
  /\ selection' = {}
  /\ UNCHANGED <<activePassId, nav>>

\* removeSelection with an edge selected.
RemoveEdge ==
  /\ InGraph
  /\ \E e \in {x \in project.edges : x.src \in Nodes} :
       MutateGraph([project EXCEPT !.edges = @ \ {e}])
  /\ selection' = {}
  /\ UNCHANGED <<activePassId, nav>>

\* duplicate, and paste of what was just copied: the copies are selected.
DuplicateSelection ==
  /\ InGraph
  /\ selection \cap Nodes # {}
  /\ Room(project, Cardinality(Tree(project, selection \cap Nodes)))
  /\ LET next == Duplicate(project, selection \cap Nodes)
     IN  /\ MutateGraph(next)
         /\ selection' = In(next, ActiveGraph) \ Nodes
  /\ UNCHANGED <<activePassId, nav>>

\* updateNodeData of a sampler's index field.
SetIndex ==
  /\ InGraph
  /\ \E n \in Nodes, i \in 0..Len(project.passes)-1 :
       /\ project.nodes[n].kind = "sampler"
       /\ project.nodes[n].index # i
       /\ MutateGraph([project EXCEPT !.nodes[n].index = i])
  /\ UNCHANGED <<activePassId, nav, selection>>

Collapse ==
  /\ InGraph /\ Room(project, 1) /\ Len(subgraphPath) < MaxPath
  /\ selection \cap Nodes # {}
  /\ LET s == Fresh(project)
     IN  /\ MutateGraph(CollapseSelection(project, selection \cap Nodes, s))
         /\ selection' = {s}
  /\ UNCHANGED <<activePassId, nav>>

Expand ==
  /\ InGraph
  /\ \E s \in Nodes :
       /\ IsSub(project, s)
       /\ MutateGraph(ExpandSubgraph(project, s))
       /\ selection' = In(project, s)
  /\ UNCHANGED <<activePassId, nav>>

Select ==
  /\ InGraph
  /\ \E S \in SUBSET Nodes : selection' = S /\ selection # S
  /\ UNCHANGED <<project, activePassId, nav, history>>

-----------------------------------------------------------------------------
(* The pipeline view and the pass settings. *)

\* addPass: the new pass becomes the active one.
AddNewPass ==
  /\ level = "pipeline"
  /\ \E p \in PassIds \ Range(project.passes) :
       Commit(AddPass(project, p)) /\ activePassId' = p
  /\ subgraphPath' = <<>>
  /\ UNCHANGED <<level, selection>>

\* removePass: an active pass that goes is replaced by the one in its place.
DropPass ==
  /\ level = "pipeline" /\ Len(project.passes) > 1
  /\ \E i \in DOMAIN project.passes :
       LET p == project.passes[i]
           next == RemovePass(project, p)
       IN  /\ Commit(next)
           /\ activePassId' = IF activePassId = p
                              THEN next.passes[Min({i, Len(next.passes)})] ELSE activePassId
           /\ subgraphPath' = IF activePassId = p THEN <<>> ELSE subgraphPath
  /\ UNCHANGED <<level, selection>>

MovePass ==
  /\ level = "pipeline"
  /\ \E from \in DOMAIN project.passes : \E to \in {from - 1, from + 1} :
       to \in DOMAIN project.passes /\ Commit(ReorderPass(project, from, to))
  /\ UNCHANGED <<activePassId, nav, selection>>

\* setPassToWholePassCode: a path into the lost graph is closed.
SetPassToCode ==
  /\ \E p \in Range(project.passes) \ project.code :
       /\ Commit(PassToCode(project, p))
       /\ subgraphPath' = IF activePassId = p THEN <<>> ELSE subgraphPath
       /\ selection' = IF activePassId = p THEN {} ELSE selection
  /\ UNCHANGED <<activePassId, level>>

SetPassToGraph ==
  /\ \E p \in project.code : Commit(PassToGraph(project, p))
  /\ UNCHANGED <<activePassId, nav, selection>>

\* setFeedbackPass: the pass shown in the settings, or none.
SetFeedbackPass ==
  /\ \E i \in {None} \cup (0..Len(project.passes)-1) :
       project.feedbackPass # i /\ Commit([project EXCEPT !.feedbackPass = i])
  /\ UNCHANGED <<activePassId, nav, selection>>

-----------------------------------------------------------------------------
(* Navigation. *)

OpenPass ==
  /\ \E p \in Range(project.passes) : activePassId' = p
  /\ level' = "pass"
  /\ subgraphPath' = <<>>
  /\ selection' = {}
  /\ UNCHANGED <<project, history>>

ShowPipeline ==
  /\ level = "pass"
  /\ level' = "pipeline"
  /\ subgraphPath' = <<>>
  /\ selection' = {}
  /\ UNCHANGED <<project, activePassId, history>>

OpenSubgraph ==
  /\ InGraph
  /\ \E s \in Nodes : IsSub(project, s) /\ subgraphPath' = Append(subgraphPath, s)
  /\ selection' = {}
  /\ UNCHANGED <<project, activePassId, level, history>>

\* closeSubgraph; at the pass graph it is showPipeline.
CloseSubgraph ==
  /\ subgraphPath # <<>>
  /\ subgraphPath' = Front(subgraphPath)
  /\ selection' = {}
  /\ UNCHANGED <<project, activePassId, level, history>>

\* levelFor: no pass to be in, no pass view.
LevelFor(d, active) ==
  IF level = "pass" /\ active \notin Range(d.passes) THEN "pipeline" ELSE level

\* validPath: the longest prefix that still names nested subgraph nodes.
ValidPath(d, active, path) ==
  LET opens(k) == /\ IsSub(d, path[k])
                  /\ d.nodes[path[k]].home = IF k = 1 THEN active ELSE path[k-1]
      valid == Max({k \in 0..Len(path) : \A i \in 1..k : opens(i)})
  IN  SubSeq(path, 1, valid)

\* undo and redo: the document moves, the view follows as far as it can.
JumpTo(snap) ==
  /\ project' = snap.project
  /\ activePassId' = snap.activePassId
  /\ level' = LevelFor(snap.project, snap.activePassId)
  /\ subgraphPath' = IF level' = "pass"
                     THEN ValidPath(snap.project, snap.activePassId, subgraphPath) ELSE <<>>
  /\ selection' = {}
  /\ UNCHANGED edits

Undo ==
  /\ past # <<>>
  /\ JumpTo(Last(past))
  /\ past' = Front(past)
  /\ future' = Append(future, Snapshot)

Redo ==
  /\ future # <<>>
  /\ JumpTo(Last(future))
  /\ past' = Append(past, Snapshot)
  /\ future' = Front(future)

Next ==
  \/ AddNode \/ AddEdge \/ RemoveNodes \/ RemoveEdge \/ DuplicateSelection \/ SetIndex
  \/ Collapse \/ Expand \/ Select
  \/ AddNewPass \/ DropPass \/ MovePass
  \/ SetPassToCode \/ SetPassToGraph \/ SetFeedbackPass
  \/ OpenPass \/ ShowPipeline \/ OpenSubgraph \/ CloseSubgraph
  \/ Undo \/ Redo

Spec == Init /\ [][Next]_vars

-----------------------------------------------------------------------------
(* Properties. *)

\* The types, and that documents are whole, also those that undo brings back.
SnapshotOK(snap) == DocumentOK(snap.project) /\ snap.activePassId \in Range(snap.project.passes)

TypeOK ==
  /\ DocumentOK(project)
  /\ \A i \in DOMAIN past : SnapshotOK(past[i])
  /\ \A i \in DOMAIN future : SnapshotOK(future[i])
  /\ level \in {"pipeline", "pass"}

\* Inlining loses nothing (graphToIr drops, without a word, an edge whose
\* boundary port it cannot resolve): whatever was edited, at whatever depth,
\* every edge leads from a primitive node to a primitive node.
EveryEdgeResolves ==
  \A e \in project.edges :
    /\ Resolve(project, e.src, e.sp, "out")[1] \in Primitives(project)
    /\ Resolve(project, e.dst, e.dp, "in")[1] \in Primitives(project)

\* The editor never shows a graph that is not there: the active pass exists
\* and the path leads through live subgraph nodes of its graph, also after
\* undo or redo took away what it was drilled into.
OpenGraphExists ==
  /\ activePassId \in Range(project.passes)
  /\ subgraphPath = ValidPath(project, activePassId, subgraphPath)
  /\ level = "pipeline" => subgraphPath = <<>>

\* What the document and the editor refer to is there.
ReferencesResolve == TypeOK /\ EveryEdgeResolves /\ OpenGraphExists

\* An input never has two sources (addEdge rejects a second connection,
\* documentStore.ts:722) once all is inlined.  It does not hold: inside a
\* subgraph the input a boundary port feeds looks free.
OneSourcePerInput ==
  \A v, w \in Wires(project) : v[2] = w[2] => v = w

\* Grouping is only presentation: collapsing a selection of a pass graph or
\* expanding one of its subgraph nodes leaves the inlined graph as it was.
RegroupingKeepsTheMeaning ==
  [][(Collapse \/ Expand) /\ subgraphPath = <<>> =>
       /\ Primitives(project') = Primitives(project)
       /\ Wires(project') = Wires(project)]_vars

\* The same of every depth (collapse.ts:12 and nodes/subgraph.ts:9 promise
\* it of every expansion).  It does not hold: a boundary port of the graph
\* around names a node that collapse moves and expand renames.
RegroupingKeepsTheMeaningEverywhere ==
  [][Collapse \/ Expand =>
       /\ Primitives(project') = Primitives(project)
       /\ Wires(project') = Wires(project)]_vars

\* Removing nodes at any depth cuts the wires of the primitives removed and
\* no other, though boundary ports and edges are pruned on the way up;
\* removing an edge cuts at most the wire it stands for (none when another
\* edge stands for the same wire, as two boundary ports of one input allow).
RemovalCutsOnlyItsWires ==
  [][/\ RemoveNodes =>
          Wires(project') = {w \in Wires(project) : {w[1][1], w[2][1]} \subseteq Ids(project')}
     /\ RemoveEdge =>
          /\ Wires(project') \subseteq Wires(project)
          /\ Cardinality(Wires(project) \ Wires(project')) <= 1]_vars

\* The copies are wired among themselves as the originals are, and to
\* nothing else.
CopiesAreWiredAlike ==
  [][DuplicateSelection =>
       LET copied == Tree(project, selection \cap Nodes)
           new == Wires(project') \ Wires(project)
       IN  /\ Wires(project) \subseteq Wires(project')
           /\ Cardinality(new) = Cardinality({w \in Wires(project) : {w[1][1], w[2][1]} \subseteq copied})
           /\ \A w \in new : {w[1][1], w[2][1]} \cap Ids(project) = {}]_vars

\* Removing and copying leave the other wires alone.
EditsKeepTheRest == RemovalCutsOnlyItsWires /\ CopiesAreWiredAlike

\* A node names after the edit the pass it named before, and none when that
\* pass is gone.
Follows(n) ==
  LET before == PassAt(project, project.nodes[n].index)
      after == PassAt(project', project'.nodes[n].index)
  IN  after = IF before \in Range(project'.passes) THEN before ELSE None
Samplers(d) == {n \in Ids(d) : d.nodes[n].kind = "sampler"}
PassesChange == (AddNewPass \/ DropPass \/ MovePass) /\ ~Undo /\ ~Redo

\* passOps.ts:13: each sampler of a pass graph keeps pointing at the SAME
\* pass when passes are added, removed or moved, and at none when that pass
\* was removed.  An index beyond the list names no pass yet: a sampler that
\* comes out of a subgraph by Expand may bring a stale one along, and then
\* takes up the next pass that is added.
SamplersFollowTheirPass ==
  [][PassesChange =>
       \A n \in Samplers(project) \cap Ids(project') :
         project.nodes[n].home \in PassIds /\ project.nodes[n].index < Len(project.passes)
           => Follows(n)]_vars

\* The same of every sampler.  It does not hold: the samplers inside
\* subgraph nodes are not renumbered (passOps.ts:53), and one brought out of
\* there by Expand may have an index beyond the list.
EverySamplerFollowsItsPass ==
  [][PassesChange => \A n \in Samplers(project) \cap Ids(project') : Follows(n)]_vars

\* The feedback pass is renumbered like the samplers.
FeedbackFollowsItsPass ==
  [][PassesChange /\ project.feedbackPass # None =>
       LET before == PassAt(project, project.feedbackPass)
       IN  PassAt(project', project'.feedbackPass)
             = IF before \in Range(project'.passes) THEN before ELSE None]_vars

\* What names a pass by its number names the same pass when passes come and go.
PassReferencesFollow == SamplersFollowTheirPass /\ FeedbackFollowsItsPass
=============================================================================
