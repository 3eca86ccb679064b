------------------------------ MODULE UserStore -------------------------------
(***************************************************************************)
(* What the application keeps on the user's disk besides presets: project  *)
(* files and the list of recent ones (core-model lib.rs and session.rs),   *)
(* the items of the node library (library.rs), and the graphs that go into *)
(* items and come out of them again (LibraryItem::instantiate, repeated in *)
(* instantiate.ts).                                                        *)
(*                                                                         *)
(* A disk maps paths to contents.  A path is a sequence, its kind first;   *)
(* what is being written is Torn until all of it is there, and a command   *)
(* is its remaining steps on the disk and its answer.                      *)
(***************************************************************************)
EXTENDS Integers, Sequences, SequencesExt, FiniteSetsExt, Functions

CONSTANTS ItemIds,      \* names an item's file may have: [A-Za-z0-9_-]+
          ProjectPaths, \* where the user keeps projects
          MAX_RECENTS

ASSUME StoreAssumption == ItemIds \subseteq Nat /\ MAX_RECENTS \in Nat \ {0}

PROJECT_SCHEMA_VERSION == 1

Torn == [whole |-> FALSE]
Project(path) == <<"project", path>>
Recents == <<"recents">>
ItemPath(id) == <<"item", id>>

ProjectFile(version, project) == [whole |-> TRUE, version |-> version, project |-> project]
RecentsFile(list) == [whole |-> TRUE, list |-> list]
ItemFile(item) == [whole |-> TRUE, item |-> item]

Ok(value) == [kind |-> "Ok", value |-> value]
LibraryError(kind) == [kind |-> kind, value |-> {}]
ProjectSaveError(kind) == [kind |-> kind, value |-> {}]
ProjectLoadError(kind) == [kind |-> kind, value |-> {}]

-----------------------------------------------------------------------------
(* Steps on the disk. *)

Step(op, path, content) == [op |-> op, path |-> path, content |-> content]

Put(disk, path, content) ==
  [f \in DOMAIN disk \cup {path} |-> IF f = path THEN content ELSE disk[f]]
Without(disk, path) == Restrict(disk, DOMAIN disk \ {path})

Performed(disk, step) ==
  CASE step.op = "open"   -> Put(disk, step.path, Torn)
    [] step.op = "write"  -> Put(disk, step.path, step.content)
    [] step.op = "rename" -> Put(Without(disk, step.path), step.content, disk[step.path])
    [] step.op = "remove" -> Without(disk, step.path)

\* std::fs::write.
Write(path, content) == <<Step("open", path, Torn), Step("write", path, content)>>
Temporary(path) == Append(path, "tmp")

\* Written beside the file and renamed over it.
WriteAtomically(path, content) ==
  Write(Temporary(path), content) \o <<Step("rename", Temporary(path), path)>>

-----------------------------------------------------------------------------
(* Project files. *)

\* Mutant: the file itself is written.
SaveToFileInPlace(path, project) == Write(Project(path), ProjectFile({PROJECT_SCHEMA_VERSION}, {project}))
SaveToFile(path, project) ==
  WriteAtomically(Project(path), ProjectFile({PROJECT_SCHEMA_VERSION}, {project}))

\* The version is looked at before anything else of the file.
FromJson(file) ==
  IF ~file.whole \/ file.version = {} THEN ProjectLoadError("Malformed")
  ELSE LET version == CHOOSE v \in file.version : TRUE
       IN  CASE version > PROJECT_SCHEMA_VERSION -> ProjectLoadError("TooNew")
             [] version < PROJECT_SCHEMA_VERSION -> ProjectLoadError("Unsupported")
             [] file.project = {} -> ProjectLoadError("Malformed")
             [] OTHER -> Ok(file.project)

LoadFromFile(disk, path) ==
  IF Project(path) \in DOMAIN disk THEN FromJson(disk[Project(path)]) ELSE ProjectLoadError("Io")

-----------------------------------------------------------------------------
(* The recent projects, the latest first. *)

\* A file that is not there or does not parse is an empty list.
ReadRecentsRaw(disk) ==
  IF Recents \in DOMAIN disk /\ disk[Recents].whole THEN disk[Recents].list ELSE <<>>

WriteRecents(list) == Write(Recents, RecentsFile(list))

\* retain and filter: the entries of the list that are in S, in their order.
Among(list, S) ==
  LET upTo[k \in 0..Len(list)] ==
        IF k = 0 THEN <<>>
        ELSE IF list[k] \in S THEN Append(upTo[k-1], list[k]) ELSE upTo[k-1]
  IN  upTo[Len(list)]

Pushed(list, path) ==
  LET others == Among(list, Range(list) \ {path})
  IN  SubSeq(<<path>> \o others, 1, IF Len(others) < MAX_RECENTS THEN Len(others) + 1 ELSE MAX_RECENTS)

PushRecent(disk, path) ==
  LET list == Pushed(ReadRecentsRaw(disk), path) IN [steps |-> WriteRecents(list), answer |-> Ok({list})]

\* Projects whose file is gone are taken out, from the file too.
Pruned(disk) ==
  LET list == ReadRecentsRaw(disk) IN Among(list, {p \in Range(list) : Project(p) \in DOMAIN disk})
LoadRecents(disk) ==
  [steps  |-> IF Len(Pruned(disk)) # Len(ReadRecentsRaw(disk)) THEN WriteRecents(Pruned(disk)) ELSE <<>>,
   answer |-> Ok({Pruned(disk)})]

-----------------------------------------------------------------------------
(* Graphs, and items made of a part of one. *)

\* A node's body is {}, or {the subgraph it stands for}.
Node(id, body) == [id |-> id, body |-> body]
Edge(source, target) == [source |-> source, target |-> target]
Graph(nodes, edges) == [nodes |-> nodes, edges |-> edges]
BoundaryPort(direction, interiorNode) == [direction |-> direction, interiorNode |-> interiorNode]
Subgraph(nodes, edges, ports) == [nodes |-> nodes, edges |-> edges, boundaryPorts |-> ports]
LibraryItem(id, name, payload) == [id |-> id, name |-> name, payload |-> payload]

IdsOf(graph) == {graph.nodes[k].id : k \in DOMAIN graph.nodes}

\* payloadFromSelection: the collapse of several nodes, not applied to the graph.
PayloadFromSelection(graph, selected) ==
  LET chosen == Among(graph.nodes, {n \in Range(graph.nodes) : n.id \in selected})
      inside == {e \in graph.edges : e.source \in selected /\ e.target \in selected}
      into   == {e \in graph.edges : e.source \notin selected /\ e.target \in selected}
      outof  == {e \in graph.edges : e.source \in selected /\ e.target \notin selected}
  IN  IF Cardinality(selected) > 1
      THEN Node(0, {Subgraph(chosen, inside, {BoundaryPort("in", e.target) : e \in into}
                                             \cup {BoundaryPort("out", e.source) : e \in outof})})
      ELSE chosen[1]

\* Mutant: the interior keeps its ids.
InstantiateShared(payload, minted) == payload
\* id_map: the id a node of the subgraph gets in the copy, the next ones of the counter.
NewId(s, minted, n) ==
  IF n \in IdsOf(s) THEN minted + Cardinality({m \in IdsOf(s) : m <= n}) ELSE n
Renumbered(s, minted) ==
  Subgraph([k \in DOMAIN s.nodes |-> Node(NewId(s, minted, s.nodes[k].id), s.nodes[k].body)],
           {Edge(NewId(s, minted, e.source), NewId(s, minted, e.target)) : e \in s.edges},
           {BoundaryPort(p.direction, NewId(s, minted, p.interiorNode)) : p \in s.boundaryPorts})

\* LibraryItem::instantiate, instantiateLibraryItem: new ids for the nodes of the
\* subgraph, the subgraphs among them as they are.
Instantiate(payload, minted) ==
  Node(payload.id, {Renumbered(s, minted) : s \in payload.body})

\* The ids a copy takes, its own the last of them; a single node gets two.
Minted(payload) ==
  IF payload.body = {} THEN 2 ELSE 1 + Cardinality(UNION {IdsOf(s) : s \in payload.body})

InsertPayload(graph, payload, id) ==
  Graph(Append(graph.nodes, Node(id, payload.body)), graph.edges)

-----------------------------------------------------------------------------
(* The library: a file per item. *)

ValidId(stem) == stem \in ItemIds

SaveItem(item) ==
  [steps |-> WriteAtomically(ItemPath(item.id), ItemFile({item})), answer |-> Ok({})]

IsItemFile(path) == path[1] = "item" /\ Len(path) = 2 /\ ValidId(path[2])

\* Files that are no items are passed over.
ItemsIn(disk) ==
  UNION {disk[path].item : path \in {f \in DOMAIN disk : IsItemFile(f) /\ disk[f].whole}}

\* Sorted by name and id: an item's place is after those that come before it.
ListItems(disk) ==
  LET before(a, b) == a.name < b.name \/ (a.name = b.name /\ a.id < b.id)
      place(item) == 1 + Cardinality({other \in ItemsIn(disk) : before(other, item)})
  IN  [k \in {place(item) : item \in ItemsIn(disk)} |->
         CHOOSE item \in ItemsIn(disk) : place(item) = k]

\* Mutant: what is not there is deleted as well.
DeleteItemQuietly(disk, id) == [steps |-> <<>>, answer |-> Ok({})]
DeleteItem(disk, id) ==
  IF ItemPath(id) \in DOMAIN disk
  THEN [steps |-> <<Step("remove", ItemPath(id), Torn)>>, answer |-> Ok({})]
  ELSE [steps |-> <<>>, answer |-> LibraryError("NotFound")]
=============================================================================
