------------------------------ MODULE UserFiles -------------------------------
(***************************************************************************)
(* The library panel (LibraryPanel.tsx) and the file commands of the       *)
(* session (projectActions.ts) over what UserStore keeps on the disk.      *)
(* Each waits for its command, but the panel's listings, which do not make *)
(* it busy; the main thread runs one command at a time, a step on the disk *)
(* at a time.  A step may fail, a directory or a file may not be read, the *)
(* process may end between two steps, others may remove a project's file.  *)
(***************************************************************************)
EXTENDS UserStore

CONSTANTS Graphs,     \* made in the first session: [graph, minted], minted its counter then
          OtherFiles, \* the library's directory at first: items, and files that are none
          Foreign,    \* project files of other versions of the application
          MaxPosts,   \* bound: commands asked for
          MaxMishaps, \* bound: failures, ends of the process, removed files
          MaxIds      \* bound: node ids minted in a session

\* The wires and ports of a subgraph are of its nodes.
WholeSubgraph(s) ==
  /\ IdsOf(s) \subseteq Nat /\ IsFiniteSet(IdsOf(s))
  /\ \A e \in s.edges : {e.source, e.target} \subseteq IdsOf(s)
  /\ \A p \in s.boundaryPorts : p.interiorNode \in IdsOf(s)
WholePayload(node) == IsFiniteSet(node.body) /\ \A s \in node.body : WholeSubgraph(s)
WholeGraph(g) ==
  /\ g.nodes \in Seq(Range(g.nodes))
  /\ \A n \in Range(g.nodes) : n.id \in Nat /\ WholePayload(n)

\* The ids of a graph's nodes and of those of their subgraphs.
AllIds(g) == IdsOf(g) \cup UNION {UNION {IdsOf(s) : s \in g.nodes[k].body} : k \in DOMAIN g.nodes}

ItemContent(file) ==
  file = Torn \/ \E item \in file.item : file = ItemFile({item}) /\ WholePayload(item.payload)
ProjectContent(file) ==
  \/ file = Torn
  \/ file = ProjectFile(file.version, file.project) /\ \A g \in file.project : WholeGraph(g)

ASSUME FilesAssumption ==
  /\ \A f \in DOMAIN OtherFiles : f[1] = "item" /\ ItemContent(OtherFiles[f])
  /\ \A f \in DOMAIN OtherFiles : IsItemFile(f) /\ OtherFiles[f].whole =>
       \E item \in OtherFiles[f].item : f = ItemPath(item.id) /\ OtherFiles[f] = ItemFile({item})
  /\ \A f \in DOMAIN Foreign : f[1] = "project" /\ ProjectContent(Foreign[f])
  /\ \A made \in Graphs : /\ WholeGraph(made.graph) /\ made.minted \in Nat
                          /\ \A id \in AllIds(made.graph) : id <= made.minted

VARIABLES
  disk,
  running,  \* {} or {the command the main thread runs: [caller, steps, answer]}
  calls,    \* per caller, the command under way for it: [name, arg]
  items,    \* the panel's list
  error,    \* the panel's message: "none", or "failed", the one text of every failure
  graph,    \* the open graph
  minted,   \* the counter of nextId, node ids only
  kept,     \* history: per project, what a load may find after a save
  turn,     \* history: per project, when the list of recent ones was last written on its account
  loaded,   \* history: a project has been loaded in this session
  posts, mishaps  \* counters of the bounds

web == <<items, error, graph, minted>>
history == <<kept, turn, loaded>>
vars == <<disk, running, calls, web, history, posts, mishaps>>

\* The panel while it is busy (a save or a deletion and the listing after it), its
\* other listings (of the mount and of the button), and the session.
Callers == {"panel", "refresh", "session"}
Call(name, arg) == [name |-> name, arg |-> arg]
NoCall == Call("none", {})
EmptyGraph == Graph(<<>>, {})
Mounted == [c \in Callers |-> IF c = "refresh" THEN Call("list_library_node", {}) ELSE NoCall]

Init ==
  /\ disk = [f \in DOMAIN OtherFiles \cup DOMAIN Foreign |->
              IF f \in DOMAIN Foreign THEN Foreign[f] ELSE OtherFiles[f]]
  /\ running = {}
  /\ calls = Mounted
  /\ items = <<>> /\ error = "none"
  /\ \E made \in Graphs : graph = made.graph /\ minted = made.minted
  /\ kept = [p \in ProjectPaths |-> {}]
  /\ turn = [p \in ProjectPaths |-> 0]
  /\ loaded = FALSE
  /\ posts = 0 /\ mishaps = 0

Post(caller, name, arg) ==
  /\ calls[caller] = NoCall
  /\ posts < MaxPosts
  /\ posts' = posts + 1
  /\ calls' = [calls EXCEPT ![caller] = Call(name, {arg})]

Mishap == mishaps < MaxMishaps /\ mishaps' = mishaps + 1

-----------------------------------------------------------------------------
(* The panel. *)

\* onSave
SaveSelection(selected) ==
  /\ LET free == {id \in ItemIds : \A f \in DOMAIN disk : f[1] = "item" => f[2] # id}
     IN  /\ free # {}
         /\ Post("panel", "save_library_node",
                 LibraryItem(CHOOSE id \in free : TRUE, Cardinality(selected), PayloadFromSelection(graph, selected)))
  /\ error' = "none"
  /\ UNCHANGED <<disk, running, items, graph, minted, history, mishaps>>

\* onDelete, of an item the panel shows.
Delete(item) ==
  /\ Post("panel", "delete_library_node", item)
  /\ error' = "none"
  /\ UNCHANGED <<disk, running, items, graph, minted, history, mishaps>>

\* The Refresh button, not while the panel is busy; one such listing at a time (bound).
Refresh ==
  /\ calls.panel = NoCall
  /\ Post("refresh", "list_library_node", "all")
  /\ error' = "none"
  /\ UNCHANGED <<disk, running, items, graph, minted, history, mishaps>>

\* onInsert: no command, the panel has the item; not while it is busy.
Insert(item) ==
  /\ calls.panel = NoCall
  /\ minted + Minted(item.payload) <= MaxIds
  /\ minted' = minted + Minted(item.payload)
  /\ graph' = InsertPayload(graph, Instantiate(item.payload, minted), minted')
  /\ UNCHANGED <<disk, running, calls, items, error, history, posts, mishaps>>

\* refresh: what a listing answers.
Listed(caller, answer) ==
  /\ calls' = [calls EXCEPT ![caller] = NoCall]
  /\ IF answer.kind = "Ok" THEN items' = (CHOOSE list \in answer.value : TRUE) /\ UNCHANGED error
                           ELSE error' = "failed" /\ UNCHANGED items

\* onSave, onDelete: after one that went well the list is fetched again.
Changed(answer) ==
  /\ error' = IF answer.kind = "Ok" THEN "none" ELSE "failed"
  /\ calls' = [calls EXCEPT !.panel =
       IF answer.kind = "Ok" THEN Call("list_library_node", {}) ELSE NoCall]
  /\ UNCHANGED items

PanelAnswered(caller, answer) ==
  /\ IF calls[caller].name = "list_library_node" THEN Listed(caller, answer) ELSE Changed(answer)
  /\ UNCHANGED <<graph, minted, history>>

-----------------------------------------------------------------------------
(* The session. *)

SaveProject(path) ==
  /\ Post("session", "save_project", [path |-> path, graph |-> graph])
  /\ kept' = [kept EXCEPT ![path] = IF @ = {} THEN {} ELSE @ \cup {graph}]
  /\ UNCHANGED <<disk, running, web, turn, loaded, mishaps>>

OpenProject(path) ==
  /\ Post("session", "load_project", [path |-> path, graph |-> EmptyGraph])
  /\ UNCHANGED <<disk, running, web, history, mishaps>>

OpenRecentMenu ==
  /\ Post("session", "load_recents", [path |-> "", graph |-> EmptyGraph])
  /\ UNCHANGED <<disk, running, web, history, mishaps>>

\* A project that was saved or loaded is made the latest of the recent ones,
\* whatever becomes of that.
SessionAnswered(call, answer) ==
  /\ UNCHANGED <<items, error, minted, turn>>
  /\ \E arg \in call.arg :
       CASE call.name \in {"save_project", "load_project"} /\ answer.kind = "Ok" ->
              /\ calls' = [calls EXCEPT !.session = Call("push_recent", {arg})]
              /\ graph' = IF call.name = "load_project" THEN CHOOSE g \in answer.value : TRUE ELSE graph
              /\ kept' = IF call.name = "save_project" THEN [kept EXCEPT ![arg.path] = {arg.graph}] ELSE kept
              /\ loaded' = (loaded \/ call.name = "load_project")
         [] OTHER -> calls' = [calls EXCEPT !.session = NoCall] /\ UNCHANGED <<graph, kept, loaded>>

-----------------------------------------------------------------------------
(* The main thread. *)

\* The steps of a command and its answer if they all succeed.
Plan(call) ==
  IF call.name = "list_library_node" THEN [steps |-> <<>>, answer |-> Ok({ListItems(disk)})]
  ELSE LET arg == CHOOSE a \in call.arg : TRUE
       IN  CASE call.name = "save_library_node"   -> SaveItem(arg)
             [] call.name = "delete_library_node" -> DeleteItem(disk, arg.id)
             [] call.name = "save_project" -> [steps |-> SaveToFile(arg.path, arg.graph), answer |-> Ok({})]
             [] call.name = "load_project" -> [steps |-> <<>>, answer |-> LoadFromFile(disk, arg.path)]
             [] call.name = "push_recent"  -> PushRecent(disk, arg.path)
             [] call.name = "load_recents" -> LoadRecents(disk)

Begin(caller) ==
  /\ running = {} /\ calls[caller].name # "none"
  /\ \E plan \in {Plan(calls[caller])} :
       running' = {[caller |-> caller, steps |-> plan.steps, answer |-> plan.answer]}
  /\ UNCHANGED <<disk, calls, web, history, posts, mishaps>>

Perform(command) ==
  /\ command.steps # <<>>
  /\ disk' = Performed(disk, Head(command.steps))
  /\ running' = {[command EXCEPT !.steps = Tail(@)]}
  /\ turn' = IF Head(command.steps).op = "write" /\ calls[command.caller].name = "push_recent"
             THEN [p \in ProjectPaths |-> IF \E arg \in calls[command.caller].arg : arg.path = p
                                         THEN 1 + Max(Range(turn)) ELSE turn[p]]
             ELSE turn
  /\ UNCHANGED <<calls, web, kept, loaded, posts, mishaps>>

\* A command fails at a step, a listing at the directory or an entry of it, a load at
\* the file; load_recents does not mind.
Fail(command) ==
  /\ command.steps # <<>> \/ calls[command.caller].name \in {"list_library_node", "load_project"}
  /\ Mishap
  /\ running' = {[caller |-> command.caller, steps |-> <<>>,
                  answer |-> IF calls[command.caller].name = "load_recents" THEN command.answer
                             ELSE LibraryError("Io")]}
  /\ UNCHANGED <<disk, calls, web, history, posts>>

Answer(command) ==
  /\ command.steps = <<>>
  /\ running' = {}
  /\ IF command.caller = "session" THEN SessionAnswered(calls.session, command.answer)
                                   ELSE PanelAnswered(command.caller, command.answer)
  /\ UNCHANGED <<disk, posts, mishaps>>

-----------------------------------------------------------------------------

\* The process ends and is started again: an empty document, ids from the first.
Relaunch ==
  /\ Mishap
  /\ running' = {}
  /\ calls' = Mounted
  /\ items' = <<>> /\ error' = "none"
  /\ graph' = EmptyGraph /\ minted' = 0 /\ loaded' = FALSE
  /\ UNCHANGED <<disk, kept, turn, posts>>

RemoveProject(path) ==
  /\ running = {} /\ Project(path) \in DOMAIN disk /\ Mishap
  /\ disk' = Restrict(disk, DOMAIN disk \ {Project(path)})
  /\ kept' = [kept EXCEPT ![path] = {}]
  /\ UNCHANGED <<running, calls, web, turn, loaded, posts>>

Next ==
  \/ \E selected \in (SUBSET IdsOf(graph)) \ {{}} : SaveSelection(selected)
  \/ \E item \in ToSet(items) : Delete(item) \/ Insert(item)
  \/ \E path \in ProjectPaths : SaveProject(path) \/ OpenProject(path) \/ RemoveProject(path)
  \/ Refresh \/ OpenRecentMenu
  \/ \E caller \in Callers : Begin(caller)
  \/ \E command \in running : Perform(command) \/ Fail(command) \/ Answer(command)
  \/ Relaunch

Spec == Init /\ [][Next]_vars

-----------------------------------------------------------------------------

(* The library behaves like a shelf: whatever fails, ends or lies around   *)
(* beside the items, a save or a deletion is done once or not at all, no   *)
(* other item moves, and its answer tells the panel whether it was done; a *)
(* listing moves nothing, though one that fails shows the same message.    *)
Request ==
  IF calls.panel.name \in {"save_library_node", "delete_library_node"}
  THEN [op |-> IF calls.panel.name = "save_library_node" THEN "save" ELSE "delete",
        item |-> CHOOSE a \in calls.panel.arg : TRUE]
  ELSE [op |-> IF calls.panel.name = "list_library_node" THEN "look" ELSE "none", item |-> {}]

OnShelf == [id \in {item.id : item \in ItemsIn(disk)} |->
              CHOOSE item \in ItemsIn(disk) : item.id = id]

\* The panel's save or deletion has run and succeeded.
Done == /\ Request.op \in {"save", "delete"}
        /\ \E r \in running : r.caller = "panel" /\ r.steps = <<>> /\ r.answer.kind = "Ok"

Library == INSTANCE Shelf WITH
  Items <- {}, shelf <- OnShelf, request <- Request, done <- Done, error <- error

LibraryImplementsShelf == Library!Spec

(* A project that has been saved loads: the file is one of the whole       *)
(* documents written to it, the last one acknowledged or one on its way    *)
(* since, whatever became of the writing (lib.rs: "a half-written          *)
(* destination must never be observable").                                 *)
SavedProjectsLoad ==
  \A path \in ProjectPaths : kept[path] # {} =>
    \E project \in kept[path] : LoadFromFile(disk, path) = Ok({project})

(* The list of recent projects holds each once, no more than its limit,    *)
(* and the later ones first.                                               *)
RecentsAreInOrder ==
  running = {} =>
    LET list == ReadRecentsRaw(disk)
    IN  /\ Len(list) <= MAX_RECENTS
        /\ \A i, j \in DOMAIN list : i < j => turn[list[i]] > turn[list[j]]

(* Projects and the list of recent ones survive what happens to their files. *)
SessionFilesHold == SavedProjectsLoad /\ RecentsAreInOrder

(* In a document made in this session, a copy of an item is wired as the   *)
(* item is, inside and to its ports, and neither the copy's node nor one   *)
(* of its subgraph has the id of another of them, of a node of the         *)
(* document or of one of a node's subgraph: instantiate.ts renames the     *)
(* nodes of the item's subgraph, the store the node that stands for it.    *)
WiredAlike(s, t) ==
  /\ DOMAIN s.nodes = DOMAIN t.nodes
  /\ \E f \in {[id \in IdsOf(s) |-> t.nodes[CHOOSE k \in DOMAIN s.nodes : s.nodes[k].id = id].id]} :
       /\ \A a, b \in IdsOf(s) : f[a] = f[b] => a = b
       /\ t.edges = {Edge(f[e.source], f[e.target]) : e \in s.edges}
       /\ t.boundaryPorts = {BoundaryPort(p.direction, f[p.interiorNode]) : p \in s.boundaryPorts}

IsNewCopy(item, old, new) ==
  \E copy \in {Last(new.nodes)} :
    /\ \A s \in item.payload.body : \E t \in copy.body : WiredAlike(s, t)
    /\ AllIds(Graph(<<copy>>, {})) \cap AllIds(old) = {}
    /\ \A t \in copy.body : copy.id \notin IdsOf(t)

CopiesAreNew ==
  [][\A item \in ToSet(items) : Insert(item) /\ ~loaded => IsNewCopy(item, graph, graph')]_vars

\* The same for a level more: no node at any of these levels has the id of one in the
\* document ("so two inserts of the same item never clash", instantiate.ts:4).
DeepIds(g) == AllIds(g) \cup UNION {UNION {AllIds(s) : s \in g.nodes[k].body} : k \in DOMAIN g.nodes}
EveryLevelOfACopyIsNew ==
  [][\A item \in ToSet(items) : Insert(item) /\ ~loaded =>
       DeepIds(Graph(<<Last(graph'.nodes)>>, {})) \cap DeepIds(graph) = {}]_vars

\* CopiesAreNew in every document, loaded ones included (ids.ts).
EveryCopyIsNew ==
  [][\A item \in ToSet(items) : Insert(item) => IsNewCopy(item, graph, graph')]_vars
=============================================================================
