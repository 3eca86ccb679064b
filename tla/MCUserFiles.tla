---------------------------- MODULE MCUserFiles -----------------------------
(***************************************************************************)
(* Instance of UserFiles: a wire between two nodes, a subgraph node with a *)
(* subgraph node in it; a directory with an item, a file that does not     *)
(* parse under an item's name and one under another name; a newer project  *)
(* file.                                                                   *)
(***************************************************************************)
EXTENDS UserFiles

Wire == Graph(<<Node(1, {}), Node(2, {})>>, {Edge(1, 2)})
Nested ==
  LET inner == Subgraph(<<Node(3, {})>>, {}, {BoundaryPort("in", 3)})
      outer == Subgraph(<<Node(1, {}), Node(2, {inner})>>, {Edge(1, 2)}, {BoundaryPort("in", 1)})
  IN  Graph(<<Node(4, {outer})>>, {})

MCGraphs == {[graph |-> Wire, minted |-> 2], [graph |-> Nested, minted |-> 4]}
MCOtherFiles ==
  (ItemPath(3) :> Torn)
  @@ (ItemPath(4) :> ItemFile({LibraryItem(4, 1, Node(1, {}))}))
  @@ (ItemPath(9) :> ItemFile({LibraryItem(9, 1, Node(1, {}))}))
  @@ (Temporary(ItemPath(1)) :> ItemFile({LibraryItem(1, 1, Node(1, {}))}))
MCForeign ==
  (Project("new") :> ProjectFile({2}, {}))
  @@ (Project("old") :> ProjectFile({0}, {}))
  @@ (Project("none") :> ProjectFile({}, {}))
=============================================================================
