--------------------------- MODULE MCGraphEditing ----------------------------
(***************************************************************************)
(* Instance of GraphEditing: three documents to start from, with three     *)
(* passes and a sampler, with a subgraph node, with one inside another.    *)
(***************************************************************************)
EXTENDS GraphEditing

CONSTANTS p1, p2, p3

Node(kind, home, index) == [kind |-> kind, home |-> home, index |-> index]
Edge(s, sp, t, tp) == [src |-> s, sp |-> sp, dst |-> t, dp |-> tp]
Bound(sub, name, dir, node) == [sub |-> sub, name |-> name, dir |-> dir, node |-> node, port |-> 0]

Pipeline ==
  [passes |-> <<p1, p2, p3>>, code |-> {}, feedbackPass |-> 0,
   nodes |-> (1 :> Node("sampler", p3, 0)) @@ (2 :> Node("op", p3, 0)),
   edges |-> {Edge(1, 0, 2, 0)}, ports |-> {}]

\* p1: 1 -> [2 -> 3] -> 4, the middle collapsed into 5.
Nested ==
  [passes |-> <<p1>>, code |-> {}, feedbackPass |-> None,
   nodes |-> (1 :> Node("sampler", p1, 0)) @@ (2 :> Node("op", 5, 0)) @@ (3 :> Node("op", 5, 0))
             @@ (4 :> Node("op", p1, 0)) @@ (5 :> Node("sub", p1, 0)),
   edges |-> {Edge(1, 0, 5, 1), Edge(2, 0, 3, 0), Edge(5, 2, 4, 0)},
   ports |-> {Bound(5, 1, "in", 2), Bound(5, 2, "out", 3)}]

\* p1: 1 -> [ [2] ] -> 3, node 2 two subgraph nodes deep.
Deep ==
  [passes |-> <<p1>>, code |-> {}, feedbackPass |-> None,
   nodes |-> (1 :> Node("op", p1, 0)) @@ (2 :> Node("op", 5, 0)) @@ (3 :> Node("op", p1, 0))
             @@ (4 :> Node("sub", p1, 0)) @@ (5 :> Node("sub", 4, 0)),
   edges |-> {Edge(1, 0, 4, 1), Edge(4, 2, 3, 0)},
   ports |-> {[Bound(4, 1, "in", 5) EXCEPT !.port = 3], [Bound(4, 2, "out", 5) EXCEPT !.port = 4],
              Bound(5, 3, "in", 2), Bound(5, 4, "out", 2)}]

MCProjects == {Pipeline, Nested, Deep}
=============================================================================
