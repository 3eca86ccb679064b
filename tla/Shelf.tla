-------------------------------- MODULE Shelf ---------------------------------
(***************************************************************************)
(* What the library promises the panel: items on a shelf, saved and        *)
(* deleted one at a time.  A request takes effect once or not at all, its  *)
(* reply tells the panel which, and nothing else moves an item: no         *)
(* listing, not one that fails, and not the end of the process.            *)
(***************************************************************************)
EXTENDS Functions

CONSTANT Items   \* records with an id

VARIABLES shelf,    \* id -> item
          request,  \* the panel's: [op, item], op "none" when it asks for nothing
          done,     \* it has taken effect
          error     \* what the panel shows, "none" if all is well

vars == <<shelf, request, done, error>>

Waiting == request.op \in {"save", "delete"}

Init == request.op = "none" /\ ~done /\ error = "none"

Ask == /\ request.op = "none" /\ request'.op \in {"save", "delete"}
       /\ error' = "none" /\ ~done'
       /\ UNCHANGED shelf

Save == /\ request.op = "save" /\ ~done
        /\ shelf' = [id \in DOMAIN shelf \cup {request.item.id} |->
                       IF id = request.item.id THEN request.item ELSE shelf[id]]
        /\ done'
        /\ UNCHANGED <<request, error>>

Delete == /\ request.op = "delete" /\ ~done
          /\ request.item.id \in DOMAIN shelf
          /\ shelf' = Restrict(shelf, DOMAIN shelf \ {request.item.id})
          /\ done'
          /\ UNCHANGED <<request, error>>

\* What was done is confirmed, and the panel looks at the shelf.
Confirm == /\ Waiting /\ done
           /\ request'.op = "look" /\ ~done' /\ error' = "none"
           /\ UNCHANGED shelf

\* What was not done is refused.
Refuse == /\ Waiting /\ ~done
          /\ request'.op = "none" /\ ~done' /\ error' = "failed"
          /\ UNCHANGED shelf

\* The panel has looked, or failed to.
Seen == /\ request.op = "look" /\ request'.op = "none"
        /\ error' \in {error, "failed"}
        /\ UNCHANGED <<shelf, done>>

\* It looks again, which clears its message; not between a request and its reply.
Look == request.op = "none" /\ error' = "none" /\ UNCHANGED <<shelf, request, done>>

\* That fails, whatever has been asked for by then.
Tell == error' = "failed" /\ UNCHANGED <<shelf, request, done>>

\* The panel starts over, with or without what it had asked for.
Restart == request'.op = "none" /\ ~done' /\ error' = "none" /\ UNCHANGED shelf

Next == Ask \/ Save \/ Delete \/ Confirm \/ Refuse \/ Seen \/ Look \/ Tell \/ Restart

Spec == Init /\ [][Next]_vars
=============================================================================
