-------------------------------- MODULE Loops --------------------------------
(* A loop over a sequence, as the passes of the source are written: the state  *)
(* of the loop goes from one element to the next.  Both operators go through a *)
(* singleton so that the model checker computes the state once per element,    *)
(* where a fold of the community modules would compute it at each use.         *)
EXTENDS Integers, Sequences

\* step of the value v.
Through(v, step(_)) == CHOOSE r \in {step(x) : x \in {v}} : TRUE

\* for x in seq { state = step(state, x) }
Loop(step(_, _), state, seq) ==
    LET after[k \in 0..Len(seq)] ==
          IF k = 0 THEN state ELSE Through(after[k - 1], LAMBDA s : step(s, seq[k]))
    IN  after[Len(seq)]
=============================================================================
