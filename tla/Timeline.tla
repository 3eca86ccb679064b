------------------------------ MODULE Timeline ------------------------------
(***************************************************************************)
(* What undo and redo promise the author: the settled documents form one   *)
(* line in the order they were made, the author stands somewhere on it and *)
(* may work on what he sees.  Settling that work forgets what was undone   *)
(* and, beyond Limit entries behind him, what is oldest; undo and redo     *)
(* move along the line.                                                    *)
(*                                                                         *)
(* Three steps are no part of the promise, but of what is kept of it when  *)
(* something comes in the middle of unfinished work, or changes the        *)
(* document on the side: each touches the entry the author stands on, or   *)
(* adds one just before it, and no other.                                  *)
(***************************************************************************)
EXTENDS Integers, Sequences

CONSTANTS Documents, Limit

VARIABLES line,     \* the settled documents, oldest first
          at,       \* where on the line the author stands
          shown,    \* the document on the screen
          working   \* whether there is unfinished work

vars == <<line, at, shown, working>>

Recent(s) == SubSeq(s, (IF Len(s) > Limit + 1 THEN Len(s) - Limit ELSE 1), Len(s))

Init == \E d \in Documents : line = <<d>> /\ at = 1 /\ shown = d /\ working = FALSE

\* Work begins or goes on: seen, not yet on the line.
Work == working' = TRUE /\ shown' \in Documents /\ UNCHANGED <<line, at>>

\* Work that changed nothing ends.
Drop == working /\ shown = line[at] /\ working' = FALSE /\ UNCHANGED <<line, at, shown>>

\* One edit, or the whole of the work in progress, becomes one entry.
Settle ==
  /\ working => shown' = shown \/ shown = line[at]
  /\ working' = FALSE
  /\ shown' \in Documents
  /\ line' = Recent(Append(SubSeq(line, 1, at), shown'))
  /\ at' = Len(line')

\* The work in progress becomes an entry, and an edit on top of it another.
SettleThenEdit ==
  /\ working /\ working' = FALSE
  /\ shown' \in Documents
  /\ line' = Recent(Append(Recent(Append(SubSeq(line, 1, at), shown)), shown'))
  /\ at' = Len(line')

Back == at > 1 /\ at' = at - 1 /\ shown' = line[at'] /\ working' = FALSE
Forth == at < Len(line) /\ at' = at + 1 /\ shown' = line[at'] /\ working' = FALSE

Undo == ~working /\ Back /\ UNCHANGED line
Redo == ~working /\ Forth /\ UNCHANGED line

Open == \E d \in Documents : line' = <<d>> /\ at' = 1 /\ shown' = d /\ working' = FALSE

\* Undo or redo in the middle of work: it takes the place of the entry it began from.
Overwrite == working /\ (Back \/ Forth) /\ line' = [line EXCEPT ![at] = shown]

\* An edit in the middle of work: what is there is an entry, before the one it
\* began from; the work goes on from the edit.
SlipIn ==
  /\ working /\ working' = TRUE
  /\ shown' \in Documents
  /\ line' = Recent(Append(Append(SubSeq(line, 1, at - 1), shown), line[at]))
  /\ at' = Len(line')

\* The document changes outside any work.
Rewrite ==
  /\ ~working /\ working' = FALSE
  /\ shown' \in Documents
  /\ line' = [line EXCEPT ![at] = shown']
  /\ UNCHANGED at

Promised == Work \/ Drop \/ Settle \/ SettleThenEdit \/ Undo \/ Redo \/ Open
Next == Promised \/ Overwrite \/ SlipIn \/ Rewrite

Spec == Init /\ [][Next]_vars
Strict == Init /\ [][Promised]_vars
=============================================================================
