-------------------------- MODULE DocumentHistory ---------------------------
(***************************************************************************)
(* The undo history of the document store (documentStore.ts) with the      *)
(* three editors that write live: the canvas drag, the node inspector      *)
(* (useNodeDataEditor.ts) and the whole-pass code editor                   *)
(* (WholePassEditor.tsx).  A document is reduced to its parts and their    *)
(* values: `layout` is what the canvas moves or takes away, `text` what a  *)
(* field edits.                                                            *)
(***************************************************************************)
EXTENDS Integers, Sequences, SequencesExt

CONSTANTS
  Values,          \* the values a part of the document takes
  HISTORY_LIMIT    \* the cap of the undo stack (200 in the code)

ASSUME LimitAssumption == HISTORY_LIMIT \in Nat \ {0}

Documents == [layout : Values, text : Values]
Null == [none |-> TRUE]

VARIABLES
  doc,              \* project and activePassId, as a snapshot holds them
  past, future,     \* the undo and the redo stack
  pendingBaseline,  \* the snapshot taken when an interaction began, or Null
  dirty,
  gesture,          \* the editor with an interaction open, or "none"
  file,             \* the document as last saved or loaded
  aside             \* for the properties: the canvas moved outside any interaction,
                    \* or a save came in the middle of one

stacks == <<past, future>>
historyVars == <<doc, past, future, pendingBaseline, dirty, gesture, file, aside>>

-----------------------------------------------------------------------------
(* The store. *)

HistoryInit ==
  /\ doc \in Documents
  /\ past = <<>> /\ future = <<>>
  /\ pendingBaseline = Null
  /\ dirty = FALSE
  /\ gesture = "none"
  /\ file = doc
  /\ aside = FALSE

\* Two mutants of pushPast: no cap; the cap takes the newest entries.
PushPastUncapped(stack, before) == Append(stack, before)
PushPastKeepsOldest(stack, before) ==
  LET grown == Append(stack, before)
  IN  IF Len(grown) > HISTORY_LIMIT THEN SubSeq(grown, 1, HISTORY_LIMIT) ELSE grown

\* pushPast: append, dropping the oldest entries over the limit.
PushPast(stack, before) ==
  LET grown == Append(stack, before)
      over == Len(grown) - HISTORY_LIMIT
  IN  IF over > 0 THEN SubSeq(grown, over + 1, Len(grown)) ELSE grown

\* mutateGraph, addPass, setFeedbackPass, ...: one undoable edit.
Mutate(next) ==
  /\ doc' = next
  /\ past' = PushPast(past, doc)
  /\ future' = <<>>
  /\ dirty' = TRUE

\* Mutant of commit: the baseline is kept when nothing changed.
CommitKeepsBaseline ==
  IF pendingBaseline = doc
  THEN UNCHANGED <<pendingBaseline, past, future, dirty>>
  ELSE /\ pendingBaseline' = Null
       /\ past' = PushPast(past, pendingBaseline) /\ future' = <<>> /\ dirty' = TRUE

\* commit: one entry for the whole interaction, none if it changed nothing.
Commit ==
  /\ pendingBaseline' = Null
  /\ IF pendingBaseline = Null \/ pendingBaseline = doc
     THEN UNCHANGED <<past, future, dirty>>
     ELSE /\ past' = PushPast(past, pendingBaseline)
          /\ future' = <<>>
          /\ dirty' = TRUE

\* beginInteraction: only the first of an interaction takes the baseline.
BeginInteraction ==
  pendingBaseline' = IF pendingBaseline = Null THEN doc ELSE pendingBaseline

-----------------------------------------------------------------------------
(* The author, the canvas and late answers.  The keys of undo and redo are *)
(* ignored in a field, and a field that is left flushes its interaction.   *)
(* Nothing keeps keys from acting while the mouse drags.                   *)

OutsideFields == gesture \in {"none", "drag"}

\* A discrete edit of any part: addNode, removeSelection, paste, addPass, or an
\* item of the library that arrives while the author is doing something else.
Edit ==
  /\ \E next \in Documents : Mutate(next)
  /\ UNCHANGED <<pendingBaseline, gesture, file, aside>>

\* onNodeDragStart
DragStart ==
  /\ gesture = "none"
  /\ gesture' = "drag"
  /\ BeginInteraction
  /\ UNCHANGED <<doc, stacks, dirty, file, aside>>

\* applyNodeChanges: what React Flow reports, under a drag or not (its arrow
\* keys announce nothing); no history, no dirty mark.
ApplyNodeChanges ==
  /\ \E v \in Values : doc' = [doc EXCEPT !.layout = v]
  /\ aside' = (aside \/ (pendingBaseline = Null /\ doc' # doc))
  /\ UNCHANGED <<stacks, pendingBaseline, dirty, gesture, file>>

\* onNodeDragStop
DragStop ==
  /\ gesture = "drag"
  /\ gesture' = "none"
  /\ Commit
  /\ UNCHANGED <<doc, file, aside>>

\* live of the inspector (patchNodeData) and onChange of the code editor.
Type(field) ==
  /\ gesture \in {"none", field}
  /\ gesture' = field
  /\ IF gesture = field THEN UNCHANGED pendingBaseline ELSE BeginInteraction
  /\ \E v \in Values : doc' = [doc EXCEPT !.text = v]
  /\ dirty' = TRUE
  /\ UNCHANGED <<stacks, file, aside>>

\* closeInteraction of the inspector (debounce, blur or unmount), and onBlur
\* of the code editor.
CloseField ==
  /\ gesture \in {"inspector", "code"}
  /\ gesture' = "none"
  /\ Commit
  /\ UNCHANGED <<doc, file, aside>>

\* commit of the inspector: the open edit is settled, then this one applied
\* (updateNodeData leaves the history alone when nothing changes).
InspectorCommit ==
  /\ gesture = "inspector"
  /\ gesture' = "none"
  /\ pendingBaseline' = Null
  /\ \E v \in Values :
       LET next == [doc EXCEPT !.text = v]
           changed == pendingBaseline # Null /\ pendingBaseline # doc
           settled == IF changed THEN PushPast(past, pendingBaseline) ELSE past
       IN  /\ doc' = next
           /\ past' = IF next = doc THEN settled ELSE PushPast(settled, doc)
           /\ future' = IF changed \/ next # doc THEN <<>> ELSE future
           /\ dirty' = (dirty \/ changed \/ next # doc)
  /\ UNCHANGED <<file, aside>>

Undo ==
  /\ OutsideFields
  /\ past # <<>>
  /\ doc' = Last(past)
  /\ past' = Front(past)
  /\ future' = Append(future, doc)
  /\ pendingBaseline' = Null
  /\ dirty' = TRUE
  /\ UNCHANGED <<gesture, file, aside>>

Redo ==
  /\ OutsideFields
  /\ future # <<>>
  /\ doc' = Last(future)
  /\ past' = Append(past, doc)
  /\ future' = Front(future)
  /\ pendingBaseline' = Null
  /\ dirty' = TRUE
  /\ UNCHANGED <<gesture, file, aside>>

\* A save that nothing interrupts (Session.tla has the one that is).  The keys
\* of the file menu act wherever the focus is.
MarkSaved ==
  /\ file' = doc
  /\ dirty' = FALSE
  /\ aside' = (pendingBaseline \notin {Null, doc})
  /\ UNCHANGED <<doc, stacks, pendingBaseline, gesture>>

\* loadProject and reset: the editors of the old document are unmounted; a
\* drag ends when the button is released.
LoadProject ==
  /\ \E d \in Documents : doc' = d /\ file' = d
  /\ past' = <<>> /\ future' = <<>>
  /\ pendingBaseline' = Null
  /\ dirty' = FALSE
  /\ gesture' = IF gesture = "drag" THEN "drag" ELSE "none"
  /\ aside' = FALSE

HistoryNext ==
  \/ Edit \/ Undo \/ Redo \/ MarkSaved \/ LoadProject
  \/ DragStart \/ ApplyNodeChanges \/ DragStop
  \/ Type("inspector") \/ Type("code") \/ CloseField \/ InspectorCommit

HistorySpec == HistoryInit /\ [][HistoryNext]_historyVars

-----------------------------------------------------------------------------
(* Properties. *)

\* The store's fields have their types; an entry is always a whole document.
TypeOK ==
  /\ doc \in Documents /\ file \in Documents
  /\ past \in Seq(Documents) /\ future \in Seq(Documents)
  /\ pendingBaseline \in Documents \cup {Null}
  /\ dirty \in BOOLEAN /\ aside \in BOOLEAN
  /\ gesture \in {"none", "drag", "inspector", "code"}

\* redo appends to the undo stack without the cap pushPast applies
\* (documentStore.ts:1399): the two stacks TOGETHER never exceed the limit,
\* so undoing everything at the limit and redoing it loses no entry.
StacksShareTheLimit == Len(past) + Len(future) <= HISTORY_LIMIT

\* The baseline is never left behind for a later interaction, which would undo
\* two at once, and never taken away under a field, whose next commit would then
\* record nothing.
BaselineBelongsToAGesture ==
  /\ pendingBaseline # Null => gesture # "none"
  /\ gesture \in {"inspector", "code"} => pendingBaseline # Null

\* The same of the drag.  It does not hold: undo and redo under a drag take its
\* baseline (documentStore.ts:1349), and where it ends is in no entry.
DragsAreRecorded == gesture = "drag" => pendingBaseline # Null

\* The unsaved mark: without it what was typed is what the file has, and so is
\* where the nodes are, but for a drag that began on the saved document and for
\* what happened aside.
CleanIsAsSaved ==
  ~dirty => /\ doc.text = file.text
            /\ doc # file => aside \/ pendingBaseline = file

\* The same without exception: the mark says whether the document is the file's.
\* It does not hold: React Flow moves nodes by arrow key without telling anyone.
CleanIsTheFile == ~dirty /\ gesture # "drag" => doc = file

\* What is edited is recorded for undo and marked for saving.
EditsAreAccountedFor == TypeOK /\ BaselineBelongsToAGesture /\ CleanIsAsSaved

\* The history is a timeline, whatever key or answer comes in the middle of an
\* interaction: a drag or a typing burst counts as one entry, undo and redo step
\* along the entries, and none but the one the author stands on is ever altered.
present == IF pendingBaseline = Null THEN doc ELSE pendingBaseline
Line == INSTANCE Timeline WITH
  Documents <- Documents, Limit <- HISTORY_LIMIT,
  line <- past \o <<present>> \o Reverse(future), at <- Len(past) + 1, shown <- doc,
  working <- pendingBaseline # Null
ImplementsTimeline == Line!Spec

\* The timeline of an author who finishes one thing before the next.  It does not
\* hold: see Overwrite, SlipIn and Rewrite of Timeline.
EntriesAreKept == Line!Strict
=============================================================================
