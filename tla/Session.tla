------------------------------ MODULE Session ------------------------------
(***************************************************************************)
(* A document's life across edits, saves, autosaves, closes and crashes:   *)
(* the File-menu flows (web/src/session/projectActions.ts), the prompt     *)
(* (confirmStore.ts), the session hook (useSession.ts), and the backend    *)
(* with its files (app/src/session.rs, core-model/src/session.rs).         *)
(* Documents are version numbers, 0 the fresh untitled one.  A flow is an  *)
(* async function of the webview between two awaits; a backend call is     *)
(* executed, in the order of the calls, at some later step, and its reply  *)
(* resumes the flow in that step.                                          *)
(***************************************************************************)
EXTENDS Integers, Sequences, FiniteSets, TLC

CONSTANTS Paths, NoPath,   \* project files; the path of an untitled document
          Slots, NoSlot,   \* bound: the flows under way at a time
          MaxVersions,     \* bound: versions ever made
          MaxWrites,       \* bound: files ever written, the clock of their times
          MaxCalls         \* bound: calls under way when the user acts again

ASSUME PathsAssumption == NoPath \notin Paths /\ NoSlot \notin Slots
ASSUME BoundsAssumption == {MaxVersions, MaxWrites, MaxCalls} \subseteq Nat

VARIABLES
  doc, dirty, path,       \* documentStore: project, dirty, currentProjectPath
  dragging,               \* a drag moved nodes and is not committed
  origin,                 \* how the document last changed
  owed,                   \* edits the user neither saved nor agreed to lose
  timer,                  \* the autosave timer is armed
  flows, prompt,          \* the async flows; the one whose question is open
  ipc,                    \* backend calls not yet executed
  backendDirty,           \* DirtyState
  disk, mtime,            \* the project files and when they were written
  working, meta,          \* recovery/working.json and recovery/meta.json
  workingPath,            \* the path of the document in working.json
  botched,                \* the recovery's files are as a failed or cut off step left them
  made, clock

store == <<doc, dirty, path, dragging, origin, owed>>
files == <<disk, mtime, working, meta, workingPath, botched, clock>>
web   == <<timer, flows, prompt>>
vars  == <<store, web, ipc, backendDirty, files, made>>

Absent == -1
\* An async flow: where it stands, what it is for, the file it opens, and the
\* document an offer would restore.
Flow(pc, kind, p, v) == [pc |-> pc, kind |-> kind, path |-> p, doc |-> v]
Idle   == Flow("idle", "none", NoPath, Absent)
NoMeta == [path |-> NoPath, time |-> Absent]

Call(cmd, slot, p, v) == [cmd |-> cmd, slot |-> slot, path |-> p, doc |-> v]
Clear(slot)   == Call("clear_recovery", slot, NoPath, Absent)
\* MUTANT: only becoming dirty is mirrored.
Mirror_OnlySets(flag) == IF flag = dirty \/ ~flag THEN << >>
                         ELSE <<Call("set_dirty", NoSlot, NoPath, 1)>>

\* The dirty mirror: a call per transition, none otherwise.
Mirror(flag) == IF flag = dirty THEN << >>
                ELSE <<Call("set_dirty", NoSlot, NoPath, IF flag THEN 1 ELSE 0)>>

\* file_modified_ms and recovery_is_newer: offered unless the file is as new.
Newer(m) == m.path = NoPath \/ disk[m.path] = Absent \/ m.time > mtime[m.path]
Offerable == working # Absent /\ meta # NoMeta /\ Newer(meta)

Init ==
  /\ doc = 0 /\ dirty = FALSE /\ path = NoPath /\ dragging = FALSE
  /\ origin = "fresh" /\ owed = FALSE
  /\ timer = FALSE /\ flows = [s \in Slots |-> Idle] /\ prompt = NoSlot
  /\ ipc = << >> /\ backendDirty = FALSE
  /\ disk = [p \in Paths |-> Absent] /\ mtime = [p \in Paths |-> 0]
  /\ working = Absent /\ meta = NoMeta /\ workingPath = NoPath /\ botched = FALSE
  /\ made = 0 /\ clock = 0

------------------------------------------------------------------------------
(* Documents replaced. *)

Replace(v, p, flag, how) ==
  /\ doc' = v /\ dirty' = flag /\ path' = p
  /\ dragging' = FALSE /\ origin' = how /\ owed' = flag

At(f, pc) == flows[f].pc = pc
Goto(f, pc) == flows' = [flows EXCEPT ![f].pc = pc]
Finish(f)   == flows' = [flows EXCEPT ![f] = Idle]

\* A native file dialog keeps the user away from the window.
DialogOpen == \E f \in Slots : flows[f].pc \in {"picking", "pickSave"}

\* What a guarded flow goes on to, once it is safe to proceed; debt says which
\* edits are still owed then.
ProceedNew(f, rest) ==
  /\ flows[f].kind = "new"
  /\ Replace(0, NoPath, FALSE, "fresh")
  /\ ipc' = rest \o Mirror(FALSE) \o <<Clear(NoSlot)>>
  /\ Finish(f)

ProceedOpen(f, rest, debt) ==
  /\ flows[f].kind = "open"
  /\ Goto(f, "picking") /\ ipc' = rest
  /\ owed' = debt /\ UNCHANGED <<doc, dirty, path, dragging, origin>>

ProceedRecent(f, rest, debt) ==
  /\ flows[f].kind = "recent"
  /\ ipc' = Append(rest, Call("load_project", f, flows[f].path, Absent))
  /\ Goto(f, "loading")
  /\ owed' = debt /\ UNCHANGED <<doc, dirty, path, dragging, origin>>

\* markSaved without a path, then destroy.
ProceedClose(f, rest, debt) ==
  /\ flows[f].kind = "close"
  /\ dirty' = FALSE /\ ipc' = rest \o Mirror(FALSE)
  /\ Goto(f, "closing")
  /\ owed' = debt /\ UNCHANGED <<doc, path, dragging, origin>>

Proceed(f, rest, debt) ==
  \/ ProceedNew(f, rest) \/ ProceedOpen(f, rest, debt)
  \/ ProceedRecent(f, rest, debt) \/ ProceedClose(f, rest, debt)

------------------------------------------------------------------------------
(* The user edits. *)

\* Nothing can be edited under the recovery offer: its backdrop takes the
\* pointer, and the fresh document has nothing selected, copied or undoable.
CanEdit == /\ made < MaxVersions /\ ~DialogOpen /\ Len(ipc) < MaxCalls
           /\ prompt # NoSlot => flows[prompt].kind # "offer"

Edit ==
  /\ CanEdit
  /\ made' = made + 1 /\ doc' = made + 1 /\ dirty' = TRUE
  /\ origin' = "edited" /\ owed' = TRUE
  /\ ipc' = ipc \o Mirror(TRUE)
  /\ timer' = TRUE
  /\ UNCHANGED <<path, dragging, flows, prompt, backendDirty, files>>

\* applyNodeChanges: a drag moves nodes without marking the document dirty; the
\* timer is armed only while dirty.
DragMove ==
  /\ CanEdit /\ ~dragging
  /\ made' = made + 1 /\ doc' = made + 1
  /\ dragging' = TRUE /\ origin' = "dragged"
  /\ timer' = (timer \/ dirty)
  /\ UNCHANGED <<dirty, path, owed, flows, prompt, ipc, backendDirty, files>>

\* commitInteraction: dirty, with the project it already was.
DragEnd ==
  /\ dragging
  /\ dragging' = FALSE /\ dirty' = TRUE /\ origin' = "dragged" /\ owed' = TRUE
  /\ ipc' = ipc \o Mirror(TRUE)
  /\ UNCHANGED <<doc, path, web, backendDirty, files, made>>

------------------------------------------------------------------------------
(* The File menu, the close guard and their question. *)

\* MUTANT: the new question takes the place of the open one.
Ask_Strands(f, kind, p) ==
  /\ prompt' = f
  /\ flows' = [flows EXCEPT ![f] = Flow("asked", kind, p, Absent)]
  /\ UNCHANGED ipc

\* ask: an open question is cancelled first; a cancelled offer is dropped.
Ask(f, kind, p) ==
  /\ prompt' = f
  /\ flows' = [s \in Slots |->
                 IF s = f THEN Flow("asked", kind, p, Absent)
                 ELSE IF s = prompt THEN Idle ELSE flows[s]]
  /\ ipc' = IF prompt # NoSlot /\ flows[prompt].kind = "offer" THEN Append(ipc, Clear(NoSlot))
            ELSE ipc

\* guardUnsaved on a clean document is no await at all.
StartNew(f) ==
  \/ /\ dirty /\ Ask(f, "new", NoPath) /\ UNCHANGED store
  \/ /\ ~dirty /\ Replace(0, NoPath, FALSE, "fresh")
     /\ ipc' = Append(ipc, Clear(NoSlot)) /\ UNCHANGED <<flows, prompt>>

StartOpen(f) ==
  /\ \/ /\ dirty /\ Ask(f, "open", NoPath)
     \/ /\ ~dirty /\ flows' = [flows EXCEPT ![f] = Flow("picking", "open", NoPath, Absent)]
        /\ UNCHANGED <<prompt, ipc>>
  /\ UNCHANGED store

StartRecent(f) ==
  /\ \E p \in Paths :
       \/ /\ dirty /\ Ask(f, "recent", p)
       \/ /\ ~dirty
          /\ flows' = [flows EXCEPT ![f] = Flow("loading", "recent", p, Absent)]
          /\ ipc' = Append(ipc, Call("load_project", f, p, Absent)) /\ UNCHANGED prompt
  /\ UNCHANGED store

\* A close request that the backend vetoed.
StartClose(f) ==
  /\ backendDirty
  /\ \/ /\ dirty /\ Ask(f, "close", NoPath) /\ UNCHANGED store
     \/ /\ ~dirty
        /\ flows' = [flows EXCEPT ![f] = Flow("closing", "close", NoPath, Absent)]
        /\ UNCHANGED <<store, prompt, ipc>>

\* A save inside a flow leaves what the flow was asked to open alone.
Saving(f, kind, pc) ==
  flows' = [flows EXCEPT ![f] = Flow(pc, kind, @.path, Absent)]

\* writeTo: the document as it is now is handed to the backend.
WriteTo(f, kind, p) ==
  Saving(f, kind, "writing") /\ ipc' = Append(ipc, Call("save_project", f, p, doc))

PickSavePath(f, kind) == Saving(f, kind, "pickSave") /\ UNCHANGED ipc

Save(f, kind) == IF path = NoPath THEN PickSavePath(f, kind) ELSE WriteTo(f, kind, path)

StartSave(f) == /\ Save(f, "save") \/ PickSavePath(f, "save")
                /\ UNCHANGED <<store, prompt>>

Start ==
  /\ ~DialogOpen /\ Len(ipc) < MaxCalls
  /\ \E f \in Slots : /\ At(f, "idle")
                      /\ StartNew(f) \/ StartOpen(f) \/ StartRecent(f) \/ StartClose(f) \/ StartSave(f)
  /\ UNCHANGED <<timer, backendDirty, files, made>>

\* The three answers to "Save changes?".
AnswerGuard ==
  /\ prompt # NoSlot /\ flows[prompt].kind # "offer"
  /\ prompt' = NoSlot
  /\ \/ Finish(prompt) /\ UNCHANGED <<store, ipc>>
     \/ Proceed(prompt, ipc, FALSE)
     \/ Save(prompt, flows[prompt].kind) /\ UNCHANGED store
  /\ UNCHANGED <<timer, backendDirty, files, made>>

\* restoreRecovery: loaded clean, then flagged dirty, so no timer is armed.
AnswerOffer ==
  /\ prompt # NoSlot /\ flows[prompt].kind = "offer"
  /\ prompt' = NoSlot /\ Finish(prompt)
  /\ \/ /\ Replace(flows[prompt].doc, flows[prompt].path, TRUE, "restored")
        /\ ipc' = ipc \o Mirror(TRUE) \o <<Clear(NoSlot)>>
     \/ ipc' = Append(ipc, Clear(NoSlot)) /\ UNCHANGED store
  /\ UNCHANGED <<timer, backendDirty, files, made>>

PickPath ==
  \E f \in Slots :
    /\ \/ /\ At(f, "picking")
          /\ \/ Finish(f) /\ UNCHANGED ipc
             \/ \E p \in Paths :
                  /\ flows' = [flows EXCEPT ![f] = Flow("loading", @.kind, p, Absent)]
                  /\ ipc' = Append(ipc, Call("load_project", f, p, Absent))
       \/ /\ At(f, "pickSave")
          /\ \/ Finish(f) /\ UNCHANGED ipc
             \/ \E p \in Paths : WriteTo(f, flows[f].kind, p)
    /\ UNCHANGED <<store, timer, prompt, backendDirty, files, made>>

------------------------------------------------------------------------------
(* The autosave timer and the backend. *)

\* Backend calls take no two seconds: the timer fires when none is under way.
Settled == ipc = << >>

TimerFires ==
  /\ timer /\ Settled /\ timer' = FALSE
  /\ ipc' = IF dirty THEN <<Call("autosave_recovery", NoSlot, path, doc)>> ELSE << >>
  /\ UNCHANGED <<store, flows, prompt, backendDirty, files, made>>

Executes(cmd) == ipc # << >> /\ Head(ipc).cmd = cmd
Tick == clock < MaxWrites /\ clock' = clock + 1

ExecSetDirty ==
  /\ Executes("set_dirty")
  /\ backendDirty' = (Head(ipc).doc = 1) /\ ipc' = Tail(ipc)
  /\ UNCHANGED <<store, web, files, made>>

\* After the write: metadata restamped on the live document, which arms the
\* timer while it is dirty, then markSaved.
SaveLands(p) ==
  /\ timer' = (timer \/ dirty)
  /\ dirty' = FALSE /\ path' = p

ExecSave ==
  /\ Executes("save_project")
  /\ LET f == Head(ipc).slot  p == Head(ipc).path  v == Head(ipc).doc IN
     /\ Tick
     /\ disk' = [disk EXCEPT ![p] = v] /\ mtime' = [mtime EXCEPT ![p] = clock + 1]
     /\ SaveLands(p)
     /\ owed' = (owed /\ v # doc)
     /\ ipc' = Tail(ipc) \o Mirror(FALSE) \o <<Call("push_recent", f, p, Absent)>>
     /\ Goto(f, "recording")
  /\ UNCHANGED <<doc, dragging, origin, prompt, backendDirty, working, meta, workingPath, botched, made>>

\* An IO error is a toast: nothing changes and the flow aborts.
ExecSaveFails ==
  /\ Executes("save_project")
  /\ Finish(Head(ipc).slot) /\ ipc' = Tail(ipc)
  /\ UNCHANGED <<store, timer, prompt, backendDirty, files, made>>

\* openPath: the loaded project replaces whatever is there by now.
ExecLoad ==
  /\ Executes("load_project")
  /\ LET f == Head(ipc).slot  p == Head(ipc).path IN
     IF disk[p] = Absent
     THEN Finish(f) /\ ipc' = Tail(ipc) /\ UNCHANGED store
     ELSE /\ Replace(disk[p], p, FALSE, "loaded")
          /\ ipc' = Tail(ipc) \o Mirror(FALSE) \o <<Call("push_recent", f, p, Absent)>>
          /\ Goto(f, "opened")
  /\ UNCHANGED <<timer, prompt, backendDirty, files, made>>

\* MUTANT: an opened project leaves the recovery file of the one before.
ExecRecent_KeepsRecovery ==
  /\ Executes("push_recent")
  /\ LET f == Head(ipc).slot IN
     \/ /\ At(f, "recording") /\ Goto(f, "clearing") /\ ipc' = Append(Tail(ipc), Clear(f))
     \/ /\ At(f, "opened") /\ Finish(f) /\ ipc' = Tail(ipc)
  /\ UNCHANGED <<store, timer, prompt, backendDirty, files, made>>

\* recordRecent is awaited (the list it keeps is left out), then the recovery
\* file is cleared.
ExecRecent ==
  /\ Executes("push_recent")
  /\ LET f == Head(ipc).slot IN
     \/ /\ At(f, "recording") /\ Goto(f, "clearing") /\ ipc' = Append(Tail(ipc), Clear(f))
     \/ /\ At(f, "opened") /\ Finish(f) /\ ipc' = Append(Tail(ipc), Clear(NoSlot))
  /\ UNCHANGED <<store, timer, prompt, backendDirty, files, made>>

\* remove_dir_all: one file of the recovery after another, in the directory's order.
ExecRemove ==
  /\ Executes("clear_recovery")
  /\ \/ working # Absent /\ working' = Absent /\ workingPath' = NoPath /\ UNCHANGED meta
     \/ meta # NoMeta /\ meta' = NoMeta /\ UNCHANGED <<working, workingPath>>
  /\ UNCHANGED <<store, web, ipc, backendDirty, disk, mtime, botched, clock, made>>

\* The call is over, because all is removed or because a removal failed: its
\* callers, who swallow the error, go on just the same.
ExecClear ==
  /\ Executes("clear_recovery")
  /\ botched' = (meta # NoMeta)
  /\ LET f == Head(ipc).slot IN
     \/ f = NoSlot /\ ipc' = Tail(ipc) /\ UNCHANGED <<store, flows>>
     \/ /\ f # NoSlot /\ flows[f].kind = "save"
        /\ Finish(f) /\ ipc' = Tail(ipc) /\ UNCHANGED store
     \/ f # NoSlot /\ Proceed(f, Tail(ipc), owed)
  /\ UNCHANGED <<timer, prompt, backendDirty, disk, mtime, working, meta, workingPath, clock, made>>

\* write_recovery writes two files, each of them atomically.
ExecAutosaveDoc ==
  /\ Executes("autosave_recovery") /\ Tick
  /\ working' = Head(ipc).doc /\ workingPath' = Head(ipc).path
  /\ ipc' = <<[Head(ipc) EXCEPT !.cmd = "autosave_meta"]>> \o Tail(ipc)
  /\ UNCHANGED <<store, web, backendDirty, disk, mtime, meta, botched, made>>

ExecAutosaveMeta ==
  /\ Executes("autosave_meta")
  /\ meta' = [path |-> Head(ipc).path, time |-> clock]
  /\ ipc' = Tail(ipc) /\ botched' = FALSE
  /\ UNCHANGED <<store, web, backendDirty, disk, mtime, working, workingPath, clock, made>>

\* Either file may fail to be written; the error is swallowed.
ExecAutosaveFails ==
  /\ Executes("autosave_recovery") \/ Executes("autosave_meta")
  /\ ipc' = Tail(ipc) /\ botched' = TRUE
  /\ UNCHANGED <<store, web, backendDirty, disk, mtime, working, meta, workingPath, clock, made>>

Exec == \/ ExecSetDirty \/ ExecSave \/ ExecSaveFails \/ ExecLoad \/ ExecRecent \/ ExecRemove
        \/ ExecClear \/ ExecAutosaveDoc \/ ExecAutosaveMeta \/ ExecAutosaveFails

------------------------------------------------------------------------------
(* The process ends and is started again: only the files are left, and a    *)
(* recovery newer than its project file is offered.                         *)

Relaunch(how) ==
  /\ Replace(0, NoPath, FALSE, how)
  /\ timer' = FALSE /\ ipc' = << >> /\ backendDirty' = FALSE
  /\ IF Offerable
     THEN \E f \in Slots :
            /\ prompt' = f
            /\ flows' = [s \in Slots |->
                 IF s = f THEN Flow("asked", "offer", meta.path, working)
                 ELSE Idle]
     ELSE prompt' = NoSlot /\ flows' = [s \in Slots |-> Idle]
  /\ botched' = (botched \/ (working = Absent /\ meta # NoMeta))
  /\ UNCHANGED <<disk, mtime, working, meta, workingPath, clock, made>>

Crash == Relaunch("crashed")

\* The window closes: at once when the backend knows of no edits, or when the
\* close guard destroys it.
CloseWindow == /\ ~DialogOpen
               /\ ~backendDirty \/ \E f \in Slots : At(f, "closing")
               /\ Relaunch("closed")

Next == \/ Edit \/ DragMove \/ DragEnd \/ Start \/ AnswerGuard \/ AnswerOffer \/ PickPath
        \/ TimerFires \/ Exec \/ Crash \/ CloseWindow

Spec == Init /\ [][Next]_vars

------------------------------------------------------------------------------
Versions == 0..MaxVersions

TypeOK ==
  /\ doc \in Versions /\ dirty \in BOOLEAN /\ path \in Paths \cup {NoPath}
  /\ dragging \in BOOLEAN /\ owed \in BOOLEAN /\ timer \in BOOLEAN
  /\ origin \in {"fresh", "edited", "dragged", "loaded", "restored", "crashed", "closed"}
  /\ \A f \in Slots : /\ flows[f].path \in Paths \cup {NoPath}
                      /\ flows[f].doc \in Versions \cup {Absent}
                      /\ flows[f].pc \in {"loading", "opened"} \/ flows[f].kind = "recent"
                           => flows[f].path # NoPath
  /\ prompt \in Slots \cup {NoSlot} /\ backendDirty \in BOOLEAN
  /\ disk \in [Paths -> Versions \cup {Absent}] /\ mtime \in [Paths -> 0..MaxWrites]
  /\ working \in Versions \cup {Absent} /\ workingPath \in Paths \cup {NoPath}
  /\ meta.path \in Paths \cup {NoPath} /\ meta.time \in 0..MaxWrites \cup {Absent}
  /\ botched \in BOOLEAN /\ made \in Versions /\ clock \in 0..MaxWrites

(* "so we never strand two awaiters": a flow waits for an answer exactly    *)
(* when its question is the one on screen, whoever asked in between.        *)
EveryAskerIsOnScreen == \A f \in Slots : At(f, "asked") <=> prompt = f

AutosaveUnderWay ==
  \E i \in DOMAIN ipc : ipc[i].cmd \in {"autosave_recovery", "autosave_meta"}

Recoverable == Offerable /\ working = doc /\ meta.path = path
Quiet(how)  == dirty /\ origin = how /\ ~dragging /\ ~timer /\ ~AutosaveUnderWay

(* Work that was typed survives a crash: once the timer has fired, the next *)
(* launch would offer exactly this document under its own path, whatever    *)
(* saves, failed saves, cancelled questions and clears came in between, if  *)
(* the autosave could be written.                                           *)
EditedWorkIsRecoverable   == Quiet("edited") => Recoverable
(* The same of work that is only dragged into place.                        *)
DraggedWorkIsRecoverable  == Quiet("dragged") => Recoverable
(* The same of work that was just recovered.                                *)
RestoredWorkIsRecoverable == Quiet("restored") => Recoverable

(* What is offered never comes back under another document's path, where    *)
(* the next Save would overwrite the wrong file: the two files of the       *)
(* recovery belong together, although a crash can part them and a recovery  *)
(* that is too old to be offered stays on disk.  It fails after a clear that *)
(* left meta.json behind, where a crash between the two writes of the next  *)
(* autosave has a document offered with the path of another.                *)
RecoveryKeepsItsPath == Offerable => meta.path = workingPath

SaveHasLanded ==
  /\ ~dirty /\ path # NoPath /\ doc = disk[path]
  /\ \A f \in Slots : At(f, "idle") \/ (flows[f].kind = "save" /\ flows[f].pc \in {"recording", "clearing"})
  /\ \A i \in DOMAIN ipc : ipc[i].cmd \in {"set_dirty", "push_recent"} \/ ipc[i].slot # NoSlot

(* From the moment a save has landed, before and after its recovery file is *)
(* cleared, a crash is followed by no offer for the file that was saved.    *)
SavedWorkIsNotOffered == SaveHasLanded /\ meta.path = path => ~Offerable

(* What a crash leaves behind is offered when it is work that would be lost, *)
(* with its own path, and not when it is older than the file: whichever     *)
(* call, clear or write a crash cuts in two.  There is nothing to promise   *)
(* from an autosave that failed, or a clear that left meta.json behind,     *)
(* until the next one goes through.                                         *)
RecoveryIsRight ==
  /\ TypeOK
  /\ ~botched => EditedWorkIsRecoverable /\ RecoveryKeepsItsPath /\ SavedWorkIsNotOffered

(* "a crash mid-write never leaves a half-document the launcher would try   *)
(* to restore", "Remove the recovery files": what is offered is whole.      *)
EveryOfferIsWhole == RecoveryKeepsItsPath

(* "a stale recovery left over from before the last save is not" offered,   *)
(* nor when that save gave the document its path.                           *)
StaleWorkIsNotOffered == SaveHasLanded => ~Offerable

(* The close handler decides on the flag as the webview has it, once the    *)
(* calls have landed.                                                       *)
VetoFollowsTheStore ==
  (\A i \in DOMAIN ipc : ipc[i].cmd # "set_dirty") => backendDirty = dirty

(* "Whether the document has unsaved edits since the last load/save/reset". *)
CleanMeansSaved == ~dirty => ~owed

(* "Guard a destructive action behind the unsaved-changes prompt": New and  *)
(* Open replace no edit that was neither saved nor given up, if not by the  *)
(* very answer that replaces it.                                            *)
ReplacedOnlyWithConsent ==
  [][owed /\ prompt' = prompt => origin' \notin {"fresh", "loaded"}]_vars

-----------------------------------------------------------------------------
\* For model checking: no action tells two flows or two project files apart.
SessionSymmetry == Permutations(Slots) \cup Permutations(Paths)
=============================================================================
