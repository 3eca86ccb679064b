----------------------------- MODULE LivePreview -----------------------------
(***************************************************************************)
(* The live compile loop (web/src/compile) over the preview streams: every *)
(* edit restarts a debounce timer, a timer that fires compiles its         *)
(* snapshot, and the newest result is shown and sent to the engine.        *)
(* A document is its version; of its contents only what the loop           *)
(* distinguishes is kept, in kinds.                                        *)
(***************************************************************************)
EXTENDS PreviewStreams

CONSTANT MaxVersions   \* bound: versions of the document

ASSUME VersionsAssumption == MaxVersions \in Nat \ {0}

VARIABLES
  kinds,      \* the kind of every version so far; the document is the last
  timer,      \* the version the debounce timer will compile, 0 when unarmed
  latest,     \* latestDispatched
  pending,    \* versions whose compile_graph calls are under way
  compiling,  \* the status bar's flag
  shown,      \* the version whose diagnostics and sources are shown
  failed,     \* ghost: versions whose compile call was rejected
  sentTo      \* ghost: activeStreamId when a chain was last sent

loop == <<kinds, timer, latest, pending, compiling, shown, failed, sentTo>>
vars == <<streamVars, loop>>

\* A graph that compiles; one with a blocking error; whole-pass code; and
\* whole-pass code slang rejects.
Kinds    == {"graph", "broken", "code", "typo"}
Graphs   == {"graph", "broken"}            \* need compile_graph
Sound    == {"graph", "code"}              \* end up in the engine
Versions == 1..MaxVersions
doc      == Len(kinds)

Init == /\ StreamsInit
        /\ kinds = <<"graph">> /\ timer = 1 /\ latest = 0 /\ pending = {}
        /\ compiling = FALSE /\ shown = 0 /\ failed = {} /\ sentTo = 0

\* MUTANT: an armed timer keeps the snapshot it was armed with.
Edit_KeepsTimer(k) ==
  /\ doc < MaxVersions
  /\ kinds' = Append(kinds, k) /\ timer' = IF timer = 0 THEN doc + 1 ELSE timer
  /\ UNCHANGED <<streamVars, latest, pending, compiling, shown, failed, sentTo>>

\* A change of the project: schedule replaces the timer.
Edit(k) ==
  /\ doc < MaxVersions
  /\ kinds' = Append(kinds, k) /\ timer' = doc + 1
  /\ UNCHANGED <<streamVars, latest, pending, compiling, shown, failed, sentTo>>

\* setCompileStatus and dispatchPreview for version v.
Apply(v) ==
  /\ shown' = v /\ compiling' = FALSE
  /\ problems' = problems \intersect DeviceLevel
  /\ IF kinds[v] = "broken" THEN UNCHANGED <<ipc, sentTo>>
     ELSE /\ ipc' = Append(ipc, [op |-> "chain", arg |-> v, compiles |-> kinds[v] \in Sound])
          /\ sentTo' = current
  /\ UNCHANGED <<webview, badge, events, frames, active, running, thread, renderer>>

\* runCompile; a document without graph passes awaits nothing.
TimerFires ==
  /\ timer # 0 /\ timer' = 0 /\ latest' = timer
  /\ IF kinds[timer] \in Graphs
     THEN /\ compiling' = TRUE /\ pending' = pending \union {timer}
          /\ UNCHANGED <<streamVars, shown, sentTo>>
     ELSE Apply(timer) /\ UNCHANGED pending
  /\ UNCHANGED <<kinds, failed>>

\* MUTANT: a result is applied whatever was dispatched since.
Compiled_Any(v) ==
  /\ v \in pending /\ pending' = pending \ {v}
  /\ Apply(v) /\ UNCHANGED <<kinds, timer, latest, failed>>

\* A result arrives; it is dropped unless it is the latest.
Compiled(v) ==
  /\ v \in pending /\ pending' = pending \ {v}
  /\ IF v = latest THEN Apply(v) ELSE UNCHANGED <<streamVars, compiling, shown, sentTo>>
  /\ UNCHANGED <<kinds, timer, latest, failed>>

\* MUTANT: a rejected call bails out at once.
Rejected_Bails(v) ==
  /\ v \in pending /\ pending' = pending \ {v} /\ failed' = failed \union {v}
  /\ UNCHANGED <<streamVars, kinds, timer, latest, compiling, shown, sentTo>>

\* The call itself fails.
Rejected(v) ==
  /\ v \in pending /\ pending' = pending \ {v} /\ failed' = failed \union {v}
  /\ compiling' = (compiling /\ v # latest)
  /\ UNCHANGED <<streamVars, kinds, timer, latest, shown, sentTo>>

Next ==
  \/ StreamStep /\ UNCHANGED loop
  \/ \E k \in Kinds : Edit(k)
  \/ TimerFires
  \/ \E v \in Versions : Compiled(v) \/ Rejected(v)

\* Threads, forwarders, timers and calls make progress; nobody has to edit,
\* start or stop.
Fairness ==
  /\ StreamFairness
  /\ WF_vars(TimerFires)
  /\ \A v \in Versions : WF_vars(Compiled(v) \/ Rejected(v))

Spec == Init /\ [][Next]_vars /\ Fairness

------------------------------------------------------------------------------
(* Nothing of what was done is still on its way. *)
Quiet ==
  /\ timer = 0 /\ pending = {} /\ ipc = << >> /\ events = << >>
  /\ \A s \in Streams : forwards[s] = << >>

\* The stream of the canvas renders (there was an adapter).
Renders == streaming /\ thread[started] = "up"

TypeOK ==
  /\ streaming \in BOOLEAN /\ started \in Streams /\ current \in {0, started}
  /\ canvas \in [stream : 0..MaxStarts, content : -1..MaxVersions]
  /\ badge \in Statuses \union {"none"} /\ problems \subseteq {"slangCompile", "noAdapter"}
  /\ \A i \in 1..Len(ipc) : ipc[i].op \in {"start", "stop", "shader", "source", "chain"}
  /\ \A i \in 1..Len(events) : events[i].stream \in 0..MaxStarts
  /\ active \in 0..started /\ running \in [Streams -> BOOLEAN]
  /\ thread \in [Streams -> {"none", "up", "ended"}]
  /\ chain \in [Streams -> -1..MaxVersions] /\ pumping \in [Streams -> BOOLEAN]
  /\ kinds \in Seq(Kinds) /\ timer \in 0..doc /\ pending \subseteq 1..doc
  /\ latest \in 0..doc /\ shown \in 0..latest /\ compiling \in BOOLEAN

(* "start/stop robust to out-of-order IPC": when the calls have arrived, in  *)
(* whatever order stops come, the backend's stream is the webview's.         *)
BackendFollowsTheWebview == ipc = << >> => active = current

(* A stream that was stopped or superseded does not render for ever ("at     *)
(* most one producer").                                                      *)
SupersededThreadsEnd ==
  \A s \in Streams : thread[s] = "up" /\ active # s ~> thread[s] = "ended"

(* "must not toast nor clobber the live stream's status": after any number   *)
(* of stops and starts the badge says live once the canvas's stream renders  *)
(* a document, although the last words of older threads arrive late.         *)
BadgeIsOfTheCurrentStream ==
  Quiet /\ Renders /\ reported[started] # "none" => badge = reported[started]

(* A frame that was under way when its stream ended is not painted over, or  *)
(* after, those of the next.                                                 *)
CanvasTakesTheCurrentStream ==
  canvas' # canvas => canvas'.stream = current /\ streaming

(* Badge and canvas show the stream that was started last, after every step. *)
ShowsTheCurrentStream ==
  [][BadgeIsOfTheCurrentStream' /\ CanvasTakesTheCurrentStream]_vars

(* "only the latest wins": compiles end in any order, but neither what is    *)
(* shown nor what a stream renders goes back to an older version.            *)
OnlyTheLatestWins ==
  [][/\ shown' >= shown
     /\ \A s \in Streams : chain'[s] < chain[s] => thread'[s] = "ended"]_vars

(* The busy indicator goes off again, also when calls fail or are overtaken. *)
CompilingEnds == compiling ~> ~compiling

(* "It updates automatically as you edit": when the user pauses, the canvas  *)
(* ends up with the newest document, if it compiles and the stream that was  *)
(* given it is still the one shown.                                          *)
PreviewCatchesUp ==
  <>[](Renders /\ sentTo = started /\ kinds[doc] \in Sound /\ doc \notin failed
         => canvas = [stream |-> started, content |-> doc])

(* The same for every stream, one started since the last edit included.      *)
PreviewSurvivesRestart ==
  Quiet /\ Renders /\ reported[started] = "live" /\ shown = doc /\ kinds[doc] \in Sound
    => chain[started] = doc

(* "the pass-level slangCompile problems the next dispatch re-establishes":  *)
(* at rest, a shader error is listed only if the document shown has one.     *)
ShaderProblemsAreCurrent ==
  Quiet /\ "slangCompile" \in problems => kinds[shown] = "typo"

=============================================================================
