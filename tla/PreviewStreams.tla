--------------------------- MODULE PreviewStreams ---------------------------
(***************************************************************************)
(* The preview streams of app/src/preview.rs and their owner in the        *)
(* webview, PreviewCanvas.tsx: one render thread per stream with its       *)
(* command channel and running flag, the forwarder of its engine events,   *)
(* the events and frames on their way to the webview, and the calls on     *)
(* their way to the backend. Rendering itself is RenderSource; here a      *)
(* frame is the chain it was drawn with, and a command takes effect when   *)
(* it is queued, for the queue is drained before every frame.              *)
(***************************************************************************)
EXTENDS Integers, Sequences, SequencesExt

CONSTANTS MaxStarts,    \* bound: streams ever started
          MaxInFlight   \* bound: engine events the webview is behind

ASSUME StreamBounds == MaxStarts \in Nat \ {0} /\ MaxInFlight \in Nat \ {0}

VARIABLES
  \* the webview
  streaming,   \* whether the Start/Stop button says Stop
  started,     \* number of streams made; the last one is the canvas's own
  current,     \* activeStreamId, 0 for null
  canvas,      \* the frame painted: its stream and what it was drawn with
  badge,       \* engineStatus
  problems,    \* codes of engineProblems
  \* on their way
  ipc,         \* calls to the backend
  events,      \* engine events to the webview
  frames,      \* per stream, the last frame not yet delivered
  \* the backend
  active,      \* PreviewState.active: a stream, 0 for None
  running,     \* the flag of each stream
  thread,      \* the render thread of each stream
  chain,       \* the chain of its next frame, with the commands queued for it
  pumping,     \* whether it has a source by then
  reported,    \* the status it reported last
  forwards     \* reports its forwarder has not emitted

webview  == <<streaming, started, current, canvas>>
notices  == <<badge, problems>>
renderer == <<chain, pumping, reported, forwards>>
streamVars == <<webview, notices, ipc, events, frames, active, running, thread,
                renderer>>

Streams  == 1..MaxStarts
NoChain  == -1                    \* no shader yet, and the waiting frame
Builtin  == 0                     \* DEFAULT_SHADER; the document's chains are 1, 2, ...
Statuses == {"live", "lastGood", "stopped"}
DeviceLevel == {"noAdapter"}      \* problems no compile can cure

Call(op, arg)   == [op |-> op, arg |-> arg, compiles |-> TRUE]
Event(s, what)  == [stream |-> s, what |-> what]

\* What the effect of PreviewCanvas sends when it starts stream s.
StartCalls(s) == <<Call("start", s), Call("shader", Builtin), Call("source", 0)>>

StreamsInit ==
  /\ streaming = TRUE /\ started = 1 /\ current = 1
  /\ canvas = [stream |-> 0, content |-> NoChain]
  /\ badge = "none" /\ problems = {}
  /\ ipc = StartCalls(1) /\ events = << >> /\ frames = [s \in Streams |-> << >>]
  /\ active = 0 /\ running = [s \in Streams |-> FALSE]
  /\ thread = [s \in Streams |-> "none"]
  /\ chain = [s \in Streams |-> NoChain] /\ pumping = [s \in Streams |-> FALSE]
  /\ reported = [s \in Streams |-> "none"] /\ forwards = [s \in Streams |-> << >>]

------------------------------------------------------------------------------
(* The webview. *)

Start ==
  /\ ~streaming /\ started < MaxStarts
  /\ streaming' = TRUE /\ started' = started + 1 /\ current' = started + 1
  /\ ipc' = ipc \o StartCalls(started + 1)
  /\ UNCHANGED <<canvas, notices, events, frames, active, running, thread, renderer>>

\* The cleanup of the effect.
Stop ==
  /\ streaming /\ streaming' = FALSE
  /\ current' = IF current = started THEN 0 ELSE current
  /\ ipc' = Append(ipc, Call("stop", started))
  /\ UNCHANGED <<started, canvas, notices, events, frames, active, running, thread,
                 renderer>>

\* channel.onmessage of stream s: once its effect is cleaned up it is cancelled.
DeliverFrame(s) ==
  /\ frames[s] # << >> /\ frames' = [frames EXCEPT ![s] = << >>]
  /\ canvas' = IF streaming /\ s = started
               THEN [stream |-> s, content |-> Head(frames[s])] ELSE canvas
  /\ UNCHANGED <<streaming, started, current, notices, ipc, events, active, running,
                 thread, renderer>>

\* MUTANT: the listener takes the events of every stream.
Surfaced_Every(e) == TRUE

\* The filter of useEngineEvents.
Surfaced(e) == current = 0 \/ e.stream = current

DeliverEvent ==
  /\ events # << >> /\ events' = Tail(events)
  /\ LET e == Head(events) IN
     IF ~Surfaced(e) THEN UNCHANGED notices
     ELSE IF e.what \in Statuses THEN badge' = e.what /\ UNCHANGED problems
     ELSE problems' = problems \union {e.what} /\ UNCHANGED badge
  /\ UNCHANGED <<webview, ipc, frames, active, running, thread, renderer>>

------------------------------------------------------------------------------
(* The commands of the backend. A stop may arrive late, after the start of   *)
(* the next stream; the other calls arrive in the order they were made.      *)

Arrives(i) == i \in 1..Len(ipc) /\ \A j \in 1..(i - 1) : ipc[j].op = "stop"

Executes(i, op) == Arrives(i) /\ ipc[i].op = op /\ ipc' = RemoveAt(ipc, i)

\* MUTANT: start does not stop the stream before.
StartStream_KeepsOld(i) ==
  /\ Executes(i, "start")
  /\ LET s == ipc[i].arg IN
     /\ active' = s /\ running' = [running EXCEPT ![s] = TRUE]
     /\ thread' = [thread EXCEPT ![s] = "up"]
  /\ UNCHANGED <<webview, notices, events, frames, renderer>>

StartStream(i) ==
  /\ Executes(i, "start")
  /\ LET s == ipc[i].arg IN
     /\ active' = s /\ running' = [r \in Streams |-> r = s \/ (r # active /\ running[r])]
     /\ thread' = [thread EXCEPT ![s] = "up"]
  /\ UNCHANGED <<webview, notices, events, frames, renderer>>

\* MUTANT: a stop ends whatever stream is active.
StopStream_Any(i) ==
  /\ Executes(i, "stop")
  /\ active' = 0 /\ running' = [r \in Streams |-> r # active /\ running[r]]
  /\ UNCHANGED <<webview, notices, events, frames, thread, renderer>>

\* stop_matching: a stop of a stream that is no longer active does nothing.
StopStream(i) ==
  /\ Executes(i, "stop")
  /\ IF active = ipc[i].arg
     THEN active' = 0 /\ running' = [running EXCEPT ![active] = FALSE]
     ELSE UNCHANGED <<active, running>>
  /\ UNCHANGED <<webview, notices, events, frames, thread, renderer>>

\* PreviewState::send: an error, which is only logged, without a stream or when
\* its thread is gone.
Reaches == active # 0 /\ thread[active] = "up"

SetChainOf(c) == chain' = IF Reaches THEN [chain EXCEPT ![active] = c] ELSE chain

\* load_shader and load_source with null paths.
LoadBuiltin(i) ==
  /\ \/ Executes(i, "shader") /\ SetChainOf(Builtin) /\ UNCHANGED pumping
     \/ /\ Executes(i, "source") /\ UNCHANGED chain
        /\ pumping' = IF Reaches THEN [pumping EXCEPT ![active] = TRUE] ELSE pumping
  /\ UNCHANGED <<webview, notices, events, frames, active, running, thread, reported, forwards>>

\* load_chain_sources: a source slang rejects is an event, tagged with the
\* active stream or, without one, with an empty id.
LoadChainSources(i) ==
  /\ Executes(i, "chain")
  /\ IF ipc[i].compiles THEN SetChainOf(ipc[i].arg) /\ UNCHANGED events
     ELSE events' = Append(events, Event(active, "slangCompile")) /\ UNCHANGED chain
  /\ UNCHANGED <<webview, notices, frames, active, running, thread, pumping, reported, forwards>>

ExecuteCall ==
  \E i \in 1..Len(ipc) :
     StartStream(i) \/ StopStream(i) \/ LoadBuiltin(i) \/ LoadChainSources(i)

------------------------------------------------------------------------------
(* The render thread of a stream and its forwarder. A thread creates its     *)
(* renderer before its first frame; when it ends, all it owns is dropped.    *)

Emits(what) == Len(events) < MaxInFlight /\ events' = events \o what

Drops(s) ==
  /\ chain' = [chain EXCEPT ![s] = NoChain]
  /\ pumping' = [pumping EXCEPT ![s] = FALSE] /\ reported' = [reported EXCEPT ![s] = "none"]

\* No adapter: error and Stopped, and the Stopped of every thread that ends.
RendererUnavailable(s) ==
  /\ thread[s] = "up" /\ reported[s] = "none"
  /\ thread' = [thread EXCEPT ![s] = "ended"] /\ running' = [running EXCEPT ![s] = FALSE]
  /\ Drops(s)
  /\ Emits(<<Event(s, "noAdapter"), Event(s, "stopped"), Event(s, "stopped")>>)
  /\ UNCHANGED <<webview, notices, ipc, frames, active, forwards>>

\* One turn of pump_frames: render with what is queued, send the frame, report a
\* status that changed.
RenderFrame(s) ==
  /\ thread[s] = "up" /\ running[s]
  /\ LET ready  == chain[s] # NoChain /\ pumping[s]
         status == IF ready THEN "live" ELSE "lastGood"
     IN /\ frames' = [frames EXCEPT ![s] = <<IF ready THEN chain[s] ELSE NoChain>>]
        /\ reported' = [reported EXCEPT ![s] = status]
        /\ forwards' = IF reported[s] = status THEN forwards
                       ELSE [forwards EXCEPT ![s] = Append(@, status)]
  /\ UNCHANGED <<webview, notices, ipc, events, active, running, thread, chain, pumping>>

\* The flag was cleared: the thread emits Stopped itself, past its forwarder.
EndThread(s) ==
  /\ thread[s] = "up" /\ ~running[s]
  /\ thread' = [thread EXCEPT ![s] = "ended"] /\ Drops(s)
  /\ Emits(<<Event(s, "stopped")>>)
  /\ UNCHANGED <<webview, notices, ipc, frames, active, running, forwards>>

Forward(s) ==
  /\ forwards[s] # << >> /\ forwards' = [forwards EXCEPT ![s] = Tail(@)]
  /\ Emits(<<Event(s, Head(forwards[s]))>>)
  /\ UNCHANGED <<webview, notices, ipc, frames, active, running, thread,
                 chain, pumping, reported>>

ThreadStep(s) ==
  RendererUnavailable(s) \/ RenderFrame(s) \/ EndThread(s)

StreamStep ==
  \/ Start \/ Stop \/ DeliverEvent \/ ExecuteCall
  \/ \E s \in Streams : DeliverFrame(s) \/ ThreadStep(s) \/ Forward(s)

StreamFairness ==
  /\ WF_streamVars(DeliverEvent) /\ WF_streamVars(ExecuteCall)
  /\ \A s \in Streams : WF_streamVars(DeliverFrame(s)) /\ WF_streamVars(ThreadStep(s))
                        /\ WF_streamVars(Forward(s))

=============================================================================
