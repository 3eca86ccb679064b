---------------------------- MODULE RenderSource ----------------------------
(***************************************************************************)
(* The render thread of the preview (preview-engine/src/render_source.rs): *)
(* it drains the command queue, paces the source pump (source/src/pump.rs) *)
(* against its own 60 Hz ticks, draws a frame and reports position and     *)
(* status.  The renderer is reduced to the images a chain can sample: the  *)
(* source, the history ring and what the last frame drew (Renderer has the *)
(* rest).  A source frame is <<clip, index, cut>>: the cut, the number of  *)
(* seeks so far, is bookkeeping of the model.                              *)
(***************************************************************************)
EXTENDS Integers, Sequences

CONSTANTS Clips,     \* what the app can load as a source
          LengthOf,  \* frames per clip: 1 for a still image or a static pattern
          NoClip,    \* before the first load there is no pump
          Rates,     \* the frame rates the transport offers
          Depth,     \* how many past frames the chain's history ring holds
          Waiting,   \* the neutral pane, and a texture never written
          NotReported

TransportFps == 60
DefaultFps   == 60

ASSUME ClipsAssumption  == LengthOf \in [Clips -> Nat \ {0}] /\ NoClip \notin Clips
ASSUME RatesAssumption  == Rates \subseteq Nat \ {0} /\ DefaultFps \in Rates
ASSUME DepthAssumption  == Depth \in Nat
ASSUME MarksAssumption  == /\ Waiting \notin Clips \X Nat \X Nat
                           /\ NotReported \notin Nat

VARIABLES
  queue,         \* RenderCommands sent and not yet applied
  clip, at,      \* the pump: its clip and position
  primed,        \* pump_primed: the renderer has the pump's current frame
  playing, fps,  \* the transport
  accum,         \* tick_accum
  haveShader,
  source, past, feedback,  \* the renderer's Original, history ring, previous output
  pane,          \* the image the last streamed frame shows
  lastPosition, lastStatus,   \* what was reported last, to suppress duplicates
  positions, events,          \* the channels to the webview
  cuts,          \* seeks so far
  waited         \* ticks since the pump last had reason to wait a full period

playback == <<clip, at, primed, playing, fps, accum, cuts, waited>>
picture  == <<haveShader, source, past, feedback>>
reports  == <<lastPosition, lastStatus, positions, events>>
threadVars == <<queue, playback, picture, pane, reports>>

\* Every index the transport can seek to.
Indices   == UNION {0..(LengthOf[c] - 1) : c \in Clips}
Images    == Clips \X Nat \X Nat
Statuses  == {"live", "lastGood"}
Positions == [index : Nat, len : Nat]

\* advance_period_ticks: transport fps over pump fps, rounded half up, at least 1.
AdvancePeriod(rate) ==
  LET rounded == (2 * TransportFps + rate) \div (2 * rate)
  IN  IF rounded < 1 THEN 1 ELSE rounded

Lesser(m, n) == IF m < n THEN m ELSE n

HavePump == clip # NoClip
Length   == LengthOf[clip]
Frame(i) == <<clip, i, cuts>>

ThreadInit ==
  /\ queue = << >>
  /\ clip = NoClip /\ at = 0 /\ primed = FALSE
  /\ playing = FALSE /\ fps = DefaultFps /\ accum = 0 /\ haveShader = FALSE
  /\ source = Waiting /\ past = << >> /\ feedback = Waiting /\ pane = Waiting
  /\ lastPosition = NotReported /\ lastStatus = "none"
  /\ positions = << >> /\ events = << >>
  /\ cuts = 0 /\ waited = 0

------------------------------------------------------------------------------
(* Reports are transitions only; an error event precedes its status. *)

ReportPosition(i) ==
  /\ lastPosition' = i
  /\ positions' = IF lastPosition = i THEN positions
                  ELSE Append(positions, [index |-> i, len |-> Length])

ReportStatus(status, errors) ==
  /\ lastStatus' = status
  /\ events' = events \o errors \o (IF lastStatus = status THEN << >> ELSE <<status>>)

(* The renderer: set_source starts the history over, advance_source pushes. *)

SetSource(image) == source' = image /\ past' = << >>
AdvanceSource(image) ==
  /\ source' = image
  /\ past' = IF source = Waiting THEN past
             ELSE SubSeq(<<source>> \o past, 1, Lesser(Depth, Len(past) + 1))

\* The first frame of a pump is a reload, never an advance.
Prime == /\ SetSource(Frame(at)) /\ primed' = TRUE
         /\ UNCHANGED at
         /\ ReportPosition(at)

\* MUTANT: a clip stops at its end.
NextIndex_Stops == Lesser(at + 1, Length - 1)

\* FramePump::advance loops.
NextIndex == (at + 1) % Length

AdvancePump == /\ at' = NextIndex /\ AdvanceSource(Frame(NextIndex))
               /\ UNCHANGED primed
               /\ ReportPosition(NextIndex)

Hold == UNCHANGED <<at, primed, source, past, lastPosition, positions>>

------------------------------------------------------------------------------
(* The commands, applied one at a time in arrival order. *)

Receive(op, arg) ==
  /\ queue # << >> /\ Head(queue) = [op |-> op, arg |-> arg]
  /\ queue' = Tail(queue)
  /\ UNCHANGED <<pane, lastStatus, events>>

\* MUTANT: the position of the old clip still counts as reported.
Load_KeepsReported(c) ==
  /\ Receive("load", c)
  /\ clip' = c /\ at' = 0 /\ primed' = FALSE
  /\ playing' = FALSE /\ accum' = 0 /\ waited' = 0
  /\ UNCHANGED <<fps, cuts, picture, lastPosition, positions>>

\* SetSource and LoadSourcePump, install_pump: paused at frame 0, to be primed
\* by the next tick; the rate and the feedback stay.
Load(c) ==
  /\ Receive("load", c)
  /\ clip' = c /\ at' = 0 /\ primed' = FALSE
  /\ playing' = FALSE /\ accum' = 0 /\ waited' = 0
  /\ lastPosition' = NotReported
  /\ UNCHANGED <<fps, cuts, picture, positions>>

\* MUTANT: the ticks of an earlier play count.
Play_KeepsWindow ==
  /\ Receive("play", 0)
  /\ playing' = TRUE /\ waited' = 0
  /\ UNCHANGED <<clip, at, primed, fps, accum, cuts, picture, lastPosition, positions>>

Play ==
  /\ Receive("play", 0)
  /\ playing' = TRUE /\ accum' = 0 /\ waited' = 0
  /\ UNCHANGED <<clip, at, primed, fps, cuts, picture, lastPosition, positions>>

Pause ==
  /\ Receive("pause", 0)
  /\ playing' = FALSE
  /\ UNCHANGED <<clip, at, primed, fps, accum, cuts, waited, picture, lastPosition, positions>>

\* step_pump: before the first tick a step primes; one frame never advances.
Step ==
  /\ Receive("step", 0)
  /\ \/ ~HavePump /\ Hold
     \/ HavePump /\ ~primed /\ Prime
     \/ HavePump /\ primed /\ Length = 1 /\ Hold
     \/ HavePump /\ primed /\ Length > 1 /\ AdvancePump
  /\ UNCHANGED <<clip, playing, fps, accum, cuts, waited, haveShader, feedback>>

\* MUTANT: the feedback survives the jump.
Seek_KeepsFeedback(i) ==
  /\ Receive("seek", i) /\ HavePump
  /\ at' = i % Length /\ primed' = TRUE /\ cuts' = cuts + 1
  /\ source' = <<clip, i % Length, cuts + 1>> /\ past' = << >>
  /\ UNCHANGED feedback
  /\ ReportPosition(i % Length)
  /\ UNCHANGED <<clip, playing, fps, accum, waited, haveShader>>

\* seek_pump: a jump starts history and feedback over.
Seek(i) ==
  /\ Receive("seek", i)
  /\ IF HavePump
     THEN /\ at' = i % Length /\ primed' = TRUE /\ cuts' = cuts + 1
          /\ source' = <<clip, i % Length, cuts + 1>> /\ past' = << >>
          /\ feedback' = Waiting
          /\ ReportPosition(i % Length)
     ELSE Hold /\ UNCHANGED <<cuts, feedback>>
  /\ UNCHANGED <<clip, playing, fps, accum, waited, haveShader>>

SetFps(rate) ==
  /\ Receive("setFps", rate)
  /\ fps' = rate /\ accum' = 0 /\ waited' = 0
  /\ UNCHANGED <<clip, at, primed, playing, cuts, picture, lastPosition, positions>>

\* SetShader and a SetChain that builds: history and feedback start over.
SetChain ==
  /\ Receive("setChain", 0)
  /\ haveShader' = TRUE /\ past' = << >> /\ feedback' = Waiting
  /\ UNCHANGED <<playback, source, lastPosition, positions>>

\* A chain without passes is refused: the old one keeps running.
SetEmptyChain ==
  /\ Receive("setEmptyChain", 0)
  /\ UNCHANGED <<playback, picture, lastPosition, positions>>

------------------------------------------------------------------------------
(* One call of render_into, once the queue is drained. *)

\* pace_pump: prime, or while playing advance once every AdvancePeriod ticks.
Pace ==
  \/ ~HavePump /\ Hold /\ UNCHANGED <<accum, waited>>
  \/ HavePump /\ ~primed /\ Prime
     /\ waited' = Lesser(waited + 1, AdvancePeriod(fps)) /\ UNCHANGED accum
  \/ /\ HavePump /\ primed
     /\ IF playing /\ Length > 1
        THEN IF accum + 1 >= AdvancePeriod(fps)
             THEN AdvancePump /\ accum' = 0 /\ waited' = 0
             ELSE /\ Hold /\ accum' = accum + 1
                  /\ waited' = Lesser(waited + 1, AdvancePeriod(fps))
        ELSE Hold /\ UNCHANGED accum /\ waited' = Lesser(waited + 1, AdvancePeriod(fps))

\* The frame was drawn, and its feedback swapped, but cannot be shown.
ReadBackFails ==
  /\ HavePump /\ haveShader
  /\ feedback' = source' /\ pane' = Waiting
  /\ ReportStatus("lastGood", <<"readback">>)

ShowFrame ==
  /\ HavePump /\ haveShader
  /\ feedback' = source' /\ pane' = source'
  /\ ReportStatus("live", << >>)

ShowWaiting ==
  /\ ~(HavePump /\ haveShader)
  /\ pane' = Waiting /\ UNCHANGED feedback
  /\ ReportStatus("lastGood", << >>)

RenderTick ==
  /\ queue = << >>
  /\ Pace
  /\ ShowFrame \/ ReadBackFails \/ ShowWaiting
  /\ UNCHANGED <<queue, clip, playing, fps, cuts, haveShader>>

ApplyCommand ==
  \/ \E c \in Clips : Load(c)
  \/ Play \/ Pause \/ Step
  \/ \E i \in Indices : Seek(i)
  \/ \E rate \in Rates : SetFps(rate)
  \/ SetChain \/ SetEmptyChain

=============================================================================
