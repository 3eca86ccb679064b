--------------------------- MODULE TransportPanel ---------------------------
(***************************************************************************)
(* The transport panel (web/src/panels/SourcePanel.tsx) and the engine     *)
(* status badge over the render thread of RenderSource: buttons send       *)
(* commands and change the panel at once, the thread's reports come back   *)
(* later through the forwarder threads of app/src/preview.rs.              *)
(***************************************************************************)
EXTENDS RenderSource

CONSTANTS MaxSends,     \* bound: commands the user sends
          MaxInFlight   \* bound: reports the forwarders are behind

ASSUME BoundsAssumption == MaxSends \in Nat /\ MaxInFlight \in Nat \ {0}

VARIABLES
  tab,           \* the Source tab: closed, open, or open with its listener registered
  shown,         \* the position the panel shows
  playShown,     \* whether the panel thinks the pump plays
  mirrored,      \* shown is the engine's last report, or the user's seek since
  statusShown,   \* the status badge
  sends          \* commands sent so far

panelState == <<tab, shown, playShown, mirrored>>
panelVars  == <<panelState, statusShown, sends>>
vars == <<threadVars, panelVars>>

Fresh == [index |-> 0, len |-> 1]

Init == /\ ThreadInit
        /\ tab = "closed" /\ shown = Fresh /\ playShown = FALSE /\ mirrored = FALSE
        /\ statusShown = "none" /\ sends = 0

Act  == sends < MaxSends /\ sends' = sends + 1
Open == tab # "closed"

\* An invoke: the command joins the queue of the render thread.
Send(op, arg) ==
  /\ Act
  /\ queue' = Append(queue, [op |-> op, arg |-> arg])
  /\ UNCHANGED <<playback, picture, pane, reports, statusShown>>

Keeps == UNCHANGED <<tab, shown, mirrored>>

ClickLoad(c) == Open /\ Send("load", c) /\ UNCHANGED panelState
ClickPlay    == Open /\ ~playShown /\ Send("play", 0) /\ playShown' = TRUE /\ Keeps
ClickPause   == Open /\ playShown /\ Send("pause", 0) /\ playShown' = FALSE /\ Keeps
ClickStep    == Open /\ Send("step", 0) /\ playShown' = FALSE /\ Keeps
ChangeFps(rate) == Open /\ Send("setFps", rate) /\ UNCHANGED panelState

\* The slider moves at once; it is disabled for a single frame.
MoveSlider(i) ==
  /\ Open /\ shown.len > 1 /\ i < shown.len
  /\ Send("seek", i) /\ shown' = [shown EXCEPT !.index = i]
  /\ UNCHANGED <<tab, playShown, mirrored>>

\* PanelLayout mounts the panel of the selected tab only: its state is made
\* anew, and its listener registered a moment later.
OpenTab == /\ tab = "closed" /\ Act /\ tab' = "open"
           /\ UNCHANGED <<threadVars, shown, playShown, mirrored, statusShown>>

Listen == /\ tab = "open" /\ tab' = "listening"
          /\ UNCHANGED <<threadVars, shown, playShown, mirrored, statusShown, sends>>

LeaveTab == /\ Open /\ Act
            /\ tab' = "closed" /\ shown' = Fresh /\ playShown' = FALSE /\ mirrored' = FALSE
            /\ UNCHANGED <<threadVars, statusShown>>

\* The compile loop hands over a chain, or one without passes; the preview loads
\* its first source, a still.
SendChain == \/ \E op \in {"setChain", "setEmptyChain"} : Send(op, 0) /\ UNCHANGED panelState
             \/ ~HavePump /\ \E c \in {d \in Clips : LengthOf[d] = 1} : Send("load", c) /\ UNCHANGED panelState

\* loadProject and reset clear the badge; stream and thread go on.
ReplaceDocument == /\ Act /\ statusShown' = "none" /\ UNCHANGED <<threadVars, panelState>>

UserStep ==
  \/ \E c \in Clips : ClickLoad(c)
  \/ ClickPlay \/ ClickPause \/ ClickStep
  \/ \E i \in Indices : MoveSlider(i)
  \/ \E rate \in Rates : ChangeFps(rate)
  \/ OpenTab \/ LeaveTab \/ SendChain \/ ReplaceDocument

ThreadStep ==
  /\ Len(positions) < MaxInFlight /\ Len(events) < MaxInFlight
  /\ ApplyCommand \/ RenderTick
  /\ UNCHANGED panelVars

\* source-position reaches the panel, which takes it over, or nobody.
DeliverPosition ==
  /\ positions # << >> /\ positions' = Tail(positions)
  /\ IF tab = "listening" THEN shown' = Head(positions) /\ mirrored' = TRUE
     ELSE mirrored' = FALSE /\ UNCHANGED shown
  /\ UNCHANGED <<queue, playback, picture, pane, lastPosition, lastStatus, events,
                 tab, playShown, statusShown, sends>>

\* engine-event reaches the badge; an error raises a toast and leaves it alone.
DeliverEvent ==
  /\ events # << >>
  /\ statusShown' = IF Head(events) \in Statuses THEN Head(events) ELSE statusShown
  /\ events' = Tail(events)
  /\ UNCHANGED <<queue, playback, picture, pane, lastPosition, lastStatus, positions,
                 panelState, sends>>

Next == UserStep \/ Listen \/ ThreadStep \/ DeliverPosition \/ DeliverEvent

\* The render loop and the forwarders run for as long as the stream does.
Fairness == WF_vars(ThreadStep) /\ WF_vars(DeliverPosition) /\ WF_vars(DeliverEvent)

Spec == Init /\ [][Next]_vars /\ Fairness

------------------------------------------------------------------------------
Commands == [op : {"play", "pause", "step", "setChain", "setEmptyChain"}, arg : {0}]
              \cup [op : {"load"}, arg : Clips]
              \cup [op : {"seek"}, arg : Nat]
              \cup [op : {"setFps"}, arg : Rates]

\* Types, and no tick is ever owed: the window is shorter than the period.
TypeOK ==
  /\ queue \in Seq(Commands)
  /\ clip \in Clips \cup {NoClip} /\ at \in Nat /\ (HavePump => at < Length)
  /\ primed \in BOOLEAN /\ playing \in BOOLEAN /\ haveShader \in BOOLEAN
  /\ fps \in Rates /\ accum \in 0..(AdvancePeriod(fps) - 1)
  /\ cuts \in Nat /\ waited \in 0..AdvancePeriod(fps)
  /\ {source, feedback, pane} \subseteq Images \cup {Waiting}
  /\ past \in Seq(Images) /\ Len(past) <= Depth
  /\ lastPosition \in Nat \cup {NotReported} /\ lastStatus \in Statuses \cup {"none"}
  /\ positions \in Seq(Positions) /\ events \in Seq(Statuses \cup {"readback"})
  /\ tab \in {"closed", "open", "listening"} /\ mirrored \in BOOLEAN
  /\ shown \in Positions /\ playShown \in BOOLEAN
  /\ statusShown \in Statuses \cup {"none"} /\ sends \in 0..MaxSends

(* However loads, steps, seeks and playback interleave, the ring holds the  *)
(* frames of the very clip on screen that came right before, in order: a    *)
(* clip never shows through in the history of another.                      *)
HistoryIsContiguous ==
  \A k \in DOMAIN past :
    LET length == LengthOf[source[1]] IN
    /\ past[k][1] = source[1] /\ past[k][3] = source[3]
    /\ past[k][2] = (source[2] + k * (length - 1)) % length

(* A seek is a discontinuity: nothing drawn or shown before it can be       *)
(* sampled again by a pass, neither through the ring nor through feedback.  *)
SeeksCutThePast ==
  /\ \A k \in DOMAIN past : past[k][3] = cuts
  /\ feedback # Waiting => feedback[3] = cuts

(* Every frame that reaches the pane shows the current frame of the loaded  *)
(* clip, never one of a clip that was replaced in the same batch.           *)
FramesShowThePump ==
  [][pane' # pane /\ pane' # Waiting => pane' = <<clip', at', cuts'>> /\ primed']_vars

(* The pump moves on its own only while playing, and only after a full      *)
(* period of ticks since it was started, slowed, replaced or last moved: a  *)
(* play is never followed by an immediate jump.                             *)
AdvancesAreAPeriodApart ==
  [][queue = << >> /\ at' # at => playing /\ waited + 1 >= AdvancePeriod(fps)]_vars

(* Once every command is applied and every report delivered, the slider     *)
(* shows the frame the renderer samples, although a seek moves it at once,  *)
(* reports of equal indices are suppressed and a load changes the length:   *)
(* the last report the open panel received, or the seek since, is the truth.*)
SliderShowsTheFrame ==
  queue = << >> /\ positions = << >> /\ primed /\ mirrored
    => /\ shown = [index |-> at, len |-> Length]
       /\ source = Frame(at)

(* "we listen and mirror it into the scrubber + frame counter so the UI     *)
(* stays in sync with the engine": the same whenever the panel is open.     *)
OpenPanelShowsTheFrame ==
  queue = << >> /\ positions = << >> /\ primed /\ tab = "listening"
    => shown = [index |-> at, len |-> Length]

(* Once the events are delivered the badge says live exactly while the pane *)
(* shows a rendered frame.                                                  *)
BadgeTellsTheTruth ==
  events = << >> /\ statusShown # "none" => (statusShown = "live" <=> pane # Waiting)

(* A clip that plays moves again and again until it is paused or replaced.  *)
PlayingMoves ==
  <>[](playing /\ HavePump /\ Length > 1) => []<><<at' # at>>_vars

(* The past a pass can sample is of the clip and of the stretch on screen.  *)
PastFollowsTheSource == TypeOK /\ HistoryIsContiguous /\ SeeksCutThePast

(* Panel and badge say what the engine does, once their events have come.   *)
PanelFollowsTheEngine == SliderShowsTheFrame /\ BadgeTellsTheTruth

(* What is drawn is the pump's frame, and the pump keeps its pace.          *)
PlaybackIsPaced == FramesShowThePump /\ AdvancesAreAPeriodApart

(* The panel offers Pause exactly while the pump plays, once the commands   *)
(* are applied.                                                             *)
ButtonMatchesThePump == queue = << >> /\ Open => playShown = playing

(* "null before the first status event": once the engine has reported a     *)
(* status and the events are delivered, the badge shows that status.        *)
BadgeFollowsTheEngine == events = << >> /\ lastStatus # "none" => statusShown = lastStatus

=============================================================================
