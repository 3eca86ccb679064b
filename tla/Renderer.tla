------------------------------ MODULE Renderer ------------------------------
(***************************************************************************)
(* The multi-pass renderer (renderer.rs): the source image and its history *)
(* ring, the chain's render targets with their feedback twins, the viewport*)
(* the targets are sized by, and the textures each pass samples when a     *)
(* frame is drawn.                                                         *)
(*                                                                         *)
(* Pixels are abstracted to their origin: the content of a render target   *)
(* is <<pass, frame counter>> of the draw that filled it, or Black.  A     *)
(* chain is given with its textures already classified by name, each as    *)
(* <<class, index or name>>; pass indices are 1-based here, 0-based in     *)
(* the code.  Formats are left out; levels and samplers are in Sampling.   *)
(***************************************************************************)
EXTENDS Viewport, Sequences

CONSTANTS Frames,    \* the source images
          SizeOf,    \* their sizes
          Chains,    \* the pass sequences set_chain may be given, << >> included
          PaneSizes, \* the sizes the preview pane may take
          Configs,   \* the simulated viewports, NoViewport included
          LutSets,   \* the sets of lookup textures a preset may bring
          Overrides, \* the parameter overrides a preset may bring, name -> value
          ParamNames, Values, \* what the sliders may send
          LutSize,   \* the size of every lookup texture
          Ticks,     \* values of the frame counter: 2^32 in the code
          Black,     \* the placeholder and the cleared texture
          NoFrame    \* no source loaded

TextureClasses == ({"Source", "Original"} \X {0})
  \cup ({"PassOutput", "PassFeedback", "OriginalHistory"} \X (Nat \ {0}))
  \cup ({"Alias", "AliasFeedback", "Lut"} \X STRING)

PassShape == [scale  : [x : [type : STRING, factor : Nat \X Nat],
                        y : [type : STRING, factor : Nat \X Nat]],
              feedback : BOOLEAN,
              alias  : STRING,
              slots  : SUBSET TextureClasses,
              params : UNION {[names -> Values] : names \in SUBSET ParamNames}]

ASSUME FramesAssumption == Black \notin Frames /\ NoFrame \notin Frames
ASSUME TicksAssumption  == Ticks \in Nat \ {0}
ASSUME ChainsAssumption == Chains \subseteq Seq(PassShape)

VARIABLES source,     \* the current Original
          history,    \* the ring of past source frames, newest first
          depth,      \* history_depth: the deepest OriginalHistoryK of the chain
          passes,     \* the passes' resources
          aliases,    \* alias name -> pass index
          pane,       \* size of the offscreen target
          simulated,  \* simulated_viewport
          luts,       \* names of the registered lookup textures
          params,     \* current parameter values by name
          frameCount, \* frame_count, a wrapping counter
          drawn       \* what the passes of this chain sampled in the last frame

vars == <<source, history, depth, passes, aliases, pane, simulated, luts, params,
          frameCount, drawn>>

-----------------------------------------------------------------------------
(* Render targets.                                                          *)

NoSize  == <<0, 0>>
NoScale == [x |-> Axis("none", 0, 1), y |-> Axis("none", 0, 1)]
Target(size, content) == [live |-> TRUE, size |-> size, content |-> content]
NoTarget == [live |-> FALSE, size |-> NoSize, content |-> Black]

Fits(target, size) == target.live /\ target.size = size

SourceSize == IF source = NoFrame THEN pane ELSE SizeOf[source]
CurrentViewport == ViewportSize(simulated, SourceSize, pane)
Simulating == simulated # NoViewport

\* owns_fbo_now: the pass draws into a target of its own this frame.
OwnsNow(i) == passes[i].owns \/ (i = Len(passes) /\ Simulating)

\* The size of one pass's output, given the size of its input.
PassSize(i, input) ==
  IF ~OwnsNow(i) THEN pane
  ELSE IF i = Len(passes) /\ Simulating /\ passes[i].scale = NoScale
  THEN CurrentViewport
  ELSE ScaleResolve(IF passes[i].scale = NoScale THEN Source1x ELSE passes[i].scale,
                    input, CurrentViewport)

\* The running input size of rebuild_chain: a source scale is relative to the
\* previous pass.
OutputSizes ==
  LET size[i \in 0..Len(passes)] == IF i = 0 THEN SourceSize ELSE PassSize(i, size[i - 1])
  IN  size

\* A feedback pass: clear both halves of a fresh pair, else swap the pair.
Paired(res, size, fresh, stale) ==
  IF stale THEN [res EXCEPT !.fbo = fresh, !.twin = fresh]
  ELSE [res EXCEPT !.fbo = res.twin, !.twin = res.fbo]

\* MUTANT: a dropped twin is reallocated but the pair is not cleared.
Refreshed_KeepsPicture(i, size) ==
  LET res   == passes[i]
      fresh == Target(size, Black)
      fbo   == IF Fits(res.fbo, size) THEN res.fbo ELSE fresh
  IN  IF ~OwnsNow(i) THEN [res EXCEPT !.fbo = NoTarget]
      ELSE IF ~res.target THEN [res EXCEPT !.fbo = fbo]
      ELSE Paired([res EXCEPT !.twin = IF Fits(@, size) THEN @ ELSE fresh], size, fresh,
                  ~Fits(res.fbo, size))

\* MUTANT: the target a simulated viewport left behind is kept.
Refreshed_KeepsFinal(i, size) ==
  LET res   == passes[i]
      fresh == Target(size, Black)
  IN  IF ~OwnsNow(i) THEN res
      ELSE IF ~res.target THEN [res EXCEPT !.fbo = IF Fits(@, size) THEN @ ELSE fresh]
      ELSE Paired(res, size, fresh, ~Fits(res.fbo, size) \/ ~Fits(res.twin, size))

\* One pass of rebuild_chain: a target of another size is reallocated, one the
\* pass does not own this frame is dropped.
Refreshed(i, size) ==
  LET res   == passes[i]
      fresh == Target(size, Black)
  IN  IF ~OwnsNow(i) THEN [res EXCEPT !.fbo = NoTarget]
      ELSE IF ~res.target THEN [res EXCEPT !.fbo = IF Fits(@, size) THEN @ ELSE fresh]
      ELSE Paired(res, size, fresh, ~Fits(res.fbo, size) \/ ~Fits(res.twin, size))

\* rebuild_chain's first half.
Rebuilt == [i \in DOMAIN passes |-> Refreshed(i, OutputSizes[i])]

-----------------------------------------------------------------------------
(* Textures: what a class resolves to while pass i is drawn, p being the    *)
(* rebuilt passes.  Passes are drawn in order, so during pass i the target  *)
(* of an earlier pass holds this frame's output, any other what it held.    *)

Texture(from, n, size, content) ==
  [from |-> from, index |-> n, size |-> size, content |-> content]

Placeholder   == Texture("black", 0, <<1, 1>>, Black)
SourceTexture == Texture("source", 0, SourceSize, source)

FboTexture(p, i, n) ==
  Texture("fbo", n, p[n].fbo.size, IF n < i THEN <<n, frameCount>> ELSE p[n].fbo.content)

\* MUTANT: a pass may read the output of any pass.
PassOutput_NotCausal(p, i, n, otherwise) ==
  IF n \in DOMAIN p /\ p[n].fbo.live THEN FboTexture(p, i, n) ELSE otherwise

\* The output of pass n, where the consumer i is causal, else the fallback.
PassOutput(p, i, n, otherwise) ==
  IF n \in DOMAIN p /\ n < i /\ p[n].fbo.live THEN FboTexture(p, i, n) ELSE otherwise

\* feedback_resource: the previous frame's output of any pass.
Feedback(p, n) ==
  IF n \in DOMAIN p /\ p[n].twin.live
  THEN Texture("twin", n, p[n].twin.size, p[n].twin.content)
  ELSE Placeholder

\* History1 is the ring's front; a slot not yet filled is black.
History(k) ==
  IF k <= Len(history)
  THEN Texture("history", k, SizeOf[history[k]], history[k])
  ELSE Placeholder

AliasIndex(name) == IF name \in DOMAIN aliases THEN aliases[name] ELSE 0

\* resolve_texture.
Resolve(p, i, class) ==
  CASE class[1] = "Source" ->
         IF i = 1 THEN SourceTexture ELSE PassOutput(p, i, i - 1, SourceTexture)
    [] class[1] = "Original"        -> SourceTexture
    [] class[1] = "PassOutput"      -> PassOutput(p, i, class[2], Placeholder)
    [] class[1] = "Alias"           -> PassOutput(p, i, AliasIndex(class[2]), Placeholder)
    [] class[1] = "PassFeedback"    -> Feedback(p, class[2])
    [] class[1] = "AliasFeedback"   -> Feedback(p, AliasIndex(class[2]))
    [] class[1] = "OriginalHistory" -> History(class[2])
    [] class[1] = "Lut" -> IF class[2] \in luts THEN Texture("lut", 0, LutSize, class[2])
                                                ELSE Placeholder

\* The size write_uniforms reports for a pass's output.
OutputSize(p, n) == IF p[n].fbo.live THEN p[n].fbo.size ELSE CurrentViewport

CausalSize(p, i, n) == IF n \in DOMAIN p /\ n < i THEN OutputSize(p, n) ELSE NoSize
AnySize(p, n)       == IF n \in DOMAIN p THEN OutputSize(p, n) ELSE NoSize

\* The <texture>Size uniform write_uniforms packs; NoSize where it packs none.
UniformSize(p, i, class) ==
  CASE class[1] = "Source"          -> IF i = 1 THEN SourceSize ELSE OutputSize(p, i - 1)
    [] class[1] = "Original"        -> SourceSize
    [] class[1] = "PassOutput"      -> CausalSize(p, i, class[2])
    [] class[1] = "Alias"           -> CausalSize(p, i, AliasIndex(class[2]))
    [] class[1] = "PassFeedback"    -> AnySize(p, class[2])
    [] class[1] = "AliasFeedback"   -> AnySize(p, AliasIndex(class[2]))
    [] class[1] = "OriginalHistory" ->
         IF class[2] > depth THEN NoSize
         ELSE IF class[2] <= Len(history) THEN SizeOf[history[class[2]]] ELSE SourceSize
    [] class[1] = "Lut"             -> IF class[2] \in luts THEN LutSize ELSE NoSize

\* What pass i sees and where it draws.
PassRecord(p, i) ==
  [into   |-> p[i].fbo,
   inputs |-> [class \in p[i].slots |->
                 [texture |-> Resolve(p, i, class), uniform |-> UniformSize(p, i, class)]]]

-----------------------------------------------------------------------------
(* Building a chain.                                                        *)

AliasTable(chain) ==
  LET named  == {i \in DOMAIN chain : chain[i].alias # ""}
      first  == {i \in named : \A j \in named : chain[j].alias = chain[i].alias => i <= j}
  IN  [name \in {chain[i].alias : i \in first} |->
         CHOOSE i \in first : chain[i].alias = name]

\* MUTANT: feedback read through an alias does not make its pass a target.
FeedbackTargets_NoAlias(chain, table) ==
  {n \in DOMAIN chain :
     \/ chain[n].feedback
     \/ \E i \in DOMAIN chain : <<"PassFeedback", n>> \in chain[i].slots}

\* The passes something reads the previous output of.
FeedbackTargets(chain, table) ==
  {n \in DOMAIN chain :
     \/ chain[n].feedback
     \/ \E i \in DOMAIN chain :
          \/ <<"PassFeedback", n>> \in chain[i].slots
          \/ \E name \in DOMAIN table :
               table[name] = n /\ <<"AliasFeedback", name>> \in chain[i].slots}

BuildPass(chain, targets, i) ==
  LET final  == i = Len(chain)
      scaled == chain[i].scale # NoScale
      forced == i \in targets /\ final /\ ~scaled
  IN  [scale     |-> IF forced THEN Viewport1x ELSE chain[i].scale,
       owns      |-> ~final \/ scaled \/ forced,
       finalOwns |-> (final /\ scaled) \/ forced,
       target    |-> i \in targets,
       slots     |-> chain[i].slots,
       fbo       |-> NoTarget,
       twin      |-> NoTarget]

HistoryReads(chain) ==
  {0} \cup {class[2] : class \in {c \in UNION {chain[i].slots : i \in DOMAIN chain} :
                                     c[1] = "OriginalHistory"}}

\* ParamStore::collect: the first declaration of a name gives the default.
CollectParams(chain) ==
  [name \in UNION {DOMAIN chain[i].params : i \in DOMAIN chain} |->
     LET i == CHOOSE i \in DOMAIN chain :
                /\ name \in DOMAIN chain[i].params
                /\ \A j \in DOMAIN chain : name \in DOMAIN chain[j].params => i <= j
     IN  chain[i].params[name]]

-----------------------------------------------------------------------------
Init == /\ source = NoFrame /\ history = << >> /\ depth = 0
        /\ passes = << >> /\ aliases = << >>
        /\ pane \in PaneSizes /\ simulated = NoViewport
        /\ luts = {} /\ params = << >>
        /\ frameCount = 0 /\ drawn = << >>

\* set_source: a load or a seek has no past frames.
SetSource(f) ==
  /\ source' = f /\ history' = << >>
  /\ UNCHANGED <<depth, passes, aliases, pane, simulated, luts, params, frameCount, drawn>>

\* push_history: the current Original enters the ring, the oldest leaves it.
PushedHistory ==
  IF depth = 0 \/ source = NoFrame THEN history
  ELSE SubSeq(<<source>> \o history, 1, Lesser(depth, Len(history) + 1))

\* advance_source: the next frame of the same source.
AdvanceSource(f) ==
  /\ history' = PushedHistory /\ source' = f
  /\ UNCHANGED <<depth, passes, aliases, pane, simulated, luts, params, frameCount, drawn>>

\* reset_feedback: every twin is dropped, to be cleared by the next frame.
ResetFeedback ==
  /\ passes' = [i \in DOMAIN passes |->
                  IF passes[i].target THEN [passes[i] EXCEPT !.twin = NoTarget] ELSE passes[i]]
  /\ UNCHANGED <<source, history, depth, aliases, pane, simulated, luts, params,
                 frameCount, drawn>>

\* set_chain: an empty chain is an error that changes nothing.
SetChain(chain) ==
  /\ chain # << >>
  /\ LET table   == AliasTable(chain)
         targets == FeedbackTargets(chain, table)
     IN  /\ aliases' = table
         /\ passes' = [i \in DOMAIN chain |-> BuildPass(chain, targets, i)]
  /\ depth' \in HistoryReads(chain)
  /\ \A k \in HistoryReads(chain) : k <= depth'
  /\ history' = << >>
  /\ params' = CollectParams(chain)
  /\ drawn' = << >>
  /\ UNCHANGED <<source, pane, simulated, luts, frameCount>>

SetViewport(size) ==
  /\ pane' = AtLeastOne(size)
  /\ UNCHANGED <<source, history, depth, passes, aliases, simulated, luts, params,
                 frameCount, drawn>>

SetSimulatedViewport(cfg) ==
  /\ simulated' = cfg
  /\ UNCHANGED <<source, history, depth, passes, aliases, pane, luts, params,
                 frameCount, drawn>>

SetLuts(names) ==
  /\ luts' = names
  /\ UNCHANGED <<source, history, depth, passes, aliases, pane, simulated, params,
                 frameCount, drawn>>

\* set_parameter: an unknown name changes nothing.
SetParameter(name, value) ==
  /\ name \in DOMAIN params
  /\ params' = [params EXCEPT ![name] = value]
  /\ UNCHANGED <<source, history, depth, passes, aliases, pane, simulated, luts,
                 frameCount, drawn>>

\* ParamStore::apply_overrides.
ApplyOverrides(overrides) ==
  /\ params' = [name \in DOMAIN params |->
                  IF name \in DOMAIN overrides THEN overrides[name] ELSE params[name]]
  /\ UNCHANGED <<source, history, depth, passes, aliases, pane, simulated, luts,
                 frameCount, drawn>>

\* A pass with a target fills it; one without draws into the pane.
Draw(i, res) ==
  IF res.fbo.live THEN [res EXCEPT !.fbo = Target(res.fbo.size, <<i, frameCount>>)] ELSE res

\* render, where it is ready: every pass is drawn in order, into its target or
\* into the pane.
Render ==
  /\ source # NoFrame /\ passes # << >>
  /\ LET p == Rebuilt
     IN  /\ passes' = [i \in DOMAIN p |-> Draw(i, p[i])]
         /\ drawn' = [i \in DOMAIN p |-> PassRecord(p, i)]
  /\ frameCount' = (frameCount + 1) % Ticks
  /\ UNCHANGED <<source, history, depth, aliases, pane, simulated, luts, params>>

Next == \/ \E f \in Frames : SetSource(f)
        \/ \E f \in Frames : AdvanceSource(f)
        \/ ResetFeedback
        \/ \E chain \in Chains : SetChain(chain)
        \/ \E size \in PaneSizes : SetViewport(size)
        \/ \E cfg \in Configs : SetSimulatedViewport(cfg)
        \/ \E names \in LutSets : SetLuts(names)
        \/ \E name \in ParamNames, value \in Values : SetParameter(name, value)
        \/ \E overrides \in Overrides : ApplyOverrides(overrides)
        \/ Render

Spec == Init /\ [][Next]_vars

-----------------------------------------------------------------------------
IsTarget(t) ==
  t = [live |-> t.live, size |-> t.size, content |-> t.content] /\ t.live \in BOOLEAN
IsResource(r) ==
  /\ r = [scale |-> r.scale, owns |-> r.owns, finalOwns |-> r.finalOwns,
          target |-> r.target, slots |-> r.slots, fbo |-> r.fbo, twin |-> r.twin]
  /\ IsTarget(r.fbo) /\ IsTarget(r.twin)
  /\ r.owns \in BOOLEAN /\ r.finalOwns \in BOOLEAN /\ r.target \in BOOLEAN

(* The shape of the state: the ring never holds more than the chain looks   *)
(* back, and a feedback pair, once allocated, has one geometry.             *)
TypeOK ==
  /\ source \in Frames \cup {NoFrame}
  /\ depth \in Nat
  /\ history \in Seq(Frames) /\ Len(history) <= depth
  /\ DOMAIN passes = 1 .. Len(passes)
  /\ \A i \in DOMAIN passes :
       /\ IsResource(passes[i]) /\ passes[i].slots \subseteq TextureClasses
       /\ passes[i].target => passes[i].owns
       /\ (passes[i].target /\ passes[i].twin.live) =>
            Fits(passes[i].fbo, passes[i].twin.size)
  /\ \A name \in DOMAIN aliases : aliases[name] \in DOMAIN passes
  /\ frameCount \in 0 .. Ticks - 1

Inputs(i)   == DOMAIN drawn[i].inputs
Read(i, c)  == drawn[i].inputs[c].texture

(* Whatever chain is loaded, however its aliases, feedback and viewport are *)
(* combined, no pass samples the texture it is drawing into, nor one that   *)
(* is still to be drawn this frame: the binding would be invalid, or the    *)
(* image would depend on the previous frame by accident (resolve_texture:   *)
(* "causal: only earlier passes are available this frame").                 *)
NoPassSamplesItsTarget ==
  \A i \in DOMAIN drawn : \A c \in Inputs(i) :
    Read(i, c).from = "fbo" => /\ Read(i, c).index < i
                               /\ Read(i, c).content[1] = Read(i, c).index

(* The size uniform a shader is given describes the texture it samples: the *)
(* targets are sized in rebuild_chain, the uniforms computed by a walk of   *)
(* their own in write_uniforms, and the two must agree for every texture    *)
(* that is not the placeholder, across resizes, simulated viewports and     *)
(* source changes ("kept consistent").                                      *)
SizeUniformsDescribeTextures ==
  \A i \in DOMAIN drawn : \A c \in Inputs(i) :
    Read(i, c) # Placeholder => drawn[i].inputs[c].uniform = Read(i, c).size

(* Only the last pass may draw straight into the pane, and it owns a target *)
(* exactly when its scale or its feedback forces one or a simulated         *)
(* viewport has to be composited: the assertion of render, and with it "a   *)
(* previously-active simulated viewport" leaves no target behind.           *)
FinalTargetIsAccountedFor ==
  [][frameCount' # frameCount =>
       \A i \in DOMAIN passes' :
         ~passes'[i].fbo.live
           <=> (i = Len(passes') /\ ~passes[i].finalOwns /\ ~Simulating)]_vars

=============================================================================
