------------------------------ MODULE Sampling ------------------------------
(***************************************************************************)
(* What a pass sees through its samplers (renderer.rs): the mip levels of  *)
(* the source, the render targets and the lookup textures, and the sampler *)
(* each texture is read with.  A texture has a number of levels and, above *)
(* its base level, the levels of one picture: the one generate_mips last   *)
(* reduced, Black in a texture just allocated.  Texture formats are left   *)
(* out: the number of levels changes only with a target's size, as a chain *)
(* never changes a pass's format or settings.                              *)
(***************************************************************************)
EXTENDS RendererTemporal, FiniteSets

CONSTANTS SettingsOf,    \* chain -> the settings of its passes
          LutSettings,   \* lookup texture -> its settings
          ClampToBorderSupported  \* clamp_to_border_supported

WrapModes == {"clamp_to_border", "clamp_to_edge", "repeat", "mirrored_repeat"}
Settings  == [filter_linear : BOOLEAN, wrap_mode : WrapModes, mipmap_input : BOOLEAN]

ASSUME SettingsAssumption == /\ \A chain \in Chains : /\ SettingsOf[chain] \in Seq(Settings)
                                                       /\ Len(SettingsOf[chain]) = Len(chain)
                             /\ ClampToBorderSupported \in BOOLEAN

VARIABLES settings,      \* of the passes: filter_linear, wrap_mode, mipmap_input
          levels,        \* of the passes: the levels of fbo and feedback_fbo
          sourceLevels,  \* of the source texture
          sampled        \* levels and sampler of what the passes sampled last

sampledVars == <<vars, settings, levels, sourceLevels, sampled>>

-----------------------------------------------------------------------------
(* Levels.                                                                  *)

Levels(n, picture) == [count |-> n, of |-> picture]

\* mip_level_count_for; no texture is larger than 2^14.
MipLevelCountFor(size) ==
  Cardinality({k \in 0..14 : 2 ^ k <= Greater(1, Greater(size[1], size[2]))})

\* Fbo::allocate and build_source: only the base level is ever written.
Allocated(n)     == Levels(n, Black)
BuildSource(n)   == Levels(n, Black)
HistoryLevels    == Levels(1, Black)

\* generate_mips: every coarse level from the base, a single level left alone.
Generated(l, picture) == IF l.count <= 1 THEN l ELSE [l EXCEPT !.of = picture]

LutLevels(name) ==
  IF LutSettings[name].mipmap_input
  THEN Generated(BuildSource(MipLevelCountFor(LutSize)), name)
  ELSE BuildSource(1)

Pass0WantsSourceMips == settings[1].mipmap_input

\* ensure_source_mips: the texture is rebuilt when the first pass's wish changed.
EnsureSourceMips ==
  LET want == IF Pass0WantsSourceMips THEN MipLevelCountFor(SizeOf[source]) ELSE 1
  IN  IF want # sourceLevels.count THEN BuildSource(want) ELSE sourceLevels

\* The source as the passes of this frame see it.
SourceLevels ==
  IF Pass0WantsSourceMips THEN Generated(EnsureSourceMips, source) ELSE EnsureSourceMips

\* The output of a pass is reduced when the next pass reads its input so.
ProducesMips(i) == i < Len(passes) /\ settings[i + 1].mipmap_input

\* clear_fbo: to black at the base level, the others as they are.
Cleared(l) == l

\* rebuild_chain: as Refreshed, for the levels.
RefreshedLevels(i, size) ==
  LET res   == passes[i]
      fresh == Allocated(IF ProducesMips(i) THEN MipLevelCountFor(size) ELSE 1)
      fbo   == IF Fits(res.fbo, size) THEN levels[i].fbo ELSE fresh
      pairFits == Fits(res.fbo, size) /\ Fits(res.twin, size)
  IN  IF ~OwnsNow(i) THEN [fbo |-> Allocated(1), twin |-> Allocated(1)]
      ELSE IF ~res.target THEN [levels[i] EXCEPT !.fbo = fbo]
      ELSE IF pairFits THEN [fbo |-> levels[i].twin, twin |-> fbo]
      ELSE [fbo |-> Cleared(fresh), twin |-> Cleared(fbo)]

\* A pass that produces mips reduces its output as soon as it has drawn it.
DrawnLevels(i, l) ==
  IF ProducesMips(i) THEN [l EXCEPT !.fbo = Generated(@, <<i, frameCount>>)] ELSE l

-----------------------------------------------------------------------------
(* Samplers.                                                                *)

AddressMode(wrap) ==
  IF wrap = "clamp_to_border" /\ ~ClampToBorderSupported THEN "clamp_to_edge" ELSE wrap

Filter(linear) == IF linear THEN "linear" ELSE "nearest"

\* make_sampler: mips are reached, with the filter's own mode, only when asked for.
MakeSampler(s) ==
  [filter  |-> Filter(s.filter_linear),
   address |-> AddressMode(s.wrap_mode),
   mipFilter |-> Filter(s.filter_linear /\ s.mipmap_input),
   coarse  |-> s.mipmap_input]

\* MUTANT: a texture is read with the settings of the pass that drew it.
SamplerAfter_Producer(n) == MakeSampler(settings[n])

\* What pass n drew is read with the settings of the pass after it.
SamplerAfter(n)    == MakeSampler(settings[Lesser(n + 1, Len(passes))])
SamplerAfterSource == MakeSampler(settings[1])

SamplerOf(t) ==
  CASE t.from \in {"fbo", "twin"}               -> SamplerAfter(t.index)
    [] t.from = "lut"                           -> MakeSampler(LutSettings[t.content])
    [] t.from \in {"source", "history", "black"} -> SamplerAfterSource

\* The levels of a texture, l being those of the rebuilt passes.
LevelsOf(t, l) ==
  CASE t.from = "source"  -> SourceLevels
    [] t.from = "history" -> HistoryLevels
    [] t.from = "black"   -> Allocated(1)
    [] t.from = "lut"     -> LutLevels(t.content)
    [] t.from = "fbo"     -> DrawnLevels(t.index, l[t.index]).fbo
    [] t.from = "twin"    -> l[t.index].twin

-----------------------------------------------------------------------------
Keeps == UNCHANGED <<settings, levels, sourceLevels, sampled>>

SampledInit == /\ Init
               /\ settings = << >> /\ levels = << >>
               /\ sourceLevels = Allocated(1) /\ sampled = << >>

\* set_current_source: a new texture of one level, whatever the passes ask.
SampledSource(f) == /\ SetSource(f) \/ AdvanceSource(f)
                    /\ sourceLevels' = BuildSource(1)
                    /\ UNCHANGED <<settings, levels, sampled>>

SampledChain(chain) ==
  /\ SetChain(chain)
  /\ settings' = SettingsOf[chain]
  /\ levels' = [i \in DOMAIN chain |-> [fbo |-> Allocated(1), twin |-> Allocated(1)]]
  /\ sampled' = << >>
  /\ UNCHANGED sourceLevels

SampledRender ==
  /\ Render
  /\ sourceLevels' = SourceLevels
  /\ LET l == [i \in DOMAIN passes |-> RefreshedLevels(i, OutputSizes[i])]
         t(i, class) == drawn'[i].inputs[class].texture
     IN  /\ levels' = [i \in DOMAIN passes |-> DrawnLevels(i, l[i])]
         /\ sampled' = [i \in DOMAIN passes |->
                          [class \in passes[i].slots |->
                             [levels  |-> LevelsOf(t(i, class), l),
                              sampler |-> SamplerOf(t(i, class))]]]
  /\ UNCHANGED settings

SampledNext ==
  \/ \E f \in Frames : SampledSource(f)
  \/ ResetFeedback /\ Keeps
  \/ \E chain \in Chains : SampledChain(chain)
  \/ \E size \in PaneSizes : SetViewport(size) /\ Keeps
  \/ \E cfg \in Configs : SetSimulatedViewport(cfg) /\ Keeps
  \/ \E names \in LutSets : SetLuts(names) /\ Keeps
  \/ \E name \in ParamNames, value \in Values : SetParameter(name, value) /\ Keeps
  \/ \E overrides \in Overrides : ApplyOverrides(overrides) /\ Keeps
  \/ SampledRender

SampledSpec == SampledInit /\ [][SampledNext]_sampledVars

-----------------------------------------------------------------------------
Coarse(i, c) == sampled[i][c].sampler.coarse /\ sampled[i][c].levels.count > 1

\* A texture shows one picture at all levels; what was cleared is black at its
\* base level only.
LevelsShowOnePicture ==
  \A i \in DOMAIN sampled : \A c \in Inputs(i) :
    (Coarse(i, c) /\ Read(i, c).content # Black) =>
      sampled[i][c].levels.of = Read(i, c).content

\* A pass reads its input with its own settings, and with every level there is
\* when it asks for them.
SourceIsSampledAsAsked ==
  \A i \in DOMAIN sampled : \A c \in Inputs(i) :
    c[1] = "Source" =>
      /\ sampled[i][c].sampler = MakeSampler(settings[i])
      /\ settings[i].mipmap_input =>
           sampled[i][c].levels.count = MipLevelCountFor(Read(i, c).size)

(* What a pass is told of its textures is so: the size in the uniform is    *)
(* that of the texture, the coarse levels it may reach are of the picture   *)
(* in the base level, and its input is sampled with its own settings, at    *)
(* all levels when it asks for them - although another pass's sampler, the  *)
(* one after the producer, is bound, and the levels are allocated by the    *)
(* producer and by loads that know nothing of the chain.                    *)
TexturesAreAsDescribed ==
  TypeOK /\ SizeUniformsDescribeTextures /\ LevelsShowOnePicture /\ SourceIsSampledAsAsked

\* "a texture is sampled with the sampler of the pass that produced it"
\* (PassResources.sampler), where the texture lookup takes the pass after it.
SampledAsItsProducerAsks ==
  \A i \in DOMAIN sampled : \A c \in Inputs(i) :
    Read(i, c).from \in {"fbo", "twin"} =>
      sampled[i][c].sampler = MakeSampler(settings[Read(i, c).index])

\* Feedback without a past is black at every level (reset_feedback: "cold black";
\* clear_fbo grants the exception of "frame 0").
FeedbackIsColdAtEveryLevel ==
  \A i \in DOMAIN sampled : \A c \in Inputs(i) :
    (Coarse(i, c) /\ Read(i, c).from = "twin" /\ Read(i, c).content = Black) =>
      sampled[i][c].levels.of = Black

=============================================================================
