--------------------------- MODULE RendererProofs ---------------------------
(***************************************************************************)
(* Machine-checked proofs about Renderer, RendererTemporal and Sampling,   *)
(* for every set of sources, chains, panes, simulated viewports and pass   *)
(* settings.                                                               *)
(***************************************************************************)
EXTENDS Sampling, SequenceTheorems, FiniteSetTheorems, TLAPS

\* The length of a sequence is its last index.
LEMMA LengthIsDomain ==
  ASSUME NEW n \in Nat, NEW S, NEW s \in [1..n -> S]
  PROVE  Len(s) = n /\ s \in Seq(S)
  OBVIOUS

\* Pushing the current source frame keeps a ring of frames within its depth.
LEMMA PushKeepsTheRing ==
  ASSUME TypeOK
  PROVE  PushedHistory \in Seq(Frames) /\ Len(PushedHistory) <= depth
<1> DEFINE longer == <<source>> \o history
           kept   == Lesser(depth, Len(history) + 1)
<1>1. CASE depth = 0 \/ source = NoFrame
  BY <1>1 DEF TypeOK, PushedHistory
<1>2. CASE ~(depth = 0 \/ source = NoFrame)
  <2>1. <<source>> \in Seq(Frames) /\ history \in Seq(Frames)
    BY <1>2 DEF TypeOK
  <2>2. /\ longer \in Seq(Frames) /\ Len(longer) = Len(history) + 1
    BY <2>1, ConcatProperties
  <2>3. kept \in Nat /\ kept <= depth /\ kept <= Len(longer)
    BY <2>1, <2>2 DEF TypeOK, Lesser
  <2>4. \A i \in 1..kept : longer[i] \in Frames
    BY <2>2, <2>3, ElementOfSeq
  <2>5. SubSeq(longer, 1, kept) \in Seq(Frames) /\ Len(SubSeq(longer, 1, kept)) = kept
    BY <2>3, <2>4, SubSeqProperties
  <2> QED
    BY <1>2, <2>3, <2>5 DEF PushedHistory
<1> QED
  BY <1>1, <1>2

\* Replacing a target of a pass leaves its other fields alone.
LEMMA ReplaceTwin ==
  ASSUME NEW r, NEW t, IsResource(r), IsTarget(t)
  PROVE  LET s == [r EXCEPT !.twin = t]
         IN  /\ IsResource(s) /\ s.twin = t /\ s.fbo = r.fbo
             /\ s.target = r.target /\ s.owns = r.owns /\ s.finalOwns = r.finalOwns
             /\ s.slots = r.slots /\ s.scale = r.scale
  BY DEF IsResource

LEMMA ReplaceFbo ==
  ASSUME NEW r, NEW t, IsResource(r), IsTarget(t)
  PROVE  LET s == [r EXCEPT !.fbo = t]
         IN  /\ IsResource(s) /\ s.fbo = t /\ s.twin = r.twin
             /\ s.target = r.target /\ s.owns = r.owns /\ s.finalOwns = r.finalOwns
             /\ s.slots = r.slots /\ s.scale = r.scale
  BY DEF IsResource

LEMMA TargetShape ==
  /\ IsTarget(NoTarget) /\ ~NoTarget.live
  /\ \A size, content : LET t == Target(size, content)
                        IN  IsTarget(t) /\ t.live /\ t.size = size /\ t.content = content
  BY DEF IsTarget, NoTarget, Target

\* A pass keeps its shape and its feedback pair one geometry while its targets
\* are refreshed and while it is drawn.
LEMMA RefreshKeepsPairs ==
  ASSUME NEW i \in DOMAIN passes, NEW size,
         IsResource(passes[i]), passes[i].target => passes[i].owns
  PROVE  LET r == Refreshed(i, size)
         IN  /\ IsResource(r)
             /\ r.target = passes[i].target /\ r.owns = passes[i].owns
             /\ r.slots = passes[i].slots
             /\ r.finalOwns = passes[i].finalOwns
             /\ r.target => /\ r.fbo.live /\ r.fbo.size = size
                            /\ r.twin.live /\ r.twin.size = size
<1> DEFINE res   == passes[i]
           fresh == Target(size, Black)
           stale == ~Fits(res.fbo, size) \/ ~Fits(res.twin, size)
<1>1. CASE ~OwnsNow(i)
  BY <1>1 DEF Refreshed, OwnsNow, IsResource, IsTarget, NoTarget
<1>2. CASE OwnsNow(i) /\ ~res.target
  BY <1>2 DEF Refreshed, IsResource, IsTarget, Target, Fits
<1>3. CASE OwnsNow(i) /\ res.target /\ stale
  BY <1>3 DEF Refreshed, Paired, IsResource, IsTarget, Target, Fits
<1>4. CASE OwnsNow(i) /\ res.target /\ ~stale
  BY <1>4 DEF Refreshed, Paired, IsResource, IsTarget, Target, Fits
<1> QED
  BY <1>1, <1>2, <1>3, <1>4

\* Drawing a pass fills its target and changes nothing else.
LEMMA DrawKeepsShape ==
  ASSUME NEW r, NEW i, IsResource(r)
  PROVE  /\ IsResource(Draw(i, r))
         /\ Draw(i, r).target = r.target /\ Draw(i, r).owns = r.owns
         /\ Draw(i, r).slots = r.slots /\ Draw(i, r).twin = r.twin
         /\ Draw(i, r).fbo.live = r.fbo.live
         /\ Draw(i, r).fbo.size = r.fbo.size
         /\ r.fbo.live => Draw(i, r).fbo.content = <<i, frameCount>>
<1>1. CASE r.fbo.live
  BY <1>1 DEF Draw, IsResource, IsTarget, Target
<1>2. CASE ~r.fbo.live
  BY <1>2 DEF Draw
<1> QED
  BY <1>1, <1>2

\* A freshly built pass has no targets yet, and owns one if it is to feed back.
LEMMA BuiltPassShape ==
  ASSUME NEW chain, NEW targets, NEW i
  PROVE  LET r == BuildPass(chain, targets, i)
         IN  /\ IsResource(r)
             /\ r.fbo = NoTarget /\ r.twin = NoTarget /\ ~r.twin.live
             /\ r.slots = chain[i].slots
             /\ (r.target <=> i \in targets)
             /\ (r.target => r.owns)
<1> DEFINE r      == BuildPass(chain, targets, i)
           final  == i = Len(chain)
           scaled == chain[i].scale # NoScale
           forced == i \in targets /\ final /\ ~scaled
<1>1. /\ r = [scale |-> r.scale, owns |-> r.owns, finalOwns |-> r.finalOwns,
              target |-> r.target, slots |-> r.slots, fbo |-> r.fbo, twin |-> r.twin]
      /\ r.fbo = NoTarget /\ r.twin = NoTarget
      /\ r.slots = chain[i].slots
  BY DEF BuildPass
<1>2. /\ r.owns = ((~final) \/ scaled \/ forced)
      /\ r.finalOwns = ((final /\ scaled) \/ forced)
      /\ r.target = (i \in targets)
  BY Zenon DEF BuildPass
<1>3. r.owns \in BOOLEAN /\ r.finalOwns \in BOOLEAN /\ r.target \in BOOLEAN
  <2>1. /\ ((~final) \/ scaled \/ forced) \in BOOLEAN
        /\ ((final /\ scaled) \/ forced) \in BOOLEAN
        /\ (i \in targets) \in BOOLEAN
    OBVIOUS
  <2> QED
    BY <1>2, <2>1, Zenon
<1>4. r.target => r.owns
  BY <1>2, Zenon
<1>5. IsTarget(NoTarget) /\ ~NoTarget.live
  BY TargetShape
<1>6. IsResource(r)
  BY <1>1, <1>3, <1>5 DEF IsResource
<1> QED
  BY <1>1, <1>2, <1>4, <1>5, <1>6, Zenon

\* A chain samples textures of the known classes, and history at natural indices.
LEMMA ChainTextures ==
  ASSUME NEW chain \in Chains
  PROVE  /\ HistoryReads(chain) \subseteq Nat
         /\ \A i \in DOMAIN chain : chain[i].slots \subseteq TextureClasses
<1>1. chain \in Seq(PassShape) /\ DOMAIN chain = 1..Len(chain)
  BY ChainsAssumption, LenProperties
<1>2. ASSUME NEW i \in DOMAIN chain
      PROVE  chain[i].slots \subseteq TextureClasses
  <2>1. chain[i] \in PassShape
    BY <1>1, ElementOfSeq
  <2> QED
    BY <2>1 DEF PassShape
<1>3. ASSUME NEW i \in DOMAIN chain, NEW class \in chain[i].slots,
             class[1] = "OriginalHistory"
      PROVE  class[2] \in Nat
  BY <1>2, <1>3 DEF TextureClasses
<1> QED
  BY <1>2, <1>3 DEF HistoryReads

\* Every alias of a chain names one of its passes.
LEMMA AliasesNamePasses ==
  ASSUME NEW chain \in Chains, NEW name \in DOMAIN AliasTable(chain)
  PROVE  AliasTable(chain)[name] \in DOMAIN chain
  BY DEF AliasTable

\* The state has its shape in every reachable state: the ring never outgrows
\* what the chain looks back, and a feedback pair has one geometry.
THEOREM TypeCorrect == Spec => []TypeOK
<1>1. Init => TypeOK
  BY TicksAssumption DEF Init, TypeOK
<1>2. TypeOK /\ [Next]_vars => TypeOK'
  <2> SUFFICES ASSUME TypeOK, [Next]_vars
               PROVE  TypeOK'
    OBVIOUS
  <2>1. ASSUME NEW f \in Frames, SetSource(f)
        PROVE  TypeOK'
    BY <2>1 DEF TypeOK, SetSource
  <2>2. ASSUME NEW f \in Frames, AdvanceSource(f)
        PROVE  TypeOK'
    BY <2>2, PushKeepsTheRing DEF TypeOK, AdvanceSource
  <2>3. CASE ResetFeedback
    <3>1. /\ DOMAIN passes' = DOMAIN passes
          /\ Len(passes') = Len(passes)
      BY <2>3, LengthIsDomain DEF TypeOK, ResetFeedback
    <3>2. ASSUME NEW i \in DOMAIN passes
          PROVE  /\ IsResource(passes'[i]) /\ passes'[i].slots \subseteq TextureClasses
                 /\ passes'[i].target => passes'[i].owns
                 /\ (passes'[i].target /\ passes'[i].twin.live) =>
                      Fits(passes'[i].fbo, passes'[i].twin.size)
      <4>1. IsResource(passes[i])
        BY DEF TypeOK
      <4>2. CASE passes[i].target
        <5>1. passes'[i] = [passes[i] EXCEPT !.twin = NoTarget]
          BY <2>3, <4>2 DEF ResetFeedback
        <5> QED
          BY <4>1, <5>1, TargetShape, ReplaceTwin DEF TypeOK
      <4>3. CASE ~passes[i].target
        BY <2>3, <4>1, <4>3 DEF TypeOK, ResetFeedback
      <4> QED
        BY <4>2, <4>3
    <3> QED
      BY <2>3, <3>1, <3>2 DEF TypeOK, ResetFeedback
  <2>4. ASSUME NEW chain \in Chains, SetChain(chain)
        PROVE  TypeOK'
    <3> DEFINE table   == AliasTable(chain)
               targets == FeedbackTargets(chain, table)
    <3>1. chain \in Seq(PassShape) /\ DOMAIN chain = 1..Len(chain) /\ Len(chain) \in Nat
      BY ChainsAssumption, LenProperties
    <3>2. passes' = [i \in 1..Len(chain) |-> BuildPass(chain, targets, i)]
      BY <2>4, <3>1 DEF SetChain
    <3>3. DOMAIN passes' = 1..Len(chain) /\ Len(passes') = Len(chain)
      BY <3>1, <3>2, LengthIsDomain
    <3>4. depth' \in Nat
      BY <2>4, ChainTextures DEF SetChain
    <3>5. \A name \in DOMAIN aliases' : aliases'[name] \in DOMAIN passes'
      BY <2>4, <3>1, <3>3, AliasesNamePasses DEF SetChain
    <3>6. ASSUME NEW i \in DOMAIN passes'
          PROVE  /\ IsResource(passes'[i]) /\ passes'[i].slots \subseteq TextureClasses
                 /\ passes'[i].target => passes'[i].owns
                 /\ ~passes'[i].twin.live
      <4>1. i \in 1..Len(chain) /\ passes'[i] = BuildPass(chain, targets, i)
        BY <3>2, <3>3, <3>6
      <4> QED
        BY <3>1, <4>1, BuiltPassShape, ChainTextures
    <3> QED
      BY <2>4, <3>3, <3>4, <3>5, <3>6 DEF TypeOK, SetChain
  <2>5. ASSUME NEW size \in PaneSizes, SetViewport(size)
        PROVE  TypeOK'
    BY <2>5 DEF TypeOK, SetViewport
  <2>6. ASSUME NEW cfg \in Configs, SetSimulatedViewport(cfg)
        PROVE  TypeOK'
    BY <2>6 DEF TypeOK, SetSimulatedViewport
  <2>7. ASSUME NEW names \in LutSets, SetLuts(names)
        PROVE  TypeOK'
    BY <2>7 DEF TypeOK, SetLuts
  <2>8. ASSUME NEW name \in ParamNames, NEW value \in Values, SetParameter(name, value)
        PROVE  TypeOK'
    BY <2>8 DEF TypeOK, SetParameter
  <2>9. ASSUME NEW overrides \in Overrides, ApplyOverrides(overrides)
        PROVE  TypeOK'
    BY <2>9 DEF TypeOK, ApplyOverrides
  <2>10. CASE Render
    <3>1. /\ DOMAIN passes' = DOMAIN passes
          /\ Len(passes') = Len(passes)
      BY <2>10, LengthIsDomain DEF TypeOK, Render, Rebuilt
    <3>2. ASSUME NEW i \in DOMAIN passes
          PROVE  /\ IsResource(passes'[i]) /\ passes'[i].slots \subseteq TextureClasses
                 /\ passes'[i].target => passes'[i].owns
                 /\ (passes'[i].target /\ passes'[i].twin.live) =>
                      Fits(passes'[i].fbo, passes'[i].twin.size)
      <4> DEFINE r == Refreshed(i, OutputSizes[i])
      <4>1. /\ IsResource(r)
            /\ r.slots \subseteq TextureClasses
            /\ r.target => r.owns
            /\ r.target => r.twin.size = r.fbo.size /\ r.fbo.live
        BY RefreshKeepsPairs DEF TypeOK
      <4>2. passes'[i] = Draw(i, r)
        BY <2>10 DEF Render, Rebuilt
      <4>3. IsResource(Draw(i, r))
        BY <4>1, DrawKeepsShape
      <4> QED
        BY <4>1, <4>2, <4>3, DrawKeepsShape DEF Fits
    <3>3. frameCount' \in 0 .. Ticks - 1
      BY <2>10, TicksAssumption DEF TypeOK, Render
    <3> QED
      BY <2>10, <3>1, <3>2, <3>3 DEF TypeOK, Render
  <2>11. CASE UNCHANGED vars
    BY <2>11 DEF TypeOK, vars
  <2> QED
    BY <2>1, <2>2, <2>3, <2>4, <2>5, <2>6, <2>7, <2>8, <2>9, <2>10, <2>11 DEF Next
<1> QED
  BY <1>1, <1>2, PTL DEF Spec

\* What any class resolves to while pass i is drawn is not the target of pass i
\* nor of a later one, and holds this frame's output if it is a target.
LEMMA ResolvedTexturesAreCausal ==
  ASSUME NEW p, NEW i, NEW class \in TextureClasses, Resolve(p, i, class).from = "fbo"
  PROVE  /\ Resolve(p, i, class).index < i
         /\ Resolve(p, i, class).content[1] = Resolve(p, i, class).index
<1> DEFINE Causal(t) == t.from = "fbo" => t.index < i /\ t.content[1] = t.index
<1>1. Causal(Placeholder) /\ Causal(SourceTexture)
  BY DEF Placeholder, SourceTexture, Texture
<1>2. ASSUME NEW n, NEW otherwise, Causal(otherwise)
      PROVE  Causal(PassOutput(p, i, n, otherwise))
  BY <1>2 DEF PassOutput, FboTexture, Texture
<1>3. \A n : Causal(Feedback(p, n))
  BY DEF Feedback, Placeholder, Texture
<1>4. \A k : Causal(History(k))
  BY DEF History, Placeholder, Texture
<1>5. \A name : Causal(Texture("lut", 0, LutSize, name))
  BY DEF Texture
<1> HIDE DEF Causal
<1>6. Causal(Resolve(p, i, class))
  <2>1. class[1] \in {"Source", "Original", "PassOutput", "PassFeedback", "OriginalHistory",
                      "Alias", "AliasFeedback", "Lut"}
    BY DEF TextureClasses
  <2> QED
    BY <1>1, <1>2, <1>3, <1>4, <1>5, <2>1 DEF Resolve
<1> QED
  BY <1>6 DEF Causal

\* No pass ever samples the target it draws into, nor one still to be drawn this
\* frame: with resolve_texture's guard this holds for every chain.
THEOREM PassesAreCausal == Spec => []NoPassSamplesItsTarget
<1>1. Init => NoPassSamplesItsTarget
  BY DEF Init, NoPassSamplesItsTarget
<1>2. TypeOK /\ NoPassSamplesItsTarget /\ [Next]_vars => NoPassSamplesItsTarget'
  <2> SUFFICES ASSUME TypeOK, NoPassSamplesItsTarget, [Next]_vars
               PROVE  NoPassSamplesItsTarget'
    OBVIOUS
  <2>1. CASE UNCHANGED drawn
    BY <2>1 DEF NoPassSamplesItsTarget, Inputs, Read
  <2>2. CASE drawn' = << >>
    BY <2>2 DEF NoPassSamplesItsTarget
  <2>3. CASE Render
    <3>1. DOMAIN drawn' = DOMAIN passes
      BY <2>3 DEF Render, Rebuilt
    <3>2. ASSUME NEW i \in DOMAIN passes
          PROVE  /\ drawn'[i].inputs = PassRecord(Rebuilt, i).inputs
                 /\ Rebuilt[i].slots \subseteq TextureClasses
      <4>1. IsResource(passes[i]) /\ passes[i].slots \subseteq TextureClasses
        BY DEF TypeOK
      <4>2. Refreshed(i, OutputSizes[i]).slots = passes[i].slots
        BY <4>1, RefreshKeepsPairs DEF TypeOK
      <4>3. Rebuilt[i] = Refreshed(i, OutputSizes[i]) /\ DOMAIN Rebuilt = DOMAIN passes
        BY DEF Rebuilt
      <4>4. drawn'[i] = PassRecord(Rebuilt, i)
        BY <2>3, <4>3 DEF Render
      <4>5. Rebuilt[i].slots \subseteq TextureClasses
        BY <4>1, <4>2, <4>3
      <4>6. drawn'[i].inputs = PassRecord(Rebuilt, i).inputs
        BY <4>4
      <4> QED
        BY <4>5, <4>6
    <3>3. ASSUME NEW i \in DOMAIN drawn', NEW c \in DOMAIN drawn'[i].inputs,
                 drawn'[i].inputs[c].texture.from = "fbo"
          PROVE  /\ drawn'[i].inputs[c].texture.index < i
                 /\ drawn'[i].inputs[c].texture.content[1] = drawn'[i].inputs[c].texture.index
      <4> DEFINE inputs == PassRecord(Rebuilt, i).inputs
      <4>1. inputs = [class \in Rebuilt[i].slots |->
                        [texture |-> Resolve(Rebuilt, i, class),
                         uniform |-> UniformSize(Rebuilt, i, class)]]
        BY DEF PassRecord
      <4>2. drawn'[i].inputs = inputs
        BY <3>1, <3>2
      <4>3. c \in Rebuilt[i].slots /\ c \in TextureClasses
        BY <3>1, <3>2, <4>1, <4>2
      <4>4. drawn'[i].inputs[c].texture = Resolve(Rebuilt, i, c)
        BY <4>1, <4>2, <4>3
      <4> QED
        BY <3>3, <4>3, <4>4, ResolvedTexturesAreCausal
    <3> QED
      BY <3>3 DEF NoPassSamplesItsTarget, Inputs, Read
  <2>4. Next => UNCHANGED drawn \/ drawn' = << >> \/ Render
    BY DEF Next, SetSource, AdvanceSource, ResetFeedback, SetChain, SetViewport,
           SetSimulatedViewport, SetLuts, SetParameter, ApplyOverrides
  <2> QED
    BY <2>1, <2>2, <2>3, <2>4 DEF vars
<1> QED
  BY <1>1, <1>2, TypeCorrect, PTL DEF Spec

-----------------------------------------------------------------------------
(* The past shaders are promised: every step of Renderer is a step of       *)
(* TemporalInputs, or changes nothing a shader can see.  The inductive      *)
(* invariant is TypeOK (the ring within its depth, one geometry per         *)
(* feedback pair) with PastIsKept (whatever is sampled is kept).            *)

\* What a chain's passes sample is what the chain's shaders declare.
LEMMA BuiltSlots ==
  ASSUME TypeOK, NEW chain \in Chains, SetChain(chain)
  PROVE  /\ DOMAIN passes' = DOMAIN chain /\ Len(passes') = Len(chain)
         /\ aliases' = AliasTable(chain)
         /\ \A i \in DOMAIN chain :
              /\ passes'[i].slots = chain[i].slots
              /\ passes'[i].slots \subseteq TextureClasses
              /\ ~passes'[i].twin.live
              /\ passes'[i].target <=> i \in FeedbackTargets(chain, AliasTable(chain))
<1> DEFINE table   == AliasTable(chain)
           targets == FeedbackTargets(chain, table)
<1>1. DOMAIN chain = 1..Len(chain) /\ Len(chain) \in Nat
  BY ChainsAssumption, LenProperties
<1>2. passes' = [i \in 1..Len(chain) |-> BuildPass(chain, targets, i)]
  BY <1>1 DEF SetChain
<1>3. Len(passes') = Len(chain)
  BY <1>1, <1>2, LengthIsDomain
<1>4. aliases' = table
  BY DEF SetChain
<1> QED
  BY <1>1, <1>2, <1>3, <1>4, BuiltPassShape, ChainTextures

\* A pass whose feedback the new chain samples, by index or by alias, is a target.
LEMMA SampledFeedbackIsATarget ==
  ASSUME TypeOK, NEW chain \in Chains, SetChain(chain), NEW n \in FedBack'
  PROVE  passes'[n].target
<1>0. PICK i \in DOMAIN passes' :
         \E class \in passes'[i].slots :
           SamplesPast(class) /\ PastOf(class)' = <<"PassFeedback", n>>
  BY DEF FedBack, WantedOf, PastSlots
<1>1. PICK class \in passes'[i].slots :
         SamplesPast(class) /\ PastOf(class)' = <<"PassFeedback", n>>
  BY <1>0
<1>2. n \in DOMAIN chain /\ i \in DOMAIN chain /\ class \in chain[i].slots
  BY <1>1, BuiltSlots DEF FedBack
<1>3. class \in TextureClasses
  BY <1>2, ChainTextures
<1>4. CASE class[1] = "AliasFeedback"
  <2>1. n \in Nat \ {0}
    BY <1>2, ChainsAssumption, LenProperties
  <2>2. aliases' = AliasTable(chain)
    BY BuiltSlots
  <2>3. class[2] \in DOMAIN AliasTable(chain) /\ AliasTable(chain)[class[2]] = n
    BY <1>1, <1>4, <2>1, <2>2 DEF PastOf, AliasIndex
  <2>4. class = <<"AliasFeedback", class[2]>>
    BY <1>3, <1>4 DEF TextureClasses
  <2>5. n \in FeedbackTargets(chain, AliasTable(chain))
    BY <1>2, <2>3, <2>4 DEF FeedbackTargets
  <2> QED
    BY <1>2, <2>5, BuiltSlots
<1>5. CASE class[1] # "AliasFeedback"
  <2>1. <<"PassFeedback", n>> \in chain[i].slots
    BY <1>1, <1>2, <1>5 DEF PastOf
  <2>2. n \in FeedbackTargets(chain, AliasTable(chain))
    BY <1>2, <2>1 DEF FeedbackTargets
  <2> QED
    BY <1>2, <2>2, BuiltSlots
<1> QED
  BY <1>4, <1>5

\* A step that leaves the chain's slots and aliases alone leaves alone what the
\* chain samples of the past.
LEMMA SameChainSamplesTheSame ==
  ASSUME UNCHANGED aliases, DOMAIN passes' = DOMAIN passes, Len(passes') = Len(passes),
         \A i \in DOMAIN passes : passes'[i].slots = passes[i].slots
  PROVE  /\ \A class : PastOf(class)' = PastOf(class)
         /\ \A i \in DOMAIN passes : PastSlots(i)' = PastSlots(i)
         /\ WantedOf' = WantedOf
         /\ FedBack' = FedBack
<1>1. \A class : PastOf(class)' = PastOf(class)
  BY DEF PastOf, AliasIndex
<1>2. \A i \in DOMAIN passes : PastSlots(i)' = PastSlots(i)
  BY DEF PastSlots
<1>3. WantedOf' = WantedOf
  BY <1>1, <1>2 DEF WantedOf
<1> QED
  BY <1>1, <1>2, <1>3 DEF FedBack

\* The steps that touch the passes without building a chain keep their number,
\* their slots and which of them are targets.
LEMMA PassesKeepTheirSlots ==
  ASSUME TypeOK, ResetFeedback \/ Render
  PROVE  /\ DOMAIN passes' = DOMAIN passes /\ Len(passes') = Len(passes)
         /\ UNCHANGED aliases
         /\ \A i \in DOMAIN passes : /\ passes'[i].slots = passes[i].slots
                                     /\ passes'[i].target = passes[i].target
<1>1. CASE ResetFeedback
  <2>1. DOMAIN passes' = DOMAIN passes /\ Len(passes') = Len(passes)
    BY <1>1, LengthIsDomain DEF TypeOK, ResetFeedback
  <2>2. ASSUME NEW i \in DOMAIN passes
        PROVE  passes'[i].slots = passes[i].slots /\ passes'[i].target = passes[i].target
    <3>1. IsResource(passes[i]) /\ IsTarget(NoTarget)
      BY TargetShape DEF TypeOK
    <3>2. passes'[i] = IF passes[i].target THEN [passes[i] EXCEPT !.twin = NoTarget]
                                           ELSE passes[i]
      BY <1>1 DEF ResetFeedback
    <3> QED
      BY <3>1, <3>2, ReplaceTwin
  <2> QED
    BY <1>1, <2>1, <2>2 DEF ResetFeedback
<1>2. CASE Render
  <2>1. DOMAIN passes' = DOMAIN passes /\ Len(passes') = Len(passes)
    BY <1>2, LengthIsDomain DEF TypeOK, Render, Rebuilt
  <2>2. ASSUME NEW i \in DOMAIN passes
        PROVE  passes'[i].slots = passes[i].slots /\ passes'[i].target = passes[i].target
    <3> DEFINE r == Refreshed(i, OutputSizes[i])
    <3>1. IsResource(r) /\ r.slots = passes[i].slots /\ r.target = passes[i].target
      BY RefreshKeepsPairs DEF TypeOK
    <3>2. passes'[i] = Draw(i, r)
      BY <1>2 DEF Render, Rebuilt
    <3> QED
      BY <3>1, <3>2, DrawKeepsShape
  <2> QED
    BY <1>2, <2>1, <2>2 DEF Render
<1> QED
  BY <1>1, <1>2

\* Every step keeps what the chain samples of the past.
LEMMA PastStaysKept ==
  ASSUME TypeOK, PastIsKept, [Next]_vars
  PROVE  PastIsKept'
<1>1. ASSUME NEW f \in Frames, SetSource(f)
      PROVE  PastIsKept'
  BY <1>1, FramesAssumption, SameChainSamplesTheSame DEF PastIsKept, SetSource
<1>2. ASSUME NEW f \in Frames, AdvanceSource(f)
      PROVE  PastIsKept'
  BY <1>2, FramesAssumption, SameChainSamplesTheSame DEF PastIsKept, AdvanceSource
<1>3. CASE ResetFeedback \/ Render
  <2>1. /\ DOMAIN passes' = DOMAIN passes /\ UNCHANGED <<aliases, source, history, depth>>
        /\ \A i \in DOMAIN passes : /\ passes'[i].slots = passes[i].slots
                                    /\ passes'[i].target = passes[i].target
    BY <1>3, PassesKeepTheirSlots DEF ResetFeedback, Render
  <2>2. FedBack' = FedBack /\ FedBack \subseteq DOMAIN passes
    BY <1>3, PassesKeepTheirSlots, SameChainSamplesTheSame DEF FedBack
  <2>3. DOMAIN drawn' \subseteq DOMAIN passes
    BY <1>3 DEF PastIsKept, ResetFeedback, Render, Rebuilt
  <2> QED
    BY <2>1, <2>2, <2>3 DEF PastIsKept
<1>4. ASSUME NEW chain \in Chains, SetChain(chain)
      PROVE  PastIsKept'
  <2>1. \A i \in FedBack' : passes'[i].target
    BY <1>4, SampledFeedbackIsATarget
  <2>2. ASSUME NEW i \in DOMAIN passes', NEW class \in passes'[i].slots,
               class[1] = "OriginalHistory"
        PROVE  class[2] \in 1..depth'
    <3>1. i \in DOMAIN chain /\ class \in chain[i].slots /\ class \in TextureClasses
      BY <1>4, <2>2, BuiltSlots
    <3>2. class[2] \in Nat \ {0}
      BY <2>2, <3>1 DEF TextureClasses
    <3>3. class[2] \in HistoryReads(chain)
      BY <2>2, <3>1 DEF HistoryReads
    <3>4. depth' \in Nat /\ class[2] <= depth'
      BY <1>4, <3>3, ChainTextures DEF SetChain
    <3> QED
      BY <3>2, <3>4
  <2>3. drawn' = << >> /\ history' = << >>
    BY <1>4 DEF SetChain
  <2> QED
    BY <2>1, <2>2, <2>3 DEF PastIsKept
<1>5. CASE UNCHANGED <<source, history, depth, passes, aliases, drawn>>
  BY <1>5, SameChainSamplesTheSame DEF PastIsKept
<1>6. ASSUME Next
      PROVE  \/ \E f \in Frames : SetSource(f) \/ AdvanceSource(f)
             \/ ResetFeedback \/ Render
             \/ \E chain \in Chains : SetChain(chain)
             \/ UNCHANGED <<source, history, depth, passes, aliases, drawn>>
  BY <1>6 DEF Next, SetViewport, SetSimulatedViewport, SetLuts, SetParameter, ApplyOverrides
<1> QED
  BY <1>1, <1>2, <1>3, <1>4, <1>5, <1>6 DEF vars

\* What a chain samples of the past is kept in every reachable state.
THEOREM PastIsAlwaysKept == Spec => []PastIsKept
<1>1. Init => PastIsKept
  BY DEF Init, PastIsKept, FedBack, WantedOf
<1>2. TypeOK /\ PastIsKept /\ [Next]_vars => PastIsKept'
  BY PastStaysKept
<1> QED
  BY <1>1, <1>2, TypeCorrect, PTL DEF Spec

\* What a class that samples the past resolves to is the past it is promised.
LEMMA ResolvedPast ==
  ASSUME TypeOK, PastIsKept, Render,
         NEW i \in DOMAIN passes, NEW class \in PastSlots(i)
  PROVE  Resolve(Rebuilt, i, class).content
           = Temporal!Past(PastOf(class),
               [n \in DOMAIN PreviousOf |->
                  IF DrawnSizeOf'[n] = DrawnSizeOf[n] THEN PreviousOf[n] ELSE Black])
<1> DEFINE image == [n \in DOMAIN PreviousOf |->
                       IF DrawnSizeOf'[n] = DrawnSizeOf[n] THEN PreviousOf[n] ELSE Black]
<1>1. class \in TextureClasses /\ SamplesPast(class) /\ class \in passes[i].slots
  BY DEF PastSlots, TypeOK
<1>2. DOMAIN Rebuilt = DOMAIN passes /\ DOMAIN PreviousOf = FedBack
  BY DEF Rebuilt, PreviousOf
<1>3. CASE class[1] = "OriginalHistory"
  <2>1. class[2] \in 1..depth /\ depth \in Nat
    BY <1>1, <1>3 DEF PastIsKept, TypeOK
  <2>2. LagOf[class[2]] = IF class[2] <= Len(history) THEN history[class[2]] ELSE Black
    BY <2>1 DEF LagOf
  <2>3. Temporal!Past(class, image) = LagOf[class[2]]
    BY <1>3, <2>1 DEF Temporal!Past, LagOf
  <2>4. Resolve(Rebuilt, i, class) = History(class[2])
    BY <1>3 DEF Resolve
  <2> QED
    BY <1>3, <2>2, <2>3, <2>4 DEF History, Placeholder, Texture, PastOf
<1>4. ASSUME NEW n, i \in DOMAIN passes, n \in DOMAIN passes => n \in FedBack
      PROVE  Feedback(Rebuilt, n).content = Temporal!Past(<<"PassFeedback", n>>, image)
  <2>1. CASE n \notin DOMAIN passes
    <3>1. n \notin FedBack
      BY <2>1 DEF FedBack
    <3> QED
      BY <1>2, <2>1, <3>1 DEF Feedback, Placeholder, Texture, Temporal!Past
  <2>2. CASE n \in DOMAIN passes
    <3> DEFINE res  == passes[n]
               size == OutputSizes[n]
               r    == Refreshed(n, size)
    <3>1. n \in FedBack /\ res.target /\ res.owns /\ IsResource(res)
      BY <1>4, <2>2 DEF PastIsKept, TypeOK
    <3>2. /\ IsResource(r) /\ r.target
          /\ r.fbo.live /\ r.fbo.size = size
          /\ r.twin.live /\ r.twin.size = size
      BY <2>2, <3>1, RefreshKeepsPairs
    <3>3. passes'[n] = Draw(n, r) /\ Rebuilt[n] = r
      BY <2>2 DEF Render, Rebuilt
    <3>4. DrawnSizeOf'[n] = size
      <4>1. FedBack' = FedBack
        BY PassesKeepTheirSlots, SameChainSamplesTheSame
      <4>2. passes'[n].fbo.size = size
        BY <3>2, <3>3, DrawKeepsShape
      <4> QED
        BY <3>1, <4>1, <4>2 DEF DrawnSizeOf
    <3>5. /\ DrawnSizeOf[n] = res.fbo.size
          /\ PreviousOf[n] = IF res.twin.live THEN res.fbo.content ELSE Black
      BY <3>1 DEF DrawnSizeOf, PreviousOf
    <3>6. r.twin.content = image[n]
      <4>1. res.twin.live => Fits(res.fbo, res.twin.size)
        BY <2>2, <3>1 DEF TypeOK
      <4>2. image[n] = IF size = res.fbo.size THEN PreviousOf[n] ELSE Black
        BY <1>2, <3>1, <3>4, <3>5
      <4>3. OwnsNow(n)
        BY <3>1 DEF OwnsNow
      <4>4. CASE Fits(res.fbo, size) /\ Fits(res.twin, size)
        <5>1. r = [res EXCEPT !.fbo = res.twin, !.twin = res.fbo]
          BY <3>1, <4>3, <4>4 DEF Refreshed, Paired
        <5>2. r.twin = res.fbo
          BY <3>1, <5>1 DEF IsResource
        <5> QED
          BY <3>5, <4>2, <4>4, <5>2 DEF Fits
      <4>5. CASE ~(Fits(res.fbo, size) /\ Fits(res.twin, size))
        <5>1. r = [res EXCEPT !.fbo = Target(size, Black), !.twin = Target(size, Black)]
          BY <3>1, <4>3, <4>5 DEF Refreshed, Paired
        <5>2. r.twin = Target(size, Black)
          BY <3>1, <5>1 DEF IsResource
        <5>3. r.twin.content = Black
          BY <5>2 DEF Target
        <5> QED
          BY <3>5, <4>1, <4>2, <4>5, <5>3 DEF Fits
      <4> QED
        BY <4>4, <4>5
    <3>7. Feedback(Rebuilt, n).content = r.twin.content
      BY <1>2, <2>2, <3>2, <3>3 DEF Feedback, Texture
    <3>8. Temporal!Past(<<"PassFeedback", n>>, image) = image[n]
      BY <1>2, <3>1 DEF Temporal!Past
    <3> QED
      BY <3>6, <3>7, <3>8
  <2> QED
    BY <2>1, <2>2
<1>5. ASSUME NEW n, PastOf(class) = <<"PassFeedback", n>>, n \in DOMAIN passes
      PROVE  n \in FedBack
  BY <1>5 DEF FedBack, WantedOf
<1>6. CASE class[1] = "PassFeedback"
  <2>1. PastOf(class) = <<"PassFeedback", class[2]>>
    BY <1>1, <1>6 DEF PastOf, TextureClasses
  <2>2. Resolve(Rebuilt, i, class) = Feedback(Rebuilt, class[2])
    BY <1>6 DEF Resolve
  <2> QED
    BY <1>4, <1>5, <2>1, <2>2
<1>7. CASE class[1] = "AliasFeedback"
  <2>1. PastOf(class) = <<"PassFeedback", AliasIndex(class[2])>>
    BY <1>7 DEF PastOf
  <2>2. Resolve(Rebuilt, i, class) = Feedback(Rebuilt, AliasIndex(class[2]))
    BY <1>7 DEF Resolve
  <2> QED
    BY <1>4, <1>5, <2>1, <2>2
<1> QED
  BY <1>1, <1>3, <1>6, <1>7 DEF SamplesPast

\* Initially there is no past.
LEMMA InitHasNoPast == Init => Temporal!Init
<1> SUFFICES ASSUME Init PROVE Temporal!Init
  OBVIOUS
<1>1. LagOf = [k \in {0} |-> Black]
  BY DEF Init, LagOf
<1>2. WantedOf = {} /\ ReadsOf = {} /\ FedBack = {}
  BY DEF Init, WantedOf, ReadsOf, FedBack
<1>3. PreviousOf = [n \in {} |-> Black] /\ DOMAIN DrawnSizeOf = {}
  BY <1>2 DEF PreviousOf, DrawnSizeOf
<1> QED
  BY <1>1, <1>2, <1>3 DEF Init, Temporal!Init

\* A step that leaves the source, the ring, the chain and the frame alone is a
\* stutter of the specification.
LEMMA OtherStepsShowNothing ==
  ASSUME UNCHANGED <<source, history, depth, passes, aliases, frameCount, drawn>>
  PROVE  UNCHANGED Temporal!vars
<1>1. WantedOf' = WantedOf /\ FedBack' = FedBack
  BY SameChainSamplesTheSame
<1>2. LagOf' = LagOf
  BY DEF LagOf
<1>3. PreviousOf' = PreviousOf /\ DrawnSizeOf' = DrawnSizeOf
  BY <1>1 DEF PreviousOf, DrawnSizeOf
<1>4. ReadsOf' = ReadsOf
  BY DEF ReadsOf, PastOf, AliasIndex, PastSlots, Read
<1> QED
  BY <1>1, <1>2, <1>3, <1>4 DEF Temporal!vars

\* A source step leaves feedback and the chain alone.
LEMMA SourceStepsKeepFeedback ==
  ASSUME UNCHANGED <<passes, aliases, frameCount, drawn>>
  PROVE  UNCHANGED <<PreviousOf, DrawnSizeOf, Len(passes), WantedOf, ReadsOf, frameCount>>
<1>1. WantedOf' = WantedOf /\ FedBack' = FedBack
  BY SameChainSamplesTheSame
<1>2. PreviousOf' = PreviousOf /\ DrawnSizeOf' = DrawnSizeOf
  BY <1>1 DEF PreviousOf, DrawnSizeOf
<1>3. ReadsOf' = ReadsOf
  BY DEF ReadsOf, PastOf, AliasIndex, PastSlots, Read
<1> QED
  BY <1>1, <1>2, <1>3

LEMMA SetSourceLoads ==
  ASSUME TypeOK, NEW f \in Frames, SetSource(f)
  PROVE  Temporal!Load
<1>1. LagOf' = [k \in DOMAIN LagOf |-> IF k = 0 THEN f ELSE Black]
  BY FramesAssumption DEF TypeOK, LagOf, SetSource
<1> QED
  BY <1>1, SourceStepsKeepFeedback DEF SetSource, Temporal!Load

LEMMA AdvanceSourceAdvances ==
  ASSUME TypeOK, PastIsKept, NEW f \in Frames, AdvanceSource(f)
  PROVE  Temporal!Advance
<1>1. depth' = depth /\ source' = f /\ history' = PushedHistory /\ f # NoFrame
  BY FramesAssumption DEF AdvanceSource
<1>2. ASSUME NEW k \in 1..depth
      PROVE  LagOf'[k] = LagOf[k - 1]
  <2>1. LagOf'[k] = IF k <= Len(PushedHistory) THEN PushedHistory[k] ELSE Black
    BY <1>1, <1>2 DEF LagOf, TypeOK
  <2>2. LagOf[k - 1] = IF k = 1 THEN IF source = NoFrame THEN Black ELSE source
                       ELSE IF k - 1 <= Len(history) THEN history[k - 1] ELSE Black
    BY <1>2 DEF LagOf, TypeOK
  <2>3. CASE source = NoFrame
    <3>1. history = << >> /\ PushedHistory = << >>
      BY <2>3 DEF PastIsKept, PushedHistory
    <3> QED
      BY <1>2, <2>1, <2>2, <2>3, <3>1 DEF TypeOK
  <2>4. CASE source # NoFrame
    <3> DEFINE longer == <<source>> \o history
               kept   == Lesser(depth, Len(history) + 1)
    <3>0. depth # 0
      BY <1>2 DEF TypeOK
    <3>1. PushedHistory = SubSeq(longer, 1, kept)
      BY <2>4, <3>0, Zenon DEF PushedHistory
    <3>2. <<source>> \in Seq(Frames) /\ history \in Seq(Frames)
      BY <2>4 DEF TypeOK
    <3>3. /\ longer \in Seq(Frames) /\ Len(longer) = Len(history) + 1
          /\ \A j \in 1..Len(history) + 1 : longer[j] = IF j = 1 THEN source ELSE history[j - 1]
      BY <3>2, ConcatProperties
    <3>4. kept \in Nat /\ kept <= Len(longer) /\ kept = IF depth <= Len(longer) THEN depth
                                                                             ELSE Len(longer)
      BY <3>2, <3>3 DEF TypeOK, Lesser
    <3>5. \A j \in 1..kept : longer[j] \in Frames
      BY <3>3, <3>4, ElementOfSeq
    <3>6. /\ Len(PushedHistory) = kept
          /\ \A j \in 1..kept : PushedHistory[j] = longer[j]
      BY <3>1, <3>4, <3>5, SubSeqProperties
    <3>7. CASE k <= Len(history) + 1
      <4>1. k <= kept
        BY <1>2, <3>3, <3>4, <3>7 DEF TypeOK
      <4>2. LagOf'[k] = longer[k]
        BY <2>1, <3>4, <3>6, <4>1
      <4>3. Len(history) \in Nat /\ (k # 1 => k - 1 <= Len(history))
        BY <3>2, <3>7
      <4> QED
        BY <2>2, <2>4, <3>3, <3>7, <4>2, <4>3
    <3>8. CASE ~(k <= Len(history) + 1)
      BY <1>2, <2>1, <2>2, <3>2, <3>3, <3>4, <3>6, <3>8 DEF TypeOK
    <3> QED
      BY <3>7, <3>8
  <2> QED
    BY <2>3, <2>4
<1>3. LagOf'[0] = f
  BY <1>1 DEF LagOf, TypeOK
<1>4. LagOf' = [k \in DOMAIN LagOf |-> IF k = 0 THEN f ELSE LagOf[k - 1]]
  <2>1. DOMAIN LagOf = 0..depth /\ LagOf' = [k \in 0..depth |-> LagOf'[k]]
    BY <1>1 DEF LagOf
  <2>2. \A k \in 0..depth : LagOf'[k] = IF k = 0 THEN f ELSE LagOf[k - 1]
    <3>1. \A k \in 0..depth : k = 0 \/ k \in 1..depth
      BY DEF TypeOK
    <3>2. \A k \in 1..depth : k # 0
      BY DEF TypeOK
    <3> QED
      BY <1>2, <1>3, <3>1, <3>2, Zenon
  <2> QED
    BY <2>1, <2>2, Zenon
<1> QED
  BY <1>4, SourceStepsKeepFeedback DEF AdvanceSource, Temporal!Advance

LEMMA SetChainRebuilds ==
  ASSUME TypeOK, NEW chain \in Chains, SetChain(chain), PastIsKept'
  PROVE  Temporal!Rebuild
<1>1. source' = source /\ history' = << >> /\ drawn' = << >> /\ frameCount' = frameCount
  BY DEF SetChain
<1>2. depth' \in Nat
  BY ChainTextures DEF SetChain
<1>3. LagOf' = [k \in DOMAIN LagOf' |-> IF k = 0 THEN LagOf[0] ELSE Black]
  <2>1. DOMAIN LagOf' = 0..depth' /\ LagOf' = [k \in 0..depth' |-> LagOf'[k]]
    BY DEF LagOf
  <2>2. ASSUME NEW k \in 0..depth'
        PROVE  LagOf'[k] = IF k = 0 THEN LagOf[0] ELSE Black
    BY <1>1, <1>2, <2>2 DEF LagOf, TypeOK
  <2> QED
    BY <2>1, <2>2, Zenon
<1>4. {0} \cup {kind[2] : kind \in Temporal!History(WantedOf')} \subseteq DOMAIN LagOf'
  <2>1. DOMAIN LagOf' = 0..depth'
    BY DEF LagOf
  <2>2. ASSUME NEW kind \in WantedOf', kind[1] = "OriginalHistory"
        PROVE  kind[2] \in 0..depth'
    <3>1. PICK i \in DOMAIN passes' :
            \E class \in passes'[i].slots : SamplesPast(class) /\ kind = PastOf(class)'
      BY <2>2 DEF WantedOf, PastSlots
    <3>2. PICK class \in passes'[i].slots : SamplesPast(class) /\ kind = PastOf(class)'
      BY <3>1
    <3>3. kind = class
      BY <2>2, <3>2 DEF PastOf
    <3> QED
      BY <1>2, <2>2, <3>2, <3>3 DEF PastIsKept
  <2> QED
    BY <1>2, <2>1, <2>2 DEF Temporal!History
<1>5. DOMAIN passes' = 1..Len(passes')
  BY BuiltSlots, ChainsAssumption, LenProperties
<1>6. FedBack' = Temporal!FedBack(Len(passes'), WantedOf')
  BY <1>5 DEF FedBack, Temporal!FedBack
<1>7. PreviousOf' = [n \in FedBack' |-> Black]
  <2>1. \A n \in FedBack' : ~passes'[n].twin.live
    BY BuiltSlots DEF FedBack
  <2> QED
    BY <2>1 DEF PreviousOf
<1>8. DOMAIN DrawnSizeOf' = DOMAIN PreviousOf'
  BY DEF DrawnSizeOf, PreviousOf
<1>9. ReadsOf' = {}
  BY <1>1 DEF ReadsOf
<1> QED
  BY <1>1, <1>3, <1>4, <1>6, <1>7, <1>8, <1>9 DEF Temporal!Rebuild

LEMMA ResetFeedbackForgets ==
  ASSUME TypeOK, PastIsKept, ResetFeedback
  PROVE  Temporal!Forget
<1>1. /\ WantedOf' = WantedOf /\ FedBack' = FedBack /\ Len(passes') = Len(passes)
      /\ \A class : PastOf(class)' = PastOf(class)
      /\ \A i \in DOMAIN passes : PastSlots(i)' = PastSlots(i)
  BY PassesKeepTheirSlots, SameChainSamplesTheSame
<1>2. ASSUME NEW n \in FedBack
      PROVE  ~passes'[n].twin.live /\ passes'[n].fbo = passes[n].fbo
  <2>1. n \in DOMAIN passes /\ passes[n].target /\ IsResource(passes[n])
    BY <1>2 DEF PastIsKept, TypeOK, FedBack
  <2>2. passes'[n] = [passes[n] EXCEPT !.twin = NoTarget]
    BY <2>1 DEF ResetFeedback
  <2> QED
    BY <2>1, <2>2, TargetShape, ReplaceTwin
<1>3. PreviousOf' = [n \in DOMAIN PreviousOf |-> Black] /\ DrawnSizeOf' = DrawnSizeOf
  BY <1>1, <1>2 DEF PreviousOf, DrawnSizeOf
<1>4. LagOf' = LagOf
  BY DEF ResetFeedback, LagOf
<1>5. ReadsOf' = ReadsOf
  <2>1. drawn' = drawn /\ DOMAIN drawn \subseteq DOMAIN passes
    BY DEF ResetFeedback, PastIsKept
  <2>2. \A i, class : Read(i, class)' = Read(i, class)
    BY <2>1 DEF Read
  <2>3. ASSUME NEW i \in DOMAIN drawn
        PROVE  {<<PastOf(class)', Read(i, class)'.content>> : class \in PastSlots(i)'}
                 = {<<PastOf(class), Read(i, class).content>> : class \in PastSlots(i)}
    BY <1>1, <2>1, <2>2, <2>3
  <2> QED
    BY <2>1, <2>3 DEF ReadsOf
<1> QED
  BY <1>1, <1>3, <1>4, <1>5 DEF ResetFeedback, Temporal!Forget

LEMMA RenderDraws ==
  ASSUME TypeOK, PastIsKept, Render
  PROVE  Temporal!Draw
<1> DEFINE image == [n \in DOMAIN PreviousOf |->
                       IF DrawnSizeOf'[n] = DrawnSizeOf[n] THEN PreviousOf[n] ELSE Black]
<1>1. /\ WantedOf' = WantedOf /\ FedBack' = FedBack /\ Len(passes') = Len(passes)
      /\ \A class : PastOf(class)' = PastOf(class)
      /\ \A i \in DOMAIN passes : PastSlots(i)' = PastSlots(i)
  BY PassesKeepTheirSlots, SameChainSamplesTheSame
<1>2. DOMAIN DrawnSizeOf' = DOMAIN DrawnSizeOf
  BY <1>1 DEF DrawnSizeOf
<1>3. LagOf' = LagOf /\ frameCount' = (frameCount + 1) % Ticks
  BY DEF Render, LagOf
<1>4. PreviousOf' = [n \in DOMAIN PreviousOf |-> <<n, frameCount>>]
  <2>1. ASSUME NEW n \in FedBack
        PROVE  passes'[n].twin.live /\ passes'[n].fbo.content = <<n, frameCount>>
    <3> DEFINE r == Refreshed(n, OutputSizes[n])
    <3>1. n \in DOMAIN passes /\ passes[n].target /\ IsResource(passes[n])
      BY <2>1 DEF PastIsKept, TypeOK, FedBack
    <3>2. IsResource(r) /\ r.fbo.live /\ r.twin.live
      BY <3>1, RefreshKeepsPairs DEF TypeOK
    <3>3. passes'[n] = Draw(n, r)
      BY <3>1 DEF Render, Rebuilt
    <3> QED
      BY <3>2, <3>3, DrawKeepsShape
  <2> QED
    BY <1>1, <2>1 DEF PreviousOf
<1>5. DOMAIN drawn' = DOMAIN passes
  BY DEF Render, Rebuilt
<1>6. ASSUME NEW i \in DOMAIN passes, NEW class \in PastSlots(i)
      PROVE  Read(i, class)'.content = Temporal!Past(PastOf(class), image)
  <2> DEFINE inputs == PassRecord(Rebuilt, i).inputs
  <2>1. Rebuilt[i].slots = passes[i].slots /\ DOMAIN Rebuilt = DOMAIN passes
    BY RefreshKeepsPairs DEF Rebuilt, TypeOK
  <2>2. inputs = [c \in Rebuilt[i].slots |->
                    [texture |-> Resolve(Rebuilt, i, c),
                     uniform |-> UniformSize(Rebuilt, i, c)]]
    BY DEF PassRecord
  <2>3. drawn'[i] = PassRecord(Rebuilt, i)
    BY <2>1 DEF Render
  <2>4. class \in Rebuilt[i].slots
    BY <2>1 DEF PastSlots
  <2>5. Read(i, class)' = Resolve(Rebuilt, i, class)
    BY <2>2, <2>3, <2>4 DEF Read
  <2> QED
    BY <2>5, ResolvedPast
<1>7. ReadsOf' = {<<kind, Temporal!Past(kind, image)>> : kind \in WantedOf}
  <2>1. ReadsOf' = UNION {{<<PastOf(class), Read(i, class)'.content>> : class \in PastSlots(i)}
                            : i \in DOMAIN passes}
    BY <1>1, <1>5 DEF ReadsOf
  <2> DEFINE Seen(kind) == <<kind, Temporal!Past(kind, image)>>
  <2> HIDE DEF image
  <2>2. ASSUME NEW i \in DOMAIN passes, NEW class \in PastSlots(i)
        PROVE  <<PastOf(class), Read(i, class)'.content>> = Seen(PastOf(class))
    BY <1>6, <2>2
  <2> HIDE DEF Seen
  <2>3. ASSUME NEW i \in DOMAIN passes
        PROVE  {<<PastOf(class), Read(i, class)'.content>> : class \in PastSlots(i)}
                 = {Seen(PastOf(class)) : class \in PastSlots(i)}
    BY <2>2
  <2>4. ReadsOf' = UNION {{Seen(PastOf(class)) : class \in PastSlots(i)} : i \in DOMAIN passes}
    BY <2>1, <2>3
  <2>5. ReadsOf' = {Seen(kind) : kind \in WantedOf}
    <3>1. ASSUME NEW x \in ReadsOf'
          PROVE  x \in {Seen(kind) : kind \in WantedOf}
      BY <2>4 DEF WantedOf
    <3>2. ASSUME NEW kind \in WantedOf
          PROVE  Seen(kind) \in ReadsOf'
      BY <2>4 DEF WantedOf
    <3> QED
      BY <2>4, <3>1, <3>2
  <2> QED
    BY <2>5 DEF Seen
<1> HIDE DEF image
<1>8. LagOf' = LagOf /\ Len(passes') = Len(passes) /\ WantedOf' = WantedOf
  BY <1>1, <1>3
<1> QED
  BY <1>2, <1>3, <1>4, <1>7, <1>8 DEF Temporal!Draw, image

\* The renderer gives shaders the past they are promised: history K is the
\* source frame K frames ago and feedback the previous frame's output, black
\* only where a load, a rebuild, a reset or a size change cut the past off, for
\* every chain and every sequence of commands.
THEOREM RendererImplementsTemporalInputs == Spec => ImplementsTemporalInputs
<1>1. Init => Temporal!Init
  BY InitHasNoPast
<1>2. TypeOK /\ PastIsKept /\ PastIsKept' /\ [Next]_vars
        => [Temporal!Next]_(Temporal!vars)
  <2> SUFFICES ASSUME TypeOK, PastIsKept, PastIsKept', [Next]_vars
               PROVE  [Temporal!Next]_(Temporal!vars)
    OBVIOUS
  <2>1. ASSUME NEW f \in Frames, SetSource(f)
        PROVE  Temporal!Next
    BY <2>1, SetSourceLoads DEF Temporal!Next
  <2>2. ASSUME NEW f \in Frames, AdvanceSource(f)
        PROVE  Temporal!Next
    BY <2>2, AdvanceSourceAdvances DEF Temporal!Next
  <2>3. CASE ResetFeedback
    BY <2>3, ResetFeedbackForgets DEF Temporal!Next
  <2>4. ASSUME NEW chain \in Chains, SetChain(chain)
        PROVE  Temporal!Next
    BY <2>4, SetChainRebuilds DEF Temporal!Next
  <2>5. CASE Render
    BY <2>5, RenderDraws DEF Temporal!Next
  <2>6. CASE UNCHANGED <<source, history, depth, passes, aliases, frameCount, drawn>>
    BY <2>6, OtherStepsShowNothing
  <2>7. ASSUME Next
        PROVE  \/ \E f \in Frames : SetSource(f) \/ AdvanceSource(f)
               \/ ResetFeedback \/ Render
               \/ \E chain \in Chains : SetChain(chain)
               \/ UNCHANGED <<source, history, depth, passes, aliases, frameCount, drawn>>
    BY <2>7 DEF Next, SetViewport, SetSimulatedViewport, SetLuts, SetParameter, ApplyOverrides
  <2> QED
    BY <2>1, <2>2, <2>3, <2>4, <2>5, <2>6, <2>7 DEF vars
<1> QED
  BY <1>1, <1>2, TypeCorrect, PastIsAlwaysKept, PTL
     DEF Spec, ImplementsTemporalInputs, Temporal!Spec
-----------------------------------------------------------------------------
(* Sizes, and who draws into the pane.                                      *)

\* Only the last pass may be without a target of its own, and a pass whose output
\* is not fed back has no twin.
TargetsAreOwned ==
  \A i \in DOMAIN passes :
    /\ passes[i].owns <=> (i # Len(passes) \/ passes[i].finalOwns)
    /\ ~passes[i].target => ~passes[i].twin.live

\* Refreshed, a pass has a target exactly when it owns one this frame, and a twin of
\* that size only if it is fed back.
LEMMA RefreshGivesTargets ==
  ASSUME TypeOK, TargetsAreOwned, NEW i \in DOMAIN passes, NEW size
  PROVE  LET r == Refreshed(i, size)
         IN  /\ r.fbo.live <=> OwnsNow(i)
             /\ r.twin.live => r.fbo.live /\ r.twin.size = r.fbo.size
             /\ ~r.target => ~r.twin.live
<1> DEFINE res == passes[i]
           r   == Refreshed(i, size)
           fresh == Target(size, Black)
<1>1. IsResource(res) /\ (res.target => res.owns) /\ (~res.target => ~res.twin.live)
  BY DEF TypeOK, TargetsAreOwned
<1>2. /\ IsTarget(NoTarget) /\ ~NoTarget.live
      /\ IsTarget(fresh) /\ fresh.live /\ fresh.size = size
  BY TargetShape
<1>3. CASE ~OwnsNow(i)
  <2>1. r = [res EXCEPT !.fbo = NoTarget]  BY <1>3 DEF Refreshed
  <2>2. r.fbo = NoTarget /\ r.twin = res.twin /\ r.target = res.target
    BY <1>1, <1>2, <2>1, ReplaceFbo
  <2>3. ~res.target  BY <1>1, <1>3 DEF OwnsNow
  <2> QED  BY <1>1, <1>2, <1>3, <2>2, <2>3
<1>4. CASE OwnsNow(i) /\ ~res.target
  <2> DEFINE t == IF Fits(res.fbo, size) THEN res.fbo ELSE fresh
  <2>1. r = [res EXCEPT !.fbo = t]  BY <1>4 DEF Refreshed
  <2>2. IsTarget(t) /\ t.live  BY <1>1, <1>2 DEF IsResource, Fits
  <2> HIDE DEF t
  <2>3. r.fbo = t /\ r.twin = res.twin /\ r.target = res.target
    BY <1>1, <2>1, <2>2, ReplaceFbo
  <2> QED  BY <1>1, <1>4, <2>2, <2>3
<1>5. CASE OwnsNow(i) /\ res.target
  BY <1>1, <1>5, RefreshKeepsPairs
<1> QED  BY <1>3, <1>4, <1>5

\* What no step changes of a pass.
LEMMA TargetsStayOwned ==
  ASSUME TypeOK, TargetsAreOwned, [Next]_vars
  PROVE  TargetsAreOwned'
<1>1. CASE UNCHANGED passes
  BY <1>1 DEF TargetsAreOwned
<1>2. CASE ResetFeedback
  <2>1. DOMAIN passes' = DOMAIN passes /\ Len(passes') = Len(passes)
    BY <1>2, PassesKeepTheirSlots
  <2>2. ASSUME NEW i \in DOMAIN passes
        PROVE  /\ passes'[i].owns = passes[i].owns /\ passes'[i].finalOwns = passes[i].finalOwns
               /\ passes'[i].target = passes[i].target
               /\ passes'[i].target \/ passes'[i].twin = passes[i].twin
    <3>1. IsResource(passes[i]) /\ IsTarget(NoTarget)
      BY TargetShape DEF TypeOK
    <3>2. passes'[i] = IF passes[i].target THEN [passes[i] EXCEPT !.twin = NoTarget]
                                           ELSE passes[i]
      BY <1>2 DEF ResetFeedback
    <3> QED  BY <3>1, <3>2, ReplaceTwin
  <2> QED  BY <2>1, <2>2 DEF TargetsAreOwned
<1>3. ASSUME NEW chain \in Chains, SetChain(chain) PROVE TargetsAreOwned'
  <2> DEFINE targets == FeedbackTargets(chain, AliasTable(chain))
  <2>1. DOMAIN passes' = DOMAIN chain /\ Len(passes') = Len(chain)
    BY <1>3, BuiltSlots
  <2>2. ASSUME NEW i \in DOMAIN chain
        PROVE  LET r == BuildPass(chain, targets, i)
               IN  /\ r.owns <=> (i # Len(chain) \/ r.finalOwns)
                   /\ ~r.twin.live
    <3>1. ~BuildPass(chain, targets, i).twin.live  BY BuiltPassShape
    <3>2. BuildPass(chain, targets, i).owns <=> (i # Len(chain) \/ BuildPass(chain, targets, i).finalOwns)
      BY Zenon DEF BuildPass
    <3> QED  BY <3>1, <3>2
  <2>3. \A i \in DOMAIN chain : passes'[i] = BuildPass(chain, targets, i)
    BY <1>3 DEF SetChain
  <2> QED  BY <2>1, <2>2, <2>3 DEF TargetsAreOwned
<1>4. CASE Render
  <2>1. DOMAIN passes' = DOMAIN passes /\ Len(passes') = Len(passes)
    BY <1>4, PassesKeepTheirSlots
  <2>2. ASSUME NEW i \in DOMAIN passes
        PROVE  /\ passes'[i].owns = passes[i].owns /\ passes'[i].finalOwns = passes[i].finalOwns
               /\ ~passes'[i].target => ~passes'[i].twin.live
    <3> DEFINE r == Refreshed(i, OutputSizes[i])
    <3>1. /\ IsResource(r) /\ r.owns = passes[i].owns /\ r.finalOwns = passes[i].finalOwns
      BY RefreshKeepsPairs DEF TypeOK
    <3>2. ~r.target => ~r.twin.live  BY RefreshGivesTargets
    <3>3. passes'[i] = Draw(i, r)  BY <1>4 DEF Render, Rebuilt
    <3> HIDE DEF r
    <3>4. /\ Draw(i, r).owns = r.owns /\ Draw(i, r).target = r.target /\ Draw(i, r).twin = r.twin
          /\ Draw(i, r).finalOwns = r.finalOwns
      <4>1. CASE r.fbo.live  BY <3>1, <4>1 DEF Draw, IsResource, IsTarget, Target
      <4>2. CASE ~r.fbo.live  BY <4>2 DEF Draw
      <4> QED  BY <4>1, <4>2
    <3> QED  BY <3>1, <3>2, <3>3, <3>4
  <2> QED  BY <2>1, <2>2 DEF TargetsAreOwned
<1>5. Next => UNCHANGED passes \/ ResetFeedback \/ Render \/ \E chain \in Chains : SetChain(chain)
  BY DEF Next, SetSource, AdvanceSource, SetViewport, SetSimulatedViewport, SetLuts,
         SetParameter, ApplyOverrides
<1> QED  BY <1>1, <1>2, <1>3, <1>4, <1>5 DEF vars

\* Every step keeps which passes own a target: all but the last do, the last when its
\* scale or its feedback forces one.
THEOREM TargetsOwned == Spec => []TargetsAreOwned
<1>1. Init => TargetsAreOwned
  BY DEF Init, TargetsAreOwned
<1>2. TypeOK /\ TargetsAreOwned /\ [Next]_vars => TargetsAreOwned'
  BY TargetsStayOwned
<1> QED  BY <1>1, <1>2, TypeCorrect, PTL DEF Spec

\* The passes as they are drawn.
LEMMA RebuiltPasses ==
  ASSUME TypeOK, TargetsAreOwned
  PROVE  /\ DOMAIN Rebuilt = DOMAIN passes
         /\ \A i \in DOMAIN passes :
              /\ Rebuilt[i] = Refreshed(i, OutputSizes[i])
              /\ Rebuilt[i].slots = passes[i].slots /\ Rebuilt[i].slots \subseteq TextureClasses
              /\ IsResource(Rebuilt[i])
              /\ Rebuilt[i].fbo.live <=> OwnsNow(i)
              /\ i # Len(passes) => Rebuilt[i].fbo.live
              /\ Rebuilt[i].twin.live => /\ Rebuilt[i].fbo.live
                                         /\ Rebuilt[i].twin.size = Rebuilt[i].fbo.size
<1> SUFFICES ASSUME NEW i \in DOMAIN passes
             PROVE  /\ Rebuilt[i] = Refreshed(i, OutputSizes[i])
                    /\ Rebuilt[i].slots = passes[i].slots /\ Rebuilt[i].slots \subseteq TextureClasses
                    /\ IsResource(Rebuilt[i])
                    /\ Rebuilt[i].fbo.live <=> OwnsNow(i)
                    /\ i # Len(passes) => Rebuilt[i].fbo.live
                    /\ Rebuilt[i].twin.live => /\ Rebuilt[i].fbo.live
                                               /\ Rebuilt[i].twin.size = Rebuilt[i].fbo.size
  BY DEF Rebuilt
<1>1. Rebuilt[i] = Refreshed(i, OutputSizes[i])  BY DEF Rebuilt
<1>2. IsResource(passes[i]) /\ (passes[i].target => passes[i].owns) /\ passes[i].slots \subseteq TextureClasses
  BY DEF TypeOK
<1>3. IsResource(Rebuilt[i]) /\ Rebuilt[i].slots = passes[i].slots
  BY <1>1, <1>2, RefreshKeepsPairs
<1>4. /\ Rebuilt[i].fbo.live <=> OwnsNow(i)
      /\ Rebuilt[i].twin.live => Rebuilt[i].fbo.live /\ Rebuilt[i].twin.size = Rebuilt[i].fbo.size
  BY <1>1, RefreshGivesTargets
<1>5. i # Len(passes) => OwnsNow(i)  BY DEF TargetsAreOwned, OwnsNow
<1> QED  BY <1>1, <1>2, <1>3, <1>4, <1>5

\* The textures a class may resolve to while pass i is drawn.
LEMMA ResolvedTo ==
  ASSUME TypeOK, TargetsAreOwned, NEW i \in DOMAIN passes, NEW class \in TextureClasses,
         NEW t, t = Resolve(Rebuilt, i, class)
  PROVE  /\ \/ t = Placeholder
            \/ t = SourceTexture
            \/ \E n \in DOMAIN passes : n < i /\ Rebuilt[n].fbo.live /\ t = FboTexture(Rebuilt, i, n)
            \/ \E n \in DOMAIN passes :
                 /\ Rebuilt[n].twin.live
                 /\ t = Texture("twin", n, Rebuilt[n].twin.size, Rebuilt[n].twin.content)
            \/ \E k \in Nat \ {0} : /\ k <= Len(history)
                                    /\ t = Texture("history", k, SizeOf[history[k]], history[k])
            \/ \E name : t = Texture("lut", 0, LutSize, name)
         /\ class[1] = "Source" =>
              \/ i = 1 /\ t = SourceTexture
              \/ i > 1 /\ i - 1 \in DOMAIN passes /\ t = FboTexture(Rebuilt, i, i - 1)
<1> DEFINE Possible(x) ==
             \/ x = Placeholder
             \/ x = SourceTexture
             \/ \E n \in DOMAIN passes : n < i /\ Rebuilt[n].fbo.live /\ x = FboTexture(Rebuilt, i, n)
             \/ \E n \in DOMAIN passes :
                  /\ Rebuilt[n].twin.live
                  /\ x = Texture("twin", n, Rebuilt[n].twin.size, Rebuilt[n].twin.content)
             \/ \E k \in Nat \ {0} : /\ k <= Len(history)
                                     /\ x = Texture("history", k, SizeOf[history[k]], history[k])
             \/ \E name : x = Texture("lut", 0, LutSize, name)
<1>1. DOMAIN Rebuilt = DOMAIN passes  BY RebuiltPasses
<1>2. Possible(Placeholder) /\ Possible(SourceTexture)  OBVIOUS
<1>3. ASSUME NEW n, NEW otherwise, Possible(otherwise) PROVE Possible(PassOutput(Rebuilt, i, n, otherwise))
  BY <1>1, <1>3 DEF PassOutput
<1>4. \A n : Possible(Feedback(Rebuilt, n))
  BY <1>1, <1>2 DEF Feedback
<1>5. \A k \in Nat \ {0} : Possible(History(k))
  BY <1>2 DEF History
<1>6. \A name : Possible(Texture("lut", 0, LutSize, name))
  OBVIOUS
<1>7. i \in Nat \ {0} /\ i <= Len(passes) /\ DOMAIN passes = 1..Len(passes) /\ Len(passes) \in Nat
  <2>1. DOMAIN passes = 1..Len(passes)  BY DEF TypeOK
  <2>2. Len(passes) \in Nat  BY DEF TypeOK
  <2> QED  BY <2>1, <2>2
<1> HIDE DEF Possible
<1>8. class[1] = "Source" => \/ i = 1 /\ t = SourceTexture
                             \/ i > 1 /\ i - 1 \in DOMAIN passes /\ t = FboTexture(Rebuilt, i, i - 1)
  <2>1. i > 1 => i - 1 \in DOMAIN passes /\ i - 1 # Len(passes) /\ i - 1 < i  BY <1>7
  <2> QED  BY <1>1, <1>7, <2>1, RebuiltPasses DEF Resolve, PassOutput
<1>9. Possible(t)
  <2>1. class[1] \in {"Source", "Original", "PassOutput", "PassFeedback", "OriginalHistory",
                      "Alias", "AliasFeedback", "Lut"}
        /\ (class[1] = "OriginalHistory" => class[2] \in Nat \ {0})
    BY DEF TextureClasses
  <2> QED  BY <1>2, <1>3, <1>4, <1>5, <1>6, <2>1 DEF Resolve
<1> QED  BY <1>8, <1>9 DEF Possible


\* The uniform computed for a class is the size of the texture it resolves to.
LEMMA UniformIsTheSize ==
  ASSUME TypeOK, TargetsAreOwned, NEW i \in DOMAIN passes, NEW class \in TextureClasses,
         Resolve(Rebuilt, i, class) # Placeholder
  PROVE  UniformSize(Rebuilt, i, class) = Resolve(Rebuilt, i, class).size
<1> DEFINE p == Rebuilt
           t == Resolve(Rebuilt, i, class)
<1>0. class[1] \in {"Source", "Original", "PassOutput", "PassFeedback", "OriginalHistory",
                    "Alias", "AliasFeedback", "Lut"}
      /\ (class[1] = "OriginalHistory" => class[2] \in Nat \ {0})
  BY DEF TextureClasses
<1>1. /\ DOMAIN p = DOMAIN passes
      /\ \A n \in DOMAIN passes : /\ n # Len(passes) => p[n].fbo.live
                                  /\ p[n].twin.live => p[n].fbo.live /\ p[n].twin.size = p[n].fbo.size
  BY RebuiltPasses
<1>2. SourceTexture.size = SourceSize  BY DEF SourceTexture, Texture
<1>3. \A n : FboTexture(p, i, n).size = p[n].fbo.size  BY DEF FboTexture, Texture
<1> HIDE DEF p
<1>4. ASSUME NEW n, PassOutput(p, i, n, Placeholder) # Placeholder
      PROVE  CausalSize(p, i, n) = PassOutput(p, i, n, Placeholder).size
  BY <1>3, <1>4 DEF PassOutput, CausalSize, OutputSize
<1>5. ASSUME NEW n, Feedback(p, n) # Placeholder
      PROVE  AnySize(p, n) = Feedback(p, n).size
  BY <1>1, <1>5 DEF Feedback, AnySize, OutputSize, Texture
<1>6. CASE class[1] = "Source"
  <2>1. CASE i = 1
    <3>1. t = SourceTexture  BY <1>6, <2>1 DEF Resolve
    <3>2. UniformSize(p, i, class) = SourceSize  BY <1>6, <2>1 DEF UniformSize
    <3> QED  BY <1>2, <3>1, <3>2 DEF p
  <2>2. CASE i # 1
    <3>1. i - 1 \in DOMAIN passes /\ t = FboTexture(p, i, i - 1) /\ i - 1 # Len(passes)
      <4>1. i > 1 /\ i - 1 \in DOMAIN passes /\ t = FboTexture(p, i, i - 1)
        BY <1>6, <2>2, ResolvedTo DEF p
      <4>2. i \in 1..Len(passes)  BY DEF TypeOK
      <4> QED  BY <4>1, <4>2
    <3>2. UniformSize(p, i, class) = p[i - 1].fbo.size
      BY <1>1, <1>6, <2>2, <3>1 DEF UniformSize, OutputSize
    <3> QED  BY <1>3, <3>1, <3>2 DEF p
  <2> QED  BY <2>1, <2>2
<1>7. CASE class[1] = "Original"
  BY <1>2, <1>7 DEF Resolve, UniformSize
<1>8. CASE class[1] = "PassOutput"
  <2>1. t = PassOutput(p, i, class[2], Placeholder) /\ UniformSize(p, i, class) = CausalSize(p, i, class[2])
    BY <1>8 DEF Resolve, UniformSize, p
  <2> QED  BY <1>4, <2>1 DEF p
<1>9. CASE class[1] = "Alias"
  <2>1. /\ t = PassOutput(p, i, AliasIndex(class[2]), Placeholder)
        /\ UniformSize(p, i, class) = CausalSize(p, i, AliasIndex(class[2]))
    BY <1>9 DEF Resolve, UniformSize, p
  <2> QED  BY <1>4, <2>1 DEF p
<1>10. CASE class[1] = "PassFeedback"
  <2>1. t = Feedback(p, class[2]) /\ UniformSize(p, i, class) = AnySize(p, class[2])
    BY <1>10 DEF Resolve, UniformSize, p
  <2> QED  BY <1>5, <2>1 DEF p
<1>11. CASE class[1] = "AliasFeedback"
  <2>1. t = Feedback(p, AliasIndex(class[2])) /\ UniformSize(p, i, class) = AnySize(p, AliasIndex(class[2]))
    BY <1>11 DEF Resolve, UniformSize, p
  <2> QED  BY <1>5, <2>1 DEF p
<1>12. CASE class[1] = "OriginalHistory"
  <2>1. t = History(class[2]) /\ class[2] <= Len(history) /\ class[2] <= depth
    <3>1. t = History(class[2])  BY <1>12 DEF Resolve
    <3>2. class[2] <= Len(history)  BY <3>1 DEF History
    <3> QED  BY <1>0, <1>12, <3>1, <3>2 DEF TypeOK
  <2>2. t.size = SizeOf[history[class[2]]]  BY <2>1 DEF History, Texture
  <2>3. UniformSize(p, i, class) = SizeOf[history[class[2]]]
    <3>1. ~(class[2] > depth)  BY <1>0, <1>12, <2>1 DEF TypeOK
    <3> QED  BY <1>12, <2>1, <3>1 DEF UniformSize
  <2> QED  BY <2>2, <2>3 DEF p
<1>13. CASE class[1] = "Lut"
  BY <1>13 DEF Resolve, UniformSize, Texture
<1> QED  BY <1>0, <1>6, <1>7, <1>8, <1>9, <1>10, <1>11, <1>12, <1>13

\* What a frame drawn now records of a pass.
LEMMA RecordedOf ==
  ASSUME TypeOK, TargetsAreOwned, Render
  PROVE  /\ DOMAIN drawn' = DOMAIN passes
         /\ \A i \in DOMAIN passes :
              /\ DOMAIN drawn'[i].inputs = passes[i].slots /\ passes[i].slots \subseteq TextureClasses
              /\ \A c \in passes[i].slots : /\ drawn'[i].inputs[c].texture = Resolve(Rebuilt, i, c)
                                            /\ drawn'[i].inputs[c].uniform = UniformSize(Rebuilt, i, c)
<1>1. DOMAIN Rebuilt = DOMAIN passes
  BY RebuiltPasses
<1>2. DOMAIN drawn' = DOMAIN passes
  BY <1>1 DEF Render
<1>3. ASSUME NEW i \in DOMAIN passes
      PROVE  /\ DOMAIN drawn'[i].inputs = passes[i].slots /\ passes[i].slots \subseteq TextureClasses
             /\ \A c \in passes[i].slots : /\ drawn'[i].inputs[c].texture = Resolve(Rebuilt, i, c)
                                           /\ drawn'[i].inputs[c].uniform = UniformSize(Rebuilt, i, c)
  <2>1. drawn'[i] = PassRecord(Rebuilt, i)
    BY <1>1 DEF Render
  <2>2. Rebuilt[i].slots = passes[i].slots /\ passes[i].slots \subseteq TextureClasses
    BY RebuiltPasses DEF TypeOK
  <2>3. drawn'[i].inputs = [class \in passes[i].slots |->
                              [texture |-> Resolve(Rebuilt, i, class),
                               uniform |-> UniformSize(Rebuilt, i, class)]]
    BY <2>1, <2>2 DEF PassRecord
  <2> QED  BY <2>2, <2>3
<1> QED  BY <1>2, <1>3

\* The size a shader is told is the size of what it samples: rebuild_chain and
\* write_uniforms agree, in every chain and after every change of size.
THEOREM SizesDescribed == Spec => []SizeUniformsDescribeTextures
<1>1. Init => SizeUniformsDescribeTextures
  BY DEF Init, SizeUniformsDescribeTextures
<1>2. TypeOK /\ TargetsAreOwned /\ SizeUniformsDescribeTextures /\ [Next]_vars
        => SizeUniformsDescribeTextures'
  <2> SUFFICES ASSUME TypeOK, TargetsAreOwned, SizeUniformsDescribeTextures, [Next]_vars
               PROVE  SizeUniformsDescribeTextures'
    OBVIOUS
  <2>1. CASE UNCHANGED drawn
    BY <2>1 DEF SizeUniformsDescribeTextures, Inputs, Read
  <2>2. CASE drawn' = << >>
    BY <2>2 DEF SizeUniformsDescribeTextures
  <2>3. CASE Render
    <3> SUFFICES ASSUME NEW i \in DOMAIN drawn', NEW c \in DOMAIN drawn'[i].inputs,
                        drawn'[i].inputs[c].texture # Placeholder
                 PROVE  drawn'[i].inputs[c].uniform = drawn'[i].inputs[c].texture.size
      BY DEF SizeUniformsDescribeTextures, Inputs, Read
    <3>1. i \in DOMAIN passes /\ c \in passes[i].slots /\ c \in TextureClasses
      BY <2>3, RecordedOf
    <3>2. /\ drawn'[i].inputs[c].texture = Resolve(Rebuilt, i, c)
          /\ drawn'[i].inputs[c].uniform = UniformSize(Rebuilt, i, c)
      BY <2>3, <3>1, RecordedOf
    <3> QED  BY <3>1, <3>2, UniformIsTheSize
  <2>4. Next => UNCHANGED drawn \/ drawn' = << >> \/ Render
    BY DEF Next, SetSource, AdvanceSource, ResetFeedback, SetChain, SetViewport,
           SetSimulatedViewport, SetLuts, SetParameter, ApplyOverrides
  <2> QED
    BY <2>1, <2>2, <2>3, <2>4 DEF vars
<1> QED  BY <1>1, <1>2, TypeCorrect, TargetsOwned, PTL DEF Spec

\* A frame leaves the last pass without a target exactly when it was drawn into the
\* pane: the assertion of Renderer::render.
THEOREM FinalTargetAccounted == Spec => FinalTargetIsAccountedFor
<1> DEFINE Accounted == frameCount' # frameCount =>
                          \A i \in DOMAIN passes' :
                            ~passes'[i].fbo.live
                              <=> (i = Len(passes') /\ ~passes[i].finalOwns /\ ~Simulating)
<1>1. TypeOK /\ TargetsAreOwned /\ [Next]_vars => Accounted
  <2> SUFFICES ASSUME TypeOK, TargetsAreOwned, [Next]_vars, frameCount' # frameCount,
                      NEW i \in DOMAIN passes'
               PROVE  ~passes'[i].fbo.live
                        <=> (i = Len(passes') /\ ~passes[i].finalOwns /\ ~Simulating)
    OBVIOUS
  <2>1. Render
    BY DEF Next, vars, SetSource, AdvanceSource, ResetFeedback, SetChain, SetViewport,
           SetSimulatedViewport, SetLuts, SetParameter, ApplyOverrides
  <2>2. i \in DOMAIN passes /\ Len(passes') = Len(passes)
    BY <2>1, PassesKeepTheirSlots
  <2>3. IsResource(Rebuilt[i]) /\ (Rebuilt[i].fbo.live <=> OwnsNow(i))
    BY <2>2, RebuiltPasses
  <2>4. passes'[i] = Draw(i, Rebuilt[i])
    BY <2>1, <2>2 DEF Render, Rebuilt
  <2>5. passes'[i].fbo.live = Rebuilt[i].fbo.live
    BY <2>3, <2>4, DrawKeepsShape
  <2>6. OwnsNow(i) <=> (i # Len(passes) \/ passes[i].finalOwns \/ Simulating)
    BY <2>2, Zenon DEF OwnsNow, TargetsAreOwned
  <2> QED  BY <2>2, <2>3, <2>5, <2>6
<1> QED  BY <1>1, TypeCorrect, TargetsOwned, PTL DEF Spec, FinalTargetIsAccountedFor

-----------------------------------------------------------------------------
(* Levels and samplers.                                                     *)

IsLevels(l) == l = [count |-> l.count, of |-> l.of] /\ l.count \in Nat

\* The levels l of pass i are those of its target t: one unless the next pass asks for
\* more, then all there are, and of the picture t holds.
LevelsFit(i, l, t) ==
  /\ IsLevels(l)
  /\ ~ProducesMips(i) => l.count = 1
  /\ (ProducesMips(i) /\ t.live) => l.count = MipLevelCountFor(t.size)
  /\ (l.count > 1 /\ t.content # Black) => l.of = t.content

IsPair(r) == r = [fbo |-> r.fbo, twin |-> r.twin]

\* The inductive invariant of the levels.
LevelsAreKept ==
  /\ Len(settings) = Len(passes) /\ settings \in Seq(Settings)
  /\ DOMAIN levels = DOMAIN passes
  /\ \A i \in DOMAIN passes : /\ IsPair(levels[i])
                              /\ LevelsFit(i, levels[i].fbo, passes[i].fbo)
                              /\ LevelsFit(i, levels[i].twin, passes[i].twin)
  /\ IsLevels(sourceLevels)
  /\ DOMAIN sampled = DOMAIN drawn /\ DOMAIN drawn \subseteq DOMAIN passes

LEMMA MipLevelCountType ==
  ASSUME NEW size
  PROVE  MipLevelCountFor(size) \in Nat
<1> DEFINE K == {k \in 0..14 : 2 ^ k <= Greater(1, Greater(size[1], size[2]))}
<1>1. K \in SUBSET (0..14)  OBVIOUS
<1>2. IsFiniteSet(0..14)
  <2>1. \A m, n \in Int : IsFiniteSet(m..n)  BY FS_Interval, Zenon
  <2>2. 0 \in Int /\ 14 \in Int  OBVIOUS
  <2> QED  BY <2>1, <2>2, Zenon
<1> HIDE DEF K
<1>3. IsFiniteSet(K)  BY <1>1, <1>2, FS_Subset
<1>4. Cardinality(K) \in Nat  BY <1>3, FS_CardinalityType
<1> QED  BY <1>4 DEF MipLevelCountFor, K

\* Reducing a picture leaves the number of levels.
LEMMA GeneratedShows ==
  ASSUME NEW l, IsLevels(l), NEW picture
  PROVE  /\ IsLevels(Generated(l, picture)) /\ Generated(l, picture).count = l.count
         /\ l.count > 1 => Generated(l, picture).of = picture
<1>1. CASE l.count <= 1  BY <1>1 DEF Generated, IsLevels
<1>2. CASE ~(l.count <= 1)
  <2>1. Generated(l, picture) = [l EXCEPT !.of = picture]  BY <1>2 DEF Generated
  <2> QED  BY <2>1 DEF IsLevels
<1> QED  BY <1>1, <1>2

LEMMA AllocatedFits ==
  ASSUME NEW n \in Nat
  PROVE  IsLevels(Allocated(n)) /\ Allocated(n).count = n
  BY DEF Allocated, Levels, IsLevels

\* rebuild_chain keeps the levels with the targets.
LEMMA RefreshedLevelsFit ==
  ASSUME TypeOK, TargetsAreOwned, LevelsAreKept, NEW i \in DOMAIN passes, NEW size
  PROVE  LET r == Refreshed(i, size)
             l == RefreshedLevels(i, size)
         IN  IsPair(l) /\ LevelsFit(i, l.fbo, r.fbo) /\ LevelsFit(i, l.twin, r.twin)
<1> DEFINE res == passes[i]
           r   == Refreshed(i, size)
           l   == RefreshedLevels(i, size)
           blank == Target(size, Black)
           n     == IF ProducesMips(i) THEN MipLevelCountFor(size) ELSE 1
           fresh == Allocated(n)
           kept  == IF Fits(res.fbo, size) THEN levels[i].fbo ELSE fresh
           keptFbo == IF Fits(res.fbo, size) THEN res.fbo ELSE blank
<1> SUFFICES IsPair(l) /\ LevelsFit(i, l.fbo, r.fbo) /\ LevelsFit(i, l.twin, r.twin)
  OBVIOUS
<1>1. IsResource(res) /\ (res.target => res.owns) /\ (~res.target => ~res.twin.live)
  BY DEF TypeOK, TargetsAreOwned
<1>2. /\ IsPair(levels[i])
      /\ LevelsFit(i, levels[i].fbo, res.fbo) /\ LevelsFit(i, levels[i].twin, res.twin)
  BY DEF LevelsAreKept
<1>3. /\ IsTarget(NoTarget) /\ ~NoTarget.live /\ NoTarget.content = Black
      /\ IsTarget(blank) /\ blank.live /\ blank.size = size /\ blank.content = Black
  BY TargetShape DEF NoTarget, Target
<1>4. n \in Nat  BY MipLevelCountType
<1>5. LevelsFit(i, fresh, blank)
  <2>1. IsLevels(fresh) /\ fresh.count = n  BY <1>4, AllocatedFits
  <2> QED  BY <1>3, <2>1 DEF LevelsFit
<1>6. LevelsFit(i, kept, keptFbo) /\ IsTarget(keptFbo)
  BY <1>1, <1>2, <1>3, <1>5 DEF IsResource
<1>7. LevelsFit(i, kept, blank)
  <2>1. CASE Fits(res.fbo, size)
    <3>1. kept = levels[i].fbo /\ res.fbo.live /\ res.fbo.size = size  BY <2>1 DEF Fits
    <3> QED  BY <1>2, <1>3, <3>1 DEF LevelsFit
  <2>2. CASE ~Fits(res.fbo, size)  BY <1>5, <2>2
  <2> QED  BY <2>1, <2>2
<1>8. CASE ~OwnsNow(i)
  <2>1. l = [fbo |-> Allocated(1), twin |-> Allocated(1)]  BY <1>8 DEF RefreshedLevels
  <2>2. r = [res EXCEPT !.fbo = NoTarget]  BY <1>8 DEF Refreshed
  <2>3. r.fbo = NoTarget /\ r.twin = res.twin  BY <1>1, <1>3, <2>2, ReplaceFbo
  <2>4. ~r.twin.live /\ ~r.fbo.live  BY <1>1, <1>3, <1>8, <2>3 DEF OwnsNow
  <2>5. IsLevels(Allocated(1)) /\ Allocated(1).count = 1  BY AllocatedFits
  <2> HIDE DEF r, l
  <2> QED  BY <2>1, <2>4, <2>5 DEF LevelsFit, IsPair
<1>9. CASE OwnsNow(i) /\ ~res.target
  <2>1. l = [levels[i] EXCEPT !.fbo = kept]  BY <1>9 DEF RefreshedLevels
  <2>2. r = [res EXCEPT !.fbo = keptFbo]  BY <1>9 DEF Refreshed
  <2> HIDE DEF kept, keptFbo, r, l, res
  <2>3. r.fbo = keptFbo /\ r.twin = res.twin  BY <1>1, <1>6, <2>2, ReplaceFbo
  <2>4. IsPair(l) /\ l.fbo = kept /\ l.twin = levels[i].twin  BY <1>2, <2>1 DEF IsPair
  <2> QED  BY <1>2, <1>6, <2>3, <2>4
<1>10. CASE OwnsNow(i) /\ res.target /\ Fits(res.fbo, size) /\ Fits(res.twin, size)
  <2>1. l = [fbo |-> levels[i].twin, twin |-> levels[i].fbo]  BY <1>10 DEF RefreshedLevels
  <2>2. r = [res EXCEPT !.fbo = res.twin, !.twin = res.fbo]  BY <1>10 DEF Refreshed, Paired
  <2>3. r.fbo = res.twin /\ r.twin = res.fbo  BY <1>1, <2>2 DEF IsResource
  <2> HIDE DEF r, l, res
  <2> QED  BY <1>2, <2>1, <2>3 DEF IsPair
<1>11. CASE OwnsNow(i) /\ res.target /\ ~(Fits(res.fbo, size) /\ Fits(res.twin, size))
  <2>1. l = [fbo |-> fresh, twin |-> kept]  BY <1>11 DEF RefreshedLevels, Cleared
  <2>2. r = [res EXCEPT !.fbo = blank, !.twin = blank]  BY <1>11 DEF Refreshed, Paired
  <2>3. r.fbo = blank /\ r.twin = blank  BY <1>1, <2>2 DEF IsResource
  <2> HIDE DEF r, l, res, kept, blank, fresh
  <2> QED  BY <1>5, <1>7, <2>1, <2>3 DEF IsPair
<1> QED  BY <1>8, <1>9, <1>10, <1>11

\* Drawing keeps the levels with the picture.
LEMMA DrawnLevelsFit ==
  ASSUME TypeOK, TargetsAreOwned, LevelsAreKept, NEW i \in DOMAIN passes, NEW size
  PROVE  LET p == Draw(i, Refreshed(i, size))
             l == DrawnLevels(i, RefreshedLevels(i, size))
         IN  IsPair(l) /\ LevelsFit(i, l.fbo, p.fbo) /\ LevelsFit(i, l.twin, p.twin)
<1> DEFINE r == Refreshed(i, size)
           l == RefreshedLevels(i, size)
           p == Draw(i, r)
           d == DrawnLevels(i, l)
<1> SUFFICES IsPair(d) /\ LevelsFit(i, d.fbo, p.fbo) /\ LevelsFit(i, d.twin, p.twin)
  OBVIOUS
<1>1. IsPair(l) /\ LevelsFit(i, l.fbo, r.fbo) /\ LevelsFit(i, l.twin, r.twin)
  BY RefreshedLevelsFit
<1>2. IsResource(r)
  BY RefreshKeepsPairs DEF TypeOK
<1>3. r.fbo.live <=> OwnsNow(i)
  BY RefreshGivesTargets
<1>4. ~OwnsNow(i) => l.fbo.count = 1
  BY DEF RefreshedLevels, Allocated, Levels
<1> HIDE DEF r, l
<1>5. /\ p.twin = r.twin
      /\ p.fbo.live = r.fbo.live /\ p.fbo.size = r.fbo.size
      /\ r.fbo.live => p.fbo.content = <<i, frameCount>>
  BY <1>2, DrawKeepsShape
<1>6. CASE ProducesMips(i)
  <2>1. d = [l EXCEPT !.fbo = Generated(l.fbo, <<i, frameCount>>)]
    BY <1>6 DEF DrawnLevels
  <2>2. IsPair(d) /\ d.fbo = Generated(l.fbo, <<i, frameCount>>) /\ d.twin = l.twin
    BY <1>1, <2>1 DEF IsPair
  <2>3. IsLevels(l.fbo)  BY <1>1 DEF LevelsFit
  <2> HIDE DEF d, p
  <2>4. /\ IsLevels(d.fbo) /\ d.fbo.count = l.fbo.count
        /\ l.fbo.count > 1 => d.fbo.of = <<i, frameCount>>
    BY <2>2, <2>3, GeneratedShows
  <2>5. LevelsFit(i, d.fbo, p.fbo)
    <3>1. d.fbo.count > 1 => p.fbo.content = <<i, frameCount>>
      BY <1>3, <1>4, <1>5, <2>4
    <3> QED  BY <1>1, <1>5, <1>6, <2>4, <3>1 DEF LevelsFit
  <2> QED  BY <1>1, <1>5, <2>2, <2>5
<1>7. CASE ~ProducesMips(i)
  <2>1. d = l  BY <1>7 DEF DrawnLevels
  <2> HIDE DEF d, p
  <2>2. l.fbo.count = 1 /\ IsLevels(l.fbo)  BY <1>1, <1>7 DEF LevelsFit
  <2>3. LevelsFit(i, l.fbo, p.fbo)  BY <1>7, <2>2 DEF LevelsFit
  <2> QED  BY <1>1, <1>5, <2>1, <2>3
<1> QED  BY <1>6, <1>7

\* The levels of the passes as they are drawn.
RebuiltLevels == [i \in DOMAIN passes |-> RefreshedLevels(i, OutputSizes[i])]

\* The steps that touch the levels keep them with the targets.
LEMMA LevelsStayKept ==
  ASSUME TypeOK, TargetsAreOwned, LevelsAreKept, [SampledNext]_sampledVars
  PROVE  LevelsAreKept'
<1>1. ASSUME UNCHANGED settings, Len(passes') = Len(passes)
      PROVE  \A i : ProducesMips(i)' <=> ProducesMips(i)
  BY <1>1 DEF ProducesMips
<1>2. CASE UNCHANGED <<passes, drawn, settings, levels, sampled>> /\ IsLevels(sourceLevels')
  <2>1. \A i : ProducesMips(i)' <=> ProducesMips(i)  BY <1>1, <1>2
  <2> QED  BY <1>2, <2>1 DEF LevelsAreKept, LevelsFit, IsPair
<1>3. ASSUME NEW f \in Frames, SampledSource(f) PROVE LevelsAreKept'
  <2>1. UNCHANGED <<passes, drawn, settings, levels, sampled>>
    BY <1>3 DEF SampledSource, SetSource, AdvanceSource
  <2>2. IsLevels(sourceLevels')
    BY <1>3 DEF SampledSource, BuildSource, Levels, IsLevels
  <2> QED  BY <1>2, <2>1, <2>2
<1>4. CASE ResetFeedback /\ Keeps
  <2>1. DOMAIN passes' = DOMAIN passes /\ Len(passes') = Len(passes)
    BY <1>4, PassesKeepTheirSlots
  <2>2. ASSUME NEW i \in DOMAIN passes
        PROVE  /\ passes'[i].fbo = passes[i].fbo
               /\ passes'[i].twin \in {passes[i].twin, NoTarget}
    <3>1. IsResource(passes[i]) /\ IsTarget(NoTarget)
      BY TargetShape DEF TypeOK
    <3>2. passes'[i] = IF passes[i].target THEN [passes[i] EXCEPT !.twin = NoTarget]
                                           ELSE passes[i]
      BY <1>4 DEF ResetFeedback
    <3> QED  BY <3>1, <3>2, ReplaceTwin
  <2>3. UNCHANGED <<settings, levels, sourceLevels, sampled, drawn>>
    BY <1>4 DEF Keeps, ResetFeedback
  <2>4. \A i : ProducesMips(i)' <=> ProducesMips(i)  BY <1>1, <2>1, <2>3
  <2>5. ASSUME NEW i \in DOMAIN passes
        PROVE  /\ IsPair(levels'[i])
               /\ LevelsFit(i, levels[i].fbo, passes[i].fbo)'
               /\ LevelsFit(i, levels[i].twin, passes[i].twin)'
    <3>1. /\ IsPair(levels[i])
          /\ LevelsFit(i, levels[i].fbo, passes[i].fbo)
          /\ LevelsFit(i, levels[i].twin, passes[i].twin)
      BY DEF LevelsAreKept
    <3>2. ~NoTarget.live /\ NoTarget.content = Black
      BY DEF NoTarget
    <3> QED  BY <2>2, <2>3, <2>4, <3>1, <3>2 DEF LevelsFit, IsPair
  <2> QED  BY <2>1, <2>3, <2>5 DEF LevelsAreKept, IsPair
<1>5. ASSUME NEW chain \in Chains, SampledChain(chain) PROVE LevelsAreKept'
  <2>1. /\ settings' = SettingsOf[chain] /\ drawn' = << >> /\ sampled' = << >>
        /\ UNCHANGED sourceLevels
        /\ levels' = [i \in DOMAIN chain |-> [fbo |-> Allocated(1), twin |-> Allocated(1)]]
    BY <1>5 DEF SampledChain, SetChain
  <2>2. /\ DOMAIN passes' = DOMAIN chain /\ Len(passes') = Len(chain)
        /\ \A i \in DOMAIN chain : passes'[i].fbo = NoTarget /\ passes'[i].twin = NoTarget
    <3>1. DOMAIN passes' = DOMAIN chain /\ Len(passes') = Len(chain)
      BY <1>5, BuiltSlots DEF SampledChain
    <3>2. \A i \in DOMAIN chain :
            passes'[i] = BuildPass(chain, FeedbackTargets(chain, AliasTable(chain)), i)
      BY <1>5 DEF SampledChain, SetChain
    <3> QED  BY <3>1, <3>2, BuiltPassShape
  <2>3. settings' \in Seq(Settings) /\ Len(settings') = Len(passes')
    BY <2>1, <2>2, SettingsAssumption
  <2>4. IsLevels(Allocated(1)) /\ Allocated(1).count = 1
    BY AllocatedFits
  <2>5. ~NoTarget.live
    BY TargetShape
  <2>6. ASSUME NEW i \in DOMAIN chain
        PROVE  /\ IsPair(levels'[i])
               /\ LevelsFit(i, levels[i].fbo, passes[i].fbo)'
               /\ LevelsFit(i, levels[i].twin, passes[i].twin)'
    <3>1. /\ IsPair(levels'[i])
          /\ levels'[i].fbo = Allocated(1) /\ levels'[i].twin = Allocated(1)
      BY <2>1 DEF IsPair
    <3> QED  BY <2>2, <2>4, <2>5, <3>1 DEF LevelsFit
  <2> QED  BY <2>1, <2>2, <2>3, <2>6 DEF LevelsAreKept
<1>6. CASE SampledRender
  <2>1. DOMAIN passes' = DOMAIN passes /\ Len(passes') = Len(passes) /\ UNCHANGED settings
    BY <1>6, PassesKeepTheirSlots DEF SampledRender
  <2>2. \A i : ProducesMips(i)' <=> ProducesMips(i)  BY <1>1, <2>1
  <2>3. DOMAIN sampled' = DOMAIN drawn' /\ DOMAIN drawn' = DOMAIN passes
    BY <1>6, RecordedOf DEF SampledRender
  <2>4. ASSUME NEW i \in DOMAIN passes
        PROVE  /\ IsPair(levels'[i])
               /\ LevelsFit(i, levels[i].fbo, passes[i].fbo)'
               /\ LevelsFit(i, levels[i].twin, passes[i].twin)'
    <3> DEFINE p == Draw(i, Refreshed(i, OutputSizes[i]))
               d == DrawnLevels(i, RefreshedLevels(i, OutputSizes[i]))
    <3>1. IsPair(d) /\ LevelsFit(i, d.fbo, p.fbo) /\ LevelsFit(i, d.twin, p.twin)
      BY DrawnLevelsFit
    <3>2. levels'[i] = d
      BY <1>6 DEF SampledRender
    <3>3. passes'[i] = p
      BY <1>6 DEF SampledRender, Render, Rebuilt
    <3> HIDE DEF p, d
    <3> QED  BY <2>2, <3>1, <3>2, <3>3 DEF LevelsFit, IsPair
  <2>5. DOMAIN levels' = DOMAIN passes
    BY <1>6 DEF SampledRender
  <2>6. IsLevels(sourceLevels')
    <3>1. IsLevels(EnsureSourceMips)
      <4>1. \A n \in Nat : IsLevels(BuildSource(n))
        BY DEF BuildSource, Levels, IsLevels
      <4> QED  BY <4>1, MipLevelCountType DEF LevelsAreKept, EnsureSourceMips
    <3> QED  BY <1>6, <3>1, GeneratedShows DEF SampledRender, SourceLevels
  <2> QED  BY <2>1, <2>3, <2>4, <2>5, <2>6 DEF LevelsAreKept
<1>7. ASSUME \/ \E size \in PaneSizes : SetViewport(size)
             \/ \E cfg \in Configs : SetSimulatedViewport(cfg)
             \/ \E names \in LutSets : SetLuts(names)
             \/ \E name \in ParamNames, value \in Values : SetParameter(name, value)
             \/ \E overrides \in Overrides : ApplyOverrides(overrides),
             Keeps
      PROVE  LevelsAreKept'
  <2>1. UNCHANGED <<passes, drawn, settings, levels, sampled, sourceLevels>>
    BY <1>7 DEF SetViewport, SetSimulatedViewport, SetLuts, SetParameter, ApplyOverrides, Keeps
  <2>2. IsLevels(sourceLevels')
    BY <2>1 DEF LevelsAreKept, IsLevels
  <2> QED  BY <1>2, <2>1, <2>2
<1>8. CASE UNCHANGED sampledVars
  <2>1. UNCHANGED <<passes, drawn, settings, levels, sampled, sourceLevels>>
    BY <1>8 DEF sampledVars, vars
  <2>2. IsLevels(sourceLevels')
    BY <2>1 DEF LevelsAreKept, IsLevels
  <2> QED  BY <1>2, <2>1, <2>2
<1> QED
  BY <1>3, <1>4, <1>5, <1>6, <1>7, <1>8 DEF SampledNext

\* Which levels, through which sampler, a pass sees of a texture it samples.
LEMMA SampledOf ==
  ASSUME TypeOK, TargetsAreOwned, SampledRender, NEW i \in DOMAIN passes, NEW c \in passes[i].slots
  PROVE  /\ Read(i, c)' = Resolve(Rebuilt, i, c)
         /\ sampled'[i][c].levels = LevelsOf(Resolve(Rebuilt, i, c), RebuiltLevels)
         /\ sampled'[i][c].sampler = SamplerOf(Resolve(Rebuilt, i, c))
<1>1. drawn'[i].inputs[c].texture = Resolve(Rebuilt, i, c)
  BY RecordedOf DEF SampledRender
<1> DEFINE l == [j \in DOMAIN passes |-> RefreshedLevels(j, OutputSizes[j])]
           t(j, class) == drawn'[j].inputs[class].texture
<1>2. sampled' = [j \in DOMAIN passes |->
                    [class \in passes[j].slots |->
                       [levels |-> LevelsOf(t(j, class), l), sampler |-> SamplerOf(t(j, class))]]]
  BY DEF SampledRender
<1>3. l = RebuiltLevels
  BY DEF RebuiltLevels
<1> HIDE DEF l
<1>4. /\ sampled'[i][c].levels = LevelsOf(t(i, c), l)
      /\ sampled'[i][c].sampler = SamplerOf(t(i, c))
  BY <1>2
<1> QED  BY <1>1, <1>3, <1>4 DEF Read

LEMMA SourceShown ==
  ASSUME LevelsAreKept
  PROVE  /\ SourceLevels.count = IF Pass0WantsSourceMips THEN MipLevelCountFor(SizeOf[source])
                                 ELSE 1
         /\ (Pass0WantsSourceMips /\ SourceLevels.count > 1) => SourceLevels.of = source
<1> DEFINE want == IF Pass0WantsSourceMips THEN MipLevelCountFor(SizeOf[source]) ELSE 1
<1>1. want \in Nat  BY MipLevelCountType
<1>2. IsLevels(BuildSource(want)) /\ BuildSource(want).count = want
  BY <1>1 DEF BuildSource, Levels, IsLevels
<1>3. EnsureSourceMips = IF want # sourceLevels.count THEN BuildSource(want) ELSE sourceLevels
  BY DEF EnsureSourceMips
<1> HIDE DEF want
<1>4. IsLevels(EnsureSourceMips) /\ EnsureSourceMips.count = want
  BY <1>2, <1>3 DEF LevelsAreKept
<1>5. /\ IsLevels(Generated(EnsureSourceMips, source))
      /\ Generated(EnsureSourceMips, source).count = want
      /\ want > 1 => Generated(EnsureSourceMips, source).of = source
  BY <1>4, GeneratedShows
<1>6. SourceLevels.count = want
  BY <1>4, <1>5 DEF SourceLevels
<1>7. (Pass0WantsSourceMips /\ want > 1) => SourceLevels.of = source
  BY <1>5 DEF SourceLevels
<1> QED  BY <1>6, <1>7 DEF want

LEMMA LutShown ==
  ASSUME NEW name, LutSettings[name].mipmap_input, LutLevels(name).count > 1
  PROVE  LutLevels(name).of = name
<1> DEFINE b == BuildSource(MipLevelCountFor(LutSize))
<1>1. IsLevels(b)
  BY MipLevelCountType DEF BuildSource, Levels, IsLevels
<1>2. LutLevels(name) = Generated(b, name)
  BY DEF LutLevels
<1> HIDE DEF b
<1> QED  BY <1>1, <1>2, GeneratedShows

LEMMA RebuiltLevelsFit ==
  ASSUME TypeOK, TargetsAreOwned, LevelsAreKept, NEW n \in DOMAIN passes
  PROVE  /\ IsPair(RebuiltLevels[n])
         /\ LevelsFit(n, RebuiltLevels[n].fbo, Rebuilt[n].fbo)
         /\ LevelsFit(n, RebuiltLevels[n].twin, Rebuilt[n].twin)
<1>1. RebuiltLevels[n] = RefreshedLevels(n, OutputSizes[n])  BY DEF RebuiltLevels
<1>2. Rebuilt[n] = Refreshed(n, OutputSizes[n])  BY DEF Rebuilt
<1> QED  BY <1>1, <1>2, RefreshedLevelsFit

\* What an earlier pass has just drawn.
LEMMA FboShown ==
  ASSUME TypeOK, TargetsAreOwned, LevelsAreKept, NEW i \in DOMAIN passes,
         NEW n \in DOMAIN passes, n < i, Rebuilt[n].fbo.live
  PROVE  LET t == FboTexture(Rebuilt, i, n)
             l == LevelsOf(t, RebuiltLevels)
         IN  /\ SamplerOf(t) = MakeSampler(settings[n + 1])
             /\ t.content = <<n, frameCount>> /\ t.size = Rebuilt[n].fbo.size
             /\ settings[n + 1].mipmap_input => /\ l.count = MipLevelCountFor(t.size)
                                                /\ l.count > 1 => l.of = t.content
<1> DEFINE t == FboTexture(Rebuilt, i, n)
           r == RebuiltLevels[n]
           d == DrawnLevels(n, r).fbo
<1>1. n \in Nat /\ i \in Nat /\ n + 1 <= Len(passes) /\ Len(passes) \in Nat /\ n < Len(passes)
  BY DEF TypeOK
<1>2. /\ t.from = "fbo" /\ t.index = n /\ t.size = Rebuilt[n].fbo.size
      /\ t.content = <<n, frameCount>>
  BY DEF FboTexture, Texture
<1>3. IsPair(r) /\ LevelsFit(n, r.fbo, Rebuilt[n].fbo)
  BY RebuiltLevelsFit
<1> HIDE DEF t, r
<1>4. LevelsOf(t, RebuiltLevels) = d
  BY <1>2 DEF LevelsOf, r
<1>5. SamplerOf(t) = MakeSampler(settings[n + 1])
  <2>1. Lesser(n + 1, Len(passes)) = n + 1  BY <1>1 DEF Lesser
  <2>2. SamplerOf(t) = SamplerAfter(n)  BY <1>2 DEF SamplerOf
  <2> QED  BY <2>1, <2>2 DEF SamplerAfter
<1>6. ASSUME settings[n + 1].mipmap_input
      PROVE  d.count = MipLevelCountFor(t.size) /\ (d.count > 1 => d.of = t.content)
  <2>1. ProducesMips(n)  BY <1>1, <1>6 DEF ProducesMips
  <2>2. d = Generated(r.fbo, <<n, frameCount>>)
    <3>1. DrawnLevels(n, r) = [r EXCEPT !.fbo = Generated(r.fbo, <<n, frameCount>>)]
      BY <2>1 DEF DrawnLevels
    <3> QED  BY <1>3, <3>1 DEF IsPair
  <2>3. IsLevels(r.fbo) /\ r.fbo.count = MipLevelCountFor(Rebuilt[n].fbo.size)
    BY <1>3, <2>1 DEF LevelsFit
  <2> HIDE DEF d
  <2> QED  BY <1>2, <2>2, <2>3, GeneratedShows
<1> HIDE DEF d
<1> QED  BY <1>2, <1>4, <1>5, <1>6 DEF t

\* What a pass drew in the frame before: the last pass has a single level, whatever
\* its own settings say its sampler may reach.
LEMMA TwinShown ==
  ASSUME TypeOK, TargetsAreOwned, LevelsAreKept, NEW n \in DOMAIN passes,
         NEW t, t = Texture("twin", n, Rebuilt[n].twin.size, Rebuilt[n].twin.content),
         SamplerOf(t).coarse, LevelsOf(t, RebuiltLevels).count > 1, t.content # Black
  PROVE  LevelsOf(t, RebuiltLevels).of = t.content
<1>1. t.from = "twin" /\ t.index = n /\ t.content = Rebuilt[n].twin.content
  BY DEF Texture
<1>2. LevelsOf(t, RebuiltLevels) = RebuiltLevels[n].twin
  BY <1>1 DEF LevelsOf
<1>3. LevelsFit(n, RebuiltLevels[n].twin, Rebuilt[n].twin)
  BY RebuiltLevelsFit
<1> QED  BY <1>1, <1>2, <1>3 DEF LevelsFit

\* A frame drawn now shows one picture at all levels of what it samples.
LEMMA OnePictureShown ==
  ASSUME TypeOK, TargetsAreOwned, LevelsAreKept, source # NoFrame,
         NEW i \in DOMAIN passes, NEW c \in TextureClasses,
         NEW t, t = Resolve(Rebuilt, i, c),
         SamplerOf(t).coarse, LevelsOf(t, RebuiltLevels).count > 1, t.content # Black
  PROVE  LevelsOf(t, RebuiltLevels).of = t.content
<1>1. \A s : MakeSampler(s).coarse = s.mipmap_input
  BY DEF MakeSampler
<1>2. t # Placeholder
  BY DEF Placeholder, Texture
<1>3. CASE t = SourceTexture
  <2>1. t.from = "source" /\ t.content = source  BY <1>3 DEF SourceTexture, Texture
  <2>2. LevelsOf(t, RebuiltLevels) = SourceLevels  BY <2>1 DEF LevelsOf
  <2>3. SamplerOf(t) = MakeSampler(settings[1])  BY <2>1 DEF SamplerOf, SamplerAfterSource
  <2> QED  BY <1>1, <2>1, <2>2, <2>3, SourceShown DEF Pass0WantsSourceMips
<1>4. ASSUME NEW n \in DOMAIN passes, n < i, Rebuilt[n].fbo.live, t = FboTexture(Rebuilt, i, n)
      PROVE  LevelsOf(t, RebuiltLevels).of = t.content
  <2>1. SamplerOf(t) = MakeSampler(settings[n + 1])  BY <1>4, FboShown
  <2>2. settings[n + 1].mipmap_input  BY <1>1, <2>1
  <2> QED  BY <1>4, <2>2, FboShown
<1>5. ASSUME NEW n \in DOMAIN passes,
             t = Texture("twin", n, Rebuilt[n].twin.size, Rebuilt[n].twin.content)
      PROVE  LevelsOf(t, RebuiltLevels).of = t.content
  BY <1>5, TwinShown
<1>6. ASSUME NEW k \in Nat \ {0}, t = Texture("history", k, SizeOf[history[k]], history[k])
      PROVE  FALSE
  <2>1. t.from = "history"  BY <1>6 DEF Texture
  <2>2. LevelsOf(t, RebuiltLevels).count = 1  BY <2>1 DEF LevelsOf, HistoryLevels, Levels
  <2> QED  BY <2>2
<1>7. ASSUME NEW name, t = Texture("lut", 0, LutSize, name)
      PROVE  LevelsOf(t, RebuiltLevels).of = t.content
  <2>1. t.from = "lut" /\ t.content = name  BY <1>7 DEF Texture
  <2>2. LevelsOf(t, RebuiltLevels) = LutLevels(name)  BY <2>1 DEF LevelsOf
  <2>3. SamplerOf(t) = MakeSampler(LutSettings[name])  BY <2>1 DEF SamplerOf
  <2> QED  BY <1>1, <2>1, <2>2, <2>3, LutShown
<1> QED
  BY <1>2, <1>3, <1>4, <1>5, <1>6, <1>7, ResolvedTo

\* The input of a pass is read with the pass's own settings and at every level.
LEMMA InputAsAsked ==
  ASSUME TypeOK, TargetsAreOwned, LevelsAreKept, source # NoFrame,
         NEW i \in DOMAIN passes, NEW c \in TextureClasses, c[1] = "Source",
         NEW t, t = Resolve(Rebuilt, i, c)
  PROVE  /\ SamplerOf(t) = MakeSampler(settings[i])
         /\ settings[i].mipmap_input => LevelsOf(t, RebuiltLevels).count = MipLevelCountFor(t.size)
<1>1. CASE i = 1 /\ t = SourceTexture
  <2>1. t.from = "source" /\ t.size = SizeOf[source]
    BY <1>1 DEF SourceTexture, SourceSize, Texture
  <2>2. LevelsOf(t, RebuiltLevels) = SourceLevels  BY <2>1 DEF LevelsOf
  <2>3. SamplerOf(t) = MakeSampler(settings[1])  BY <2>1 DEF SamplerOf, SamplerAfterSource
  <2> QED  BY <1>1, <2>1, <2>2, <2>3, SourceShown DEF Pass0WantsSourceMips
<1>2. CASE i > 1 /\ i - 1 \in DOMAIN passes /\ t = FboTexture(Rebuilt, i, i - 1)
  <2>1. i \in Nat /\ i <= Len(passes) /\ Len(passes) \in Nat  BY DEF TypeOK
  <2>2. i - 1 < i /\ (i - 1) + 1 = i /\ i - 1 # Len(passes)  BY <2>1
  <2>3. Rebuilt[i - 1].fbo.live  BY <1>2, <2>2, RebuiltPasses
  <2> DEFINE n == i - 1
  <2>4. n \in DOMAIN passes /\ n < i /\ Rebuilt[n].fbo.live /\ n + 1 = i
    BY <1>2, <2>2, <2>3
  <2>5. t = FboTexture(Rebuilt, i, n)  BY <1>2
  <2> HIDE DEF n
  <2> QED  BY <2>4, <2>5, FboShown
<1> QED
  BY <1>1, <1>2, ResolvedTo

\* What a pass is told of its textures is so, in every chain and with every setting:
\* the sampler bound is the one after the producer, the levels are allocated by the
\* producer, and yet each pass reads its input as it asks.
THEOREM TexturesDescribed == SampledSpec => []TexturesAreAsDescribed
<1> DEFINE Described == LevelsShowOnePicture /\ SourceIsSampledAsAsked
<1>1. SampledInit => Init /\ LevelsAreKept /\ Described
  <2> SUFFICES ASSUME SampledInit PROVE Init /\ LevelsAreKept /\ Described
    OBVIOUS
  <2>1. Init  BY DEF SampledInit
  <2>2. IsLevels(sourceLevels)
    BY AllocatedFits DEF SampledInit
  <2>3. LevelsAreKept
    BY <2>2 DEF SampledInit, Init, LevelsAreKept
  <2>4. Described
    BY DEF SampledInit, LevelsShowOnePicture, SourceIsSampledAsAsked
  <2> QED  BY <2>1, <2>3, <2>4
<1>2. [SampledNext]_sampledVars => [Next]_vars
  BY DEF SampledNext, sampledVars, SampledSource, SampledChain, SampledRender, Next
<1>3. TypeOK /\ TargetsAreOwned /\ LevelsAreKept /\ [SampledNext]_sampledVars => LevelsAreKept'
  BY LevelsStayKept
<1>4. TypeOK /\ TargetsAreOwned /\ LevelsAreKept /\ Described /\ [SampledNext]_sampledVars
        => Described'
  <2> SUFFICES ASSUME TypeOK, TargetsAreOwned, LevelsAreKept, Described,
                      [SampledNext]_sampledVars
               PROVE  Described'
    OBVIOUS
  <2>1. CASE UNCHANGED <<drawn, settings, sampled>>
    BY <2>1 DEF LevelsShowOnePicture, SourceIsSampledAsAsked, Coarse, Inputs, Read
  <2>2. CASE sampled' = << >>
    BY <2>2 DEF LevelsShowOnePicture, SourceIsSampledAsAsked
  <2>3. CASE SampledRender
    <3>1. DOMAIN sampled' = DOMAIN passes /\ source # NoFrame /\ UNCHANGED settings
      BY <2>3 DEF SampledRender, Render
    <3>2. ASSUME NEW i \in DOMAIN passes, NEW c \in Inputs(i)'
          PROVE  /\ c \in TextureClasses
                 /\ Read(i, c)' = Resolve(Rebuilt, i, c)
                 /\ sampled'[i][c].levels = LevelsOf(Resolve(Rebuilt, i, c), RebuiltLevels)
                 /\ sampled'[i][c].sampler = SamplerOf(Resolve(Rebuilt, i, c))
      <4>1. c \in passes[i].slots /\ c \in TextureClasses
        BY <2>3, RecordedOf DEF SampledRender, Inputs
      <4> QED  BY <2>3, <4>1, SampledOf
    <3>3. LevelsShowOnePicture'
      <4> SUFFICES ASSUME NEW i \in DOMAIN passes, NEW c \in Inputs(i)',
                          sampled'[i][c].sampler.coarse, sampled'[i][c].levels.count > 1,
                          Read(i, c)'.content # Black
                   PROVE  sampled'[i][c].levels.of = Read(i, c)'.content
        BY <3>1 DEF LevelsShowOnePicture, Coarse
      <4> QED  BY <3>1, <3>2, OnePictureShown
    <3>4. SourceIsSampledAsAsked'
      <4> SUFFICES ASSUME NEW i \in DOMAIN passes, NEW c \in Inputs(i)', c[1] = "Source"
                   PROVE  /\ sampled'[i][c].sampler = MakeSampler(settings'[i])
                          /\ settings'[i].mipmap_input =>
                               sampled'[i][c].levels.count = MipLevelCountFor(Read(i, c)'.size)
        BY <3>1 DEF SourceIsSampledAsAsked, MakeSampler, Filter, AddressMode
      <4> QED  BY <3>1, <3>2, InputAsAsked
    <3> QED  BY <3>3, <3>4
  <2>4. [SampledNext]_sampledVars =>
          UNCHANGED <<drawn, settings, sampled>> \/ sampled' = << >> \/ SampledRender
    BY DEF SampledNext, sampledVars, vars, SampledSource, SampledChain, Keeps, SetSource,
           AdvanceSource, ResetFeedback, SetViewport, SetSimulatedViewport, SetLuts,
           SetParameter, ApplyOverrides
  <2> QED  BY <2>1, <2>2, <2>3, <2>4
<1>5. SampledSpec => Spec
  BY <1>1, <1>2, PTL DEF SampledSpec, Spec
<1>6. SampledSpec => [](TypeOK /\ TargetsAreOwned /\ SizeUniformsDescribeTextures)
  BY <1>5, TypeCorrect, TargetsOwned, SizesDescribed, PTL
<1>7. SampledSpec => [](LevelsAreKept /\ Described)
  BY <1>1, <1>3, <1>4, <1>6, PTL DEF SampledSpec
<1> QED  BY <1>6, <1>7, PTL DEF TexturesAreAsDescribed
=============================================================================
