--------------------------- MODULE ShaderPipeline ----------------------------
(* One .slang shader on its way to the screen: slang-compile's lib.rs and      *)
(* cache.rs (include, preprocess, compile both stages, normalize each), then   *)
(* Renderer::set_chain for a chain of this one pass, live parameters, and the  *)
(* packing of the uniform buffers on every frame.  The files of the disk       *)
(* change between requests.                                                    *)
EXTENDS SlangFrontEnd, PassBindings, UniformPacking

CONSTANTS
    Sources,      \* the shaders a caller may ask for: [lines, dir]
    Disks,        \* the contents the include files go through, path -> lines
    Overrides,    \* preset overrides applied with a chain: sequences of [name, value]
    Settings,     \* what a slider sends: [name, value]
    HasSpirvOpt,  \* whether spirv-opt can be found: a subset of BOOLEAN
    Hash(_),      \* the hash of a text: two texts may have the same
    MaxRequests, MaxFrames, FrameCountMod   \* bounds; the pass's frame_count_mod

VARIABLES disk, tools, cache, source, cached, phase, text, pre, raw, target,
          compiled, error, chain, store, buffers, frame, requests

front        == <<source, cached, text, pre, raw, target, compiled, error>>
back         == <<chain, store, buffers, frame>>
pipelineVars ==  <<disk, tools, cache, phase, requests, front, back>>

Working == {"resolved", "preprocessed", "compiled", "halfway", "normalized", "ready"}
Resting == {"idle", "built", "failed"}
Stages == {"vertex", "fragment"}
NoModule == Module(<<>>, EmptyMap, {}, <<>>, EmptyMap, EmptyMap)
NoStages == [s \in Stages |-> NoModule]
NoShader == [stages |-> NoStages, parameters |-> <<>>]
NoText0 == [error |-> "none", vertex |-> <<>>, fragment |-> <<>>, parameters |-> <<>>]
NoSource == [lines |-> <<>>, dir |-> <<>>]
NoBuffers == [ubo |-> <<>>, param |-> <<>>]

PipelineInit ==
    /\ disk \in Disks /\ tools \in HasSpirvOpt
    /\ cache = [t \in {} |-> NoShader]
    /\ source = NoSource /\ cached = FALSE /\ phase = "idle" /\ text = <<>> /\ pre = NoText0
    /\ raw = NoStages /\ target = 0 /\ compiled = NoShader /\ error = "none"
    /\ chain = NoReflection /\ store = Collect(<<>>, EmptyMap)
    /\ buffers = NoBuffers /\ frame = 0 /\ requests = 0

\* Someone edits an include file.
EditFile ==
    /\ phase \in Resting
    /\ disk' \in Disks \ {disk}
    /\ UNCHANGED <<tools, cache, phase, requests, front, back>>

Fail(why) == phase' = "failed" /\ error' = why

\* A bound: requests after the first are for the shader asked for before, through the cache.
Again(src, viaCache) == requests > 0 => src = source /\ viaCache /\ cached

\* compile_slang (uncached) or CompileCache::get_or_compile: the includes first.
Request(src, viaCache) ==
    /\ phase \in Resting /\ requests < MaxRequests /\ Again(src, viaCache)
    /\ \E resolved \in {ResolveIncludes(disk, src.lines, src.dir)} :
           /\ text' = resolved.lines
           /\ IF resolved.ok THEN phase' = "resolved" /\ error' = "none" ELSE Fail(resolved.error)
    /\ source' = src /\ cached' = viaCache /\ requests' = requests + 1
    /\ pre' = NoText0 /\ raw' = NoStages /\ target' = 0 /\ compiled' = NoShader
    /\ UNCHANGED <<disk, tools, cache, back>>

\* A mutant: keyed by the text before its includes.
CacheKeyOfSource(src, inlined) == Hash(src.lines)

\* The cache is keyed by a hash of the inlined text, so that an edited include
\* misses; a hit compares no texts.
CacheKey(src, inlined) == Hash(inlined)

CacheHit ==
    /\ phase = "resolved" /\ cached /\ CacheKey(source, text) \in DOMAIN cache
    /\ compiled' = cache[CacheKey(source, text)] /\ phase' = "ready"
    /\ UNCHANGED <<disk, tools, cache, requests, source, cached, text, pre, raw, target, error, back>>

RunPreprocess ==
    /\ phase = "resolved" /\ (cached => CacheKey(source, text) \notin DOMAIN cache)
    /\ pre' = Preprocess(text)
    /\ IF pre'.error = "none" THEN phase' = "preprocessed" /\ UNCHANGED error ELSE Fail(pre'.error)
    /\ UNCHANGED <<disk, tools, cache, requests, source, cached, text, raw, target, compiled, back>>

\* Both stages compile before a binding for the push block is chosen.
CompileStages ==
    /\ phase = "preprocessed"
    /\ \E v \in {Glslang(pre.vertex)}, f \in {Glslang(pre.fragment)} :
           IF v.ok /\ f.ok
           THEN /\ raw' = [s \in Stages |-> IF s = "vertex" THEN v.module ELSE f.module]
                /\ target' = FreeBindingAcross({v.module, f.module})
                /\ phase' = "compiled" /\ UNCHANGED error
           ELSE Fail("Compile") /\ UNCHANGED <<raw, target>>
    /\ UNCHANGED <<disk, tools, cache, requests, source, cached, text, pre, compiled, back>>

\* Inline (skipped without spirv-opt), rewrite the push block, split the samplers.
NormalizeStage(m, binding) ==
    Through(IF tools THEN SpirvOpt(m) ELSE m, LAMBDA inlined :
        Through(PushConstantToUbo(inlined, binding), LAMBDA pushed :
            IF pushed.ok THEN SplitCombinedSamplers(pushed.module) ELSE pushed))

Normalize(stage) ==
    /\ phase = (IF stage = "vertex" THEN "compiled" ELSE "halfway")
    /\ \E result \in {NormalizeStage(raw[stage], target)} :
           IF result.ok
           THEN /\ compiled' = [compiled EXCEPT !.stages[stage] = result.module]
                /\ phase' = (IF stage = "vertex" THEN "halfway" ELSE "normalized")
                /\ UNCHANGED error
           ELSE Fail(result.error) /\ UNCHANGED compiled
    /\ UNCHANGED <<disk, tools, cache, requests, source, cached, text, pre, raw, target, back>>

\* A spirv-opt that is there may run and fail, or its files do.
InliningFails(stage) ==
    /\ phase = (IF stage = "vertex" THEN "compiled" ELSE "halfway") /\ tools
    /\ Fail("SpirvOpt")
    /\ UNCHANGED <<disk, tools, cache, requests, source, cached, text, pre, raw, target, compiled, back>>

\* Only a shader that compiled enters the cache.
Answer ==
    /\ phase = "normalized"
    /\ compiled' = [compiled EXCEPT !.parameters = pre.parameters]
    /\ cache' = IF cached THEN With(cache, CacheKey(source, text), compiled') ELSE cache
    /\ phase' = "ready"
    /\ UNCHANGED <<disk, tools, requests, source, cached, text, pre, raw, target, error, back>>

\* set_chain: the pass is reflected, the parameters are collected at their
\* defaults, the preset's overrides go over them.
SetChain(overrides) ==
    /\ phase = "ready"
    /\ chain' = Reflect(compiled.stages["vertex"], compiled.stages["fragment"])
    /\ store' = ApplyOverrides(Collect(<<compiled.parameters>>, EmptyMap), overrides)
    /\ buffers' = NoBuffers /\ phase' = "built"
    /\ UNCHANGED <<disk, tools, cache, requests, front, frame>>

SetParameter(setting) ==
    /\ phase = "built"
    /\ store' = SetParam(store, setting.name, setting.value)
    /\ UNCHANGED <<disk, tools, cache, phase, requests, front, chain, buffers, frame>>

\* The values of a frame for the only pass of the chain, as write_uniforms
\* computes them (Renderer computes the sizes of a longer one).
Values(n) ==
    [fixed |-> [name \in FixedBuiltins |->
                   IF name = <<"FrameCount">> THEN <<"frame", ApplyFrameCountMod(n, FrameCountMod)>>
                   ELSE <<"builtin", name>>],
     passOutputSizes |-> <<>>, aliasSizes |-> EmptyMap,
     passFeedbackSizes |-> << <<"builtin", <<"OutputSize">>>> >>, aliasFeedbackSizes |-> EmptyMap,
     originalHistorySizes |-> << <<"builtin", <<"OriginalSize">>>> >>, lutSizes |-> EmptyMap]

Packed(block, n) == PackParams(PackBuiltins(block, Values(n)), block, store)
\* A buffer without a block is one vector of zeros.
PackFirst(blocks, n) == IF blocks = <<>> THEN [o \in {0} |-> <<"zero">>] ELSE Packed(blocks[1], n)

\* write_uniforms: the builtin block goes to one buffer, the other block to the other.
Render ==
    /\ phase = "built" /\ frame < MaxFrames
    /\ buffers' = [ubo |-> PackFirst(BuiltinBlock(chain.blocks), frame),
                   param |-> PackFirst(ParamBlock(chain.blocks), frame)]
    /\ frame' = frame + 1
    /\ UNCHANGED <<disk, tools, cache, phase, requests, front, chain, store>>

\* rebuild_chain: the buffer bound at a block's binding.
BoundBuffer(binding) ==
    LET param == ParamBlock(chain.blocks)
    IN  IF param # <<>> /\ param[1].set = 0 /\ param[1].binding = binding
        THEN buffers.param ELSE buffers.ubo

Compile ==
    \/ CacheHit \/ RunPreprocess \/ CompileStages
    \/ \E s \in Stages : Normalize(s) \/ InliningFails(s)
    \/ Answer
    \/ \E o \in Overrides : SetChain(o)

PipelineNext ==
    \/ EditFile
    \/ \E s \in Sources, c \in BOOLEAN : Request(s, c)
    \/ Compile
    \/ \E s \in Settings : SetParameter(s)
    \/ Render

\* A compile runs to its end in the thread that asked for it.
PipelineSpec == PipelineInit /\ [][PipelineNext]_pipelineVars

-----------------------------------------------------------------------------
PipelineTypeOK ==
    /\ disk \in Disks /\ tools \in BOOLEAN /\ cached \in BOOLEAN
    /\ phase \in Working \cup Resting
    /\ error \in {"none", "Include", "IncludeCycle", "BadParameter", "MissingStage", "Compile",
                  "SpirvOpt", "UnsupportedLayout", "UnsupportedDeclaration", "UnsupportedConsumer"}
    /\ (phase = "failed") = (error # "none")
    /\ target \in Nat /\ frame \in 0..MaxFrames /\ requests \in 0..MaxRequests
    /\ \A k \in DOMAIN store.params : NamesOf(store.params[k]) \subseteq DOMAIN store.current

Compiled == phase = "ready"

\* The code of a stage computes no coordinate with a branch inside a texture call.
Straight(code) == \A l \in ToSet(code) : l.k = "use" => ~ l.across \/ l.op = "call"

CodeOf(stage) == LET p == Preprocess(text) IN IF stage = "vertex" THEN p.vertex ELSE p.fragment

\* What comes out of the passes is SPIR-V that naga takes: every texture call got
\* its image and its sampler back, in order, whatever mix of combined and
\* separate samplers and of helpers the stage has (split_samplers.rs, push_to_ubo.rs).
StraightStagesStayWellFormed ==
    Compiled => \A s \in Stages :
        Straight(CodeOf(s)) => NagaAccepts(compiled.stages[s]) /\ SingleAssignment(compiled.stages[s])

\* split_samplers.rs:68: anything the transform cannot prove it handles correctly
\* is a hard SplitError, never a silent rewrite.
NothingIsRewrittenSilently ==
    Compiled => \A s \in Stages : NagaAccepts(compiled.stages[s])

Variables(m) == {g.res : g \in {h \in ToSet(m.globals) : h.op = "Variable"}}
PlacesOf(m, name) == {m.deco[v] : v \in {w \in Variables(m) : m.names[w] = name}}
PushNames == {l.name : l \in {d \in ToSet(CodeOf("vertex")) \cup ToSet(CodeOf("fragment")) :
                                  d.k = "decl" /\ d.kind = "push"}}

\* A push block sits at one binding of the pass, and nothing else of either stage
\* is there (push_to_ubo.rs:55; two free bindings collided with a texture once).
PushBlockHasOneBinding ==
    Compiled => \A name \in PushNames :
        LET places == UNION {PlacesOf(compiled.stages[s], name) : s \in Stages}
        IN  /\ Cardinality(places) = 1
            /\ \A s \in Stages, v \in UNION {Variables(compiled.stages[t]) : t \in Stages} :
                  v \in Variables(compiled.stages[s]) /\ compiled.stages[s].deco[v] \in places
                      => compiled.stages[s].names[v] = name

\* The vertex stage declares no texture and no block that the fragment stage lacks.
FragmentOwnsTheTextures ==
    \A l \in ToSet(CodeOf("vertex")) :
        l.k = "decl" => l.kind \in {"ubo", "push"} /\ l \in ToSet(CodeOf("fragment"))

\* A layout lists no binding twice: sampler bindings, allocated stage by stage
\* after the push block moved, meet nothing else of the pass (bindtable.rs:256).
LayoutHasOneEntryPerBinding ==
    phase = "built" /\ FragmentOwnsTheTextures =>
        LET entries == PassLayout(chain)
        IN  Cardinality({entries[k].binding : k \in DOMAIN entries}) = Len(entries)

\* The same for every shader: split_samplers.rs:489 guarantees "no collision with
\* any binding already present in the same descriptor set".
NoBindingCollides ==
    phase = "built" =>
        LET entries == PassLayout(chain)
        IN  Cardinality({entries[k].binding : k \in DOMAIN entries}) = Len(entries)

Split(name) == Append(name, "Smp")

\* Every texture of the fragment stage is a combined one: no separate sampler or image.
CombinedOnly ==
    \A l \in ToSet(CodeOf("fragment")) : l.k = "decl" => l.kind \notin {"texture2D", "sampler"}

Paired ==
    \A i \in DOMAIN chain.textures, j \in DOMAIN chain.samplers :
        /\ chain.textures[i].set = 0 /\ chain.samplers[j].set = 0
        /\ chain.samplers[j].name = Split(chain.textures[i].name)
        => BoundSampler(chain, {}, chain.samplers[j].binding) = Classify(chain.textures[i].name, {})

\* Texture and sampler are paired by position after two passes reordered the
\* globals: the sampler split from a texture is bound with what that texture's
\* producer asks for (renderer.rs:1535).
SplitSamplersFollowTheirTexture ==
    phase = "built" /\ FragmentOwnsTheTextures /\ CombinedOnly => Paired

\* A stage has the resources it declared, and the samplers split from them.
StagesDeclareTheirResources ==
    Compiled => \A s \in Stages :
        LET declared == {l.name : l \in {d \in ToSet(CodeOf(s)) : d.k = "decl"}}
            named    == {compiled.stages[s].names[v] : v \in DOMAIN compiled.stages[s].names}
        IN  named \ {Split(n) : n \in declared} = declared

\* The rewritten stages are modules naga takes, whose blocks and samplers have a
\* binding each, and the right one.
RewrittenStagesAreBound ==
    /\ PipelineTypeOK /\ StraightStagesStayWellFormed /\ PushBlockHasOneBinding
    /\ LayoutHasOneEntryPerBinding /\ SplitSamplersFollowTheirTexture
    /\ StagesDeclareTheirResources

\* The same for every shader.  It does not hold: a separate sampler, or a combined
\* texture both stages declare, shifts the positions.
EverySplitSamplerFollowsItsTexture == phase = "built" => Paired

\* After a frame, every member of every block of the pass holds its value in the
\* buffer bound for that block: a builtin its semantic, a parameter its current
\* value in its range, in whichever block it is declared (renderer.rs:1812, 1825).
Expected(m) ==
    IF MemberValue(Values(frame - 1), m.name) # {} THEN MemberValue(Values(frame - 1), m.name)
    ELSE IF ClampedValue(store, m.name) = {} \/ IsBuiltinSemantic(m.name) THEN {<<"zero">>}
    ELSE {<<"param", v>> : v \in ClampedValue(store, m.name)}

Rendered == phase = "built" /\ buffers # NoBuffers

Holds(block) ==
    LET buffer == BoundBuffer(block.binding)
    IN  \A i \in DOMAIN block.members :
            LET m == block.members[i] IN m.offset \in DOMAIN buffer /\ buffer[m.offset] \in Expected(m)
BlocksHold == \A k \in DOMAIN chain.blocks : chain.blocks[k].set = 0 => Holds(chain.blocks[k])

\* One block, or two of which one has a builtin.
BlocksAreModelled == Len(chain.blocks) <= (IF BuiltinBlock(chain.blocks) = <<>> THEN 1 ELSE 2)

MembersHoldTheirValues ==
    [][Rendered' /\ frame' # frame => (BlocksAreModelled => BlocksHold)']_pipelineVars

\* The same for any two blocks: the renderer "models exactly TWO set-0 UBOs", and warns
\* of a third.  Of two without a builtin the second reads the zeros bound for the
\* block that is not there (renderer.rs:1228, 1517).
AnyTwoBlocksHoldTheirValues ==
    [][Rendered' /\ frame' # frame => (Len(chain.blocks) <= 2 => BlocksHold)']_pipelineVars

\* What compile_preprocessed makes of a text, at once and without a cache.
CompiledStages(lines) ==
    [s \in Stages |-> Glslang(IF s = "vertex" THEN Preprocess(lines).vertex ELSE Preprocess(lines).fragment).module]
Compilation(lines) ==
    LET modules == CompiledStages(lines)
        binding == FreeBindingAcross({modules["vertex"], modules["fragment"]})
    IN  [stages |-> [s \in Stages |-> NormalizeStage(modules[s], binding).module],
         parameters |-> Preprocess(lines).parameters]

CurrentText == ResolveIncludes(disk, source.lines, source.dir).lines

\* Every text there can be, and those the cache takes for a text.
Texts == {ResolveIncludes(d, s.lines, s.dir).lines : d \in Disks, s \in Sources}
Alike(lines) == {t \in Texts : Hash(t) = Hash(lines)}

\* Whatever is cached, and whatever file changed since, an answer is the compilation
\* of the text as the files on disk have it (cache.rs:30) - or, through the cache, of
\* another with the hash of that text, if there is one.
AnswersAreOfTheCurrentText ==
    Compiled => \E t \in IF cached THEN Alike(CurrentText) ELSE {CurrentText} :
                    compiled = Compilation(t)

\* The same with no regard to hashes: "identical shader input returns cached SPIR-V",
\* and "editing an included file [...] invalidates the entry" (cache.rs:1, :30).
EveryAnswerIsOfItsText == Compiled => compiled = Compilation(CurrentText)
=============================================================================
