---------------------------- MODULE PassBindings -----------------------------
(* From the compiled stages to what the renderer binds: reflect.rs, which      *)
(* merges both stages into one list of blocks, textures and samplers,          *)
(* bindtable.rs, which lays them out and classifies the textures by name, and  *)
(* Renderer::build_pass and the bind groups of rebuild_chain, which attach     *)
(* buffers, views and samplers to the layout.  A name is the sequence of its   *)
(* parts: <<"Source">>, <<"PassOutput", "0">>, <<"Glow", "Feedback">>.         *)
EXTENDS SpirvPasses

\* naga takes a module that is well formed and has no combined sampler left.
NagaAccepts(m) == WellTyped(m) /\ DefinedBeforeUse(m) /\ CombinedVariables(m) = <<>>

Placed(m, g) == [name |-> m.names[g.res], set |-> m.deco[g.res].set, binding |-> m.deco[g.res].binding]

Sum(sizes) == Loop(LAMBDA a, b : a + b, 0, sizes)

\* A block: its members at their offsets, one after the other.
Block(m, g) ==
    LET members == m.members[g.res]
        sizes == [k \in DOMAIN members |-> members[k].size]
    IN  [set |-> m.deco[g.res].set, binding |-> m.deco[g.res].binding, size |-> Sum(sizes),
         members |-> [k \in DOMAIN members |->
                        [name |-> members[k].name, size |-> sizes[k],
                         offset |-> Sum(SubSeq(sizes, 1, k - 1))]]]

SamePlace(a, b) == a.set = b.set /\ a.binding = b.binding

\* The larger of two blocks at one place is kept.
MergeBlock(blocks, block) ==
    LET at == {k \in DOMAIN blocks : SamePlace(blocks[k], block)}
        larger(b) == \/ Len(block.members) > Len(b.members)
                     \/ Len(block.members) = Len(b.members) /\ block.size > b.size
    IN  IF at = {} THEN Append(blocks, block)
        ELSE [k \in DOMAIN blocks |-> IF k \in at /\ larger(blocks[k]) THEN block ELSE blocks[k]]

PushUniqueResource(list, res) ==
    IF \E k \in DOMAIN list : SamePlace(list[k], res) THEN list ELSE Append(list, res)

\* One global of a stage, by its address space and type.
ReflectVariable(acc, m, g) ==
    LET pointee == Pointee(m, g.ty)
    IN  CASE g.class = "Uniform" -> [acc EXCEPT !.blocks = MergeBlock(@, Block(m, g))]
          [] g.class = "UniformConstant" /\ pointee \in ImageTypes(m) ->
                [acc EXCEPT !.textures = PushUniqueResource(@, Placed(m, g))]
          [] g.class = "UniformConstant" /\ pointee \in SamplerTypes(m) ->
                [acc EXCEPT !.samplers = PushUniqueResource(@, Placed(m, g))]
          [] OTHER -> acc

ReflectStage(acc, m) ==
    Loop(LAMBDA a, g : ReflectVariable(a, m, g), acc, SelectSeq(m.globals, LAMBDA g : g.op = "Variable"))

NoReflection == [blocks |-> <<>>, textures |-> <<>>, samplers |-> <<>>]

\* build_pass falls back to no reflection at all when a stage does not parse.
Reflect(vertex, fragment) ==
    IF NagaAccepts(vertex) /\ NagaAccepts(fragment)
    THEN ReflectStage(ReflectStage(NoReflection, vertex), fragment)
    ELSE NoReflection

InSet0(list) == SelectSeq(list, LAMBDA r : r.set = 0)

\* The entries of the bind group layout, one for each block, texture and sampler.
PassLayout(r) ==
    LET entries(list, ty) == [k \in DOMAIN InSet0(list) |-> [binding |-> InSet0(list)[k].binding, ty |-> ty]]
    IN  entries(r.blocks, "buffer") \o entries(r.textures, "texture") \o entries(r.samplers, "sampler")

Digits == {"0", "1", "2"}

\* TextureClass::classify: the fixed names, then the aliases, then the indexed
\* names, and a look-up texture otherwise.
Classify(name, aliases) ==
    LET indexed == Len(name) = 2 /\ name[2] \in Digits
    IN  IF name \in {<<"Source">>, <<"Original">>} THEN name
        ELSE IF Len(name) = 1 /\ name[1] \in aliases THEN <<"Alias", name[1]>>
        ELSE IF Len(name) = 2 /\ name[2] = "Feedback" /\ name[1] \in aliases THEN <<"AliasFeedback", name[1]>>
        ELSE IF indexed /\ name[1] \in {"PassOutput", "Pass"} THEN <<"PassOutput", name[2]>>
        ELSE IF name = <<"OriginalHistory", "0">> THEN <<"Original">>
        ELSE IF indexed /\ name[1] \in {"PassFeedback", "OriginalHistory"} THEN name
        ELSE <<"Lut">> \o name

TextureSlots(r, aliases) ==
    [k \in DOMAIN InSet0(r.textures) |->
        [binding |-> InSet0(r.textures)[k].binding, class |-> Classify(InSet0(r.textures)[k].name, aliases)]]

SamplerSlots(r) == [k \in DOMAIN InSet0(r.samplers) |-> InSet0(r.samplers)[k].binding]

\* Each texture slot brings the sampler of its producer; sampler slot j takes
\* the one of texture slot j, or the source's when there are more samplers.
BoundSampler(r, aliases, binding) ==
    LET j == CHOOSE k \in DOMAIN SamplerSlots(r) : SamplerSlots(r)[k] = binding
        slots == TextureSlots(r, aliases)
    IN  IF j \in DOMAIN slots THEN slots[j].class ELSE <<"Original">>
=============================================================================
