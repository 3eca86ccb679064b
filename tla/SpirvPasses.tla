----------------------------- MODULE SpirvPasses -----------------------------
(* The part of a SPIR-V module that the normalization passes of slang-compile  *)
(* read and write, as the loader they use (rspirv's dr::Module) presents it    *)
(* (the global section, the descriptor decorations, the basic blocks; ids are  *)
(* numbers, as the passes mint fresh ones, names are debug names), and the     *)
(* passes: push_constant_to_ubo (push_to_ubo.rs), which turns a push-constant  *)
(* block into a uniform block, and split_combined_samplers                     *)
(* (split_samplers.rs), which turns a combined image-sampler into a texture    *)
(* and a sampler.  A pass answers [ok |-> TRUE, module |-> m] or               *)
(* [ok |-> FALSE, error |-> why].                                              *)
EXTENDS Integers, Sequences, FiniteSets, SequencesExt, TLC, Loops

\* An instruction: its opcode, result type, result id (0 when it has none) and id operands.
Inst(op, ty, res, args) ==
    [op |-> op, ty |-> ty, res |-> res, args |-> args, class |-> ""]

TypePointer(res, class, pointee) == [Inst("TypePointer", 0, res, <<pointee>>) EXCEPT !.class = class]
Variable(res, ptr, class) == [Inst("Variable", ptr, res, <<>>) EXCEPT !.class = class]

EmptyMap == [x \in {} |-> 0]
With(map, key, value) == [k \in DOMAIN map \cup {key} |-> IF k = key THEN value ELSE map[k]]

\* A module: globals in order, decorated resources, the strides it decorates
\* arrays and matrices with, its basic blocks, and the names and members of its
\* variables.
Module(globals, deco, strides, blocks, names, members) ==
    [globals |-> globals, deco |-> deco, strides |-> strides, blocks |-> blocks,
     names |-> names, members |-> members]

Body(m) == FlattenSeq(m.blocks)
Everything(m) == m.globals \o Body(m)

Definition(m, id) == SelectSeq(Everything(m), LAMBDA inst : inst.res = id)
IsDefined(m, id) == Definition(m, id) # <<>>
ResultType(m, id) == Definition(m, id)[1].ty
OpOf(m, id) == Definition(m, id)[1].op

\* What a pointer of this type points to.
Pointee(m, ptr) == Definition(m, ptr)[1].args[1]

ImageTypes(m) == {i.res : i \in {g \in ToSet(m.globals) : g.op = "TypeImage"}}
SampledImageTypes(m) == {i.res : i \in {g \in ToSet(m.globals) : g.op = "TypeSampledImage"}}
SamplerTypes(m) == {i.res : i \in {g \in ToSet(m.globals) : g.op = "TypeSampler"}}

\* Opcodes that take a sampled image, and those that take a plain image, as
\* their first operand.
SampleOps == {"ImageSample", "ImageGather"}
ImageOps == {"ImageFetch", "ImageQuerySize"}

\* What the SPIR-V specification asks of the operands of one instruction.
OperandsFit(m, inst) ==
    LET ty(i) == ResultType(m, inst.args[i])
    IN  CASE inst.op = "Load" -> inst.ty = Pointee(m, ty(1))
          [] inst.op \in SampleOps -> ty(1) \in SampledImageTypes(m)
          [] inst.op = "Image" -> ty(1) \in SampledImageTypes(m)
          [] inst.op \in ImageOps -> ty(1) \in ImageTypes(m)
          [] inst.op = "SampledImage" -> ty(1) \in ImageTypes(m) /\ ty(2) \in SamplerTypes(m)
          [] OTHER -> TRUE

\* Every id a body uses is defined, and every operand has the type its opcode takes.
WellTyped(m) ==
    \A inst \in ToSet(Body(m)) :
        /\ \A k \in DOMAIN inst.args : IsDefined(m, inst.args[k])
        /\ OperandsFit(m, inst)

\* The global section defines every id before the line that uses it.
DefinedBeforeUse(m) ==
    \A k \in DOMAIN m.globals :
        LET uses == ToSet(m.globals[k].args) \cup (IF m.globals[k].ty = 0 THEN {} ELSE {m.globals[k].ty})
        IN  \A id \in uses : \E j \in 1..(k - 1) : m.globals[j].res = id

\* No id is defined twice.
SingleAssignment(m) ==
    LET defs == SelectSeq(Everything(m), LAMBDA inst : inst.res # 0)
    IN  Cardinality({i.res : i \in ToSet(defs)}) = Len(defs)

(********************************* passes **********************************)

Done(m) == [ok |-> TRUE, module |-> m, error |-> "none"]
Failed(m, why) == [ok |-> FALSE, module |-> m, error |-> why]

(***************************** push_to_ubo.rs ******************************)

UsedSet0Bindings(m) == {m.deco[v].binding : v \in {u \in DOMAIN m.deco : m.deco[u].set = 0}}

LowestFree(used) ==
    CHOOSE b \in 0..Cardinality(used) : b \notin used /\ \A c \in 0..(b - 1) : c \in used

\* One binding that neither stage uses, so that the block lands there in both.
FreeBindingAcross(mods) == LowestFree(UNION {UsedSet0Bindings(m) : m \in mods})

NextUnused(b, used) ==
    CHOOSE c \in b..(b + Cardinality(used)) : c \notin used /\ \A d \in b..(c - 1) : d \in used

PushVars(m) == SelectSeq(m.globals, LAMBDA g : g.op = "Variable" /\ g.class = "PushConstant")

\* A std430 stride that a uniform block may not have.
UnsupportedLayout(m) == \E s \in m.strides : s % 16 # 0

Retyped(g) == IF g.op \in {"TypePointer", "Variable"} /\ g.class = "PushConstant"
              THEN [g EXCEPT !.class = "Uniform"] ELSE g

\* A mutant: each stage takes the lowest binding it has free.
PushConstantToUboPerStage(m, target) ==
    LET free == LowestFree(UsedSet0Bindings(m))
    IN  IF PushVars(m) = <<>> THEN Done(m)
        ELSE IF UnsupportedLayout(m) THEN Failed(m, "UnsupportedLayout")
        ELSE Done([m EXCEPT !.globals = [k \in DOMAIN @ |-> Retyped(@[k])],
                            !.deco = With(@, PushVars(m)[1].res, [set |-> 0, binding |-> free])])

PushConstantToUbo(m, target) ==
    LET used == UsedSet0Bindings(m)
        place(acc, var) ==
            [deco |-> With(acc.deco, var.res, [set |-> 0, binding |-> acc.next]),
             next |-> NextUnused(acc.next + 1, used)]
        placed == Loop(place, [deco |-> m.deco, next |-> NextUnused(target, used)], PushVars(m))
    IN  IF PushVars(m) = <<>> THEN Done(m)
        ELSE IF UnsupportedLayout(m) THEN Failed(m, "UnsupportedLayout")
        ELSE Done([m EXCEPT !.globals = [k \in DOMAIN @ |-> Retyped(@[k])],
                            !.deco = placed.deco])

(**************************** split_samplers.rs ****************************)

\* Whether a type holds a combined image-sampler at any depth (arrays, structs).
ContainsSampledImage(m, type) ==
    LET contains[ty \in {g.res : g \in ToSet(m.globals)}] ==
          \/ ty \in SampledImageTypes(m)
          \/ \E g \in ToSet(m.globals) :
                /\ g.res = ty /\ g.op \in {"TypeArray", "TypeStruct"}
                /\ \E k \in DOMAIN g.args : contains[g.args[k]]
    IN  contains[type]

\* The variables of the UniformConstant class, in the order of their declaration.
UniformConstants(m) == SelectSeq(m.globals, LAMBDA g : g.op = "Variable" /\ g.class = "UniformConstant")

CombinedVariables(m) ==
    SelectSeq(UniformConstants(m), LAMBDA g : Pointee(m, g.ty) \in SampledImageTypes(m))

\* An array or aggregate of combined samplers: not handled, an error.
HasAggregate(m) ==
    \E g \in ToSet(UniformConstants(m)) :
        /\ Pointee(m, g.ty) \notin SampledImageTypes(m)
        /\ ContainsSampledImage(m, Pointee(m, g.ty))

\* A combined variable may only be the pointer operand of a load.
ValidateCombinedVarUses(m) ==
    LET ids == {g.res : g \in ToSet(CombinedVariables(m))}
    IN  \A inst \in ToSet(Body(m)) : \A k \in DOMAIN inst.args :
            inst.args[k] \in ids => inst.op = "Load" /\ k = 1

\* The first id above every id of the module.
FreshId(m) ==
    LET ids(inst) == {inst.ty, inst.res} \cup ToSet(inst.args)
    IN  1 + Max(UNION {ids(inst) : inst \in ToSet(Everything(m))})

\* One above the highest binding the set uses.
AllocateBinding(deco, set) ==
    LET used == {deco[v].binding : v \in {u \in DOMAIN deco : deco[u].set = set}}
    IN  IF used = {} THEN 0 ELSE Max(used) + 1

SetOf(m, var) == IF var \in DOMAIN m.deco THEN m.deco[var].set ELSE 0

Declare(m, inst) == [m EXCEPT !.globals = Append(@, inst)]

\* The image pointer type made for an image type by an earlier variable of the plan.
ImagePointer(plan, image) == {p \in DOMAIN plan.pointers : plan.pointers[p] = image}

\* One combined variable: it is retyped to a pointer to its image, and a sampler
\* variable is declared beside it, in its set.
SplitVariable(plan, var) ==
    LET m      == plan.module
        image  == Definition(m, Pointee(m, var.ty))[1].args[1]
        made   == ImagePointer(plan, image)
        ptr    == IF made = {} THEN plan.next ELSE CHOOSE p \in made : TRUE
        smp    == IF made = {} THEN plan.next + 1 ELSE plan.next
        typed  == IF made = {} THEN Declare(m, TypePointer(ptr, "UniformConstant", image)) ELSE m
        retyped == [typed EXCEPT !.globals =
                        [k \in DOMAIN @ |-> IF @[k].op = "Variable" /\ @[k].res = var.res
                                            THEN [@[k] EXCEPT !.ty = ptr] ELSE @[k]]]
        place  == [set |-> SetOf(m, var.res), binding |-> AllocateBinding(m.deco, SetOf(m, var.res))]
        named  == IF var.res \in DOMAIN m.names
                  THEN With(m.names, smp, Append(m.names[var.res], "Smp")) ELSE m.names
    IN  [plan EXCEPT
            !.module = [Declare(retyped, Variable(smp, plan.samplerPtr, "UniformConstant"))
                            EXCEPT !.deco = With(@, smp, place), !.names = named],
            !.next = smp + 1,
            !.pointers = With(@, ptr, image),
            !.byVar = With(@, var.res, [image |-> image, sampler |-> smp])]

\* The sampler type is reused when the module has one; its pointer type never is.
BuildSplitPlan(m) ==
    LET samplers == SelectSeq(m.globals, LAMBDA g : g.op = "TypeSampler")
        first    == FreshId(m)
        smpType  == IF samplers = <<>> THEN first ELSE samplers[1].res
        smpPtr   == IF samplers = <<>> THEN first + 1 ELSE first
        typed    == IF samplers = <<>> THEN Declare(m, Inst("TypeSampler", 0, first, <<>>)) ELSE m
    IN  Loop(SplitVariable,
                 [module |-> Declare(typed, TypePointer(smpPtr, "UniformConstant", smpType)),
                  next |-> smpPtr + 1, samplerType |-> smpType, samplerPtr |-> smpPtr,
                  pointers |-> EmptyMap, byVar |-> EmptyMap],
                 CombinedVariables(m))

ClassifyConsumer(op) ==
    IF op \in SampleOps THEN "SampledImage"
    ELSE IF op \in ImageOps THEN "Image"
    ELSE IF op = "Image" THEN "ImageExtract" ELSE "none"

Emit(b, insts) == [b EXCEPT !.out = @ \o insts]
FirstOperand(inst, id) == [inst EXCEPT !.args[1] = id]
Forwarded(b, id) == IF id \in DOMAIN b.forward THEN b.forward[id] ELSE id

\* Rewriting one instruction of a block.  b.split holds the combined values
\* loaded so far in this block, b.forward the extracted images.
RewriteInst(plan, b, inst) ==
    LET isSplitLoad == inst.op = "Load" /\ inst.args[1] \in DOMAIN plan.byVar
        first == IF inst.args = <<>> THEN 0 ELSE Forwarded(b, inst.args[1])
        flows == \E k \in 2..Len(inst.args) : Forwarded(b, inst.args[k]) \in DOMAIN b.split
    IN  IF b.error # "none" THEN b
        ELSE IF isSplitLoad THEN
            LET split == plan.byVar[inst.args[1]]
            IN  [Emit(b, << [inst EXCEPT !.ty = split.image],
                            Inst("Load", plan.samplerType, b.next, <<split.sampler>>) >>)
                    EXCEPT !.split = With(@, inst.res, [sampler |-> b.next, ty |-> inst.ty]),
                           !.next = @ + 1]
        ELSE IF first \in DOMAIN b.split THEN
            CASE ClassifyConsumer(inst.op) = "ImageExtract" ->
                    [b EXCEPT !.forward = With(@, inst.res, first)]
              [] ClassifyConsumer(inst.op) = "Image" -> Emit(b, <<FirstOperand(inst, first)>>)
              [] ClassifyConsumer(inst.op) = "SampledImage" ->
                    [Emit(b, << Inst("SampledImage", b.split[first].ty, b.next,
                                     <<first, b.split[first].sampler>>),
                                FirstOperand(inst, b.next) >>) EXCEPT !.next = @ + 1]
              [] OTHER -> [b EXCEPT !.error = "UnsupportedConsumer"]
        ELSE IF flows THEN [b EXCEPT !.error = "UnsupportedDeclaration"]
        ELSE Emit(b, <<inst>>)

\* A block starts with no value split: what an earlier block loaded is not known in it.
RewriteBlock(plan, acc, block) ==
    Through(Loop(LAMBDA s, inst : RewriteInst(plan, s, inst),
                 [out |-> <<>>, split |-> EmptyMap, forward |-> EmptyMap,
                  next |-> acc.next, error |-> acc.error], block),
            LAMBDA b : [blocks |-> Append(acc.blocks, b.out), next |-> b.next, error |-> b.error])

RewriteBodies(plan) ==
    Loop(LAMBDA acc, block : RewriteBlock(plan, acc, block),
             [blocks |-> <<>>, next |-> plan.next, error |-> "none"], plan.module.blocks)

\* Depth first from each line in turn, the ids a line uses before the line: the
\* operands from the last to the first, then the result type.
EmitGlobal(globals, start, line) ==
    LET uses(k) == IF globals[k].ty = 0 THEN globals[k].args ELSE <<globals[k].ty>> \o globals[k].args
        definers(id, k) == SelectSeq([j \in DOMAIN globals |-> j], LAMBDA j : globals[j].res = id /\ j # k)
        deps(k) == FlattenSeq([i \in DOMAIN uses(k) |-> definers(uses(k)[i], k)])
        emit[order \in Seq(DOMAIN globals), k \in DOMAIN globals] ==
            IF k \in ToSet(order) THEN order
            ELSE Append(Loop(LAMBDA acc, j : emit[acc, j], order, Reverse(deps(k))), k)
    IN  emit[start, line]

ReorderGlobalSection(globals) ==
    Through(Loop(LAMBDA acc, k : EmitGlobal(globals, acc, k), <<>>, [j \in DOMAIN globals |-> j]),
            LAMBDA order : [k \in DOMAIN order |-> globals[order[k]]])

SplitCombinedSamplers(m) ==
    IF HasAggregate(m) THEN Failed(m, "UnsupportedDeclaration")
    ELSE IF CombinedVariables(m) = <<>> THEN Done(m)
    ELSE IF ~ ValidateCombinedVarUses(m) THEN Failed(m, "UnsupportedDeclaration")
    ELSE Through(BuildSplitPlan(m), LAMBDA plan :
             Through(RewriteBodies(plan), LAMBDA bodies :
                 IF bodies.error # "none" THEN Failed(m, bodies.error)
                 ELSE Done([plan.module EXCEPT !.globals = ReorderGlobalSection(@),
                                               !.blocks = bodies.blocks])))
=============================================================================
