---------------------------- MODULE SlangFrontEnd -----------------------------
(* From the text of a .slang shader to the SPIR-V of its stages: preprocess.rs *)
(* of slang-compile (#include inlining, then the split of one source into a    *)
(* vertex and a fragment text and the #pragma data), and the two command line  *)
(* tools it shells out to, as its passes rely on them: glslang, which compiles *)
(* one stage, and spirv-opt, which inlines helper functions.  Both tools are   *)
(* external to the repository.                                                 *)
(*                                                                             *)
(* A source is a sequence of lines; a line is a record whose field k says what *)
(* parse_include and preprocess recognise it as: "include" (with its path, a   *)
(* sequence of names), "stage", "parameter", "name", or code ("decl", "use").  *)
(* A declaration is [k |-> "decl", kind, name, set, binding, members, stride]; *)
(* a use is [k |-> "use", op, tex, across]: one texture call of the body, with *)
(* across TRUE when its coordinates are computed by code that branches, so     *)
(* that the call ends up in a later basic block than the load of its sampler   *)
(* (glslang loads a sampler argument before it evaluates the ones after it).   *)
EXTENDS SpirvPasses

CONSTANT MAX_INCLUDE_DEPTH
ASSUME DepthAssumption == MAX_INCLUDE_DEPTH \in Nat

Text(lines) == [ok |-> TRUE, lines |-> lines, error |-> "none"]
NoText(why) == [ok |-> FALSE, lines |-> <<>>, error |-> why]

\* Includes are resolved against the directory of the file that names them.
Inlined(disk, lines, dir, depth, nested) ==
    LET add(acc, line) ==
            LET path == dir \o line.path
            IN  IF ~ acc.ok THEN acc
                ELSE IF line.k # "include" THEN Text(Append(acc.lines, line))
                ELSE IF depth >= MAX_INCLUDE_DEPTH THEN NoText("IncludeCycle")
                ELSE IF path \notin DOMAIN disk THEN NoText("Include")
                ELSE IF ~ nested[path].ok THEN nested[path]
                ELSE Text(acc.lines \o nested[path].lines)
    IN  Loop(add, Text(<<>>), lines)

\* The source itself is at depth 0, an included file one deeper than its includer.
ResolveIncludes(disk, source, dir) ==
    LET file[depth \in 1..MAX_INCLUDE_DEPTH] ==
          [path \in DOMAIN disk |-> Inlined(disk, disk[path], Front(path), depth, file[depth + 1])]
    IN  Inlined(disk, source, dir, 0, file[1])

\* The stage a line belongs to: that of the last known #pragma stage before it
\* (an unknown stage name keeps the previous one), "common" before the first.
StageAt(lines, k) ==
    LET known == {j \in 1..k : lines[j].k = "stage" /\ lines[j].stage \in {"vertex", "fragment"}}
    IN  IF known = {} THEN "common" ELSE lines[Max(known)].stage

IsCode(line) == line.k \in {"decl", "use"}

\* The code lines of one part, in order.
Part(lines, stage) ==
    LET of == SelectSeq([k \in DOMAIN lines |-> k],
                        LAMBDA k : IsCode(lines[k]) /\ StageAt(lines, k) = stage)
    IN  [k \in DOMAIN of |-> lines[of[k]]]

Pragmas(lines, kind) == SelectSeq(lines, LAMBDA line : line.k = kind)

\* A parameter line is well formed when it has a name, a quoted label and at
\* least three numbers; the first malformed one fails the shader.
ParseParameter(line) == line.good

\* Both stages start with the common part.  A source without a single
\* #pragma stage is refused, and the parameters are read in order.
Preprocess(lines) ==
    LET parameters == Pragmas(lines, "parameter")
    IN  [error |-> IF \E line \in ToSet(parameters) : ~ ParseParameter(line) THEN "BadParameter"
                   ELSE IF Pragmas(lines, "stage") = <<>> THEN "MissingStage" ELSE "none",
         vertex |-> Part(lines, "common") \o Part(lines, "vertex"),
         fragment |-> Part(lines, "common") \o Part(lines, "fragment"),
         parameters |-> [k \in DOMAIN parameters |-> parameters[k].p]]

-----------------------------------------------------------------------------
(* glslang and spirv-opt. *)

\* Ids of the types glslang emits; variables and values follow.
tImage        == 1
tSampledImage == 2
pSampledImage == 3
pImage        == 4
tSampler      == 5
pSampler      == 6
tStruct       == 7
pUniform      == 8
pPush         == 9
tArray        == 10
pArray        == 11
VarId(k) == 20 + k
ValueId(k, j) == 40 + 10 * k + j

DeclaredTypes(kinds) ==
    LET when(kind, insts) == IF kind \in kinds THEN insts ELSE <<>>
        whenAny(some, insts) == IF some \cap kinds # {} THEN insts ELSE <<>>
    IN  whenAny({"sampler2D", "samplerArray", "texture2D"}, <<Inst("TypeImage", 0, tImage, <<>>)>>)
        \o whenAny({"sampler2D", "samplerArray", "texture2D"},
                   <<Inst("TypeSampledImage", 0, tSampledImage, <<tImage>>)>>)
        \o when("sampler2D", <<TypePointer(pSampledImage, "UniformConstant", tSampledImage)>>)
        \o when("samplerArray", <<Inst("TypeArray", 0, tArray, <<tSampledImage>>),
                                  TypePointer(pArray, "UniformConstant", tArray)>>)
        \o when("texture2D", <<TypePointer(pImage, "UniformConstant", tImage)>>)
        \o when("sampler", <<Inst("TypeSampler", 0, tSampler, <<>>),
                             TypePointer(pSampler, "UniformConstant", tSampler)>>)
        \o whenAny({"ubo", "push"}, <<Inst("TypeStruct", 0, tStruct, <<>>)>>)
        \o when("ubo", <<TypePointer(pUniform, "Uniform", tStruct)>>)
        \o when("push", <<TypePointer(pPush, "PushConstant", tStruct)>>)

PointerOf == ("sampler2D" :> pSampledImage) @@ ("samplerArray" :> pArray) @@ ("texture2D" :> pImage)
             @@ ("sampler" :> pSampler) @@ ("ubo" :> pUniform) @@ ("push" :> pPush)
ClassOf(kind) == IF kind = "ubo" THEN "Uniform"
                 ELSE IF kind = "push" THEN "PushConstant" ELSE "UniformConstant"

\* One texture call: what comes before its other arguments, and what after.
BeforeArgs(u, k, var) ==
    IF u.op = "call" THEN <<>> ELSE <<Inst("Load", tSampledImage, ValueId(k, 0), <<var>>)>>
AfterArgs(u, k, var) ==
    CASE u.op = "sample" -> <<Inst("ImageSample", 0, ValueId(k, 2), <<ValueId(k, 0)>>)>>
      [] u.op = "fetch" -> <<Inst("Image", tImage, ValueId(k, 1), <<ValueId(k, 0)>>),
                             Inst("ImageFetch", 0, ValueId(k, 2), <<ValueId(k, 1)>>)>>
      [] u.op = "size" -> <<Inst("Image", tImage, ValueId(k, 1), <<ValueId(k, 0)>>),
                            Inst("ImageQuerySize", 0, ValueId(k, 2), <<ValueId(k, 1)>>)>>
      [] u.op = "call" -> <<Inst("FunctionCall", 0, ValueId(k, 2), <<var>>)>>

\* glslang on one stage: every global it declares, used or not, and its body.  A
\* body that names no declared texture does not compile.
Glslang(code) ==
    LET decls == SelectSeq(code, LAMBDA l : l.k = "decl")
        uses  == SelectSeq(code, LAMBDA l : l.k = "use")
        textures == {k \in DOMAIN decls : decls[k].kind = "sampler2D"}
        var(u) == VarId(CHOOSE k \in textures : decls[k].name = u.tex)
        \* a branch between load and use starts a new block
        step(blocks, k) ==
            LET u == uses[k]
                with(bs, insts) == Front(bs) \o <<Last(bs) \o insts>>
                loaded == with(blocks, BeforeArgs(u, k, var(u)))
            IN  IF u.across THEN Append(loaded, AfterArgs(u, k, var(u)))
                ELSE with(loaded, AfterArgs(u, k, var(u)))
        described == {VarId(k) : k \in DOMAIN decls}
    IN  IF \E u \in ToSet(uses) : \A k \in textures : decls[k].name # u.tex
        THEN [ok |-> FALSE, module |-> Module(<<>>, EmptyMap, {}, <<>>, EmptyMap, EmptyMap)]
        ELSE [ok |-> TRUE, module |->
                Module(DeclaredTypes({d.kind : d \in ToSet(decls)})
                           \o [k \in DOMAIN decls |->
                                  Variable(VarId(k), PointerOf[decls[k].kind], ClassOf(decls[k].kind))],
                       [v \in {w \in described : decls[w - VarId(0)].kind # "push"} |->
                            [set |-> decls[v - VarId(0)].set, binding |-> decls[v - VarId(0)].binding]],
                       UNION {decls[k].strides : k \in DOMAIN decls},
                       Loop(step, <<<<>>>>, [k \in DOMAIN uses |-> k]),
                       [v \in described |-> decls[v - VarId(0)].name],
                       [v \in described |-> decls[v - VarId(0)].members])]

\* spirv-opt replaces a call of a helper by its body, which loads the sampler
\* where it samples it.
SpirvOpt(m) ==
    LET inlined(inst) ==
            IF inst.op # "FunctionCall" THEN <<inst>>
            ELSE <<Inst("Load", tSampledImage, inst.res - 2, inst.args),
                   Inst("ImageSample", 0, inst.res, <<inst.res - 2>>)>>
        block(b) == FlattenSeq([k \in DOMAIN b |-> inlined(b[k])])
    IN  [m EXCEPT !.blocks = [k \in DOMAIN @ |-> block(@[k])]]
=============================================================================
