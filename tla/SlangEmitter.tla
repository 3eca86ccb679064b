---------------------------- MODULE SlangEmitter ----------------------------
(***************************************************************************)
(* crates/codegen-slang/src/emit.rs: the shader written for a lowered pass. *)
(* Text is abstracted to what is declared, with which type, and what each   *)
(* statement declares and reads.  An identifier is the tuple of its parts;   *)
(* fields are in the scope of params and global, all others in one: the     *)
(* author's names of look-up textures are written as they are, and node ids *)
(* may become the same identifier.                                          *)
(***************************************************************************)
EXTENDS GraphCheck

CONSTANTS SanitizeIdent,   \* a function: the parts of the identifier for a node id
          NameOf           \* a function: the parts of the name of a texture or parameter

FIRST_SAMPLER_BINDING == 2

GlslType(t) ==
  CASE t = "Float" -> "float" [] t = "Vec2" -> "vec2" [] t = "Vec3" -> "vec3"
    [] t = "Vec4" -> "vec4" [] t = "Int" -> "int" [] t = "Bool" -> "bool" [] OTHER -> "sampler2D"

\* OriginalHistory 0 is the Original; a Lut has the name the author gave it.
TextureSlangName(t) ==
  CASE t.kind = "Lut" -> NameOf[t.index]
    [] t.kind \in {"Source", "Original"} -> <<t.kind>>
    [] t.kind = "OriginalHistory" /\ t.index = 0 -> <<"Original">>
    [] OTHER -> <<t.kind, t.index>>

BuiltinFieldType(semantic) ==
  CASE semantic = "FrameCount" -> "uint"
    [] semantic = "FrameDirection" -> "int"
    [] semantic = "Mvp" -> None
    [] OTHER -> "vec4"

Temp(i) == <<"t", i>>
Field(semantic) == <<"params", semantic>>
ParamField(name) == <<"params">> \o NameOf[name]
MVP == <<"global", "MVP">>
Sampler(t) == TextureSlangName(t)
SnippetFn(node) == <<"snippet">> \o SanitizeIdent[node]
SnippetOutLocal(node, port) == Append(SnippetFn(node), port)

\* The names of blocks, stage variables and main, in the scope of the samplers.
FixedNames == <<<<"Push">>, <<"params">>, <<"UBO">>, <<"global">>, <<"vTexCoord">>, <<"FragColor">>, <<"main">>>>

\* The members of the push constant block; MVP lives in the UBO.
PushFields(manifest) ==
  LET fields == SelectSeq(manifest.builtins, LAMBDA b : BuiltinFieldType(b) # None)
  IN  [i \in DOMAIN fields |-> [name |-> Field(fields[i]), type |-> BuiltinFieldType(fields[i])]]
      \o [i \in DOMAIN manifest.parameters |->
            [name |-> ParamField(manifest.parameters[i]), type |-> "float"]]

SamplerDecls(manifest) ==
  [i \in DOMAIN manifest.samplers |->
     [name |-> Sampler(manifest.samplers[i].texture),
      binding |-> FIRST_SAMPLER_BINDING + manifest.samplers[i].binding]]

FirstOfNode(stmts, i) == \A j \in 1 .. i - 1 : stmts[j].node # stmts[i].node

\* The statements whose node needs a function: one each, at its first output.
SnippetStarts(stmts) ==
  SelectSeq([i \in DOMAIN stmts |-> i],
            LAMBDA i : stmts[i].op.kind = "CustomSnippet" /\ FirstOfNode(stmts, i))

Operands(stmt) == {Temp(stmt.operands[k]) : k \in DOMAIN stmt.operands}

\* What the expression of a statement reads.
StmtReads(stmt) ==
  CASE stmt.op.kind = "Sample" -> Operands(stmt) \cup {Sampler(stmt.op.texture)}
    [] stmt.op.kind = "Builtin" -> {IF stmt.op.semantic = "Mvp" THEN MVP ELSE Field(stmt.op.semantic)}
    [] stmt.op.kind = "Param" -> {ParamField(stmt.op.name)}
    [] stmt.op.kind = "CustomSnippet" -> {SnippetOutLocal(stmt.node, stmt.port)}
    [] OTHER -> Operands(stmt)

SnippetCall(stmt) ==
  [i \in DOMAIN stmt.op.outputs |->
     [declares |-> SnippetOutLocal(stmt.node, stmt.op.outputs[i].name),
      type |-> GlslType(stmt.op.outputs[i].type), reads |-> {}]]
  \o <<[declares |-> <<>>, type |-> "void", reads |-> Operands(stmt) \cup {SnippetFn(stmt.node)}]>>

MainBody(stmts) ==
  FlattenSeq([i \in DOMAIN stmts |->
    (IF stmts[i].op.kind = "CustomSnippet" /\ FirstOfNode(stmts, i)
     THEN SnippetCall(stmts[i]) ELSE <<>>)
    \o <<[declares |-> Temp(i - 1), type |-> GlslType(stmts[i].type), reads |-> StmtReads(stmts[i])]>>])

(***************************************************************************)
(* The declarations, the functions and main of the fragment stage; the      *)
(* vertex stage is fixed text.  A colour that is no vec4 is wrapped in one. *)
(***************************************************************************)
EmitPass(lowered) ==
  [push |-> PushFields(lowered.manifest),
   pragmas |-> lowered.manifest.parameters,
   samplers |-> SamplerDecls(lowered.manifest),
   functions |-> [k \in DOMAIN SnippetStarts(lowered.stmts) |->
                    SnippetFn(lowered.stmts[SnippetStarts(lowered.stmts)[k]].node)],
   main |-> MainBody(lowered.stmts)
            \o <<[declares |-> <<"FragColor">>,
                  type |-> IF lowered.outputType = "Vec4" THEN "vec4"
                           ELSE "vec4(" \o GlslType(lowered.outputType) \o ")",
                  reads |-> {Temp(lowered.output)}]>>]
-----------------------------------------------------------------------------
(* What the shading language makes of the expressions written: the argument  *)
(* types each operator or built-in function has an overload for, and the     *)
(* implicit conversion of an int.                                            *)

GenType == {"Float", "Vec2", "Vec3", "Vec4"}

ConvertsTo(t, u) == t = u \/ (t = "Int" /\ u = "Float")

Same(n) == {[args |-> [i \in 1 .. n |-> t], result |-> t] : t \in GenType}
Overload(args, result) == [args |-> args, result |-> result]

Overloads(op) ==
  CASE op \in {"add", "sub", "mul", "div"} ->
         Same(2) \cup {Overload(<<"Int", "Int">>, "Int")}
         \cup {Overload(<<t, "Float">>, t) : t \in GenType}
         \cup {Overload(<<"Float", t>>, t) : t \in GenType}
    [] op \in {"min", "max"} ->
         Same(2) \cup {Overload(<<"Int", "Int">>, "Int")} \cup {Overload(<<t, "Float">>, t) : t \in GenType}
    [] op = "pow" -> Same(2)
    [] op \in {"mix", "clamp"} ->
         Same(3) \cup {Overload(<<"Int", "Int", "Int">>, "Int")}
         \cup {Overload(IF op = "mix" THEN <<t, t, "Float">> ELSE <<t, "Float", "Float">>, t) : t \in GenType}
    [] op = "dot" -> {Overload(<<t, t>>, "Float") : t \in GenType}
    [] op = "length" -> {Overload(<<t>>, "Float") : t \in GenType}
    [] OTHER -> Same(1)

Width(t) == CASE t = "Vec2" -> 2 [] t = "Vec3" -> 3 [] t = "Vec4" -> 4 [] OTHER -> 1

Total(types) ==
  LET sum[k \in 0 .. Len(types)] == IF k = 0 THEN 0 ELSE Width(types[k]) + sum[k - 1]
  IN  sum[Len(types)]

GlslAccepts(op, types, declared) ==
  CASE op.op = "swizzle" ->
         /\ types[1] \in GenType
         /\ \A i \in DOMAIN op.mask : op.mask[i].component < Width(types[1])
         /\ Width(declared) = Len(op.mask)
    [] op.op = "construct" ->
         /\ declared = op.type
         /\ Total(types) = Width(op.type) \/ (Len(types) = 1 /\ Width(types[1]) = 1)
    [] OTHER -> \E o \in Overloads(op.op) :
                  /\ Len(o.args) = Len(types)
                  /\ \A i \in DOMAIN types : ConvertsTo(types[i], o.args[i])
                  /\ ConvertsTo(o.result, declared)
=============================================================================
