----------------------------- MODULE GraphCheck -----------------------------
(***************************************************************************)
(* The checker of typed shader graphs, crates/ir/src/typecheck.rs, but for *)
(* its search for cycles (module Lowering).  A graph is a sequence of       *)
(* nodes [id, op] and a sequence of edges [from, out, to, in] from output   *)
(* port "out" of node "from" to input port "in" of node "to".  A diagnostic *)
(* is a pair of a code and the node it is reported at; all are errors.      *)
(* Names of parameters and look-up textures are numbers, for their order.    *)
(***************************************************************************)
EXTENDS Naturals, Sequences, FiniteSets, FiniteSetsExt, SequencesExt

(* The value types of crates/core-model/src/ir.rs: which value may be       *)
(* connected where, what a swizzle yields, and the types of built-in        *)
(* uniforms.  None stands for Option::None.                                 *)
None == "None"

PortType == {"Float", "Vec2", "Vec3", "Vec4", "Int", "Bool", "Sampler2D"}

VectorOf == <<"Float", "Vec2", "Vec3", "Vec4">>

IsVector(t) == t \in {"Vec2", "Vec3", "Vec4"}

IsScalar(t) == t \in {"Float", "Int", "Bool"}

IsNumeric(t) == IsScalar(t) \/ IsVector(t)

IsFloatFamily(t) == t = "Float" \/ IsVector(t)

\* Of the types that have components; a sampler has none.
ComponentCount(t) ==
  CASE IsScalar(t) -> 1 [] t = "Vec2" -> 2 [] t = "Vec3" -> 3 [] OTHER -> 4

FloatWithComponents(n) == IF n \in 1 .. 4 THEN VectorOf[n] ELSE None

BroadcastTo(t, target) == t = target \/ (t = "Float" /\ IsVector(target))

ImplicitWidenTo(t, target) == t = target \/ (t = "Int" /\ target = "Float")

AssignableTo(t, target) == ImplicitWidenTo(t, target) \/ BroadcastTo(t, target)

\* A mask is a sequence of accessors [set, component]: .xy is set 1, .rg set 2,
\* .st set 3, the component counted from 0.
SwizzleResult(t, mask) ==
  IF /\ IsFloatFamily(t)
     /\ Len(mask) \in 1 .. 4
     /\ \A i \in 1 .. Len(mask) : /\ mask[i].set = mask[1].set
                                  /\ mask[i].component < ComponentCount(t)
  THEN FloatWithComponents(Len(mask))
  ELSE None

(***************************************************************************)
(* Where a connection ends: at a port of a declared type, at the coord of a *)
(* sample, or at an operand of an expression, which the operand rules judge. *)
(***************************************************************************)
Assignable(t) == [target |-> "Assignable", type |-> t]
SampleCoord == [target |-> "SampleCoord"]
ExprOperand == [target |-> "ExprOperand"]

ConnectionLegal(t, target) ==
  CASE target.target = "Assignable" -> AssignableTo(t, target.type)
    [] target.target = "SampleCoord" -> t = "Vec2"
    [] OTHER -> TRUE

\* The matrix MVP has no port type.
BuiltinType(semantic) ==
  CASE semantic \in {"SourceSize", "OriginalSize", "OutputSize", "FinalViewportSize"} -> "Vec4"
    [] semantic \in {"FrameCount", "FrameDirection"} -> "Int"
    [] OTHER -> None

------------------------------------------------------------------------------
(* The checker. *)

Componentwise == {"add", "sub", "mul", "div", "min", "max", "pow", "mix", "clamp"}
UnaryMath == {"sin", "cos", "abs", "floor", "fract"}

(* Graphs as crates/core-model/src/ir.rs declares them.  A literal is its   *)
(* type and the body of a snippet is left out.                              *)
ExprOp == Componentwise \cup UnaryMath \cup {"dot", "normalize", "length", "swizzle", "construct"}

BuiltinSemantic == {"SourceSize", "OriginalSize", "OutputSize", "FinalViewportSize",
                    "FrameCount", "FrameDirection", "Mvp"}

ConstValue == PortType \ {"Sampler2D"}

TextureSource ==
  [kind : {"Source", "Original"}, index : {0}]
    \cup [kind : {"OriginalHistory", "PassOutput", "PassFeedback", "Lut"}, index : Nat]

IsPortDecl(d) == d = [name |-> d.name, type |-> d.type] /\ d.name \in STRING /\ d.type \in PortType

IsSequence(s) == s \in Seq(ToSet(s))

IsNodeOp(op) ==
  CASE op.kind = "Sample" -> op \in [kind : {"Sample"}, texture : TextureSource]
    [] op.kind = "Builtin" -> op.semantic \in BuiltinSemantic
    [] op.kind = "Const" -> op.type \in ConstValue
    [] op.kind = "Expr" ->
         /\ op.op \in ExprOp /\ op.operands \in Seq(STRING)
         /\ op.op = "construct" => op.type \in PortType
    [] op.kind = "CustomSnippet" ->
         /\ IsSequence(op.inputs) /\ IsSequence(op.outputs)
         /\ \A d \in ToSet(op.inputs) \cup ToSet(op.outputs) : IsPortDecl(d)
    [] OTHER -> op.kind \in {"Param", "Output"}

IsIrEdge(e) == /\ e = [from |-> e.from, out |-> e.out, to |-> e.to, in |-> e.in]
               /\ {e.from, e.to} \subseteq Nat /\ {e.out, e.in} \subseteq STRING

IsIrGraph(g) == /\ IsSequence(g.nodes) /\ IsSequence(g.edges)
                /\ \A n \in ToSet(g.nodes) : n.id \in Nat /\ IsNodeOp(n.op)
                /\ \A e \in ToSet(g.edges) : IsIrEdge(e)

\* The names a graph may refer to, as numbers.
CheckContext == [parameters : SUBSET Nat, luts : SUBSET Nat]

NoNode == 0      \* the empty id: no node to report at

Ids(g) == {g.nodes[i].id : i \in DOMAIN g.nodes}

\* The first node of an id: `check` skips the others, having reported them.
NodeOp(g, id) == g.nodes[Min({i \in DOMAIN g.nodes : g.nodes[i].id = id})].op

Names(decls) == {decls[i].name : i \in DOMAIN decls}
TypeOf(decls, name) == decls[CHOOSE i \in DOMAIN decls : decls[i].name = name].type

\* The input ports in order, each of them required.
InputPorts(op) ==
  CASE op.kind = "Sample" -> <<"coord">>
    [] op.kind = "Expr" -> op.operands
    [] op.kind = "Output" -> <<"color">>
    [] op.kind = "CustomSnippet" -> [i \in DOMAIN op.inputs |-> op.inputs[i].name]
    [] OTHER -> <<>>

HasInputPort(op, port) == \E i \in DOMAIN InputPorts(op) : InputPorts(op)[i] = port

OutputPorts(op) ==
  CASE op.kind = "Output" -> {}
    [] op.kind = "CustomSnippet" -> Names(op.outputs)
    [] OTHER -> {"out"}

HasOutputPort(op, port) == port \in OutputPorts(op)

Arity(op) ==
  IF op \in {"mix", "clamp"} THEN 3 ELSE IF op \in Componentwise \cup {"dot"} THEN 2 ELSE 1

ReferenceErrors(op, ctx) ==
  (IF op.kind = "Param" /\ op.name \notin ctx.parameters THEN {"unknownParam"} ELSE {})
  \cup (IF op.kind = "Sample" /\ op.texture.kind = "Lut" /\ op.texture.index \notin ctx.luts
        THEN {"unknownTexture"} ELSE {})
  \cup (IF /\ op.kind = "Expr"
           /\ IF op.op = "construct" THEN Len(op.operands) < 1
                                     ELSE Len(op.operands) # Arity(op.op)
        THEN {"wrongArity"} ELSE {})
  \cup (IF op.kind = "Expr" /\ op.op = "construct" /\ ~IsVector(op.type)
        THEN {"operandType"} ELSE {})

SourceOk(g, e) == e.from \in Ids(g) /\ HasOutputPort(NodeOp(g, e.from), e.out)
TargetOk(g, e) == e.to \in Ids(g) /\ HasInputPort(NodeOp(g, e.to), e.in)

EndErrors(g, id, ok) ==
  IF id \notin Ids(g) THEN {<<"unknownNode", id>>} ELSE IF ~ok THEN {<<"unknownPort", id>>} ELSE {}

\* The edges whose ends exist, by index; of those to one port the last one counts.
Sound(g) == {i \in DOMAIN g.edges : SourceOk(g, g.edges[i]) /\ TargetOk(g, g.edges[i])}
SamePort(e, f) == e.to = f.to /\ e.in = f.in
Incoming(g) ==
  LET sound == Sound(g)
  IN  {g.edges[i] : i \in {j \in sound : \A k \in sound : SamePort(g.edges[j], g.edges[k]) => k <= j}}
Feeding(incoming, id, port) == {e \in incoming : e.to = id /\ e.in = port}

EdgeErrors(g) ==
  (UNION {EndErrors(g, g.edges[i].from, SourceOk(g, g.edges[i]))
          \cup EndErrors(g, g.edges[i].to, TargetOk(g, g.edges[i])) : i \in DOMAIN g.edges})
  \cup {<<"duplicateInput", g.edges[i].to>> : i \in
          {j \in Sound(g) : \E k \in Sound(g) : k < j /\ SamePort(g.edges[j], g.edges[k])}}

RequiredInputErrors(g, incoming) ==
  {<<"danglingInput", n.id>> : n \in
     {m \in ToSet(g.nodes) : \E i \in DOMAIN InputPorts(m.op) :
                               Feeding(incoming, m.id, InputPorts(m.op)[i]) = {}}}

OutputErrors(g) ==
  LET outputs == {i \in DOMAIN g.nodes : g.nodes[i].op.kind = "Output"}
  IN  IF outputs = {} THEN {<<"missingOutput", NoNode>>}
      ELSE IF Cardinality(outputs) > 1
           THEN {<<"multipleOutputs", g.nodes[i].id>> : i \in outputs}
           ELSE {}

\* Of a set of types: the widest, an int counting as a float.
WidestNumeric(types) ==
  IF \E t \in types : t = None \/ ~IsNumeric(t) THEN None
  ELSE FloatWithComponents(Max({0} \cup {ComponentCount(t) : t \in types}))

\* operand[port] is the type of what feeds a port.
ExprResult(op, operand) ==
  LET first == IF op.operands = <<>> THEN None ELSE operand[op.operands[1]]
  IN  CASE op.op \in Componentwise -> WidestNumeric({operand[port] : port \in ToSet(op.operands)})
        [] op.op \in {"dot", "length"} -> "Float"
        [] op.op = "construct" -> op.type
        [] op.op = "swizzle" -> IF first = None THEN None ELSE SwizzleResult(first, op.mask)
        [] OTHER -> first

\* The type of an output port, operand[p] being that of what feeds input port p.
InferOutput(op, port, operand) ==
  CASE op.kind = "Sample" -> "Vec4"
    [] op.kind = "Builtin" -> BuiltinType(op.semantic)
    [] op.kind = "Param" -> "Float"
    [] op.kind = "Const" -> op.type
    [] op.kind = "CustomSnippet" -> TypeOf(op.outputs, port)
    [] op.kind = "Expr" -> ExprResult(op, operand)

(***************************************************************************)
(* The type of every output port of an acyclic graph, None when it        *)
(* cannot be told.                                                          *)
(***************************************************************************)
Inferred(g, incoming) ==
  LET type[p \in UNION {{n} \X OutputPorts(NodeOp(g, n)) : n \in Ids(g)}] ==
        LET operand[port \in ToSet(InputPorts(NodeOp(g, p[1])))] ==
              IF Feeding(incoming, p[1], port) = {} THEN None
              ELSE LET e == CHOOSE f \in Feeding(incoming, p[1], port) : TRUE
                   IN  type[<<e.from, e.out>>]
        IN  InferOutput(NodeOp(g, p[1]), p[2], operand)
  IN  type

InputType(type, incoming, id, port) ==
  IF Feeding(incoming, id, port) = {} THEN None
  ELSE LET e == CHOOSE f \in Feeding(incoming, id, port) : TRUE IN type[<<e.from, e.out>>]

Target(op, port) ==
  CASE op.kind = "Sample" -> SampleCoord
    [] op.kind = "Expr" -> ExprOperand
    [] op.kind = "Output" -> Assignable("Vec4")
    [] op.kind = "CustomSnippet" -> Assignable(TypeOf(op.inputs, port))

EdgeTypeErrors(g, type) ==
  {<<"typeMismatch", g.edges[i].to>> : i \in
     {j \in Sound(g) : LET e == g.edges[j]
                           t == type[<<e.from, e.out>>]
                       IN  /\ t # None
                           /\ ~ConnectionLegal(t, Target(NodeOp(g, e.to), e.in))}}

\* Operands whose type cannot be told (None) have been reported already.
Present(types) == {types[i] : i \in DOMAIN types} \ {None}

ComponentwiseOk(types) ==
  LET vectors == {t \in Present(types) : IsVector(t)}
  IN  /\ \A t \in Present(types) : IsFloatFamily(t) \/ t = "Int"
      /\ vectors = {} \/ "Int" \notin Present(types)
      /\ Cardinality(vectors) <= 1

\* The component sum is a u8: past 255 a debug build panics, a release build wraps.
ConstructOk(target, types) ==
  IF None \in {types[i] : i \in DOMAIN types} THEN TRUE
  ELSE /\ \A t \in Present(types) : IsFloatFamily(t)
       /\ \/ FoldSeq(LAMBDA t, sum : (sum + ComponentCount(t)) % 256, 0, types)
               = ComponentCount(target)
          \/ Len(types) = 1 /\ IsScalar(types[1])

OperandsOk(op, types) ==
  CASE op.op \in Componentwise -> ComponentwiseOk(types)
    [] op.op = "dot" -> \/ Len(types) # 2 \/ None \in {types[1], types[2]}
                        \/ types[1] = types[2] /\ IsVector(types[1])
    [] op.op = "construct" -> IsVector(op.type) => ConstructOk(op.type, types)
    [] OTHER -> \/ types = <<>> \/ types[1] = None
                \/ op.op \in {"normalize", "length"} /\ IsVector(types[1])
                \/ op.op \in UnaryMath /\ IsFloatFamily(types[1])
                \/ op.op = "swizzle" /\ SwizzleResult(types[1], op.mask) # None

OperandErrors(g, type, incoming) ==
  {<<IF n.op.op = "swizzle" THEN "illegalSwizzle" ELSE "operandType", n.id>> : n \in
     {m \in ToSet(g.nodes) :
        /\ m.op.kind = "Expr"
        /\ ~OperandsOk(m.op, [i \in DOMAIN m.op.operands |->
                                InputType(type, incoming, m.id, m.op.operands[i])])}}

(***************************************************************************)
(* check, from the edges that count and the nodes the search for cycles     *)
(* reports.                                                                  *)
(***************************************************************************)
Check(g, ctx, incoming, cycles) ==
  LET type == Inferred(g, incoming)
  IN  {<<"duplicateNodeId", g.nodes[i].id>> : i \in
         {j \in DOMAIN g.nodes : \E k \in 1 .. j - 1 : g.nodes[k].id = g.nodes[j].id}}
      \cup (UNION {{<<e, n.id>> : e \in ReferenceErrors(n.op, ctx)} : n \in ToSet(g.nodes)})
      \cup EdgeErrors(g) \cup RequiredInputErrors(g, incoming) \cup OutputErrors(g)
      \cup {<<"cycle", n>> : n \in cycles}
      \cup (IF cycles # {} THEN {}
            ELSE EdgeTypeErrors(g, type) \cup OperandErrors(g, type, incoming))
=============================================================================
