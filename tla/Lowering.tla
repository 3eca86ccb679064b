------------------------------ MODULE Lowering ------------------------------
(***************************************************************************)
(* compile_graph (crates/app/src/graph.rs): a typed graph is checked, then  *)
(* lowered to statements in single-assignment form (crates/ir/src/lower.rs), *)
(* then written as a shader.  The two depth-first searches, for cycles and   *)
(* for the order of the statements, are taken a step at a time: both keep an *)
(* explicit stack of frames [node, next], the next child to look at.         *)
(***************************************************************************)
EXTENDS SlangEmitter

CONSTANTS Graphs,      \* the graphs that may be compiled
          Contexts     \* and the declared [parameters, luts] they meet

ASSUME GraphsAssumption == /\ \A g \in Graphs : IsIrGraph(g)
                           /\ Contexts \subseteq CheckContext

VARIABLES graph, ctx, pc,
          incoming,                  \* the edges that count, one for a port at most
          stack, finished, cycles,   \* search for cycles: done nodes in order, reported nodes
          diagnostics,
          order, stmts,              \* lowering: nodes in order, statements so far
          shader                     \* the shader written, if any

vars == <<graph, ctx, pc, incoming, stack, finished, cycles, diagnostics, order, stmts, shader>>

Frame(n) == [node |-> n, next |-> 1]
OnStack == {stack[i].node : i \in DOMAIN stack}
Top == stack[Len(stack)]
Pop == Front(stack)
Advance == [stack EXCEPT ![Len(stack)].next = @ + 1]

Init == /\ graph \in Graphs /\ ctx \in Contexts
        /\ pc = "edges" /\ incoming = {}
        /\ stack = <<>> /\ finished = <<>> /\ cycles = {}
        /\ diagnostics = {} /\ order = <<>> /\ stmts = <<>> /\ shader = {}

------------------------------------------------------------------------------
(* check: the edges, then check_acyclic *)

ReadEdges ==
  /\ pc = "edges"
  /\ incoming' = Incoming(graph) /\ pc' = "cycles"
  /\ UNCHANGED <<graph, ctx, stack, finished, cycles, diagnostics, order, stmts, shader>>

\* A set of numbers, the least first.
Ascending(S) == [k \in 1 .. Cardinality(S) |-> CHOOSE x \in S : Cardinality({y \in S : y < x}) = k - 1]

\* The children of a node in edge order: the targets of its edges that exist.
Children(n) ==
  LET out == Ascending({i \in DOMAIN graph.edges :
                          graph.edges[i].from = n /\ {n, graph.edges[i].to} \subseteq Ids(graph)})
  IN  [k \in DOMAIN out |-> graph.edges[out[k]].to]

Unseen == {i \in DOMAIN graph.nodes : graph.nodes[i].id \notin ToSet(finished) \cup OnStack}

SearchFrom ==
  /\ pc = "cycles" /\ stack = <<>> /\ Unseen # {}
  /\ stack' = <<Frame(graph.nodes[Min(Unseen)].id)>>
  /\ UNCHANGED <<graph, ctx, incoming, pc, finished, cycles, diagnostics, order, stmts, shader>>

VisitChildSeenTwice ==
  /\ pc = "cycles" /\ stack # <<>> /\ Top.next <= Len(Children(Top.node))
  /\ LET child == Children(Top.node)[Top.next]
         seen == OnStack \cup ToSet(finished)
     IN  /\ cycles' = IF child \in seen THEN cycles \cup {child} ELSE cycles
         /\ stack' = IF child \in seen THEN Advance ELSE Append(Advance, Frame(child))
  /\ UNCHANGED <<graph, ctx, incoming, pc, finished, diagnostics, order, stmts, shader>>

VisitChild ==
  /\ pc = "cycles" /\ stack # <<>> /\ Top.next <= Len(Children(Top.node))
  /\ LET child == Children(Top.node)[Top.next]
     IN  /\ cycles' = IF child \in OnStack THEN cycles \cup {child} ELSE cycles
         /\ stack' = IF child \in OnStack \cup ToSet(finished) THEN Advance
                     ELSE Append(Advance, Frame(child))
  /\ UNCHANGED <<graph, ctx, incoming, pc, finished, diagnostics, order, stmts, shader>>

Finish ==
  /\ pc = "cycles" /\ stack # <<>> /\ Top.next > Len(Children(Top.node))
  /\ finished' = Append(finished, Top.node) /\ stack' = Pop
  /\ UNCHANGED <<graph, ctx, incoming, pc, cycles, diagnostics, order, stmts, shader>>

\* The rest of check; lower checks again, with the same answer.  The statements
\* are ordered from the Output of least id.
Judge ==
  /\ pc = "cycles" /\ stack = <<>> /\ Unseen = {}
  /\ diagnostics' = Check(graph, ctx, incoming, cycles)
  /\ pc' = IF diagnostics' = {} THEN "order" ELSE "refused"
  /\ stack' = IF diagnostics' = {}
              THEN <<Frame(Min({n.id : n \in {m \in ToSet(graph.nodes) : m.op.kind = "Output"}}))>>
              ELSE <<>>
  /\ UNCHANGED <<graph, ctx, incoming, finished, cycles, order, stmts, shader>>

------------------------------------------------------------------------------
(* topo_order_from_output *)

\* GraphIndex: the edge of an input port, if any; the last one of a port wins.
InputSource(n, port) ==
  LET edges == {i \in DOMAIN graph.edges : graph.edges[i].to = n /\ graph.edges[i].in = port}
  IN  {graph.edges[i] : i \in {j \in edges : \A k \in edges : k <= j}}

Deps(n) ==
  LET ports == InputPorts(NodeOp(graph, n))
      edges == UNION {InputSource(n, ports[i]) : i \in DOMAIN ports}
  IN  Ascending({e.from : e \in edges} \cap Ids(graph))

VisitDep ==
  /\ pc = "order" /\ stack # <<>> /\ Top.next <= Len(Deps(Top.node))
  /\ LET dep == Deps(Top.node)[Top.next]
     IN  stack' = IF dep \in OnStack \cup ToSet(order) THEN Advance ELSE Append(Advance, Frame(dep))
  /\ UNCHANGED <<graph, ctx, incoming, pc, finished, cycles, diagnostics, order, stmts, shader>>

PlaceFirst ==
  /\ pc = "order" /\ stack # <<>> /\ Top.next > Len(Deps(Top.node))
  /\ order' = <<Top.node>> \o order /\ stack' = Pop
  /\ pc' = IF Len(stack) = 1 THEN "emit" ELSE pc
  /\ UNCHANGED <<graph, ctx, incoming, finished, cycles, diagnostics, stmts, shader>>

Place ==
  /\ pc = "order" /\ stack # <<>> /\ Top.next > Len(Deps(Top.node))
  /\ order' = Append(order, Top.node) /\ stack' = Pop
  /\ pc' = IF Len(stack) = 1 THEN "emit" ELSE pc
  /\ UNCHANGED <<graph, ctx, incoming, finished, cycles, diagnostics, stmts, shader>>

------------------------------------------------------------------------------
(* Lowerer *)

\* Statement i defines temporary i - 1, the value of `port` of `node`.
Defining(n, port) == {i \in DOMAIN stmts : stmts[i].node = n /\ stmts[i].port = port}

\* The temporary that feeds a port, if any; the later of two of one name.
InputTemp(n, port) ==
  LET defs == UNION {Defining(e.from, e.out) : e \in InputSource(n, port)}
  IN  IF defs = {} THEN {} ELSE {Max(defs) - 1}

TempOr0(t) == IF t = {} THEN 0 ELSE Max(t)

OperandType(n, port) ==
  LET t == InputTemp(n, port) IN IF t = {} THEN None ELSE stmts[Max(t) + 1].type

ExprResultType(n, op) ==
  LET first == IF op.operands = <<>> THEN None ELSE OperandType(n, op.operands[1])
      counts == {IF t = "Sampler2D" THEN 1 ELSE ComponentCount(t) : t \in
                   {OperandType(n, op.operands[i]) : i \in DOMAIN op.operands} \ {None}}
      OrFloat(t) == IF t = None THEN "Float" ELSE t
  IN  CASE op.op \in Componentwise -> OrFloat(FloatWithComponents(Max({0} \cup counts)))
        [] op.op \in {"dot", "length"} -> "Float"
        [] op.op = "construct" -> op.type
        [] op.op = "swizzle" -> OrFloat(IF first = None THEN None ELSE SwizzleResult(first, op.mask))
        [] OTHER -> OrFloat(first)

CanonicalTextureAsGiven(t) == t

CanonicalTexture(t) ==
  IF t.kind = "OriginalHistory" /\ t.index = 0 THEN [kind |-> "Original", index |-> 0] ELSE t

Stmt(n, port, type, op, operands) ==
  [node |-> n, port |-> port, type |-> type, op |-> op, operands |-> operands]

\* The statements a node adds: one for every output of a snippet, none for Output.
Emitted(n) ==
  LET op == NodeOp(graph, n)
      Temps(ports) == [i \in DOMAIN ports |-> TempOr0(InputTemp(n, ports[i]))]
  IN  CASE op.kind = "Const" -> <<Stmt(n, "out", op.type, op, <<>>)>>
        [] op.kind = "Param" -> <<Stmt(n, "out", "Float", op, <<>>)>>
        [] op.kind = "Builtin" ->
             <<Stmt(n, "out", IF BuiltinType(op.semantic) = None THEN "Int" ELSE BuiltinType(op.semantic),
                    op, <<>>)>>
        [] op.kind = "Sample" ->
             <<Stmt(n, "out", "Vec4", [op EXCEPT !.texture = CanonicalTexture(@)], Temps(<<"coord">>))>>
        [] op.kind = "Expr" -> <<Stmt(n, "out", ExprResultType(n, op), op, Temps(op.operands))>>
        [] op.kind = "CustomSnippet" ->
             [i \in DOMAIN op.outputs |->
                Stmt(n, op.outputs[i].name, op.outputs[i].type, op, Temps(InputPorts(op)))]
        [] op.kind = "Output" -> <<>>

EmitNode ==
  /\ pc = "emit" /\ order # <<>>
  /\ stmts' = stmts \o Emitted(Head(order))
  /\ IF Len(order) > 1 THEN order' = Tail(order) /\ UNCHANGED pc
                       ELSE order' = order /\ pc' = "write"
  /\ UNCHANGED <<graph, ctx, incoming, stack, finished, cycles, diagnostics, shader>>

BuiltinOrder == <<"FinalViewportSize", "FrameCount", "FrameDirection", "Mvp",
                  "OriginalSize", "OutputSize", "SourceSize">>

TextureSortKey(t) ==
  [rank |-> CASE t.kind = "Source" -> 0 [] t.kind = "Original" -> 1 [] t.kind = "OriginalHistory" -> 2
              [] t.kind = "PassOutput" -> 3 [] t.kind = "PassFeedback" -> 4 [] OTHER -> 5,
   index |-> IF t.kind \in {"Source", "Original"} THEN 0 ELSE t.index]

Before(s, t) ==
  LET a == TextureSortKey(s)
      b == TextureSortKey(t)
  IN  a.rank < b.rank \/ (a.rank = b.rank /\ a.index < b.index)

Ops(kind) == {s.op : s \in {t \in ToSet(stmts) : t.op.kind = kind}}

CollectManifest ==
  LET textures == SetToSortSeq({op.texture : op \in Ops("Sample")}, Before)
  IN  [parameters |-> SetToSortSeq({op.name : op \in Ops("Param")}, LAMBDA a, b : a < b),
       builtins |-> SelectSeq(BuiltinOrder, LAMBDA b : \E op \in Ops("Builtin") : op.semantic = b),
       samplers |-> [i \in DOMAIN textures |-> [texture |-> textures[i], binding |-> i - 1]]]

\* order keeps the Output as its last element.  No colour: lower fails with NoOutput.
Write ==
  /\ pc = "write"
  /\ LET output == InputTemp(Head(order), "color")
     IN  IF output = {} THEN pc' = "noOutput" /\ UNCHANGED shader
         ELSE /\ pc' = "done"
              /\ shader' = {EmitPass([stmts |-> stmts, output |-> Max(output),
                                      outputType |-> stmts[Max(output) + 1].type,
                                      manifest |-> CollectManifest])}
  /\ UNCHANGED <<graph, ctx, incoming, stack, finished, cycles, diagnostics, order, stmts>>

Over == pc \in {"refused", "done", "noOutput"}

Next == ReadEdges \/ SearchFrom \/ VisitChild \/ Finish \/ Judge \/ VisitDep \/ Place \/ EmitNode \/ Write

Spec == Init /\ [][Next]_vars /\ WF_vars(Next)

------------------------------------------------------------------------------
(* Properties.  Reach closes a set of nodes under a successor function.     *)

Reach(from, succ) ==
  LET R[k \in 0 .. Len(graph.nodes)] ==
        IF k = 0 THEN from ELSE LET r == R[k - 1] IN r \cup UNION {succ[n] : n \in r}
  IN  R[Len(graph.nodes)]

ChildrenOf == [n \in Ids(graph) |-> ToSet(Children(n))]
DepsOf == [n \in Ids(graph) |-> ToSet(Deps(n))]

Stmts == 1 .. Len(stmts)
Expr == {i \in Stmts : stmts[i].op.kind = "Expr"}
TypesOf(i) == [k \in DOMAIN stmts[i].operands |-> stmts[stmts[i].operands[k] + 1].type]

\* No two outputs of a snippet have one name; nothing checks it.
OutputsAreNamedApart ==
  \A n \in {m \in ToSet(graph.nodes) : m.op.kind = "CustomSnippet"} :
    \A i, j \in DOMAIN n.op.outputs : n.op.outputs[i].name = n.op.outputs[j].name => i = j

\* MVP has no type, nor has what is computed from it.
Untyped(type, i) ==
  LET s == stmts[i]
  IN  \/ s.op.kind = "Builtin" /\ s.op.semantic = "Mvp"
      \/ /\ s.op.kind = "Expr"
         /\ \E k \in DOMAIN s.op.operands : InputType(type, incoming, s.node, s.op.operands[k]) = None

\* Every stage leaves data of its kind, and the stacks of both searches hold a
\* node at most once.
TypeOK ==
  /\ graph \in Graphs /\ ctx \in Contexts
  /\ pc \in {"edges", "cycles", "order", "emit", "write", "refused", "done", "noOutput"}
  /\ \A i \in DOMAIN stack : stack[i].node \in Ids(graph) /\ stack[i].next \in Nat \ {0}
  /\ Cardinality(OnStack) = Len(stack)
  /\ ToSet(finished) \subseteq Ids(graph) /\ Cardinality(ToSet(finished)) = Len(finished)
  /\ \A d \in diagnostics : d[2] \in Ids(graph) \cup {NoNode} \/ d[1] = "unknownNode"
  /\ \A i \in Stmts : stmts[i].node \in Ids(graph) /\ stmts[i].type \in PortType

\* typecheck.rs:531: a search that is over has reported a cycle exactly if the
\* graph has one, and every node reported "participates in a cycle".
CyclesAreFound ==
  LET OnCycle(n) == n \in Reach(ChildrenOf[n], ChildrenOf)
  IN  /\ \A n \in cycles : OnCycle(n)
      /\ cycles = {} => \A n \in Ids(graph) : ~OnCycle(n)

\* lower.rs:14, "every operand temp is defined before it is used": every operand
\* is the temporary of the very port that feeds it, and an earlier one; the
\* fallback to temporary 0 is never taken.
OperandsAreDefined ==
  \A i \in Stmts :
    LET ports == InputPorts(stmts[i].op)
    IN  /\ Len(stmts[i].operands) = Len(ports)
        /\ \A k \in DOMAIN ports :
             LET t == stmts[i].operands[k]
             IN  /\ t + 1 < i
                 /\ \E e \in InputSource(stmts[i].node, ports[k]) :
                      stmts[t + 1].node = e.from /\ stmts[t + 1].port = e.out

OutputNode == CHOOSE n \in Ids(graph) : NodeOp(graph, n).kind = "Output"

\* lower.rs:10: of a graph without errors exactly the nodes the Output depends on
\* are lowered, each output port once, and lowering finds the colour (graph.rs:63).
LowersWhatTheOutputNeeds ==
  /\ pc # "noOutput"
  /\ pc = "done" =>
       /\ {stmts[i].node : i \in Stmts} =
            {n \in Reach({OutputNode}, DepsOf) \ {OutputNode} :
               NodeOp(graph, n).kind = "CustomSnippet" => NodeOp(graph, n).outputs # <<>>}
       /\ OutputsAreNamedApart =>
            \A i, j \in Stmts : stmts[i].node = stmts[j].node /\ stmts[i].port = stmts[j].port => i = j

\* lower.rs:526: the type a temporary is declared with is the one the checker
\* inferred for that port, wherever it could tell one.
DeclaredTypesAreInferred ==
  pc \in {"write", "done"} /\ OutputsAreNamedApart =>
    LET type == Inferred(graph, incoming)
    IN  \A i \in Stmts : LET t == type[<<stmts[i].node, stmts[i].port>>]
                         IN  t = stmts[i].type \/ (t = None /\ Untyped(type, i))

\* The statements of the lowered pass: the needed ones, in an order that defines
\* every operand before its use, at the types the checker found.
LoweringIsSound ==
  TypeOK /\ OperandsAreDefined /\ LowersWhatTheOutputNeeds /\ DeclaredTypesAreInferred

OpsOf(kind) == {n.op : n \in {m \in ToSet(graph.nodes) : m.op.kind = kind}}
Snippets == {n.id : n \in {m \in ToSet(graph.nodes) : m.op.kind = "CustomSnippet"}}

\* How an identifier of the emitter's own begins.
OwnWords == {"Source", "Original", "OriginalHistory", "PassOutput", "PassFeedback", "t", "snippet"}
            \cup {FixedNames[i][1] : i \in DOMAIN FixedNames}

\* What the author names is not named as the emitter names its own, and of no two
\* snippet nodes does the identifier of one begin that of the other; nothing checks it.
NamesAreApart ==
  /\ OutputsAreNamedApart
  /\ \A op \in OpsOf("Sample") : op.texture.kind = "Lut" => NameOf[op.texture.index][1] \notin OwnWords
  /\ \A op \in OpsOf("Param") : NameOf[op.name][1] \notin BuiltinSemantic
  /\ \A m, n \in Snippets : IsPrefix(SanitizeIdent[m], SanitizeIdent[n]) => m = n

\* The identifiers of the fragment stage, as often as they are declared.
Locals(sh) == SelectSeq([i \in DOMAIN sh.main |-> sh.main[i].declares],
                        LAMBDA d : d \notin {<<>>, <<"FragColor">>})
Declared(sh) == [i \in DOMAIN sh.push |-> sh.push[i].name]
                \o [i \in DOMAIN sh.samplers |-> sh.samplers[i].name]
                \o sh.functions \o FixedNames \o <<MVP>> \o Locals(sh)
DeclaredOnce(sh) == LET d == Declared(sh) IN Cardinality(ToSet(d)) = Len(d)

\* emit.rs:41: whatever a statement of main reads is declared, once, and before
\* it; samplers get the bindings from 2 on in a row, and a texture one sampler.
ShaderDeclaresWhatItReads ==
  \A sh \in {s \in shader : NamesAreApart} :
    LET local == [i \in DOMAIN sh.main |-> sh.main[i].declares]
        declared == ToSet(Declared(sh))
    IN  /\ DeclaredOnce(sh)
        /\ \A i \in DOMAIN sh.main : \A x \in sh.main[i].reads :
             /\ x \in declared
             /\ \A j \in DOMAIN local : local[j] = x => j < i
        /\ \A i \in DOMAIN sh.samplers : sh.samplers[i].binding = i + 1

\* The same whatever the author calls things: "two snippet nodes never share a
\* function" (emit.rs:366), a graph that checks clean compiles (typecheck.rs:937).
EveryNameIsDeclaredOnce == \A sh \in shader : OutputsAreNamedApart => DeclaredOnce(sh)

Accepted(i) == GlslAccepts(stmts[i].op, TypesOf(i), stmts[i].type)

\* typecheck.rs:937, "any graph that checks clean here emits compiling slang": so
\* it is for the operators and functions the checker types the way GLSL does, on
\* values whose type it can tell.
OperatorsCompile ==
  pc \in {"write", "done"} /\ OutputsAreNamedApart =>
    LET type == Inferred(graph, incoming)
        ops == {"add", "sub", "mul", "div", "dot", "length", "normalize", "swizzle", "construct"} \cup UnaryMath
    IN  \A i \in Expr : stmts[i].op.op \in ops /\ ~ Untyped(type, i) => Accepted(i)

\* The emitted text declares what it uses and has the overloads it calls.
EmittedCodeCompiles == ShaderDeclaresWhatItReads /\ OperatorsCompile

\* The same sentence as it stands, of all expressions.  It fails: pow, mix, clamp,
\* min and max have no overload for every mix of scalar and vector let through; what
\* is computed from MVP is not checked and declared as an int; of two outputs of one
\* name the checker takes the type of the first and lowering the value of the last.
CheckedGraphsCompile == \A i \in Expr : Accepted(i)

(* graph.rs:33: every compilation answers, with a shader or with diagnostics: *)
(* the searches never go round, no node is left over, and the search for     *)
(* cycles behind the answer found one if and only if the graph has one.      *)
EveryGraphIsAnswered ==
  <>(/\ pc = "done" \/ (pc = "refused" /\ diagnostics # {})
     /\ CyclesAreFound)
=============================================================================
