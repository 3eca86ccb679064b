----------------------------- MODULE MCLowering -----------------------------
(* Graphs to compile: every operator on every mix of operand types, every    *)
(* wiring of a small graph (cycles and open ports included), every mix of    *)
(* textures, and graphs with one structural mistake each.                    *)
EXTENDS Lowering, TLC

Nd(id, op) == [id |-> id, op |-> op]
E(from, out, to, in) == [from |-> from, out |-> out, to |-> to, in |-> in]
G(nodes, edges) == [nodes |-> nodes, edges |-> edges]

Const(t) == [kind |-> "Const", type |-> t]
Sample(kind, index) == [kind |-> "Sample", texture |-> [kind |-> kind, index |-> index]]
Param(name) == [kind |-> "Param", name |-> name]
Builtin(semantic) == [kind |-> "Builtin", semantic |-> semantic]
Color == [kind |-> "Output"]
Op(op, operands) == [kind |-> "Expr", op |-> op, operands |-> operands, mask |-> <<>>, type |-> None]
Swizzle(mask) == [Op("swizzle", <<"a">>) EXCEPT !.mask = mask]
Construct(t, operands) == [Op("construct", operands) EXCEPT !.type = t]
Decl(name, t) == [name |-> name, type |-> t]
Snippet(inputs, outputs) == [kind |-> "CustomSnippet", inputs |-> inputs, outputs |-> outputs]

X == [set |-> 1, component |-> 0]
W == [set |-> 1, component |-> 3]
R == [set |-> 2, component |-> 0]

\* The operator is node 8; a swizzle brings its value to the Output.
Judged(op, types) ==
  G([i \in DOMAIN types |-> Nd(i, Const(types[i]))]
      \o <<Nd(8, op), Nd(9, Swizzle(<<X>>)), Nd(10, Color)>>,
    [i \in DOMAIN types |-> E(i, "out", 8, op.operands[i])]
      \o <<E(8, "out", 9, "a"), E(9, "out", 10, "color")>>)

ConstType == PortType \ {"Sampler2D"}
Few == {"Float", "Vec2", "Vec3", "Int"}

OperatorGraphs ==
  {Judged(Op(op, <<"a", "b">>), <<s, t>>) : op \in {"add", "pow", "dot"}, s \in ConstType, t \in ConstType}
  \cup {Judged(Op(op, <<"a", "b", "c">>), <<s, t, u>>) : op \in {"mix"}, s \in Few, t \in Few, u \in Few}
  \cup {Judged(Op(op, <<"a">>), <<t>>) : op \in {"sin", "normalize", "length"}, t \in ConstType}
  \cup {Judged(Swizzle(m), <<t>>) : m \in {<<X, X>>, <<X, R>>, <<X, W>>, <<>>}, t \in ConstType}
  \cup {Judged(Construct(c, <<"a">>), <<t>>) : c \in {"Vec3", "Int"}, t \in ConstType}
  \cup {Judged(Construct("Vec3", <<"a", "b">>), <<s, t>>) : s \in Few, t \in Few}
  \cup {Judged(Op("add", <<"a">>), <<"Float">>)}

Wire(port, from) == IF from = <<>> THEN <<>> ELSE <<E(from[1], from[2], port[1], port[2])>>

WiringGraphs ==
  LET code == Snippet(<<Decl("i", "Float")>>, <<Decl("p", "Vec2"), Decl("q", "Float")>>)
  IN  {G(<<Nd(3, code), Nd(5, Color), Nd(1, Const("Vec2")), Nd(2, Sample("Source", 0)),
           Nd(4, Op("add", <<"a", "b">>))>>,
         Wire(<<2, "coord">>, c) \o Wire(<<3, "i">>, i) \o Wire(<<4, "a">>, a)
           \o Wire(<<4, "b">>, b) \o Wire(<<5, "color">>, k)) :
         c \in {<<1, "out">>, <<3, "p">>, <<4, "out">>, <<>>},
         i \in {<<3, "q">>, <<4, "out">>, <<6, "out">>},
         a \in {<<2, "out">>, <<3, "q">>, <<4, "out">>},
         b \in {<<3, "q">>, <<2, "out">>, <<3, "r">>},
         k \in {<<4, "out">>, <<3, "q">>, <<2, "out">>}}
      \cup {G(<<Nd(3, code), Nd(5, Color), Nd(1, Const("Vec2")), Nd(2, Sample("Source", 0)), Nd(6, Const(t)),
                Nd(4, Op("add", <<"a", "b">>)), Nd(7, Snippet(<<Decl("v", u)>>, <<Decl("w", "Float")>>))>>,
              <<E(6, "out", 3, "i"), E(3, "p", 2, "coord"), E(2, "out", 4, "a"), E(7, "w", 4, "b"),
                E(s[1], s[2], 7, "v"), E(4, "out", 5, "color")>>) :
              t \in ConstType, u \in {"Float", "Vec2"}, s \in {<<3, "q">>, <<1, "out">>, <<4, "out">>}}

Textures == {Sample("Source", 0), Sample("Original", 0), Sample("OriginalHistory", 0),
             Sample("OriginalHistory", 2), Sample("PassOutput", 1), Sample("PassFeedback", 0), Sample("Lut", 7)}

TextureGraph(s, t, p, b) ==
  G(<<Nd(1, Const("Vec2")), Nd(2, s), Nd(3, t), Nd(4, Op("add", <<"a", "b">>)), Nd(5, Param(p)),
       Nd(6, Op("mul", <<"a", "b">>)), Nd(7, Builtin(b)), Nd(8, Op("add", <<"a", "b">>)), Nd(9, Color),
       Nd(11, Builtin("OutputSize")), Nd(12, Op("add", <<"a", "b">>)), Nd(13, Param(2))>>,
    <<E(1, "out", 2, "coord"), E(1, "out", 3, "coord"), E(2, "out", 4, "a"), E(3, "out", 4, "b"),
       E(4, "out", 6, "a"), E(5, "out", 6, "b"), E(6, "out", 8, "a"), E(7, "out", 8, "b"),
       E(8, "out", 12, "a"), E(11, "out", 12, "b"), E(12, "out", 9, "color")>>)

\* Textures and parameters with the names of others, and all the rest.
TextureGraphs ==
  {TextureGraph(s, t, 1, b) :
     s \in Textures, t \in {Sample("Original", 0), Sample("Lut", 7)}, b \in {"OutputSize", "Mvp"}}
  \cup {TextureGraph(Sample("Source", 0), Sample("Lut", 8), 1, "Mvp"),
        TextureGraph(Sample("PassOutput", 1), Sample("Lut", 9), 1, "Mvp"),
        TextureGraph(Sample("Source", 0), Sample("Lut", 10), 1, "Mvp"),
        TextureGraph(Sample("Source", 0), Sample("Original", 0), 3, "Mvp")}
  \cup {G(<<Nd(1, Builtin(b)), Nd(9, Color)>>, <<E(1, "out", 9, "color")>>) :
          b \in {"Mvp", "FrameCount", "SourceSize"}}

OneMistake ==
  LET ok == G(<<Nd(1, Const("Float")), Nd(2, Const("Vec4")), Nd(9, Color)>>, <<E(1, "out", 9, "color")>>)
  IN  {ok,
       [ok EXCEPT !.nodes = Append(@, Nd(1, Const("Vec2")))],
       [ok EXCEPT !.nodes = Append(@, Nd(8, Color))],
       [ok EXCEPT !.nodes = SubSeq(@, 1, 2)],
       [ok EXCEPT !.edges = Append(@, E(2, "out", 9, "color"))],
       [ok EXCEPT !.edges = Append(@, E(9, "out", 1, "in"))]}

\* MVP as an operand, and two outputs of one name.
Unchecked ==
  {G(<<Nd(1, Builtin("Mvp")), Nd(2, Op(f, <<"a">>)), Nd(3, Const(t)), Nd(4, Op(op, <<"a", "b">>)), Nd(9, Color)>>,
     <<E(1, "out", 2, "a"), E(2, "out", 4, "a"), E(3, "out", 4, "b"), E(4, "out", 9, "color")>>) :
       f \in {"sin", "length"}, op \in {"add", "dot"}, t \in {"Float", "Vec4"}}
  \cup {G(<<Nd(3, Snippet(<<>>, <<Decl("p", s), Decl("p", t)>>)), Nd(4, Op("add", <<"a", "b">>)), Nd(9, Color)>>,
          <<E(3, "p", 4, "a"), E(3, "p", 4, "b"), E(4, "out", 9, "color")>>) :
            s \in {"Float", "Vec2"}, t \in {"Float", "Vec2"}}

\* Two snippets, with or without identifiers of their own.
SnippetGraphs ==
  {G(<<Nd(3, Snippet(<<>>, <<Decl("p", "Float"), Decl("q", "Vec4")>>)),
       Nd(n, Snippet(<<>>, <<Decl("p", "Float")>>)), Nd(4, Op("mul", <<"a", "b">>)), Nd(9, Color)>>,
     <<E(3, "q", 4, "a"), E(n, "p", 4, "b"), E(4, "out", 9, "color")>>) : n \in {7, 17, 18}}

MCGraphs == SnippetGraphs \cup Unchecked \cup OperatorGraphs \cup WiringGraphs \cup TextureGraphs \cup OneMistake

MCContexts == {[parameters |-> {1, 2, 3}, luts |-> {7, 8, 9, 10}], [parameters |-> {2}, luts |-> {}]}

\* The ids 3 and 17 become one identifier, 18 that of 3 and of its port p.
MCSanitizeIdent == [n \in 1 .. 20 |-> CASE n = 17 -> <<3>> [] n = 18 -> <<3, "p">> [] OTHER -> <<n>>]

MCNameOf == 1 :> <<"Gain">> @@ 2 :> <<"Gamma">> @@ 3 :> <<"OutputSize">>
            @@ 7 :> <<"Grain">> @@ 8 :> <<"Source">> @@ 9 :> <<"PassOutput", 1>> @@ 10 :> <<"t", 0>>
=============================================================================
