----------------------------- MODULE MCRenderer -----------------------------
(* Two images of different sizes, two panes, a simulated viewport or none, *)
(* and chains that between them use every texture class: feedback by flag, *)
(* by index and by alias, history two frames deep, a final pass that feeds *)
(* back, a read of a later pass, and a lookup texture.                      *)
EXTENDS Sampling

CONSTANTS f1, f2

MCFrames    == {f1, f2}
MCSizeOf    == [f \in MCFrames |-> IF f = f1 THEN <<2, 2>> ELSE <<4, 2>>]
MCPaneSizes == {<<4, 4>>, <<8, 4>>}
MCConfigs   == {NoViewport,
                [size |-> <<6, 6>>, integerScale |-> TRUE, active |-> TRUE]}
MCLutSets   == {{}, {"Border"}}
MCParamNames == {"Gain"}
MCValues    == {0, 1}
MCOverrides == {[n \in {"Gain"} |-> 1]}
MCLutSize   == <<3, 1>>
MCTicks     == 3

NoParams  == << >>
Gain      == [n \in {"Gain"} |-> 0]
Half      == [x |-> Axis("source", 1, 2), y |-> Axis("source", 1, 2)]
Pass(scale, alias, slots) ==
  [scale |-> scale, feedback |-> FALSE, alias |-> alias, slots |-> slots, params |-> NoParams]

Src      == <<"Source", 0>>
Orig     == <<"Original", 0>>

\* A two-frames-deep motion blur: history only.
Blur == <<Pass(NoScale, "", {Src, <<"OriginalHistory", 1>>, <<"OriginalHistory", 2>>})>>

\* An accumulator that reads its own output, a screen pass, no scale.
Echo == <<Pass(NoScale, "acc", {Src, <<"PassFeedback", 1>>}),
          Pass(NoScale, "", {Src, Orig, <<"PassOutput", 1>>, <<"AliasFeedback", "acc">>})>>

\* The final pass feeds the first one; the first reads a later pass.
Loop == <<Pass(Half, "a", {Src, <<"AliasFeedback", "b">>, <<"PassOutput", 2>>}),
          Pass(NoScale, "b", {Src, <<"Alias", "a">>, <<"Alias", "b">>})>>

\* Feedback by the preset's flag only, a duplicate alias, a lookup texture.
Flagged == <<[Pass(Viewport1x, "a", {Src}) EXCEPT !.feedback = TRUE, !.params = Gain],
             Pass(Source1x, "a", {Src, <<"Alias", "a">>, <<"Lut", "Border">>,
                                  <<"OriginalHistory", 1>>})>>

MCChains == {<< >>, Blur, Echo, Loop, Flagged}

\* Mips of the source, of an intermediate pass with feedback, and of the lookup
\* texture.
Sampled(linear, wrap, mips) ==
  [filter_linear |-> linear, wrap_mode |-> wrap, mipmap_input |-> mips]

MCSettingsOf ==
  [chain \in MCChains |->
     CASE chain = << >>   -> << >>
       [] chain = Blur    -> <<Sampled(TRUE, "repeat", TRUE)>>
       [] chain = Echo    -> <<Sampled(TRUE, "clamp_to_edge", FALSE),
                               Sampled(FALSE, "mirrored_repeat", TRUE)>>
       [] chain = Loop    -> <<Sampled(FALSE, "clamp_to_border", TRUE),
                               Sampled(TRUE, "repeat", FALSE)>>
       [] chain = Flagged -> <<Sampled(TRUE, "clamp_to_border", FALSE),
                               Sampled(TRUE, "clamp_to_edge", TRUE)>>]
MCLutSettings == [name \in {"Border"} |-> Sampled(FALSE, "repeat", TRUE)]
=============================================================================
