---------------------------- MODULE MCPresetFiles ----------------------------
(* Presets of up to three passes over shaders of two directories with equal    *)
(* file names, with per-axis scales, an alias, look-up textures of one file,   *)
(* overrides and orphans, extra keys with a comment and in quotes, keys of     *)
(* passes that are not there, and aliases set, kept and removed by an edit.    *)
EXTENDS PresetFiles

Key(k, v) == [key |-> k, value |-> v]
Quoted(k, v) == Key(k, <<"word", "quote">> \o Tail(v) \o <<"quote">>)
Use(name) == [k |-> "use", name |-> name, hidden |-> FALSE]
Hidden(name) == [k |-> "use", name |-> name, hidden |-> TRUE]
Param(name, default, lo, hi) ==
    [k |-> "parameter", good |-> TRUE, p |-> [name |-> <<name>>, default |-> default, min |-> lo, max |-> hi]]
Malformed == [k |-> "parameter", good |-> FALSE, p |-> [name |-> <<"Bad">>, default |-> 0, min |-> 0, max |-> 0]]

Shaders ==
    << "in", "a", ".slang" >> :> File(<<[k |-> "include"], Malformed, Param("X", 1, 0, 4), Use(<<"Source">>), Use(<<"Pass", "0">>)>>)
    @@ << "in", "lib", "a", ".slang" >> :> File(<<Param("X", 2, 0, 4), Param("Y", 2, 0, 2),
           Use(<<"Glow">>), Use(<<"Glow", "Feedback">>), Use(<<"Bloom", "Feedback">>), Use(<<"PassOutput", "0">>), Use(<<"OriginalHistory", "1">>), Use(<<"Source">>)>>)
    @@ << "in", "lib", "a b", ".slang" >> :> File(<<Use(<<"Mask">>), Hidden(<<"PassOutput", "2">>),
           Use(<<"PassFeedback", "0">>), Use(<<"Glow">>), Use(<<"User", "1">>), Use(<<"PassOutput", "2">>), Use(<<"x">>)>>)
    @@ << "in", "mask", ".png" >> :> File(<<[k |-> "image"]>>)

Three ==
    << Key(<<"shaders">>, <<"int", 3>>), Key(<<"shader", 0>>, <<"word", "lib", "a", ".slang">>),
       Key(<<"shader", 1>>, <<"word", ".", "a", ".slang">>), Quoted(<<"shader", 2>>, <<"word", "lib", "a b", ".slang">>),
       Key(<<"alias", 0>>, <<"word", "Glow", "#", "main">>), Key(<<"alias", 2>>, <<"word", "Glow">>),
       Key(<<"scale_type", 0>>, <<"word", "source">>), Key(<<"scale", 0>>, <<"int", 2>>),
       Key(<<"scale_type_x", 1>>, <<"word", "absolute">>), Key(<<"scale_x", 1>>, <<"dec", 5>>),
       Key(<<"scale_y", 1>>, <<"dec", 1>>), Key(<<"wrap_mode", 1>>, <<"word", "sideways">>),
       Key(<<"filter_linear", 2>>, <<"int", 1>>), Key(<<"frame_count_mod", 2>>, <<"int", 60>>),
       Key(<<"feedback_pass">>, <<"int", 1>>), Key(<<"textures">>, <<"word", "Mask", "Grain", "Mask">>),
       Key(<<"Mask">>, <<"word", "lib", "..", "mask", ".png">>), Key(<<"Grain">>, <<"word", "/", "in", "mask", "">>),
       Key(<<"Mask", "linear">>, <<"word", "true">>), Key(<<"X">>, <<"dec", 3>>), Key(<<"Lost">>, <<"int", 7>>),
       Key(<<"Y">>, <<"int", 9>>), Key(<<"Y">>, <<"int", 1>>), Key(<<"vendor">>, <<"word", "quote", "x", "quote", "#", "y">>),
       Quoted(<<"note">>, <<"word", "x", "#", "1">>) >>

Stale ==
    << Key(<<"shaders">>, <<"int", 1>>), Key(<<"shader", 0>>, <<"word", "lib", "a", ".slang">>),
       Key(<<"scale", 1>>, <<"dec", 3>>), Key(<<"feedback_pass">>, <<"int", -1>>),
       Key(<<"filter_linear", 0>>, <<"word", "false">>), Key(<<"alias", 0>>, <<"word", "Source">>),
       Key(<<"mipmap_input", 0>>, <<"word", "true">>) >>

Missing == << Key(<<"shaders">>, <<"int", 1>>), Key(<<"shader", 0>>, <<"word", "gone", ".slang">>) >>

Broken ==
    { << Key(<<"shaders">>, <<"int", 9>>) >>, << Key(<<"shaders">>, <<"dec", 3>>) >>,
      << Key(<<"shaders">>, <<"int", 1>>), Key(<<"scale_type", 0>>, <<"word", "viewpoint">>),
         Key(<<"textures">>, <<"word", "Mask">>) >> }

\* Presets that compile: a scale of the height alone, an override, one alias, a texture;
\* none of these in the other, and the size of half a pixel.
Clean ==
    << Key(<<"shaders">>, <<"int", 2>>), Key(<<"shader", 0>>, <<"word", "lib", "a", ".slang">>),
       Key(<<"shader", 1>>, <<"word", "lib", "a b", ".slang">>), Key(<<"scale_type_y", 0>>, <<"word", "viewport">>),
       Key(<<"alias", 0>>, <<"word", "Glow">>),
       Key(<<"scale_type", 1>>, <<"word", "absolute">>), Key(<<"scale", 1>>, <<"int", 3>>),
       Key(<<"filter_linear", 0>>, <<"int", 0>>), Key(<<"srgb_framebuffer", 1>>, <<"word", "true">>),
       Key(<<"textures">>, <<"word", "Mask">>), Key(<<"Mask">>, <<"word", "mask", ".png">>),
       Key(<<"X">>, <<"dec", 3>>) >>
Half ==
    << Key(<<"shaders">>, <<"int", 1>>), Key(<<"shader", 0>>, <<"word", "lib", "a", ".slang">>),
       Key(<<"scale_type", 0>>, <<"word", "absolute">>), Key(<<"scale", 0>>, <<"dec", 5>>) >>

Base(broken) ==
    << "in", "clean", ".slangp" >> :> File(Clean) @@ << "in", "half", ".slangp" >> :> File(Half) @@
    << "in", "three", ".slangp" >> :> File(Three) @@ << "in", "stale", ".slangp" >> :> File(Stale)
    @@ << "in", "missing", ".slangp" >> :> File(Missing) @@ << "in", "broken", ".slangp" >> :> File(broken) @@ Shaders

\* Something may already be where the bundle goes.
Old == << "out", "bundle", "preset", ".slangp" >> :> File(Missing)
       @@ << "out", "bundle", "gone", ".slang" >> :> File(<<Use(<<"Source">>)>>)

MCDisks == {Base(b) : b \in Broken} \cup {Base(CHOOSE b \in Broken : TRUE) @@ Old}
MCPresets == {<< "in", f, ".slangp" >> : f \in {"three", "stale", "missing", "broken", "clean"}}
MCDests == {<< "out", "bundle" >>, << "in", "lib" >>}

Pass(name, graph) ==
    [graph |-> graph, source |-> <<Use(<<"Source">>)>>, opaque |-> TRUE, filename |-> {}, name |-> <<name>>,
     parameters |-> <<>>, settings |-> NoSettings, references |-> {}]
MCNewPasses == {Pass("a_1", FALSE), Pass("New", TRUE)}
MCNewSettings ==
    {[NoSettings EXCEPT !.scale_x = [type |-> {"absolute"}, scale |-> {4}], !.float_framebuffer = {TRUE},
                        !.srgb_framebuffer = {FALSE}, !.alias = {<<"Bloom">>}],
     [NoSettings EXCEPT !.alias = {<<"Glow", "#", "2">>}]}

MCSanitizeStem(n) == IF n = "a b" THEN "a_b" ELSE n
=============================================================================
