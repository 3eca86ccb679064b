---------------------------- MODULE PresetPreview -----------------------------
(* Two ways from a preset to the engine's chain, in preview.rs of the          *)
(* application: load_preset reads the files itself, load_chain_sources is      *)
(* given the passes of the editor's project.  Both end in commands to the      *)
(* render thread, which applies them in their order.                           *)
EXTENDS PresetImport

Store == INSTANCE UniformPacking

One(option, default) == IF option = {} THEN default ELSE CHOOSE x \in option : TRUE

\* Pass::new.
NewPass(parameters) ==
    [parameters |-> parameters, scale |-> {}, alias |-> {}, srgb_framebuffer |-> FALSE,
     float_framebuffer |-> FALSE, filter_linear |-> TRUE, wrap_mode |-> "clamp_to_border",
     mipmap_input |-> FALSE, frame_count_mod |-> 0, feedback |-> FALSE]

\* A missing type is source, a missing factor one; factors are counted in halves.
AxisScale(type, factor) == [type |-> One(type, "source"), factor |-> One(factor, 2)]

\* What the options of a pass or of its settings, by the same names, make of it.
WithOptions(pass, scale, options) ==
    [pass EXCEPT !.scale = scale, !.alias = options.alias,
                 !.srgb_framebuffer = One(options.srgb_framebuffer, @),
                 !.float_framebuffer = One(options.float_framebuffer, @),
                 !.filter_linear = One(options.filter_linear, @),
                 !.wrap_mode = One(options.wrap_mode, @),
                 !.mipmap_input = One(options.mipmap_input, @),
                 !.frame_count_mod = One(options.frame_count_mod, @)]

HasScale(pass) ==
    \E f \in {"scale_type", "scale_type_x", "scale_type_y", "scale", "scale_x", "scale_y"} : pass.keys[f] # {}

ScaleConfig(pass) ==
    IF ~ HasScale(pass) THEN {}
    ELSE {[x |-> AxisScale(ScaleTypeX(pass), ScaleFactorX(pass)),
           y |-> AxisScale(ScaleTypeY(pass), ScaleFactorY(pass))]}

ModelScaleConfig(s) ==
    IF s.scale_x.type \cup s.scale_y.type = {} /\ s.scale_x.scale \cup s.scale_y.scale = {} THEN {}
    ELSE {[x |-> AxisScale(s.scale_x.type, s.scale_x.scale), y |-> AxisScale(s.scale_y.type, s.scale_y.scale)]}

PassFromSettings(compiled, s) == WithOptions(compiled, ModelScaleConfig(s), s)

\* A source compiles when its parameters are well formed and its includes can be
\* followed, which takes the directory of its file.
Compiles(source, inDirectory) ==
    \A line \in ToSet(source) : (line.k = "parameter" => line.good) /\ (line.k = "include" => inDirectory)

OnDisk(files, path) == NormalizeLexical(path) \in DOMAIN files

CanLoadChain(files, preset) ==
    \A pass \in ToSet(preset.passes) :
        OnDisk(files, pass.shader) /\ Compiles(SourceAt(files, pass.shader), TRUE)

CompilePresetChain(files, preset) ==
    [k \in DOMAIN preset.passes |->
        WithOptions(NewPass(ScanParameters(SourceAt(files, preset.passes[k].shader))),
                    ScaleConfig(preset.passes[k]), preset.passes[k].keys)]

CompilePresetLuts(preset) ==
    [k \in DOMAIN preset.luts |->
        [name |-> preset.luts[k].name, image |-> NormalizeLexical(preset.luts[k].path),
         filter_linear |-> One(preset.luts[k].keys.linear, FALSE),
         wrap_mode |-> One(preset.luts[k].keys.wrap_mode, "clamp_to_border"),
         mipmap |-> One(preset.luts[k].keys.mipmap, FALSE)]]

SetLuts(luts) == [op |-> "SetLuts", luts |-> luts]
SetChain(chain) == [op |-> "SetChain", chain |-> chain]
ApplyParameterOverrides(overrides) == [op |-> "ApplyParameterOverrides", overrides |-> overrides]

\* A mutant: a preset without look-up textures says nothing about them.
LoadCommandsWithoutEmpty(files, preset) ==
    (IF preset.luts = <<>> THEN <<>> ELSE <<SetLuts(CompilePresetLuts(preset))>>)
    \o <<SetChain(CompilePresetChain(files, preset))>>

\* The textures, the chain, and then the values of its parameters.
LoadCommands(files, preset) ==
    <<SetLuts(CompilePresetLuts(preset)), SetChain(CompilePresetChain(files, preset))>>
    \o (IF DOMAIN preset.overrides = {} THEN <<>> ELSE <<ApplyParameterOverrides(preset.overrides)>>)

\* load_preset: the commands it sends, {} when it is refused.
LoadPreset(files, path) ==
    IF ~ CanImport(files, path) THEN {}
    ELSE UNION {IF CanLoadChain(files, preset) /\ \A l \in ToSet(preset.luts) : OnDisk(files, l.path)
                THEN {LoadCommands(files, preset)} ELSE {} :
                   preset \in {ParseSlangp(MapAt(files, path), Dir(path))}}

\* load_chain_sources: no directory, and nothing about textures and values.
LoadChainSources(passes) ==
    IF \A p \in ToSet(passes) : Compiles(p.source, FALSE)
    THEN {<<SetChain([k \in DOMAIN passes |->
                PassFromSettings(NewPass(ScanParameters(passes[k].source)), passes[k].settings)])>>}
    ELSE {}

(******************************** the engine *******************************)

Fresh == [luts |-> {}, chain |-> <<>>, store |-> Store!Collect(<<>>, [n \in {} |-> <<>>])]

\* A chain brings its parameters, at their defaults.
Apply(engine, command) ==
    CASE command.op = "SetLuts" -> [engine EXCEPT !.luts = ToSet(command.luts)]
      [] command.op = "SetChain" ->
            [engine EXCEPT !.chain = command.chain,
                           !.store = Store!Collect([k \in DOMAIN command.chain |-> command.chain[k].parameters],
                                                   [n \in {} |-> <<>>])]
      [] command.op = "ApplyParameterOverrides" ->
            LET ids == SetToSeq(DOMAIN command.overrides)
            IN  [engine EXCEPT !.store = Store!ApplyOverrides(@,
                    [k \in DOMAIN ids |-> [name |-> ids[k], value |-> command.overrides[ids[k]]]])]

Drained(engine, commands) == Loop(Apply, engine, commands)
=============================================================================
