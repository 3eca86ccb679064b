---------------------------- MODULE PresetImport -----------------------------
(* A preset read and made a project of the editor: the text and what           *)
(* parse_slangp (slangp.rs) reads from it, import.rs, the parameters of        *)
(* params.rs and the texture references of scan.rs.                            *)
(*                                                                             *)
(* A line of a preset is [key, value].  A key is a sequence of its parts:      *)
(* <<"shaders">>, <<"scale", 1>> for scale1, <<"Mask", "linear">>.  A value    *)
(* starts with what it parses as: <<"int", n>>, <<"dec", h>> (a number of      *)
(* halves that only a float reads) or <<"word">> and its words, among them     *)
(* "quote", the comment marks # and //, and "blank" for blanks at an end of it *)
(* or in its quotes.  A path is the sequence of its components, the last two   *)
(* being the stem and the extension of its file.  An option is a set of at     *)
(* most one value.                                                             *)
(*                                                                             *)
(* The source of a shader is a sequence of lines: [k |-> "parameter", good,    *)
(* p], [k |-> "include"] or [k |-> "use", name, hidden] for an identifier,     *)
(* hidden in a comment or a string.  Identifiers are sequences of parts, as in *)
(* PassBindings.                                                               *)
EXTENDS Integers, Sequences, FiniteSets, SequencesExt, Loops

CONSTANT MAX_PASSES
ASSUME MaxPassesAssumption == MAX_PASSES \in Nat

Set(map, key, value) == [k \in DOMAIN map \cup {key} |-> IF k = key THEN value ELSE map[k]]

Quotes(value, k) == {j \in 2..k : value[j] = "quote"}

\* A value ends where a comment starts outside its quotes.
StripInlineComment(value) ==
    LET marks == {k \in 2..Len(value) : value[1] = "word" /\ value[k] \in {"#", "//"}
                                        /\ Cardinality(Quotes(value, k)) % 2 = 0}
    IN  IF marks = {} THEN value ELSE SubSeq(value, 1, (CHOOSE k \in marks : \A j \in marks : k <= j) - 1)

\* The words of a value from the first to the last, and what it parses as.
Part(value, first, last) == <<value[1]>> \o SubSeq(value, first, last)

\* Blanks at an end of a value go, and then one pair of quotes around it.
Trim(value) ==
    LET blank(k) == value[1] = "word" /\ k \in 2..Len(value) /\ value[k] = "blank"
    IN  Part(value, IF blank(2) THEN 3 ELSE 2, IF blank(Len(value)) THEN Len(value) - 1 ELSE Len(value))

Unquote(value) ==
    IF value[1] = "word" /\ Len(value) > 2 /\ value[2] = "quote" /\ Last(value) = "quote"
    THEN Part(value, 3, Len(value) - 1) ELSE value

\* The last line with a key wins.
ParseIni(lines) ==
    Loop(LAMBDA map, line : Set(map, line.key, Unquote(Trim(StripInlineComment(line.value)))),
         [k \in {} |-> <<>>], lines)

ScaleTypes == {"source", "viewport", "absolute"}
WrapModes == {"clamp_to_border", "clamp_to_edge", "repeat", "mirrored_repeat"}

Word(v) == IF v[1] = "word" /\ Len(v) = 2 THEN v[2] ELSE ""
Float(v) == CASE v[1] = "int" -> {2 * v[2]} [] v[1] = "dec" -> {v[2]} [] OTHER -> {}
Integer(v) == IF v[1] = "int" THEN {v[2]} ELSE {}
Natural(v) == Integer(v) \cap Nat
Boolean(v) ==
    CASE Word(v) = "true" \/ v = <<"int", 1>> -> {TRUE}
      [] Word(v) = "false" \/ v = <<"int", 0>> -> {FALSE}
      [] OTHER -> {}

PassFields == [scale_type |-> "type", scale_type_x |-> "type", scale_type_y |-> "type",
               scale |-> "float", scale_x |-> "float", scale_y |-> "float",
               filter_linear |-> "bool", wrap_mode |-> "wrap", mipmap_input |-> "bool",
               float_framebuffer |-> "bool", srgb_framebuffer |-> "bool",
               alias |-> "text", frame_count_mod |-> "natural"]
LutFields == [linear |-> "bool", wrap_mode |-> "wrap", mipmap |-> "bool"]

\* A wrap mode nobody knows is the default one; every other unreadable value is refused.
Read(kind, v) ==
    CASE kind = "float" -> Float(v)
      [] kind = "natural" -> Natural(v)
      [] kind = "bool" -> Boolean(v)
      [] kind = "type" -> {Word(v)} \cap ScaleTypes
      [] kind = "wrap" -> {IF Word(v) \in WrapModes THEN Word(v) ELSE "clamp_to_border"}
      [] kind = "text" -> {Tail(v)}

Opt(map, key, kind) == IF key \in DOMAIN map THEN Read(kind, map[key]) ELSE {}
Unreadable(map, key, kind) == key \in DOMAIN map /\ Read(kind, map[key]) = {}

\* A relative path is taken from the directory of the preset.
Resolve(base, v) == IF v[1] = "word" /\ Len(v) > 1 /\ v[2] = "/" THEN Tail(v)
                    ELSE base \o (IF v[1] = "word" THEN Tail(v) ELSE <<"number", "">>)

Path(map, base, key) == IF key \in DOMAIN map THEN Resolve(base, map[key]) ELSE base

ParsePass(map, n, base) ==
    [shader |-> Path(map, base, <<"shader", n>>),
     keys |-> [f \in DOMAIN PassFields |-> Opt(map, <<f, n>>, PassFields[f])]]

ScaleTypeX(pass) == IF pass.keys.scale_type_x # {} THEN pass.keys.scale_type_x ELSE pass.keys.scale_type
ScaleTypeY(pass) == IF pass.keys.scale_type_y # {} THEN pass.keys.scale_type_y ELSE pass.keys.scale_type
ScaleFactorX(pass) == IF pass.keys.scale # {} THEN pass.keys.scale ELSE pass.keys.scale_x
ScaleFactorY(pass) == IF pass.keys.scale # {} THEN pass.keys.scale ELSE pass.keys.scale_y

\* The names of the textures list; a name listed twice is one look-up texture.
LutNames(map) ==
    LET listed == IF <<"textures">> \in DOMAIN map THEN Tail(map[<<"textures">>]) ELSE <<>>
    IN  Loop(LAMBDA acc, name : IF name \in ToSet(acc) THEN acc ELSE Append(acc, name), <<>>, listed)

ParseLuts(map, base) ==
    LET names == LutNames(map)
    IN  [k \in DOMAIN names |->
            [name |-> names[k], path |-> Path(map, base, <<names[k]>>),
             keys |-> [f \in DOMAIN LutFields |-> Opt(map, <<names[k], f>>, LutFields[f])]]]

Globals == {<<"shaders">>, <<"feedback_pass">>, <<"textures">>, <<"parameters">>}

\* The globals, the keys of the first count passes, the look-up textures and their keys.
IsStructuralKey(key, count, luts) ==
    \/ key \in Globals
    \/ /\ Len(key) = 2 /\ key[1] \in DOMAIN PassFields \cup {"shader"}
       /\ key[2] < count
    \/ \E k \in DOMAIN luts :
           \/ key = <<luts[k].name>>
           \/ Len(key) = 2 /\ key[1] = luts[k].name /\ key[2] \in DOMAIN LutFields

\* What is left is an override of a parameter when it is a number, an extra otherwise.
Overrides(map, count, luts) ==
    LET ids == {k \in DOMAIN map : ~ IsStructuralKey(k, count, luts) /\ Float(map[k]) # {}}
    IN  [k \in ids |-> CHOOSE x \in Float(map[k]) : TRUE]

Extras(map, count, luts) ==
    LET keys == {k \in DOMAIN map : ~ IsStructuralKey(k, count, luts) /\ Float(map[k]) = {}}
    IN  [k \in keys |-> map[k]]

\* Why a preset is refused, the reasons the code would find one after the other.
ParseErrors(map) ==
    LET counted == Opt(map, <<"shaders">>, "natural")
        passes  == UNION {0..(n - 1) : n \in counted}
    IN  (IF counted = {} THEN {"shaders"} ELSE {})
        \cup {"TooManyPasses" : n \in {m \in counted : m > MAX_PASSES}}
        \cup {"MissingKey" : n \in {m \in passes : <<"shader", m>> \notin DOMAIN map}}
        \cup {"BadValue" : x \in {y \in passes \X DOMAIN PassFields :
                                     Unreadable(map, <<y[2], y[1]>>, PassFields[y[2]])}}
        \cup {"BadValue" : x \in {y \in {<<"feedback_pass">>} \cap DOMAIN map : Integer(map[y]) = {}}}
        \cup {"MissingLut" : x \in {y \in ToSet(LutNames(map)) : <<y>> \notin DOMAIN map}}
        \cup {"BadValue" : x \in {y \in ToSet(LutNames(map)) \X DOMAIN LutFields :
                                     Unreadable(map, <<y[1], y[2]>>, LutFields[y[2]])}}

\* parse_slangp_str, for a map without a ParseErrors.
ParseSlangp(map, base) ==
    LET count == CHOOSE n \in Opt(map, <<"shaders">>, "natural") : TRUE
        luts  == ParseLuts(map, base)
    IN  [passes |-> [k \in 1..count |-> ParsePass(map, k - 1, base)],
         feedback_pass |-> IF <<"feedback_pass">> \in DOMAIN map
                           THEN Integer(map[<<"feedback_pass">>]) ELSE {},
         luts |-> luts,
         overrides |-> Overrides(map, count, luts),
         extras |-> Extras(map, count, luts)]

(******************************** settings *********************************)

Dir(path) == SubSeq(path, 1, Len(path) - 2)
Stem(path) == path[Len(path) - 1]

NoSettings == [scale_x |-> [type |-> {}, scale |-> {}], scale_y |-> [type |-> {}, scale |-> {}],
               filter_linear |-> {}, wrap_mode |-> {}, mipmap_input |-> {}, float_framebuffer |-> {},
               srgb_framebuffer |-> {}, alias |-> {}, frame_count_mod |-> {}]

Trunc(h) == 2 * (IF h < 0 THEN -((-h) \div 2) ELSE h \div 2)

\* An absolute size is cut to whole pixels.
MapScaleAxis(type, factor) ==
    [type |-> type,
     scale |-> IF type = {"absolute"} THEN {Trunc(f) : f \in factor} ELSE factor]

MapSettings(pass) ==
    [scale_x |-> MapScaleAxis(ScaleTypeX(pass), ScaleFactorX(pass)),
     scale_y |-> MapScaleAxis(ScaleTypeY(pass), ScaleFactorY(pass)),
     filter_linear |-> pass.keys.filter_linear, wrap_mode |-> pass.keys.wrap_mode,
     mipmap_input |-> pass.keys.mipmap_input, float_framebuffer |-> pass.keys.float_framebuffer,
     srgb_framebuffer |-> pass.keys.srgb_framebuffer, alias |-> pass.keys.alias,
     frame_count_mod |-> pass.keys.frame_count_mod]

(******************************* parameters ********************************)

ParameterLines(source) == SelectSeq(source, LAMBDA line : line.k = "parameter")

\* A malformed line is skipped and reported.
ScanParameters(source) ==
    LET good == SelectSeq(ParameterLines(source), LAMBDA line : line.good)
    IN  [k \in DOMAIN good |-> good[k].p]

\* One parameter for each name, the first declaration winning.
FirstOfEach(params) ==
    Loop(LAMBDA acc, p : IF \E q \in ToSet(acc) : q.name = p.name THEN acc ELSE Append(acc, p),
         <<>>, params)

SynthesizeOrphanParameter(id, value) == [name |-> id, default |-> value, min |-> value, max |-> value]

\* The preset's value replaces the default; an override nobody declares becomes
\* a parameter of its own.
ReconcileParameters(perPass, overrides) ==
    LET declared == FirstOfEach(FlattenSeq(perPass))
        orphans  == SetToSeq({id \in DOMAIN overrides : \A p \in ToSet(declared) : p.name # id})
    IN  [k \in DOMAIN declared |->
            IF declared[k].name \in DOMAIN overrides
            THEN [declared[k] EXCEPT !.default = overrides[declared[k].name]] ELSE declared[k]]
        \o [k \in DOMAIN orphans |-> SynthesizeOrphanParameter(orphans[k], overrides[orphans[k]])]

(******************************* references ********************************)

Digits == {"0", "1", "2"}

\* A mutant: the suffix alone makes a feedback texture.
ScanKindBySuffix(name, aliases, luts) ==
    IF Len(name) = 2 /\ name[2] = "Feedback" THEN "Feedback" ELSE "none"

ScanKind(name, aliases, luts) ==
    LET indexed(bases) == name \in bases \X Digits
    IN  IF name \in {<<n>> : n \in aliases \cup luts} THEN "Alias"
        ELSE IF name \in aliases \X {"Feedback"} THEN "Feedback"
        ELSE CASE name = <<"Original">> -> "Original"
               [] name = <<"Source">> -> "Source"
               [] indexed({"PassOutput", "Pass"}) -> "PassOutput"
               [] indexed({"PassFeedback"}) -> "Feedback"
               [] indexed({"OriginalHistory"}) -> "History"
               [] indexed({"User"}) -> "User"
               [] OTHER -> "none"

\* Every identifier outside comments and strings that names a texture.
ScanReferences(source, aliases, luts) ==
    LET seen == {line.name : line \in {l \in ToSet(source) : l.k = "use" /\ ~ l.hidden}}
    IN  {r \in {[name |-> n, kind |-> ScanKind(n, aliases, luts)] : n \in seen} : r.kind # "none"}

(******************************** the chain ********************************)

\* Aliases in pass order, the first pass of a name winning.
Aliases(passes) ==
    Loop(LAMBDA acc, k : IF passes[k].settings.alias = {} \/ \E b \in ToSet(acc) : {b.alias} = passes[k].settings.alias
                         THEN acc
                         ELSE Append(acc, [alias |-> CHOOSE a \in passes[k].settings.alias : TRUE, pass |-> k]),
         <<>>, [k \in DOMAIN passes |-> k])

IndexDigit == [d \in Digits |-> CASE d = "0" -> 0 [] d = "1" -> 1 [] d = "2" -> 2]

\* What each pass may read: the sources, the outputs of the passes before it by
\* number and by alias, and the look-up textures.
Availability(passes, luts) ==
    [i \in DOMAIN passes |->
        {<<"Original">>, <<"Source">>} \cup {<<l>> : l \in luts}
        \cup {<<"PassOutput", d>> : d \in {e \in Digits : IndexDigit[e] < i - 1}}
        \cup UNION {passes[k].settings.alias : k \in 1..(i - 1)}]

\* Whether a reference of pass i is to an earlier pass or a look-up texture.
Causal(passes, luts, i, r) ==
    CASE r.kind = "PassOutput" -> IndexDigit[r.name[2]] < i - 1
      [] r.kind = "Alias" ->
            \/ r.name \in {<<l>> : l \in luts}
            \/ \E b \in ToSet(Aliases(passes)) : b.alias = r.name /\ b.pass < i
      [] OTHER -> TRUE

\* The warnings about references that a pass cannot have.
CrossCheckReferences(passes, luts) ==
    UNION {{<<i, r.name>> : r \in {q \in passes[i].references : ~ Causal(passes, luts, i, q)}} : i \in DOMAIN passes}

(********************************** import **********************************)

\* "." goes, ".." takes the directory before it with it.
NormalizeLexical(path) ==
    Loop(LAMBDA out, c : IF c = "." THEN out
                         ELSE IF c = ".." /\ out # <<>> /\ Last(out) \notin {"..", "/"} THEN Front(out)
                         ELSE Append(out, c),
         <<>>, path)

MapLut(lut) == [name |-> lut.name, path |-> NormalizeLexical(lut.path), keys |-> lut.keys]

\* No feedback pass for a negative number.
MapFeedbackPass(raw) == raw \cap Nat

\* The text of a shader file; an unreadable one is an empty pass, with a warning.
SourceAt(files, path) ==
    LET file == NormalizeLexical(path) IN IF file \in DOMAIN files THEN files[file].lines ELSE <<>>

ImportParsedPreset(files, preset) ==
    LET luts    == {l.name : l \in ToSet(preset.luts)}
        aliases == {a[1] : a \in UNION {p.keys.alias : p \in ToSet(preset.passes)}}
        pass(k) == LET source == SourceAt(files, preset.passes[k].shader)
                   IN  [graph |-> FALSE, source |-> source, opaque |-> TRUE,
                        filename |-> {Stem(preset.passes[k].shader)},
                        name |-> IF preset.passes[k].keys.alias # {}
                                 THEN CHOOSE a \in preset.passes[k].keys.alias : TRUE ELSE <<"Pass">>,
                        parameters |-> ScanParameters(source),
                        settings |-> MapSettings(preset.passes[k]),
                        references |-> ScanReferences(source, aliases, luts)]
        passes  == [k \in DOMAIN preset.passes |-> pass(k)]
        params  == [k \in DOMAIN passes |-> passes[k].parameters]
    IN  [passes |-> passes, feedback_pass |-> MapFeedbackPass(preset.feedback_pass),
         aliases |-> Aliases(passes), availability |-> Availability(passes, luts),
         parameters |-> ReconcileParameters(params, preset.overrides),
         luts |-> [k \in DOMAIN preset.luts |-> MapLut(preset.luts[k])],
         warnings |-> CrossCheckReferences(passes, luts)]

MapAt(files, path) == ParseIni(files[path].lines)

\* import_preset of the application: the extras are reported, not kept.
CanImport(files, path) == path \in DOMAIN files /\ ParseErrors(MapAt(files, path)) = {}

ImportPreset(files, path) == ImportParsedPreset(files, ParseSlangp(MapAt(files, path), Dir(path)))
=============================================================================
