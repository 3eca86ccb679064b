---------------------------- MODULE PresetExport -----------------------------
(* From a project to the files of a bundle: validate.rs, and export.rs, which  *)
(* names the files, renders preset.slangp and lists what is written where.     *)
EXTENDS PresetImport, TLC

\* sanitize_stem: each unsafe character of a file name becomes an underscore.
CONSTANT SanitizeStem(_)

(******************************** validation *******************************)

\* The export is refused without a pass, with a graph, or with an empty source.
ValidateForExport(project) ==
    {"NoPasses" : x \in {1} \ DOMAIN project.passes}
    \cup {"UncompiledGraphPass" : p \in {q \in ToSet(project.passes) : q.graph}}
    \cup {"EmptyPassSource" : p \in {q \in ToSet(project.passes) : ~ q.graph /\ q.source = <<>>}}

(******************************** file names *******************************)

Numbered(name, i) == name \o "_" \o ToString(i)

\* A mutant: names are taken as they are.
UniqueNameAsIs(name, used) == name

\* name, or name with the first number nobody uses.
UniqueName(name, used) ==
    IF name \notin used THEN name
    ELSE LET free == {i \in 1..(Cardinality(used) + 1) : Numbered(name, i) \notin used}
         IN  Numbered(name, CHOOSE i \in free : \A j \in free : i <= j)

\* Each wanted name made different from the ones before it.
UniqueNames(wanted) ==
    Loop(LAMBDA names, name : Append(names, UniqueName(name, ToSet(names))), <<>>, wanted)

\* The name of the imported file; the pass's own name when it has none.
PassFileNames(project) ==
    UniqueNames([k \in DOMAIN project.passes |->
        SanitizeStem(CHOOSE n \in (IF project.passes[k].filename # {} THEN project.passes[k].filename
                                   ELSE {Head(project.passes[k].name)}) : TRUE)])

TextureFileNames(luts) == UniqueNames([k \in DOMAIN luts |-> SanitizeStem(Stem(luts[k].path))])

Extension(lut) == IF Last(lut.path) = "" THEN ".png" ELSE Last(lut.path)

(******************************* preset.slangp *****************************)

Line(key, value) == [key |-> key, value |-> value]
Text(word) == <<"word", word>>
Lines(key, option, write(_)) == SetToSeq({Line(key, write(v)) : v \in option})

Flag(b) == Text(IF b THEN "true" ELSE "false")
Decimal(h) == <<"dec", h>>

\* An absolute size is written as a whole number.
FmtScale(type, h) == IF type = {"absolute"} THEN <<"int", Trunc(h) \div 2>> ELSE Decimal(h)

WriteAxis(typeKey, scaleKey, n, axis) ==
    Lines(<<typeKey, n>>, axis.type, Text)
    \o Lines(<<scaleKey, n>>, axis.scale, LAMBDA h : FmtScale(axis.type, h))

\* One pair of keys when the axes agree, a pair for each axis otherwise.
WriteScale(n, s) ==
    IF s.scale_x = s.scale_y THEN WriteAxis("scale_type", "scale", n, s.scale_x)
    ELSE WriteAxis("scale_type_x", "scale_x", n, s.scale_x) \o WriteAxis("scale_type_y", "scale_y", n, s.scale_y)

WritePassSettings(n, s) ==
    WriteScale(n, s)
    \o Lines(<<"filter_linear", n>>, s.filter_linear, Flag)
    \o Lines(<<"wrap_mode", n>>, s.wrap_mode, Text)
    \o Lines(<<"mipmap_input", n>>, s.mipmap_input, Flag)
    \o Lines(<<"float_framebuffer", n>>, s.float_framebuffer, Flag)
    \o Lines(<<"srgb_framebuffer", n>>, s.srgb_framebuffer, Flag)
    \o Lines(<<"alias", n>>, s.alias, LAMBDA words : <<"word">> \o words)
    \o Lines(<<"frame_count_mod", n>>, s.frame_count_mod, LAMBDA m : <<"int", m>>)

WriteLut(lut, file) ==
    <<Line(<<lut.name>>, <<"word", "textures", file, Extension(lut)>>)>>
    \o Lines(<<lut.name, "linear">>, lut.keys.linear, Flag)
    \o Lines(<<lut.name, "wrap_mode">>, lut.keys.wrap_mode, Text)
    \o Lines(<<lut.name, "mipmap">>, lut.keys.mipmap, Flag)

\* The parameters whose value is not the one their first declaration starts from.
ChangedParameters(project) ==
    LET initial == FirstOfEach(FlattenSeq([k \in DOMAIN project.passes |-> project.passes[k].parameters]))
    IN  SelectSeq(project.parameters,
                  LAMBDA p : ~ \E q \in ToSet(initial) : q.name = p.name /\ q.default = p.default)

ExtraLines(extras) ==
    LET keys == SetToSeq(DOMAIN extras)
    IN  [k \in DOMAIN keys |-> Line(keys[k], extras[keys[k]])]

RenderSlangp(project, passFiles, textureFiles, extras) ==
    LET changed == ChangedParameters(project)
    IN  <<Line(<<"shaders">>, <<"int", Len(project.passes)>>)>>
        \o FlattenSeq([k \in DOMAIN project.passes |->
               <<Line(<<"shader", k - 1>>, <<"word", passFiles[k], ".slang">>)>>
               \o WritePassSettings(k - 1, project.passes[k].settings)])
        \o Lines(<<"feedback_pass">>, project.feedback_pass, LAMBDA n : <<"int", n>>)
        \o (IF project.luts = <<>> THEN <<>>
            ELSE <<Line(<<"textures">>, <<"word", "quote">> \o [k \in DOMAIN project.luts |-> project.luts[k].name] \o <<"quote">>)>>
                 \o FlattenSeq([k \in DOMAIN project.luts |-> WriteLut(project.luts[k], textureFiles[k])]))
        \o [k \in DOMAIN changed |-> Line(changed[k].name, Decimal(changed[k].default))]
        \o ExtraLines(extras)

(********************************** bundle *********************************)

File(lines) == [lines |-> lines]
Write(path, lines) == [op |-> "write", path |-> path, file |-> File(lines), from |-> path]
Copy(path, from) == [op |-> "copy", path |-> path, file |-> File(<<>>), from |-> from]

\* What write_bundle does to the directory dir, one file after the other.
WriteBundle(project, dir, extras) ==
    Through(PassFileNames(project), LAMBDA passFiles :
        Through(TextureFileNames(project.luts), LAMBDA textureFiles :
            [k \in DOMAIN project.passes |->
                Write(dir \o <<passFiles[k], ".slang">>, project.passes[k].source)]
            \o [k \in DOMAIN project.luts |->
                Copy(dir \o <<"textures", textureFiles[k], Extension(project.luts[k])>>, project.luts[k].path)]
            \o <<Write(dir \o <<"preset", ".slangp">>,
                       RenderSlangp(project, passFiles, textureFiles, extras))>>))

\* Include directives are not followed: each pass with one is warned about.
SourceHasInclude(source) == \E line \in ToSet(source) : line.k = "include"

(********************** what a round trip must preserve *********************)

\* The settings, sources and order of the passes, the feedback pass and the
\* look-up textures; file names and directories are free (roundtrip.rs).
ComparePasses(p, q) ==
    /\ p.feedback_pass = q.feedback_pass
    /\ Len(p.passes) = Len(q.passes)
    /\ \A k \in DOMAIN p.passes :
          /\ p.passes[k].settings = q.passes[k].settings
          /\ p.passes[k].source = q.passes[k].source /\ p.passes[k].opaque = q.passes[k].opaque
          /\ p.passes[k].graph = q.passes[k].graph

CompareParameters(a, b) == ToSet(a) = ToSet(b)

\* The file of a look-up texture is the one it was, or that name with a number.
BasenamesMatch(a, b) ==
    /\ (Last(b) = Last(a) \/ Last(a) = "")
    /\ \/ Stem(b) = SanitizeStem(Stem(a))
       \/ \E i \in 1..MAX_PASSES : Stem(b) = Numbered(SanitizeStem(Stem(a)), i)

CompareLuts(a, b) ==
    /\ {l.name : l \in ToSet(a)} = {l.name : l \in ToSet(b)}
    /\ \A k \in DOMAIN a, j \in DOMAIN b :
          a[k].name = b[j].name => a[k].keys = b[j].keys /\ BasenamesMatch(a[k].path, b[j].path)

CompareProjects(p, q) ==
    /\ ComparePasses(p, q)
    /\ CompareParameters(p.parameters, q.parameters)
    /\ CompareLuts(p.luts, q.luts)
    /\ p.aliases = q.aliases
=============================================================================
