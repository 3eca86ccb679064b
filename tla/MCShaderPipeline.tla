-------------------------- MODULE MCShaderPipeline ---------------------------
(* Shaders of one pass: a UBO, a push block or both in the common part, up to  *)
(* three textures in the fragment part, declared in two orders, combined or    *)
(* separate, in set 0 or 1; inline, through a helper, or across a branch; and  *)
(* shaders each error path refuses.                                            *)
EXTENDS ShaderPipeline

Mem(name, size) == [name |-> name, size |-> size]
Decl(kind, name, set, binding, members, strides) ==
    [k |-> "decl", kind |-> kind, name |-> <<name>>, set |-> set, binding |-> binding,
     members |-> members, strides |-> strides]
Use(op, tex, across) == [k |-> "use", op |-> op, tex |-> <<tex>>, across |-> across]
StageLine(s) == [k |-> "stage", stage |-> s]
Include(path) == [k |-> "include", path |-> path]
Parameter(name, default, lo, hi, good) ==
    [k |-> "parameter", good |-> good,
     p |-> [name |-> <<name>>, default |-> default, min |-> lo, max |-> hi]]

Ubo(b) == Decl("ubo", "UBO", 0, b, <<Mem(<<"MVP">>, 4), Mem(<<"SourceSize">>, 1), Mem(<<"X">>, 1)>>, {})
Push(strides) == Decl("push", "Push", 0, 0,
    <<Mem(<<"OriginalHistory", "1", "Size">>, 1), Mem(<<"FrameCount">>, 1), Mem(<<"X">>, 1)>>, strides)
Knobs(b) == Decl("ubo", "Knobs", 0, b, <<Mem(<<"X">>, 1), Mem(<<"Y">>, 1)>>, {})
Limits(b) == Decl("ubo", "Limits", 0, b, <<Mem(<<"Y">>, 1)>>, {})
Sampler2D(name, set, b) == Decl("sampler2D", name, set, b, <<>>, {})

Commons == { <<Ubo(0)>>, <<Push({}), Ubo(0)>>, <<Knobs(0), Push({16})>>, <<Ubo(7), Knobs(4)>>, <<Knobs(0), Limits(7)>> }

Textures ==
    { <<Sampler2D("Source", 0, 1)>>,
      <<Sampler2D("Source", 0, 3), Sampler2D("Original", 0, 2)>>,
      <<Decl("texture2D", "Mask", 0, 6, <<>>, {}), Sampler2D("Original", 0, 3), Sampler2D("Source", 0, 5)>>,
      <<Sampler2D("Source", 0, 2), Decl("sampler", "Smp", 0, 3, <<>>, {}), Sampler2D("Original", 1, 2)>> }

Bodies == { <<Use("sample", "Source", FALSE), Use("size", "Source", FALSE)>>,
            <<Use("fetch", "Source", FALSE), Use("call", "Source", FALSE)>>,
            <<Use("sample", "Source", FALSE), Use("sample", "Original", FALSE)>> }

Shader(common, vertex, fragment) ==
    [dir |-> <<>>,
     lines |-> <<Include(<<"lib", "common">>)>> \o common \o <<StageLine("vertex")>> \o vertex
                   \o <<StageLine("unknown"), StageLine("fragment")>> \o fragment]

\* Every mix of textures and bodies with the usual two blocks, every common part with one body.
Plain == {Shader(<<Push({}), Ubo(0)>>, <<>>, t \o b) : t \in Textures, b \in Bodies}
    \cup {Shader(c, <<>>, t \o <<Use("sample", "Source", FALSE)>>) : c \in Commons, t \in Textures}

\* A call whose coordinates branch; a texture of the common part; a block of the vertex part.
Across == {Shader(<<Ubo(0)>>, <<>>, <<Sampler2D("Source", 0, 2), Use("sample", "Source", TRUE)>>)}
Shared == {Shader(<<Ubo(0), Sampler2D("Source", 0, 1)>>, <<>>,
                  <<Sampler2D("Original", 0, 2), Use("sample", "Original", FALSE)>>),
           Shader(<<Push({})>>, <<Knobs(3)>>, <<Sampler2D("Source", 0, 2), Use("sample", "Source", FALSE)>>)}

Refused ==
    {[dir |-> <<>>, lines |-> <<Include(<<"lib", "loop">>), StageLine("vertex")>>],
     [dir |-> <<"lib">>, lines |-> <<Include(<<"absent">>)>>],
     [dir |-> <<"lib">>, lines |-> <<Include(<<"params">>), Ubo(0)>>],
     Shader(<<Parameter("Z", 0, 0, 1, FALSE)>>, <<>>, <<>>),
     Shader(<<Push({4})>>, <<>>, <<>>),
     Shader(<<>>, <<>>, <<Decl("samplerArray", "Luts", 0, 2, <<>>, {})>>)}

MCSources == Plain \cup Across \cup Shared \cup Refused

Disk(default, extra) ==
    << "lib", "common" >> :> <<Include(<<"params">>)>>
    @@ << "lib", "params" >> :> (<<Parameter("X", default, 0, 2, TRUE)>> \o extra)
    @@ << "lib", "loop" >> :> <<Include(<<"loop">>)>>

MCDisks == {Disk(1, <<>>), Disk(2, <<Parameter("X", 0, 0, 9, TRUE), Parameter("Y", 0, 0, 3, TRUE)>>)}

\* The texts of some shaders have one hash, those of the others have their own.
MCHash(lines) == IF Limits(7) \in ToSet(lines) THEN <<>> ELSE lines

MCOverrides == { <<[name |-> <<"Y">>, value |-> 7]>> }
MCSettings == { [name |-> <<"X">>, value |-> -1], [name |-> <<"Gone">>, value |-> 1] }
=============================================================================
