--------------------------- MODULE UniformPacking ----------------------------
(* uniforms.rs of the engine: the live parameter store (ParamStore), the       *)
(* values of the builtin members, and the packing of both into the bytes of a  *)
(* uniform block.  A member's bytes are one value per unit of its size; names  *)
(* are sequences of parts, as in PassBindings: a size is spelled               *)
(* <<"PassOutput", "Size", "1">> or <<"PassOutput", "1", "Size">>.             *)
EXTENDS Integers, Sequences, SequencesExt, TLC, Loops

(******************************** ParamStore *******************************)

NoAlias == <<>>
NamesOf(def) == {def.name} \cup (IF def.alias = NoAlias THEN {} ELSE {def.alias})

Written(current, names, value) == [n \in names |-> value] @@ current

\* The parameters of all passes, the first declaration of a name winning, each
\* at its default.
Collect(lists, aliases) ==
    LET add(store, p) ==
            LET def == [name |-> p.name, default |-> p.default, min |-> p.min, max |-> p.max,
                        alias |-> IF p.name \in DOMAIN aliases THEN aliases[p.name] ELSE NoAlias]
            IN  IF \E d \in ToSet(store.params) : d.name = p.name THEN store
                ELSE [params |-> Append(store.params, def),
                      current |-> Written(store.current, NamesOf(def), p.default)]
    IN  Loop(add, [params |-> <<>>, current |-> [n \in {} |-> 0]], FlattenSeq(lists))

Knows(store, name) == SelectSeq(store.params, LAMBDA d : name \in NamesOf(d))

\* The raw value is stored, under the name and its alias; an unknown name is ignored.
SetParam(store, name, value) ==
    IF Knows(store, name) = <<>> THEN store
    ELSE [store EXCEPT !.current = Written(@, NamesOf(Knows(store, name)[1]), value)]

ApplyOverrides(store, overrides) ==
    Loop(LAMBDA s, o : SetParam(s, o.name, o.value), store, overrides)

Clamp(v, lo, hi) == IF v < lo THEN lo ELSE IF v > hi THEN hi ELSE v

\* The value at its point of use, clamped to the range of its declaration.
ClampedValue(store, name) ==
    IF name \notin DOMAIN store.current THEN {}
    ELSE LET def == Knows(store, name)
         IN  IF def = <<>> THEN {store.current[name]}
             ELSE {Clamp(store.current[name], def[1].min, def[1].max)}

(****************************** BuiltinValues ******************************)

FixedSizes == {<<"SourceSize">>, <<"OriginalSize">>, <<"OutputSize">>, <<"FinalViewportSize">>}
FixedBuiltins == FixedSizes \cup {<<"MVP">>, <<"FrameCount">>, <<"FrameDirection">>, <<"Rotation">>}

IndexDigits == [d \in {"0", "1", "2"} |-> CASE d = "0" -> 0 [] d = "1" -> 1 [] d = "2" -> 2]

\* Both spellings of an indexed size of one base; {} for any other name.
IndexedSize(name, base) ==
    IF Len(name) # 3 \/ name[1] # base THEN {}
    ELSE IF name[2] = "Size" /\ name[3] \in DOMAIN IndexDigits THEN {IndexDigits[name[3]]}
    ELSE IF name[3] = "Size" /\ name[2] \in DOMAIN IndexDigits THEN {IndexDigits[name[2]]}
    ELSE {}

PassSizeIndex(name) == IndexedSize(name, "PassOutput") \cup IndexedSize(name, "Pass")
PassFeedbackSizeIndex(name) == IndexedSize(name, "PassFeedback")
HistorySizeIndex(name) == IndexedSize(name, "OriginalHistory")

IsBuiltinSemantic(name) ==
    \/ name \in FixedBuiltins
    \/ PassSizeIndex(name) \cup PassFeedbackSizeIndex(name) \cup HistorySizeIndex(name) # {}

Nth(list, k) == IF k + 1 \in DOMAIN list THEN {list[k + 1]} ELSE {}
Of(map, key) == IF key \in DOMAIN map THEN {map[key]} ELSE {}

\* What a member called name holds, when the engine knows it.  values has the
\* fixed semantics and the sizes by pass, alias, look-up texture and history.
MemberValue(values, name) ==
    LET aliasFeedback == IF Len(name) = 3 /\ name[2] = "Feedback" /\ name[3] = "Size"
                         THEN Of(values.aliasFeedbackSizes, name[1]) ELSE {}
        base   == IF Len(name) = 2 /\ name[2] = "Size" THEN name[1] ELSE ""
        alias  == Of(values.aliasSizes, base)
        lut    == Of(values.lutSizes, base)
        history(k) == IF k = 0 THEN {values.fixed[<<"OriginalSize">>]}
                      ELSE Nth(values.originalHistorySizes, k - 1)
    IN  CASE name \in FixedBuiltins -> {values.fixed[name]}
          [] aliasFeedback # {} -> aliasFeedback
          [] alias # {} -> alias
          [] lut # {} -> lut
          [] PassFeedbackSizeIndex(name) # {} ->
                UNION {Nth(values.passFeedbackSizes, k) : k \in PassFeedbackSizeIndex(name)}
          [] HistorySizeIndex(name) # {} -> UNION {history(k) : k \in HistorySizeIndex(name)}
          [] OTHER -> UNION {Nth(values.passOutputSizes, k) : k \in PassSizeIndex(name)}

ApplyFrameCountMod(count, mod) == IF mod > 0 THEN count % mod ELSE count

(********************************* packing *********************************)

\* Memory is a function from the offsets of the block; a write past its end is cut.
WriteMember(bytes, member, value, size) ==
    [o \in DOMAIN bytes |-> IF o \in member.offset..(member.offset + size - 1) THEN value ELSE bytes[o]]

Smaller(a, b) == IF a < b THEN a ELSE b

\* A matrix takes four units.
BuiltinWidth(name) == IF name = <<"MVP">> THEN 4 ELSE 1

PackBuiltins(block, values) ==
    Loop(LAMBDA bytes, m :
                IF MemberValue(values, m.name) = {} THEN bytes
                ELSE WriteMember(bytes, m, CHOOSE v \in MemberValue(values, m.name) : TRUE,
                                 Smaller(m.size, BuiltinWidth(m.name))),
             [o \in 0..(block.size - 1) |-> <<"zero">>], block.members)

\* Parameters go over the builtins' bytes, one unit each; a member with the name
\* of a builtin keeps the builtin's value.
PackParams(bytes, block, store) ==
    Loop(LAMBDA acc, m :
                IF IsBuiltinSemantic(m.name) \/ ClampedValue(store, m.name) = {} THEN acc
                ELSE WriteMember(acc, m, <<"param", CHOOSE v \in ClampedValue(store, m.name) : TRUE>>, 1),
             bytes, block.members)

\* The first block with a builtin semantic, and the first other block.
BuiltinBlock(blocks) ==
    SelectSeq(blocks, LAMBDA b : \E k \in DOMAIN b.members : IsBuiltinSemantic(b.members[k].name))
IsBuiltinBlock(blocks, b) == BuiltinBlock(blocks) # <<>> /\ b = BuiltinBlock(blocks)[1]
\* A mutant: the parameter block is one without builtins.
ParamBlockPure(blocks) ==
    SelectSeq(blocks, LAMBDA b : \A k \in DOMAIN b.members : ~ IsBuiltinSemantic(b.members[k].name))
ParamBlock(blocks) == SelectSeq(blocks, LAMBDA b : ~ IsBuiltinBlock(blocks, b))
=============================================================================
