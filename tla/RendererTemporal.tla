-------------------------- MODULE RendererTemporal --------------------------
(***************************************************************************)
(* The renderer implements what shader authors are told of the past: the   *)
(* ring and the swapped feedback twins of Renderer, mapped to the shift    *)
(* register and the previous pictures of TemporalInputs.                   *)
(***************************************************************************)
EXTENDS Renderer

\* The ring as a shift register: slot 0 is the current Original.
LagOf == [k \in 0..depth |->
            IF k = 0 THEN IF source = NoFrame THEN Black ELSE source
            ELSE IF k <= Len(history) THEN history[k] ELSE Black]

\* A texture class that samples the past, an alias replaced by its pass.
SamplesPast(class) == class[1] \in {"OriginalHistory", "PassFeedback", "AliasFeedback"}
PastOf(class) ==
  IF class[1] = "AliasFeedback" THEN <<"PassFeedback", AliasIndex(class[2])>> ELSE class

PastSlots(i) == {class \in passes[i].slots : SamplesPast(class)}
WantedOf == UNION {{PastOf(class) : class \in PastSlots(i)} : i \in DOMAIN passes}

\* The passes whose previous output is sampled; without a twin there is none.
FedBack == {i \in DOMAIN passes : <<"PassFeedback", i>> \in WantedOf}
PreviousOf == [i \in FedBack |-> IF passes[i].twin.live THEN passes[i].fbo.content ELSE Black]
DrawnSizeOf == [i \in FedBack |-> passes[i].fbo.size]

ReadsOf == UNION {{<<PastOf(class), Read(i, class).content>> : class \in PastSlots(i)}
                     : i \in DOMAIN drawn}

(* Whatever a chain asks of the past is kept for it: a pass whose feedback  *)
(* is sampled, under its index or its alias, is double-buffered, and the    *)
(* ring reaches back as far as any pass does.                               *)
PastIsKept ==
  /\ \A i \in FedBack : passes[i].target
  /\ \A i \in DOMAIN passes : \A class \in passes[i].slots :
       class[1] = "OriginalHistory" => class[2] \in 1..depth
  /\ source = NoFrame => history = << >>
  /\ DOMAIN drawn \subseteq DOMAIN passes

Temporal == INSTANCE TemporalInputs
              WITH lag <- LagOf, previous <- PreviousOf, size <- DrawnSizeOf,
                   count <- Len(passes), wanted <- WantedOf, reads <- ReadsOf, tick <- frameCount

(* Every interleaving of loads, frame advances, seeks, chain rebuilds,      *)
(* resizes and draws gives the shaders the past they are promised: history  *)
(* K is the source frame K frames ago, feedback is the previous frame's     *)
(* output, black only after a load, a rebuild, a reset or a size change.    *)
ImplementsTemporalInputs == Temporal!Spec

=============================================================================
