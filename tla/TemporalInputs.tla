--------------------------- MODULE TemporalInputs ---------------------------
(***************************************************************************)
(* What a shader author may rely on when a pass samples the past           *)
(* (docs/retroarch-slang-runtime.md sections 4 and 5, as the engine gives  *)
(* it): OriginalHistoryK is the source frame K source frames ago,          *)
(* PassFeedbackN is what pass N drew in the previous frame, and both read  *)
(* black where there is no such past.  Nothing is said of rings, twins or  *)
(* swaps: the past is a shift register and a picture per pass.             *)
(***************************************************************************)
EXTENDS Naturals

CONSTANTS Frames,    \* the source images
          Black,     \* what a texture without a past reads as
          Ticks      \* number of values of the frame counter (2^32 in the engine)

VARIABLES lag,       \* lag[k]: the source frame k source frames ago, k >= 0
          previous,  \* previous[n]: what pass n drew in the last frame
          size,      \* size[n]: the size pass n was last drawn at
          count,     \* the number of passes
          wanted,    \* the <<kind, index>> pairs the chain samples the past with
          reads,     \* what they read in the last frame: <<pair, image>>
          tick       \* the frame counter

vars == <<lag, previous, size, count, wanted, reads, tick>>

Past(kind, image) ==
  IF kind[1] = "OriginalHistory"
  THEN IF kind[2] \in DOMAIN lag THEN lag[kind[2]] ELSE Black
  ELSE IF kind[2] \in DOMAIN image THEN image[kind[2]] ELSE Black

History(kinds)    == {kind \in kinds : kind[1] = "OriginalHistory"}
FedBack(n, kinds) == {i \in 1..n : <<"PassFeedback", i>> \in kinds}

Init == /\ lag = [k \in {0} |-> Black]
        /\ previous = [n \in {} |-> Black] /\ DOMAIN size = {}
        /\ count = 0 /\ wanted = {} /\ reads = {} /\ tick = 0

\* A freshly loaded source has no past.
Load == /\ \E f \in Frames : lag' = [k \in DOMAIN lag |-> IF k = 0 THEN f ELSE Black]
        /\ UNCHANGED <<previous, size, count, wanted, reads, tick>>

\* The next frame of the same source: every frame moves one step into the past.
Advance == /\ \E f \in Frames : lag' = [k \in DOMAIN lag |-> IF k = 0 THEN f ELSE lag[k - 1]]
           /\ UNCHANGED <<previous, size, count, wanted, reads, tick>>

\* A new chain forgets everything but the current source frame; it may look
\* back further or less far, feed back other passes and sample other classes.
Rebuild == /\ {0} \cup {kind[2] : kind \in History(wanted')} \subseteq DOMAIN lag'
           /\ lag' = [k \in DOMAIN lag' |-> IF k = 0 THEN lag[0] ELSE Black]
           /\ previous' = [n \in FedBack(count', wanted') |-> Black]
           /\ DOMAIN size' = DOMAIN previous'
           /\ reads' = {}
           /\ UNCHANGED tick

\* The feedback of every pass starts over.
Forget == /\ previous' = [i \in DOMAIN previous |-> Black]
          /\ UNCHANGED <<lag, size, count, wanted, reads, tick>>

\* One frame is drawn: a pass whose size changed has no previous picture.
Draw == /\ DOMAIN size' = DOMAIN size
        /\ reads' = {<<kind, Past(kind, [i \in DOMAIN previous |->
                               IF size'[i] = size[i] THEN previous[i] ELSE Black])>>
                       : kind \in wanted}
        /\ previous' = [i \in DOMAIN previous |-> <<i, tick>>]
        /\ tick' = (tick + 1) % Ticks
        /\ UNCHANGED <<lag, count, wanted>>

Next == Load \/ Advance \/ Rebuild \/ Forget \/ Draw

Spec == Init /\ [][Next]_vars

=============================================================================
