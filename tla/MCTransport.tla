---------------------------- MODULE MCTransport ----------------------------
(* A still and a three-frame sequence, a rate that advances every tick and  *)
(* one (60/24 rounds up) that advances every third.                         *)
EXTENDS TransportPanel

CONSTANTS still, sweep

MCClips    == {still, sweep}
MCLengthOf == [c \in MCClips |-> IF c = still THEN 1 ELSE 3]
MCRates    == {60, 24}
=============================================================================
