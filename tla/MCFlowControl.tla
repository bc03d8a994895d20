--------------------------- MODULE MCFlowControl ----------------------------
(* Small instances of FlowControl for TLC. *)
EXTENDS FlowControl, TLC

CONSTANTS x1, x2

\* Two streams whose frames have different sizes.
TwoStreams == {x1, x2}
MixedChunks == x1 :> 1 @@ x2 :> 2
=============================================================================
