--------------------------- MODULE MCDrainHistory ---------------------------
(***************************************************************************)
(* DrainHistory for TLC, with the stream that FifoDrain implements.        *)
(***************************************************************************)
EXTENDS MCFifoDrain, DrainHistory
=============================================================================
