-------------------------- MODULE MCBufferLifecycle --------------------------
(***************************************************************************)
(* BufferLifecycle for TLC: the default watermark, the largest one, whose  *)
(* byte count needs both threshold registers, and at most MaxFaults failing *)
(* transfers.                                                              *)
(***************************************************************************)
EXTENDS BufferLifecycle

MCWatermarks == {16, 73}
=============================================================================
