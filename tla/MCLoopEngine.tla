---------------------------- MODULE MCLoopEngine ----------------------------
(* A main run of two steps, with up to two tool calls in a step. *)
EXTENDS LoopEngine
=============================================================================
