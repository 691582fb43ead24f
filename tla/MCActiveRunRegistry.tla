----------------------- MODULE MCActiveRunRegistry -------------------------
(* Two runs (a main run and another one) and two steps. *)
EXTENDS ActiveRunRegistry
=============================================================================
