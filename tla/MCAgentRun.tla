----------------------------- MODULE MCAgentRun -----------------------------
(* Instance of AgentRun for TLC. *)
EXTENDS AgentRun, TLC

Symmetry == Permutations(StepId)
=============================================================================
