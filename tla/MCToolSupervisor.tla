-------------------------- MODULE MCToolSupervisor --------------------------
(* Two tool calls: one that cooperates when it is cancelled, and one whose  *)
(* child writes its own log.                                                *)
EXTENDS ToolSupervisor
=============================================================================
