------------------------ MODULE MCInteractionBridge -------------------------
(* A main run with two requests, a sub run that asks through it, and one    *)
(* without interaction.                                                     *)
EXTENDS InteractionBridge
CONSTANTS main, sub, mute, q1, q2, q3, q4
Owner == [q \in {q1, q2, q3, q4} |-> IF q \in {q1, q2} THEN main ELSE sub]
=============================================================================
