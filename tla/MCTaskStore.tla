---------------------------- MODULE MCTaskStore -----------------------------
(* Three task ids and two batch ids before exhaustion.                      *)
EXTENDS TaskStore
=============================================================================
