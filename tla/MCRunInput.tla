----------------------------- MODULE MCRunInput -----------------------------
(* Instances of RunInput for TLC; the cfgs differ in what the user may do.  *)
EXTENDS RunInput
=============================================================================
