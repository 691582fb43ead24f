-------------------------- MODULE MCAtomicDataset --------------------------
(* Two versions that share a content, and a content that only one has.      *)
EXTENDS AtomicDataset, TLC
CONSTANTS v, w, a, b
MCMembers == (v :> {a} @@ w :> {a, b})
=============================================================================
