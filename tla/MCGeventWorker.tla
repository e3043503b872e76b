-------------------------- MODULE MCGeventWorker --------------------------
(***************************************************************************)
(* Instances of GeventWorker for TLC.                                      *)
(***************************************************************************)
EXTENDS GeventWorker, TLC

SandboxSymmetry == Permutations(Sandboxes)
AllSymmetry == Permutations(Sandboxes) \cup Permutations(Greenlets)
=============================================================================
