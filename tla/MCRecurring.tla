---------------------------- MODULE MCRecurring ----------------------------
(***************************************************************************)
(* Instances of Recurring for TLC.                                         *)
(***************************************************************************)
EXTENDS Recurring, TLC

BothSymmetry == Permutations(Templates) \cup Permutations(Queues)
=============================================================================
