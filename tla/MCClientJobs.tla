---------------------------- MODULE MCClientJobs ----------------------------
(***************************************************************************)
(* Instances of ClientJobs for TLC.                                        *)
(***************************************************************************)
EXTENDS ClientJobs, TLC

AllSymmetry ==
    Permutations(Clients) \cup Permutations(Queues) \cup Permutations(Data)
=============================================================================
