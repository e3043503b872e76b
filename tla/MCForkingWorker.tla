------------------------- MODULE MCForkingWorker -------------------------
(***************************************************************************)
(* Instances of ForkingWorker for TLC.                                     *)
(***************************************************************************)
EXTENDS ForkingWorker

ThreeJobs == <<"j1", "j2", "j3">>
=============================================================================
