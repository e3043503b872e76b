---------------------------- MODULE MCJobStore ----------------------------
(***************************************************************************)
(* Instances of JobStore for TLC.                                          *)
(***************************************************************************)
EXTENDS JobStore

(* Every process has a name of its own; the names are the processes.       *)
OwnNames == [p \in Procs |-> p]
=============================================================================
