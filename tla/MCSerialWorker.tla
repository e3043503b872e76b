------------------------- MODULE MCSerialWorker -------------------------
(***************************************************************************)
(* Instances of SerialWorker for TLC.                                      *)
(***************************************************************************)
EXTENDS SerialWorker
=============================================================================
