---------------------------- MODULE MCThrottle ----------------------------
(***************************************************************************)
(* The instance of Throttle for TLC: one queue, two throttles, three jobs. *)
(***************************************************************************)
EXTENDS Throttle, TLC

(* The states jobs are put in: those in which a job neither holds nor      *)
(* waits for a lock.                                                       *)
AtRest == States \ {"throttled", "running"}

JobSymmetry == Permutations(Jobs)
=============================================================================
