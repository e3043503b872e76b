------------------------------ MODULE JobLease ------------------------------
(***************************************************************************)
(* What the job store promises of the life of every job, whatever clients  *)
(* and workers do: a job is held by one holder at a time, and only when it *)
(* waits for nothing else; it is taken from its holder against its will,   *)
(* other than by a client, only after a notice and at the price of a       *)
(* retry; and its retries are restored only where it is put, turned in or  *)
(* revived.                                                                *)
(*                                                                         *)
(* A step of the store may be a step of several jobs, each on its own.     *)
(***************************************************************************)
EXTENDS Integers

CONSTANTS
    Jobs,
    Holders,       \* who may hold a job
    Nobody,        \* nobody holds the job
    Retries,       \* the numbers of retries given
    Notice         \* whether holders are given notice

VARIABLES
    status,        \* "none", "idle", "blocked", "held", "failed", "complete"
    holder,        \* who holds it
    given, left,   \* the retries it was given, and those it has left
    warned         \* whether notice has been given since it was cleared

vars == <<status, holder, given, left, warned>>

Init ==
    /\ status = [j \in Jobs |-> "none"]
    /\ holder = [j \in Jobs |-> Nobody]
    /\ given  = [j \in Jobs |-> 0]
    /\ left   = [j \in Jobs |-> 0]
    /\ warned = [j \in Jobs |-> FALSE]

(* What happens to job j: it is then in the status s, held by h, with l    *)
(* retries left, and the notice is n.                                      *)
Goes(j, s, h, l, n) ==
    /\ status'[j] = s
    /\ holder'[j] = h
    /\ left'[j] = l
    /\ warned'[j] = n
    /\ given'[j] = given[j]

Stay(j)  == Goes(j, status[j], holder[j], left[j], warned[j])

(* A client puts it, whatever it is, or makes it vanish.                   *)
Put(j) ==
    /\ status'[j] \in {"idle", "blocked"}
    /\ holder'[j] = Nobody
    /\ left'[j] \in Retries
    /\ given'[j] = left'[j]
    /\ warned'[j] = warned[j]

Vanish(j) ==
    /\ status'[j] = "none"
    /\ holder'[j] = Nobody
    /\ left'[j] = 0
    /\ given'[j] = 0
    /\ warned'[j] = FALSE

Free(j) == /\ status[j] = "blocked"
           /\ Goes(j, "idle", Nobody, left[j], warned[j])

Take(j) == /\ status[j] = "idle"
           /\ \E h \in Holders : Goes(j, "held", h, left[j], warned[j])

Warn(j) == /\ status[j] = "held"
           /\ Notice /\ ~warned[j]
           /\ Goes(j, "held", holder[j], left[j], TRUE)

(* Its time is up: another holds it, or it has failed.                     *)
Lapse(j) ==
    /\ status[j] = "held"
    /\ Notice => warned[j]
    /\ \/ /\ left[j] >= 1
          /\ \E h \in Holders : Goes(j, "held", h, left[j] - 1, FALSE)
       \/ /\ left[j] < 1
          /\ Goes(j, "failed", Nobody, left[j] - 1, FALSE)

(* The holder turns it in, gives it up, or tries again.                    *)
Finish(j) ==
    /\ status[j] = "held"
    /\ \E s \in {"complete", "idle", "blocked"} :
          Goes(j, s, Nobody, given[j], warned[j])

GiveUp(j) == /\ status[j] = "held"
             /\ Goes(j, "failed", Nobody, left[j], warned[j])

TryAgain(j) ==
    /\ status[j] = "held"
    /\ Goes(j, IF left[j] < 1 THEN "failed" ELSE "idle", Nobody, left[j] - 1, FALSE)

(* A client takes it from its holder, or revives it.                       *)
Withdraw(j) == /\ status[j] = "held"
               /\ Goes(j, "idle", Nobody, left[j], warned[j])

Revive(j) == /\ status[j] = "failed"
             /\ Goes(j, "idle", Nobody, given[j], warned[j])

Step(j) == \/ Stay(j) \/ Put(j) \/ Vanish(j) \/ Free(j)
           \/ Take(j) \/ Warn(j) \/ Lapse(j)
           \/ Finish(j) \/ GiveUp(j) \/ TryAgain(j)
           \/ Withdraw(j) \/ Revive(j)

Next == \A j \in Jobs : Step(j)

Spec == Init /\ [][Next]_vars
=============================================================================
