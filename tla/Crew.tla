-------------------------------- MODULE Crew --------------------------------
(***************************************************************************)
(* What the forking worker promises of its children: every seat, a         *)
(* sandbox directory, is for one child at a time, an empty seat is taken   *)
(* again, and no child is hired any more once the worker stops.            *)
(***************************************************************************)
EXTENDS Integers

CONSTANTS
    Pids,          \* the names a child may have
    Count          \* the number of seats

VARIABLES
    seat,          \* for each seat, who is in it
    closed         \* whether the worker stops

vars == <<seat, closed>>

Seats == 0..(Count - 1)

Init == /\ seat = [b \in Seats |-> {}]
        /\ closed = FALSE

Sit(b, p) == /\ ~closed
             /\ seat[b] = {}
             /\ \A c \in Seats : p \notin seat[c]
             /\ seat' = [seat EXCEPT ![b] = {p}]
             /\ UNCHANGED closed

Leave(b) == /\ seat[b] # {}
            /\ seat' = [seat EXCEPT ![b] = {}]
            /\ UNCHANGED closed

Close == closed' = TRUE /\ UNCHANGED seat

Next == \/ \E b \in Seats : Leave(b) \/ \E p \in Pids : Sit(b, p)
        \/ Close

Spec == Init /\ [][Next]_vars

(* An empty seat is taken again, unless the worker stops.                  *)
FairSpec == Spec /\ \A b \in Seats : WF_vars(\E p \in Pids : Sit(b, p))
=============================================================================
