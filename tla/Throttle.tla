------------------------------ MODULE Throttle ------------------------------
(***************************************************************************)
(* Throttles: sets of jobs that hold a lock on a resource, of a given      *)
(* size, and the jobs that wait for one.  A job has a list of throttles,   *)
(* the last of which is its queue's.  Pop hands a job out only if it gets  *)
(* a lock on each; whatever ends the run gives the locks back and wakes    *)
(* jobs that wait.  Scripts are atomic: each operation is one action.      *)
(*                                                                         *)
(* Abstractions.  Workers and leases are those of JobStore: here a job     *)
(* runs until an operation ends it, and a lock handed to another worker    *)
(* changes nothing.  A job that is delayed or has dependencies is in the   *)
(* state "scheduled" until it becomes work.  The sets a limit applies to   *)
(* have no order: the jobs taken, and their order, are a choice.  Nor has  *)
(* the list of a job: it says how often each throttle is in it, and which  *)
(* of those without room a job waits for is a choice.  The script          *)
(* throttle.release, which no client of the repository calls, and jobs     *)
(* spawned by recurring ones, which enter the work set as Promote makes    *)
(* others do, are left out.  A pop begins by failing the jobs whose lock   *)
(* has expired and that have no retries left; here Exhaust does it, just   *)
(* before or at any other time.                                            *)
(***************************************************************************)
EXTENDS Integers, FiniteSets, FiniteSetsExt

CONSTANTS
    Jobs,          \* the job ids (jid)
    Queues,        \* the queue names; a queue's own throttle goes by its name
    Resources,     \* the other throttle ids
    Lists,         \* the throttle lists clients give, as sets
    Maxima,        \* the maxima clients set
    PutStates,     \* the states jobs are put in
    Limits,        \* the numbers of jobs asked for in one pop
    Repeats,       \* bound: how often a throttle may be in a list
    NoQueue        \* the queue field of a complete or unknown job ('')

Throttles == Resources \cup Queues
States == {"absent", "waiting", "scheduled", "throttled", "running",
           "failed", "complete"}

ASSUME ThrottlesAssumption == Resources \cap Queues = {}
ASSUME ListsAssumption     == Lists \subseteq SUBSET Throttles
ASSUME MaximaAssumption    == Maxima \subseteq Nat
ASSUME PutAssumption       == PutStates \subseteq States
ASSUME LimitsAssumption    == Limits \subseteq Nat \ {0}
ASSUME BoundAssumption     == Repeats \in Nat \ {0}
ASSUME NullAssumption      == NoQueue \notin Throttles

VARIABLES
    state,         \* the state of each job
    queue,         \* the queue it was last put in
    throttles,     \* how often each throttle is in its list
    work,          \* the work set of each queue
    throttled,     \* the throttled set of each queue
    maximum,       \* the maximum of each throttle, 0 for none
    locks,         \* the jobs that hold a lock on each throttle
    pending        \* the jobs that wait for each throttle

vars == <<state, queue, throttles, work, throttled, maximum, locks, pending>>

-----------------------------------------------------------------------------
QueueNames == Queues \cup {NoQueue}

NoThrottles    == [t \in Throttles |-> 0]
ThrottlesOf(j) == {t \in Throttles : throttles[j][t] > 0}

(* A slip: one job too many.                                               *)
RoomForOneMore(t, H) == maximum[t] = 0 \/ Cardinality(H) <= maximum[t]

(* Whether one more job may hold t when the jobs in H do.                  *)
Room(t, H) == maximum[t] = 0 \/ Cardinality(H) < maximum[t]

(* A slip in a script that counts ranks from zero: one job too few.        *)
LocksAvailableLessOne(t, H) == IF maximum[t] = 0 THEN 9
                               ELSE Max({0, maximum[t] - Cardinality(H) - 1})

(* locks_available: how many jobs a release wakes when the jobs in H hold  *)
(* the throttle; an unlimited throttle wakes up to ten.                    *)
LocksAvailable(t, H) == IF maximum[t] = 0 THEN 10
                        ELSE Max({0, maximum[t] - Cardinality(H)})

Batch(n, S) == {B \in SUBSET S : Cardinality(B) = Min({n, Cardinality(S)})}

-----------------------------------------------------------------------------
Init ==
    /\ state     = [j \in Jobs |-> "absent"]
    /\ queue     = [j \in Jobs |-> NoQueue]
    /\ throttles = [j \in Jobs |-> NoThrottles]
    /\ work      = [q \in QueueNames |-> {}]
    /\ throttled = [q \in QueueNames |-> {}]
    /\ maximum   = [t \in Throttles |-> 0]
    /\ locks     = [t \in Throttles |-> {}]
    /\ pending   = [t \in Throttles |-> {}]

-----------------------------------------------------------------------------
(* throttles_release: j gives up its lock on each of its throttles or, if  *)
(* it has none, its place among the waiting; then each throttle wakes as   *)
(* many of those who wait as it has locks.  A throttle that is listed      *)
(* twice is released twice.                                                *)

(* A slip: only locks are given up.                                        *)
StillPendingAlways(j, t) == pending[t]

StillPending(j, t) ==
    IF j \in locks[t] /\ throttles[j][t] = 1 THEN pending[t] ELSE pending[t] \ {j}

(* Who waits for which throttle of j, and the sets of these a release may  *)
(* wake.                                                                   *)
Waiting(j) == {pair \in ThrottlesOf(j) \X Jobs :
                  pair[2] \in StillPending(j, pair[1])}

WokenBy(t, woken) == {k \in Jobs : <<t, k>> \in woken}

Wakes(j) ==
    {woken \in SUBSET Waiting(j) :
        \A t \in ThrottlesOf(j) :
            WokenBy(t, woken) \in
                Batch(throttles[j][t] * LocksAvailable(t, locks[t] \ {j}),
                      StillPending(j, t))}

Release(j, woken) ==
    /\ locks' = [t \in Throttles |-> IF t \in ThrottlesOf(j)
                                     THEN locks[t] \ {j} ELSE locks[t]]
    /\ pending' = [t \in Throttles |->
                     IF t \in ThrottlesOf(j)
                     THEN StillPending(j, t) \ WokenBy(t, woken)
                     ELSE pending[t]]

(* The jobs of the queue q among the woken.                                *)
WokenIn(q, woken) ==
    {k \in Jobs : queue[k] = q /\ \E t \in Throttles : <<t, k>> \in woken}

(* A woken job without a hash would be an error of the script.             *)
WokenExist(woken) == \A pair \in woken : state[pair[2]] # "absent"

(* What ends the run of j, or j itself: j leaves the sets of its queue, if *)
(* the script removes it from there, its locks are released, and it joins  *)
(* the work of the queues in to.                                           *)
LeaveAndRelease(j, removed, to) ==
    LET left(q) == IF removed /\ q = queue[j] THEN {j} ELSE {}
    IN  \E woken \in Wakes(j) :
          /\ WokenExist(woken)
          /\ Release(j, woken)
          /\ work' = [q \in QueueNames |->
                        (work[q] \ left(q)) \cup WokenIn(q, woken)
                           \cup (IF q \in to THEN {j} ELSE {})]
          /\ throttled' = [q \in QueueNames |->
                        throttled[q] \ (left(q) \cup WokenIn(q, woken))]

-----------------------------------------------------------------------------
(* throttle.set; deleting a throttle, or letting it expire, sets it to 0.  *)
SetMaximum(t, n) ==
    /\ maximum' = [maximum EXCEPT ![t] = n]
    /\ UNCHANGED <<state, queue, throttles, work, throttled, locks, pending>>

(* put, and Job.move, which gives the list of the job once more.  The old  *)
(* queue's throttle is taken out of the list, by a loop that skips the     *)
(* entry after each it removes, so that n of several may stay, and the     *)
(* new one's is added.  What the job holds or waits for under its old list *)
(* is left as it is.  Repeats bounds how often a throttle is in a list.    *)

(* A slip: the old queue's throttle is taken out without a look, and the   *)
(* same one is not added again.                                            *)
NewListUnseen(j, q, given, left) ==
    [t \in Throttles |-> (IF t = queue[j] THEN given[t] - 1 ELSE given[t])
                            + (IF t = q /\ q # queue[j] THEN 1 ELSE 0)]

NewList(j, q, given, left) ==
    [t \in Throttles |-> (IF t = queue[j] THEN left ELSE given[t])
                            + (IF t = q THEN 1 ELSE 0)]

OnceEach(list) == [t \in Throttles |-> IF t \in list THEN 1 ELSE 0]

LeftIn(given, q) == IF q \in Queues THEN 0 .. given[q] \div 2 ELSE {0}

Put(q, j, given, delayed) ==
    LET full      == {t \in ThrottlesOf(j)' : ~ Room(t, locks[t])}
        blocked   == ~ delayed /\ full # {}
        left(r)   == IF r = queue[j] THEN {j} ELSE {}
        joins(r)  == IF r = q /\ ~ delayed THEN {j} ELSE {}
    IN  /\ state[j] \in PutStates
        /\ \E n \in LeftIn(given, queue[j]) :
             throttles' = [throttles EXCEPT ![j] = NewList(j, q, given, n)]
        /\ throttles'[j][q] <= Repeats
        /\ state' = [state EXCEPT ![j] = IF delayed THEN "scheduled"
                                         ELSE IF blocked THEN "throttled"
                                         ELSE "waiting"]
        /\ queue' = [queue EXCEPT ![j] = q]
        /\ work' = [r \in QueueNames |-> (work[r] \ left(r)) \cup
                                          (IF blocked THEN {} ELSE joins(r))]
        /\ throttled' = [r \in QueueNames |-> (throttled[r] \ left(r)) \cup
                                          (IF blocked THEN joins(r) ELSE {})]
        /\ IF blocked THEN \E t \in full :
                             pending' = [pending EXCEPT ![t] = @ \cup {j}]
                      ELSE UNCHANGED pending
        /\ UNCHANGED <<maximum, locks>>

(* The delay of j is over, or its last dependency is gone.                 *)
Promote(j) ==
    /\ state[j] = "scheduled"
    /\ state' = [state EXCEPT ![j] = "waiting"]
    /\ work'  = [work EXCEPT ![queue[j]] = @ \cup {j}]
    /\ UNCHANGED <<queue, throttles, throttled, maximum, locks, pending>>

-----------------------------------------------------------------------------
(* Pop, of a queue whose own throttle has room: the jobs M whose delay is  *)
(* over become work, and T is taken from it.  turn[j] is when the loop     *)
(* comes to j.  At its turn a job is granted its locks if all its          *)
(* throttles have room, and otherwise waits for one that has not.          *)
HandOut(q, M, T, granted, turn) ==
    LET before(j)  == {k \in granted : turn[k] < turn[j]}
        held(t, j) == locks[t] \cup {k \in before(j) : t \in ThrottlesOf(k)}
        full(j)    == {t \in ThrottlesOf(j) : ~ Room(t, held(t, j))}
        refused    == T \ granted
    IN  /\ granted = {j \in T : full(j) = {}}
        /\ state' = [j \in Jobs |->
                       IF j \in granted /\ state[j] # "absent" THEN "running"
                       ELSE IF j \in refused THEN "throttled"
                       ELSE IF j \in M THEN "waiting" ELSE state[j]]
        /\ work' = [work EXCEPT ![q] = (@ \cup M) \ T]
        /\ throttled' = [throttled EXCEPT ![q] = @ \cup refused]
        /\ locks' = [t \in Throttles |->
                       locks[t] \cup {j \in granted : t \in ThrottlesOf(j)}]
        /\ \E on \in [refused -> Throttles] :
             /\ \A j \in refused : on[j] \in full(j)
             /\ pending' = [t \in Throttles |->
                              pending[t] \cup {j \in refused : on[j] = t}]
        /\ UNCHANGED <<queue, throttles, maximum>>

Turns(T) == {turn \in [T -> 1 .. Cardinality(T)] :
                \A j, k \in T : turn[j] = turn[k] => j = k}

Pop(q, limit) ==
    /\ Room(q, locks[q])
    /\ \E M \in SUBSET {j \in Jobs : queue[j] = q /\ state[j] = "scheduled"} :
         /\ Cardinality(M) <= limit
         /\ \E T \in Batch(limit, work[q] \cup M) :
              \E granted \in SUBSET T, turn \in Turns(T) :
                HandOut(q, M, T, granted, turn)

-----------------------------------------------------------------------------
(* What ends a run.                                                        *)

Complete(j) ==
    /\ state[j] = "running"
    /\ LeaveAndRelease(j, TRUE, {})
    /\ state' = [state EXCEPT ![j] = "complete"]
    /\ queue' = [queue EXCEPT ![j] = NoQueue]
    /\ UNCHANGED <<throttles, maximum>>

(* The job keeps its list, with the throttle of the queue it leaves and    *)
(* without that of the queue it enters.                                    *)
CompleteAndRequeue(j, q, delayed) ==
    /\ state[j] = "running"
    /\ LeaveAndRelease(j, TRUE, IF delayed THEN {} ELSE {q})
    /\ state' = [state EXCEPT ![j] = IF delayed THEN "scheduled" ELSE "waiting"]
    /\ queue' = [queue EXCEPT ![j] = q]
    /\ UNCHANGED <<throttles, maximum>>

Fail(j) ==
    /\ state[j] = "running"
    /\ LeaveAndRelease(j, TRUE, {})
    /\ state' = [state EXCEPT ![j] = "failed"]
    /\ UNCHANGED <<queue, throttles, maximum>>

(* A slip: the locks are kept.                                             *)
ExhaustHolding(j) ==
    /\ state[j] = "running"
    /\ state' = [state EXCEPT ![j] = "failed"]
    /\ UNCHANGED <<queue, throttles, work, throttled, maximum, locks, pending>>

(* No retries are left, at a retry or when the lock has expired.           *)
Exhaust(j) ==
    /\ state[j] = "running"
    /\ LeaveAndRelease(j, FALSE, {})
    /\ state' = [state EXCEPT ![j] = "failed"]
    /\ UNCHANGED <<queue, throttles, maximum>>

Retry(j, delayed) ==
    /\ state[j] = "running"
    /\ LeaveAndRelease(j, FALSE, IF delayed THEN {} ELSE {queue[j]})
    /\ state' = [state EXCEPT ![j] = IF delayed THEN "scheduled" ELSE "waiting"]
    /\ UNCHANGED <<queue, throttles, maximum>>

(* The state "stalled" the script gives the job is "waiting" here.         *)
Timeout(j) ==
    /\ state[j] = "running"
    /\ LeaveAndRelease(j, FALSE, {queue[j]})
    /\ state' = [state EXCEPT ![j] = "waiting"]
    /\ UNCHANGED <<queue, throttles, maximum>>

-----------------------------------------------------------------------------
(* A slip: a job that holds no lock is taken out and wakes nobody.         *)
CancelQuietly(j) ==
    /\ state[j] \notin {"absent", "complete", "running"}
    /\ work'      = [q \in QueueNames |-> work[q] \ {j}]
    /\ throttled' = [q \in QueueNames |-> throttled[q] \ {j}]
    /\ pending'   = [t \in Throttles |-> pending[t] \ {j}]
    /\ state'     = [state EXCEPT ![j] = "absent"]
    /\ queue'     = [queue EXCEPT ![j] = NoQueue]
    /\ throttles' = [throttles EXCEPT ![j] = NoThrottles]
    /\ UNCHANGED <<maximum, locks>>

(* Cancel, of one job; to cancel several is to cancel one after the other. *)
Cancel(j) ==
    /\ state[j] \notin {"absent", "complete"}
    /\ LeaveAndRelease(j, TRUE, {})
    /\ state'     = [state EXCEPT ![j] = "absent"]
    /\ queue'     = [queue EXCEPT ![j] = NoQueue]
    /\ throttles' = [throttles EXCEPT ![j] = NoThrottles]
    /\ UNCHANGED maximum

(* A complete job is forgotten, by complete: its locks are not looked at.  *)
Forget(j) ==
    /\ state[j] = "complete"
    /\ state'     = [state EXCEPT ![j] = "absent"]
    /\ throttles' = [throttles EXCEPT ![j] = NoThrottles]
    /\ UNCHANGED <<queue, work, throttled, maximum, locks, pending>>

(* A failed job goes to the queue q; its list is left as it is.            *)
Unfail(j, q) ==
    /\ state[j] = "failed"
    /\ state' = [state EXCEPT ![j] = "waiting"]
    /\ queue' = [queue EXCEPT ![j] = q]
    /\ work'  = [work EXCEPT ![q] = @ \cup {j}]
    /\ UNCHANGED <<throttles, throttled, maximum, locks, pending>>

-----------------------------------------------------------------------------
Next ==
    \/ \E t \in Throttles, n \in Maxima : SetMaximum(t, n)
    \/ \E q \in Queues, limit \in Limits : Pop(q, limit)
    \/ \E j \in Jobs :
         \/ \E q \in Queues, delayed \in BOOLEAN :
              \/ \E list \in Lists : Put(q, j, OnceEach(list), delayed)
              \/ Put(q, j, throttles[j], delayed)
         \/ Promote(j)
         \/ Complete(j)
         \/ \E q \in Queues, delayed \in BOOLEAN :
              CompleteAndRequeue(j, q, delayed)
         \/ Fail(j)
         \/ Exhaust(j)
         \/ \E delayed \in BOOLEAN : Retry(j, delayed)
         \/ Timeout(j)
         \/ Cancel(j)
         \/ Forget(j)
         \/ \E q \in Queues : Unfail(j, q)

Spec == Init /\ [][Next]_vars

-----------------------------------------------------------------------------
(* Every set holds what the scripts put into it.                           *)
TypeOK ==
    /\ state     \in [Jobs -> States]
    /\ queue     \in [Jobs -> QueueNames]
    /\ throttles \in [Jobs -> [Throttles -> Nat]]
    /\ work      \in [QueueNames -> SUBSET Jobs]
    /\ throttled \in [QueueNames -> SUBSET Jobs]
    /\ maximum   \in [Throttles -> Nat]
    /\ locks     \in [Throttles -> SUBSET Jobs]
    /\ pending   \in [Throttles -> SUBSET Jobs]

(* A throttle's locks are exactly those of the jobs that run with it: none *)
(* is leaked by the many ways a run ends, and none is given up early.      *)
LocksAreExact ==
    \A t \in Throttles, j \in Jobs :
        j \in locks[t] <=> state[j] = "running" /\ t \in ThrottlesOf(j)

(* A job waits for a throttle exactly while it is in the throttled set of  *)
(* its queue, it waits for one of its own throttles, and for one only.     *)
WaitersAreThrottled ==
    \A j \in Jobs :
        /\ \A q \in QueueNames :
             j \in throttled[q] <=> /\ queue[j] = q
                                    /\ \E t \in Throttles : j \in pending[t]
        /\ \A t \in Throttles : j \in pending[t] =>
             /\ state[j] = "throttled"
             /\ t \in ThrottlesOf(j)
             /\ \A u \in Throttles \ {t} : j \notin pending[u]

(* No lost wake-up: while jobs wait for a throttle, another job that has   *)
(* the throttle and does not wait for it is running, or has been woken, or *)
(* waits for another one; it gives the throttle up in the end.             *)
WaitersHaveAWaker ==
    \A t \in Throttles : pending[t] # {} =>
        \E k \in Jobs \ pending[t] : /\ t \in ThrottlesOf(k)
                                     /\ state[k] \in {"running", "throttled"}

(* They do not all wait for each other: with jobs waiting, some job runs   *)
(* or is ready to be popped.                                               *)
NotAllWait ==
    (\E t \in Throttles : pending[t] # {}) =>
        \/ \E j \in Jobs : state[j] = "running"
        \/ \E q \in Queues : work[q] # {}

(* A lock is only ever granted within the maximum, however many jobs one   *)
(* pop hands out.                                                          *)
AdmissionStep ==
    \A t \in Throttles : locks'[t] \ locks[t] # {} =>
        maximum[t] = 0 \/ Cardinality(locks'[t]) <= maximum[t]
AdmissionWithinMaximum == [][AdmissionStep]_vars

=============================================================================
