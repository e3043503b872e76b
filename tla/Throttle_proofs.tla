--------------------------- MODULE Throttle_proofs ---------------------------
(***************************************************************************)
(* Proofs about Throttle.  The locks of a throttle are exact, those who    *)
(* wait are where they should be, a wake-up is never lost, and they never  *)
(* all wait for each other, as long as jobs are not put while they run or  *)
(* are throttled.                                                          *)
(***************************************************************************)
EXTENDS Throttle, FiniteSetTheorems, WellFoundedInduction, TLAPS

(* What the theorems assume of the clients, and of the jobs.               *)
AtRestOnly == PutStates \cap {"running", "throttled"} = {}
FiniteJobs == IsFiniteSet(Jobs)

(* A job that can be popped is in the queue it was last put in and waits   *)
(* for no throttle.                                                        *)
WorkIsFree ==
    \A q \in QueueNames : \A j \in work[q] :
        /\ queue[j] = q
        /\ state[j] \in {"waiting", "throttled"}
        /\ \A t \in Throttles : j \notin pending[t]

IInv == TypeOK /\ LocksAreExact /\ WaitersAreThrottled /\ WorkIsFree

-----------------------------------------------------------------------------
(* Type correctness.                                                       *)

LEMMA QueuesAreNames == Queues \subseteq QueueNames /\ Queues \subseteq Throttles
BY DEF QueueNames, Throttles

LEMMA TypeInit == Init => TypeOK
BY DEF Init, TypeOK, States, QueueNames, NoThrottles

(* A release and what goes with it keep sets of jobs.                      *)
LEMMA TypeRelease ==
    ASSUME TypeOK, NEW j \in Jobs, NEW removed \in BOOLEAN,
           NEW to \in SUBSET QueueNames, LeaveAndRelease(j, removed, to)
    PROVE  /\ work' \in [QueueNames -> SUBSET Jobs]
           /\ throttled' \in [QueueNames -> SUBSET Jobs]
           /\ locks' \in [Throttles -> SUBSET Jobs]
           /\ pending' \in [Throttles -> SUBSET Jobs]
<1>1. PICK woken \in Wakes(j) :
         /\ Release(j, woken)
         /\ work' = [q \in QueueNames |->
                       (work[q] \ (IF removed /\ q = queue[j] THEN {j} ELSE {}))
                          \cup WokenIn(q, woken)
                          \cup (IF q \in to THEN {j} ELSE {})]
         /\ throttled' = [q \in QueueNames |->
                       throttled[q] \ ((IF removed /\ q = queue[j] THEN {j} ELSE {})
                                         \cup WokenIn(q, woken))]
  BY DEF LeaveAndRelease
<1>2. \A q : WokenIn(q, woken) \subseteq Jobs
  BY DEF WokenIn
<1>3. work' \in [QueueNames -> SUBSET Jobs]
  BY <1>1, <1>2 DEF TypeOK
<1>4. throttled' \in [QueueNames -> SUBSET Jobs]
  BY <1>1 DEF TypeOK
<1>5. locks' \in [Throttles -> SUBSET Jobs]
  BY <1>1 DEF TypeOK, Release
<1>6. pending' \in [Throttles -> SUBSET Jobs]
  BY <1>1 DEF TypeOK, Release, StillPending
<1> QED BY <1>3, <1>4, <1>5, <1>6

LEMMA TypePut ==
    ASSUME TypeOK, NEW q \in Queues, NEW j \in Jobs,
           NEW given \in [Throttles -> Nat], NEW delayed \in BOOLEAN,
           Put(q, j, given, delayed)
    PROVE  TypeOK'
<1>1. throttles' \in [Jobs -> [Throttles -> Nat]]
  <2>1. PICK left \in LeftIn(given, queue[j]) :
           throttles' = [throttles EXCEPT ![j] = NewList(j, q, given, left)]
    BY DEF Put
  <2>2. left \in Nat
    <3>1. CASE queue[j] \in Queues
      <4>1. given[queue[j]] \in Nat
        BY <3>1, QueuesAreNames
      <4> QED BY <2>1, <3>1, <4>1 DEF LeftIn
    <3>2. CASE queue[j] \notin Queues
      BY <2>1, <3>2 DEF LeftIn
    <3> QED BY <3>1, <3>2
  <2>3. NewList(j, q, given, left) \in [Throttles -> Nat]
    BY <2>2 DEF NewList
  <2> QED BY <2>1, <2>3 DEF TypeOK
<1>2. state' \in [Jobs -> States]
  BY DEF TypeOK, Put, States
<1>3. queue' \in [Jobs -> QueueNames]
  BY QueuesAreNames DEF TypeOK, Put
<1>4. work' \in [QueueNames -> SUBSET Jobs]
  BY DEF TypeOK, Put
<1>5. throttled' \in [QueueNames -> SUBSET Jobs]
  BY DEF TypeOK, Put
<1>6. pending' \in [Throttles -> SUBSET Jobs]
  <2>1. pending' = pending \/ \E t \in Throttles :
                                pending' = [pending EXCEPT ![t] = @ \cup {j}]
    BY DEF Put, ThrottlesOf
  <2> QED BY <2>1 DEF TypeOK
<1>7. maximum' \in [Throttles -> Nat] /\ locks' \in [Throttles -> SUBSET Jobs]
  BY DEF TypeOK, Put
<1> QED BY <1>1, <1>2, <1>3, <1>4, <1>5, <1>6, <1>7 DEF TypeOK

LEMMA TypeHandOut ==
    ASSUME TypeOK, NEW q \in Queues, NEW M \in SUBSET Jobs, NEW T \in SUBSET Jobs,
           NEW granted \in SUBSET T, NEW turn, HandOut(q, M, T, granted, turn)
    PROVE  TypeOK'
<1>1. state' \in [Jobs -> States]
  BY DEF TypeOK, HandOut, States
<1>2. work' \in [QueueNames -> SUBSET Jobs]
  BY DEF TypeOK, HandOut
<1>3. throttled' \in [QueueNames -> SUBSET Jobs]
  BY DEF TypeOK, HandOut
<1>4. locks' \in [Throttles -> SUBSET Jobs]
  BY DEF TypeOK, HandOut
<1>5. pending' \in [Throttles -> SUBSET Jobs]
  BY DEF TypeOK, HandOut
<1>6. UNCHANGED <<queue, throttles, maximum>>
  BY DEF HandOut
<1> QED BY <1>1, <1>2, <1>3, <1>4, <1>5, <1>6 DEF TypeOK

LEMMA PopUnfolds ==
    ASSUME TypeOK, NEW q \in Queues, NEW limit \in Limits, Pop(q, limit)
    PROVE  \E M \in SUBSET {j \in Jobs : queue[j] = q /\ state[j] = "scheduled"} :
             \E T \in SUBSET (work[q] \cup M) :
               \E granted \in SUBSET T, turn \in Turns(T) :
                 HandOut(q, M, T, granted, turn)
BY DEF Pop, Batch

LEMMA TypeNext == TypeOK /\ [Next]_vars => TypeOK'
<1> SUFFICES ASSUME TypeOK, [Next]_vars PROVE TypeOK'
  OBVIOUS
<1>1. CASE UNCHANGED vars
  BY <1>1 DEF TypeOK, vars
<1>2. ASSUME NEW t \in Throttles, NEW n \in Maxima, SetMaximum(t, n) PROVE TypeOK'
  BY <1>2, MaximaAssumption DEF TypeOK, SetMaximum
<1>3. ASSUME NEW q \in Queues, NEW limit \in Limits, Pop(q, limit) PROVE TypeOK'
  <2>0. PICK M \in SUBSET {j \in Jobs : queue[j] = q /\ state[j] = "scheduled"} :
           \E T \in SUBSET (work[q] \cup M) : \E granted \in SUBSET T, turn \in Turns(T) :
             HandOut(q, M, T, granted, turn)
    BY <1>3, PopUnfolds
  <2>1. PICK T \in SUBSET (work[q] \cup M) :
           \E granted \in SUBSET T, turn \in Turns(T) :
             HandOut(q, M, T, granted, turn)
    BY <2>0
  <2>2. T \in SUBSET Jobs
    BY QueuesAreNames DEF TypeOK
  <2> QED BY <2>1, <2>2, TypeHandOut
<1>4. ASSUME NEW j \in Jobs, NEW q \in Queues, NEW delayed \in BOOLEAN,
             NEW list \in Lists, Put(q, j, OnceEach(list), delayed)
      PROVE  TypeOK'
  BY <1>4, TypePut DEF OnceEach
<1>5. ASSUME NEW j \in Jobs, NEW q \in Queues, NEW delayed \in BOOLEAN,
             Put(q, j, throttles[j], delayed)
      PROVE  TypeOK'
  <2>1. throttles[j] \in [Throttles -> Nat]
    BY DEF TypeOK
  <2> QED BY <1>5, <2>1, TypePut
<1>6. ASSUME NEW j \in Jobs, Promote(j) PROVE TypeOK'
  BY <1>6 DEF TypeOK, Promote, States
<1>7. ASSUME NEW j \in Jobs, Complete(j) PROVE TypeOK'
  <2>1. LeaveAndRelease(j, TRUE, {})
    BY <1>7 DEF Complete
  <2> QED BY <1>7, <2>1, TypeRelease DEF TypeOK, Complete, States, QueueNames
<1>8. ASSUME NEW j \in Jobs, NEW q \in Queues, NEW delayed \in BOOLEAN,
             CompleteAndRequeue(j, q, delayed)
      PROVE  TypeOK'
  <2>1. LeaveAndRelease(j, TRUE, IF delayed THEN {} ELSE {q})
    BY <1>8 DEF CompleteAndRequeue
  <2>2. (IF delayed THEN {} ELSE {q}) \in SUBSET QueueNames
    BY QueuesAreNames
  <2>3. q \in QueueNames
    BY QueuesAreNames
  <2> QED BY <1>8, <2>1, <2>2, <2>3, TypeRelease
          DEF TypeOK, CompleteAndRequeue, States
<1>9. ASSUME NEW j \in Jobs, Fail(j) PROVE TypeOK'
  <2>1. LeaveAndRelease(j, TRUE, {})
    BY <1>9 DEF Fail
  <2> QED BY <1>9, <2>1, TypeRelease DEF TypeOK, Fail, States
<1>10. ASSUME NEW j \in Jobs, Exhaust(j) PROVE TypeOK'
  <2>1. LeaveAndRelease(j, FALSE, {})
    BY <1>10 DEF Exhaust
  <2> QED BY <1>10, <2>1, TypeRelease DEF TypeOK, Exhaust, States
<1>11. ASSUME NEW j \in Jobs, NEW delayed \in BOOLEAN, Retry(j, delayed)
       PROVE  TypeOK'
  <2>1. LeaveAndRelease(j, FALSE, IF delayed THEN {} ELSE {queue[j]})
    BY <1>11 DEF Retry
  <2>2. (IF delayed THEN {} ELSE {queue[j]}) \in SUBSET QueueNames
    BY DEF TypeOK
  <2> QED BY <1>11, <2>1, <2>2, TypeRelease DEF TypeOK, Retry, States
<1>12. ASSUME NEW j \in Jobs, Timeout(j) PROVE TypeOK'
  <2>1. LeaveAndRelease(j, FALSE, {queue[j]})
    BY <1>12 DEF Timeout
  <2>2. {queue[j]} \in SUBSET QueueNames
    BY DEF TypeOK
  <2> QED BY <1>12, <2>1, <2>2, TypeRelease DEF TypeOK, Timeout, States
<1>13. ASSUME NEW j \in Jobs, Cancel(j) PROVE TypeOK'
  <2>1. LeaveAndRelease(j, TRUE, {})
    BY <1>13 DEF Cancel
  <2> QED BY <1>13, <2>1, TypeRelease
          DEF TypeOK, Cancel, States, QueueNames, NoThrottles
<1>14. ASSUME NEW j \in Jobs, Forget(j) PROVE TypeOK'
  BY <1>14 DEF TypeOK, Forget, States, NoThrottles
<1>15. ASSUME NEW j \in Jobs, NEW q \in Queues, Unfail(j, q) PROVE TypeOK'
  BY <1>15, QueuesAreNames DEF TypeOK, Unfail, States
<1> QED BY <1>1, <1>2, <1>3, <1>4, <1>5, <1>6, <1>7, <1>8, <1>9, <1>10, <1>11,
           <1>12, <1>13, <1>14, <1>15 DEF Next

(* Every set holds what the scripts put into it.                           *)
THEOREM TypeCorrect == Spec => []TypeOK
BY TypeInit, TypeNext, PTL DEF Spec

-----------------------------------------------------------------------------
(* The inductive invariant.                                                *)

(* What a release of j does to the other jobs, and to j.                   *)
LEMMA Released ==
    ASSUME IInv, NEW j \in Jobs, NEW removed \in BOOLEAN,
           NEW to \in SUBSET QueueNames, LeaveAndRelease(j, removed, to),
           removed \/ state[j] = "running"
    PROVE  /\ \A t \in Throttles : /\ locks'[t] = locks[t] \ {j}
                                   /\ pending'[t] \subseteq pending[t] \ {j}
           /\ \A k \in Jobs, q \in QueueNames :
                k \in throttled'[q] <=> /\ queue[k] = q
                                        /\ \E t \in Throttles : k \in pending'[t]
           /\ \A k \in Jobs \ {j}, q \in QueueNames : k \in work'[q] =>
                /\ queue[k] = q
                /\ state[k] \in {"waiting", "throttled"}
                /\ \A t \in Throttles : k \notin pending'[t]
           /\ \A q \in QueueNames : j \in work'[q] => q \in to
<1> USE DEF IInv
<1> DEFINE left(q) == IF removed /\ q = queue[j] THEN {j} ELSE {}
<1>1. PICK woken \in Wakes(j) :
         /\ Release(j, woken)
         /\ work' = [q \in QueueNames |->
                       (work[q] \ left(q)) \cup WokenIn(q, woken)
                          \cup (IF q \in to THEN {j} ELSE {})]
         /\ throttled' = [q \in QueueNames |->
                       throttled[q] \ (left(q) \cup WokenIn(q, woken))]
  BY DEF LeaveAndRelease
<1>2. \A t \in Throttles : t \notin ThrottlesOf(j) => j \notin locks[t] /\ j \notin pending[t]
  BY DEF LocksAreExact, WaitersAreThrottled
<1>3. \A t \in Throttles : j \in locks[t] => j \notin pending[t]
  BY DEF LocksAreExact, WaitersAreThrottled
<1>4. \A t \in ThrottlesOf(j) : StillPending(j, t) = pending[t] \ {j}
  BY <1>3 DEF StillPending, ThrottlesOf
<1>5. \A t \in Throttles : WokenBy(t, woken) \subseteq pending[t] \ {j}
  <2>1. woken \subseteq Waiting(j)
    BY DEF Wakes
  <2>2. \A t \in Throttles, k \in Jobs : <<t, k>> \in woken =>
            t \in ThrottlesOf(j) /\ k \in StillPending(j, t)
    BY <2>1 DEF Waiting
  <2> QED BY <1>4, <2>2 DEF WokenBy
<1>6. \A t \in Throttles : /\ locks'[t] = locks[t] \ {j}
                           /\ pending'[t] = (pending[t] \ {j}) \ WokenBy(t, woken)
  <2> SUFFICES ASSUME NEW t \in Throttles
               PROVE  /\ locks'[t] = locks[t] \ {j}
                      /\ pending'[t] = (pending[t] \ {j}) \ WokenBy(t, woken)
    OBVIOUS
  <2>1. CASE t \in ThrottlesOf(j)
    BY <1>1, <1>4, <2>1 DEF Release
  <2>2. CASE t \notin ThrottlesOf(j)
    <3>1. WokenBy(t, woken) = {}
      <4>1. woken \subseteq Waiting(j)
        BY DEF Wakes
      <4> QED BY <2>2, <4>1 DEF WokenBy, Waiting
    <3> QED BY <1>1, <1>2, <2>2, <3>1 DEF Release
  <2> QED BY <2>1, <2>2
<1>7. \A k \in Jobs, q \in QueueNames :
         k \in WokenIn(q, woken) <=> /\ queue[k] = q
                                     /\ \E t \in Throttles : k \in WokenBy(t, woken)
  BY DEF WokenIn, WokenBy
<1>8. \A k \in Jobs : (\E t \in Throttles : k \in WokenBy(t, woken)) =>
         /\ k # j
         /\ state[k] = "throttled"
         /\ \A t \in Throttles : k \notin pending'[t]
  <2> SUFFICES ASSUME NEW k \in Jobs, NEW t \in Throttles, k \in WokenBy(t, woken)
               PROVE  /\ k # j
                      /\ state[k] = "throttled"
                      /\ \A u \in Throttles : k \notin pending'[u]
    OBVIOUS
  <2>1. k \in pending[t] /\ k # j
    BY <1>5
  <2>2. state[k] = "throttled" /\ \A u \in Throttles \ {t} : k \notin pending[u]
    BY <2>1 DEF WaitersAreThrottled
  <2> QED BY <1>6, <2>1, <2>2
<1>9. ASSUME NEW k \in Jobs, NEW q \in QueueNames
      PROVE  k \in throttled'[q] <=> /\ queue[k] = q
                                     /\ \E t \in Throttles : k \in pending'[t]
  <2>1. k \in throttled'[q] <=> /\ k \in throttled[q]
                                /\ k \notin left(q)
                                /\ k \notin WokenIn(q, woken)
    BY <1>1
  <2>2. k \in throttled[q] <=> /\ queue[k] = q
                               /\ \E t \in Throttles : k \in pending[t]
    BY DEF WaitersAreThrottled
  <2>3. CASE k = j
    <3>1. state[j] = "running" => \A t \in Throttles : j \notin pending[t]
      BY DEF WaitersAreThrottled
    <3>2. k \notin throttled'[q]
      BY <2>1, <2>2, <2>3, <3>1
    <3> QED BY <1>6, <2>3, <3>2
  <2>4. CASE k # j
    <3>1. k \notin left(q)
      BY <2>4
    <3> HIDE DEF left
    <3>2. ASSUME queue[k] = q
          PROVE  k \in throttled'[q] <=> \E t \in Throttles : k \in pending'[t]
      <4>1. CASE k \in WokenIn(q, woken)
        BY <1>7, <1>8, <2>1, <4>1
      <4>2. CASE k \notin WokenIn(q, woken)
        <5>1. \A t \in Throttles : k \notin WokenBy(t, woken)
          BY <1>7, <3>2, <4>2
        <5>2. \A t \in Throttles : k \in pending'[t] <=> k \in pending[t]
          BY <1>6, <2>4, <5>1
        <5> QED BY <2>1, <2>2, <3>1, <3>2, <4>2, <5>2
      <4> QED BY <4>1, <4>2
    <3> QED BY <2>1, <2>2, <3>2
  <2> QED BY <2>3, <2>4
<1>10. ASSUME NEW k \in Jobs \ {j}, NEW q \in QueueNames, k \in work'[q]
       PROVE  /\ queue[k] = q
              /\ state[k] \in {"waiting", "throttled"}
              /\ \A t \in Throttles : k \notin pending'[t]
  <2>1. k \in work[q] \/ k \in WokenIn(q, woken)
    BY <1>1, <1>10
  <2>2. CASE k \in work[q]
    BY <1>6, <2>2 DEF WorkIsFree
  <2>3. CASE k \in WokenIn(q, woken)
    BY <1>7, <1>8, <2>3
  <2> QED BY <2>1, <2>2, <2>3
<1>11. ASSUME NEW q \in QueueNames, j \in work'[q] PROVE q \in to
  <2>1. j \notin WokenIn(q, woken)
    BY <1>7, <1>8
  <2>2. j \in work[q] => removed /\ q = queue[j]
    BY DEF WorkIsFree
  <2>3. j \notin work[q] \ left(q)
    BY <2>2
  <2> QED BY <1>1, <1>11, <2>1, <2>3
<1> QED BY <1>6, <1>9, <1>10, <1>11

(* Whatever releases the locks of j and gives it a state in which it       *)
(* neither runs nor waits keeps the invariant.                             *)
LEMMA Ended ==
    ASSUME IInv, TypeOK', NEW j \in Jobs, NEW removed \in BOOLEAN,
           NEW to \in SUBSET QueueNames, LeaveAndRelease(j, removed, to),
           removed \/ state[j] = "running",
           state'[j] \notin {"running", "throttled"},
           to # {} => state'[j] = "waiting" /\ to = {queue'[j]},
           \A k \in Jobs \ {j} : /\ state'[k] = state[k]
                                 /\ queue'[k] = queue[k]
                                 /\ throttles'[k] = throttles[k]
    PROVE  IInv'
<1>1. \A t \in Throttles : /\ locks'[t] = locks[t] \ {j}
                           /\ pending'[t] \subseteq pending[t] \ {j}
  BY Released
<1>2. \A k \in Jobs, q \in QueueNames :
         k \in throttled'[q] <=> /\ queue[k] = q
                                 /\ \E t \in Throttles : k \in pending'[t]
  BY Released
<1>3. \A k \in Jobs \ {j}, q \in QueueNames : k \in work'[q] =>
         /\ queue[k] = q
         /\ state[k] \in {"waiting", "throttled"}
         /\ \A t \in Throttles : k \notin pending'[t]
  BY Released
<1>4. \A q \in QueueNames : j \in work'[q] => q \in to
  BY Released
<1>5. \A k \in Jobs \ {j}, t \in Throttles :
         t \in ThrottlesOf(k)' <=> t \in ThrottlesOf(k)
  BY DEF ThrottlesOf
<1>6. LocksAreExact'
  BY <1>1, <1>5 DEF IInv, LocksAreExact
<1>7. WaitersAreThrottled'
  <2>1. ASSUME NEW k \in Jobs, NEW q \in QueueNames
        PROVE  k \in throttled'[q] <=> /\ queue'[k] = q
                                       /\ \E t \in Throttles : k \in pending'[t]
    BY <1>1, <1>2
  <2>2. ASSUME NEW k \in Jobs, NEW t \in Throttles, k \in pending'[t]
        PROVE  /\ state'[k] = "throttled"
               /\ t \in ThrottlesOf(k)'
               /\ \A u \in Throttles \ {t} : k \notin pending'[u]
    <3>1. k # j /\ k \in pending[t]
      BY <1>1, <2>2
    <3>2. /\ state[k] = "throttled"
          /\ t \in ThrottlesOf(k)
          /\ \A u \in Throttles \ {t} : k \notin pending[u]
      BY <3>1 DEF IInv, WaitersAreThrottled
    <3> QED BY <1>1, <1>5, <3>1, <3>2
  <2> QED BY <2>1, <2>2 DEF WaitersAreThrottled
<1>8. WorkIsFree'
  <2> SUFFICES ASSUME NEW q \in QueueNames, NEW k \in work'[q]
               PROVE  /\ queue'[k] = q
                      /\ state'[k] \in {"waiting", "throttled"}
                      /\ \A t \in Throttles : k \notin pending'[t]
    BY DEF WorkIsFree
  <2>1. k \in Jobs
    BY DEF TypeOK
  <2>2. CASE k = j
    BY <1>1, <1>4, <2>2
  <2>3. CASE k # j
    BY <1>3, <2>1, <2>3
  <2> QED BY <2>2, <2>3
<1> QED BY <1>6, <1>7, <1>8 DEF IInv

LEMMA IInit == Init => IInv
<1> SUFFICES ASSUME Init PROVE IInv
  OBVIOUS
<1>1. LocksAreExact
  BY DEF Init, LocksAreExact
<1>2. WaitersAreThrottled
  BY DEF Init, WaitersAreThrottled
<1>3. WorkIsFree
  BY DEF Init, WorkIsFree
<1> QED BY TypeInit, <1>1, <1>2, <1>3 DEF IInv

(* A put of a job at rest: it holds nothing, and what it will wait for is  *)
(* decided here.                                                           *)
LEMMA PutKeeps ==
    ASSUME IInv, AtRestOnly, NEW q \in Queues, NEW j \in Jobs,
           NEW given \in [Throttles -> Nat], NEW delayed \in BOOLEAN,
           Put(q, j, given, delayed)
    PROVE  IInv'
<1> DEFINE full    == {t \in ThrottlesOf(j)' : ~ Room(t, locks[t])}
           blocked == ~ delayed /\ full # {}
           joins(r) == IF r = q /\ ~ delayed THEN {j} ELSE {}
           left(r) == IF r = queue[j] THEN {j} ELSE {}
<1>0. TypeOK /\ TypeOK'
  BY TypePut DEF IInv
<1>1. state[j] \notin {"running", "throttled"}
  BY DEF Put, AtRestOnly
<1>2. \A t \in Throttles : j \notin locks[t] /\ j \notin pending[t]
  BY <1>1 DEF IInv, LocksAreExact, WaitersAreThrottled
<1>3. /\ \A k \in Jobs \ {j} : /\ state'[k] = state[k]
                               /\ queue'[k] = queue[k]
                               /\ throttles'[k] = throttles[k]
      /\ queue'[j] = q
      /\ locks' = locks
  BY <1>0 DEF Put, TypeOK
<1>4. \A k \in Jobs \ {j}, t \in Throttles :
         t \in ThrottlesOf(k)' <=> t \in ThrottlesOf(k)
  BY <1>3 DEF ThrottlesOf
<1>5. state'[j] = IF delayed THEN "scheduled" ELSE IF blocked THEN "throttled"
                  ELSE "waiting"
  BY <1>0 DEF Put, TypeOK
<1>6. \A r \in QueueNames :
         /\ work'[r] = (work[r] \ left(r)) \cup (IF blocked THEN {} ELSE joins(r))
         /\ throttled'[r] = (throttled[r] \ left(r)) \cup
                               (IF blocked THEN joins(r) ELSE {})
  BY DEF Put
<1>7. IF blocked THEN \E t \in full : pending' = [pending EXCEPT ![t] = @ \cup {j}]
                 ELSE pending' = pending
  BY DEF Put
<1>8. full \subseteq Throttles /\ full \subseteq ThrottlesOf(j)'
  BY DEF ThrottlesOf
<1>9. q \in QueueNames
  BY QueuesAreNames
<1> HIDE DEF full, blocked
<1>10. LocksAreExact'
  <2> SUFFICES ASSUME NEW t \in Throttles, NEW k \in Jobs
               PROVE  k \in locks'[t] <=> state'[k] = "running" /\ t \in ThrottlesOf(k)'
    BY DEF LocksAreExact
  <2>1. CASE k = j
    BY <1>2, <1>3, <1>5, <2>1
  <2>2. CASE k # j
    BY <1>3, <1>4, <2>2 DEF IInv, LocksAreExact
  <2> QED BY <2>1, <2>2
<1>11. WaitersAreThrottled' /\ WorkIsFree'
  <2>1. /\ \A k \in Jobs \ {j}, t \in Throttles : k \in pending'[t] <=> k \in pending[t]
        /\ \A k \in Jobs \ {j}, r \in QueueNames :
             /\ k \in throttled'[r] <=> k \in throttled[r]
             /\ k \in work'[r] => k \in work[r]
    <3>1. ASSUME NEW k \in Jobs \ {j}, NEW t \in Throttles
          PROVE  k \in pending'[t] <=> k \in pending[t]
      <4>1. CASE ~ blocked
        BY <1>7, <4>1
      <4>2. CASE blocked
        <5>1. PICK u \in full : pending' = [pending EXCEPT ![u] = @ \cup {j}]
          BY <1>7, <4>2
        <5> QED BY <1>0, <1>8, <5>1 DEF TypeOK
      <4> QED BY <4>1, <4>2
    <3> QED BY <1>6, <3>1
  <2>2. \A r \in QueueNames : /\ j \in throttled'[r] <=> blocked /\ r = q
                              /\ j \in work'[r] => r = q /\ ~ blocked /\ ~ delayed
    <3>1. \A r \in QueueNames : j \notin throttled[r]
      BY <1>2 DEF IInv, WaitersAreThrottled
    <3>2. \A r \in QueueNames : j \in work[r] => r = queue[j]
      BY DEF IInv, WorkIsFree
    <3>3. blocked => ~ delayed
      BY DEF blocked
    <3> QED BY <1>6, <3>1, <3>2, <3>3
  <2>3. CASE ~ blocked
    <3>1. pending' = pending
      BY <1>7, <2>3
    <3>2. WaitersAreThrottled'
      <4> SUFFICES ASSUME NEW k \in Jobs
                   PROVE  /\ \A r \in QueueNames :
                               k \in throttled'[r] <=>
                                 /\ queue'[k] = r
                                 /\ \E t \in Throttles : k \in pending'[t]
                          /\ \A t \in Throttles : k \in pending'[t] =>
                               /\ state'[k] = "throttled"
                               /\ t \in ThrottlesOf(k)'
                               /\ \A u \in Throttles \ {t} : k \notin pending'[u]
        BY DEF WaitersAreThrottled
      <4>1. CASE k = j
        BY <1>2, <2>2, <2>3, <3>1, <4>1
      <4>2. CASE k # j
        BY <1>3, <1>4, <2>1, <3>1, <4>2 DEF IInv, WaitersAreThrottled
      <4> QED BY <4>1, <4>2
    <3>3. WorkIsFree'
      <4> SUFFICES ASSUME NEW r \in QueueNames, NEW k \in work'[r]
                   PROVE  /\ queue'[k] = r
                          /\ state'[k] \in {"waiting", "throttled"}
                          /\ \A t \in Throttles : k \notin pending'[t]
        BY DEF WorkIsFree
      <4>1. k \in Jobs
        BY <1>0 DEF TypeOK
      <4>2. CASE k = j
        BY <1>2, <1>3, <1>5, <2>2, <2>3, <3>1, <4>2
      <4>3. CASE k # j
        BY <1>3, <2>1, <3>1, <4>1, <4>3 DEF IInv, WorkIsFree
      <4> QED BY <4>2, <4>3
    <3> QED BY <3>2, <3>3
  <2>4. CASE blocked
    <3>1. PICK u \in full : pending' = [pending EXCEPT ![u] = @ \cup {j}]
      BY <1>7, <2>4
    <3>2. u \in Throttles /\ u \in ThrottlesOf(j)'
      BY <1>8
    <3>3. \A t \in Throttles : j \in pending'[t] <=> t = u
      BY <1>0, <1>2, <3>1, <3>2 DEF TypeOK
    <3>4. state'[j] = "throttled"
      <4>1. ~ delayed
        BY <2>4 DEF blocked
      <4> QED BY <1>5, <2>4, <4>1
    <3>5. WaitersAreThrottled'
      <4> SUFFICES ASSUME NEW k \in Jobs
                   PROVE  /\ \A r \in QueueNames :
                               k \in throttled'[r] <=>
                                 /\ queue'[k] = r
                                 /\ \E t \in Throttles : k \in pending'[t]
                          /\ \A t \in Throttles : k \in pending'[t] =>
                               /\ state'[k] = "throttled"
                               /\ t \in ThrottlesOf(k)'
                               /\ \A w \in Throttles \ {t} : k \notin pending'[w]
        BY DEF WaitersAreThrottled
      <4>1. CASE k = j
        BY <1>3, <2>2, <2>4, <3>2, <3>3, <3>4, <4>1
      <4>2. CASE k # j
        BY <1>3, <1>4, <2>1, <4>2 DEF IInv, WaitersAreThrottled
      <4> QED BY <4>1, <4>2
    <3>6. WorkIsFree'
      <4> SUFFICES ASSUME NEW r \in QueueNames, NEW k \in work'[r]
                   PROVE  /\ queue'[k] = r
                          /\ state'[k] \in {"waiting", "throttled"}
                          /\ \A t \in Throttles : k \notin pending'[t]
        BY DEF WorkIsFree
      <4>1. k \in Jobs /\ k # j
        BY <1>0, <2>2, <2>4 DEF TypeOK
      <4> QED BY <1>3, <2>1, <4>1 DEF IInv, WorkIsFree
    <3> QED BY <3>5, <3>6
  <2> QED BY <2>3, <2>4
<1> QED BY <1>0, <1>10, <1>11 DEF IInv

(* A pop: those it hands out hold their locks, those it refuses wait.      *)
LEMMA HandOutKeeps ==
    ASSUME IInv, NEW q \in Queues,
           NEW M \in SUBSET {j \in Jobs : queue[j] = q /\ state[j] = "scheduled"},
           NEW T \in SUBSET (work[q] \cup M), NEW granted \in SUBSET T, NEW turn,
           HandOut(q, M, T, granted, turn)
    PROVE  IInv'
<1> DEFINE refused == T \ granted
<1>0. /\ TypeOK /\ q \in QueueNames /\ M \in SUBSET Jobs /\ T \in SUBSET Jobs
      /\ TypeOK'
  <2>1. TypeOK /\ q \in QueueNames /\ M \in SUBSET Jobs /\ T \in SUBSET Jobs
    BY QueuesAreNames DEF IInv, TypeOK
  <2> QED BY <2>1, TypeHandOut
<1>1. /\ \A j \in T : queue[j] = q /\ state[j] \in {"waiting", "throttled", "scheduled"}
      /\ \A j \in T \cup M, t \in Throttles : j \notin pending[t]
      /\ \A j \in T \cup M, t \in Throttles : j \notin locks[t]
  <2>1. \A j \in T : queue[j] = q /\ state[j] \in {"waiting", "throttled", "scheduled"}
    BY <1>0 DEF IInv, WorkIsFree
  <2>2. \A j \in M : state[j] = "scheduled"
    OBVIOUS
  <2>3. \A j \in T \cup M, t \in Throttles : j \notin locks[t]
    BY <1>0, <2>1, <2>2 DEF IInv, LocksAreExact
  <2>4. \A j \in M, t \in Throttles : j \notin pending[t]
    BY <1>0, <2>2 DEF IInv, WaitersAreThrottled
  <2>5. \A j \in T, t \in Throttles : j \notin pending[t]
    BY <1>0, <2>4 DEF IInv, WorkIsFree
  <2> QED BY <2>1, <2>3, <2>4, <2>5
<1>2. \A j \in Jobs : state'[j] = IF j \in granted THEN "running"
                                  ELSE IF j \in refused THEN "throttled"
                                  ELSE IF j \in M THEN "waiting" ELSE state[j]
  BY <1>1 DEF HandOut
<1>3. /\ queue' = queue /\ throttles' = throttles
      /\ \A t \in Throttles :
           locks'[t] = locks[t] \cup {j \in granted : t \in ThrottlesOf(j)}
  BY DEF HandOut
<1>4. PICK on \in [refused -> Throttles] :
         /\ \A j \in refused : on[j] \in ThrottlesOf(j)
         /\ pending' = [t \in Throttles |->
                          pending[t] \cup {j \in refused : on[j] = t}]
  BY DEF HandOut
<1>5. \A r \in QueueNames :
         /\ work'[r] = IF r = q THEN (work[q] \cup M) \ T ELSE work[r]
         /\ throttled'[r] = IF r = q THEN throttled[q] \cup refused ELSE throttled[r]
  BY <1>0 DEF HandOut, TypeOK
<1>6. \A j : ThrottlesOf(j)' = ThrottlesOf(j)
  BY <1>3 DEF ThrottlesOf
<1>7. LocksAreExact'
  <2> SUFFICES ASSUME NEW t \in Throttles, NEW j \in Jobs
               PROVE  j \in locks'[t] <=> state'[j] = "running" /\ t \in ThrottlesOf(j)
    BY <1>6 DEF LocksAreExact
  <2>1. CASE j \in granted
    BY <1>1, <1>2, <1>3, <2>1
  <2>2. CASE j \notin granted
    <3>1. state'[j] = "running" <=> state[j] = "running"
      <4>1. j \in T \cup M => state[j] # "running"
        BY <1>1
      <4> QED BY <1>2, <2>2, <4>1
    <3> QED BY <1>3, <2>2, <3>1 DEF IInv, LocksAreExact
  <2> QED BY <2>1, <2>2
<1>8. WaitersAreThrottled'
  <2>1. ASSUME NEW j \in Jobs, NEW r \in QueueNames
        PROVE  j \in throttled'[r] <=> /\ queue'[j] = r
                                       /\ \E t \in Throttles : j \in pending'[t]
    <3>1. CASE j \in refused
      <4>1. j \in pending'[on[j]] /\ on[j] \in Throttles
        BY <1>4, <3>1
      <4>2. queue[j] = q
        BY <1>1, <3>1
      <4>3. r # q => j \notin throttled[r]
        BY <4>2 DEF IInv, WaitersAreThrottled
      <4> QED BY <1>3, <1>5, <3>1, <4>1, <4>2, <4>3
    <3>2. CASE j \notin refused
      <4>1. \A t \in Throttles : j \in pending'[t] <=> j \in pending[t]
        BY <1>4, <3>2
      <4>2. j \in throttled'[r] <=> j \in throttled[r]
        BY <1>5, <3>2
      <4> QED BY <1>3, <4>1, <4>2 DEF IInv, WaitersAreThrottled
    <3> QED BY <3>1, <3>2
  <2>2. ASSUME NEW j \in Jobs, NEW t \in Throttles, j \in pending'[t]
        PROVE  /\ state'[j] = "throttled"
               /\ t \in ThrottlesOf(j)'
               /\ \A u \in Throttles \ {t} : j \notin pending'[u]
    <3>1. CASE j \in refused
      <4>1. \A u \in Throttles : j \in pending'[u] <=> u = on[j]
        BY <1>1, <1>4, <3>1
      <4>2. state'[j] = "throttled"
        BY <1>2, <3>1
      <4> QED BY <1>4, <1>6, <2>2, <3>1, <4>1, <4>2
    <3>2. CASE j \notin refused
      <4>1. \A u \in Throttles : j \in pending'[u] <=> j \in pending[u]
        BY <1>4, <3>2
      <4>2. j \notin T \cup M
        BY <1>1, <2>2, <4>1
      <4>3. state'[j] = state[j]
        BY <1>2, <4>2
      <4> QED BY <1>6, <2>2, <4>1, <4>3 DEF IInv, WaitersAreThrottled
    <3> QED BY <3>1, <3>2
  <2> QED BY <2>1, <2>2 DEF WaitersAreThrottled
<1>9. WorkIsFree'
  <2> SUFFICES ASSUME NEW r \in QueueNames, NEW j \in work'[r]
               PROVE  /\ queue[j] = r
                      /\ state'[j] \in {"waiting", "throttled"}
                      /\ \A t \in Throttles : j \notin pending'[t]
    BY <1>3 DEF WorkIsFree
  <2>0. j \in Jobs
    BY <1>0 DEF TypeOK
  <2>1. j \notin T
    <3>1. CASE r = q
      BY <1>5, <3>1
    <3>2. CASE r # q
      <4>1. queue[j] = r
        BY <1>5, <3>2 DEF IInv, WorkIsFree
      <4> QED BY <1>1, <3>2, <4>1
    <3> QED BY <3>1, <3>2
  <2>2. \A t \in Throttles : j \in pending'[t] <=> j \in pending[t]
    BY <1>4, <2>1
  <2>3. CASE j \in M
    <3>1. r = q \/ j \in work[r]
      BY <1>5
    <3>2. queue[j] = q /\ r = q
      BY <2>3, <3>1 DEF IInv, WorkIsFree
    <3> QED BY <1>1, <1>2, <2>0, <2>1, <2>2, <2>3, <3>2
  <2>4. CASE j \notin M
    <3>1. j \in work[r]
      BY <1>5, <2>4
    <3>2. state'[j] = state[j]
      BY <1>2, <2>0, <2>1, <2>4
    <3> QED BY <2>2, <3>1, <3>2 DEF IInv, WorkIsFree
  <2> QED BY <2>3, <2>4
<1> QED BY <1>0, <1>7, <1>8, <1>9 DEF IInv

(* A scheduled or failed job, which neither runs nor waits, becomes work.  *)
LEMMA BecomesWork ==
    ASSUME IInv, TypeOK', NEW j \in Jobs, NEW q \in QueueNames,
           state[j] \in {"scheduled", "failed"},
           state' = [state EXCEPT ![j] = "waiting"],
           queue'[j] = q, \A k \in Jobs \ {j} : queue'[k] = queue[k],
           work' = [work EXCEPT ![q] = @ \cup {j}],
           UNCHANGED <<throttles, throttled, maximum, locks, pending>>
    PROVE  IInv'
<1>0. TypeOK
  BY DEF IInv
<1>1. \A t \in Throttles : j \notin pending[t] /\ j \notin locks[t]
  BY DEF IInv, WaitersAreThrottled, LocksAreExact
<1>2. \A r \in QueueNames : j \notin throttled[r] /\ j \notin work[r]
  BY <1>1 DEF IInv, WaitersAreThrottled, WorkIsFree
<1>3. /\ state'[j] = "waiting"
      /\ \A k \in Jobs \ {j} : state'[k] = state[k]
      /\ \A k \in Jobs : ThrottlesOf(k)' = ThrottlesOf(k)
  BY <1>0 DEF TypeOK, ThrottlesOf
<1>4. LocksAreExact'
  BY <1>1, <1>3 DEF IInv, LocksAreExact
<1>5. WaitersAreThrottled'
  <2> SUFFICES ASSUME NEW k \in Jobs
               PROVE  /\ \A r \in QueueNames :
                           k \in throttled[r] <=> /\ queue'[k] = r
                                                  /\ \E t \in Throttles : k \in pending[t]
                      /\ \A t \in Throttles : k \in pending[t] =>
                           /\ state'[k] = "throttled"
                           /\ t \in ThrottlesOf(k)
                           /\ \A u \in Throttles \ {t} : k \notin pending[u]
    BY <1>3 DEF WaitersAreThrottled
  <2>1. CASE k = j
    BY <1>1, <1>2, <2>1
  <2>2. CASE k # j
    BY <1>3, <2>2 DEF IInv, WaitersAreThrottled
  <2> QED BY <2>1, <2>2
<1>6. WorkIsFree'
  <2> SUFFICES ASSUME NEW r \in QueueNames, NEW k \in work'[r]
               PROVE  /\ queue'[k] = r
                      /\ state'[k] \in {"waiting", "throttled"}
                      /\ \A t \in Throttles : k \notin pending[t]
    BY DEF WorkIsFree
  <2>1. k \in Jobs /\ (k = j => r = q) /\ (k # j => k \in work[r])
    BY <1>0, <1>2 DEF TypeOK
  <2>2. CASE k = j
    BY <1>1, <1>3, <2>1, <2>2
  <2>3. CASE k # j
    BY <1>3, <2>1, <2>3 DEF IInv, WorkIsFree
  <2> QED BY <2>2, <2>3
<1> QED BY <1>4, <1>5, <1>6 DEF IInv

(* Every step keeps the invariant.                                         *)
LEMMA IStep == AtRestOnly /\ IInv /\ [Next]_vars => IInv'
<1> SUFFICES ASSUME AtRestOnly, IInv, [Next]_vars PROVE IInv'
  OBVIOUS
<1>0. TypeOK /\ TypeOK'
  BY TypeNext DEF IInv
<1>1. CASE UNCHANGED vars
  BY <1>1 DEF vars, IInv, TypeOK, LocksAreExact, WaitersAreThrottled, WorkIsFree,
              ThrottlesOf
<1>2. ASSUME NEW t \in Throttles, NEW n \in Maxima, SetMaximum(t, n) PROVE IInv'
  BY <1>0, <1>2 DEF SetMaximum, IInv, LocksAreExact, WaitersAreThrottled,
                    WorkIsFree, ThrottlesOf
<1>3. ASSUME NEW q \in Queues, NEW limit \in Limits, Pop(q, limit) PROVE IInv'
  <2>0. PICK M \in SUBSET {j \in Jobs : queue[j] = q /\ state[j] = "scheduled"} :
           \E T \in SUBSET (work[q] \cup M) : \E granted \in SUBSET T, turn \in Turns(T) :
             HandOut(q, M, T, granted, turn)
    BY <1>0, <1>3, PopUnfolds
  <2>1. PICK T \in SUBSET (work[q] \cup M) :
           \E granted \in SUBSET T, turn \in Turns(T) :
             HandOut(q, M, T, granted, turn)
    BY <2>0
  <2> QED BY <2>1, HandOutKeeps
<1>4. ASSUME NEW j \in Jobs, NEW q \in Queues, NEW delayed \in BOOLEAN,
             NEW list \in Lists, Put(q, j, OnceEach(list), delayed)
      PROVE  IInv'
  BY <1>4, PutKeeps DEF OnceEach
<1>5. ASSUME NEW j \in Jobs, NEW q \in Queues, NEW delayed \in BOOLEAN,
             Put(q, j, throttles[j], delayed)
      PROVE  IInv'
  <2>1. throttles[j] \in [Throttles -> Nat]
    BY <1>0 DEF TypeOK
  <2> QED BY <1>5, <2>1, PutKeeps
<1>6. ASSUME NEW j \in Jobs, Promote(j) PROVE IInv'
  <2>1. queue[j] \in QueueNames
    BY <1>0 DEF TypeOK
  <2> QED BY <1>0, <1>6, <2>1, BecomesWork DEF Promote
<1>7. ASSUME NEW j \in Jobs, Complete(j) PROVE IInv'
  <2>1. LeaveAndRelease(j, TRUE, {})
    BY <1>7 DEF Complete
  <2>2. /\ state'[j] = "complete"
        /\ \A k \in Jobs \ {j} : /\ state'[k] = state[k]
                                 /\ queue'[k] = queue[k]
                                 /\ throttles'[k] = throttles[k]
    BY <1>0, <1>7 DEF Complete, TypeOK
  <2> QED BY <1>0, <2>1, <2>2, Ended
<1>8. ASSUME NEW j \in Jobs, NEW q \in Queues, NEW delayed \in BOOLEAN,
             CompleteAndRequeue(j, q, delayed)
      PROVE  IInv'
  <2> DEFINE to == IF delayed THEN {} ELSE {q}
  <2>1. LeaveAndRelease(j, TRUE, to)
    BY <1>8 DEF CompleteAndRequeue
  <2>2. /\ state'[j] = IF delayed THEN "scheduled" ELSE "waiting"
        /\ queue'[j] = q
        /\ \A k \in Jobs \ {j} : /\ state'[k] = state[k]
                                 /\ queue'[k] = queue[k]
                                 /\ throttles'[k] = throttles[k]
    BY <1>0, <1>8 DEF CompleteAndRequeue, TypeOK
  <2>3. to \in SUBSET QueueNames /\ (to # {} => state'[j] = "waiting" /\ to = {queue'[j]})
    BY <2>2, QueuesAreNames
  <2>4. state'[j] \notin {"running", "throttled"}
    BY <2>2
  <2> QED BY <1>0, <2>1, <2>2, <2>3, <2>4, Ended
<1>9. ASSUME NEW j \in Jobs, Fail(j) PROVE IInv'
  <2>1. LeaveAndRelease(j, TRUE, {})
    BY <1>9 DEF Fail
  <2>2. /\ state'[j] = "failed"
        /\ \A k \in Jobs \ {j} : /\ state'[k] = state[k]
                                 /\ queue'[k] = queue[k]
                                 /\ throttles'[k] = throttles[k]
    BY <1>0, <1>9 DEF Fail, TypeOK
  <2> QED BY <1>0, <2>1, <2>2, Ended
<1>10. ASSUME NEW j \in Jobs, Exhaust(j) PROVE IInv'
  <2>1. LeaveAndRelease(j, FALSE, {}) /\ state[j] = "running"
    BY <1>10 DEF Exhaust
  <2>2. /\ state'[j] = "failed"
        /\ \A k \in Jobs \ {j} : /\ state'[k] = state[k]
                                 /\ queue'[k] = queue[k]
                                 /\ throttles'[k] = throttles[k]
    BY <1>0, <1>10 DEF Exhaust, TypeOK
  <2> QED BY <1>0, <2>1, <2>2, Ended
<1>11. ASSUME NEW j \in Jobs, NEW delayed \in BOOLEAN, Retry(j, delayed)
       PROVE  IInv'
  <2> DEFINE to == IF delayed THEN {} ELSE {queue[j]}
  <2>1. LeaveAndRelease(j, FALSE, to) /\ state[j] = "running"
    BY <1>11 DEF Retry
  <2>2. /\ state'[j] = IF delayed THEN "scheduled" ELSE "waiting"
        /\ queue'[j] = queue[j]
        /\ \A k \in Jobs \ {j} : /\ state'[k] = state[k]
                                 /\ queue'[k] = queue[k]
                                 /\ throttles'[k] = throttles[k]
    BY <1>0, <1>11 DEF Retry, TypeOK
  <2>3. to \in SUBSET QueueNames /\ (to # {} => state'[j] = "waiting" /\ to = {queue'[j]})
    BY <1>0, <2>2 DEF TypeOK
  <2>4. state'[j] \notin {"running", "throttled"}
    BY <2>2
  <2> QED BY <1>0, <2>1, <2>2, <2>3, <2>4, Ended
<1>12. ASSUME NEW j \in Jobs, Timeout(j) PROVE IInv'
  <2>1. LeaveAndRelease(j, FALSE, {queue[j]}) /\ state[j] = "running"
    BY <1>12 DEF Timeout
  <2>2. /\ state'[j] = "waiting"
        /\ queue'[j] = queue[j]
        /\ \A k \in Jobs \ {j} : /\ state'[k] = state[k]
                                 /\ queue'[k] = queue[k]
                                 /\ throttles'[k] = throttles[k]
    BY <1>0, <1>12 DEF Timeout, TypeOK
  <2>3. {queue[j]} \in SUBSET QueueNames
    BY <1>0 DEF TypeOK
  <2> QED BY <1>0, <2>1, <2>2, <2>3, Ended
<1>13. ASSUME NEW j \in Jobs, Cancel(j) PROVE IInv'
  <2>1. LeaveAndRelease(j, TRUE, {})
    BY <1>13 DEF Cancel
  <2>2. /\ state'[j] = "absent"
        /\ \A k \in Jobs \ {j} : /\ state'[k] = state[k]
                                 /\ queue'[k] = queue[k]
                                 /\ throttles'[k] = throttles[k]
    BY <1>0, <1>13 DEF Cancel, TypeOK
  <2> QED BY <1>0, <2>1, <2>2, Ended
<1>14. ASSUME NEW j \in Jobs, Forget(j) PROVE IInv'
  <2>1. /\ state[j] = "complete" /\ state'[j] = "absent"
        /\ \A k \in Jobs \ {j} : state'[k] = state[k] /\ throttles'[k] = throttles[k]
        /\ UNCHANGED <<queue, work, throttled, maximum, locks, pending>>
    BY <1>0, <1>14 DEF Forget, TypeOK
  <2>2. \A t \in Throttles : j \notin pending[t] /\ j \notin locks[t]
    BY <2>1 DEF IInv, WaitersAreThrottled, LocksAreExact
  <2>3. \A k \in Jobs \ {j}, t \in Throttles :
           t \in ThrottlesOf(k)' <=> t \in ThrottlesOf(k)
    BY <2>1 DEF ThrottlesOf
  <2>4. LocksAreExact'
    BY <2>1, <2>2, <2>3 DEF IInv, LocksAreExact
  <2>5. WaitersAreThrottled'
    BY <2>1, <2>2, <2>3 DEF IInv, WaitersAreThrottled
  <2>6. WorkIsFree'
    <3>1. \A r \in QueueNames : j \notin work[r]
      BY <2>1 DEF IInv, WorkIsFree
    <3>2. \A r \in QueueNames : \A k \in work'[r] : k \in Jobs \ {j} /\ k \in work[r]
      BY <1>0, <2>1, <3>1 DEF TypeOK
    <3>3. ASSUME NEW r \in QueueNames, NEW k \in work'[r]
          PROVE  /\ queue'[k] = r /\ state'[k] \in {"waiting", "throttled"}
                 /\ \A t \in Throttles : k \notin pending'[t]
      BY <2>1, <3>2, <3>3 DEF IInv, WorkIsFree
    <3> QED BY <3>3 DEF WorkIsFree
  <2> QED BY <1>0, <2>4, <2>5, <2>6 DEF IInv
<1>15. ASSUME NEW j \in Jobs, NEW q \in Queues, Unfail(j, q) PROVE IInv'
  <2>1. q \in QueueNames /\ queue'[j] = q /\ \A k \in Jobs \ {j} : queue'[k] = queue[k]
    BY <1>0, <1>15, QueuesAreNames DEF Unfail, TypeOK
  <2> QED BY <1>0, <1>15, <2>1, BecomesWork DEF Unfail
<1> QED BY <1>1, <1>2, <1>3, <1>4, <1>5, <1>6, <1>7, <1>8, <1>9, <1>10, <1>11,
           <1>12, <1>13, <1>14, <1>15 DEF Next

(* As long as jobs are put only when they neither run nor wait for a       *)
(* throttle, every operation keeps the four parts of the invariant.        *)
THEOREM Inductive == ASSUME AtRestOnly PROVE Spec => []IInv
BY IInit, IStep, PTL DEF Spec

(* No lock is leaked, and none is given up while its job runs.             *)
THEOREM LocksExact == ASSUME AtRestOnly PROVE Spec => []LocksAreExact
<1>1. IInv => LocksAreExact
  BY DEF IInv
<1> QED BY Inductive, <1>1, PTL

(* Those who wait for a throttle are those in the throttled sets.          *)
THEOREM WaitersInPlace == ASSUME AtRestOnly PROVE Spec => []WaitersAreThrottled
<1>1. IInv => WaitersAreThrottled
  BY DEF IInv
<1> QED BY Inductive, <1>1, PTL

-----------------------------------------------------------------------------
(* Admission.                                                              *)

(* Of finitely many jobs with turns, one is the last.                      *)
LEMMA LastTurn ==
    ASSUME NEW n \in Nat, NEW turn, NEW G, G # {}, \A j \in G : turn[j] \in 1 .. n
    PROVE  \E last \in G : \A j \in G : turn[j] <= turn[last]
<1> DEFINE Left == {n - turn[j] : j \in G}
<1>1. Left \subseteq Nat /\ Left # {}
  OBVIOUS
<1>2. PICK least \in Left : \A x \in Left : ~ (<<x, least>> \in OpToRel(<, Nat))
  BY <1>1, NatLessThanWellFounded, WFMin, Zenon
<1>3. \A x \in Left : ~ (x < least)
  BY <1>1, <1>2, Zenon DEF OpToRel
<1>4. PICK last \in G : least = n - turn[last]
  OBVIOUS
<1>5. ASSUME NEW j \in G PROVE turn[j] <= turn[last]
  <2>1. n - turn[j] \in Left
    OBVIOUS
  <2>2. ~ (n - turn[j] < n - turn[last])
    BY <1>3, <1>4, <2>1
  <2> QED BY <2>2
<1> QED BY <1>5

(* The last one granted a lock in a pop found room for itself beside all   *)
(* others, those granted in the same pop included.                         *)
LEMMA AdmissionOfPop ==
    ASSUME TypeOK, FiniteJobs, NEW q \in Queues, NEW M \in SUBSET Jobs,
           NEW T \in SUBSET Jobs, NEW granted \in SUBSET T, NEW turn \in Turns(T),
           HandOut(q, M, T, granted, turn), NEW t \in Throttles,
           locks'[t] \ locks[t] # {}, maximum[t] # 0
    PROVE  Cardinality(locks'[t]) <= maximum[t]
<1> DEFINE G == {j \in granted : t \in ThrottlesOf(j)}
           held(j) == locks[t] \cup {k \in {i \in granted : turn[i] < turn[j]} :
                                       t \in ThrottlesOf(k)}
<1>1. locks'[t] = locks[t] \cup G /\ G # {}
  BY DEF HandOut
<1>2. Cardinality(T) \in Nat
  BY FS_Subset, FS_CardinalityType DEF FiniteJobs
<1>3. \A j \in T : turn[j] \in 1 .. Cardinality(T)
  BY DEF Turns
<1>4. PICK last \in G : \A j \in G : turn[j] <= turn[last]
  <2>1. \A j \in G : turn[j] \in 1 .. Cardinality(T)
    BY <1>3
  <2> QED BY <1>1, <1>2, <2>1, LastTurn
<1>5. Room(t, held(last))
  <2>1. last \in granted /\ t \in ThrottlesOf(last)
    BY <1>4
  <2>2. \A j \in granted : {u \in ThrottlesOf(j) :
           ~ Room(u, locks[u] \cup {k \in {i \in granted : turn[i] < turn[j]} :
                                      u \in ThrottlesOf(k)})} = {}
    BY DEF HandOut
  <2> QED BY <2>1, <2>2
<1>6. locks'[t] = held(last) \cup {last}
  <2>1. ASSUME NEW j \in G PROVE j = last \/ turn[j] < turn[last]
    <3>1. turn[j] \in 1 .. Cardinality(T) /\ turn[last] \in 1 .. Cardinality(T)
      BY <1>3, <1>4
    <3>2. turn[j] = turn[last] => j = last
      BY <1>4 DEF Turns
    <3> QED BY <1>2, <1>4, <3>1, <3>2
  <2> QED BY <1>1, <1>4, <2>1
<1>7. PICK H : H = held(last)
  OBVIOUS
<1>8. IsFiniteSet(H)
  <2>1. H \subseteq Jobs
    BY <1>7 DEF TypeOK
  <2> QED BY <2>1, FS_Subset DEF FiniteJobs
<1>9. Cardinality(H) < maximum[t]
  BY <1>5, <1>7 DEF Room
<1>10. locks'[t] = H \cup {last}
  BY <1>6, <1>7
<1> HIDE DEF held, G
<1>11. Cardinality(H) \in Nat
  BY <1>8, FS_CardinalityType
<1>12. Cardinality(H \cup {last}) <= Cardinality(H) + 1
  <2>1. Cardinality(H \cup {last}) =
          IF last \in H THEN Cardinality(H) ELSE Cardinality(H) + 1
    BY <1>8, FS_AddElement, Zenon
  <2> QED BY <1>11, <2>1
<1>13. Cardinality(H \cup {last}) \in Nat
  BY <1>8, FS_AddElement, FS_CardinalityType
<1>14. maximum[t] \in Nat
  BY DEF TypeOK
<1> QED BY <1>9, <1>10, <1>11, <1>12, <1>13, <1>14

(* No other step grants a lock.                                            *)
LEMMA AdmissionOfNext == FiniteJobs /\ TypeOK /\ [Next]_vars => AdmissionStep
<1> SUFFICES ASSUME FiniteJobs, TypeOK, [Next]_vars, NEW t \in Throttles,
                    locks'[t] \ locks[t] # {}, maximum[t] # 0
             PROVE  Cardinality(locks'[t]) <= maximum[t]
  BY DEF AdmissionStep
<1>1. locks' # locks
  OBVIOUS
<1>2. ~ \E j \in Jobs, removed \in BOOLEAN, to \in SUBSET QueueNames :
          LeaveAndRelease(j, removed, to)
  <2>1. ASSUME NEW j \in Jobs, NEW removed \in BOOLEAN, NEW to \in SUBSET QueueNames,
               LeaveAndRelease(j, removed, to)
        PROVE  FALSE
    BY <2>1 DEF LeaveAndRelease, Release
  <2> QED BY <2>1
<1>3. CASE UNCHANGED vars
  BY <1>1, <1>3 DEF vars
<1>4. ASSUME NEW q \in Queues, NEW limit \in Limits, Pop(q, limit)
      PROVE  Cardinality(locks'[t]) <= maximum[t]
  <2>0. PICK M \in SUBSET {j \in Jobs : queue[j] = q /\ state[j] = "scheduled"} :
           \E T \in SUBSET (work[q] \cup M) : \E granted \in SUBSET T, turn \in Turns(T) :
             HandOut(q, M, T, granted, turn)
    BY <1>4, PopUnfolds
  <2>1. PICK T \in SUBSET (work[q] \cup M) :
           \E granted \in SUBSET T, turn \in Turns(T) :
             HandOut(q, M, T, granted, turn)
    BY <2>0
  <2>2. T \in SUBSET Jobs
    BY QueuesAreNames DEF TypeOK
  <2> QED BY <2>1, <2>2, AdmissionOfPop
<1>5. ASSUME NEW j \in Jobs
      PROVE  ~ \/ \E q \in Queues, delayed \in BOOLEAN :
                    \/ \E list \in Lists : Put(q, j, OnceEach(list), delayed)
                    \/ Put(q, j, throttles[j], delayed)
               \/ Promote(j)
               \/ Forget(j)
               \/ \E q \in Queues : Unfail(j, q)
  BY <1>1 DEF Put, Promote, Forget, Unfail
<1>6. \A u \in Throttles, n \in Maxima : ~ SetMaximum(u, n)
  BY <1>1 DEF SetMaximum
<1>7. ASSUME NEW j \in Jobs
      PROVE  ~ \/ Complete(j) \/ Fail(j) \/ Exhaust(j) \/ Timeout(j) \/ Cancel(j)
               \/ \E delayed \in BOOLEAN : Retry(j, delayed)
               \/ \E q \in Queues, delayed \in BOOLEAN :
                    CompleteAndRequeue(j, q, delayed)
  <2>1. queue[j] \in QueueNames
    BY DEF TypeOK
  <2>2. ~ (Complete(j) \/ Fail(j) \/ Exhaust(j) \/ Cancel(j))
    BY <1>2 DEF Complete, Fail, Exhaust, Cancel
  <2>3. ~ Timeout(j)
    BY <1>2, <2>1 DEF Timeout
  <2>4. \A delayed \in BOOLEAN : ~ Retry(j, delayed)
    BY <1>2, <2>1 DEF Retry
  <2>5. \A q \in Queues, delayed \in BOOLEAN : ~ CompleteAndRequeue(j, q, delayed)
    BY <1>2, QueuesAreNames DEF CompleteAndRequeue
  <2> QED BY <2>2, <2>3, <2>4, <2>5
<1> QED BY <1>3, <1>4, <1>5, <1>6, <1>7 DEF Next

(* A lock is only ever granted within the maximum.                         *)
THEOREM AdmissionHolds == ASSUME FiniteJobs PROVE Spec => AdmissionWithinMaximum
<1>1. TypeOK /\ [Next]_vars => [AdmissionStep]_vars
  BY AdmissionOfNext
<1> QED BY TypeCorrect, <1>1, PTL DEF Spec, AdmissionWithinMaximum

-----------------------------------------------------------------------------
(* No lost wake-up.                                                        *)

LEMMA MaxOfTwo == \A x \in Int : Max({0, x}) = IF x < 0 THEN 0 ELSE x
<1> SUFFICES ASSUME NEW x \in Int PROVE Max({0, x}) = IF x < 0 THEN 0 ELSE x
  OBVIOUS
<1>1. \E m \in {0, x} : \A y \in {0, x} : m >= y
  <2>1. CASE x < 0
    BY <2>1
  <2>2. CASE ~ (x < 0)
    BY <2>2
  <2> QED BY <2>1, <2>2
<1>2. Max({0, x}) \in {0, x} /\ \A y \in {0, x} : Max({0, x}) >= y
  BY <1>1 DEF Max
<1> QED BY <1>2

LEMMA MinOfTwo == \A x, y \in Int : Min({x, y}) = IF x < y THEN x ELSE y
<1> SUFFICES ASSUME NEW x \in Int, NEW y \in Int
             PROVE  Min({x, y}) = IF x < y THEN x ELSE y
  OBVIOUS
<1>1. \E m \in {x, y} : \A z \in {x, y} : m <= z
  <2>1. CASE x < y
    BY <2>1
  <2>2. CASE ~ (x < y)
    BY <2>2
  <2> QED BY <2>1, <2>2
<1>2. Min({x, y}) \in {x, y} /\ \A z \in {x, y} : Min({x, y}) <= z
  BY <1>1 DEF Min
<1> QED BY <1>2

(* A throttle without room has a holder.                                   *)
LEMMA FullHasHolder ==
    ASSUME TypeOK, NEW t \in Throttles, NEW H, ~ Room(t, H)
    PROVE  H # {}
<1>1. maximum[t] \in Nat /\ maximum[t] # 0 /\ ~ (Cardinality(H) < maximum[t])
  BY DEF TypeOK, Room
<1>2. Cardinality({}) = 0
  BY FS_EmptySet
<1> QED BY <1>1, <1>2

(* What a release leaves waiting, it leaves with a job that was woken or   *)
(* with one that holds a lock.                                             *)
LEMMA ReleaseWakes ==
    ASSUME IInv, FiniteJobs, NEW j \in Jobs, NEW removed \in BOOLEAN,
           NEW to \in SUBSET QueueNames, LeaveAndRelease(j, removed, to),
           NEW t \in ThrottlesOf(j), pending'[t] # {}
    PROVE  \/ \E k \in pending[t] \ {j} : k \notin pending'[t]
           \/ \E k \in locks[t] : k # j
<1> SUFFICES ASSUME locks[t] \ {j} = {}
             PROVE  \E k \in pending[t] \ {j} : k \notin pending'[t]
  OBVIOUS
<1> DEFINE still == StillPending(j, t)
           n     == throttles[j][t] * LocksAvailable(t, locks[t] \ {j})
<1>0. t \in Throttles /\ TypeOK /\ throttles[j][t] \in Nat /\ throttles[j][t] > 0
  BY DEF ThrottlesOf, IInv, TypeOK
<1>1. PICK woken \in Wakes(j) : Release(j, woken)
  BY DEF LeaveAndRelease
<1>2. pending'[t] = still \ WokenBy(t, woken)
  BY <1>0, <1>1 DEF Release
<1>3. /\ WokenBy(t, woken) \subseteq still
      /\ Cardinality(WokenBy(t, woken)) = Min({n, Cardinality(still)})
  BY <1>1 DEF Wakes, Batch
<1>4. still \subseteq pending[t] /\ still # {}
  BY <1>2 DEF StillPending
<1>5. IsFiniteSet(still)
  BY <1>0, <1>4, FS_Subset DEF TypeOK, FiniteJobs
<1>6. Cardinality(still) \in Nat /\ Cardinality(still) # 0
  BY <1>4, <1>5, FS_CardinalityType, FS_EmptySet
<1>7. n \in Nat /\ n # 0
  <2>1. Cardinality(locks[t] \ {j}) = 0
    BY FS_EmptySet
  <2>2. LocksAvailable(t, locks[t] \ {j}) \in Nat \ {0}
    <3>1. CASE maximum[t] = 0
      BY <3>1 DEF LocksAvailable
    <3>2. CASE maximum[t] # 0
      <4>1. maximum[t] \in Nat \ {0}
        BY <1>0, <3>2 DEF TypeOK
      <4>2. PICK x \in Int : x = maximum[t] - Cardinality(locks[t] \ {j})
        BY <2>1, <4>1
      <4>3. x = maximum[t]
        BY <2>1, <4>1, <4>2
      <4>4. LocksAvailable(t, locks[t] \ {j}) = Max({0, x})
        BY <3>2, <4>2, Zenon DEF LocksAvailable
      <4>5. Max({0, x}) = x
        BY <4>1, <4>3, MaxOfTwo
      <4> QED BY <4>1, <4>3, <4>4, <4>5
    <3> QED BY <3>1, <3>2
  <2> HIDE DEF n
  <2>3. \A a, b \in Nat \ {0} : a * b \in Nat /\ a * b # 0
    OBVIOUS
  <2> QED BY <1>0, <2>2, <2>3 DEF n
<1> HIDE DEF n, still
<1>8. Cardinality(WokenBy(t, woken)) # 0
  BY <1>3, <1>6, <1>7, MinOfTwo
<1>9. WokenBy(t, woken) # {}
  BY <1>8, FS_EmptySet
<1>10. PICK k \in WokenBy(t, woken) : TRUE
  BY <1>9
<1>11. k \in pending[t] /\ k \notin pending'[t]
  BY <1>2, <1>3, <1>4, <1>10
<1>12. k # j
  <2>1. throttles[j][t] = 1 /\ j \in locks[t] => j \notin pending[t]
    BY <1>0 DEF IInv, LocksAreExact, WaitersAreThrottled
  <2>2. j \notin still
    BY <2>1, <1>4 DEF StillPending, still
  <2> QED BY <1>3, <1>10, <2>2
<1> QED BY <1>11, <1>12

(* Those who wait for a throttle have a waker k: it runs with the          *)
(* throttle, or was woken, or waits for a throttle of a lower rank.        *)
WillWake(k, t, rank) ==
    /\ k \notin pending[t]
    /\ t \in ThrottlesOf(k)
    /\ \/ state[k] = "running"
       \/ state[k] = "throttled" /\ \E q \in Queues : k \in work[q]
       \/ \E u \in Throttles : k \in pending[u] /\ rank[u] < rank[t]

RankedBy(rank) ==
    \A t \in Throttles : pending[t] # {} => \E k \in Jobs : WillWake(k, t, rank)

(* The throttles can be ranked so that nobody waits in a circle.           *)
WakersAreRanked == \E rank \in [Throttles -> Nat] : RankedBy(rank)

(* Only jobs that are over or unknown are in no queue.                     *)
QueuesAreKnown ==
    \A j \in Jobs : state[j] \notin {"absent", "complete"} => queue[j] \in Queues

(* The ranks after jobs began to wait for the throttles in N, which were   *)
(* full: these have holders, and come first.                               *)
Demoted(rank, N) == [t \in Throttles |-> IF t \in N THEN 0 ELSE rank[t] + 1]

LEMMA DemotedRanks ==
    ASSUME NEW rank \in [Throttles -> Nat], NEW N
    PROVE  /\ Demoted(rank, N) \in [Throttles -> Nat]
           /\ \A u, t \in Throttles : t \notin N /\ (u \in N \/ rank[u] < rank[t])
                => Demoted(rank, N)[u] < Demoted(rank, N)[t]
BY DEF Demoted

(* A job that keeps its state, list and place goes on as a waker of t.     *)
LEMMA StaysAWaker ==
    ASSUME NEW k \in Jobs, NEW t \in Throttles, NEW rank, WillWake(k, t, rank),
           state'[k] = state[k], throttles'[k] = throttles[k], k \notin pending'[t],
           \A q \in Queues : k \in work[q] => k \in work'[q],
           \A u \in Throttles :
              k \in pending[u] => \/ k \in pending'[u]
                                  \/ /\ state[k] = "throttled"
                                     /\ \E q \in Queues : k \in work'[q]
    PROVE  WillWake(k, t, rank)'
BY DEF WillWake, ThrottlesOf

(* One that runs with t after the step is a waker of t.                    *)
LEMMA HolderWakes ==
    ASSUME IInv', NEW t \in Throttles, NEW k \in locks'[t], NEW rank
    PROVE  k \in Jobs /\ WillWake(k, t, rank)'
<1>1. k \in Jobs
  BY DEF IInv, TypeOK
<1>2. state'[k] = "running" /\ t \in ThrottlesOf(k)'
  BY <1>1 DEF IInv, LocksAreExact
<1>3. k \notin pending'[t]
  BY <1>1, <1>2 DEF IInv, WaitersAreThrottled
<1> QED BY <1>1, <1>2, <1>3 DEF WillWake

(* A release takes no other job out of work, and puts those it wakes there.*)
LEMMA ReleasedToWork ==
    ASSUME IInv, NEW j \in Jobs, NEW removed \in BOOLEAN,
           NEW to \in SUBSET QueueNames, LeaveAndRelease(j, removed, to),
           NEW k \in Jobs \ {j}
    PROVE  /\ \A q \in QueueNames : k \in work[q] => k \in work'[q]
           /\ \A t \in Throttles : k \in pending[t] /\ k \notin pending'[t] =>
                 queue[k] \in QueueNames /\ k \in work'[queue[k]]
<1>0. TypeOK
  BY DEF IInv
<1>1. PICK woken \in Wakes(j) :
         /\ Release(j, woken)
         /\ work' = [q \in QueueNames |->
                       (work[q] \ (IF removed /\ q = queue[j] THEN {j} ELSE {}))
                          \cup WokenIn(q, woken)
                          \cup (IF q \in to THEN {j} ELSE {})]
  BY DEF LeaveAndRelease
<1>2. \A q \in QueueNames : k \in work[q] => k \in work'[q]
  BY <1>1
<1>3. ASSUME NEW t \in Throttles, k \in pending[t], k \notin pending'[t]
      PROVE  queue[k] \in QueueNames /\ k \in work'[queue[k]]
  <2>1. pending'[t] = IF t \in ThrottlesOf(j) THEN StillPending(j, t) \ WokenBy(t, woken)
                      ELSE pending[t]
    BY <1>1 DEF Release
  <2>2. k \in StillPending(j, t)
    BY <1>3 DEF StillPending
  <2>3. <<t, k>> \in woken
    BY <1>3, <2>1, <2>2 DEF WokenBy
  <2>4. queue[k] \in QueueNames
    BY <1>0 DEF TypeOK
  <2>5. k \in WokenIn(queue[k], woken)
    BY <2>3 DEF WokenIn
  <2> QED BY <1>1, <2>4, <2>5
<1> QED BY <1>2, <1>3

(* Whatever releases the locks of j keeps a waker for all who wait.        *)
LEMMA EndedWakes ==
    ASSUME IInv, IInv', QueuesAreKnown, WakersAreRanked, FiniteJobs, NEW j \in Jobs,
           NEW removed \in BOOLEAN, NEW to \in SUBSET QueueNames,
           LeaveAndRelease(j, removed, to), removed \/ state[j] = "running",
           \A k \in Jobs \ {j} : /\ state'[k] = state[k]
                                 /\ throttles'[k] = throttles[k]
    PROVE  WakersAreRanked'
<1>0. TypeOK
  BY DEF IInv
<1>1. PICK rank \in [Throttles -> Nat] : RankedBy(rank)
  BY DEF WakersAreRanked
<1>2. SUFFICES ASSUME NEW t \in Throttles, pending'[t] # {}
               PROVE  \E k \in Jobs : WillWake(k, t, rank)'
  BY <1>1 DEF WakersAreRanked, RankedBy
<1>3. \A u \in Throttles : /\ locks'[u] = locks[u] \ {j}
                           /\ pending'[u] \subseteq pending[u] \ {j}
  BY Released
<1>4. \A k \in Jobs \ {j}, u \in Throttles : k \in pending[u] /\ k \notin pending'[u] =>
         state[k] = "throttled" /\ \E q \in Queues : k \in work'[q]
  <2> SUFFICES ASSUME NEW k \in Jobs \ {j}, NEW u \in Throttles,
                      k \in pending[u], k \notin pending'[u]
               PROVE  state[k] = "throttled" /\ \E q \in Queues : k \in work'[q]
    OBVIOUS
  <2>1. state[k] = "throttled"
    BY DEF IInv, WaitersAreThrottled
  <2>2. queue[k] \in Queues
    BY <2>1 DEF QueuesAreKnown
  <2> QED BY <2>1, <2>2, ReleasedToWork
<1>5. CASE t \notin ThrottlesOf(j)
  <2>1. PICK k \in Jobs : WillWake(k, t, rank)
    BY <1>1, <1>2, <1>3 DEF RankedBy
  <2>2. k # j
    BY <1>5, <2>1 DEF WillWake
  <2>3. k \notin pending'[t]
    BY <1>3, <2>1 DEF WillWake
  <2>4. \A q \in Queues : k \in work[q] => k \in work'[q]
    BY <2>2, ReleasedToWork, QueuesAreNames
  <2>5. WillWake(k, t, rank)'
    BY <1>4, <2>1, <2>2, <2>3, <2>4, StaysAWaker
  <2> QED BY <2>5
<1>6. CASE t \in ThrottlesOf(j)
  <2>1. \/ \E k \in pending[t] \ {j} : k \notin pending'[t]
        \/ \E k \in locks[t] : k # j
    BY <1>2, <1>6, ReleaseWakes
  <2>2. ASSUME NEW k \in pending[t] \ {j}, k \notin pending'[t]
        PROVE  k \in Jobs /\ WillWake(k, t, rank)'
    <3>1. k \in Jobs
      BY <1>0 DEF TypeOK
    <3>2. t \in ThrottlesOf(k)
      BY <3>1 DEF IInv, WaitersAreThrottled
    <3> QED BY <1>4, <2>2, <3>1, <3>2 DEF WillWake, ThrottlesOf
  <2>3. ASSUME NEW k \in locks[t], k # j
        PROVE  k \in Jobs /\ WillWake(k, t, rank)'
    BY <1>3, <2>3, HolderWakes
  <2> QED BY <2>1, <2>2, <2>3
<1> QED BY <1>5, <1>6

(* A job that a pop refuses waits for a throttle that is held afterwards.  *)
(* A job that was woken is handed out, or waits in its turn.               *)
LEMMA HandOutWakes ==
    ASSUME IInv, IInv', WakersAreRanked, NEW q \in Queues,
           NEW M \in SUBSET {j \in Jobs : queue[j] = q /\ state[j] = "scheduled"},
           NEW T \in SUBSET (work[q] \cup M), NEW granted \in SUBSET T, NEW turn,
           HandOut(q, M, T, granted, turn)
    PROVE  WakersAreRanked'
<1> DEFINE refused == T \ granted
           held(t, j) == locks[t] \cup {k \in {i \in granted : turn[i] < turn[j]} :
                                          t \in ThrottlesOf(k)}
<1>0. TypeOK /\ TypeOK' /\ T \subseteq Jobs /\ q \in QueueNames
  BY QueuesAreNames DEF IInv, TypeOK
<1>1. PICK on \in [refused -> Throttles] :
         /\ \A j \in refused : ~ Room(on[j], held(on[j], j))
         /\ pending' = [u \in Throttles |->
                          pending[u] \cup {j \in refused : on[j] = u}]
  BY DEF HandOut
<1>2. \A k \in Jobs : throttles'[k] = throttles[k] /\ ThrottlesOf(k)' = ThrottlesOf(k)
  BY DEF HandOut, ThrottlesOf
<1>3. PICK rank \in [Throttles -> Nat] : RankedBy(rank)
  BY DEF WakersAreRanked
<1> DEFINE N == {on[j] : j \in refused}
           below == Demoted(rank, N)
<1>4. /\ below \in [Throttles -> Nat]
      /\ \A u, t \in Throttles : t \notin N /\ (u \in N \/ rank[u] < rank[t])
           => below[u] < below[t]
  BY DemotedRanks
<1> HIDE DEF below
<1>5. SUFFICES ASSUME NEW t \in Throttles, pending'[t] # {}
               PROVE  \E k \in Jobs : WillWake(k, t, below)'
  BY <1>4 DEF WakersAreRanked, RankedBy
<1>6. CASE t \in N
  <2>1. PICK j \in refused : on[j] = t
    BY <1>6
  <2>2. ~ Room(t, held(t, j))
    BY <1>1, <2>1
  <2> HIDE DEF held
  <2>3. held(t, j) # {}
    BY <1>0, <2>2, FullHasHolder
  <2>4. held(t, j) \subseteq locks'[t]
    BY DEF HandOut, held
  <2> QED BY <2>3, <2>4, HolderWakes
<1>7. CASE t \notin N
  <2>1. pending'[t] = pending[t]
    BY <1>1, <1>7
  <2>2. PICK k \in Jobs : WillWake(k, t, rank)
    BY <1>3, <1>5, <2>1 DEF RankedBy
  <2>3. k \notin pending'[t] /\ t \in ThrottlesOf(k)'
    BY <1>2, <2>1, <2>2 DEF WillWake
  <2>4. CASE k \in T
    <3>1. state[k] # "absent"
      BY <1>0, <2>4 DEF IInv, WorkIsFree
    <3>2. CASE k \in granted
      BY <2>3, <3>1, <3>2 DEF HandOut, WillWake
    <3>3. CASE k \in refused
      <4>1. on[k] \in Throttles /\ on[k] \in N /\ k \in pending'[on[k]]
        BY <1>1, <3>3
      <4>2. below[on[k]] < below[t]
        BY <1>4, <1>7, <4>1
      <4> QED BY <2>3, <4>1, <4>2 DEF WillWake
    <3> QED BY <2>4, <3>2, <3>3
  <2>5. CASE k \notin T
    <3>1. k \notin M
      BY <2>2 DEF WillWake, IInv, WaitersAreThrottled
    <3>2. state'[k] = state[k]
      BY <2>5, <3>1 DEF HandOut
    <3>3. \A p \in Queues : k \in work[p] => k \in work'[p]
      BY <1>0, <2>5, QueuesAreNames DEF HandOut, TypeOK
    <3>4. \A u \in Throttles : k \in pending[u] => k \in pending'[u]
      BY <1>1
    <3>5. \A u \in Throttles : rank[u] < rank[t] => below[u] < below[t]
      BY <1>4, <1>7
    <3> QED BY <2>2, <2>3, <3>2, <3>3, <3>4, <3>5 DEF WillWake
  <2> QED BY <2>4, <2>5
<1> QED BY <1>6, <1>7

(* A job that is put and has to wait found its throttle held.  It is at    *)
(* rest before, so nobody relied on it to be woken.                        *)
LEMMA PutWakes ==
    ASSUME IInv, IInv', AtRestOnly, WakersAreRanked, NEW q \in Queues, NEW j \in Jobs,
           NEW given, NEW delayed \in BOOLEAN, Put(q, j, given, delayed)
    PROVE  WakersAreRanked'
<1>0. TypeOK /\ TypeOK'
  BY DEF IInv
<1>1. \A k \in Jobs \ {j} : state'[k] = state[k] /\ throttles'[k] = throttles[k]
  BY <1>0 DEF Put, TypeOK
<1>2. state[j] \notin {"running", "throttled"} /\ locks' = locks
  BY DEF Put, AtRestOnly
<1>3. PICK rank \in [Throttles -> Nat] : RankedBy(rank)
  BY DEF WakersAreRanked
<1>4. \A k \in Jobs, t \in Throttles : WillWake(k, t, rank) => k # j
  BY <1>2 DEF WillWake, IInv, WaitersAreThrottled
<1>5. \A k \in Jobs \ {j}, p \in Queues : k \in work[p] => k \in work'[p]
  BY <1>0, QueuesAreNames DEF Put
<1>6. CASE pending' = pending
  <2> SUFFICES ASSUME NEW t \in Throttles, pending'[t] # {}
               PROVE  \E k \in Jobs : WillWake(k, t, rank)'
    BY <1>3 DEF WakersAreRanked, RankedBy
  <2>1. PICK k \in Jobs : WillWake(k, t, rank)
    BY <1>3, <1>6 DEF RankedBy
  <2>2. k # j
    BY <1>4, <2>1
  <2>3. state'[k] = state[k] /\ throttles'[k] = throttles[k]
    BY <1>1, <2>2
  <2>4. k \notin pending'[t]
    BY <1>6, <2>1 DEF WillWake
  <2>5. WillWake(k, t, rank)'
    BY <1>5, <1>6, <2>1, <2>2, <2>3, <2>4, StaysAWaker
  <2> QED BY <2>5
<1>7. CASE pending' # pending
  <2>1. \E u \in {u \in ThrottlesOf(j)' : ~ Room(u, locks[u])} :
           pending' = [pending EXCEPT ![u] = @ \cup {j}]
    BY <1>7 DEF Put
  <2>2. PICK u \in ThrottlesOf(j)' : /\ ~ Room(u, locks[u])
                                     /\ pending' = [pending EXCEPT ![u] = @ \cup {j}]
    BY <2>1
  <2>3. u \in Throttles
    BY <2>2 DEF ThrottlesOf
  <2> DEFINE below == Demoted(rank, {u})
  <2>4. /\ below \in [Throttles -> Nat]
        /\ \A v, t \in Throttles : t # u /\ (v = u \/ rank[v] < rank[t])
             => below[v] < below[t]
    BY DemotedRanks
  <2> HIDE DEF below
  <2> SUFFICES ASSUME NEW t \in Throttles, pending'[t] # {}
               PROVE  \E k \in Jobs : WillWake(k, t, below)'
    BY <2>4 DEF WakersAreRanked, RankedBy
  <2>5. CASE t = u
    <3>1. PICK k \in locks[t] : TRUE
      BY <1>0, <2>2, <2>5, FullHasHolder
    <3> QED BY <1>2, <3>1, HolderWakes
  <2>6. CASE t # u
    <3>1. pending'[t] = pending[t]
      BY <1>0, <2>2, <2>6 DEF TypeOK
    <3>2. PICK k \in Jobs : WillWake(k, t, rank)
      BY <1>3, <3>1 DEF RankedBy
    <3>3. k # j
      BY <1>4, <3>2
    <3>4. state'[k] = state[k] /\ throttles'[k] = throttles[k]
      BY <1>1, <3>3
    <3>5. \A v \in Throttles : k \in pending[v] => k \in pending'[v]
      BY <1>0, <2>2, <2>3 DEF TypeOK
    <3>6. \A v \in Throttles : rank[v] < rank[t] => below[v] < below[t]
      BY <2>4, <2>6
    <3> QED BY <1>5, <3>1, <3>2, <3>3, <3>4, <3>5, <3>6 DEF WillWake, ThrottlesOf
  <2> QED BY <2>5, <2>6
<1> QED BY <1>6, <1>7

(* Where a job is put names a queue, and where it ends names none.         *)
LEMMA QueueStep == IInv /\ QueuesAreKnown /\ [Next]_vars => QueuesAreKnown'
<1> SUFFICES ASSUME IInv, QueuesAreKnown, [Next]_vars
             PROVE  QueuesAreKnown'
  OBVIOUS
<1>0. TypeOK
  BY DEF IInv
<1>1. CASE UNCHANGED vars
  BY <1>1 DEF vars, QueuesAreKnown
<1>2. ASSUME NEW t \in Throttles, NEW n \in Maxima, SetMaximum(t, n)
      PROVE  QueuesAreKnown'
  BY <1>2 DEF SetMaximum, QueuesAreKnown
<1>3. ASSUME NEW q \in Queues, NEW limit \in Limits, Pop(q, limit)
      PROVE  QueuesAreKnown'
  <2>0. PICK M \in SUBSET {j \in Jobs : queue[j] = q /\ state[j] = "scheduled"} :
           \E T \in SUBSET (work[q] \cup M) : \E granted \in SUBSET T, turn \in Turns(T) :
             HandOut(q, M, T, granted, turn)
    BY <1>0, <1>3, PopUnfolds
  <2>1. PICK T \in SUBSET (work[q] \cup M) :
           \E granted \in SUBSET T, turn \in Turns(T) :
             HandOut(q, M, T, granted, turn)
    BY <2>0
  <2>2. \A j \in T \cup M : j \in Jobs => state[j] \notin {"absent", "complete"}
    BY QueuesAreNames DEF IInv, WorkIsFree
  <2>3. queue' = queue
    BY <2>1 DEF HandOut
  <2>4. \A j \in Jobs : state'[j] \in {"absent", "complete"}
                        \/ state[j] \notin {"absent", "complete"}
    <3> SUFFICES ASSUME NEW j \in Jobs, state[j] \in {"absent", "complete"}
                 PROVE  state'[j] = state[j]
      OBVIOUS
    <3>1. j \notin T /\ j \notin M
      BY <2>2
    <3> QED BY <2>1, <3>1 DEF HandOut
  <2> QED BY <2>3, <2>4 DEF QueuesAreKnown
<1>4. ASSUME NEW j \in Jobs, NEW q \in Queues, NEW delayed \in BOOLEAN, NEW given,
             Put(q, j, given, delayed)
      PROVE  QueuesAreKnown'
  BY <1>0, <1>4 DEF Put, QueuesAreKnown, TypeOK
<1>5. ASSUME NEW j \in Jobs,
             \/ Promote(j) \/ Forget(j) \/ Fail(j) \/ Exhaust(j) \/ Timeout(j)
             \/ Complete(j) \/ Cancel(j)
             \/ \E q \in Queues : Unfail(j, q)
             \/ \E delayed \in BOOLEAN : Retry(j, delayed)
             \/ \E q \in Queues, delayed \in BOOLEAN :
                  CompleteAndRequeue(j, q, delayed)
      PROVE  QueuesAreKnown'
  <2>1. /\ \A k \in Jobs \ {j} : state'[k] = state[k] /\ queue'[k] = queue[k]
        /\ \/ state'[j] \in {"absent", "complete"}
           \/ queue'[j] \in Queues
           \/ queue'[j] = queue[j] /\ state[j] \notin {"absent", "complete"}
    BY <1>0, <1>5 DEF TypeOK, Promote, Forget, Fail, Exhaust, Timeout, Complete,
                      Cancel, Unfail, Retry, CompleteAndRequeue
  <2> QED BY <2>1 DEF QueuesAreKnown
<1> QED BY <1>1, <1>2, <1>3, <1>4, <1>5 DEF Next

LEMMA WakerStep ==
    (/\ AtRestOnly /\ FiniteJobs /\ IInv /\ IInv' /\ QueuesAreKnown
     /\ WakersAreRanked /\ [Next]_vars)
      => WakersAreRanked'
<1> SUFFICES ASSUME AtRestOnly, FiniteJobs, IInv, IInv', QueuesAreKnown,
                    WakersAreRanked, [Next]_vars
             PROVE  WakersAreRanked'
  OBVIOUS
<1>0. TypeOK
  BY DEF IInv
<1>1. CASE UNCHANGED vars
  BY <1>1 DEF vars, WakersAreRanked, RankedBy, WillWake, ThrottlesOf
<1>2. ASSUME NEW t \in Throttles, NEW n \in Maxima, SetMaximum(t, n)
      PROVE  WakersAreRanked'
  BY <1>2 DEF SetMaximum, WakersAreRanked, RankedBy, WillWake, ThrottlesOf
<1>3. ASSUME NEW q \in Queues, NEW limit \in Limits, Pop(q, limit)
      PROVE  WakersAreRanked'
  <2>0. PICK M \in SUBSET {j \in Jobs : queue[j] = q /\ state[j] = "scheduled"} :
           \E T \in SUBSET (work[q] \cup M) : \E granted \in SUBSET T, turn \in Turns(T) :
             HandOut(q, M, T, granted, turn)
    BY <1>0, <1>3, PopUnfolds
  <2>1. PICK T \in SUBSET (work[q] \cup M) :
           \E granted \in SUBSET T, turn \in Turns(T) :
             HandOut(q, M, T, granted, turn)
    BY <2>0
  <2> QED BY <2>1, HandOutWakes
<1>4. ASSUME NEW j \in Jobs, NEW q \in Queues, NEW delayed \in BOOLEAN, NEW given,
             Put(q, j, given, delayed)
      PROVE  WakersAreRanked'
  BY <1>4, PutWakes
<1>5. ASSUME NEW j \in Jobs,
             \/ Promote(j)
             \/ Forget(j)
             \/ \E q \in Queues : Unfail(j, q)
      PROVE  WakersAreRanked'
  <2>1. /\ state[j] \in {"scheduled", "failed", "complete"}
        /\ \A k \in Jobs \ {j} : state'[k] = state[k] /\ throttles'[k] = throttles[k]
        /\ \A k \in Jobs, q \in Queues : k \in work[q] => k \in work'[q]
        /\ pending' = pending
    BY <1>0, <1>5, QueuesAreNames DEF Promote, Forget, Unfail, TypeOK
  <2>2. PICK rank \in [Throttles -> Nat] : RankedBy(rank)
    BY DEF WakersAreRanked
  <2> SUFFICES ASSUME NEW t \in Throttles, pending'[t] # {}
               PROVE  \E k \in Jobs : WillWake(k, t, rank)'
    BY <2>2 DEF WakersAreRanked, RankedBy
  <2>3. PICK k \in Jobs : WillWake(k, t, rank)
    BY <2>1, <2>2 DEF RankedBy
  <2>4. k # j
    BY <2>1, <2>3 DEF WillWake, IInv, WaitersAreThrottled
  <2>5. k \notin pending'[t]
    BY <2>1, <2>3 DEF WillWake
  <2>6. WillWake(k, t, rank)'
    BY <2>1, <2>3, <2>4, <2>5, StaysAWaker
  <2> QED BY <2>6
<1>6. ASSUME NEW j \in Jobs, Complete(j) PROVE WakersAreRanked'
  <2>1. LeaveAndRelease(j, TRUE, {})
    BY <1>6 DEF Complete
  <2>2. \A k \in Jobs \ {j} : state'[k] = state[k] /\ throttles'[k] = throttles[k]
    BY <1>0, <1>6 DEF Complete, TypeOK
  <2> QED BY <2>1, <2>2, EndedWakes
<1>7. ASSUME NEW j \in Jobs, NEW q \in Queues, NEW delayed \in BOOLEAN,
             CompleteAndRequeue(j, q, delayed)
      PROVE  WakersAreRanked'
  <2>1. LeaveAndRelease(j, TRUE, IF delayed THEN {} ELSE {q})
    BY <1>7 DEF CompleteAndRequeue
  <2>2. \A k \in Jobs \ {j} : state'[k] = state[k] /\ throttles'[k] = throttles[k]
    BY <1>0, <1>7 DEF CompleteAndRequeue, TypeOK
  <2>3. (IF delayed THEN {} ELSE {q}) \in SUBSET QueueNames
    BY QueuesAreNames
  <2> QED BY <2>1, <2>2, <2>3, EndedWakes
<1>8. ASSUME NEW j \in Jobs, Fail(j) PROVE WakersAreRanked'
  <2>1. LeaveAndRelease(j, TRUE, {})
    BY <1>8 DEF Fail
  <2>2. \A k \in Jobs \ {j} : state'[k] = state[k] /\ throttles'[k] = throttles[k]
    BY <1>0, <1>8 DEF Fail, TypeOK
  <2> QED BY <2>1, <2>2, EndedWakes
<1>9. ASSUME NEW j \in Jobs, Exhaust(j) PROVE WakersAreRanked'
  <2>1. LeaveAndRelease(j, FALSE, {}) /\ state[j] = "running"
    BY <1>9 DEF Exhaust
  <2>2. \A k \in Jobs \ {j} : state'[k] = state[k] /\ throttles'[k] = throttles[k]
    BY <1>0, <1>9 DEF Exhaust, TypeOK
  <2> QED BY <2>1, <2>2, EndedWakes
<1>10. ASSUME NEW j \in Jobs, NEW delayed \in BOOLEAN, Retry(j, delayed)
       PROVE  WakersAreRanked'
  <2>1. LeaveAndRelease(j, FALSE, IF delayed THEN {} ELSE {queue[j]}) /\ state[j] = "running"
    BY <1>10 DEF Retry
  <2>2. \A k \in Jobs \ {j} : state'[k] = state[k] /\ throttles'[k] = throttles[k]
    BY <1>0, <1>10 DEF Retry, TypeOK
  <2>3. (IF delayed THEN {} ELSE {queue[j]}) \in SUBSET QueueNames
    BY <1>0 DEF TypeOK
  <2> QED BY <2>1, <2>2, <2>3, EndedWakes
<1>11. ASSUME NEW j \in Jobs, Timeout(j) PROVE WakersAreRanked'
  <2>1. LeaveAndRelease(j, FALSE, {queue[j]}) /\ state[j] = "running"
    BY <1>11 DEF Timeout
  <2>2. \A k \in Jobs \ {j} : state'[k] = state[k] /\ throttles'[k] = throttles[k]
    BY <1>0, <1>11 DEF Timeout, TypeOK
  <2>3. {queue[j]} \in SUBSET QueueNames
    BY <1>0 DEF TypeOK
  <2> QED BY <2>1, <2>2, <2>3, EndedWakes
<1>12. ASSUME NEW j \in Jobs, Cancel(j) PROVE WakersAreRanked'
  <2>1. LeaveAndRelease(j, TRUE, {})
    BY <1>12 DEF Cancel
  <2>2. \A k \in Jobs \ {j} : state'[k] = state[k] /\ throttles'[k] = throttles[k]
    BY <1>0, <1>12 DEF Cancel, TypeOK
  <2> QED BY <2>1, <2>2, EndedWakes
<1> QED BY <1>1, <1>2, <1>3, <1>4, <1>5, <1>6, <1>7, <1>8, <1>9, <1>10, <1>11,
           <1>12 DEF Next

LEMMA WakersInductive ==
    ASSUME AtRestOnly, FiniteJobs PROVE Spec => []WakersAreRanked
<1>1. Init => WakersAreRanked /\ QueuesAreKnown
  <2> SUFFICES ASSUME Init PROVE WakersAreRanked /\ QueuesAreKnown
    OBVIOUS
  <2>1. [t \in Throttles |-> 0] \in [Throttles -> Nat]
    OBVIOUS
  <2>2. \A rank : RankedBy(rank)
    BY DEF Init, RankedBy
  <2> QED BY <2>1, <2>2 DEF Init, WakersAreRanked, QueuesAreKnown
<1>2. Spec => []IInv
  BY Inductive
<1> QED BY <1>1, <1>2, QueueStep, WakerStep, PTL DEF Spec

(* No lost wake-up: of those who have a throttle that jobs wait for, one   *)
(* runs, or was woken, or waits for another.                               *)
THEOREM NoLostWakeup ==
    ASSUME AtRestOnly, FiniteJobs PROVE Spec => []WaitersHaveAWaker
<1>1. IInv /\ WakersAreRanked => WaitersHaveAWaker
  <2> SUFFICES ASSUME IInv, WakersAreRanked, NEW t \in Throttles, pending[t] # {}
               PROVE  \E k \in Jobs \ pending[t] :
                         /\ t \in ThrottlesOf(k)
                         /\ state[k] \in {"running", "throttled"}
    BY DEF WaitersHaveAWaker
  <2>1. PICK rank \in [Throttles -> Nat] : RankedBy(rank)
    BY DEF WakersAreRanked
  <2>2. PICK k \in Jobs : WillWake(k, t, rank)
    BY <2>1 DEF RankedBy
  <2> QED BY <2>2 DEF WillWake, IInv, WaitersAreThrottled
<1> QED BY <1>1, Inductive, WakersInductive, PTL

(* Of the throttles that jobs wait for, one has the lowest rank.           *)
LEMMA LowestRank ==
    ASSUME NEW rank \in [Throttles -> Nat], NEW S \in SUBSET Throttles, S # {}
    PROVE  \E t \in S : \A u \in S : ~ (rank[u] < rank[t])
<1> DEFINE Ranks == {rank[t] : t \in S}
<1>1. Ranks \subseteq Nat /\ Ranks # {}
  OBVIOUS
<1>2. PICK least \in Ranks : \A x \in Ranks : ~ (<<x, least>> \in OpToRel(<, Nat))
  BY <1>1, NatLessThanWellFounded, WFMin, Zenon
<1>3. \A x \in Ranks : ~ (x < least)
  BY <1>1, <1>2, Zenon DEF OpToRel
<1> QED BY <1>2, <1>3

(* They never all wait for each other: the waker of a throttle of the      *)
(* lowest rank does not wait itself, so it runs, or it is work.            *)
THEOREM NeverAllWait ==
    ASSUME AtRestOnly, FiniteJobs PROVE Spec => []NotAllWait
<1>1. WakersAreRanked => NotAllWait
  <2> SUFFICES ASSUME WakersAreRanked, NEW v \in Throttles, pending[v] # {}
               PROVE  \/ \E j \in Jobs : state[j] = "running"
                      \/ \E q \in Queues : work[q] # {}
    BY DEF NotAllWait
  <2>1. PICK rank \in [Throttles -> Nat] : RankedBy(rank)
    BY DEF WakersAreRanked
  <2> DEFINE S == {t \in Throttles : pending[t] # {}}
  <2>2. PICK t \in S : \A u \in S : ~ (rank[u] < rank[t])
    <3>1. S # {} /\ S \in SUBSET Throttles
      OBVIOUS
    <3> QED BY <3>1, LowestRank
  <2>3. PICK k \in Jobs : WillWake(k, t, rank)
    BY <2>1, <2>2 DEF RankedBy
  <2> QED BY <2>2, <2>3 DEF WillWake
<1> QED BY <1>1, WakersInductive, PTL
=============================================================================
