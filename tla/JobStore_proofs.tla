--------------------------- MODULE JobStore_proofs ---------------------------
(***************************************************************************)
(* Proofs about JobStore, for every value of its constants.                *)
(***************************************************************************)
EXTENDS JobStore, TLAPS

-----------------------------------------------------------------------------
(* The places the operations name are places.                              *)
LEMMA PlacesTyped ==
    ASSUME NEW q \in QueueNames
    PROVE  /\ InQueue(q) \subseteq Places
           /\ Work(q) \in Places
           /\ Locks(q) \in Places
           /\ Scheduled(q) \in Places
           /\ Depends(q) \in Places
           /\ Failures \in Places
           /\ Completed \in Places
BY DEF InQueue, Work, Locks, Scheduled, Depends, Failures, Completed, Places,
       QueueKinds, QueueNames

(* Popping keeps the types, whatever is taken.                             *)
LEMMA HandOutTyped ==
    ASSUME TypeOK, NEW p \in Procs, NEW q \in Queues,
           NEW E \in SUBSET Jobs, NEW M \in SUBSET Jobs, NEW T \in SUBSET Jobs,
           HandOut(p, q, E, M, T)
    PROVE  TypeOK'
<1> USE NamesAssumption DEF TypeOK
<1> DEFINE w       == NameOf[p]
           spent   == Exhausted(E)
           dead    == Dead(E)
           taken   == dead \cup {j \in T : state[j] # "absent"}
           gone(j) == {pl \in InQueue(q) :
                       \/ j \in spent /\ pl # Depends(q)
                       \/ j \in M /\ pl = Scheduled(q)
                       \/ j \in T /\ pl = Work(q)}
           new(j)  == {pl \in InQueue(q) \cup {Failures} :
                       \/ j \in spent /\ pl = Failures
                       \/ j \in M \ T /\ pl = Work(q)
                       \/ j \in taken \cup Courteous(E) /\ pl = Locks(q)}
<1>1. w \in Workers
  OBVIOUS
<1>2. \A j \in Jobs : new(j) \subseteq Places
  BY PlacesTyped DEF QueueNames
<1>3. state' \in [Jobs -> States]
  BY DEF HandOut, States
<1>4. worker' \in [Jobs -> Workers \cup {NoWorker}]
  BY <1>1 DEF HandOut
<1>5. remaining' \in [Jobs -> Int]
  BY DEF HandOut
<1>6. grace' \in [Jobs -> BOOLEAN]
  BY DEF HandOut
<1>7. where' \in [Jobs -> SUBSET Places]
  <2> HIDE DEF new
  <2>1. where' = [j \in Jobs |-> (where[j] \ gone(j)) \cup new(j)]
    BY DEF HandOut, new
  <2> HIDE DEF gone
  <2> QED BY <2>1, <1>2
<1>8. due' \in [Jobs -> SUBSET Places]
  <2> HIDE DEF new
  <2>1. due' = [j \in Jobs |-> (due[j] \ gone(j)) \ new(j)]
    BY DEF HandOut, new
  <2> HIDE DEF gone
  <2> QED BY <2>1, <1>2
<1>9. listed' \in [Jobs -> SUBSET Workers]
  <2> DEFINE rest(j) == IF j \in E THEN listed[j] \ {worker[j]} ELSE listed[j]
             add(j)  == IF j \in taken THEN {w} ELSE {}
  <2>1. listed' = [j \in Jobs |-> rest(j) \cup add(j)]
    BY DEF HandOut
  <2>2. \A j \in Jobs : rest(j) \subseteq Workers /\ add(j) \subseteq Workers
    BY <1>1
  <2> HIDE DEF rest, add
  <2> QED BY <2>1, <2>2
<1>10. held' \in [Procs -> [Jobs -> QueueNames \cup {NoJob}]]
  BY DEF HandOut
<1> QED
  BY <1>3, <1>4, <1>5, <1>6, <1>7, <1>8, <1>9, <1>10 DEF HandOut, links

(* The same of completing, whatever completed jobs are forgotten.          *)
LEMMA CompleteTyped ==
    ASSUME TypeOK, NEW p \in Procs, NEW j \in Jobs,
           NEW forgotten \in SUBSET (Members(Completed) \cup {j}),
           Complete(p, j, forgotten)
    PROVE  TypeOK'
<1> USE NamesAssumption DEF TypeOK
<1> DEFINE freed == Released(j) \ forgotten
           gone(k) == IF k = j THEN InQueue(queue[j])
                      ELSE IF k \in freed THEN {Depends(queue[k])} ELSE {}
           new(k)  == IF k = j THEN {Completed}
                      ELSE IF k \in freed THEN {Freed(k)} ELSE {}
<1>1. \A k \in Jobs : new(k) \subseteq Places
  BY PlacesTyped DEF Freed
<1>2. state' \in [Jobs -> States]
  BY DEF Complete, States
<1>3. queue' \in [Jobs -> QueueNames] /\ worker' \in [Jobs -> Workers \cup {NoWorker}]
  BY DEF Complete, QueueNames
<1>4. retries' \in [Jobs -> Nat] /\ remaining' \in [Jobs -> Int]
  BY DEF Complete
<1>5. grace' \in [Jobs -> BOOLEAN] /\ later' \in [Jobs -> BOOLEAN]
  BY DEF Complete
<1>6. where' \in [Jobs -> SUBSET Places]
  <2>1. where' = [k \in Jobs |-> ((where[k] \ gone(k)) \cup new(k))
                                   \ {pl \in {Completed} : k \in forgotten}]
    BY DEF Complete
  <2> HIDE DEF gone, new
  <2> QED BY <2>1, <1>1
<1>7. due' \in [Jobs -> SUBSET Places]
  <2>1. due' = [k \in Jobs |-> due[k] \ (gone(k) \cup new(k) \cup {Completed})]
    BY DEF Complete
  <2> HIDE DEF gone, new
  <2> QED BY <2>1
<1>8. listed' \in [Jobs -> SUBSET Workers]
  BY DEF Complete, Unlist
<1>9. deps' \in [Jobs -> SUBSET Jobs] /\ dependents' \in [Jobs -> SUBSET Jobs]
  BY DEF Complete
<1> QED
  BY <1>2, <1>3, <1>4, <1>5, <1>6, <1>7, <1>8, <1>9 DEF Complete

(* Moving one job between places keeps their types.                        *)
LEMMA RelocateTyped ==
    ASSUME TypeOK, NEW j \in Jobs, NEW gone, NEW new \in SUBSET Places,
           Relocate(j, gone, new)
    PROVE  where' \in [Jobs -> SUBSET Places] /\ due' \in [Jobs -> SUBSET Places]
BY DEF TypeOK, Relocate

(* Type correctness is inductive.                                          *)
LEMMA TypeInit == Init => TypeOK
BY DEF Init, TypeOK, States, QueueNames

LEMMA TypeNext == TypeOK /\ [Next]_vars => TypeOK'
<1> SUFFICES ASSUME TypeOK, [Next]_vars PROVE TypeOK'
  OBVIOUS
<1> USE NamesAssumption
<1> USE DEF fields, links
<1>1. ASSUME NEW q \in Queues, NEW j \in Jobs, NEW ds \in SUBSET Jobs,
             NEW delayed \in BOOLEAN, NEW n \in Retries,
             Put(q, j, ds, delayed, n)
      PROVE  TypeOK'
  <2> DEFINE new    == NewDeps(j, ds)
             target == IF new # {} THEN Depends(q)
                       ELSE IF delayed THEN Scheduled(q) ELSE Work(q)
             gone   == InQueue(queue[j])
                         \cup {pl \in {Failures} : state[j] = "failed"}
                         \cup {pl \in {Completed} : state[j] = "complete"}
  <2>1. n \in Nat /\ q \in QueueNames
    BY RetriesAssumption DEF QueueNames
  <2>2. new \in SUBSET Jobs
    BY DEF NewDeps, KeptDeps, TypeOK
  <2>3. target \in Places
    BY <2>1, PlacesTyped
  <2>4. Relocate(j, gone, {target})
    BY <1>1 DEF Put
  <2>5. where' \in [Jobs -> SUBSET Places] /\ due' \in [Jobs -> SUBSET Places]
    BY <2>3, <2>4, RelocateTyped
  <2>6. deps' \in [Jobs -> SUBSET Jobs] /\ dependents' \in [Jobs -> SUBSET Jobs]
    BY <1>1, <2>2 DEF Put, TypeOK
  <2>7. state' \in [Jobs -> States]
    BY <1>1 DEF Put, TypeOK, States
  <2>8. /\ queue' \in [Jobs -> QueueNames]
        /\ worker' \in [Jobs -> Workers \cup {NoWorker}]
        /\ retries' \in [Jobs -> Nat]
        /\ remaining' \in [Jobs -> Int]
    BY <1>1, <2>1 DEF Put, TypeOK
  <2>9. later' \in [Jobs -> BOOLEAN] /\ listed' \in [Jobs -> SUBSET Workers]
    BY <1>1 DEF Put, Unlist, TypeOK
  <2>10. UNCHANGED <<grace, paused, held>>
    BY <1>1 DEF Put
  <2> QED BY <2>5, <2>6, <2>7, <2>8, <2>9, <2>10 DEF TypeOK
<1>2. ASSUME NEW p \in Procs, NEW q \in Queues, NEW limit \in Limits,
             Pop(p, q, limit)
      PROVE  TypeOK'
  <2>1. PICK E \in SUBSET Jobs, M \in SUBSET Jobs, T \in SUBSET Jobs :
             HandOut(p, q, E, M, T)
    BY <1>2 DEF Pop, Batch, DueIn, Members
  <2> QED BY <2>1, HandOutTyped
<1>3. ASSUME NEW p \in Procs, NEW j \in Jobs, Heartbeat(p, j)
      PROVE  TypeOK'
  <2>1. {Locks(queue[j])} \in SUBSET Places
    BY PlacesTyped DEF TypeOK
  <2>2. where' \in [Jobs -> SUBSET Places] /\ due' \in [Jobs -> SUBSET Places]
    BY <1>3, <2>1, RelocateTyped DEF Heartbeat
  <2>3. listed' \in [Jobs -> SUBSET Workers]
    BY <1>3 DEF Heartbeat, TypeOK
  <2>4. UNCHANGED <<fields, links, paused, held>>
    BY <1>3 DEF Heartbeat
  <2> QED BY <2>2, <2>3, <2>4 DEF TypeOK
<1>4. ASSUME NEW p \in Procs, NEW j \in Jobs,
             NEW forgotten \in SUBSET (Members(Completed) \cup {j}),
             Complete(p, j, forgotten)
      PROVE  TypeOK'
  BY <1>4, CompleteTyped
<1>5. ASSUME NEW p \in Procs, NEW j \in Jobs, NEW q \in Queues,
             NEW ds \in SUBSET Jobs, NEW delayed \in BOOLEAN,
             CompleteAndRequeue(p, j, q, ds, delayed)
      PROVE  TypeOK'
  <2> DEFINE new    == {d \in ds : d = j \/ Pending(d)}
             target == IF new # {} THEN Depends(q)
                       ELSE IF delayed /\ ds = {} THEN Scheduled(q) ELSE Work(q)
  <2>1. q \in QueueNames
    BY DEF QueueNames
  <2>2. target \in Places
    BY <2>1, PlacesTyped
  <2>3. where' \in [Jobs -> SUBSET Places] /\ due' \in [Jobs -> SUBSET Places]
    BY <1>5, <2>2, RelocateTyped DEF CompleteAndRequeue
  <2>4. deps' \in [Jobs -> SUBSET Jobs] /\ dependents' \in [Jobs -> SUBSET Jobs]
    BY <1>5 DEF CompleteAndRequeue, TypeOK
  <2> QED BY <1>5, <2>1, <2>3, <2>4 DEF CompleteAndRequeue, Unlist, TypeOK, States
<1>6. ASSUME NEW p \in Procs, NEW j \in Jobs, Fail(p, j)
      PROVE  TypeOK'
  <2>1. where' \in [Jobs -> SUBSET Places] /\ due' \in [Jobs -> SUBSET Places]
    BY <1>6, PlacesTyped, RelocateTyped DEF Fail, QueueNames
  <2> QED BY <1>6, <2>1 DEF Fail, Unlist, TypeOK, States
<1>7. ASSUME NEW p \in Procs, NEW j \in Jobs, NEW delayed \in BOOLEAN,
             Retry(p, j, delayed)
      PROVE  TypeOK'
  <2> DEFINE target == IF remaining[j] < 1 THEN Failures
                       ELSE IF delayed THEN Scheduled(held[p][j])
                       ELSE Work(held[p][j])
  <2>1. held[p][j] \in QueueNames
    BY <1>7 DEF Retry, Holds, TypeOK
  <2>2. target \in Places
    BY <2>1, PlacesTyped
  <2>3. where' \in [Jobs -> SUBSET Places] /\ due' \in [Jobs -> SUBSET Places]
    BY <1>7, <2>2, RelocateTyped DEF Retry
  <2>4. state' \in [Jobs -> States]
    BY <1>7 DEF Retry, TypeOK, States
  <2>5. /\ worker' \in [Jobs -> Workers \cup {NoWorker}]
        /\ remaining' \in [Jobs -> Int]
        /\ grace' \in [Jobs -> BOOLEAN]
    BY <1>7 DEF Retry, TypeOK
  <2>6. listed' \in [Jobs -> SUBSET Workers]
    BY <1>7 DEF Retry, Unlist, TypeOK
  <2> QED BY <1>7, <2>3, <2>4, <2>5, <2>6 DEF Retry, TypeOK
<1>8. ASSUME NEW j \in Jobs, Timeout(j)
      PROVE  TypeOK'
  <2>1. {Work(queue[j])} \in SUBSET Places
    BY PlacesTyped DEF TypeOK
  <2>2. where' \in [Jobs -> SUBSET Places] /\ due' \in [Jobs -> SUBSET Places]
    BY <1>8, <2>1, RelocateTyped DEF Timeout
  <2> QED BY <1>8, <2>2 DEF Timeout, TypeOK, States
<1>9. ASSUME NEW S \in SUBSET Jobs, Cancel(S)
      PROVE  TypeOK'
  <2> DEFINE removed == {j \in S : state[j] # "complete"}
             gone(j) == IF j \in removed
                        THEN InQueue(queue[j])
                               \cup {pl \in {Failures} : state[j] = "failed"}
                        ELSE {}
  <2>1. /\ state' \in [Jobs -> States]
        /\ queue' \in [Jobs -> QueueNames]
        /\ worker' \in [Jobs -> Workers \cup {NoWorker}]
    BY <1>9 DEF Cancel, TypeOK, States, QueueNames
  <2>2. /\ retries' \in [Jobs -> Nat]
        /\ remaining' \in [Jobs -> Int]
    BY <1>9 DEF Cancel, TypeOK
  <2>6. grace' \in [Jobs -> BOOLEAN] /\ later' \in [Jobs -> BOOLEAN]
    <3>1. /\ grace' = [j \in Jobs |-> IF j \in removed THEN FALSE ELSE grace[j]]
          /\ later' = [j \in Jobs |-> IF j \in removed THEN FALSE ELSE later[j]]
      BY <1>9 DEF Cancel
    <3> HIDE DEF removed
    <3> QED BY <3>1 DEF TypeOK
  <2>3. where' \in [Jobs -> SUBSET Places] /\ due' \in [Jobs -> SUBSET Places]
    <3>1. /\ where' = [j \in Jobs |-> where[j] \ gone(j)]
          /\ due' = [j \in Jobs |-> due[j] \ gone(j)]
      BY <1>9 DEF Cancel
    <3> HIDE DEF gone
    <3> QED BY <3>1 DEF TypeOK
  <2>4. listed' \in [Jobs -> SUBSET Workers]
    BY <1>9 DEF Cancel, TypeOK
  <2>5. deps' \in [Jobs -> SUBSET Jobs] /\ dependents' \in [Jobs -> SUBSET Jobs]
    BY <1>9 DEF Cancel, TypeOK
  <2> QED BY <1>9, <2>1, <2>2, <2>3, <2>4, <2>5, <2>6 DEF Cancel, TypeOK
<1>10. ASSUME NEW j \in Jobs, NEW ds \in SUBSET Jobs, DependsOn(j, ds)
       PROVE  TypeOK'
  BY <1>10 DEF DependsOn, TypeOK
<1>11. ASSUME NEW j \in Jobs, NEW ds \in SUBSET Jobs, DependsOff(j, ds)
       PROVE  TypeOK'
  <2>1. {Work(queue[j])} \in SUBSET Places
    BY PlacesTyped DEF TypeOK
  <2>2. where' \in [Jobs -> SUBSET Places] /\ due' \in [Jobs -> SUBSET Places]
    <3>1. CASE deps[j] \subseteq ds
      BY <1>11, <2>1, <3>1, RelocateTyped DEF DependsOff
    <3>2. CASE ~ (deps[j] \subseteq ds)
      BY <1>11, <3>2 DEF DependsOff, TypeOK
    <3> QED BY <3>1, <3>2
  <2> QED BY <1>11, <2>2 DEF DependsOff, TypeOK, States
<1>12. ASSUME NEW q \in Queues, NEW S \in SUBSET Jobs, Unfail(q, S)
       PROVE  TypeOK'
  BY <1>12, PlacesTyped DEF Unfail, TypeOK, States, QueueNames
<1>13. ASSUME NEW q \in Queues, NEW M \in SUBSET Jobs, CheckScheduled(q, M)
       PROVE  TypeOK'
  BY <1>13, PlacesTyped DEF CheckScheduled, TypeOK, States, QueueNames
<1>14. ASSUME NEW q \in Queues, Counts(q)
       PROVE  TypeOK'
  BY <1>13, <1>14 DEF Counts, DueIn
<1>15. ASSUME NEW q \in Queues, NEW limit \in Limits, Peek(q, limit)
       PROVE  TypeOK'
  <2>1. PICK M \in SUBSET Jobs : CheckScheduled(q, M)
    BY <1>15 DEF Peek, Batch, DueIn
  <2> QED BY <1>13, <2>1
<1>16. ASSUME NEW q \in Queues, Pause(q) \/ Unpause(q)
       PROVE  TypeOK'
  BY <1>16 DEF Pause, Unpause, TypeOK
<1>17. ASSUME NEW w \in Workers, ForgetJobsOf(w)
       PROVE  TypeOK'
  BY <1>17 DEF ForgetJobsOf, TypeOK
<1>18. ASSUME NEW j \in Jobs, NEW place \in where[j], TimeUp(j, place)
       PROVE  TypeOK'
  BY <1>18 DEF TimeUp, TypeOK
<1>19. ASSUME NEW p \in Procs, NEW j \in Jobs, Abandon(p, j)
       PROVE  TypeOK'
  BY <1>19 DEF Abandon, TypeOK
<1>20. ASSUME NEW p \in Procs, NEW j \in Jobs, Resume(p, j)
       PROVE  TypeOK'
  <2>1. {Locks(queue[j])} \in SUBSET Places
    BY PlacesTyped DEF TypeOK
  <2>2. where' \in [Jobs -> SUBSET Places] /\ due' \in [Jobs -> SUBSET Places]
    BY <1>20, <2>1, RelocateTyped DEF Resume
  <2> QED BY <1>20, <2>2 DEF Resume, TypeOK
<1>21. CASE UNCHANGED vars
  BY <1>21 DEF vars, TypeOK
<1> QED
  BY <1>1, <1>2, <1>3, <1>4, <1>5, <1>6, <1>7, <1>8, <1>9, <1>10, <1>11,
     <1>12, <1>14, <1>15, <1>16, <1>17, <1>18, <1>19, <1>20, <1>21
  DEF Next, ClientStep, WorkerStep

(* Every operation writes values of the right type, whatever the names the *)
(* workers go by.                                                          *)
THEOREM TypeCorrect == Spec => []TypeOK
BY TypeInit, TypeNext, PTL DEF Spec

-----------------------------------------------------------------------------
(***************************************************************************)
(* The inductive invariant.  It holds when no two processes share a name,  *)
(* as README.md line 20 says of workers; the run one_queue shows what a    *)
(* retry in the name of another can do.  Placement is not inductive alone: *)
(* a retry puts the job in the queue its Job object names (OwnersUpToDate),*)
(* a pop takes the locks that are due for locks that are held              *)
(* (DueIsPlaced), and complete frees the jobs on its list of dependents    *)
(* (DependenciesOK).                                                       *)
(***************************************************************************)
UniqueNames == \A p, r \in Procs : NameOf[p] = NameOf[r] => p = r

DueIsPlaced == \A j \in Jobs : due[j] \subseteq where[j]

IInv == /\ TypeOK
        /\ DueIsPlaced
        /\ Placement
        /\ DependenciesOK
        /\ OwnersUpToDate
        /\ RetriesOK

-----------------------------------------------------------------------------
(* Places of different kinds differ, and those of one kind by their queue. *)
LEMMA PlacesDiffer ==
    ASSUME NEW q \in QueueNames, NEW r \in QueueNames
    PROVE  /\ Work(q) # Locks(r) /\ Work(q) # Scheduled(r) /\ Work(q) # Depends(r)
           /\ Locks(q) # Scheduled(r) /\ Locks(q) # Depends(r)
           /\ Scheduled(q) # Depends(r)
           /\ \A place \in {Work(q), Locks(q), Scheduled(q), Depends(q)} :
                 /\ place \notin {Failures, Completed}
                 /\ place \in InQueue(r) <=> q = r
           /\ Failures # Completed
           /\ {Failures, Completed} \cap InQueue(q) = {}
           /\ Work(q) = Work(r) => q = r
           /\ Locks(q) = Locks(r) => q = r
           /\ Scheduled(q) = Scheduled(r) => q = r
           /\ Depends(q) = Depends(r) => q = r
BY DEF Work, Locks, Scheduled, Depends, Failures, Completed, InQueue, QueueKinds

(* What an entry of a set says about the job: its state, its queue, and    *)
(* that the job is nowhere else.                                           *)
LEMMA EntryTells ==
    ASSUME TypeOK, Placement, NEW j \in Jobs, NEW q \in QueueNames
    PROVE  /\ Work(q) \in where[j] =>
                /\ state[j] \in {"waiting", "stalled"}
                /\ queue[j] = q /\ where[j] = {Work(q)} /\ q # NoQueue
           /\ Locks(q) \in where[j] =>
                /\ state[j] = "running"
                /\ queue[j] = q /\ where[j] = {Locks(q)} /\ q # NoQueue
           /\ Scheduled(q) \in where[j] =>
                /\ state[j] \in {"waiting", "scheduled"}
                /\ queue[j] = q /\ where[j] = {Scheduled(q)} /\ q # NoQueue
           /\ Failures \in where[j] =>
                /\ state[j] = "failed" /\ where[j] = {Failures}
           /\ Completed \in where[j] =>
                /\ state[j] = "complete" /\ where[j] = {Completed}
<1>1. /\ Placed(state[j], queue[j], where[j])
      /\ state[j] \in States /\ queue[j] \in QueueNames
  BY DEF TypeOK, Placement
<1>2. PICK r \in QueueNames : r = queue[j]
  BY <1>1
<1> QED
  BY <1>1, <1>2, PlacesDiffer DEF Placed, Homes, States

(* What the state says about where the job is.                             *)
LEMMA StateTells ==
    ASSUME TypeOK, Placement, NEW j \in Jobs
    PROVE  /\ state[j] = "running" => where[j] = {Locks(queue[j])}
           /\ state[j] = "depends" => where[j] = {Depends(queue[j])}
           /\ state[j] = "failed"  => where[j] = {Failures}
           /\ state[j] = "complete" => where[j] = {Completed} /\ queue[j] = NoQueue
           /\ state[j] = "absent" => where[j] = {} /\ queue[j] = NoQueue
           /\ state[j] \notin {"absent", "complete"} => queue[j] \in Queues
           /\ where[j] \subseteq InQueue(queue[j])
                    \cup {pl \in {Failures} : state[j] = "failed"}
                    \cup {pl \in {Completed} : state[j] = "complete"}
<1>1. /\ Placed(state[j], queue[j], where[j])
      /\ state[j] \in States /\ queue[j] \in QueueNames
  BY DEF TypeOK, Placement
<1> QED
  BY <1>1, PlacesDiffer DEF Placed, Homes, States, QueueNames

(* An operation on one job places it well if it does so for that job.      *)
LEMMA OneJobPlaced ==
    ASSUME TypeOK, DueIsPlaced, Placement, NEW j \in Jobs,
           NEW st, NEW q, NEW gone, NEW new,
           state' = [state EXCEPT ![j] = st],
           queue' = [queue EXCEPT ![j] = q],
           Relocate(j, gone, new),
           Placed(st, q, (where[j] \ gone) \cup new)
    PROVE  DueIsPlaced' /\ Placement'
<1>1. DueIsPlaced'
  BY DEF TypeOK, DueIsPlaced, Relocate
<1>2. ASSUME NEW k \in Jobs PROVE Placed(state'[k], queue'[k], where'[k])
  <2>1. CASE k = j
    <3>1. /\ state'[k] = st /\ queue'[k] = q
          /\ where'[k] = (where[j] \ gone) \cup new
      BY <2>1 DEF TypeOK, Relocate
    <3> QED BY <3>1
  <2>2. CASE k # j
    <3>1. /\ state'[k] = state[k] /\ queue'[k] = queue[k]
          /\ where'[k] = where[k]
      BY <2>2 DEF TypeOK, Relocate
    <3> QED BY <3>1 DEF Placement
  <2> QED BY <2>1, <2>2
<1> QED BY <1>1, <1>2 DEF Placement

(* An operation that changes no link keeps the dependencies right if no    *)
(* job enters or leaves the depends state and none stops being pending.    *)
LEMMA LinksKept ==
    ASSUME TypeOK, DependenciesOK, UNCHANGED links,
           \A k \in Jobs : /\ state'[k] = "depends" <=> state[k] = "depends"
                           /\ Pending(k) => state'[k] \notin {"absent", "complete"}
    PROVE  DependenciesOK'
<1>1. deps' = deps /\ dependents' = dependents
  BY DEF links
<1>2. ASSUME NEW k \in Jobs, NEW d \in deps[k]
      PROVE  state'[d] \notin {"absent", "complete"}
  BY DEF DependenciesOK, TypeOK
<1> QED BY <1>1, <1>2 DEF DependenciesOK, Pending

(* The conditions the calls of an owner check, spelled out.                *)
LEMMA LeaseTells ==
    ASSUME IInv, NEW p \in Procs, NEW j \in Jobs, Leased(j, NameOf[p])
    PROVE  /\ state[j] = "running" /\ worker[j] = NameOf[p]
           /\ where[j] = {Locks(queue[j])}
           /\ queue[j] \in Queues /\ queue[j] # NoQueue
           /\ Holds(p, j) => held[p][j] = queue[j]
           /\ remaining[j] \in Nat /\ deps[j] = {}
<1>1. state[j] = "running" /\ worker[j] = NameOf[p]
  BY DEF Leased
<1>2. where[j] = {Locks(queue[j])} /\ queue[j] \in Queues
  BY <1>1, StateTells DEF IInv
<1>3. Holds(p, j) => held[p][j] = queue[j]
  BY <1>1 DEF IInv, OwnersUpToDate, Holds
<1>4. remaining[j] \in Nat
  BY <1>1 DEF IInv, RetriesOK, TypeOK
<1>5. deps[j] = {}
  BY <1>1 DEF IInv, DependenciesOK
<1> QED BY <1>1, <1>2, <1>3, <1>4, <1>5, NullAssumption

-----------------------------------------------------------------------------
(* Putting a job, in whatever state it is.                                 *)
LEMMA PutKeeps ==
    ASSUME IInv, NEW q \in Queues, NEW j \in Jobs, NEW ds \in SUBSET Jobs,
           NEW delayed \in BOOLEAN, NEW n \in Retries,
           Put(q, j, ds, delayed, n), TypeOK'
    PROVE  IInv'
<1> DEFINE new    == NewDeps(j, ds)
           drop   == deps[j] \ KeptDeps(j, ds)
           target == IF new # {} THEN Depends(q)
                     ELSE IF delayed THEN Scheduled(q) ELSE Work(q)
           st     == IF new # {} THEN "depends"
                     ELSE IF delayed THEN "scheduled" ELSE "waiting"
           gone   == InQueue(queue[j])
                       \cup {pl \in {Failures} : state[j] = "failed"}
                       \cup {pl \in {Completed} : state[j] = "complete"}
<1> USE DEF IInv
<1>1. DueIsPlaced' /\ Placement'
  <2>1. (where[j] \ gone) \cup {target} = {target}
    BY StateTells
  <2>2. Placed(st, q, {target})
    BY NullAssumption DEF Placed, Homes
  <2>3. /\ state' = [state EXCEPT ![j] = st]
        /\ queue' = [queue EXCEPT ![j] = q]
        /\ Relocate(j, gone, {target})
    BY DEF Put
  <2> HIDE DEF gone, target, st
  <2> QED BY <2>1, <2>2, <2>3, OneJobPlaced
<1>2. DependenciesOK'
  <2>1. \A d \in new : d \in Jobs /\ (d = j \/ Pending(d))
    BY DEF NewDeps, KeptDeps, DependenciesOK, TypeOK
  <2>2. \A k \in Jobs : state'[k] = (IF k = j THEN st ELSE state[k])
    BY DEF Put, TypeOK
  <2>3. \A k \in Jobs : deps'[k] = (IF k = j THEN new ELSE deps[k])
    BY DEF Put, TypeOK
  <2>4. \A d \in Jobs : dependents'[d] = (IF d \in new THEN dependents[d] \cup {j}
                                          ELSE IF d \in drop THEN dependents[d] \ {j}
                                          ELSE dependents[d])
    BY DEF Put
  <2>5. \A d \in Jobs : d \notin new /\ d \notin drop => d \notin deps[j]
    BY DEF NewDeps
  <2>6. \A k \in Jobs : Pending(k) \/ k = j => state'[k] \notin {"absent", "complete"}
    BY <2>2 DEF Pending
  <2>7. st = "depends" <=> new # {}
    OBVIOUS
  <2> HIDE DEF new, drop, st
  <2>8. ASSUME NEW k \in Jobs PROVE state'[k] = "depends" <=> deps'[k] # {}
    BY <2>2, <2>3, <2>7 DEF DependenciesOK
  <2>9. ASSUME NEW k \in Jobs, NEW d \in Jobs
        PROVE  d \in deps'[k] <=> k \in dependents'[d]
    <3>1. d \in deps[k] <=> k \in dependents[d]
      BY DEF DependenciesOK
    <3> QED BY <3>1, <2>3, <2>4, <2>5
  <2>10. ASSUME NEW k \in Jobs, NEW d \in deps'[k]
         PROVE  state'[d] \notin {"absent", "complete"}
    <3>1. CASE k = j
      BY <3>1, <2>1, <2>3, <2>6
    <3>2. CASE k # j
      <4>1. d \in deps[k] /\ d \in Jobs
        BY <3>2, <2>3 DEF TypeOK
      <4>2. Pending(d)
        BY <4>1 DEF DependenciesOK
      <4> QED BY <4>1, <4>2, <2>6
    <3> QED BY <3>1, <3>2
  <2> QED BY <2>8, <2>9, <2>10 DEF DependenciesOK, Pending
<1>3. OwnersUpToDate'
  <2>1. \A k \in Jobs : state'[k] = "running" =>
            state[k] = "running" /\ worker'[k] = worker[k] /\ queue'[k] = queue[k]
    BY DEF Put, TypeOK
  <2>2. held' = held
    BY DEF Put
  <2> QED BY <2>1, <2>2 DEF OwnersUpToDate
<1>4. RetriesOK'
  <2>1. n \in Nat
    BY RetriesAssumption
  <2>2. \A k \in Jobs : \/ remaining'[k] = n /\ retries'[k] = n
                        \/ /\ remaining'[k] = remaining[k]
                           /\ retries'[k] = retries[k]
                           /\ state'[k] = state[k]
    BY DEF Put, TypeOK
  <2> QED BY <2>1, <2>2 DEF RetriesOK
<1> QED BY <1>1, <1>2, <1>3, <1>4

-----------------------------------------------------------------------------
(* No process takes up or gives up a Job object for k.                     *)
SameHolders(k) == \A r \in Procs : held'[r][k] = held[r][k]

(* What popping does to one job: the job had a due lock and gets the grace *)
(* period, fails or is handed out again; or it was delayed or work, and is *)
(* handed out or becomes work; or it is not touched.                       *)
LEMMA HandOutCases ==
    ASSUME IInv, NEW p \in Procs, NEW q \in Queues,
           NEW E \in SUBSET DueIn(Locks(q)), NEW M \in SUBSET DueIn(Scheduled(q)),
           NEW T \in SUBSET (Members(Work(q)) \cup M),
           HandOut(p, q, E, M, T), NEW k \in Jobs
    PROVE  \/ /\ state[k] = "running" /\ state'[k] = "running" /\ queue[k] = q
              /\ worker'[k] = worker[k] /\ remaining'[k] = remaining[k]
              /\ where'[k] = {Locks(q)} /\ SameHolders(k)
           \/ /\ state[k] = "running" /\ state'[k] = "failed" /\ queue[k] = q
              /\ remaining[k] = 0 /\ remaining'[k] = -1 /\ where'[k] = {Failures}
           \/ /\ state[k] \in {"running", "waiting", "stalled", "scheduled"}
              /\ state'[k] = "running" /\ queue[k] = q
              /\ worker'[k] = NameOf[p] /\ where'[k] = {Locks(q)}
              /\ held'[p][k] = q
              /\ \/ remaining'[k] = remaining[k] /\ state[k] # "running"
                 \/ remaining[k] > 0 /\ remaining'[k] = remaining[k] - 1
           \/ /\ state[k] \in {"waiting", "scheduled"} /\ state'[k] = "waiting"
              /\ queue[k] = q /\ remaining'[k] = remaining[k]
              /\ where'[k] = {Work(q)}
           \/ /\ state'[k] = state[k] /\ worker'[k] = worker[k]
              /\ remaining'[k] = remaining[k] /\ where'[k] = where[k]
              /\ SameHolders(k)
<1> USE DEF IInv
<1> DEFINE spent   == Exhausted(E)
           dead    == Dead(E)
           taken   == dead \cup {j \in T : state[j] # "absent"}
           gone    == {pl \in InQueue(q) :
                       \/ k \in spent /\ pl # Depends(q)
                       \/ k \in M /\ pl = Scheduled(q)
                       \/ k \in T /\ pl = Work(q)}
           new     == {pl \in InQueue(q) \cup {Failures} :
                       \/ k \in spent /\ pl = Failures
                       \/ k \in M \ T /\ pl = Work(q)
                       \/ k \in taken \cup Courteous(E) /\ pl = Locks(q)}
<1>1. q \in QueueNames
  BY DEF QueueNames
<1>2. /\ state'[k] = (IF k \in taken THEN "running" ELSE IF k \in spent THEN "failed"
                      ELSE IF k \in M THEN "waiting" ELSE state[k])
      /\ worker'[k] = (IF k \in taken THEN NameOf[p]
                       ELSE IF k \in spent THEN NoWorker ELSE worker[k])
      /\ remaining'[k] = (IF k \in spent \cup dead THEN remaining[k] - 1
                          ELSE remaining[k])
      /\ where'[k] = (where[k] \ gone) \cup new
  BY DEF HandOut
<1>3. \A r \in Procs : held'[r][k] = IF r = p /\ k \in taken THEN queue[k]
                                    ELSE held[r][k]
  BY DEF HandOut, TypeOK
<1>4. k \in E => /\ state[k] = "running" /\ queue[k] = q
                 /\ where[k] = {Locks(q)} /\ k \notin M /\ k \notin T
                 /\ remaining[k] \in Nat
  <2>1. k \in E => Locks(q) \in where[k]
    BY DEF DueIn, DueIsPlaced
  <2>2. k \in E => state[k] = "running" /\ queue[k] = q /\ where[k] = {Locks(q)}
    BY <1>1, <2>1, EntryTells
  <2>3. k \in E => k \notin M /\ k \notin T
    BY <1>1, <2>2, PlacesDiffer DEF DueIn, DueIsPlaced, Members
  <2>4. k \in E => remaining[k] \in Nat
    BY <2>2 DEF RetriesOK, TypeOK
  <2> QED BY <2>2, <2>3, <2>4
<1>5. k \in M => /\ state[k] \in {"waiting", "scheduled"} /\ queue[k] = q
                 /\ where[k] = {Scheduled(q)}
  <2>1. k \in M => Scheduled(q) \in where[k]
    BY DEF DueIn, DueIsPlaced
  <2> QED BY <1>1, <2>1, EntryTells
<1>6. k \in T /\ k \notin M => /\ state[k] \in {"waiting", "stalled"} /\ queue[k] = q
                               /\ where[k] = {Work(q)}
  <2>1. k \in T /\ k \notin M => Work(q) \in where[k]
    BY DEF Members
  <2> QED BY <1>1, <2>1, EntryTells
<1>7. /\ spent \subseteq E /\ dead \subseteq E /\ Courteous(E) \subseteq E
      /\ spent \cap dead = {} /\ spent \cap Courteous(E) = {}
      /\ dead \cap Courteous(E) = {}
      /\ k \in E => k \in spent \/ k \in dead \/ k \in Courteous(E)
      /\ k \in spent => remaining[k] < 1
      /\ k \in dead => ~ (remaining[k] < 1)
  BY DEF Exhausted, Dead, Courteous
<1>8. /\ Locks(q) \in InQueue(q) /\ Work(q) \in InQueue(q)
      /\ Scheduled(q) \in InQueue(q) /\ Failures \notin InQueue(q)
      /\ Locks(q) # Work(q) /\ Locks(q) # Scheduled(q) /\ Locks(q) # Depends(q)
      /\ Work(q) # Scheduled(q)
  BY <1>1, PlacesDiffer
<1>9. CASE k \in Courteous(E)
  <2>1. gone = {} /\ new = {Locks(q)}
    BY <1>4, <1>7, <1>8, <1>9
  <2>2. where'[k] = {Locks(q)}
    BY <1>2, <1>4, <1>7, <1>9, <2>1
  <2>3. SameHolders(k)
    BY <1>3, <1>7, <1>4, <1>9 DEF SameHolders
  <2> QED BY <1>2, <1>4, <1>7, <1>9, <2>2, <2>3
<1>10. CASE k \in spent
  <2>1. Locks(q) \in gone /\ new = {Failures}
    BY <1>4, <1>7, <1>8, <1>10
  <2>2. where'[k] = {Failures}
    BY <1>2, <1>4, <1>7, <1>10, <2>1
  <2>3. remaining[k] = 0 /\ remaining'[k] = -1
    BY <1>2, <1>4, <1>7, <1>10
  <2> QED BY <1>2, <1>4, <1>7, <1>10, <2>2, <2>3
<1>11. CASE k \in dead
  <2>1. gone = {} /\ new = {Locks(q)}
    BY <1>4, <1>7, <1>8, <1>11
  <2>2. where'[k] = {Locks(q)}
    BY <1>2, <1>4, <1>7, <1>11, <2>1
  <2>3. remaining[k] > 0 /\ remaining'[k] = remaining[k] - 1
    BY <1>2, <1>4, <1>7, <1>11
  <2> QED BY <1>2, <1>3, <1>4, <1>7, <1>11, <2>2, <2>3
<1>12. CASE k \in T
  <2>1. k \notin E /\ k \in taken
    BY <1>4, <1>5, <1>6, <1>12
  <2>2. new = {Locks(q)}
    BY <1>7, <1>8, <1>12, <2>1
  <2>3. where[k] \subseteq gone
    BY <1>5, <1>6, <1>8, <1>12
  <2>4. where'[k] = {Locks(q)}
    BY <1>2, <2>2, <2>3
  <2>5. remaining'[k] = remaining[k]
    BY <1>2, <1>7, <2>1
  <2> QED BY <1>2, <1>3, <1>5, <1>6, <1>12, <2>1, <2>4, <2>5
<1>13. CASE k \in M \ T
  <2>1. k \notin E /\ k \notin taken /\ k \notin spent
    BY <1>4, <1>7, <1>13
  <2>2. gone = {Scheduled(q)} /\ new = {Work(q)}
    BY <1>7, <1>8, <1>13, <2>1
  <2>3. where'[k] = {Work(q)}
    BY <1>2, <1>5, <1>13, <2>2
  <2> QED BY <1>2, <1>5, <1>7, <1>13, <2>1, <2>3
<1>14. CASE k \notin E /\ k \notin M /\ k \notin T
  <2>1. k \notin taken /\ k \notin spent /\ k \notin dead
    BY <1>7, <1>14
  <2>2. gone = {} /\ new = {}
    BY <1>7, <1>14, <2>1
  <2>3. where'[k] = where[k]
    BY <1>2, <2>2
  <2>4. SameHolders(k)
    BY <1>3, <2>1 DEF SameHolders
  <2> QED BY <1>2, <1>14, <2>1, <2>3, <2>4
<1> QED
  BY <1>7, <1>9, <1>10, <1>11, <1>12, <1>13, <1>14

(* Popping keeps the invariant.                                            *)
LEMMA PopKeeps ==
    ASSUME UniqueNames, IInv, NEW p \in Procs, NEW q \in Queues,
           NEW limit \in Limits, Pop(p, q, limit), TypeOK'
    PROVE  IInv'
<1> USE DEF IInv
<1>1. PICK E \in SUBSET DueIn(Locks(q)), M \in SUBSET DueIn(Scheduled(q)) :
        \E T \in SUBSET (Members(Work(q)) \cup M) : HandOut(p, q, E, M, T)
  BY DEF Pop, Batch
<1>2. PICK T \in SUBSET (Members(Work(q)) \cup M) : HandOut(p, q, E, M, T)
  BY <1>1
<1>3. /\ queue' = queue /\ retries' = retries /\ UNCHANGED links
  BY <1>2 DEF HandOut
<1>4. DueIsPlaced'
  <2> DEFINE gone(j) == {pl \in InQueue(q) :
                       \/ j \in Exhausted(E) /\ pl # Depends(q)
                       \/ j \in M /\ pl = Scheduled(q)
                       \/ j \in T /\ pl = Work(q)}
             new(j)  == {pl \in InQueue(q) \cup {Failures} :
                       \/ j \in Exhausted(E) /\ pl = Failures
                       \/ j \in M \ T /\ pl = Work(q)
                       \/ /\ j \in (Dead(E) \cup {i \in T : state[i] # "absent"})
                                     \cup Courteous(E)
                          /\ pl = Locks(q)}
  <2>1. /\ where' = [j \in Jobs |-> (where[j] \ gone(j)) \cup new(j)]
        /\ due'   = [j \in Jobs |-> (due[j] \ gone(j)) \ new(j)]
    BY <1>2 DEF HandOut
  <2> HIDE DEF gone, new
  <2> QED BY <2>1 DEF DueIsPlaced
<1>5. q \in Queues /\ q # NoQueue
  BY NullAssumption
<1>6. Placement'
  <2>1. ASSUME NEW k \in Jobs PROVE Placed(state'[k], queue'[k], where'[k])
    <3>1. Placed(state[k], queue[k], where[k])
      BY DEF Placement
    <3> QED BY <1>2, <1>3, <1>5, <3>1, HandOutCases DEF Placed, Homes
  <2> QED BY <2>1 DEF Placement
<1>7. DependenciesOK'
  <2>1. ASSUME NEW k \in Jobs
        PROVE  /\ state'[k] = "depends" <=> state[k] = "depends"
               /\ Pending(k) => state'[k] \notin {"absent", "complete"}
    BY <1>2, HandOutCases DEF Pending
  <2> QED BY <1>3, <2>1, LinksKept
<1>8. OwnersUpToDate'
  <2>1. ASSUME NEW k \in Jobs, state'[k] = "running"
        PROVE  /\ worker'[k] \in Workers
               /\ \A r \in Procs : NameOf[r] = worker'[k] =>
                                    held'[r][k] \in {queue'[k], NoJob}
    <3>1. CASE worker'[k] = NameOf[p] /\ held'[p][k] = queue'[k]
      BY <3>1, NamesAssumption DEF UniqueNames
    <3>2. CASE /\ state[k] = "running" /\ worker'[k] = worker[k]
               /\ SameHolders(k)
      BY <1>3, <3>2 DEF OwnersUpToDate, SameHolders
    <3>3. \/ state[k] = "running" /\ worker'[k] = worker[k]
                /\ SameHolders(k)
          \/ worker'[k] = NameOf[p] /\ held'[p][k] = queue[k]
      BY <1>2, <2>1, HandOutCases
    <3> QED BY <1>3, <3>1, <3>2, <3>3
  <2> QED BY <2>1 DEF OwnersUpToDate
<1>9. RetriesOK'
  <2>1. ASSUME NEW k \in Jobs
        PROVE  /\ remaining'[k] \in -1 .. retries'[k]
               /\ remaining'[k] = -1 => state'[k] = "failed"
    <3>1. /\ remaining[k] \in -1 .. retries[k] /\ retries[k] \in Nat
          /\ remaining[k] = -1 => state[k] = "failed"
      BY DEF RetriesOK, TypeOK
    <3>2. \/ remaining'[k] = remaining[k] /\ state'[k] = state[k]
          \/ remaining'[k] = remaining[k] /\ state[k] # "failed"
          \/ remaining'[k] = -1 /\ state'[k] = "failed"
          \/ remaining[k] > 0 /\ remaining'[k] = remaining[k] - 1
      BY <1>2, HandOutCases
    <3> QED BY <1>3, <3>1, <3>2
  <2> QED BY <2>1 DEF RetriesOK
<1> QED BY <1>4, <1>6, <1>7, <1>8, <1>9

-----------------------------------------------------------------------------
(* The calls of an owner.                                                  *)
LEMMA CompleteKeeps ==
    ASSUME IInv, NEW p \in Procs, NEW j \in Jobs,
           NEW forgotten \in SUBSET (Members(Completed) \cup {j}),
           Complete(p, j, forgotten), TypeOK'
    PROVE  IInv'
<1> USE DEF IInv
<1> DEFINE freed   == Released(j) \ forgotten
           gone(k) == IF k = j THEN InQueue(queue[j])
                      ELSE IF k \in freed THEN {Depends(queue[k])} ELSE {}
           new(k)  == IF k = j THEN {Completed}
                      ELSE IF k \in freed THEN {Freed(k)} ELSE {}
<1>1. /\ state[j] = "running" /\ where[j] = {Locks(queue[j])} /\ deps[j] = {}
      /\ queue[j] \in Queues
  BY LeaseTells DEF Complete, MayComplete
<1>2. ASSUME NEW k \in forgotten, k # j
      PROVE  /\ k \in Jobs /\ state[k] = "complete" /\ where[k] = {Completed}
             /\ queue[k] = NoQueue /\ deps[k] = {}
  <2>1. k \in Jobs /\ Completed \in where[k]
    BY <1>2 DEF Members
  <2>2. state[k] = "complete"
    BY <2>1, EntryTells, NullAssumption DEF QueueNames
  <2> QED BY <2>1, <2>2, StateTells DEF DependenciesOK
<1>3. ASSUME NEW k \in freed
      PROVE  /\ k \in Jobs /\ k # j /\ k \notin forgotten
             /\ state[k] = "depends" /\ where[k] = {Depends(queue[k])}
             /\ queue[k] \in Queues /\ deps[k] = {j} /\ k \in dependents[j]
  <2>1. k \in Jobs /\ k \notin forgotten /\ deps[k] = {j} /\ k \in dependents[j]
    BY DEF Released, TypeOK
  <2>2. state[k] = "depends"
    BY <2>1 DEF DependenciesOK
  <2> QED BY <1>1, <2>1, <2>2, StateTells
<1>4. \A k \in Jobs : state'[k] = (IF k \in forgotten THEN "absent"
                                   ELSE IF k = j THEN "complete"
                                   ELSE IF k \notin freed THEN state[k]
                                   ELSE IF later[k] THEN "scheduled" ELSE "waiting")
  BY DEF Complete
<1>5. \A k \in Jobs : queue'[k] = (IF k \in forgotten \/ k = j THEN NoQueue
                                   ELSE queue[k])
  BY DEF Complete, TypeOK
<1>6. /\ where' = [k \in Jobs |-> ((where[k] \ gone(k)) \cup new(k))
                                     \ {pl \in {Completed} : k \in forgotten}]
      /\ due'   = [k \in Jobs |-> due[k] \ (gone(k) \cup new(k) \cup {Completed})]
  BY DEF Complete
<1>7. DueIsPlaced'
  <2> HIDE DEF gone, new
  <2> QED BY <1>6 DEF DueIsPlaced
<1>8. ASSUME NEW k \in Jobs PROVE Placed(state'[k], queue'[k], where'[k])
  <2>1. where'[k] = ((where[k] \ gone(k)) \cup new(k))
                       \ {pl \in {Completed} : k \in forgotten}
    <3> HIDE DEF gone, new
    <3> QED BY <1>6
  <2>2. CASE k \in forgotten
    <3>1. state'[k] = "absent" /\ queue'[k] = NoQueue
      BY <1>4, <1>5, <2>2
    <3>2. CASE k = j
      <4>1. where[k] \subseteq gone(k) /\ new(k) = {Completed}
        BY <1>1, <3>2, PlacesDiffer DEF QueueNames
      <4> QED BY <2>1, <2>2, <3>1, <4>1 DEF Placed
    <3>3. CASE k # j
      <4>1. where[k] = {Completed} /\ new(k) = {}
        BY <1>2, <2>2, <3>3
      <4> QED BY <2>1, <2>2, <3>1, <4>1 DEF Placed
    <3> QED BY <3>2, <3>3
  <2>3. CASE k = j /\ k \notin forgotten
    <3>1. state'[k] = "complete" /\ queue'[k] = NoQueue
      BY <1>4, <1>5, <2>3
    <3>2. where[k] \subseteq gone(k) /\ new(k) = {Completed}
      BY <1>1, <2>3, PlacesDiffer DEF QueueNames
    <3>3. where'[k] = {Completed}
      BY <2>1, <2>3, <3>2
    <3> QED BY <3>1, <3>3 DEF Placed, Homes
  <2>4. CASE k \in freed
    <3>1. /\ state'[k] = IF later[k] THEN "scheduled" ELSE "waiting"
          /\ queue'[k] = queue[k]
      BY <1>3, <1>4, <1>5, <2>4
    <3>2. where[k] \subseteq gone(k) /\ new(k) = {Freed(k)}
      BY <1>3, <2>4
    <3>3. where'[k] = {Freed(k)}
      BY <1>3, <2>1, <2>4, <3>2
    <3>4. queue[k] # NoQueue
      BY <1>3, <2>4, NullAssumption
    <3> QED BY <3>1, <3>3, <3>4 DEF Placed, Homes, Freed
  <2>5. CASE k \notin forgotten /\ k # j /\ k \notin freed
    <3>1. state'[k] = state[k] /\ queue'[k] = queue[k]
      BY <1>4, <1>5, <2>5
    <3>2. gone(k) = {} /\ new(k) = {}
      BY <2>5
    <3>3. where'[k] = where[k]
      BY <2>1, <2>5, <3>2
    <3> QED BY <3>1, <3>3 DEF Placement
  <2> QED BY <2>2, <2>3, <2>4, <2>5
<1>9. DependenciesOK'
  <2>1. \A k \in Jobs : deps'[k] = (IF k \in forgotten THEN {}
                                    ELSE IF k \in dependents[j] THEN deps[k] \ {j}
                                    ELSE deps[k])
    BY DEF Complete
  <2>2. \A d \in Jobs : dependents'[d] = (IF d = j THEN {} ELSE dependents[d])
    BY DEF Complete, TypeOK
  <2>3. \A k \in Jobs : k \in dependents[j] <=> j \in deps[k]
    BY DEF DependenciesOK
  <2>4. \A k \in Jobs : k \in forgotten => deps[k] = {}
    BY <1>1, <1>2
  <2>5. \A k \in Jobs : k \notin forgotten /\ deps[k] = {j} => k \in freed
    BY <2>3, StateTells DEF Released, DependenciesOK
  <2>6. \A k \in freed : deps[k] = {j} /\ k \in Jobs /\ k # j /\ k \notin forgotten
    BY <1>3
  <2>7. ASSUME NEW k \in Jobs PROVE state'[k] = "depends" <=> deps'[k] # {}
    <3>1. state[k] = "depends" <=> deps[k] # {}
      BY DEF DependenciesOK
    <3>2. deps'[k] = {} <=> deps[k] \in {{}, {j}}
      BY <2>1, <2>3, <2>4
    <3>3. k = j => deps[k] = {}
      BY <1>1
    <3> HIDE DEF freed
    <3> QED BY <1>4, <2>4, <2>5, <2>6, <3>1, <3>2, <3>3
  <2>8. ASSUME NEW k \in Jobs, NEW d \in Jobs
        PROVE  d \in deps'[k] <=> k \in dependents'[d]
    <3>1. d \in deps[k] <=> k \in dependents[d]
      BY DEF DependenciesOK
    <3> QED BY <2>1, <2>2, <2>3, <2>4, <3>1
  <2>9. ASSUME NEW k \in Jobs, NEW d \in deps'[k]
        PROVE  state'[d] \notin {"absent", "complete"}
    <3>1. d \in deps[k] /\ d # j /\ d \in Jobs
      <4>1. deps'[k] = IF k \in forgotten THEN {}
                       ELSE IF k \in dependents[j] THEN deps[k] \ {j}
                       ELSE deps[k]
        BY <2>1
      <4>2. k \in dependents[j] <=> j \in deps[k]
        BY <2>3
      <4>3. d \in deps[k] /\ d # j
        BY <4>1, <4>2
      <4>4. deps[k] \subseteq Jobs
        BY DEF TypeOK
      <4> QED BY <4>3, <4>4
    <3>2. state[d] \notin {"absent", "complete"}
      BY <3>1 DEF DependenciesOK, Pending
    <3>3. d \notin forgotten
      BY <1>2, <3>1, <3>2
    <3> HIDE DEF freed
    <3> QED BY <1>4, <3>1, <3>2, <3>3
  <2> QED BY <2>7, <2>8, <2>9 DEF DependenciesOK, Pending
<1>10. OwnersUpToDate'
  <2>1. ASSUME NEW k \in Jobs, state'[k] = "running"
        PROVE  state[k] = "running" /\ k # j /\ k \notin forgotten
    <3> HIDE DEF freed
    <3> QED BY <1>4, <2>1
  <2>2. \A k \in Jobs : k # j /\ k \notin forgotten => worker'[k] = worker[k]
    BY DEF Complete, TypeOK
  <2>3. held' = held
    BY DEF Complete
  <2>4. \A k \in Jobs : state'[k] = "running" =>
           state[k] = "running" /\ worker'[k] = worker[k] /\ queue'[k] = queue[k]
    BY <1>5, <2>1, <2>2
  <2> QED BY <2>3, <2>4 DEF OwnersUpToDate
<1>11. RetriesOK'
  <2>1. \A k \in Jobs : /\ retries'[k] = (IF k \in forgotten THEN 0 ELSE retries[k])
                        /\ remaining'[k] = (IF k \in forgotten THEN 0
                                            ELSE IF k = j THEN retries[k]
                                            ELSE remaining[k])
    BY DEF Complete, TypeOK
  <2>2. ASSUME NEW k \in Jobs
        PROVE  /\ remaining'[k] \in -1 .. retries'[k]
               /\ remaining'[k] = -1 => state'[k] = "failed"
    <3>1. /\ remaining[k] \in -1 .. retries[k] /\ retries[k] \in Nat
          /\ remaining[k] = -1 => state[k] = "failed"
      BY DEF RetriesOK, TypeOK
    <3>2. k \in freed => state[k] # "failed"
      BY <1>3
    <3> HIDE DEF freed
    <3> QED BY <1>4, <2>1, <3>1, <3>2
  <2> QED BY <2>2 DEF RetriesOK
<1> QED BY <1>7, <1>8, <1>9, <1>10, <1>11 DEF Placement

(* Nothing changes for owners when no job starts to run, no running job    *)
(* changes hands or queue, and no Job object is taken up.                  *)
LEMMA OwnersKept ==
    ASSUME OwnersUpToDate, held' = held,
           \A k \in Jobs : state'[k] = "running" =>
              /\ state[k] = "running"
              /\ worker'[k] = worker[k] /\ queue'[k] = queue[k]
    PROVE  OwnersUpToDate'
BY DEF OwnersUpToDate

(* The invariant is kept by what takes one running job out of its lock to  *)
(* a place of its queue, or to the failures, without ending it.            *)
LEMMA LockLeft ==
    ASSUME IInv, NEW j \in Jobs, state[j] = "running",
           NEW st \in {"waiting", "stalled", "scheduled", "failed"},
           NEW gone, Locks(queue[j]) \in gone, NEW target,
           target \in Homes(st, queue[j]),
           state' = [state EXCEPT ![j] = st], queue' = queue,
           Relocate(j, gone, {target}), UNCHANGED links, held' = held,
           \A k \in Jobs : k # j => worker'[k] = worker[k]
    PROVE  /\ DueIsPlaced' /\ Placement'
           /\ DependenciesOK' /\ OwnersUpToDate'
<1> USE DEF IInv
<1>1. /\ (where[j] \ gone) \cup {target} = {target}
      /\ queue[j] # NoQueue
  BY StateTells, NullAssumption
<1>2. Placed(st, queue[j], {target})
  BY <1>1 DEF Placed
<1>3. queue' = [queue EXCEPT ![j] = queue[j]]
  BY DEF TypeOK
<1>4. \A k \in Jobs : state'[k] = IF k = j THEN st ELSE state[k]
  BY DEF TypeOK
<1>5. DueIsPlaced' /\ Placement'
  BY <1>1, <1>2, <1>3, OneJobPlaced
<1>6. DependenciesOK'
  BY <1>4, LinksKept DEF Pending
<1>7. OwnersUpToDate'
  BY <1>4, OwnersKept
<1> QED BY <1>5, <1>6, <1>7

(* Completing into another queue.                                          *)
LEMMA RequeueKeeps ==
    ASSUME IInv, NEW p \in Procs, NEW j \in Jobs, NEW q \in Queues,
           NEW ds \in SUBSET Jobs, NEW delayed \in BOOLEAN,
           CompleteAndRequeue(p, j, q, ds, delayed), TypeOK'
    PROVE  IInv'
<1> USE DEF IInv
<1> DEFINE new    == {d \in ds : d = j \/ Pending(d)}
           target == IF new # {} THEN Depends(q)
                     ELSE IF delayed /\ ds = {} THEN Scheduled(q) ELSE Work(q)
           st     == IF new # {} THEN "depends" ELSE "waiting"
           gone   == InQueue(queue[j])
<1>1. /\ state[j] = "running" /\ where[j] = {Locks(queue[j])} /\ deps[j] = {}
      /\ queue[j] \in Queues
  BY LeaseTells DEF CompleteAndRequeue, MayComplete
<1>2. DueIsPlaced' /\ Placement'
  <2>1. (where[j] \ gone) \cup {target} = {target}
    BY <1>1, PlacesDiffer DEF QueueNames
  <2>2. Placed(st, q, {target})
    BY NullAssumption DEF Placed, Homes
  <2>3. /\ state' = [state EXCEPT ![j] = st]
        /\ queue' = [queue EXCEPT ![j] = q]
        /\ Relocate(j, gone, {target})
    BY DEF CompleteAndRequeue
  <2> HIDE DEF gone, target, st
  <2> QED BY <2>1, <2>2, <2>3, OneJobPlaced
<1>3. \A k \in Jobs : /\ state'[k] = IF k = j THEN st ELSE state[k]
                      /\ queue'[k] = IF k = j THEN q ELSE queue[k]
                      /\ worker'[k] = IF k = j THEN NoWorker ELSE worker[k]
                      /\ remaining'[k] = IF k = j THEN retries[j] ELSE remaining[k]
                      /\ retries'[k] = retries[k]
                      /\ deps'[k] = IF k = j THEN new ELSE deps[k]
  BY <1>1 DEF CompleteAndRequeue, TypeOK
<1>4. held' = held
  BY DEF CompleteAndRequeue
<1>5. DependenciesOK'
  <2>1. \A d \in Jobs : dependents'[d] = IF d \in new THEN dependents[d] \cup {j}
                                         ELSE dependents[d]
    BY DEF CompleteAndRequeue
  <2>2. \A d \in new : d \in Jobs /\ (d = j \/ Pending(d))
    OBVIOUS
  <2>3. st = "depends" <=> new # {}
    OBVIOUS
  <2>4. st \notin {"absent", "complete"}
    OBVIOUS
  <2> HIDE DEF new, st
  <2>5. ASSUME NEW k \in Jobs PROVE state'[k] = "depends" <=> deps'[k] # {}
    BY <1>3, <2>3 DEF DependenciesOK
  <2>6. ASSUME NEW k \in Jobs, NEW d \in Jobs
        PROVE  d \in deps'[k] <=> k \in dependents'[d]
    <3>1. d \in deps[k] <=> k \in dependents[d]
      BY DEF DependenciesOK
    <3>2. CASE k = j
      BY <1>1, <1>3, <2>1, <3>1, <3>2
    <3>3. CASE k # j
      BY <1>3, <2>1, <3>1, <3>3
    <3> QED BY <3>2, <3>3
  <2>7. ASSUME NEW k \in Jobs, NEW d \in deps'[k]
        PROVE  state'[d] \notin {"absent", "complete"}
    <3>1. d \in Jobs /\ (d = j \/ Pending(d))
      <4>1. CASE k = j
        BY <1>3, <2>2, <4>1
      <4>2. CASE k # j
        BY <1>3, <4>2 DEF DependenciesOK, TypeOK
      <4> QED BY <4>1, <4>2
    <3> QED BY <1>3, <2>4, <3>1 DEF Pending
  <2> QED BY <2>5, <2>6, <2>7 DEF DependenciesOK, Pending
<1>6. OwnersUpToDate'
  <2>1. st # "running"
    OBVIOUS
  <2> HIDE DEF st
  <2> QED BY <1>3, <1>4, <2>1, OwnersKept
<1>7. RetriesOK'
  <2> HIDE DEF st
  <2>1. \A k \in Jobs : \/ remaining'[k] = retries[k]
                        \/ remaining'[k] = remaining[k] /\ state'[k] = state[k]
    BY <1>3
  <2>2. \A k \in Jobs : retries'[k] = retries[k]
    BY <1>3
  <2>3. ASSUME NEW k \in Jobs
        PROVE  /\ remaining'[k] \in -1 .. retries'[k]
               /\ remaining'[k] = -1 => state'[k] = "failed"
    <3>1. /\ remaining[k] \in -1 .. retries[k] /\ retries[k] \in Nat
          /\ remaining[k] = -1 => state[k] = "failed"
      BY DEF RetriesOK, TypeOK
    <3> QED BY <2>1, <2>2, <3>1
  <2> QED BY <2>3 DEF RetriesOK
<1> QED BY <1>2, <1>5, <1>6, <1>7

(* Failing, and giving the job back for another try.                       *)
LEMMA FailKeeps ==
    ASSUME IInv, NEW p \in Procs, NEW j \in Jobs, Fail(p, j), TypeOK'
    PROVE  IInv'
<1> USE DEF IInv
<1>1. state[j] = "running" /\ queue[j] \in QueueNames
  BY DEF Fail, Leased, TypeOK
<1>2. Locks(queue[j]) \in InQueue(queue[j]) /\ Failures \in Homes("failed", queue[j])
  BY <1>1, PlacesDiffer DEF Homes
<1>3. /\ state' = [state EXCEPT ![j] = "failed"] /\ queue' = queue
      /\ Relocate(j, InQueue(queue[j]), {Failures})
      /\ links' = links /\ held' = held
      /\ \A k \in Jobs : k # j => worker'[k] = worker[k]
      /\ remaining' = remaining /\ retries' = retries
  BY DEF Fail, TypeOK
<1>4. DueIsPlaced' /\ Placement' /\ DependenciesOK' /\ OwnersUpToDate'
  BY <1>1, <1>2, <1>3, LockLeft
<1>5. RetriesOK'
  BY <1>3 DEF RetriesOK, TypeOK
<1> QED BY <1>4, <1>5

LEMMA RetryKeeps ==
    ASSUME IInv, NEW p \in Procs, NEW j \in Jobs, NEW delayed \in BOOLEAN,
           Retry(p, j, delayed), TypeOK'
    PROVE  IInv'
<1> USE DEF IInv
<1> DEFINE over   == remaining[j] < 1
           target == IF over THEN Failures
                     ELSE IF delayed THEN Scheduled(queue[j]) ELSE Work(queue[j])
           st     == IF over THEN "failed"
                     ELSE IF delayed THEN "scheduled" ELSE "waiting"
<1>1. state[j] = "running" /\ held[p][j] = queue[j] /\ remaining[j] \in Nat
  BY LeaseTells DEF Retry
<1>2. /\ target \in Homes(st, queue[j])
      /\ st \in {"waiting", "stalled", "scheduled", "failed"}
  BY DEF Homes
<1>3. /\ state' = [state EXCEPT ![j] = st] /\ queue' = queue
      /\ Relocate(j, {Locks(queue[j])}, {target})
      /\ links' = links /\ held' = held /\ retries' = retries
      /\ \A k \in Jobs : k # j => worker'[k] = worker[k]
  <2>1. state' = [state EXCEPT ![j] = st] /\ Relocate(j, {Locks(queue[j])}, {target})
    BY <1>1 DEF Retry
  <2>2. \A k \in Jobs : k # j => worker'[k] = worker[k]
    BY DEF Retry, TypeOK
  <2> QED BY <2>1, <2>2 DEF Retry
<1>4. DueIsPlaced' /\ Placement' /\ DependenciesOK' /\ OwnersUpToDate'
  <2> HIDE DEF target, st
  <2> QED BY <1>1, <1>2, <1>3, LockLeft
<1>5. RetriesOK'
  <2>1. \A k \in Jobs : /\ remaining'[k] = IF k = j THEN remaining[k] - 1
                                           ELSE remaining[k]
                        /\ state'[k] = IF k = j THEN st ELSE state[k]
    <3>1. remaining' = [remaining EXCEPT ![j] = @ - 1]
      BY DEF Retry
    <3> HIDE DEF st
    <3> QED BY <1>3, <3>1 DEF TypeOK
  <2>2. ASSUME NEW k \in Jobs
        PROVE  /\ remaining'[k] \in -1 .. retries'[k]
               /\ remaining'[k] = -1 => state'[k] = "failed"
    <3>1. /\ remaining[k] \in -1 .. retries[k] /\ retries[k] \in Nat
          /\ remaining[k] = -1 => state[k] = "failed"
      BY DEF RetriesOK, TypeOK
    <3> QED BY <1>1, <1>3, <2>1, <3>1
  <2> QED BY <2>2 DEF RetriesOK
<1> QED BY <1>4, <1>5

(* Timing a job out by hand.                                               *)
LEMMA TimeoutKeeps ==
    ASSUME IInv, NEW j \in Jobs, Timeout(j), TypeOK'
    PROVE  IInv'
<1> USE DEF IInv
<1>1. /\ state[j] = "running" /\ Work(queue[j]) \in Homes("stalled", queue[j])
      /\ state' = [state EXCEPT ![j] = "stalled"] /\ queue' = queue
      /\ Relocate(j, {Locks(queue[j])}, {Work(queue[j])})
      /\ links' = links /\ held' = held
      /\ \A k \in Jobs : k # j => worker'[k] = worker[k]
      /\ remaining' = remaining /\ retries' = retries
  BY DEF Timeout, Homes, TypeOK
<1>2. DueIsPlaced' /\ Placement' /\ DependenciesOK' /\ OwnersUpToDate'
  BY <1>1, LockLeft
<1>3. RetriesOK'
  BY <1>1 DEF RetriesOK, TypeOK
<1> QED BY <1>2, <1>3

-----------------------------------------------------------------------------
(* The calls of any client.                                                *)
LEMMA CancelKeeps ==
    ASSUME IInv, NEW S \in SUBSET Jobs, Cancel(S), TypeOK'
    PROVE  IInv'
<1> USE DEF IInv
<1> DEFINE removed == {j \in S : state[j] # "complete"}
           gone(j) == IF j \in removed
                      THEN InQueue(queue[j])
                             \cup {pl \in {Failures} : state[j] = "failed"}
                      ELSE {}
<1>1. removed \subseteq Jobs /\ \A j \in removed : j \in S /\ state[j] # "complete"
  OBVIOUS
<1>2. /\ where' = [j \in Jobs |-> where[j] \ gone(j)]
      /\ due'   = [j \in Jobs |-> due[j] \ gone(j)]
  BY DEF Cancel
<1>3. \A k \in removed : where[k] \subseteq gone(k)
  BY <1>1, StateTells
<1>4. \A k \in Jobs : k \notin removed => gone(k) = {}
  OBVIOUS
<1>5. DueIsPlaced'
  <2> HIDE DEF gone
  <2> QED BY <1>2 DEF DueIsPlaced
<1>6. \A k \in Jobs :
        /\ state'[k] = IF k \in removed THEN "absent" ELSE state[k]
        /\ queue'[k] = IF k \in removed THEN NoQueue ELSE queue[k]
        /\ worker'[k] = IF k \in removed THEN NoWorker ELSE worker[k]
        /\ retries'[k] = IF k \in removed THEN 0 ELSE retries[k]
        /\ remaining'[k] = IF k \in removed THEN 0 ELSE remaining[k]
        /\ deps'[k] = IF k \in removed THEN {} ELSE deps[k]
        /\ dependents'[k] = {j \in dependents[k] :
                               ~ (j \in removed /\ k \in deps[j])}
  BY DEF Cancel
<1>7. held' = held
  BY DEF Cancel
<1>8. ASSUME NEW k \in Jobs PROVE Placed(state'[k], queue'[k], where'[k])
  <2>1. where'[k] = where[k] \ gone(k)
    <3> HIDE DEF gone
    <3> QED BY <1>2
  <2>2. CASE k \in removed
    <3>1. where'[k] = {}
      BY <1>3, <2>1, <2>2
    <3> HIDE DEF removed, gone
    <3> QED BY <1>6, <2>2, <3>1 DEF Placed
  <2>3. CASE k \notin removed
    <3>1. where'[k] = where[k]
      BY <1>4, <2>1, <2>3
    <3> HIDE DEF removed, gone
    <3> QED BY <1>6, <2>3, <3>1 DEF Placement
  <2> QED BY <2>2, <2>3
<1>9. DependenciesOK'
  <2>1. ASSUME NEW k \in Jobs, k \notin removed, NEW d \in deps[k]
        PROVE  d \notin removed
    <3>1. d \in Jobs /\ k \in dependents[d] /\ state[k] = "depends"
      BY DEF DependenciesOK, TypeOK
    <3>2. d \in S => k \in S
      BY <3>1 DEF Cancel
    <3> QED BY <2>1, <3>1, <3>2
  <2> HIDE DEF removed, gone
  <2>2. ASSUME NEW k \in Jobs PROVE state'[k] = "depends" <=> deps'[k] # {}
    BY <1>6 DEF DependenciesOK
  <2>3. ASSUME NEW k \in Jobs, NEW d \in Jobs
        PROVE  d \in deps'[k] <=> k \in dependents'[d]
    <3>1. d \in deps[k] <=> k \in dependents[d]
      BY DEF DependenciesOK
    <3> QED BY <1>6, <3>1
  <2>4. ASSUME NEW k \in Jobs, NEW d \in deps'[k]
        PROVE  state'[d] \notin {"absent", "complete"}
    <3>1. k \notin removed /\ d \in deps[k]
      BY <1>6
    <3>2. d \in Jobs /\ Pending(d) /\ d \notin removed
      BY <2>1, <3>1 DEF DependenciesOK, TypeOK
    <3> QED BY <1>6, <3>2 DEF Pending
  <2> QED BY <2>2, <2>3, <2>4 DEF DependenciesOK, Pending
<1> HIDE DEF removed, gone
<1>10. OwnersUpToDate'
  BY <1>6, <1>7, OwnersKept
<1>11. RetriesOK'
  <2>1. ASSUME NEW k \in Jobs
        PROVE  /\ remaining'[k] \in -1 .. retries'[k]
               /\ remaining'[k] = -1 => state'[k] = "failed"
    <3>1. /\ remaining[k] \in -1 .. retries[k] /\ retries[k] \in Nat
          /\ remaining[k] = -1 => state[k] = "failed"
      BY DEF RetriesOK, TypeOK
    <3> QED BY <1>6, <3>1
  <2> QED BY <2>1 DEF RetriesOK
<1> QED BY <1>5, <1>8, <1>9, <1>10, <1>11 DEF Placement

(* What changes the links, the due times or the lists only.                *)
LEMMA FieldsKept ==
    ASSUME IInv, UNCHANGED <<fields, where, held>>
    PROVE  Placement' /\ OwnersUpToDate' /\ RetriesOK'
BY DEF IInv, fields, Placement, OwnersUpToDate, RetriesOK

LEMMA DependsOnKeeps ==
    ASSUME IInv, NEW j \in Jobs, NEW ds \in SUBSET Jobs, DependsOn(j, ds), TypeOK'
    PROVE  IInv'
<1> USE DEF IInv
<1> DEFINE new == {d \in ds : Pending(d)}
<1>1. UNCHANGED <<fields, where, held>> /\ due' = due /\ state' = state
  BY DEF DependsOn, fields
<1>2. DueIsPlaced'
  BY <1>1 DEF DueIsPlaced
<1>3. DependenciesOK'
  <2>1. /\ \A k \in Jobs : deps'[k] = IF k = j THEN deps[k] \cup new ELSE deps[k]
        /\ \A d \in Jobs : dependents'[d] = IF d \in new THEN dependents[d] \cup {j}
                                            ELSE dependents[d]
        /\ state[j] = "depends"
    BY DEF DependsOn, TypeOK
  <2>2. \A d \in new : d \in Jobs /\ Pending(d)
    OBVIOUS
  <2> HIDE DEF new
  <2>3. ASSUME NEW k \in Jobs PROVE state'[k] = "depends" <=> deps'[k] # {}
    BY <1>1, <2>1 DEF DependenciesOK
  <2>4. ASSUME NEW k \in Jobs, NEW d \in Jobs
        PROVE  d \in deps'[k] <=> k \in dependents'[d]
    <3>1. d \in deps[k] <=> k \in dependents[d]
      BY DEF DependenciesOK
    <3> QED BY <2>1, <3>1
  <2>5. ASSUME NEW k \in Jobs, NEW d \in deps'[k]
        PROVE  state'[d] \notin {"absent", "complete"}
    <3>1. d \in new \/ d \in deps[k]
      BY <2>1
    <3> QED BY <1>1, <2>2, <3>1 DEF DependenciesOK, Pending
  <2> QED BY <2>3, <2>4, <2>5 DEF DependenciesOK, Pending
<1> QED BY <1>1, <1>2, <1>3, FieldsKept

LEMMA DependsOffKeeps ==
    ASSUME IInv, NEW j \in Jobs, NEW ds \in SUBSET Jobs, DependsOff(j, ds), TypeOK'
    PROVE  IInv'
<1> USE DEF IInv
<1>1. /\ state[j] = "depends" /\ where[j] = {Depends(queue[j])}
      /\ queue[j] # NoQueue
  BY StateTells, NullAssumption DEF DependsOff
<1>2. /\ queue' = queue /\ worker' = worker /\ held' = held
      /\ retries' = retries /\ remaining' = remaining
  BY DEF DependsOff
<1>3. /\ \A k \in Jobs : deps'[k] = IF k = j THEN deps[k] \ ds ELSE deps[k]
      /\ \A d \in Jobs : dependents'[d] = IF d \in ds THEN dependents[d] \ {j}
                                          ELSE dependents[d]
      /\ \A k \in Jobs : state'[k] = IF k = j /\ deps[j] \subseteq ds
                                     THEN "waiting" ELSE state[k]
  BY <1>1 DEF DependsOff, TypeOK
<1>4. DueIsPlaced' /\ Placement'
  <2>1. CASE deps[j] \subseteq ds
    <3>1. /\ state' = [state EXCEPT ![j] = "waiting"]
          /\ queue' = [queue EXCEPT ![j] = queue[j]]
          /\ Relocate(j, {Depends(queue[j])}, {Work(queue[j])})
      BY <2>1 DEF DependsOff, TypeOK
    <3>2. Placed("waiting", queue[j],
                 (where[j] \ {Depends(queue[j])}) \cup {Work(queue[j])})
      BY <1>1 DEF Placed, Homes
    <3> QED BY <3>1, <3>2, OneJobPlaced
  <2>2. CASE ~ (deps[j] \subseteq ds)
    <3>1. where' = where /\ due' = due
      BY <2>2 DEF DependsOff
    <3>2. \A k \in Jobs : state'[k] = state[k]
      BY <1>3, <2>2
    <3> QED BY <1>2, <3>1, <3>2 DEF DueIsPlaced, Placement
  <2> QED BY <2>1, <2>2
<1>5. DependenciesOK'
  <2>1. ASSUME NEW k \in Jobs PROVE state'[k] = "depends" <=> deps'[k] # {}
    BY <1>1, <1>3 DEF DependenciesOK
  <2>2. ASSUME NEW k \in Jobs, NEW d \in Jobs
        PROVE  d \in deps'[k] <=> k \in dependents'[d]
    <3>1. d \in deps[k] <=> k \in dependents[d]
      BY DEF DependenciesOK
    <3> QED BY <1>3, <3>1
  <2>3. ASSUME NEW k \in Jobs, NEW d \in deps'[k]
        PROVE  state'[d] \notin {"absent", "complete"}
    <3>1. d \in deps[k] /\ d \in Jobs
      BY <1>3 DEF TypeOK
    <3> QED BY <1>3, <3>1 DEF DependenciesOK, Pending
  <2> QED BY <2>1, <2>2, <2>3 DEF DependenciesOK, Pending
<1>6. OwnersUpToDate'
  BY <1>2, <1>3, OwnersKept
<1>7. RetriesOK'
  BY <1>1, <1>2, <1>3 DEF RetriesOK, TypeOK
<1> QED BY <1>4, <1>5, <1>6, <1>7

LEMMA UnfailKeeps ==
    ASSUME IInv, NEW q \in Queues, NEW S \in SUBSET Jobs, Unfail(q, S), TypeOK'
    PROVE  IInv'
<1> USE DEF IInv
<1>1. \A k \in S : state[k] = "failed" /\ where[k] = {Failures}
  <2>1. \A k \in S : k \in Jobs /\ Failures \in where[k]
    BY DEF Unfail, Members
  <2> QED BY <2>1, EntryTells DEF QueueNames
<1>2. \A k \in Jobs :
        /\ state'[k] = IF k \in S THEN "waiting" ELSE state[k]
        /\ queue'[k] = IF k \in S THEN q ELSE queue[k]
        /\ worker'[k] = IF k \in S THEN NoWorker ELSE worker[k]
        /\ remaining'[k] = IF k \in S THEN retries[k] ELSE remaining[k]
        /\ where'[k] = IF k \in S THEN (where[k] \ {Failures}) \cup {Work(q)}
                       ELSE where[k]
        /\ due'[k] = IF k \in S THEN due[k] \ {Failures, Work(q)} ELSE due[k]
  BY DEF Unfail
<1>3. UNCHANGED <<retries, links, held>>
  BY DEF Unfail
<1>4. DueIsPlaced'
  BY <1>2 DEF DueIsPlaced
<1>5. ASSUME NEW k \in Jobs PROVE Placed(state'[k], queue'[k], where'[k])
  <2>1. CASE k \in S
    BY <1>1, <1>2, <2>1, NullAssumption DEF Placed, Homes
  <2>2. CASE k \notin S
    BY <1>2, <2>2 DEF Placement
  <2> QED BY <2>1, <2>2
<1>6. DependenciesOK'
  BY <1>1, <1>2, <1>3, LinksKept DEF Pending
<1>7. OwnersUpToDate'
  BY <1>2, <1>3, OwnersKept
<1>8. RetriesOK'
  BY <1>2, <1>3 DEF RetriesOK, TypeOK
<1> QED BY <1>4, <1>5, <1>6, <1>7, <1>8 DEF Placement

LEMMA CheckScheduledKeeps ==
    ASSUME IInv, NEW q \in Queues, NEW M \in SUBSET DueIn(Scheduled(q)),
           CheckScheduled(q, M), TypeOK'
    PROVE  IInv'
<1> USE DEF IInv
<1>1. \A k \in M : /\ state[k] \in {"waiting", "scheduled"} /\ queue[k] = q
                   /\ where[k] = {Scheduled(q)}
  <2>1. \A k \in M : k \in Jobs /\ Scheduled(q) \in where[k]
    BY DEF DueIn, DueIsPlaced
  <2> QED BY <2>1, EntryTells DEF QueueNames
<1>2. \A k \in Jobs :
        /\ state'[k] = IF k \in M THEN "waiting" ELSE state[k]
        /\ where'[k] = IF k \in M THEN (where[k] \ {Scheduled(q)}) \cup {Work(q)}
                       ELSE where[k]
        /\ due'[k] = IF k \in M THEN due[k] \ {Scheduled(q), Work(q)} ELSE due[k]
  BY DEF CheckScheduled
<1>3. UNCHANGED <<queue, worker, retries, remaining, links, held>>
  BY DEF CheckScheduled
<1>4. DueIsPlaced'
  BY <1>2 DEF DueIsPlaced
<1>5. ASSUME NEW k \in Jobs PROVE Placed(state'[k], queue'[k], where'[k])
  <2>1. CASE k \in M
    BY <1>1, <1>2, <1>3, <2>1, NullAssumption DEF Placed, Homes
  <2>2. CASE k \notin M
    BY <1>2, <1>3, <2>2 DEF Placement
  <2> QED BY <2>1, <2>2
<1>6. DependenciesOK'
  BY <1>1, <1>2, <1>3, LinksKept DEF Pending
<1>7. OwnersUpToDate'
  BY <1>2, <1>3, OwnersKept
<1>8. RetriesOK'
  <2>1. ASSUME NEW k \in Jobs
        PROVE  /\ remaining'[k] \in -1 .. retries'[k]
               /\ remaining'[k] = -1 => state'[k] = "failed"
    <3>1. /\ remaining[k] \in -1 .. retries[k]
          /\ remaining[k] = -1 => state[k] = "failed"
      BY DEF RetriesOK
    <3> QED BY <1>1, <1>2, <1>3, <3>1
  <2> QED BY <2>1 DEF RetriesOK
<1> QED BY <1>4, <1>5, <1>6, <1>7, <1>8 DEF Placement

-----------------------------------------------------------------------------
(* The steps that leave jobs where they are.                               *)
LEMMA LinksUntouched ==
    ASSUME IInv, UNCHANGED <<fields, where, links, held>>, DueIsPlaced', TypeOK'
    PROVE  IInv'
<1>1. state' = state
  BY DEF fields
<1>2. DependenciesOK'
  BY <1>1, LinksKept DEF IInv, Pending
<1> QED BY <1>2, FieldsKept DEF IInv

LEMMA HeartbeatKeeps ==
    ASSUME IInv, NEW p \in Procs, NEW j \in Jobs, Heartbeat(p, j), TypeOK'
    PROVE  IInv'
<1>1. where[j] = {Locks(queue[j])}
  BY LeaseTells DEF Heartbeat
<1>2. where' = where
  BY <1>1 DEF Heartbeat, Relocate, IInv, TypeOK
<1>3. DueIsPlaced'
  BY <1>2 DEF Heartbeat, Relocate, IInv, DueIsPlaced, TypeOK
<1>4. UNCHANGED <<fields, links, held>>
  BY DEF Heartbeat
<1> QED BY <1>2, <1>3, <1>4, LinksUntouched

LEMMA TimeUpKeeps ==
    ASSUME IInv, NEW j \in Jobs, NEW place \in where[j], TimeUp(j, place), TypeOK'
    PROVE  IInv'
<1>1. DueIsPlaced'
  BY DEF TimeUp, IInv, DueIsPlaced, TypeOK
<1>2. UNCHANGED <<fields, where, links, held>>
  BY DEF TimeUp
<1> QED BY <1>1, <1>2, LinksUntouched

LEMMA AbandonKeeps ==
    ASSUME IInv, NEW p \in Procs, NEW j \in Jobs, Abandon(p, j), TypeOK'
    PROVE  IInv'
<1> USE DEF IInv
<1>1. UNCHANGED <<fields, where, due, links>> /\ state' = state /\ queue' = queue
      /\ worker' = worker /\ remaining' = remaining /\ retries' = retries
  BY DEF Abandon, fields
<1>2. \A r \in Procs, k \in Jobs : held'[r][k] \in {held[r][k], NoJob}
  BY DEF Abandon, TypeOK
<1>3. DueIsPlaced' /\ Placement' /\ RetriesOK'
  BY <1>1 DEF DueIsPlaced, Placement, RetriesOK
<1>4. DependenciesOK'
  BY <1>1, LinksKept DEF Pending
<1>5. OwnersUpToDate'
  BY <1>1, <1>2 DEF OwnersUpToDate
<1> QED BY <1>3, <1>4, <1>5

LEMMA ResumeKeeps ==
    ASSUME IInv, NEW p \in Procs, NEW j \in Jobs, Resume(p, j), TypeOK'
    PROVE  IInv'
<1> USE DEF IInv
<1>1. where[j] = {Locks(queue[j])}
  BY LeaseTells DEF Resume
<1>2. where' = where
  BY <1>1 DEF Resume, Relocate, TypeOK
<1>3. DueIsPlaced'
  BY <1>2 DEF Resume, Relocate, DueIsPlaced, TypeOK
<1>4. UNCHANGED <<fields, links>> /\ state' = state /\ queue' = queue
      /\ worker' = worker /\ remaining' = remaining /\ retries' = retries
  BY DEF Resume, fields
<1>5. \A r \in Procs, k \in Jobs :
         held'[r][k] = IF r = p /\ k = j THEN queue[j] ELSE held[r][k]
  BY DEF Resume, TypeOK
<1>6. Placement' /\ RetriesOK'
  BY <1>2, <1>4 DEF Placement, RetriesOK
<1>7. DependenciesOK'
  BY <1>4, LinksKept DEF Pending
<1>8. OwnersUpToDate'
  BY <1>4, <1>5 DEF OwnersUpToDate
<1> QED BY <1>3, <1>6, <1>7, <1>8

-----------------------------------------------------------------------------
(* The invariant holds at the start and every step keeps it.               *)
LEMMA IInvInit == Init => IInv
<1> SUFFICES ASSUME Init PROVE IInv
  OBVIOUS
<1>1. TypeOK
  BY TypeInit
<1>2. DueIsPlaced /\ Placement
  BY DEF Init, DueIsPlaced, Placement, Placed
<1>3. DependenciesOK /\ OwnersUpToDate /\ RetriesOK
  BY DEF Init, DependenciesOK, OwnersUpToDate, RetriesOK
<1> QED BY <1>1, <1>2, <1>3 DEF IInv

LEMMA IInvNext == UniqueNames /\ IInv /\ [Next]_vars => IInv'
<1> SUFFICES ASSUME UniqueNames, IInv, [Next]_vars PROVE IInv'
  OBVIOUS
<1>0. TypeOK'
  BY TypeNext DEF IInv
<1>1. ASSUME NEW q \in Queues, NEW j \in Jobs, NEW ds \in SUBSET Jobs,
             NEW delayed \in BOOLEAN, NEW n \in Retries,
             Put(q, j, ds, delayed, n)
      PROVE  IInv'
  BY <1>0, <1>1, PutKeeps
<1>2. ASSUME NEW p \in Procs, NEW q \in Queues, NEW limit \in Limits,
             Pop(p, q, limit)
      PROVE  IInv'
  BY <1>0, <1>2, PopKeeps
<1>3. ASSUME NEW p \in Procs, NEW j \in Jobs, Heartbeat(p, j)
      PROVE  IInv'
  BY <1>0, <1>3, HeartbeatKeeps
<1>4. ASSUME NEW p \in Procs, NEW j \in Jobs,
             NEW forgotten \in SUBSET (Members(Completed) \cup {j}),
             Complete(p, j, forgotten)
      PROVE  IInv'
  BY <1>0, <1>4, CompleteKeeps
<1>5. ASSUME NEW p \in Procs, NEW j \in Jobs, NEW q \in Queues,
             NEW ds \in SUBSET Jobs, NEW delayed \in BOOLEAN,
             CompleteAndRequeue(p, j, q, ds, delayed)
      PROVE  IInv'
  BY <1>0, <1>5, RequeueKeeps
<1>6. ASSUME NEW p \in Procs, NEW j \in Jobs, Fail(p, j)
      PROVE  IInv'
  BY <1>0, <1>6, FailKeeps
<1>7. ASSUME NEW p \in Procs, NEW j \in Jobs, NEW delayed \in BOOLEAN,
             Retry(p, j, delayed)
      PROVE  IInv'
  BY <1>0, <1>7, RetryKeeps
<1>8. ASSUME NEW j \in Jobs, Timeout(j)
      PROVE  IInv'
  BY <1>0, <1>8, TimeoutKeeps
<1>9. ASSUME NEW S \in SUBSET Jobs, Cancel(S)
      PROVE  IInv'
  BY <1>0, <1>9, CancelKeeps
<1>10. ASSUME NEW j \in Jobs, NEW ds \in SUBSET Jobs, DependsOn(j, ds)
       PROVE  IInv'
  BY <1>0, <1>10, DependsOnKeeps
<1>11. ASSUME NEW j \in Jobs, NEW ds \in SUBSET Jobs, DependsOff(j, ds)
       PROVE  IInv'
  BY <1>0, <1>11, DependsOffKeeps
<1>12. ASSUME NEW q \in Queues, NEW S \in SUBSET Jobs, Unfail(q, S)
       PROVE  IInv'
  BY <1>0, <1>12, UnfailKeeps
<1>13. ASSUME NEW q \in Queues, Counts(q)
       PROVE  IInv'
  BY <1>0, <1>13, CheckScheduledKeeps DEF Counts
<1>14. ASSUME NEW q \in Queues, NEW limit \in Limits, Peek(q, limit)
       PROVE  IInv'
  <2>1. PICK M \in SUBSET DueIn(Scheduled(q)) : CheckScheduled(q, M)
    BY <1>14 DEF Peek, Batch
  <2> QED BY <1>0, <2>1, CheckScheduledKeeps
<1>15. CASE /\ UNCHANGED <<fields, where, due, links, held>>
  BY <1>0, <1>15, LinksUntouched DEF IInv, DueIsPlaced
<1>16. ASSUME NEW q \in Queues, Pause(q) \/ Unpause(q)
       PROVE  IInv'
  BY <1>15, <1>16 DEF Pause, Unpause
<1>17. ASSUME NEW w \in Workers, ForgetJobsOf(w)
       PROVE  IInv'
  BY <1>15, <1>17 DEF ForgetJobsOf
<1>18. ASSUME NEW j \in Jobs, NEW place \in where[j], TimeUp(j, place)
       PROVE  IInv'
  BY <1>0, <1>18, TimeUpKeeps
<1>19. ASSUME NEW p \in Procs, NEW j \in Jobs, Abandon(p, j)
       PROVE  IInv'
  BY <1>0, <1>19, AbandonKeeps
<1>20. ASSUME NEW p \in Procs, NEW j \in Jobs, Resume(p, j)
       PROVE  IInv'
  BY <1>0, <1>20, ResumeKeeps
<1>21. CASE UNCHANGED vars
  BY <1>15, <1>21 DEF vars
<1> QED
  BY <1>1, <1>2, <1>3, <1>4, <1>5, <1>6, <1>7, <1>8, <1>9, <1>10, <1>11,
     <1>12, <1>13, <1>14, <1>16, <1>17, <1>18, <1>19, <1>20, <1>21
  DEF Next, ClientStep, WorkerStep

(* The inductive invariant holds throughout.                               *)
THEOREM Inductive ==
    ASSUME UniqueNames
    PROVE  Spec => []IInv
BY IInvInit, IInvNext, PTL DEF Spec

(* Every job is in one queue at a time, in the one set its state names: no *)
(* script leaves an entry behind or loses the last one.                    *)
THEOREM PlacementHolds ==
    ASSUME UniqueNames
    PROVE  Spec => []Placement
<1>1. IInv => Placement
  BY DEF IInv
<1> QED BY <1>1, Inductive, PTL

(* The two sides of every dependency agree and no job waits for one that   *)
(* is gone or complete.                                                    *)
THEOREM DependenciesHold ==
    ASSUME UniqueNames
    PROVE  Spec => []DependenciesOK
<1>1. IInv => DependenciesOK
  BY DEF IInv
<1> QED BY <1>1, Inductive, PTL

(* The Job object of the owner of a running job names the queue it is in.  *)
THEOREM OwnersHold ==
    ASSUME UniqueNames
    PROVE  Spec => []OwnersUpToDate
<1>1. IInv => OwnersUpToDate
  BY DEF IInv
<1> QED BY <1>1, Inductive, PTL

(* Retries are counted right: they stay in range, and a job that has none  *)
(* left has failed.                                                        *)
THEOREM RetriesHold ==
    ASSUME UniqueNames
    PROVE  Spec => []RetriesOK
<1>1. IInv => RetriesOK
  BY DEF IInv
<1> QED BY <1>1, Inductive, PTL

-----------------------------------------------------------------------------
(***************************************************************************)
(* What a step may never do.  These follow from the invariant: popping     *)
(* deals with entries of sets, and only the invariant says what an entry   *)
(* tells about the state of its job.                                       *)
(***************************************************************************)
LEMMA PopEarns ==
    ASSUME IInv, NEW p \in Procs, NEW q \in Queues, NEW limit \in Limits,
           Pop(p, q, limit)
    PROVE  HandoverStep /\ CompleteStep
<1>1. PICK E \in SUBSET DueIn(Locks(q)), M \in SUBSET DueIn(Scheduled(q)) :
        \E T \in SUBSET (Members(Work(q)) \cup M) : HandOut(p, q, E, M, T)
  BY DEF Pop, Batch
<1>2. PICK T \in SUBSET (Members(Work(q)) \cup M) : HandOut(p, q, E, M, T)
  BY <1>1
<1>3. CompleteStep
  BY <1>2, HandOutCases DEF CompleteStep
<1>4. ASSUME NEW k \in Jobs, HandedOver(k)
      PROVE  /\ Locks(queue[k]) \in due[k]
             /\ GracePeriod => grace[k]
             /\ remaining'[k] = remaining[k] - 1
  <2>1. state[k] = "running" /\ state'[k] = "running" /\ worker'[k] # worker[k]
    BY <1>4 DEF HandedOver
  <2>2. queue[k] = q /\ remaining'[k] = remaining[k] - 1
    BY <1>2, <2>1, HandOutCases
  <2>3. remaining[k] \in Int
    BY DEF IInv, TypeOK
  <2>4. k \in Exhausted(E) \cup Dead(E)
    BY <1>2, <2>2, <2>3 DEF HandOut
  <2>5. k \in E /\ k \notin Courteous(E)
    BY <2>4 DEF Exhausted, Dead
  <2> QED BY <2>2, <2>5 DEF DueIn, Courteous
<1> QED BY <1>3, <1>4 DEF HandoverStep

LEMMA StepsEarn == IInv /\ [Next]_vars => HandoverStep /\ CompleteStep
<1> SUFFICES ASSUME IInv, [Next]_vars PROVE HandoverStep /\ CompleteStep
  OBVIOUS
<1> USE DEF IInv, HandoverStep, HandedOver, CompleteStep
<1>1. ASSUME NEW q \in Queues, NEW j \in Jobs, NEW ds \in SUBSET Jobs,
             NEW delayed \in BOOLEAN, NEW n \in Retries,
             Put(q, j, ds, delayed, n)
      PROVE  HandoverStep /\ CompleteStep
  <2>1. \A k \in Jobs : \/ state'[k] = state[k] /\ worker'[k] = worker[k]
                        \/ state'[k] \in {"depends", "scheduled", "waiting"}
    <3>1. \A k \in Jobs \ {j} : state'[k] = state[k] /\ worker'[k] = worker[k]
      BY <1>1 DEF Put, TypeOK
    <3>2. state'[j] \in {"depends", "scheduled", "waiting"}
      BY <1>1 DEF Put, TypeOK
    <3> QED BY <3>1, <3>2
  <2> QED BY <2>1
<1>2. ASSUME NEW p \in Procs, NEW q \in Queues, NEW limit \in Limits,
             Pop(p, q, limit)
      PROVE  HandoverStep /\ CompleteStep
  BY <1>2, PopEarns
<1>3. ASSUME UNCHANGED fields
      PROVE  HandoverStep /\ CompleteStep
  BY <1>3 DEF fields
<1>4. ASSUME NEW p \in Procs, NEW j \in Jobs, Heartbeat(p, j)
      PROVE  HandoverStep /\ CompleteStep
  BY <1>3, <1>4 DEF Heartbeat
<1>5. ASSUME NEW p \in Procs, NEW j \in Jobs,
             NEW forgotten \in SUBSET (Members(Completed) \cup {j}),
             Complete(p, j, forgotten)
      PROVE  HandoverStep /\ CompleteStep
  <2>1. /\ state[j] = "running"
        /\ \A k \in Released(j) : state[k] = "depends"
    BY <1>5 DEF Complete, MayComplete, Leased, Released, DependenciesOK, TypeOK
  <2>2. \A k \in Jobs :
          state'[k] = (IF k \in forgotten THEN "absent"
                       ELSE IF k = j THEN "complete"
                       ELSE IF k \notin Released(j) \ forgotten THEN state[k]
                       ELSE IF later[k] THEN "scheduled" ELSE "waiting")
    BY <1>5 DEF Complete
  <2>3. \A k \in Jobs : k \notin forgotten /\ k # j => worker'[k] = worker[k]
    BY <1>5 DEF Complete, TypeOK
  <2>4. HandoverStep
    BY <2>2, <2>3
  <2>5. CompleteStep
    BY <2>1, <2>2
  <2> QED BY <2>4, <2>5
<1>6. ASSUME NEW p \in Procs, NEW j \in Jobs, NEW q \in Queues,
             NEW ds \in SUBSET Jobs, NEW delayed \in BOOLEAN,
             CompleteAndRequeue(p, j, q, ds, delayed)
      PROVE  HandoverStep /\ CompleteStep
  <2>1. \A k \in Jobs :
          \/ state'[k] = state[k] /\ worker'[k] = worker[k]
          \/ state'[k] \in {"depends", "waiting"}
    BY <1>6 DEF CompleteAndRequeue, TypeOK
  <2> QED BY <2>1
<1>7. ASSUME NEW p \in Procs, NEW j \in Jobs, Fail(p, j)
      PROVE  HandoverStep /\ CompleteStep
  <2>1. /\ state[j] = "running"
        /\ \A k \in Jobs : \/ state'[k] = state[k] /\ worker'[k] = worker[k]
                           \/ state'[k] = "failed" /\ k = j
    BY <1>7 DEF Fail, Leased, TypeOK
  <2> QED BY <2>1
<1>8. ASSUME NEW p \in Procs, NEW j \in Jobs, NEW delayed \in BOOLEAN,
             Retry(p, j, delayed)
      PROVE  HandoverStep /\ CompleteStep
  <2>1. /\ state[j] = "running"
        /\ \A k \in Jobs :
             \/ state'[k] = state[k] /\ worker'[k] = worker[k]
             \/ state'[k] \in {"failed", "scheduled", "waiting"} /\ k = j
    BY <1>8 DEF Retry, Leased, TypeOK
  <2> QED BY <2>1
<1>9. ASSUME NEW j \in Jobs, Timeout(j)
      PROVE  HandoverStep /\ CompleteStep
  <2>1. /\ state[j] = "running"
        /\ \A k \in Jobs : \/ state'[k] = state[k] /\ worker'[k] = worker[k]
                           \/ state'[k] = "stalled" /\ k = j
    BY <1>9 DEF Timeout, TypeOK
  <2> QED BY <2>1
<1>10. ASSUME NEW S \in SUBSET Jobs, Cancel(S)
       PROVE  HandoverStep /\ CompleteStep
  <2>1. \A k \in Jobs : \/ state'[k] = state[k] /\ worker'[k] = worker[k]
                        \/ state'[k] = "absent"
    BY <1>10 DEF Cancel
  <2> QED BY <2>1
<1>11. ASSUME NEW j \in Jobs, NEW ds \in SUBSET Jobs, DependsOn(j, ds)
       PROVE  HandoverStep /\ CompleteStep
  BY <1>3, <1>11 DEF DependsOn
<1>12. ASSUME NEW j \in Jobs, NEW ds \in SUBSET Jobs, DependsOff(j, ds)
       PROVE  HandoverStep /\ CompleteStep
  <2>1. \A k \in Jobs : /\ worker'[k] = worker[k]
                        /\ state'[k] \in {state[k], "waiting"}
    BY <1>12 DEF DependsOff, TypeOK
  <2> QED BY <2>1
<1>13. ASSUME NEW q \in Queues, NEW S \in SUBSET Jobs, Unfail(q, S)
       PROVE  HandoverStep /\ CompleteStep
  <2>1. \A k \in Jobs : \/ state'[k] = state[k] /\ worker'[k] = worker[k]
                        \/ state'[k] = "waiting"
    BY <1>13 DEF Unfail
  <2> QED BY <2>1
<1>14. ASSUME NEW q \in Queues, NEW M, CheckScheduled(q, M)
       PROVE  HandoverStep /\ CompleteStep
  <2>1. \A k \in Jobs : /\ worker'[k] = worker[k]
                        /\ state'[k] \in {state[k], "waiting"}
    BY <1>14 DEF CheckScheduled
  <2> QED BY <2>1
<1>15. ASSUME NEW q \in Queues, Counts(q)
       PROVE  HandoverStep /\ CompleteStep
  BY <1>14, <1>15 DEF Counts
<1>16. ASSUME NEW q \in Queues, NEW limit \in Limits, Peek(q, limit)
       PROVE  HandoverStep /\ CompleteStep
  BY <1>14, <1>16 DEF Peek
<1>17. ASSUME NEW q \in Queues, Pause(q) \/ Unpause(q)
       PROVE  HandoverStep /\ CompleteStep
  BY <1>3, <1>17 DEF Pause, Unpause
<1>18. ASSUME NEW w \in Workers, ForgetJobsOf(w)
       PROVE  HandoverStep /\ CompleteStep
  BY <1>3, <1>18 DEF ForgetJobsOf
<1>19. ASSUME NEW j \in Jobs, NEW place \in where[j], TimeUp(j, place)
       PROVE  HandoverStep /\ CompleteStep
  BY <1>3, <1>19 DEF TimeUp
<1>20. ASSUME NEW p \in Procs, NEW j \in Jobs, Abandon(p, j) \/ Resume(p, j)
       PROVE  HandoverStep /\ CompleteStep
  BY <1>3, <1>20 DEF Abandon, Resume
<1>21. CASE UNCHANGED vars
  BY <1>3, <1>21 DEF vars
<1> QED
  BY <1>1, <1>2, <1>4, <1>5, <1>6, <1>7, <1>8, <1>9, <1>10, <1>11, <1>12,
     <1>13, <1>15, <1>16, <1>17, <1>18, <1>19, <1>20, <1>21
  DEF Next, ClientStep, WorkerStep

(* Nobody is handed a job somebody else runs unless its lock was due, the  *)
(* grace period had been given, and a retry is used for it.                *)
THEOREM HandoversAreEarned ==
    ASSUME UniqueNames
    PROVE  Spec => HandoverIsEarned
<1>1. IInv /\ [Next]_vars => [HandoverStep]_vars
  BY StepsEarn
<1> QED BY <1>1, Inductive, PTL DEF Spec, HandoverIsEarned

(* A complete job stays complete until it is forgotten or put once more.   *)
THEOREM CompletionIsFinal ==
    ASSUME UniqueNames
    PROVE  Spec => CompleteIsFinal
<1>1. IInv /\ [Next]_vars => [CompleteStep]_vars
  BY StepsEarn
<1> QED BY <1>1, Inductive, PTL DEF Spec, CompleteIsFinal

-----------------------------------------------------------------------------
(* The store implements JobLease: its initial states are initial states of *)
(* the abstract specification, and each of its steps is, for every job, a  *)
(* step that JobLease allows.  The inductive invariant is needed where a   *)
(* script goes by an entry of a set: a pop that finds an entry among the   *)
(* locks does not look at the state.                                       *)

(* The holder of a job, as JobLease sees it.                               *)
HolderOf(k) == IF state[k] = "running" THEN worker[k] ELSE NoWorker

(* Everything JobLease sees of job k is left as it is.                     *)
LeaseUntouched(k) ==
    /\ state'[k] = state[k] /\ worker'[k] = worker[k]
    /\ retries'[k] = retries[k] /\ remaining'[k] = remaining[k]
    /\ grace'[k] = grace[k]

-----------------------------------------------------------------------------
(* What the steps of JobLease are in the terms of the store.               *)
LEMMA LeaseStays ==
    ASSUME NEW k \in Jobs, LeaseUntouched(k)
    PROVE  L!Step(k)
BY DEF LeaseUntouched, L!Step, L!Stay, L!Goes, Status

(* Between the states of an idle job nothing happens to its lease.         *)
LEMMA LeaseIdles ==
    ASSUME NEW k \in Jobs,
           state[k] \in {"waiting", "scheduled", "stalled"},
           state'[k] \in {"waiting", "scheduled", "stalled"},
           retries'[k] = retries[k], remaining'[k] = remaining[k],
           grace'[k] = grace[k]
    PROVE  L!Step(k)
BY DEF L!Step, L!Stay, L!Goes, Status

LEMMA LeasePut ==
    ASSUME NEW k \in Jobs,
           state'[k] \in {"waiting", "scheduled", "depends"},
           remaining'[k] \in Retries, retries'[k] = remaining'[k],
           grace'[k] = grace[k]
    PROVE  L!Step(k)
BY DEF L!Step, L!Put, Status

LEMMA LeaseVanishes ==
    ASSUME NEW k \in Jobs, state'[k] = "absent",
           remaining'[k] = 0, retries'[k] = 0, grace'[k] = FALSE
    PROVE  L!Step(k)
BY DEF L!Step, L!Vanish, Status

LEMMA LeaseFreed ==
    ASSUME NEW k \in Jobs, state[k] = "depends",
           state'[k] \in {"waiting", "scheduled"},
           retries'[k] = retries[k], remaining'[k] = remaining[k],
           grace'[k] = grace[k]
    PROVE  L!Step(k)
BY DEF L!Step, L!Free, L!Goes, Status

LEMMA LeaseTaken ==
    ASSUME NEW k \in Jobs, state[k] \in {"waiting", "scheduled", "stalled"},
           state'[k] = "running", worker'[k] \in Workers,
           retries'[k] = retries[k], remaining'[k] = remaining[k],
           grace'[k] = grace[k]
    PROVE  L!Step(k)
BY DEF L!Step, L!Take, L!Goes, Status

LEMMA LeaseWarned ==
    ASSUME NEW k \in Jobs, state[k] = "running", state'[k] = "running",
           worker'[k] = worker[k], GracePeriod, ~ grace[k], grace'[k] = TRUE,
           retries'[k] = retries[k], remaining'[k] = remaining[k]
    PROVE  L!Step(k)
BY DEF L!Step, L!Warn, L!Goes, Status

LEMMA LeaseLapses ==
    ASSUME NEW k \in Jobs, state[k] = "running", GracePeriod => grace[k],
           grace'[k] = FALSE, retries'[k] = retries[k],
           remaining'[k] = remaining[k] - 1,
           \/ /\ remaining[k] >= 1
              /\ state'[k] = "running" /\ worker'[k] \in Workers
           \/ remaining[k] < 1 /\ state'[k] = "failed"
    PROVE  L!Step(k)
<1>1. CASE remaining[k] >= 1 /\ state'[k] = "running" /\ worker'[k] \in Workers
  BY <1>1 DEF L!Step, L!Lapse, L!Goes, Status
<1>2. CASE remaining[k] < 1 /\ state'[k] = "failed"
  BY <1>2 DEF L!Step, L!Lapse, L!Goes, Status
<1> QED BY <1>1, <1>2

LEMMA LeaseFinished ==
    ASSUME NEW k \in Jobs, state[k] = "running",
           state'[k] \in {"complete", "waiting", "depends"},
           retries'[k] = retries[k], remaining'[k] = retries[k],
           grace'[k] = grace[k]
    PROVE  L!Step(k)
BY DEF L!Step, L!Finish, L!Goes, Status

LEMMA LeaseGivenUp ==
    ASSUME NEW k \in Jobs, state[k] = "running", state'[k] = "failed",
           retries'[k] = retries[k], remaining'[k] = remaining[k],
           grace'[k] = grace[k]
    PROVE  L!Step(k)
BY DEF L!Step, L!GiveUp, L!Goes, Status

LEMMA LeaseRetried ==
    ASSUME NEW k \in Jobs, state[k] = "running",
           remaining[k] < 1 => state'[k] = "failed",
           ~ (remaining[k] < 1) => state'[k] \in {"waiting", "scheduled"},
           retries'[k] = retries[k], remaining'[k] = remaining[k] - 1,
           grace'[k] = FALSE
    PROVE  L!Step(k)
BY DEF L!Step, L!TryAgain, L!Goes, Status

LEMMA LeaseWithdrawn ==
    ASSUME NEW k \in Jobs, state[k] = "running", state'[k] = "stalled",
           retries'[k] = retries[k], remaining'[k] = remaining[k],
           grace'[k] = grace[k]
    PROVE  L!Step(k)
BY DEF L!Step, L!Withdraw, L!Goes, Status

LEMMA LeaseRevived ==
    ASSUME NEW k \in Jobs, state[k] = "failed", state'[k] = "waiting",
           retries'[k] = retries[k], remaining'[k] = retries[k],
           grace'[k] = grace[k]
    PROVE  L!Step(k)
BY DEF L!Step, L!Revive, L!Goes, Status

-----------------------------------------------------------------------------
(* Every operation does to every job what JobLease allows.                 *)
LeaseStep == \A k \in Jobs : L!Step(k)

(* An operation that writes no field.                                      *)
LEMMA FieldsUntouched ==
    ASSUME UNCHANGED fields
    PROVE  LeaseStep
<1>1. \A k \in Jobs : LeaseUntouched(k)
  BY DEF fields, LeaseUntouched
<1> QED BY <1>1, LeaseStays DEF LeaseStep

LEMMA PutLeases ==
    ASSUME IInv, NEW q \in Queues, NEW j \in Jobs, NEW ds \in SUBSET Jobs,
           NEW delayed \in BOOLEAN, NEW n \in Retries,
           Put(q, j, ds, delayed, n)
    PROVE  LeaseStep
<1>1. \A k \in Jobs \ {j} : LeaseUntouched(k)
  BY DEF Put, IInv, TypeOK, LeaseUntouched
<1>2. /\ state'[j] \in {"waiting", "scheduled", "depends"}
      /\ remaining'[j] = n /\ retries'[j] = n /\ grace'[j] = grace[j]
  BY DEF Put, IInv, TypeOK
<1>3. L!Step(j)
  BY <1>2, LeasePut
<1> QED BY <1>1, <1>3, LeaseStays DEF LeaseStep

LEMMA PopLeases ==
    ASSUME IInv, NEW p \in Procs, NEW q \in Queues, NEW limit \in Limits,
           Pop(p, q, limit)
    PROVE  LeaseStep
<1> USE DEF IInv
<1>1. PICK E \in SUBSET DueIn(Locks(q)), M \in SUBSET DueIn(Scheduled(q)) :
        \E T \in SUBSET (Members(Work(q)) \cup M) : HandOut(p, q, E, M, T)
  BY DEF Pop, Batch
<1>2. PICK T \in SUBSET (Members(Work(q)) \cup M) : HandOut(p, q, E, M, T)
  BY <1>1
<1>3. q \in QueueNames /\ NameOf[p] \in Workers
  BY NamesAssumption DEF QueueNames
<1>4. ASSUME NEW k \in Jobs PROVE L!Step(k)
  <2> DEFINE taken == Dead(E) \cup {i \in T : state[i] # "absent"}
  <2>1. /\ state'[k] = (IF k \in taken THEN "running"
                        ELSE IF k \in Exhausted(E) THEN "failed"
                        ELSE IF k \in M THEN "waiting" ELSE state[k])
        /\ worker'[k] = (IF k \in taken THEN NameOf[p]
                         ELSE IF k \in Exhausted(E) THEN NoWorker ELSE worker[k])
        /\ remaining'[k] = (IF k \in Exhausted(E) \cup Dead(E)
                            THEN remaining[k] - 1 ELSE remaining[k])
        /\ grace'[k] = (IF k \in Courteous(E) THEN TRUE
                        ELSE IF k \in E THEN FALSE ELSE grace[k])
        /\ retries'[k] = retries[k]
    BY <1>2 DEF HandOut
  <2> HIDE DEF taken
  <2>2. k \in E => state[k] = "running" /\ k \notin M /\ k \notin T
    <3>1. k \in E => Locks(q) \in where[k]
      BY DEF DueIn, DueIsPlaced
    <3>2. k \in E => state[k] = "running" /\ where[k] = {Locks(q)}
      BY <1>3, <3>1, EntryTells
    <3> QED BY <1>3, <3>2, PlacesDiffer DEF DueIn, DueIsPlaced, Members
  <2>3. k \in M => state[k] \in {"waiting", "scheduled"}
    <3>1. k \in M => Scheduled(q) \in where[k]
      BY DEF DueIn, DueIsPlaced
    <3> QED BY <1>3, <3>1, EntryTells
  <2>4. k \in T /\ k \notin M => state[k] \in {"waiting", "stalled"}
    <3>1. k \in T /\ k \notin M => Work(q) \in where[k]
      BY DEF Members
    <3> QED BY <1>3, <3>1, EntryTells
  <2>5. remaining[k] \in Int
    BY DEF TypeOK
  <2>6. CASE k \in Courteous(E)
    <3>1. k \in E /\ GracePeriod /\ ~ grace[k] /\ k \notin Exhausted(E)
          /\ k \notin Dead(E)
      BY <2>6 DEF Courteous, Exhausted, Dead
    <3>2. k \notin taken
      BY <2>2, <3>1 DEF taken
    <3> QED BY <2>1, <2>2, <2>6, <3>1, <3>2, LeaseWarned
  <2>7. CASE k \in Exhausted(E)
    <3>1. k \in E /\ k \notin Courteous(E) /\ remaining[k] < 1 /\ k \notin Dead(E)
          /\ (GracePeriod => grace[k])
      BY <2>7 DEF Courteous, Exhausted, Dead
    <3>2. k \notin taken
      BY <2>2, <3>1 DEF taken
    <3> QED BY <2>1, <2>2, <2>7, <3>1, <3>2, LeaseLapses
  <2>8. CASE k \in Dead(E)
    <3>1. k \in E /\ k \notin Courteous(E) /\ ~ (remaining[k] < 1) /\ k \in taken
          /\ (GracePeriod => grace[k])
      BY <2>8 DEF Courteous, Exhausted, Dead, taken
    <3>2. remaining[k] >= 1
      BY <2>5, <3>1
    <3> QED BY <1>3, <2>1, <2>2, <2>8, <3>1, <3>2, LeaseLapses
  <2>9. CASE k \in T
    <3>1. k \notin E /\ state[k] \in {"waiting", "scheduled", "stalled"}
      BY <2>2, <2>3, <2>4, <2>9
    <3>2. k \in taken /\ k \notin Exhausted(E) /\ k \notin Dead(E)
          /\ k \notin Courteous(E)
      BY <2>9, <3>1 DEF taken, Exhausted, Dead, Courteous
    <3> QED BY <1>3, <2>1, <3>1, <3>2, LeaseTaken
  <2>10. CASE k \in M \ T
    <3>1. k \notin E
      BY <2>2, <2>10
    <3>2. k \notin taken /\ k \notin Exhausted(E) /\ k \notin Dead(E)
          /\ k \notin Courteous(E)
      BY <2>10, <3>1 DEF taken, Exhausted, Dead, Courteous
    <3> QED BY <2>1, <2>3, <2>10, <3>1, <3>2, LeaseIdles
  <2>11. CASE k \notin E /\ k \notin M /\ k \notin T
    <3>1. k \notin taken /\ k \notin Exhausted(E) /\ k \notin Dead(E)
          /\ k \notin Courteous(E)
      BY <2>11 DEF taken, Exhausted, Dead, Courteous
    <3>2. LeaseUntouched(k)
      BY <2>1, <2>11, <3>1 DEF LeaseUntouched
    <3> QED BY <3>2, LeaseStays
  <2> QED
    BY <2>6, <2>7, <2>8, <2>9, <2>10, <2>11 DEF Dead
<1> QED BY <1>4 DEF LeaseStep

LEMMA CompleteLeases ==
    ASSUME IInv, NEW p \in Procs, NEW j \in Jobs,
           NEW forgotten \in SUBSET (Members(Completed) \cup {j}),
           Complete(p, j, forgotten)
    PROVE  LeaseStep
<1> USE DEF IInv
<1>1. /\ state[j] = "running"
      /\ \A k \in Released(j) : state[k] = "depends"
  BY DEF Complete, MayComplete, Leased, Released, DependenciesOK, TypeOK
<1>2. ASSUME NEW k \in Jobs PROVE L!Step(k)
  <2>1. /\ state'[k] = (IF k \in forgotten THEN "absent"
                        ELSE IF k = j THEN "complete"
                        ELSE IF k \notin Released(j) \ forgotten THEN state[k]
                        ELSE IF later[k] THEN "scheduled" ELSE "waiting")
        /\ retries'[k] = (IF k \in forgotten THEN 0 ELSE retries[k])
        /\ grace'[k] = (IF k \in forgotten THEN FALSE ELSE grace[k])
    BY DEF Complete
  <2>2. /\ worker'[k] = (IF k \in forgotten \/ k = j THEN NoWorker ELSE worker[k])
        /\ remaining'[k] = (IF k \in forgotten THEN 0
                            ELSE IF k = j THEN retries[j] ELSE remaining[k])
    BY DEF Complete, TypeOK
  <2>3. CASE k \in forgotten
    BY <2>1, <2>2, <2>3, LeaseVanishes
  <2>4. CASE k \notin forgotten /\ k = j
    BY <1>1, <2>1, <2>2, <2>4, LeaseFinished
  <2>5. CASE k \notin forgotten /\ k # j /\ k \in Released(j)
    BY <1>1, <2>1, <2>2, <2>5, LeaseFreed
  <2>6. CASE k \notin forgotten /\ k # j /\ k \notin Released(j)
    <3>1. LeaseUntouched(k)
      BY <2>1, <2>2, <2>6 DEF LeaseUntouched
    <3> QED BY <3>1, LeaseStays
  <2> QED BY <2>3, <2>4, <2>5, <2>6
<1> QED BY <1>2 DEF LeaseStep

LEMMA RequeueLeases ==
    ASSUME IInv, NEW p \in Procs, NEW j \in Jobs, NEW q \in Queues,
           NEW ds \in SUBSET Jobs, NEW delayed \in BOOLEAN,
           CompleteAndRequeue(p, j, q, ds, delayed)
    PROVE  LeaseStep
<1>1. \A k \in Jobs \ {j} : LeaseUntouched(k)
  BY DEF CompleteAndRequeue, IInv, TypeOK, LeaseUntouched
<1>2. /\ state[j] = "running" /\ state'[j] \in {"depends", "waiting"}
      /\ retries'[j] = retries[j] /\ remaining'[j] = retries[j]
      /\ grace'[j] = grace[j]
  BY DEF CompleteAndRequeue, MayComplete, Leased, IInv, TypeOK
<1>3. L!Step(j)
  BY <1>2, LeaseFinished
<1> QED BY <1>1, <1>3, LeaseStays DEF LeaseStep

LEMMA FailLeases ==
    ASSUME IInv, NEW p \in Procs, NEW j \in Jobs, Fail(p, j)
    PROVE  LeaseStep
<1>1. \A k \in Jobs \ {j} : LeaseUntouched(k)
  BY DEF Fail, IInv, TypeOK, LeaseUntouched
<1>2. /\ state[j] = "running" /\ state'[j] = "failed"
      /\ retries'[j] = retries[j] /\ remaining'[j] = remaining[j]
      /\ grace'[j] = grace[j]
  BY DEF Fail, Leased, IInv, TypeOK
<1>3. L!Step(j)
  BY <1>2, LeaseGivenUp
<1> QED BY <1>1, <1>3, LeaseStays DEF LeaseStep

LEMMA RetryLeases ==
    ASSUME IInv, NEW p \in Procs, NEW j \in Jobs, NEW delayed \in BOOLEAN,
           Retry(p, j, delayed)
    PROVE  LeaseStep
<1>1. \A k \in Jobs \ {j} : LeaseUntouched(k)
  BY DEF Retry, IInv, TypeOK, LeaseUntouched
<1>2. /\ state[j] = "running"
      /\ state'[j] = (IF remaining[j] < 1 THEN "failed"
                      ELSE IF delayed THEN "scheduled" ELSE "waiting")
      /\ retries'[j] = retries[j] /\ remaining'[j] = remaining[j] - 1
      /\ grace'[j] = FALSE
  BY DEF Retry, Leased, IInv, TypeOK
<1>3. L!Step(j)
  BY <1>2, LeaseRetried
<1> QED BY <1>1, <1>3, LeaseStays DEF LeaseStep

LEMMA TimeoutLeases ==
    ASSUME IInv, NEW j \in Jobs, Timeout(j)
    PROVE  LeaseStep
<1>1. \A k \in Jobs \ {j} : LeaseUntouched(k)
  BY DEF Timeout, IInv, TypeOK, LeaseUntouched
<1>2. /\ state[j] = "running" /\ state'[j] = "stalled"
      /\ retries'[j] = retries[j] /\ remaining'[j] = remaining[j]
      /\ grace'[j] = grace[j]
  BY DEF Timeout, IInv, TypeOK
<1>3. L!Step(j)
  BY <1>2, LeaseWithdrawn
<1> QED BY <1>1, <1>3, LeaseStays DEF LeaseStep

LEMMA CancelLeases ==
    ASSUME IInv, NEW S \in SUBSET Jobs, Cancel(S)
    PROVE  LeaseStep
<1>1. ASSUME NEW k \in Jobs PROVE L!Step(k)
  <2>1. CASE k \in S /\ state[k] # "complete"
    <3>1. /\ state'[k] = "absent" /\ retries'[k] = 0 /\ remaining'[k] = 0
          /\ grace'[k] = FALSE
      BY <2>1 DEF Cancel
    <3> QED BY <3>1, LeaseVanishes
  <2>2. CASE ~ (k \in S /\ state[k] # "complete")
    <3>1. LeaseUntouched(k)
      BY <2>2 DEF Cancel, LeaseUntouched
    <3> QED BY <3>1, LeaseStays
  <2> QED BY <2>1, <2>2
<1> QED BY <1>1 DEF LeaseStep

LEMMA DependsOffLeases ==
    ASSUME IInv, NEW j \in Jobs, NEW ds \in SUBSET Jobs, DependsOff(j, ds)
    PROVE  LeaseStep
<1>1. \A k \in Jobs \ {j} : LeaseUntouched(k)
  BY DEF DependsOff, IInv, TypeOK, LeaseUntouched
<1>2. /\ state[j] = "depends" /\ state'[j] \in {"depends", "waiting"}
      /\ worker'[j] = worker[j] /\ retries'[j] = retries[j]
      /\ remaining'[j] = remaining[j] /\ grace'[j] = grace[j]
  BY DEF DependsOff, IInv, TypeOK
<1>3. L!Step(j)
  BY <1>2, LeaseFreed, LeaseStays DEF LeaseUntouched
<1> QED BY <1>1, <1>3, LeaseStays DEF LeaseStep

LEMMA UnfailLeases ==
    ASSUME IInv, NEW q \in Queues, NEW S \in SUBSET Jobs, Unfail(q, S)
    PROVE  LeaseStep
<1>1. ASSUME NEW k \in Jobs PROVE L!Step(k)
  <2>1. CASE k \in S
    <3>1. state[k] = "failed"
      <4>1. Failures \in where[k]
        BY <2>1 DEF Unfail, Members
      <4>2. NoQueue \in QueueNames
        BY DEF QueueNames
      <4> QED BY <4>1, <4>2, EntryTells DEF IInv
    <3>2. /\ state'[k] = "waiting" /\ retries'[k] = retries[k]
          /\ remaining'[k] = retries[k] /\ grace'[k] = grace[k]
      BY <2>1 DEF Unfail
    <3> QED BY <3>1, <3>2, LeaseRevived
  <2>2. CASE k \notin S
    <3>1. LeaseUntouched(k)
      BY <2>2 DEF Unfail, LeaseUntouched
    <3> QED BY <3>1, LeaseStays
  <2> QED BY <2>1, <2>2
<1> QED BY <1>1 DEF LeaseStep

(* The entries that become work are those of delayed jobs.                 *)
LEMMA CheckScheduledLeases ==
    ASSUME IInv, NEW q \in Queues, NEW M \in SUBSET DueIn(Scheduled(q)),
           CheckScheduled(q, M)
    PROVE  LeaseStep
<1>1. ASSUME NEW k \in Jobs PROVE L!Step(k)
  <2>1. CASE k \in M
    <3>1. state[k] \in {"waiting", "scheduled"}
      <4>1. Scheduled(q) \in where[k]
        BY <2>1 DEF DueIn, IInv, DueIsPlaced
      <4>2. q \in QueueNames
        BY DEF QueueNames
      <4> QED BY <4>1, <4>2, EntryTells DEF IInv
    <3>2. /\ state'[k] = "waiting" /\ retries'[k] = retries[k]
          /\ remaining'[k] = remaining[k] /\ grace'[k] = grace[k]
      BY <2>1 DEF CheckScheduled
    <3> QED BY <3>1, <3>2, LeaseIdles
  <2>2. CASE k \notin M
    <3>1. LeaseUntouched(k)
      BY <2>2 DEF CheckScheduled, LeaseUntouched
    <3> QED BY <3>1, LeaseStays
  <2> QED BY <2>1, <2>2
<1> QED BY <1>1 DEF LeaseStep

-----------------------------------------------------------------------------
LEMMA LeaseInit == Init => L!Init
BY DEF Init, L!Init, Status

LEMMA LeaseNext == IInv /\ [Next]_vars => [L!Next]_L!vars
<1> SUFFICES ASSUME IInv, [Next]_vars PROVE LeaseStep
  BY DEF L!Next, LeaseStep
<1>1. CASE UNCHANGED vars
  BY <1>1, FieldsUntouched DEF vars
<1>2. CASE ClientStep
  <2>1. ASSUME NEW q \in Queues, NEW limit \in Limits, Peek(q, limit)
        PROVE  LeaseStep
    <3>1. PICK M \in SUBSET DueIn(Scheduled(q)) : CheckScheduled(q, M)
      BY <2>1 DEF Peek, Batch
    <3> QED BY <3>1, CheckScheduledLeases
  <2>2. ASSUME NEW q \in Queues, Counts(q) PROVE LeaseStep
    BY <2>2, CheckScheduledLeases DEF Counts
  <2>3. ASSUME NEW q \in Queues, Pause(q) \/ Unpause(q) PROVE LeaseStep
    BY <2>3, FieldsUntouched DEF Pause, Unpause
  <2>4. ASSUME NEW w \in Workers, ForgetJobsOf(w) PROVE LeaseStep
    BY <2>4, FieldsUntouched DEF ForgetJobsOf
  <2>5. ASSUME NEW j \in Jobs, NEW ds \in SUBSET Jobs, DependsOn(j, ds)
        PROVE  LeaseStep
    BY <2>5, FieldsUntouched DEF DependsOn
  <2> QED
    BY <1>2, <2>1, <2>2, <2>3, <2>4, <2>5, PutLeases, TimeoutLeases,
       CancelLeases, DependsOffLeases, UnfailLeases DEF ClientStep
<1>3. CASE WorkerStep
  <2>1. ASSUME NEW p \in Procs, NEW j \in Jobs,
               Heartbeat(p, j) \/ Abandon(p, j) \/ Resume(p, j)
        PROVE  LeaseStep
    BY <2>1, FieldsUntouched DEF Heartbeat, Abandon, Resume
  <2> QED
    BY <1>3, <2>1, PopLeases, CompleteLeases, RequeueLeases, FailLeases,
       RetryLeases DEF WorkerStep
<1>4. ASSUME NEW j \in Jobs, NEW place \in where[j], TimeUp(j, place)
      PROVE  LeaseStep
  BY <1>4, FieldsUntouched DEF TimeUp
<1> QED BY <1>1, <1>2, <1>3, <1>4 DEF Next

(* Whatever clients and workers do, what becomes of a job is what JobLease *)
(* promises: the scripts implement the abstract life of a job.             *)
THEOREM LeaseImplemented ==
    ASSUME UniqueNames
    PROVE  Spec => LeaseIsKept
BY LeaseInit, LeaseNext, Inductive, PTL DEF Spec, LeaseIsKept, L!Spec
=============================================================================
