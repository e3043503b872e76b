------------------------------ MODULE JobStore ------------------------------
(***************************************************************************)
(* The job store of reqless: what the Lua scripts of src/reqless/lua keep  *)
(* in redis about every job, and the operations clients and workers call   *)
(* on it.  A script runs atomically, so each operation is one action.      *)
(*                                                                         *)
(* Abstractions.                                                           *)
(*  - Time: a lock or a delayed job is either not yet due or due.  TimeUp  *)
(*    makes it due; whatever (re)inserts an entry makes it not due again.  *)
(*  - Order: a set of a queue is a set.  Which entries a call with a limit *)
(*    takes is any choice of the right size; the order is not modelled.    *)
(*  - Throttles have no maximum and there is no recurring job, so the      *)
(*    calls the scripts make for those find nothing to do.                 *)
(*  - Data, tags, statistics, history and log messages are left out.       *)
(***************************************************************************)
EXTENDS Integers, FiniteSets, FiniteSetsExt

CONSTANTS
    Jobs,          \* the job ids (jid)
    Queues,        \* the queue names
    Procs,         \* the threads of execution that run jobs: a serial
                   \* worker, a child of a forking worker, a greenlet
    Workers,       \* the worker names
    NameOf,        \* the name under which each member of Procs calls
    Retries,       \* the values given for a job's number of retries
    Limits,        \* the numbers of jobs asked for in one pop or peek
    HistoryCount,  \* jobs-history-count: completed jobs that are kept
    GracePeriod,   \* whether the configured grace-period is positive
    NoQueue,       \* the queue field of a completed or unknown job ('')
    NoWorker,      \* the worker field of a job nobody works on ('')
    NoJob          \* no job object is held

ASSUME NamesAssumption   == NameOf \in [Procs -> Workers]
ASSUME RetriesAssumption == Retries \subseteq Nat
ASSUME LimitsAssumption  == Limits \subseteq Nat \ {0}
ASSUME HistoryAssumption == HistoryCount \in Nat
ASSUME GraceAssumption   == GracePeriod \in BOOLEAN
ASSUME NullAssumption    == /\ NoQueue \notin Queues
                            /\ NoWorker \notin Workers
                            /\ NoJob \notin Queues \cup {NoQueue}

VARIABLES
    \* The hash ql:j:<jid>.
    state,         \* its state, "absent" when there is no such hash
    queue,         \* the queue it was last put in
    worker,        \* the worker it was last handed to, unless cleared
    retries,       \* the retries it was given
    remaining,     \* the retries it has left
    grace,         \* whether the courtesy message has been sent
    later,         \* whether the hash has a 'scheduled' field
    \* The sorted sets and lists the jid is in.
    where,         \* the places the jid is in
    due,           \* those of the places whose time has come
    listed,        \* the workers whose list ql:w:<worker>:jobs has the jid
    deps,          \* ql:j:<jid>-dependencies
    dependents,    \* ql:j:<jid>-dependents
    paused,        \* ql:paused_queues
    \* The clients.
    held           \* for each process and jid, the queue_name of the Job
                   \* object it works with, or NoJob

fields == <<state, queue, worker, retries, remaining, grace, later>>
links  == <<deps, dependents>>
vars   == <<fields, where, due, listed, links, paused, held>>

-----------------------------------------------------------------------------
States == {"absent", "waiting", "scheduled", "depends", "running",
           "stalled", "failed", "complete"}

(* A place is a sorted set of a queue, a failure list or ql:completed.     *)
QueueKinds == {"work", "locks", "scheduled", "depends"}
QueueNames == Queues \cup {NoQueue}
Failures   == <<NoQueue, "failed">>
Completed  == <<NoQueue, "completed">>
Places     == QueueNames \X (QueueKinds \cup {"failed", "completed"})

Work(q)      == <<q, "work">>
Locks(q)     == <<q, "locks">>
Scheduled(q) == <<q, "scheduled">>
Depends(q)   == <<q, "depends">>

(* Two slips in remove_job: one of its sets is forgotten.                  *)
InQueueNoDepends(q) == {q} \X (QueueKinds \ {"depends"})
InQueueNoLocks(q)   == {q} \X (QueueKinds \ {"locks"})

(* Everything ReqlessQueue:remove_job takes the jid out of.                *)
InQueue(q) == {q} \X QueueKinds

Members(place) == {j \in Jobs : place \in where[j]}
DueIn(place)   == {j \in Jobs : place \in due[j]}

(* The members a call with a limit takes from a set, their order aside.    *)
Batch(n, S) == {B \in SUBSET S : Cardinality(B) = Min({n, Cardinality(S)})}

(* A job another job can still depend on: it exists and is not complete.   *)
Pending(j) == state[j] \notin {"absent", "complete"}

(* The conditions under which a worker's calls on a job are accepted.      *)
Leased(j, w) == state[j] = "running" /\ worker[j] = w

(* The jid leaves the places gone and enters the places new.               *)
Relocate(j, gone, new) ==
    /\ where' = [where EXCEPT ![j] = (@ \ gone) \cup new]
    /\ due'   = [due EXCEPT ![j] = (@ \ gone) \ new]

Unlist(j, w) == listed' = [listed EXCEPT ![j] = @ \ {w}]

-----------------------------------------------------------------------------
Init ==
    /\ state      = [j \in Jobs |-> "absent"]
    /\ queue      = [j \in Jobs |-> NoQueue]
    /\ worker     = [j \in Jobs |-> NoWorker]
    /\ retries    = [j \in Jobs |-> 0]
    /\ remaining  = [j \in Jobs |-> 0]
    /\ grace      = [j \in Jobs |-> FALSE]
    /\ later      = [j \in Jobs |-> FALSE]
    /\ where      = [j \in Jobs |-> {}]
    /\ due        = [j \in Jobs |-> {}]
    /\ listed     = [j \in Jobs |-> {}]
    /\ deps       = [j \in Jobs |-> {}]
    /\ dependents = [j \in Jobs |-> {}]
    /\ paused     = {}
    /\ held       = [p \in Procs |-> [j \in Jobs |-> NoJob]]

-----------------------------------------------------------------------------
(* Putting and moving: ReqlessQueue:put, reached by Queue.put, by          *)
(* Queue.requeue and by Job.move.  ds are the dependencies given, delayed  *)
(* says whether the delay is positive, n is the number of retries.         *)
KeptDeps(j, ds) == IF ds = {} THEN deps[j] ELSE deps[j] \cap ds

(* A slip: the state of those depended on is not looked at.                *)
NewDepsUnseen(j, ds) == KeptDeps(j, ds) \cup ds

NewDeps(j, ds) == KeptDeps(j, ds) \cup {d \in ds : d = j \/ Pending(d)}

Put(q, j, ds, delayed, n) ==
    LET new     == NewDeps(j, ds)
        dropped == deps[j] \ KeptDeps(j, ds)
        target  == IF new # {} THEN Depends(q)
                   ELSE IF delayed THEN Scheduled(q) ELSE Work(q)
    IN  /\ state' = [state EXCEPT ![j] =
                        IF new # {} THEN "depends"
                        ELSE IF delayed THEN "scheduled" ELSE "waiting"]
        /\ queue'     = [queue EXCEPT ![j] = q]
        /\ worker'    = [worker EXCEPT ![j] = NoWorker]
        /\ retries'   = [retries EXCEPT ![j] = n]
        /\ remaining' = [remaining EXCEPT ![j] = n]
        /\ later'     = [later EXCEPT ![j] = @ \/ (delayed /\ new # {})]
        /\ Relocate(j, InQueue(queue[j])
                        \cup {pl \in {Failures} : state[j] = "failed"}
                        \cup {pl \in {Completed} : state[j] = "complete"},
                    {target})
        /\ Unlist(j, worker[j])
        /\ deps' = [deps EXCEPT ![j] = new]
        /\ dependents' = [d \in Jobs |->
                            IF d \in new THEN dependents[d] \cup {j}
                            ELSE IF d \in dropped THEN dependents[d] \ {j}
                            ELSE dependents[d]]
        /\ UNCHANGED <<grace, paused, held>>

-----------------------------------------------------------------------------
(* Popping: ReqlessQueue:pop.  The locks of the queue that are due are     *)
(* dealt with first (invalidate_locks): a lock whose holder has not had    *)
(* the courtesy message gets the grace period, a job with no retries left  *)
(* fails, and any other is handed out again.  Then delayed jobs that are   *)
(* due become work (check_scheduled), and work is handed out.              *)
(* Slips: the courtesy is never, or always, given; one retry too many.     *)
CourteousNever(E)   == {j \in E : FALSE}
CourteousAlways(E)  == {j \in E : GracePeriod}
Courteous(E) == {j \in E : GracePeriod /\ ~grace[j]}
ExhaustedLate(E) == {j \in E \ Courteous(E) : remaining[j] < 0}
Exhausted(E) == {j \in E \ Courteous(E) : remaining[j] < 1}
Dead(E)      == E \ (Courteous(E) \cup Exhausted(E))

(* What pop does once it has chosen the due locks E, the due delayed jobs  *)
(* M and the work T it takes.                                              *)
HandOut(p, q, E, M, T) ==
    LET w       == NameOf[p]
        spent   == Exhausted(E)
        dead    == Dead(E)
        taken   == dead \cup {j \in T : state[j] # "absent"}
        gone(j) == {pl \in InQueue(q) :
                       \/ j \in spent /\ pl # Depends(q)
                       \/ j \in M /\ pl = Scheduled(q)
                       \/ j \in T /\ pl = Work(q)}
        new(j)  == {pl \in InQueue(q) \cup {Failures} :
                       \/ j \in spent /\ pl = Failures
                       \/ j \in M \ T /\ pl = Work(q)
                       \/ j \in taken \cup Courteous(E) /\ pl = Locks(q)}
    IN  /\ state' = [j \in Jobs |-> IF j \in taken THEN "running"
                                    ELSE IF j \in spent THEN "failed"
                                    ELSE IF j \in M THEN "waiting"
                                    ELSE state[j]]
        /\ worker' = [j \in Jobs |-> IF j \in taken THEN w
                                     ELSE IF j \in spent THEN NoWorker
                                     ELSE worker[j]]
        /\ remaining' = [j \in Jobs |-> IF j \in spent \cup dead
                                        THEN remaining[j] - 1
                                        ELSE remaining[j]]
        /\ grace' = [j \in Jobs |-> IF j \in Courteous(E) THEN TRUE
                                    ELSE IF j \in E THEN FALSE
                                    ELSE grace[j]]
        /\ where' = [j \in Jobs |-> (where[j] \ gone(j)) \cup new(j)]
        /\ due'   = [j \in Jobs |-> (due[j] \ gone(j)) \ new(j)]
        /\ listed' = [j \in Jobs |->
                        (IF j \in E THEN listed[j] \ {worker[j]} ELSE listed[j])
                          \cup (IF j \in taken THEN {w} ELSE {})]
        /\ held' = [held EXCEPT ![p] =
                        [j \in Jobs |-> IF j \in taken THEN queue[j] ELSE @[j]]]
        /\ UNCHANGED <<queue, retries, later, links, paused>>

Pop(p, q, limit) ==
    /\ q \notin paused
    /\ \E E \in Batch(limit, DueIn(Locks(q))) :
         \E M \in Batch(limit - Cardinality(Dead(E)), DueIn(Scheduled(q))) :
           \E T \in Batch(limit - Cardinality(Dead(E)),
                          Members(Work(q)) \cup M) :
             /\ \A j \in E : state[j] # "absent"
             /\ HandOut(p, q, E, M, T)

-----------------------------------------------------------------------------
(* The calls of a process on the job it holds, Job.heartbeat, .complete,   *)
(* .fail and .retry.  A call that finds the job not running, or running    *)
(* for another name, raises an error and changes nothing.                  *)
Holds(p, j) == held[p][j] # NoJob

Heartbeat(p, j) ==
    /\ Holds(p, j)
    /\ Leased(j, NameOf[p])
    /\ Relocate(j, {}, {Locks(queue[j])})
    /\ listed' = [listed EXCEPT ![j] = @ \cup {NameOf[p]}]
    /\ UNCHANGED <<fields, links, paused, held>>

(* The guard complete and completeAndRequeue share: the caller also names  *)
(* the queue the job was in when it was popped.                            *)
MayComplete(p, j) ==
    /\ Holds(p, j)
    /\ Leased(j, NameOf[p])
    /\ held[p][j] = queue[j]

(* A job that waited for j alone goes to its queue when j completes, to    *)
(* the delayed jobs if its put asked for a delay.                          *)
Released(j) == {k \in dependents[j] : deps[k] = {j} /\ state[k] # "absent"}
FreedAstray(k) == <<queue[k], "waiting">>   \* a slip: no such set
Freed(k)    == IF later[k] THEN Scheduled(queue[k]) ELSE Work(queue[k])

(* forgotten: the completed jobs that are too old, or too many, to keep.   *)
Complete(p, j, forgotten) ==
    LET freed == Released(j) \ forgotten
        kept  == (Members(Completed) \cup {j}) \ forgotten
        gone(k) == IF k = j THEN InQueue(queue[j])
                   ELSE IF k \in freed THEN {Depends(queue[k])} ELSE {}
        new(k)  == IF k = j THEN {Completed}
                   ELSE IF k \in freed THEN {Freed(k)} ELSE {}
        clear(f, v) == [k \in Jobs |-> IF k \in forgotten THEN v ELSE f[k]]
    IN  /\ MayComplete(p, j)
        /\ Cardinality(kept) <= HistoryCount
        /\ state' = [k \in Jobs |->
                       IF k \in forgotten THEN "absent"
                       ELSE IF k = j THEN "complete"
                       ELSE IF k \notin freed THEN state[k]
                       ELSE IF later[k] THEN "scheduled" ELSE "waiting"]
        /\ queue'     = clear([queue EXCEPT ![j] = NoQueue], NoQueue)
        /\ worker'    = clear([worker EXCEPT ![j] = NoWorker], NoWorker)
        /\ retries'   = clear(retries, 0)
        /\ remaining' = clear([remaining EXCEPT ![j] = retries[j]], 0)
        /\ grace'     = clear(grace, FALSE)
        /\ later'     = [k \in Jobs |-> later[k] /\ k \notin forgotten \cup freed]
        /\ where' = [k \in Jobs |-> ((where[k] \ gone(k)) \cup new(k))
                                      \ {pl \in {Completed} : k \in forgotten}]
        /\ due'   = [k \in Jobs |-> due[k] \ (gone(k) \cup new(k) \cup {Completed})]
        /\ Unlist(j, NameOf[p])
        /\ deps' = [k \in Jobs |-> IF k \in forgotten THEN {}
                                   ELSE IF k \in dependents[j] THEN deps[k] \ {j}
                                   ELSE deps[k]]
        /\ dependents' = [dependents EXCEPT ![j] = {}]
        /\ UNCHANGED <<paused, held>>

(* The state field stays "waiting" when the job is delayed: the script     *)
(* returns before it would be set.  A delay given with dependencies that   *)
(* are all complete is dropped.                                            *)
CompleteAndRequeue(p, j, q, ds, delayed) ==
    LET new    == {d \in ds : d = j \/ Pending(d)}
        target == IF new # {} THEN Depends(q)
                  ELSE IF delayed /\ ds = {} THEN Scheduled(q) ELSE Work(q)
    IN  /\ MayComplete(p, j)
        /\ state' = [state EXCEPT ![j] =
                        IF new # {} THEN "depends" ELSE "waiting"]
        /\ queue'     = [queue EXCEPT ![j] = q]
        /\ worker'    = [worker EXCEPT ![j] = NoWorker]
        /\ remaining' = [remaining EXCEPT ![j] = retries[j]]
        /\ later'     = [later EXCEPT ![j] = @ \/ (delayed /\ new # {})]
        /\ Relocate(j, InQueue(queue[j]), {target})
        /\ Unlist(j, NameOf[p])
        /\ deps' = [deps EXCEPT ![j] = @ \cup new]
        /\ dependents' = [d \in Jobs |-> IF d \in new THEN dependents[d] \cup {j}
                                         ELSE dependents[d]]
        /\ UNCHANGED <<retries, grace, paused, held>>

Fail(p, j) ==
    /\ Holds(p, j)
    /\ Leased(j, NameOf[p])
    /\ state'  = [state EXCEPT ![j] = "failed"]
    /\ worker' = [worker EXCEPT ![j] = NoWorker]
    /\ Relocate(j, InQueue(queue[j]), {Failures})
    /\ Unlist(j, NameOf[p])
    /\ UNCHANGED <<queue, retries, remaining, grace, later, links, paused, held>>

(* The job goes to the queue the caller names, which is the queue_name of  *)
(* its Job object; the worker field is cleared only when the job fails.    *)
Retry(p, j, delayed) ==
    LET over == remaining[j] < 1
        q    == held[p][j]
    IN  /\ Holds(p, j)
        /\ Leased(j, NameOf[p])
        /\ state' = [state EXCEPT ![j] = IF over THEN "failed"
                                         ELSE IF delayed THEN "scheduled"
                                         ELSE "waiting"]
        /\ worker'    = [worker EXCEPT ![j] = IF over THEN NoWorker ELSE @]
        /\ remaining' = [remaining EXCEPT ![j] = @ - 1]
        /\ grace'     = [grace EXCEPT ![j] = FALSE]
        /\ Relocate(j, {Locks(queue[j])},
                    {IF over THEN Failures
                     ELSE IF delayed THEN Scheduled(q) ELSE Work(q)})
        /\ Unlist(j, NameOf[p])
        /\ UNCHANGED <<queue, retries, later, links, paused, held>>

-----------------------------------------------------------------------------
(* The calls any client may make.                                          *)
(* A slip: the lock is dropped, the state is left alone.                   *)
TimeoutNoState(j) ==
    /\ state[j] = "running"
    /\ worker' = [worker EXCEPT ![j] = NoWorker]
    /\ Relocate(j, {Locks(queue[j])}, {Work(queue[j])})
    /\ UNCHANGED <<state, queue, retries, remaining, grace, later, listed,
                   links, paused, held>>

Timeout(j) ==
    /\ state[j] = "running"
    /\ state'  = [state EXCEPT ![j] = "stalled"]
    /\ worker' = [worker EXCEPT ![j] = NoWorker]
    /\ Relocate(j, {Locks(queue[j])}, {Work(queue[j])})
    /\ UNCHANGED <<queue, retries, remaining, grace, later, listed, links,
                   paused, held>>

(* Refused unless every dependent is cancelled too; complete jobs are      *)
(* passed over.                                                            *)
Cancel(S) ==
    LET removed == {j \in S : state[j] # "complete"}
        gone(j) == IF j \in removed
                   THEN InQueue(queue[j])
                          \cup {pl \in {Failures} : state[j] = "failed"}
                   ELSE {}
        clear(f, v) == [j \in Jobs |-> IF j \in removed THEN v ELSE f[j]]
    IN  /\ \A j \in S : dependents[j] \subseteq S
        /\ state'     = clear(state, "absent")
        /\ queue'     = clear(queue, NoQueue)
        /\ worker'    = clear(worker, NoWorker)
        /\ retries'   = clear(retries, 0)
        /\ remaining' = clear(remaining, 0)
        /\ grace'     = clear(grace, FALSE)
        /\ later'     = clear(later, FALSE)
        /\ where'     = [j \in Jobs |-> where[j] \ gone(j)]
        /\ due'       = [j \in Jobs |-> due[j] \ gone(j)]
        /\ listed'    = [j \in Jobs |-> IF j \in removed
                                        THEN listed[j] \ {worker[j]}
                                        ELSE listed[j]]
        /\ deps'      = clear(deps, {})
        /\ dependents' = [d \in Jobs |->
                            {j \in dependents[d] :
                                ~ (j \in removed /\ d \in deps[j])}]
        /\ UNCHANGED <<paused, held>>

DependsOn(j, ds) ==
    LET new == {d \in ds : Pending(d)}
    IN  /\ state[j] = "depends"
        /\ deps' = [deps EXCEPT ![j] = @ \cup new]
        /\ dependents' = [d \in Jobs |-> IF d \in new THEN dependents[d] \cup {j}
                                         ELSE dependents[d]]
        /\ UNCHANGED <<fields, where, due, listed, paused, held>>

(* depends('off', ...): with all dependencies gone the job becomes work,   *)
(* even when its put asked for a delay, and 'scheduled' stays set.         *)
DependsOff(j, ds) ==
    LET free == deps[j] \subseteq ds
    IN  /\ state[j] = "depends"
        /\ deps' = [deps EXCEPT ![j] = @ \ ds]
        /\ dependents' = [d \in Jobs |-> IF d \in ds THEN dependents[d] \ {j}
                                         ELSE dependents[d]]
        /\ state' = [state EXCEPT ![j] = IF free THEN "waiting" ELSE @]
        /\ IF free THEN Relocate(j, {Depends(queue[j])}, {Work(queue[j])})
                   ELSE UNCHANGED <<where, due>>
        /\ UNCHANGED <<queue, worker, retries, remaining, grace, later, listed,
                       paused, held>>

(* A slip: the retries are as they were.                                   *)
UnfailAsLeft(q, S) ==
    LET back(f, v) == [j \in Jobs |-> IF j \in S THEN v ELSE f[j]]
    IN  /\ S \subseteq Members(Failures)
        /\ state'  = back(state, "waiting")
        /\ queue'  = back(queue, q)
        /\ worker' = back(worker, NoWorker)
        /\ where'  = [j \in Jobs |-> IF j \in S
                                     THEN (where[j] \ {Failures}) \cup {Work(q)}
                                     ELSE where[j]]
        /\ due'    = [j \in Jobs |-> IF j \in S
                                     THEN due[j] \ {Failures, Work(q)}
                                     ELSE due[j]]
        /\ UNCHANGED <<retries, remaining, grace, later, listed, links, paused, held>>

(* Any of the failed jobs, S, put back to work in the queue q.             *)
Unfail(q, S) ==
    LET back(f, v) == [j \in Jobs |-> IF j \in S THEN v ELSE f[j]]
    IN  /\ S \subseteq Members(Failures)
        /\ state'     = back(state, "waiting")
        /\ queue'     = back(queue, q)
        /\ worker'    = back(worker, NoWorker)
        /\ remaining' = [j \in Jobs |-> IF j \in S THEN retries[j]
                                        ELSE remaining[j]]
        /\ where'     = [j \in Jobs |-> IF j \in S
                                        THEN (where[j] \ {Failures}) \cup {Work(q)}
                                        ELSE where[j]]
        /\ due'       = [j \in Jobs |-> IF j \in S
                                        THEN due[j] \ {Failures, Work(q)}
                                        ELSE due[j]]
        /\ UNCHANGED <<retries, grace, later, listed, links, paused, held>>

(* check_scheduled on its own: M becomes work.                             *)
CheckScheduled(q, M) ==
    /\ state' = [j \in Jobs |-> IF j \in M THEN "waiting" ELSE state[j]]
    /\ where' = [j \in Jobs |-> IF j \in M
                                THEN (where[j] \ {Scheduled(q)}) \cup {Work(q)}
                                ELSE where[j]]
    /\ due'   = [j \in Jobs |-> IF j \in M
                                THEN due[j] \ {Scheduled(q), Work(q)}
                                ELSE due[j]]
    /\ UNCHANGED <<queue, worker, retries, remaining, grace, later, listed,
                   links, paused, held>>

(* Counting a queue, or listing its delayed jobs, promotes all that are    *)
(* due; peeking promotes as many as the limit leaves room for.             *)
Counts(q) == CheckScheduled(q, DueIn(Scheduled(q)))

Peek(q, limit) ==
    LET expired == Min({limit, Cardinality(DueIn(Locks(q)))})
    IN  \E M \in Batch(limit - expired, DueIn(Scheduled(q))) : CheckScheduled(q, M)

Pause(q) ==
    /\ paused' = paused \cup {q}
    /\ UNCHANGED <<fields, where, due, listed, links, held>>

Unpause(q) ==
    /\ paused' = paused \ {q}
    /\ UNCHANGED <<fields, where, due, listed, links, held>>

(* worker(s).counts: the job lists of workers that have not popped for     *)
(* max-worker-age are deleted.                                             *)
ForgetJobsOf(w) ==
    /\ listed' = [j \in Jobs |-> listed[j] \ {w}]
    /\ UNCHANGED <<fields, where, due, links, paused, held>>

-----------------------------------------------------------------------------
(* The world around the store.                                             *)

(* The time of a lock or of a delayed job comes.                           *)
TimeUp(j, place) ==
    /\ place \in where[j] \ due[j]
    /\ place[2] \in {"locks", "scheduled"}
    /\ due' = [due EXCEPT ![j] = @ \cup {place}]
    /\ UNCHANGED <<fields, where, listed, links, paused, held>>

(* The process is done with its Job object: the job's method returned, or  *)
(* the process was killed.                                                 *)
Abandon(p, j) ==
    /\ Holds(p, j)
    /\ held' = [held EXCEPT ![p][j] = NoJob]
    /\ UNCHANGED <<fields, where, due, listed, links, paused>>

(* A worker that starts with resume=True: it reads the jobs on the list of *)
(* its name and goes on with those it can still heartbeat.                 *)
Resume(p, j) ==
    /\ ~ Holds(p, j)
    /\ NameOf[p] \in listed[j]
    /\ Locks(queue[j]) \notin due[j]
    /\ Leased(j, NameOf[p])
    /\ held' = [held EXCEPT ![p][j] = queue[j]]
    /\ Relocate(j, {}, {Locks(queue[j])})
    /\ UNCHANGED <<fields, listed, links, paused>>

-----------------------------------------------------------------------------
ClientStep ==
    \/ \E q \in Queues, j \in Jobs, ds \in SUBSET Jobs, delayed \in BOOLEAN,
          n \in Retries : Put(q, j, ds, delayed, n)
    \/ \E j \in Jobs : Timeout(j)
    \/ \E S \in SUBSET Jobs : Cancel(S)
    \/ \E j \in Jobs, ds \in SUBSET Jobs : DependsOn(j, ds)
    \/ \E j \in Jobs, ds \in SUBSET Jobs : DependsOff(j, ds)
    \/ \E q \in Queues, S \in SUBSET Jobs : Unfail(q, S)
    \/ \E q \in Queues : Counts(q)
    \/ \E q \in Queues, limit \in Limits : Peek(q, limit)
    \/ \E q \in Queues : Pause(q)
    \/ \E q \in Queues : Unpause(q)
    \/ \E w \in Workers : ForgetJobsOf(w)

WorkerStep ==
    \/ \E p \in Procs, q \in Queues, limit \in Limits : Pop(p, q, limit)
    \/ \E p \in Procs, j \in Jobs : Heartbeat(p, j)
    \/ \E p \in Procs, j \in Jobs :
         \E forgotten \in SUBSET (Members(Completed) \cup {j}) :
           Complete(p, j, forgotten)
    \/ \E p \in Procs, j \in Jobs, q \in Queues, ds \in SUBSET Jobs,
          delayed \in BOOLEAN : CompleteAndRequeue(p, j, q, ds, delayed)
    \/ \E p \in Procs, j \in Jobs : Fail(p, j)
    \/ \E p \in Procs, j \in Jobs, delayed \in BOOLEAN : Retry(p, j, delayed)
    \/ \E p \in Procs, j \in Jobs : Abandon(p, j)
    \/ \E p \in Procs, j \in Jobs : Resume(p, j)

Next ==
    \/ ClientStep
    \/ WorkerStep
    \/ \E j \in Jobs : \E place \in where[j] : TimeUp(j, place)

Spec == Init /\ [][Next]_vars

-----------------------------------------------------------------------------
(* Safety.                                                                 *)

(* Every field holds what the scripts write into it.                       *)
TypeOK ==
    /\ state      \in [Jobs -> States]
    /\ queue      \in [Jobs -> QueueNames]
    /\ worker     \in [Jobs -> Workers \cup {NoWorker}]
    /\ retries    \in [Jobs -> Nat]
    /\ remaining  \in [Jobs -> Int]
    /\ grace      \in [Jobs -> BOOLEAN]
    /\ later      \in [Jobs -> BOOLEAN]
    /\ where      \in [Jobs -> SUBSET Places]
    /\ due        \in [Jobs -> SUBSET Places]
    /\ listed     \in [Jobs -> SUBSET Workers]
    /\ deps       \in [Jobs -> SUBSET Jobs]
    /\ dependents \in [Jobs -> SUBSET Jobs]
    /\ paused     \in SUBSET Queues
    /\ held       \in [Procs -> [Jobs -> QueueNames \cup {NoJob}]]

(* The places a job in the state st, last put in the queue q, can be in.   *)
Homes(st, q) ==
    CASE st = "waiting"   -> {Work(q), Scheduled(q)}
      [] st = "stalled"   -> {Work(q)}
      [] st = "scheduled" -> {Scheduled(q)}
      [] st = "depends"   -> {Depends(q)}
      [] st = "running"   -> {Locks(q)}
      [] st = "failed"    -> {Failures}
      [] st = "complete"  -> {Completed}
      [] OTHER            -> {}

Placed(st, q, places) ==
    /\ IF st = "absent" THEN places = {}
       ELSE \E place \in Homes(st, q) : places = {place}
    /\ st \in {"absent", "complete"} <=> q = NoQueue

(* Jobs are in one queue at a time, the one they were last put in, and in  *)
(* it in the one set that goes with their state; no operation leaves an    *)
(* entry behind, loses the last one, or invents one for an unknown job.    *)
Placement == \A j \in Jobs : Placed(state[j], queue[j], where[j])

(* The two sides of every dependency agree, a job has dependencies exactly *)
(* while it is in the depends state, and it only waits for jobs that can   *)
(* still complete: none is handed out early and none waits for nothing.    *)
DependenciesOK ==
    \A j \in Jobs :
        /\ state[j] = "depends" <=> deps[j] # {}
        /\ \A d \in Jobs : d \in deps[j] <=> j \in dependents[d]
        /\ \A d \in deps[j] : Pending(d)

(* A running job has an owner, and every Job object the owner holds for it *)
(* names the queue it runs in, so complete and retry, which check or use   *)
(* the object's queue, act on the right queue.                             *)
OwnersUpToDate ==
    \A j \in Jobs : state[j] = "running" =>
        /\ worker[j] \in Workers
        /\ \A p \in Procs : NameOf[p] = worker[j] =>
                              held[p][j] \in {queue[j], NoJob}

(* A job runs at most once more than it has retries: what is left never    *)
(* exceeds what was given, and going below zero means the job has failed.  *)
RetriesOK ==
    \A j \in Jobs :
        /\ remaining[j] \in -1 .. retries[j]
        /\ remaining[j] = -1 => state[j] = "failed"

(* Nobody takes a job from a running worker unless its lock was due, the   *)
(* grace period (when there is one) had been given, and a retry is used.   *)
HandedOver(j) ==
    /\ state[j] = "running" /\ state'[j] = "running"
    /\ worker'[j] # worker[j]

HandoverStep ==
    \A j \in Jobs : HandedOver(j) =>
        /\ Locks(queue[j]) \in due[j]
        /\ GracePeriod => grace[j]
        /\ remaining'[j] = remaining[j] - 1
HandoverIsEarned == [][HandoverStep]_vars

(* A complete job is never run, timed out or failed again; it leaves that  *)
(* state only by being forgotten or by being put once more.                *)
CompleteStep ==
    \A j \in Jobs : state[j] = "complete" =>
        state'[j] \in {"complete", "absent", "waiting", "scheduled", "depends"}
CompleteIsFinal == [][CompleteStep]_vars

(* What becomes of a job is what JobLease says may become of it: it is     *)
(* held by one worker at a time, is never handed out while it waits for    *)
(* another job, and pays with a retry when its holder loses it to time.    *)
Status(st) ==
    CASE st = "absent"  -> "none"
      [] st = "depends" -> "blocked"
      [] st = "running" -> "held"
      [] st \in {"failed", "complete"} -> st
      [] OTHER          -> "idle"
L == INSTANCE JobLease WITH
        Holders <- Workers,
        Nobody  <- NoWorker,
        Notice  <- GracePeriod,
        status  <- [j \in Jobs |-> Status(state[j])],
        holder  <- [j \in Jobs |-> IF state[j] = "running" THEN worker[j]
                                   ELSE NoWorker],
        given   <- retries,
        left    <- remaining,
        warned  <- grace
LeaseIsKept == L!Spec

-----------------------------------------------------------------------------
(* Liveness.  Time passes.  Each queue that is not paused is polled for    *)
(* ever, and a poll starts with the locks that have been due the longest,  *)
(* so the lock of a given job does not stay due.                           *)
PollsLock(j) ==
    \E p \in Procs, q \in Queues, limit \in Limits :
        /\ Locks(q) \in due[j]
        /\ Pop(p, q, limit)
        /\ Locks(q) \notin due'[j]

Fairness ==
    \A j \in Jobs :
        /\ WF_vars(\E place \in where[j] : TimeUp(j, place))
        /\ WF_vars(PollsLock(j))

FairSpec == Spec /\ Fairness

(* No process works on the job under the name that has it.                 *)
Dropped(j) ==
    /\ state[j] = "running"
    /\ \A p \in Procs : NameOf[p] = worker[j] => ~ Holds(p, j)

(* Jobs don't get dropped on the floor: unless queues stay paused or are   *)
(* paused again and again, a dropped job is taken up or leaves the state.  *)
DroppedJobsAreReclaimed ==
    (\A q \in Queues : <>[](q \notin paused)) =>
        \A j \in Jobs : Dropped(j) ~> ~ Dropped(j)
=============================================================================
