----------------------------- MODULE ClientJobs -----------------------------
(***************************************************************************)
(* The Python objects through which clients use the store: Queue and Job   *)
(* of src/reqless/queue.py and src/reqless/job.py.  A Job is a copy of the *)
(* hash of its job, made when it was popped or looked up and never read    *)
(* again; each method sends some of what the copy says, and some of what   *)
(* the client says now, to a script that checks some of it.                *)
(*                                                                         *)
(* Abstractions.                                                           *)
(*  - Every client calls under a name of its own.  A client has at most    *)
(*    one object of a job: the last it was given.                          *)
(*  - Delays, dependencies, throttles and priorities are those of JobStore *)
(*    and Throttle; here work is waiting or is not.  Completed jobs are    *)
(*    kept.  A lock may run out, with or without retries left, at any time.*)
(*  - A call that a script refuses raises and changes nothing; it is no    *)
(*    step.  Methods that only read, tag or track are left out.            *)
(***************************************************************************)
EXTENDS FiniteSets

CONSTANTS
    Jobs,       \* the job ids
    Clients,    \* the clients, and the names they call under
    Queues,     \* the queues clients ask for
    NextQueue,  \* the queue called 'next'
    Data,       \* what jobs carry
    NoQueue,    \* the queue of a completed job ('')
    NoClient,   \* the worker field of a job nobody works on
    NoData,     \* the data of a job that does not exist
    NoObject    \* the client has no object of the job

ASSUME NullsAssumption ==
    /\ NoClient \notin Clients
    /\ NoQueue \notin Queues \cup {NextQueue}
    /\ NoData \notin Data

VARIABLES
    job,       \* the hash of each job: state, queue, worker and data
    work,      \* the queues whose work set has the jid
    locks,     \* the queues whose locks have the jid
    failures,  \* the jids on the list of a failure group
    object     \* the Job each client has of each job: the queue, worker and
               \* data it copied, and whether that is the data last fetched
               \* or last sent

vars == <<job, work, locks, failures, object>>

-----------------------------------------------------------------------------
QueueNames == Queues \cup {NextQueue, NoQueue}
States == {"absent", "waiting", "running", "stalled", "failed", "complete"}
Hash   == [state : States, queue : QueueNames,
           worker : Clients \cup {NoClient}, data : Data \cup {NoData}]

Objects == [queue : QueueNames, worker : Clients \cup {NoClient},
            data : Data, sent : BOOLEAN]

ASSUME ObjectAssumption == NoObject \notin Objects

Absent == [state |-> "absent", queue |-> NoQueue,
           worker |-> NoClient, data |-> NoData]

Exists(j)     == job[j].state # "absent"
Has(c, j)     == object[c][j] # NoObject
RunsFor(j, c) == job[j].state = "running" /\ job[j].worker = c

(* Job.__init__: the copy of what a script returned.                       *)
Copy(hash) == [queue |-> hash.queue, worker |-> hash.worker,
               data |-> hash.data, sent |-> TRUE]

(* The hash of the job becomes hash, and of the two sets of its queue it   *)
(* stays in none (remove_job) and enters the work of the queues in to.     *)
Rewrite(j, hash, to) ==
    /\ job'   = [job EXCEPT ![j] = hash]
    /\ work'  = [work EXCEPT ![j] = (@ \ {job[j].queue}) \cup to]
    /\ locks' = [locks EXCEPT ![j] = @ \ {job[j].queue}]

Sent(c, j) == object' = [object EXCEPT ![c][j].sent = TRUE]

Init ==
    /\ job      = [j \in Jobs |-> Absent]
    /\ work     = [j \in Jobs |-> {}]
    /\ locks    = [j \in Jobs |-> {}]
    /\ failures = {}
    /\ object   = [c \in Clients |-> [j \in Jobs |-> NoObject]]

-----------------------------------------------------------------------------
(* The methods of a Queue.                                                 *)

(* queue.put, whoever calls it: the job is taken from wherever its hash    *)
(* says it is and waits in queue q.                                        *)
PutScript(q, j, d) ==
    /\ Rewrite(j, [state |-> "waiting", queue |-> q,
                   worker |-> NoClient, data |-> d], {q})
    /\ failures' = IF job[j].state = "failed" THEN failures \ {j}
                   ELSE failures
    /\ UNCHANGED object

(* Queue.put, with a jid given.                                            *)
Put(q, j, d) == PutScript(q, j, d)

(* Queue.requeue: only what exists is put again.                           *)
Requeue(q, j, d) == Exists(j) /\ PutScript(q, j, d)

(* Queue.pop: client c is handed a job that waits in queue q, or one whose *)
(* lock in q ran out.  The hash keeps the queue it names.                  *)
Pop(c, q, j) ==
    LET hash == [job[j] EXCEPT !.state = "running", !.worker = c]
    IN  /\ Exists(j)
        /\ q \in work[j] \cup locks[j]
        /\ job'    = [job EXCEPT ![j] = hash]
        /\ work'   = [work EXCEPT ![j] =
                         IF q \in locks[j] THEN @ ELSE @ \ {q}]
        /\ locks'  = [locks EXCEPT ![j] = @ \cup {q}]
        /\ object' = [object EXCEPT ![c][j] = Copy(hash)]
        /\ UNCHANGED failures

(* Queue.pop where a lock of q ran out and the job has no retries left.    *)
Exhaust(q, j) ==
    /\ Exists(j)
    /\ q \in locks[j]
    /\ job'      = [job EXCEPT ![j].state = "failed", ![j].worker = NoClient]
    /\ work'     = [work EXCEPT ![j] = @ \ {q}]
    /\ locks'    = [locks EXCEPT ![j] = @ \ {q}]
    /\ failures' = failures \cup {j}
    /\ UNCHANGED object

(* Jobs.get, Jobs.__getitem__, Jobs.tracked and Jobs.failed with a group:  *)
(* client c gets an object of a job without being handed it.               *)
(* Jobs.failed asks for the jids first and for the jobs then, so whatever  *)
(* has become of a job it listed is what it returns.                       *)
Fetch(c, j) ==
    /\ Exists(j)
    /\ object' = [object EXCEPT ![c][j] = Copy(job[j])]
    /\ UNCHANGED <<job, work, locks, failures>>

(* Queue.peek: the same, of a job pop might hand out.                      *)
Peek(c, q, j) ==
    /\ q \in work[j] \cup locks[j]
    /\ Fetch(c, j)

(* Client.unfail: the jids of a list of failures wait in queue q.  A jid   *)
(* on it that has no hash makes the script raise.                          *)
Unfail(q, j) ==
    /\ Exists(j)
    /\ j \in failures
    /\ job' = [job EXCEPT ![j].state = "waiting", ![j].worker = NoClient,
                          ![j].queue = q]
    /\ work'     = [work EXCEPT ![j] = @ \cup {q}]
    /\ failures' = failures \ {j}
    /\ UNCHANGED <<locks, object>>

-----------------------------------------------------------------------------
(* The methods of a Job.                                                   *)

(* job.data = d is kept in the object.                                     *)
SetData(c, j, d) ==
    /\ Has(c, j)
    /\ object' = [object EXCEPT ![c][j].data = d, ![c][j].sent = FALSE]
    /\ UNCHANGED <<job, work, locks, failures>>

(* Job.heartbeat sends the name of the client and the data.                *)
(* Slip: anybody's heartbeat is accepted.                                  *)
HeartbeatFromAnyone(c, j) ==
    /\ Has(c, j)
    /\ job[j].state = "running"
    /\ job'   = [job EXCEPT ![j].data = object[c][j].data]
    /\ locks' = [locks EXCEPT ![j] = @ \cup {job[j].queue}]
    /\ Sent(c, j)
    /\ UNCHANGED <<work, failures>>

Heartbeat(c, j) ==
    /\ Has(c, j)
    /\ RunsFor(j, c)
    /\ job'   = [job EXCEPT ![j].data = object[c][j].data]
    /\ locks' = [locks EXCEPT ![j] = @ \cup {job[j].queue}]
    /\ Sent(c, j)
    /\ UNCHANGED <<work, failures>>

(* What complete checks: the client has the job, in the queue the object   *)
(* names.  Slip: only the queue is looked at.                              *)
MayCompleteInQueue(c, j) ==
    /\ Has(c, j)
    /\ job[j].state = "running"
    /\ object[c][j].queue = job[j].queue

MayComplete(c, j) ==
    /\ Has(c, j)
    /\ RunsFor(j, c)
    /\ object[c][j].queue = job[j].queue

(* Job.complete without a next queue.                                      *)
Complete(c, j) ==
    /\ MayComplete(c, j)
    /\ Rewrite(j, [state |-> "complete", queue |-> NoQueue,
                   worker |-> NoClient, data |-> object[c][j].data], {})
    /\ Sent(c, j)
    /\ UNCHANGED failures

(* Job.complete with next queue q.  The command already names the argument *)
(* after the data the next queue and takes what follows for its options,   *)
(* and the method sends the word 'next' there, and q after it.             *)
Advance(c, j, q) ==
    /\ MayComplete(c, j)
    /\ Rewrite(j, [state |-> "waiting", queue |-> NextQueue,
                   worker |-> NoClient, data |-> object[c][j].data],
                  {NextQueue})
    /\ Sent(c, j)
    /\ UNCHANGED failures

(* Job.fail sends the name of the client and the data.                     *)
Fail(c, j) ==
    /\ Has(c, j)
    /\ RunsFor(j, c)
    /\ Rewrite(j, [job[j] EXCEPT !.state = "failed", !.worker = NoClient,
                                 !.data = object[c][j].data], {})
    /\ failures' = failures \cup {j}
    /\ Sent(c, j)

(* Job.retry sends the queue and the worker that the object names, and no  *)
(* data.  The job waits in the queue sent; one without retries left fails. *)
Retry(c, j) ==
    /\ Has(c, j)
    /\ RunsFor(j, object[c][j].worker)
    /\ locks' = [locks EXCEPT ![j] = @ \ {job[j].queue}]
    /\ \/ /\ job'  = [job EXCEPT ![j].state = "waiting"]
          /\ work' = [work EXCEPT ![j] = @ \cup {object[c][j].queue}]
          /\ UNCHANGED failures
       \/ /\ job' = [job EXCEPT ![j].state = "failed",
                                ![j].worker = NoClient]
          /\ failures' = failures \cup {j}
          /\ UNCHANGED work
    /\ UNCHANGED object

(* Job.move is a put with the data of the object; no state is refused.     *)
(* Slip: the object's worker keeps the job.                                *)
MoveKeepingWorker(c, j, q) ==
    /\ Has(c, j)
    /\ Rewrite(j, [state |-> job[j].state, queue |-> q,
                   worker |-> job[j].worker, data |-> object[c][j].data],
                  {q})
    /\ UNCHANGED <<failures, object>>

Move(c, j, q) == Has(c, j) /\ PutScript(q, j, object[c][j].data)

(* Job.cancel.  A complete job stays.                                      *)
Cancel(c, j) ==
    /\ Has(c, j)
    /\ job[j].state \notin {"absent", "complete"}
    /\ Rewrite(j, Absent, {})
    /\ failures' = IF job[j].state = "failed" THEN failures \ {j}
                   ELSE failures
    /\ UNCHANGED object

(* Job.timeout: whoever has the job loses it.                              *)
Timeout(c, j) ==
    /\ Has(c, j)
    /\ job[j].state = "running"
    /\ Rewrite(j, [job[j] EXCEPT !.state = "stalled", !.worker = NoClient],
               {job[j].queue})
    /\ UNCHANGED <<failures, object>>

-----------------------------------------------------------------------------
Next ==
    \/ \E q \in Queues, j \in Jobs, d \in Data : Put(q, j, d)
    \/ \E q \in Queues, j \in Jobs, d \in Data : Requeue(q, j, d)
    \/ \E c \in Clients, q \in QueueNames, j \in Jobs : Pop(c, q, j)
    \/ \E c \in Clients, q \in QueueNames, j \in Jobs : Peek(c, q, j)
    \/ \E q \in QueueNames, j \in Jobs : Exhaust(q, j)
    \/ \E q \in Queues, j \in Jobs : Unfail(q, j)
    \/ \E c \in Clients, j \in Jobs :
          \/ Fetch(c, j)
          \/ \E d \in Data : SetData(c, j, d)
          \/ Heartbeat(c, j)
          \/ Complete(c, j)
          \/ \E q \in Queues : Advance(c, j, q) \/ Move(c, j, q)
          \/ Fail(c, j)
          \/ Retry(c, j)
          \/ Cancel(c, j)
          \/ Timeout(c, j)

Spec == Init /\ [][Next]_vars

-----------------------------------------------------------------------------
(* A job that exists has data, of which every object has a copy or a       *)
(* change; one that does not is nothing more than absent.                  *)
TypeOK ==
    /\ job \in [Jobs -> Hash]
    /\ \A j \in Jobs : IF Exists(j) THEN job[j].data \in Data
                       ELSE job[j] = Absent
    /\ work \in [Jobs -> SUBSET QueueNames]
    /\ locks \in [Jobs -> SUBSET QueueNames]
    /\ failures \subseteq Jobs
    /\ object \in [Clients -> [Jobs -> Objects \cup {NoObject}]]

(* The client that has a job has an object of this very run of it: it      *)
(* names the queue and the worker of the job, so complete and retry go to  *)
(* the right queue, and, until the client assigns to it, the data that is  *)
(* stored, so nothing newer is overwritten.  This whatever other clients   *)
(* do meanwhile with objects of their own, fetched in this run or before.  *)
RunsAreKnown ==
    \A c \in Clients, j \in Jobs : RunsFor(j, c) =>
        /\ Has(c, j)
        /\ object[c][j].worker = c
        /\ object[c][j].queue = job[j].queue
        /\ object[c][j].sent => object[c][j].data = job[j].data

(* While a job runs, and when the run ends with the job complete or        *)
(* failed, its data is what it was or what the object of the client that   *)
(* has it says: an object from an earlier run, or fetched by another       *)
(* client, settles nothing.                                                *)
RunStep ==
    \A c \in Clients, j \in Jobs :
        RunsFor(j, c) /\ job'[j].state \in {"running", "complete", "failed"}
            => job'[j].data \in {job[j].data, object[c][j].data}
RunsAreTheHolders == [][RunStep]_vars

(* complete with a next queue is said to advance the job to that queue.    *)
AdvanceStep ==
    \A c \in Clients, j \in Jobs, q \in Queues :
        Advance(c, j, q) => q \in work'[j]
AdvancedJobsArrive == [][AdvanceStep]_vars

(* Jobs are said to be in one queue at a time, the one they were last put  *)
(* in.                                                                     *)
OneQueueAtATime ==
    \A j \in Jobs : work[j] \cup locks[j] \subseteq {job[j].queue}
=============================================================================
