-------------------------- MODULE ClientJobs_proofs --------------------------
(***************************************************************************)
(* Proofs about ClientJobs, for any jobs, clients, queues and data: the    *)
(* client that has a job knows the run it has, and nobody else settles     *)
(* what the run leaves behind.                                             *)
(***************************************************************************)
EXTENDS ClientJobs, TLAPS

IInv == TypeOK /\ RunsAreKnown

-----------------------------------------------------------------------------
(* What the scripts and the objects have in common.                        *)

(* A copy of a job that exists is an object.                               *)
LEMMA CopyIsObject ==
    ASSUME NEW hash \in Hash, hash.data \in Data
    PROVE  Copy(hash) \in Objects /\ Copy(hash) # NoObject
<1>1. Copy(hash) \in Objects
  BY DEF Copy, Objects, Hash
<1> QED BY <1>1, ObjectAssumption

(* A job that exists has data, and an object of a job is one of Objects.   *)
LEMMA ExistingHasData ==
    ASSUME TypeOK, NEW j \in Jobs, Exists(j)
    PROVE  job[j] \in Hash /\ job[j].data \in Data
BY DEF TypeOK

LEMMA HeldIsObject ==
    ASSUME TypeOK, NEW c \in Clients, NEW j \in Jobs, Has(c, j)
    PROVE  object[c][j] \in Objects
BY DEF TypeOK, Has

LEMMA RunningExists ==
    ASSUME NEW c \in Clients, NEW j \in Jobs, RunsFor(j, c)
    PROVE  Exists(j)
BY DEF RunsFor, Exists

(* A hash with a state and data is a job that exists; it may take the      *)
(* place of another.                                                       *)
LEMMA TypeRewrite ==
    ASSUME TypeOK, NEW j \in Jobs, NEW hash \in Hash, NEW to \in SUBSET QueueNames,
           Rewrite(j, hash, to),
           hash = Absent \/ (hash.state # "absent" /\ hash.data \in Data),
           failures' \subseteq Jobs,
           object' \in [Clients -> [Jobs -> Objects \cup {NoObject}]]
    PROVE  TypeOK'
<1>1. job' \in [Jobs -> Hash] /\ work' \in [Jobs -> SUBSET QueueNames]
      /\ locks' \in [Jobs -> SUBSET QueueNames]
  BY DEF TypeOK, Rewrite
<1>2. ASSUME NEW k \in Jobs
      PROVE  IF Exists(k)' THEN job'[k].data \in Data ELSE job'[k] = Absent
  <2>1. CASE k = j
    BY <2>1 DEF TypeOK, Rewrite, Exists, Absent
  <2>2. CASE k # j
    BY <2>2 DEF TypeOK, Rewrite, Exists
  <2> QED BY <2>1, <2>2
<1> QED BY <1>1, <1>2 DEF TypeOK

LEMMA TypeSent ==
    ASSUME TypeOK, NEW c \in Clients, NEW j \in Jobs, Has(c, j), Sent(c, j)
    PROVE  object' \in [Clients -> [Jobs -> Objects \cup {NoObject}]]
<1>1. [object[c][j] EXCEPT !.sent = TRUE] \in Objects
  BY HeldIsObject DEF Objects
<1> QED BY <1>1 DEF TypeOK, Sent

-----------------------------------------------------------------------------
(* Type correctness.                                                       *)

LEMMA TypeInit == Init => TypeOK
BY DEF Init, TypeOK, Exists, Absent, Hash, States, QueueNames

LEMMA TypePut ==
    ASSUME TypeOK, NEW q \in Queues, NEW j \in Jobs, NEW d \in Data,
           PutScript(q, j, d)
    PROVE  TypeOK'
<1> DEFINE hash == [state |-> "waiting", queue |-> q, worker |-> NoClient, data |-> d]
<1>1. hash \in Hash /\ hash.state # "absent" /\ hash.data \in Data
  BY DEF Hash, States, QueueNames
<1>2. failures' \subseteq Jobs
      /\ object' \in [Clients -> [Jobs -> Objects \cup {NoObject}]]
  BY DEF PutScript, TypeOK
<1>3. Rewrite(j, hash, {q}) /\ {q} \in SUBSET QueueNames
  BY DEF PutScript, QueueNames
<1> HIDE DEF hash
<1> QED BY <1>1, <1>2, <1>3, TypeRewrite

LEMMA TypePop ==
    ASSUME TypeOK, NEW c \in Clients, NEW q \in QueueNames, NEW j \in Jobs,
           Pop(c, q, j)
    PROVE  TypeOK'
<1> DEFINE hash == [job[j] EXCEPT !.state = "running", !.worker = c]
<1>1. hash \in Hash /\ hash.data \in Data /\ hash.state = "running"
  BY ExistingHasData DEF Pop, Hash, States
<1>2. Copy(hash) \in Objects
  BY <1>1, CopyIsObject
<1>3. /\ job' = [job EXCEPT ![j] = hash]
      /\ object' = [object EXCEPT ![c][j] = Copy(hash)]
      /\ failures' = failures
      /\ work' \in [Jobs -> SUBSET QueueNames]
      /\ locks' \in [Jobs -> SUBSET QueueNames]
  BY DEF Pop, TypeOK
<1> HIDE DEF hash
<1>4. object' \in [Clients -> [Jobs -> Objects \cup {NoObject}]]
  BY <1>2, <1>3 DEF TypeOK
<1> QED BY <1>1, <1>3, <1>4 DEF TypeOK, Exists

LEMMA TypeFetch ==
    ASSUME TypeOK, NEW c \in Clients, NEW j \in Jobs, Fetch(c, j)
    PROVE  TypeOK'
<1>1. Copy(job[j]) \in Objects
  BY ExistingHasData, CopyIsObject DEF Fetch
<1>2. object' \in [Clients -> [Jobs -> Objects \cup {NoObject}]]
  BY <1>1 DEF Fetch, TypeOK
<1> QED BY <1>2 DEF Fetch, TypeOK, Exists

(* The calls by the client that has the job, or had it, and those that     *)
(* settle a job without one.                                               *)
LEMMA TypeExhaust ==
    ASSUME TypeOK, NEW q \in QueueNames, NEW j \in Jobs, Exhaust(q, j)
    PROVE  TypeOK'
<1> DEFINE hash == [job[j] EXCEPT !.state = "failed", !.worker = NoClient]
<1>1. hash \in Hash /\ hash.data \in Data /\ hash.state = "failed"
  BY ExistingHasData DEF Exhaust, Hash, States
<1>2. /\ job' = [job EXCEPT ![j] = hash]
      /\ object' = object
      /\ failures' \subseteq Jobs
      /\ work' \in [Jobs -> SUBSET QueueNames]
      /\ locks' \in [Jobs -> SUBSET QueueNames]
  BY DEF Exhaust, TypeOK
<1> HIDE DEF hash
<1> QED BY <1>1, <1>2 DEF TypeOK, Exists

LEMMA TypeUnfail ==
    ASSUME TypeOK, NEW q \in Queues, NEW j \in Jobs, Unfail(q, j)
    PROVE  TypeOK'
<1> DEFINE hash == [job[j] EXCEPT !.state = "waiting", !.worker = NoClient,
                                  !.queue = q]
<1>1. hash \in Hash /\ hash.data \in Data /\ hash.state = "waiting"
  BY ExistingHasData DEF Unfail, Hash, States, QueueNames
<1>2. /\ job' = [job EXCEPT ![j] = hash]
      /\ object' = object
      /\ failures' \subseteq Jobs
      /\ work' \in [Jobs -> SUBSET QueueNames]
      /\ locks' = locks
  BY DEF Unfail, TypeOK, QueueNames
<1> HIDE DEF hash
<1> QED BY <1>1, <1>2 DEF TypeOK, Exists

LEMMA TypeSetData ==
    ASSUME TypeOK, NEW c \in Clients, NEW j \in Jobs, NEW d \in Data,
           SetData(c, j, d)
    PROVE  TypeOK'
<1> DEFINE o == [object[c][j] EXCEPT !.data = d, !.sent = FALSE]
<1>1. o \in Objects
  BY HeldIsObject DEF SetData, Objects
<1>2. /\ object' = [object EXCEPT ![c][j] = o]
      /\ UNCHANGED <<job, work, locks, failures>>
  BY DEF SetData, TypeOK
<1> HIDE DEF o
<1>3. object' \in [Clients -> [Jobs -> Objects \cup {NoObject}]]
  BY <1>1, <1>2 DEF TypeOK
<1> QED BY <1>2, <1>3 DEF TypeOK, Exists

LEMMA TypeHeartbeat ==
    ASSUME TypeOK, NEW c \in Clients, NEW j \in Jobs, Heartbeat(c, j)
    PROVE  TypeOK'
<1> DEFINE hash == [job[j] EXCEPT !.data = object[c][j].data]
<1>1. object[c][j].data \in Data
  BY HeldIsObject DEF Heartbeat, Objects
<1>2. hash \in Hash /\ hash.data \in Data /\ hash.state = "running"
  BY <1>1, ExistingHasData, RunningExists DEF Heartbeat, Hash, RunsFor
<1>3. /\ job' = [job EXCEPT ![j] = hash]
      /\ UNCHANGED <<work, failures>>
      /\ locks' \in [Jobs -> SUBSET QueueNames]
  BY <1>2 DEF Heartbeat, TypeOK, Hash
<1>4. object' \in [Clients -> [Jobs -> Objects \cup {NoObject}]]
  BY TypeSent DEF Heartbeat
<1> HIDE DEF hash
<1> QED BY <1>2, <1>3, <1>4 DEF TypeOK, Exists

LEMMA TypeComplete ==
    ASSUME TypeOK, NEW c \in Clients, NEW j \in Jobs,
           Complete(c, j) \/ \E q \in Queues : Advance(c, j, q)
    PROVE  TypeOK'
<1> PICK s \in {"complete", "waiting"}, q \in QueueNames, to \in SUBSET QueueNames :
       Rewrite(j, [state |-> s, queue |-> q, worker |-> NoClient,
                   data |-> object[c][j].data], to)
  BY DEF Complete, Advance, QueueNames
<1> DEFINE hash == [state |-> s, queue |-> q, worker |-> NoClient,
                    data |-> object[c][j].data]
<1>1. MayComplete(c, j) /\ Sent(c, j) /\ UNCHANGED failures
  BY DEF Complete, Advance
<1>2. hash \in Hash /\ hash.state # "absent" /\ hash.data \in Data
  BY <1>1, HeldIsObject DEF MayComplete, Objects, Hash, States
<1>3. object' \in [Clients -> [Jobs -> Objects \cup {NoObject}]]
  BY <1>1, TypeSent DEF MayComplete
<1>4. failures' \subseteq Jobs
  BY <1>1 DEF TypeOK
<1> HIDE DEF hash
<1>5. Rewrite(j, hash, to)
  BY DEF hash
<1> QED BY <1>2, <1>3, <1>4, <1>5, TypeRewrite

LEMMA TypeFail ==
    ASSUME TypeOK, NEW c \in Clients, NEW j \in Jobs, Fail(c, j)
    PROVE  TypeOK'
<1> DEFINE hash == [job[j] EXCEPT !.state = "failed", !.worker = NoClient,
                                  !.data = object[c][j].data]
<1>1. object[c][j].data \in Data
  BY HeldIsObject DEF Fail, Objects
<1>2. hash \in Hash /\ hash.data \in Data /\ hash.state = "failed"
  BY <1>1, ExistingHasData, RunningExists DEF Fail, Hash, States
<1>3. failures' \subseteq Jobs /\ Rewrite(j, hash, {})
  BY DEF Fail, TypeOK
<1>4. object' \in [Clients -> [Jobs -> Objects \cup {NoObject}]]
  BY TypeSent DEF Fail
<1> HIDE DEF hash
<1> QED BY <1>2, <1>3, <1>4, TypeRewrite

LEMMA TypeRetry ==
    ASSUME TypeOK, NEW c \in Clients, NEW j \in Jobs, Retry(c, j)
    PROVE  TypeOK'
<1>1. Exists(j) /\ object[c][j] \in Objects
  BY HeldIsObject DEF Retry, RunsFor, Exists
<1>2. PICK hash \in {[job[j] EXCEPT !.state = "waiting"],
                     [job[j] EXCEPT !.state = "failed", !.worker = NoClient]} :
         job' = [job EXCEPT ![j] = hash]
  <2>1. CASE job' = [job EXCEPT ![j].state = "waiting"]
    BY <2>1 DEF TypeOK
  <2>2. CASE job' = [job EXCEPT ![j].state = "failed", ![j].worker = NoClient]
    BY <2>2 DEF TypeOK
  <2> QED BY <2>1, <2>2 DEF Retry
<1>3. hash \in Hash /\ hash.data \in Data /\ hash.state # "absent"
  BY <1>1, ExistingHasData DEF Hash, States
<1>4. /\ object' = object
      /\ failures' \subseteq Jobs
      /\ work' \in [Jobs -> SUBSET QueueNames]
      /\ locks' \in [Jobs -> SUBSET QueueNames]
  BY <1>1 DEF Retry, TypeOK, Objects
<1> QED BY <1>2, <1>3, <1>4 DEF TypeOK, Exists

LEMMA TypeCancel ==
    ASSUME TypeOK, NEW c \in Clients, NEW j \in Jobs, Cancel(c, j)
    PROVE  TypeOK'
<1>1. Absent \in Hash
  BY DEF Absent, Hash, States, QueueNames
<1>2. failures' \subseteq Jobs
      /\ object' \in [Clients -> [Jobs -> Objects \cup {NoObject}]]
  BY DEF Cancel, TypeOK
<1> QED BY <1>1, <1>2, TypeRewrite DEF Cancel

LEMMA TypeTimeout ==
    ASSUME TypeOK, NEW c \in Clients, NEW j \in Jobs, Timeout(c, j)
    PROVE  TypeOK'
<1> DEFINE hash == [job[j] EXCEPT !.state = "stalled", !.worker = NoClient]
<1>1. Exists(j)
  BY DEF Timeout, Exists
<1>2. hash \in Hash /\ hash.data \in Data /\ hash.state = "stalled"
  BY <1>1, ExistingHasData DEF Hash, States
<1>3. Rewrite(j, hash, {job[j].queue}) /\ {job[j].queue} \in SUBSET QueueNames
  BY DEF Timeout, TypeOK, Hash
<1>4. failures' \subseteq Jobs
      /\ object' \in [Clients -> [Jobs -> Objects \cup {NoObject}]]
  BY DEF Timeout, TypeOK
<1> HIDE DEF hash
<1> QED BY <1>2, <1>3, <1>4, TypeRewrite

LEMMA TypeNext == TypeOK /\ [Next]_vars => TypeOK'
<1> SUFFICES ASSUME TypeOK, [Next]_vars PROVE TypeOK'
  OBVIOUS
<1>1. CASE UNCHANGED vars
  BY <1>1 DEF vars, TypeOK, Exists
<1>2. ASSUME NEW q \in Queues, NEW j \in Jobs, NEW d \in Data,
             Put(q, j, d) \/ Requeue(q, j, d)
      PROVE  TypeOK'
  BY <1>2, TypePut DEF Put, Requeue
<1>3. ASSUME NEW c \in Clients, NEW q \in QueueNames, NEW j \in Jobs,
             Pop(c, q, j) \/ Peek(c, q, j)
      PROVE  TypeOK'
  BY <1>3, TypePop, TypeFetch DEF Peek
<1>4. ASSUME NEW q \in QueueNames, NEW j \in Jobs, Exhaust(q, j)
      PROVE  TypeOK'
  BY <1>4, TypeExhaust
<1>5. ASSUME NEW q \in Queues, NEW j \in Jobs, Unfail(q, j)
      PROVE  TypeOK'
  BY <1>5, TypeUnfail
<1>6. ASSUME NEW c \in Clients, NEW j \in Jobs,
             \/ Fetch(c, j)
             \/ \E d \in Data : SetData(c, j, d)
             \/ Heartbeat(c, j)
      PROVE  TypeOK'
  BY <1>6, TypeFetch, TypeSetData, TypeHeartbeat
<1>7. ASSUME NEW c \in Clients, NEW j \in Jobs,
             \/ Complete(c, j)
             \/ \E q \in Queues : Advance(c, j, q)
             \/ Fail(c, j)
             \/ Retry(c, j)
      PROVE  TypeOK'
  BY <1>7, TypeComplete, TypeFail, TypeRetry
<1>8. ASSUME NEW c \in Clients, NEW j \in Jobs,
             \/ \E q \in Queues : Move(c, j, q)
             \/ Cancel(c, j)
             \/ Timeout(c, j)
      PROVE  TypeOK'
  <2>1. ASSUME NEW q \in Queues, Move(c, j, q) PROVE TypeOK'
    <3>1. object[c][j].data \in Data
      BY <2>1, HeldIsObject DEF Move, Objects
    <3> QED BY <2>1, <3>1, TypePut DEF Move
  <2> QED BY <1>8, <2>1, TypeCancel, TypeTimeout
<1> QED BY <1>1, <1>2, <1>3, <1>4, <1>5, <1>6, <1>7, <1>8 DEF Next

-----------------------------------------------------------------------------
(* The client that has a job knows its run.                                *)

Known(c, j) ==
    RunsFor(j, c) =>
        /\ Has(c, j)
        /\ object[c][j].worker = c
        /\ object[c][j].queue = job[j].queue
        /\ object[c][j].sent => object[c][j].data = job[j].data

(* A step that writes neither the hash of a job nor an object of it, or    *)
(* ends its run, leaves nothing to know.                                   *)
LEMMA KnownKept ==
    ASSUME NEW c \in Clients, NEW j \in Jobs, Known(c, j),
           \/ job'[j] = job[j] /\ object'[c][j] = object[c][j]
           \/ job'[j].state # "running"
    PROVE  Known(c, j)'
BY DEF Known, RunsFor, Has

(* A client that is handed a job, or looks one up, has a copy of it as it  *)
(* is.                                                                     *)
LEMMA KnownCopied ==
    ASSUME TypeOK', NEW c \in Clients, NEW j \in Jobs,
           Exists(j)', object'[c][j] = Copy(job'[j])
    PROVE  Known(c, j)'
<1>1. job'[j] \in Hash /\ job'[j].data \in Data
  BY DEF TypeOK
<1>2. object'[c][j] # NoObject
  BY <1>1, CopyIsObject
<1> QED BY <1>2 DEF Known, RunsFor, Has, Copy

(* Scripts that leave the job not running, and no object changed but that  *)
(* of the job.                                                             *)
LEMMA KnownEnded ==
    ASSUME TypeOK, NEW j \in Jobs, NEW hash \in Hash, hash.state # "running",
           job' = [job EXCEPT ![j] = hash],
           \A d \in Clients, k \in Jobs : k # j => object'[d][k] = object[d][k],
           NEW c \in Clients, NEW i \in Jobs, Known(c, i)
    PROVE  Known(c, i)'
<1>1. CASE i = j
  BY <1>1, KnownKept DEF TypeOK
<1>2. CASE i # j
  BY <1>2, KnownKept DEF TypeOK
<1> QED BY <1>1, <1>2

LEMMA KnownPut ==
    ASSUME TypeOK, NEW q \in Queues, NEW j \in Jobs, NEW d \in Data,
           PutScript(q, j, d),
           NEW c \in Clients, NEW i \in Jobs, Known(c, i)
    PROVE  Known(c, i)'
<1> DEFINE hash == [state |-> "waiting", queue |-> q, worker |-> NoClient, data |-> d]
<1>1. hash \in Hash /\ hash.state # "running" /\ job' = [job EXCEPT ![j] = hash]
      /\ object' = object
  BY DEF PutScript, Rewrite, Hash, States, QueueNames
<1> HIDE DEF hash
<1> QED BY <1>1, KnownEnded

LEMMA KnownNext ==
    ASSUME IInv, Next, TypeOK', NEW c \in Clients, NEW i \in Jobs
    PROVE  Known(c, i)'
<1> USE DEF IInv
<1>0. Known(c, i)
  BY DEF RunsAreKnown, Known
<1>1. ASSUME NEW q \in Queues, NEW j \in Jobs, NEW d \in Data,
             Put(q, j, d) \/ Requeue(q, j, d)
      PROVE  Known(c, i)'
  BY <1>0, <1>1, KnownPut DEF Put, Requeue
<1>2. ASSUME NEW b \in Clients, NEW q \in QueueNames, NEW j \in Jobs,
             Pop(b, q, j)
      PROVE  Known(c, i)'
  <2>1. CASE i # j
    <3>1. job'[i] = job[i] /\ object'[c][i] = object[c][i]
      BY <1>2, <2>1 DEF Pop, TypeOK
    <3> QED BY <1>0, <3>1, KnownKept
  <2>2. CASE i = j /\ c = b
    <3>1. Exists(j)' /\ object'[c][j] = Copy(job'[j])
      BY <1>2, <2>2 DEF Pop, TypeOK, Exists, Hash
    <3> QED BY <2>2, <3>1, KnownCopied
  <2>3. CASE i = j /\ c # b
    BY <1>2, <2>3 DEF Pop, TypeOK, Known, RunsFor, Hash
  <2> QED BY <2>1, <2>2, <2>3
<1>3. ASSUME NEW b \in Clients, NEW j \in Jobs, Fetch(b, j)
      PROVE  Known(c, i)'
  <2>1. CASE i = j /\ c = b
    <3>1. Exists(j)' /\ object'[c][j] = Copy(job'[j])
      BY <1>3, <2>1 DEF Fetch, TypeOK, Exists
    <3> QED BY <2>1, <3>1, KnownCopied
  <2>2. CASE ~(i = j /\ c = b)
    <3>1. job'[i] = job[i] /\ object'[c][i] = object[c][i]
      BY <1>3, <2>2 DEF Fetch, TypeOK
    <3> QED BY <1>0, <3>1, KnownKept
  <2> QED BY <2>1, <2>2
<1>4. ASSUME NEW b \in Clients, NEW j \in Jobs, NEW d \in Data, SetData(b, j, d)
      PROVE  Known(c, i)'
  <2>1. CASE i = j /\ c = b
    <3>1. object[c][i] \in Objects
      BY <1>4, <2>1, HeldIsObject DEF SetData
    <3> DEFINE o == [object[c][i] EXCEPT !.data = d, !.sent = FALSE]
    <3>2. o \in Objects /\ o.worker = object[c][i].worker
          /\ o.queue = object[c][i].queue /\ ~o.sent
      BY <3>1 DEF Objects
    <3>3. object'[c][i] = o /\ job' = job
      BY <1>4, <2>1 DEF SetData, TypeOK
    <3> HIDE DEF o
    <3> QED BY <1>0, <3>2, <3>3, ObjectAssumption DEF Known, RunsFor, Has
  <2>2. CASE ~(i = j /\ c = b)
    <3>1. job'[i] = job[i] /\ object'[c][i] = object[c][i]
      BY <1>4, <2>2 DEF SetData, TypeOK
    <3> QED BY <1>0, <3>1, KnownKept
  <2> QED BY <2>1, <2>2
<1>5. ASSUME NEW b \in Clients, NEW j \in Jobs, Heartbeat(b, j)
      PROVE  Known(c, i)'
  <2>1. CASE i # j
    <3>1. job'[i] = job[i] /\ object'[c][i] = object[c][i]
      BY <1>5, <2>1 DEF Heartbeat, Sent, TypeOK
    <3> QED BY <1>0, <3>1, KnownKept
  <2>2. CASE i = j /\ c = b
    <3>1. object[c][i] \in Objects /\ job[i] \in Hash
      BY <1>5, <2>2, HeldIsObject DEF Heartbeat, TypeOK
    <3> DEFINE o == [object[c][i] EXCEPT !.sent = TRUE]
    <3>2. o \in Objects /\ o.worker = object[c][i].worker
          /\ o.queue = object[c][i].queue /\ o.data = object[c][i].data
      BY <3>1 DEF Objects
    <3>3. object'[c][i] = o
      BY <1>5, <2>2 DEF Heartbeat, Sent, TypeOK
    <3>4. job'[i].queue = job[i].queue /\ job'[i].data = object[c][i].data
      BY <1>5, <2>2, <3>1 DEF Heartbeat, TypeOK, Hash
    <3>5. RunsFor(i, c)
      BY <1>5, <2>2 DEF Heartbeat
    <3> HIDE DEF o
    <3> QED BY <1>0, <3>2, <3>3, <3>4, <3>5, ObjectAssumption DEF Known, Has
  <2>3. CASE i = j /\ c # b
    BY <1>5, <2>3 DEF Heartbeat, TypeOK, Known, RunsFor, Hash
  <2> QED BY <2>1, <2>2, <2>3
<1>6. ASSUME NEW q \in QueueNames, NEW j \in Jobs,
             Exhaust(q, j) \/ (q \in Queues /\ Unfail(q, j))
      PROVE  Known(c, i)'
  <2>1. object' = object /\ (i # j => job'[i] = job[i])
        /\ job'[j].state # "running"
    BY <1>6 DEF Exhaust, Unfail, TypeOK, Hash
  <2> QED BY <1>0, <2>1, KnownKept
<1>7. ASSUME NEW b \in Clients, NEW j \in Jobs,
             \/ Complete(b, j)
             \/ \E q \in Queues : Advance(b, j, q)
             \/ Fail(b, j)
             \/ Retry(b, j)
             \/ Cancel(b, j)
             \/ Timeout(b, j)
      PROVE  Known(c, i)'
  <2>1. i # j => job'[i] = job[i] /\ object'[c][i] = object[c][i]
    BY <1>7 DEF Complete, Advance, Fail, Retry, Cancel, Timeout, Rewrite, Sent, TypeOK
  <2>2. job'[j].state # "running"
    <3>1. CASE Complete(b, j) \/ \E q \in Queues : Advance(b, j, q)
      BY <3>1 DEF Complete, Advance, Rewrite, TypeOK
    <3>2. CASE Fail(b, j)
      BY <3>2 DEF Fail, Rewrite, TypeOK, Hash
    <3>3. CASE Retry(b, j)
      BY <3>3 DEF Retry, TypeOK, Hash
    <3>4. CASE Cancel(b, j)
      BY <3>4 DEF Cancel, Rewrite, Absent, TypeOK
    <3>5. CASE Timeout(b, j)
      BY <3>5 DEF Timeout, Rewrite, TypeOK, Hash
    <3> QED BY <1>7, <3>1, <3>2, <3>3, <3>4, <3>5
  <2> QED BY <1>0, <2>1, <2>2, KnownKept
<1>8. ASSUME NEW b \in Clients, NEW j \in Jobs, NEW q \in Queues, Move(b, j, q)
      PROVE  Known(c, i)'
  <2>1. object[b][j].data \in Data
    BY <1>8, HeldIsObject DEF Move, Objects
  <2> QED BY <1>0, <1>8, <2>1, KnownPut DEF Move
<1> QED
  BY <1>1, <1>2, <1>3, <1>4, <1>5, <1>6, <1>7, <1>8 DEF Next, Peek, QueueNames

LEMMA Inductive == Spec => []IInv
<1>1. Init => IInv
  BY TypeInit DEF Init, IInv, RunsAreKnown, RunsFor, Absent
<1>2. IInv /\ [Next]_vars => IInv'
  <2> SUFFICES ASSUME IInv, [Next]_vars PROVE IInv'
    OBVIOUS
  <2>1. TypeOK'
    BY TypeNext DEF IInv
  <2>2. CASE UNCHANGED vars
    BY <2>1, <2>2 DEF IInv, vars, RunsAreKnown, RunsFor, Has
  <2>3. CASE Next
    <3>1. \A c \in Clients, i \in Jobs : Known(c, i)'
      BY <2>1, <2>3, KnownNext
    <3> QED BY <2>1, <3>1 DEF IInv, RunsAreKnown, Known
  <2> QED BY <2>2, <2>3
<1> QED BY <1>1, <1>2, PTL DEF Spec

-----------------------------------------------------------------------------
(* Nobody else settles what a run leaves behind.                           *)

LEMMA HolderSettles == IInv /\ [Next]_vars => RunStep
<1> SUFFICES ASSUME IInv, [Next]_vars, NEW c \in Clients, NEW j \in Jobs,
                    RunsFor(j, c),
                    job'[j].state \in {"running", "complete", "failed"}
             PROVE  job'[j].data \in {job[j].data, object[c][j].data}
  BY DEF RunStep
<1> USE DEF IInv
<1>1. CASE UNCHANGED vars
  BY <1>1 DEF vars
<1>2. ASSUME NEW q \in Queues, NEW i \in Jobs, NEW d, PutScript(q, i, d)
      PROVE  job'[j].data = job[j].data
  BY <1>2 DEF PutScript, Rewrite, TypeOK
<1>3. ASSUME NEW b \in Clients, NEW q \in QueueNames, NEW i \in Jobs,
             Pop(b, q, i) \/ Exhaust(q, i) \/ (q \in Queues /\ Unfail(q, i))
      PROVE  job'[j].data = job[j].data
  <2>1. CASE i # j
    BY <1>3, <2>1 DEF Pop, Exhaust, Unfail, TypeOK
  <2>2. CASE i = j
    <3>1. job[j] \in Hash
      BY DEF TypeOK
    <3>2. CASE Pop(b, q, j)
      BY <3>1, <3>2 DEF Pop, TypeOK, Hash
    <3>3. CASE Exhaust(q, j)
      BY <3>1, <3>3 DEF Exhaust, TypeOK, Hash
    <3>4. CASE Unfail(q, j)
      BY <3>1, <3>4 DEF Unfail, TypeOK, Hash
    <3> QED BY <1>3, <2>2, <3>2, <3>3, <3>4
  <2> QED BY <2>1, <2>2
<1>4. ASSUME NEW b \in Clients, NEW i \in Jobs, NEW d,
             Fetch(b, i) \/ SetData(b, i, d)
      PROVE  job'[j].data = job[j].data
  BY <1>4 DEF Fetch, SetData
<1>5. ASSUME NEW b \in Clients, NEW i \in Jobs,
             \/ Heartbeat(b, i)
             \/ Complete(b, i)
             \/ \E q \in Queues : Advance(b, i, q)
             \/ Fail(b, i)
      PROVE  job'[j].data \in {job[j].data, object[c][j].data}
  <2>1. CASE i # j
    BY <1>5, <2>1 DEF Heartbeat, Complete, Advance, Fail, Rewrite, TypeOK
  <2>2. CASE i = j
    <3>1. b = c
      BY <1>5, <2>2 DEF Heartbeat, Complete, Advance, MayComplete, Fail, RunsFor
    <3>2. job'[j].data = object[b][j].data
      <4>1. job[j] \in Hash
        BY DEF TypeOK
      <4>2. CASE Heartbeat(b, j)
        BY <4>1, <4>2 DEF Heartbeat, TypeOK, Hash
      <4>3. CASE Complete(b, j) \/ \E q \in Queues : Advance(b, j, q)
        BY <4>3 DEF Complete, Advance, Rewrite, TypeOK
      <4>4. CASE Fail(b, j)
        BY <4>1, <4>4 DEF Fail, Rewrite, TypeOK, Hash
      <4> QED BY <1>5, <2>2, <4>2, <4>3, <4>4
    <3> QED BY <3>1, <3>2
  <2> QED BY <2>1, <2>2
<1>6. ASSUME NEW b \in Clients, NEW i \in Jobs,
             Retry(b, i) \/ Cancel(b, i) \/ Timeout(b, i)
      PROVE  job'[j].data = job[j].data
  <2>1. CASE i # j
    BY <1>6, <2>1 DEF Retry, Cancel, Timeout, Rewrite, TypeOK
  <2>2. CASE i = j
    <3>1. job[j] \in Hash
      BY DEF TypeOK
    <3>2. CASE Retry(b, j)
      BY <3>1, <3>2 DEF Retry, TypeOK, Hash
    <3>3. CASE Timeout(b, j)
      BY <3>1, <3>3 DEF Timeout, Rewrite, TypeOK, Hash
    <3>4. ~Cancel(b, j)
      BY DEF Cancel, Rewrite, Absent, TypeOK
    <3> QED BY <1>6, <2>2, <3>2, <3>3, <3>4
  <2> QED BY <2>1, <2>2
<1> QED
  BY <1>1, <1>2, <1>3, <1>4, <1>5, <1>6
  DEF Next, Put, Requeue, Move, Peek, QueueNames

-----------------------------------------------------------------------------
(* Every variable keeps values of its kind: an object a client has of a    *)
(* job names data, and a job that is gone leaves nothing in its hash.      *)
THEOREM TypeCorrect == Spec => []TypeOK
<1>1. IInv => TypeOK
  BY DEF IInv
<1> QED BY <1>1, Inductive, PTL

(* Whatever other clients do with objects they fetched, put, move, cancel  *)
(* or retry, the client that has a job has an object of that very run.     *)
THEOREM HolderKnowsItsRun == Spec => []RunsAreKnown
<1>1. IInv => RunsAreKnown
  BY DEF IInv
<1> QED BY <1>1, Inductive, PTL

(* The data of a job changes, while it runs and as it is completed or      *)
(* fails, by its holder's object only.                                     *)
THEOREM OnlyTheHolderSettles == Spec => RunsAreTheHolders
<1>1. Spec => [][RunStep]_vars
  BY Inductive, HolderSettles, PTL DEF Spec
<1> QED BY <1>1 DEF RunsAreTheHolders
=============================================================================
