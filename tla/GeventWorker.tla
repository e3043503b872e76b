---------------------------- MODULE GeventWorker ----------------------------
(***************************************************************************)
(* A worker that runs each job in a greenlet of its own.  The main         *)
(* greenlet waits for room in the pool, pops a job, and starts a greenlet  *)
(* for it; a listener receives the messages the scripts publish when a     *)
(* job's lock is lost, and kills the greenlet the map "greenlets" has for  *)
(* that job; stop ends the loop, which then waits for the greenlets.       *)
(*                                                                         *)
(* Greenlets switch only where they wait: for redis, for the pool, for a   *)
(* greenlet being killed.  So a pop is two steps: the script, and, once    *)
(* the reply is read, all that follows up to the next wait.  This is the   *)
(* worker of bin/reqless-py-worker, which patches socket and threading, so *)
(* that the listener's thread is a greenlet as well.                       *)
(*                                                                         *)
(* Abstractions.  Of the job store there is what this worker can tell: who *)
(* has each job.  A greenlet stands for one run, and is never used again.  *)
(* Which free sandbox is taken is a choice.                                *)
(***************************************************************************)
EXTENDS Naturals, Sequences, FiniteSets

CONSTANTS
    Jobs,          \* the job ids (jid)
    Greenlets,     \* the runs there may be
    Sandboxes,     \* the directories to run in; as many as the pool has room for
    MaxMessages,   \* bound: how many messages are under way
    Free,          \* who has a job: nobody, so that it can be popped,
    Elsewhere,     \*   not this worker, and it cannot be popped,
    Former,        \*   this worker's name, from before it was started
    NoJob,
    NoGreenlet,
    NoSandbox

Others == {Free, Elsewhere, Former}

ASSUME ConstantsAssumption ==
    /\ Others \cap Greenlets = {}
    /\ Free # Elsewhere /\ Free # Former /\ Elsewhere # Former
    /\ NoJob \notin Jobs
    /\ NoGreenlet \notin Greenlets
    /\ NoSandbox \notin Sandboxes
ASSUME PoolAssumption == IsFiniteSet(Sandboxes)

VARIABLES
    \* In redis:
    lease,     \* who has each job: a run, or one of Others
    notified,  \* the jobs whose lock expired and whose grace period runs
    messages,  \* the jids published to this worker, not yet handled
    \* The main greenlet:
    main,      \* where it is in its loop
    shutdown,
    resume,    \* the jobs that are still to be resumed
    \* The runs:
    job, stage, sandbox,
    entry,     \* self.greenlets, by jid
    free,      \* self.sandboxes
    halting,   \* the greenlet the listener waits for, having killed it
    \* Not in the code, for the properties:
    told,      \* the runs that a message was published for after their start
    alone      \* the runs beside which there never was another of their job

store == <<lease, notified, messages>>
loop  == <<main, shutdown, resume>>
runs  == <<job, stage, sandbox>>
aux   == <<told, alone>>
vars  == <<lease, notified, messages, main, shutdown, resume,
           job, stage, sandbox, entry, free, halting, told, alone>>

Init ==
    /\ lease \in [Jobs -> Others]
    /\ notified = {}
    /\ messages = <<>>
    /\ main = "check"
    /\ shutdown = FALSE
    /\ resume \in SUBSET Jobs
    /\ job     = [g \in Greenlets |-> NoJob]
    /\ stage   = [g \in Greenlets |-> "unborn"]
    /\ sandbox = [g \in Greenlets |-> NoSandbox]
    /\ entry   = [j \in Jobs |-> NoGreenlet]
    /\ free    = Sandboxes
    /\ halting = NoGreenlet
    /\ told    = {}
    /\ alone   = {}

-----------------------------------------------------------------------------
(* What others do to the jobs of this worker.                              *)

Started == {g \in Greenlets : stage[g] = "started"}
Working == {g \in Greenlets : stage[g] = "working"}
Pooled  == Started \cup Working
Live    == {g \in Greenlets : stage[g] = "popped"} \cup Pooled

(* A script that publishes that j is lost does so in the same step.        *)
Publish(j) ==
    /\ Len(messages) < MaxMessages
    /\ messages' = Append(messages, j)
    /\ told' = told \cup ({lease[j]} \cap Pooled)

(* The job is cancelled, timed out, or put again, by anyone.               *)
TakeAway(j) ==
    /\ lease[j] \in Greenlets \cup {Former}
    /\ Publish(j)
    /\ \E to \in {Free, Elsewhere} : lease' = [lease EXCEPT ![j] = to]
    /\ notified' = notified \ {j}
    /\ UNCHANGED <<loop, runs, entry, free, halting, alone>>

(* The lock expires: its holder keeps it for the grace period.             *)
Expire(j) ==
    /\ lease[j] \in Greenlets \cup {Former}
    /\ j \notin notified
    /\ Publish(j)
    /\ notified' = notified \cup {j}
    /\ UNCHANGED <<lease, loop, runs, entry, free, halting, alone>>

(* It expires again, and the job goes to who pops next: without a message. *)
HandOver(j) ==
    /\ j \in notified
    /\ \E to \in {Free, Elsewhere} : lease' = [lease EXCEPT ![j] = to]
    /\ notified' = notified \ {j}
    /\ UNCHANGED <<messages, loop, runs, entry, free, halting, aux>>

(* Others put a job this worker does not have, or pop it.                  *)
Meanwhile(j) ==
    /\ lease[j] \in {Free, Elsewhere}
    /\ \E to \in {Free, Elsewhere} : lease' = [lease EXCEPT ![j] = to]
    /\ UNCHANGED <<notified, messages, loop, runs, entry, free, halting, aux>>

-----------------------------------------------------------------------------
(* The main greenlet.                                                      *)

(* A signal sets the flag; it is looked at before each wait for the pool.  *)
Stop ==
    /\ ~shutdown
    /\ shutdown' = TRUE
    /\ UNCHANGED <<store, main, resume, runs, entry, free, halting, aux>>

Check ==
    /\ main = "check"
    /\ main' = IF shutdown THEN "join" ELSE "wait"
    /\ UNCHANGED <<store, shutdown, resume, runs, entry, free, halting, aux>>

RoomForOneMore == Cardinality(Pooled) <= Cardinality(Sandboxes)
Room == Cardinality(Pooled) < Cardinality(Sandboxes)

(* The script has given j to this worker: g will be the run of it.         *)
Take(g, j) ==
    LET beside == {h \in Live : job[h] = j}
    IN  /\ main' = "popped"
        /\ stage[g] = "unborn"
        /\ stage' = [stage EXCEPT ![g] = "popped"]
        /\ job'   = [job EXCEPT ![g] = j]
        /\ lease' = [lease EXCEPT ![j] = g]
        /\ alone' = IF beside = {} THEN alone \cup {g} ELSE alone \ beside
        /\ UNCHANGED <<messages, shutdown, sandbox, entry, free, halting, told>>

(* The jobs to resume come first, those whose heartbeat still succeeds.    *)
Resume(g, j) ==
    /\ main = "wait" /\ Room
    /\ j \in resume /\ lease[j] = Former
    /\ Take(g, j)
    /\ resume' = resume \ {j}
    /\ UNCHANGED notified

CannotResume(j) ==
    /\ main = "wait" /\ Room
    /\ j \in resume /\ lease[j] # Former
    /\ resume' = resume \ {j}
    /\ UNCHANGED <<store, main, shutdown, runs, entry, free, halting, aux>>

Pop(g, j) ==
    /\ main = "wait" /\ Room
    /\ resume = {} /\ lease[j] = Free
    /\ Take(g, j)
    /\ notified' = notified \ {j}
    /\ UNCHANGED resume

(* None of the queues had a job when it was polled.                        *)
Sleep ==
    /\ main = "wait" /\ Room
    /\ resume = {}
    /\ main' = "check"
    /\ UNCHANGED <<store, shutdown, resume, runs, entry, free, halting, aux>>

Start(g) ==
    /\ main = "popped" /\ stage[g] = "popped"
    /\ entry' = [entry EXCEPT ![job[g]] = g]
    /\ stage' = [stage EXCEPT ![g] = "started"]
    /\ main' = "check"
    /\ UNCHANGED <<store, shutdown, resume, job, sandbox, free, halting, aux>>

(* The class is imported in the loop: when that fails, the loop ends.      *)
ImportFails(g) ==
    /\ main = "popped" /\ stage[g] = "popped"
    /\ stage' = [stage EXCEPT ![g] = "over"]
    /\ main' = "join"
    /\ UNCHANGED <<store, shutdown, resume, job, sandbox, entry, free, halting, aux>>

(* Once the pool is empty the listener is stopped, and run returns.        *)
Join ==
    /\ main = "join" /\ Pooled = {}
    /\ main' = "over"
    /\ UNCHANGED <<store, shutdown, resume, runs, entry, free, halting, aux>>

-----------------------------------------------------------------------------
(* The greenlets of the jobs, and the listener.                            *)

Begin(g) ==
    /\ stage[g] = "started"
    /\ \E s \in free :
         /\ free' = free \ {s}
         /\ sandbox' = [sandbox EXCEPT ![g] = s]
    /\ stage' = [stage EXCEPT ![g] = "working"]
    /\ UNCHANGED <<store, loop, job, entry, halting, aux>>

(* The job is completed, failed, retried, moved, ...: the scripts know the *)
(* worker, not the run.  Its method may go on.                             *)
Finish(g) ==
    /\ stage[g] = "working"
    /\ lease[job[g]] \in Greenlets
    /\ \E to \in {Free, Elsewhere} : lease' = [lease EXCEPT ![job[g]] = to]
    /\ notified' = notified \ {job[g]}
    /\ UNCHANGED <<messages, loop, runs, entry, free, halting, aux>>

(* Its method returns or raises, or the greenlet is killed: process cleans *)
(* up, by the jid.                                                         *)
LeaveUnclean(g) ==
    /\ stage[g] = "working"
    /\ stage'   = [stage EXCEPT ![g] = "over"]
    /\ entry'   = [entry EXCEPT ![job[g]] = NoGreenlet]
    /\ halting' = IF halting = g THEN NoGreenlet ELSE halting
    /\ UNCHANGED <<store, loop, job, free, sandbox, aux>>

Leave(g) ==
    /\ stage[g] = "working"
    /\ stage'   = [stage EXCEPT ![g] = "over"]
    /\ entry'   = [entry EXCEPT ![job[g]] = NoGreenlet]
    /\ free'    = free \cup {sandbox[g]}
    /\ sandbox' = [sandbox EXCEPT ![g] = NoSandbox]
    /\ halting' = IF halting = g THEN NoGreenlet ELSE halting
    /\ UNCHANGED <<store, loop, job, aux>>

KillIfBegun(g) ==
    /\ halting' = IF stage[g] = "working" THEN g ELSE halting
    /\ UNCHANGED stage

(* One that has not begun dies at once, and never cleans up; the listener  *)
(* waits for any other.                                                    *)
Kill(g) ==
    IF stage[g] = "started"
    THEN /\ stage' = [stage EXCEPT ![g] = "over"]
         /\ UNCHANGED halting
    ELSE /\ halting' = IF stage[g] = "working" THEN g ELSE halting
         /\ UNCHANGED stage

Handle ==
    /\ main # "over" /\ halting = NoGreenlet
    /\ messages # <<>>
    /\ messages' = Tail(messages)
    /\ LET g == entry[Head(messages)]
       IN  IF g = NoGreenlet THEN UNCHANGED <<stage, halting>> ELSE Kill(g)
    /\ UNCHANGED <<lease, notified, loop, job, sandbox, entry, free, aux>>

-----------------------------------------------------------------------------
Scripts == \E j \in Jobs : TakeAway(j) \/ Expire(j) \/ HandOver(j) \/ Meanwhile(j)

Main ==
    \/ Check \/ Sleep \/ Join
    \/ \E j \in Jobs : CannotResume(j)
    \/ \E g \in Greenlets : Start(g) \/ ImportFails(g)
    \/ \E g \in Greenlets, j \in Jobs : Resume(g, j) \/ Pop(g, j)

Next ==
    \/ Scripts \/ Main \/ Stop \/ Handle
    \/ \E g \in Greenlets : Begin(g) \/ Finish(g) \/ Leave(g)

Spec == Init /\ [][Next]_vars

-----------------------------------------------------------------------------
(* Every variable has values of its kind, and only a run that works has a  *)
(* sandbox: __init__ of gevent_worker.py.                                  *)
TypeOK ==
    /\ lease    \in [Jobs -> Greenlets \cup Others]
    /\ notified \in SUBSET Jobs
    /\ messages \in Seq(Jobs)
    /\ main     \in {"check", "wait", "popped", "join", "over"}
    /\ shutdown \in BOOLEAN
    /\ resume   \in SUBSET Jobs
    /\ job      \in [Greenlets -> Jobs \cup {NoJob}]
    /\ stage    \in [Greenlets ->
                       {"unborn", "popped", "started", "working", "over"}]
    /\ sandbox  \in [Greenlets -> Sandboxes \cup {NoSandbox}]
    /\ entry    \in [Jobs -> Greenlets \cup {NoGreenlet}]
    /\ free     \in SUBSET Sandboxes
    /\ halting  \in Greenlets \cup {NoGreenlet}
    /\ told     \in SUBSET Greenlets
    /\ alone    \in SUBSET Greenlets
    /\ \A g \in Greenlets : stage[g] # "unborn" => job[g] \in Jobs
    /\ \A g \in Greenlets : stage[g] = "working" <=> sandbox[g] \in Sandboxes

(* No two runs work in one sandbox, and whoever has been started finds     *)
(* one, however runs end: process takes the first of a list that it        *)
(* assumes not to be empty (gevent_worker.py:56).                          *)
SandboxesSuffice ==
    /\ \A g, h \in Greenlets :
          g # h /\ sandbox[g] = sandbox[h] => sandbox[g] = NoSandbox
    /\ \A g \in Greenlets : sandbox[g] \notin free
    /\ Cardinality(Started) <= Cardinality(free)

(* A run whose job is lost after its start is stopped, or is about to be,  *)
(* if no other run of its job is there: halt_job_processing finds it, and  *)
(* kills it even before it has begun.                                      *)
LoneRunsAreStopped ==
    \A g \in told \cap alone \cap Pooled :
        \/ halting = g
        \/ \E i \in DOMAIN messages : messages[i] = job[g]

(* greenlets is "a mapping of jids to the greenlets handling them": it has *)
(* each run whose job this worker owns.                                    *)
HandlersAreMapped ==
    \A g \in Pooled : lease[job[g]] = g => entry[job[g]] = g
=============================================================================
