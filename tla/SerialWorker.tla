---------------------------- MODULE SerialWorker ----------------------------
(***************************************************************************)
(* The processes that share one worker name and listen to its channel:     *)
(* the serial worker and the main worker of src/reqless/workers, and the   *)
(* thread of src/reqless/events.py, each with the thread of its listener.  *)
(*                                                                         *)
(* A process has a main thread, which runs jobs one after another, and a   *)
(* listener thread, which in the main worker interrupts the main thread    *)
(* when a job is lost.  Python delivers an interrupt between any two steps *)
(* of the main thread, also while it waits or cleans up.                   *)
(*                                                                         *)
(* Of the store only the lease of each job is kept: it belongs to a name,  *)
(* and so to all of the processes.                                         *)
(***************************************************************************)
EXTENDS Integers, Sequences, FiniteSets

CONSTANTS
    Workers,       \* the processes
    Kinds,         \* the kinds of processes, of "serial", "main", "events"
    Jobs,
    MaxStarts,     \* bound: how often processes are started
    MaxFaults,     \* bound: connections lost, and processes killed
    MaxLosses,     \* bound: the messages published on the channel
    NoJob,         \* no job
    Ack            \* the answer to a subscription or its end

ASSUME KindsAssumption == Kinds \subseteq {"serial", "main", "events"}
ASSUME JobsAssumption  == NoJob \notin Jobs /\ Ack \notin Jobs
ASSUME BoundAssumption == {MaxStarts, MaxFaults, MaxLosses} \subseteq Nat

VARIABLES
    kind,          \* for each process its kind
    main,          \* where its main thread is
    resume,        \* the jobs it has still to resume
    run,           \* the job in hand
    shutdown,      \* whether stop was called
    extra,         \* how many jobs it began after that
    interrupt,     \* whether an interrupt is pending
    thread,        \* where its listener thread is
    future,        \* whether the listener's future has its result
    isListening,   \* is_listening
    inbox,         \* what the server has sent to the listener
    lease,         \* for each job, whose it is
    starts, faults, losses   \* how many there have been

loop     == <<resume, run, shutdown, extra>>
listener == <<thread, future, isListening, inbox>>
bounds   == <<starts, faults, losses>>
vars     == <<kind, main, loop, interrupt, listener, lease, bounds>>

-----------------------------------------------------------------------------
Loop       == {"resuming", "polling", "sleeping", "working", "checking"}
Subscribed == {"subscribed", "resolved", "listening"}
Locked     == {"subscribed", "resolved"}    \* the lock is held in listen

(* An expired lock that was given a grace period is still its owner's.     *)
Ours(j) == lease[j] \in {"ours", "expired"}

Init ==
    /\ kind \in [Workers -> Kinds]
    /\ main = [w \in Workers |-> "over"]
    /\ resume = [w \in Workers |-> {}]
    /\ run = [w \in Workers |-> NoJob]
    /\ shutdown = [w \in Workers |-> FALSE]
    /\ extra = [w \in Workers |-> 0]
    /\ interrupt = [w \in Workers |-> FALSE]
    /\ thread = [w \in Workers |-> "over"]
    /\ future = [w \in Workers |-> FALSE]
    /\ isListening = [w \in Workers |-> FALSE]
    /\ inbox = [w \in Workers |-> <<>>]
    /\ lease = [j \in Jobs |-> "free"]
    /\ starts = 0 /\ faults = 0 /\ losses = 0

To(w, stage) == main' = [main EXCEPT ![w] = stage]

(* What is published while a listener is subscribed reaches it.            *)
Publish(j) ==
    /\ losses < MaxLosses
    /\ losses' = losses + 1
    /\ inbox' = [w \in Workers |->
                    IF thread[w] \in Subscribed THEN Append(inbox[w], j) ELSE inbox[w]]
    /\ UNCHANGED <<starts, faults>>

-----------------------------------------------------------------------------
(* The main thread.                                                        *)

(* The jobs listed under the name, those whose lock is expired left out.   *)
Resumable == {j \in Jobs : lease[j] = "ours"}

(* The worker is made, to resume what it finds or nothing, and runs: the   *)
(* listener's thread starts.  The listener of events is the one it had     *)
(* before.                                                                 *)
Start(w) ==
    /\ main[w] = "over" /\ thread[w] = "over"
    /\ starts < MaxStarts
    /\ starts' = starts + 1
    /\ To(w, "listening")
    /\ \E R \in {{}, Resumable} :
          /\ kind[w] = "events" => R = {}
          /\ resume' = [resume EXCEPT ![w] = R]
    /\ thread' = [thread EXCEPT ![w] = "new"]
    /\ inbox' = [inbox EXCEPT ![w] = <<>>]
    /\ IF kind[w] = "events"
       THEN UNCHANGED <<future, isListening>>
       ELSE /\ future' = [future EXCEPT ![w] = FALSE]
            /\ isListening' = [isListening EXCEPT ![w] = FALSE]
    /\ interrupt' = [interrupt EXCEPT ![w] = FALSE]
    /\ shutdown' = [shutdown EXCEPT ![w] = FALSE]
    /\ extra' = [extra EXCEPT ![w] = 0]
    /\ UNCHANGED <<kind, run, lease, faults, losses>>

WaitUntilListening(w) ==
    /\ main[w] = "listening"
    /\ future[w]
    /\ To(w, IF kind[w] = "events" THEN "serving" ELSE "resuming")
    /\ UNCHANGED <<kind, loop, interrupt, listener, lease, bounds>>

(* process begins with a job that was resumed or popped.                   *)
Begin(w, j) ==
    /\ To(w, "working")
    /\ run' = [run EXCEPT ![w] = j]
    /\ extra' = [extra EXCEPT ![w] = IF shutdown[w] THEN @ + 1 ELSE @]
    /\ lease' = [lease EXCEPT ![j] = "ours"]

(* A job is resumed if it can be heartbeated.                              *)
Resume(w, j) ==
    /\ main[w] = "resuming"
    /\ j \in resume[w]
    /\ resume' = [resume EXCEPT ![w] = @ \ {j}]
    /\ IF Ours(j) THEN Begin(w, j) ELSE UNCHANGED <<main, run, extra, lease>>
    /\ UNCHANGED <<kind, shutdown, interrupt, listener, bounds>>

NothingToResume(w) ==
    /\ main[w] = "resuming"
    /\ resume[w] = {}
    /\ To(w, "polling")
    /\ UNCHANGED <<kind, loop, interrupt, listener, lease, bounds>>

Pop(w, j) ==
    /\ main[w] = "polling"
    /\ lease[j] = "free"
    /\ Begin(w, j)
    /\ UNCHANGED <<kind, resume, shutdown, interrupt, listener, bounds>>

(* No queue had a job when it was asked.                                   *)
PopNothing(w) ==
    /\ main[w] = "polling"
    /\ To(w, "sleeping")
    /\ UNCHANGED <<kind, loop, interrupt, listener, lease, bounds>>

(* A slip: the job in hand is not reset.                                   *)
OverWithJob(w, l) ==
    /\ main[w] = "working"
    /\ To(w, "checking")
    /\ lease' = IF l = "kept" THEN lease ELSE [lease EXCEPT ![run[w]] = l]
    /\ UNCHANGED <<kind, loop, interrupt, listener, bounds>>

(* The job is over with the lease l, or its script raised and the run ends.*)
Over(w, l) ==
    LET j == run[w] IN
    /\ main[w] = "working"
    /\ IF l = "kept" \/ Ours(j)
       THEN /\ To(w, "checking")
            /\ lease' = IF l = "kept" THEN lease ELSE [lease EXCEPT ![j] = l]
       ELSE To(w, "unlistening") /\ UNCHANGED lease
    /\ run' = [run EXCEPT ![w] = NoJob]
    /\ UNCHANGED <<kind, resume, shutdown, extra, interrupt, listener, bounds>>

(* process: the method returns and has done with the job what it likes; or *)
(* the class or the method cannot be found, or the method raises, and the  *)
(* job is failed.  That raises if the job is lost, and nothing catches it: *)
(* an error of complete is caught, and the job failed, to the same end.    *)
Return(w)   == Over(w, "kept")
Complete(w) == Over(w, "done")
Requeue(w)  == Over(w, "free")
Fail(w)     == Over(w, "done")

(* The job heartbeats; if it is lost, the error is one of its method's.    *)
Heartbeat(w) ==
    /\ main[w] = "working"
    /\ lease[run[w]] = "expired"
    /\ lease' = [lease EXCEPT ![run[w]] = "ours"]
    /\ UNCHANGED <<kind, main, loop, interrupt, listener, bounds>>

Wake(w) ==
    /\ main[w] = "sleeping"
    /\ To(w, "checking")
    /\ UNCHANGED <<kind, loop, interrupt, listener, lease, bounds>>

(* A slip: the check is made when there was no job.                        *)
CheckWhenIdle(w) ==
    /\ main[w] = "checking"
    /\ \/ shutdown[w] /\ To(w, "unlistening")
       \/ To(w, IF resume[w] = {} THEN "polling" ELSE "resuming")
    /\ UNCHANGED <<kind, loop, interrupt, listener, lease, bounds>>

Check(w) ==
    /\ main[w] = "checking"
    /\ To(w, IF shutdown[w] THEN "unlistening"
             ELSE IF resume[w] = {} THEN "polling" ELSE "resuming")
    /\ UNCHANGED <<kind, loop, interrupt, listener, lease, bounds>>

(* The body of "with events.thread()" ends.                                *)
Leave(w) ==
    /\ main[w] = "serving"
    /\ To(w, "unlistening")
    /\ UNCHANGED <<kind, loop, interrupt, listener, lease, bounds>>

(* A slip: the flag is set, and no message comes to make it looked at.     *)
StopListeningQuietly(w) ==
    /\ main[w] = "unlistening"
    /\ To(w, "joining")
    /\ isListening' = [isListening EXCEPT ![w] = FALSE]
    /\ future' = [future EXCEPT ![w] = FALSE]
    /\ UNCHANGED <<kind, loop, interrupt, thread, inbox, lease, bounds>>

(* What unlisten does once it may.                                         *)
StopListening(w) ==
    /\ main[w] = "unlistening"
    /\ To(w, "joining")
    /\ IF isListening[w]
       THEN /\ inbox' = IF thread[w] = "over" THEN inbox
                        ELSE [inbox EXCEPT ![w] = Append(@, Ack)]
            /\ isListening' = [isListening EXCEPT ![w] = FALSE]
            /\ future' = [future EXCEPT ![w] = FALSE]
       ELSE UNCHANGED <<inbox, isListening, future>>
    /\ UNCHANGED <<kind, loop, interrupt, thread, lease, bounds>>

(* A slip: without the lock.                                               *)
UnlistenUnlocked(w) == StopListening(w)

Unlisten(w) == thread[w] \notin Locked /\ StopListening(w)

Join(w) ==
    /\ main[w] = "joining"
    /\ thread[w] = "over"
    /\ To(w, "over")
    /\ UNCHANGED <<kind, loop, interrupt, listener, lease, bounds>>

(* KeyboardInterrupt is raised.  Nothing in the loop catches it, and the   *)
(* finally of the with statement follows; but it may hit before the try,   *)
(* or in the finally itself.                                               *)
Interrupted(w) ==
    /\ interrupt[w]
    /\ interrupt' = [interrupt EXCEPT ![w] = FALSE]
    /\ To(w, IF main[w] \in Loop THEN "unlistening" ELSE "over")
    /\ run' = [run EXCEPT ![w] = NoJob]
    /\ UNCHANGED <<kind, resume, shutdown, extra, listener, lease, bounds>>

(* QUIT, or a call of stop.                                                *)
Stop(w) ==
    /\ main[w] \in Loop \cup {"listening"}
    /\ kind[w] # "events"
    /\ ~shutdown[w]
    /\ shutdown' = [shutdown EXCEPT ![w] = TRUE]
    /\ UNCHANGED <<kind, main, resume, run, extra, interrupt, listener, lease, bounds>>

-----------------------------------------------------------------------------
(* The listener's thread.                                                  *)

Subscribe(w) ==
    /\ thread[w] = "new"
    /\ thread' = [thread EXCEPT ![w] = "subscribed"]
    /\ inbox' = [inbox EXCEPT ![w] = <<Ack>>]
    /\ UNCHANGED <<kind, main, loop, interrupt, future, isListening, lease, bounds>>

(* set_result, which raises if the future has its result already.          *)
Resolve(w) ==
    /\ thread[w] = "subscribed"
    /\ thread' = [thread EXCEPT ![w] = IF future[w] THEN "over" ELSE "resolved"]
    /\ future' = [future EXCEPT ![w] = TRUE]
    /\ UNCHANGED <<kind, main, loop, interrupt, isListening, inbox, lease, bounds>>

Listen(w) ==
    /\ thread[w] = "resolved"
    /\ thread' = [thread EXCEPT ![w] = "listening"]
    /\ isListening' = [isListening EXCEPT ![w] = TRUE]
    /\ UNCHANGED <<kind, main, loop, interrupt, future, inbox, lease, bounds>>

(* A slip: halt_job_processing asks if it is in the main thread.           *)
HaltsInverted(w) == FALSE

(* halt_job_processing of a serial worker does nothing, and the thread of  *)
(* a process whose main thread is over interrupts nobody.                  *)
Halts(w) == kind[w] = "main" /\ main[w] # "over"

(* A message is handled, whatever job the process works on; then the flag  *)
(* is looked at.                                                           *)
Handle(w) ==
    /\ thread[w] = "listening"
    /\ inbox[w] # <<>>
    /\ inbox' = [inbox EXCEPT ![w] = Tail(@)]
    /\ interrupt' = [interrupt EXCEPT
                        ![w] = @ \/ (Head(inbox[w]) \in Jobs /\ Halts(w))]
    /\ thread' = [thread EXCEPT ![w] = IF isListening[w] THEN @ ELSE "over"]
    /\ UNCHANGED <<kind, main, loop, future, isListening, lease, bounds>>

(* The generator or the callback of events raises: the thread ends, and    *)
(* nobody is told.                                                         *)
ThreadEnds(w) ==
    /\ faults < MaxFaults
    /\ faults' = faults + 1
    /\ thread' = [thread EXCEPT ![w] = "over"]
    /\ inbox' = [inbox EXCEPT ![w] = <<>>]
    /\ UNCHANGED <<kind, main, loop, interrupt, future, isListening, lease, starts,
                   losses>>

(* The subscription fails, the connection is lost, or a callback of events *)
(* raises in listen.                                                       *)
ThreadFails(w) == thread[w] \in {"new", "listening"} /\ ThreadEnds(w)

(* The process is killed.                                                  *)
Crash(w) ==
    /\ ~(main[w] = "over" /\ thread[w] = "over")
    /\ kind[w] # "events"
    /\ faults < MaxFaults
    /\ faults' = faults + 1
    /\ To(w, "over")
    /\ run' = [run EXCEPT ![w] = NoJob]
    /\ thread' = [thread EXCEPT ![w] = "over"]
    /\ inbox' = [inbox EXCEPT ![w] = <<>>]
    /\ UNCHANGED <<kind, resume, shutdown, extra, interrupt, future, isListening,
                   lease, starts, losses>>

-----------------------------------------------------------------------------
(* The store and its other clients.                                        *)

(* A pop finds the lock expired, tells its owner, and gives it time.       *)
Expire(j) ==
    /\ lease[j] = "ours"
    /\ Publish(j)
    /\ lease' = [lease EXCEPT ![j] = "expired"]
    /\ UNCHANGED <<kind, main, loop, interrupt, thread, future, isListening>>

(* The job is cancelled, timed out, or put again: its owner is told.        *)
TakeAway(j) ==
    /\ Ours(j)
    /\ Publish(j)
    /\ \E l \in {"free", "done"} : lease' = [lease EXCEPT ![j] = l]
    /\ UNCHANGED <<kind, main, loop, interrupt, thread, future, isListening>>

(* Another worker gets a free job or one whose time of grace is over; or   *)
(* the job has no retries left.                                            *)
Lose(j) ==
    /\ lease[j] \in {"free", "expired"}
    /\ \E l \in {"theirs", "done"} : lease' = [lease EXCEPT ![j] = l]
    /\ UNCHANGED <<kind, main, loop, interrupt, listener, bounds>>

-----------------------------------------------------------------------------
Work(w) == Return(w) \/ Complete(w) \/ Requeue(w) \/ Fail(w)

Main(w) == \/ WaitUntilListening(w) \/ NothingToResume(w) \/ PopNothing(w)
           \/ Wake(w) \/ Check(w) \/ Leave(w) \/ Unlisten(w) \/ Join(w)
           \/ \E j \in Jobs : Resume(w, j) \/ Pop(w, j)

Thread(w) == Subscribe(w) \/ Resolve(w) \/ Listen(w) \/ Handle(w)

Next == \/ \E w \in Workers : \/ Start(w) \/ Main(w) \/ Work(w) \/ Heartbeat(w)
                              \/ Stop(w) \/ Interrupted(w) \/ Thread(w)
                              \/ ThreadFails(w) \/ Crash(w)
        \/ \E j \in Jobs : Expire(j) \/ TakeAway(j) \/ Lose(j)

Spec == Init /\ [][Next]_vars

(* Both threads go on.  That a method returns is not assumed.              *)
FairSpec == Spec /\ \A w \in Workers : /\ WF_vars(Main(w))
                                       /\ WF_vars(Interrupted(w))
                                       /\ WF_vars(Thread(w))

-----------------------------------------------------------------------------
(* Every variable keeps values of its kind; a process has a job in hand    *)
(* exactly while it works.                                                 *)
TypeOK ==
    /\ kind \in [Workers -> {"serial", "main", "events"}]
    /\ main \in [Workers -> Loop \cup {"listening", "serving", "unlistening",
                                       "joining", "over"}]
    /\ resume \in [Workers -> SUBSET Jobs]
    /\ run \in [Workers -> Jobs \cup {NoJob}]
    /\ \A w \in Workers : run[w] \in Jobs <=> main[w] = "working"
    /\ shutdown \in [Workers -> BOOLEAN]
    /\ extra \in [Workers -> Nat]
    /\ interrupt \in [Workers -> BOOLEAN]
    /\ thread \in [Workers -> Subscribed \cup {"new", "over"}]
    /\ future \in [Workers -> BOOLEAN]
    /\ isListening \in [Workers -> BOOLEAN]
    /\ inbox \in [Workers -> Seq(Jobs \cup {Ack})]
    /\ lease \in [Jobs -> {"free", "ours", "expired", "theirs", "done"}]
    /\ starts \in 0..MaxStarts /\ faults \in 0..MaxFaults /\ losses \in 0..MaxLosses

(* "Mark this for shutdown": after stop a worker begins one job at most,   *)
(* the one it was about to pop or to resume.                               *)
StopsAfterOneJob == \A w \in Workers : extra[w] <= 1

(* A thread that listens without the flag was told to stop, and finds the  *)
(* answer to that in its inbox: it does not wait for ever.                 *)
ThreadsAreTold ==
    \A w \in Workers :
        thread[w] = "listening" /\ ~isListening[w] => inbox[w] # <<>>

(* A worker that is stopped ends once the method in hand returns, its      *)
(* listener's thread with it: unlisten never comes before listen has begun,*)
(* and join does not block.                                                *)
StopsEnd ==
    \A w \in Workers : shutdown[w] /\ main[w] \in Loop \ {"working"}
                       ~> main[w] \in {"over", "working"}

(* The main worker's run is interrupted when a message about its job comes *)
(* while its listener lives, though its method may never return.           *)
IsTold(w, j) == /\ kind[w] = "main" /\ main[w] = "working" /\ run[w] = j
                /\ \E i \in 1..Len(inbox[w]) : inbox[w][i] = j
LostRunsAreHalted ==
    \A w \in Workers, j \in Jobs :
        IsTold(w, j) ~> main[w] # "working" \/ run[w] # j \/ thread[w] = "over"
=============================================================================
