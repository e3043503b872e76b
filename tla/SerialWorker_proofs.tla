------------------------- MODULE SerialWorker_proofs -------------------------
(***************************************************************************)
(* Proofs about SerialWorker, for any processes, jobs and bounds: a worker *)
(* that is stopped begins one more job at most, and a listener's thread    *)
(* that is told to stop has something to wake it.                          *)
(***************************************************************************)
EXTENDS SerialWorker, TLAPS

(* A worker on its way to a job has begun none since it was stopped, and   *)
(* one that was not stopped has none to count.                             *)
NoneBegun ==
    \A w \in Workers :
        /\ extra[w] <= 1
        /\ ~shutdown[w] \/ main[w] \in {"listening", "resuming", "polling", "sleeping"}
              => extra[w] = 0

IInv == TypeOK /\ NoneBegun /\ ThreadsAreTold

-----------------------------------------------------------------------------
(* Type correctness.                                                       *)

Stages == Loop \cup {"listening", "serving", "unlistening", "joining", "over"}

LEMMA TypeInit == Init => TypeOK
<1> SUFFICES ASSUME Init PROVE TypeOK
  OBVIOUS
<1>1. inbox \in [Workers -> Seq(Jobs \cup {Ack})]
  BY DEF Init
<1>2. kind \in [Workers -> {"serial", "main", "events"}]
  BY KindsAssumption DEF Init
<1>3. starts \in 0..MaxStarts /\ faults \in 0..MaxFaults /\ losses \in 0..MaxLosses
  BY BoundAssumption DEF Init
<1>4. \A w \in Workers : run[w] \in Jobs <=> main[w] = "working"
  BY JobsAssumption DEF Init
<1> QED BY <1>1, <1>2, <1>3, <1>4 DEF Init, TypeOK, Subscribed

(* The types of the variables of the main thread and the lease.            *)
TypeMain ==
    /\ main \in [Workers -> Stages]
    /\ resume \in [Workers -> SUBSET Jobs]
    /\ run \in [Workers -> Jobs \cup {NoJob}]
    /\ \A w \in Workers : run[w] \in Jobs <=> main[w] = "working"
    /\ shutdown \in [Workers -> BOOLEAN]
    /\ extra \in [Workers -> Nat]
    /\ interrupt \in [Workers -> BOOLEAN]
    /\ lease \in [Jobs -> {"free", "ours", "expired", "theirs", "done"}]

(* The types of what the listener's thread has to do with.                 *)
TypeListener ==
    /\ thread \in [Workers -> Subscribed \cup {"new", "over"}]
    /\ future \in [Workers -> BOOLEAN]
    /\ isListening \in [Workers -> BOOLEAN]
    /\ inbox \in [Workers -> Seq(Jobs \cup {Ack})]

TypeRest ==
    /\ kind \in [Workers -> {"serial", "main", "events"}]
    /\ starts \in 0..MaxStarts /\ faults \in 0..MaxFaults /\ losses \in 0..MaxLosses

LEMMA TypeParts ==
    /\ TypeOK => TypeMain /\ TypeListener /\ TypeRest
    /\ (TypeMain /\ TypeListener /\ TypeRest)' => TypeOK'
BY DEF TypeOK, TypeMain, TypeListener, TypeRest, Stages

LEMMA TypeBegin ==
    ASSUME TypeMain, NEW w \in Workers, NEW j \in Jobs, Begin(w, j),
           resume' \in [Workers -> SUBSET Jobs], UNCHANGED <<shutdown, interrupt>>
    PROVE  TypeMain'
<1>1. extra' \in [Workers -> Nat]
  BY DEF Begin, TypeMain
<1>2. main' \in [Workers -> Stages] /\ run' \in [Workers -> Jobs \cup {NoJob}]
      /\ lease' \in [Jobs -> {"free", "ours", "expired", "theirs", "done"}]
  BY DEF Begin, To, TypeMain, Stages, Loop
<1>3. \A v \in Workers : run'[v] \in Jobs <=> main'[v] = "working"
  BY DEF Begin, To, TypeMain
<1> QED BY <1>1, <1>2, <1>3 DEF TypeMain

(* A step of the main thread between stages other than working.            *)
LEMMA TypeTo ==
    ASSUME TypeMain, NEW w \in Workers, NEW stage \in Stages \ {"working"},
           main[w] # "working", To(w, stage), UNCHANGED <<loop, interrupt, lease>>
    PROVE  TypeMain'
BY DEF TypeMain, To, loop

LEMMA TypeMainStep ==
    ASSUME TypeOK, NEW w \in Workers, Main(w)
    PROVE  TypeOK'
<1> USE TypeParts
<1>1. CASE \E j \in Jobs : Resume(w, j) \/ Pop(w, j)
  <2> PICK j \in Jobs : Resume(w, j) \/ Pop(w, j)
    BY <1>1
  <2>1. resume' \in [Workers -> SUBSET Jobs]
    BY DEF Resume, Pop, TypeMain
  <2>2. CASE Begin(w, j)
    BY <2>1, <2>2, TypeBegin DEF Resume, Pop, listener, bounds, TypeListener, TypeRest
  <2>3. CASE UNCHANGED <<main, run, extra, lease>>
    BY <2>1, <2>3 DEF Resume, Pop, listener, bounds, TypeMain, TypeListener, TypeRest
  <2> QED BY <2>2, <2>3 DEF Resume, Pop
<1>2. CASE \/ WaitUntilListening(w) \/ NothingToResume(w) \/ PopNothing(w)
           \/ Wake(w) \/ Check(w) \/ Leave(w) \/ Join(w)
  <2>1. PICK stage \in Stages \ {"working"} : To(w, stage)
    BY <1>2 DEF WaitUntilListening, NothingToResume, PopNothing, Wake, Check, Leave,
                Join, Stages, Loop
  <2>2. main[w] # "working" /\ UNCHANGED <<kind, loop, interrupt, listener, lease, bounds>>
    BY <1>2 DEF WaitUntilListening, NothingToResume, PopNothing, Wake, Check, Leave, Join
  <2> QED BY <2>1, <2>2, TypeTo DEF listener, bounds, TypeListener, TypeRest
<1>3. CASE Unlisten(w)
  <2>1. TypeMain'
    BY <1>3, TypeTo DEF Unlisten, StopListening, Stages
  <2>2. TypeListener'
    <3>1. isListening' \in [Workers -> BOOLEAN] /\ future' \in [Workers -> BOOLEAN]
      BY <1>3 DEF Unlisten, StopListening, TypeListener
    <3>2. inbox' \in [Workers -> Seq(Jobs \cup {Ack})]
      <4>1. Append(inbox[w], Ack) \in Seq(Jobs \cup {Ack})
        BY DEF TypeListener
      <4>2. inbox' = inbox \/ inbox' = [inbox EXCEPT ![w] = Append(inbox[w], Ack)]
        BY <1>3 DEF Unlisten, StopListening
      <4> QED BY <4>1, <4>2 DEF TypeListener
    <3> QED BY <1>3, <3>1, <3>2 DEF Unlisten, StopListening, TypeListener
  <2> QED BY <1>3, <2>1, <2>2 DEF Unlisten, StopListening, bounds, TypeRest
<1> QED BY <1>1, <1>2, <1>3 DEF Main

LEMMA TypeWork ==
    ASSUME TypeOK, NEW w \in Workers, Work(w) \/ Heartbeat(w) \/ Stop(w) \/ Interrupted(w)
    PROVE  TypeOK'
<1> USE TypeParts
<1>1. ASSUME NEW l \in {"kept", "done", "free"}, Over(w, l) PROVE TypeOK'
  <2>1. run[w] \in Jobs
    BY <1>1 DEF Over, TypeMain
  <2>2. lease' \in [Jobs -> {"free", "ours", "expired", "theirs", "done"}]
    BY <1>1, <2>1 DEF Over, TypeMain
  <2>3. \E stage \in {"checking", "unlistening"} : main' = [main EXCEPT ![w] = stage]
    BY <1>1 DEF Over, To
  <2>4. run' = [run EXCEPT ![w] = NoJob]
    BY <1>1 DEF Over
  <2>5. TypeMain'
    BY <1>1, <2>2, <2>3, <2>4, JobsAssumption DEF Over, TypeMain, Stages, Loop
  <2> QED BY <1>1, <2>5 DEF Over, listener, bounds, TypeListener, TypeRest
<1>2. CASE Heartbeat(w)
  BY <1>2 DEF Heartbeat, loop, listener, bounds, TypeMain, TypeListener, TypeRest
<1>3. CASE Stop(w)
  BY <1>3 DEF Stop, listener, bounds, TypeMain, TypeListener, TypeRest
<1>4. CASE Interrupted(w)
  <2>1. \E stage \in {"over", "unlistening"} : main' = [main EXCEPT ![w] = stage]
    BY <1>4 DEF Interrupted, To
  <2>2. TypeMain'
    BY <1>4, <2>1, JobsAssumption DEF Interrupted, TypeMain, Stages
  <2> QED BY <1>4, <2>2 DEF Interrupted, listener, bounds, TypeListener, TypeRest
<1> QED
  BY <1>1, <1>2, <1>3, <1>4 DEF Work, Return, Complete, Requeue, Fail

LEMMA TypeThread ==
    ASSUME TypeOK, NEW w \in Workers, Thread(w) \/ ThreadFails(w)
    PROVE  TypeOK'
<1> USE TypeParts
<1>1. CASE Subscribe(w) \/ Resolve(w) \/ Listen(w)
  <2>1. <<Ack>> \in Seq(Jobs \cup {Ack}) 
    OBVIOUS
  <2>2. ASSUME Subscribe(w) PROVE TypeListener'
    BY <2>1, <2>2 DEF Subscribe, TypeListener, Subscribed
  <2>3. ASSUME Resolve(w) PROVE TypeListener'
    BY <2>3 DEF Resolve, TypeListener, Subscribed
  <2>4. ASSUME Listen(w) PROVE TypeListener'
    BY <2>4 DEF Listen, TypeListener, Subscribed
  <2>5. TypeListener'
    BY <1>1, <2>2, <2>3, <2>4
  <2> QED BY <1>1, <2>5 DEF Subscribe, Resolve, Listen, loop, bounds, TypeMain, TypeRest
<1>2. CASE Handle(w)
  <2>1. interrupt' \in [Workers -> BOOLEAN]
    <3>1. interrupt[w] \in BOOLEAN
      BY DEF TypeMain
    <3>2. (interrupt[w] \/ (Head(inbox[w]) \in Jobs /\ Halts(w))) \in BOOLEAN
      BY <3>1
    <3> QED BY <1>2, <3>2 DEF Handle, TypeMain
  <2>2. inbox' \in [Workers -> Seq(Jobs \cup {Ack})]
    BY <1>2 DEF Handle, TypeListener
  <2>3. thread' \in [Workers -> Subscribed \cup {"new", "over"}]
    BY <1>2 DEF Handle, TypeListener
  <2> QED
    BY <1>2, <2>1, <2>2, <2>3
    DEF Handle, loop, bounds, TypeMain, TypeListener, TypeRest
<1>3. CASE ThreadFails(w)
  <2>1. TypeListener'
    <3>1. <<>> \in Seq(Jobs \cup {Ack})
      OBVIOUS
    <3>2. inbox' \in [Workers -> Seq(Jobs \cup {Ack})]
      BY <1>3, <3>1 DEF ThreadFails, ThreadEnds, TypeListener
    <3>3. thread' \in [Workers -> Subscribed \cup {"new", "over"}]
      BY <1>3 DEF ThreadFails, ThreadEnds, TypeListener
    <3> QED BY <1>3, <3>2, <3>3 DEF ThreadFails, ThreadEnds, TypeListener
  <2>2. faults' \in 0..MaxFaults
    BY <1>3, BoundAssumption DEF ThreadFails, ThreadEnds, TypeRest
  <2> QED BY <1>3, <2>1, <2>2 DEF ThreadFails, ThreadEnds, loop, TypeMain, TypeRest
<1> QED BY <1>1, <1>2, <1>3 DEF Thread

LEMMA TypeStart ==
    ASSUME TypeOK, NEW w \in Workers, Start(w) \/ Crash(w)
    PROVE  TypeOK'
<1> USE TypeParts
<1>0. <<>> \in Seq(Jobs \cup {Ack})
  OBVIOUS
<1>1. CASE Start(w)
  <2>1. resume' \in [Workers -> SUBSET Jobs]
    BY <1>1 DEF Start, Resumable, TypeMain
  <2>2. TypeMain'
    BY <1>1, <2>1 DEF Start, To, TypeMain, Stages
  <2>3. TypeListener'
    <3>1. inbox' \in [Workers -> Seq(Jobs \cup {Ack})]
      BY <1>1, <1>0 DEF Start, TypeListener
    <3>2. thread' \in [Workers -> Subscribed \cup {"new", "over"}]
      BY <1>1 DEF Start, TypeListener
    <3>3. future' \in [Workers -> BOOLEAN] /\ isListening' \in [Workers -> BOOLEAN]
      BY <1>1 DEF Start, TypeListener
    <3> QED BY <3>1, <3>2, <3>3 DEF TypeListener
  <2>4. starts' \in 0..MaxStarts
    BY <1>1, BoundAssumption DEF Start, TypeRest
  <2> QED BY <1>1, <2>2, <2>3, <2>4 DEF Start, TypeRest
<1>2. CASE Crash(w)
  <2>1. TypeMain'
    BY <1>2, JobsAssumption DEF Crash, To, TypeMain, Stages
  <2>2. TypeListener'
    <3>1. inbox' \in [Workers -> Seq(Jobs \cup {Ack})]
      BY <1>2, <1>0 DEF Crash, TypeListener
    <3>2. thread' \in [Workers -> Subscribed \cup {"new", "over"}]
      BY <1>2 DEF Crash, TypeListener
    <3> QED BY <1>2, <3>1, <3>2 DEF Crash, TypeListener
  <2>3. faults' \in 0..MaxFaults
    BY <1>2, BoundAssumption DEF Crash, TypeRest
  <2> QED BY <1>2, <2>1, <2>2, <2>3 DEF Crash, TypeRest
<1> QED BY <1>1, <1>2

LEMMA TypeStore ==
    ASSUME TypeOK, NEW j \in Jobs, Expire(j) \/ TakeAway(j) \/ Lose(j)
    PROVE  TypeOK'
<1> USE TypeParts
<1>1. CASE Publish(j)
  <2>1. inbox' \in [Workers -> Seq(Jobs \cup {Ack})]
    BY <1>1 DEF Publish, TypeListener
  <2>2. losses' \in 0..MaxLosses
    BY <1>1, BoundAssumption DEF Publish, TypeRest
  <2>3. lease' \in [Jobs -> {"free", "ours", "expired", "theirs", "done"}]
    BY DEF Expire, TakeAway, Lose, TypeMain
  <2>4. UNCHANGED <<kind, main, loop, interrupt, thread, future, isListening, starts, faults>>
    BY <1>1 DEF Expire, TakeAway, Lose, Publish, listener, bounds
  <2> QED BY <2>1, <2>2, <2>3, <2>4 DEF loop, TypeMain, TypeListener, TypeRest
<1>2. CASE Lose(j)
  BY <1>2 DEF Lose, loop, listener, bounds, TypeMain, TypeListener, TypeRest
<1> QED BY <1>1, <1>2 DEF Expire, TakeAway

LEMMA TypeNext == TypeOK /\ [Next]_vars => TypeOK'
<1> SUFFICES ASSUME TypeOK, [Next]_vars PROVE TypeOK'
  OBVIOUS
<1>1. CASE UNCHANGED vars
  BY <1>1 DEF vars, loop, listener, bounds, TypeOK
<1>2. CASE Next
  BY <1>2, TypeMainStep, TypeWork, TypeThread, TypeStart, TypeStore DEF Next
<1> QED BY <1>1, <1>2

-----------------------------------------------------------------------------
(* A stopped worker begins one job.                                        *)

(* Nothing that counts changes but that a worker leaves its way to a job.  *)
LEMMA NoneBegunKept ==
    ASSUME TypeOK, NoneBegun, UNCHANGED <<shutdown, extra>>, NEW w \in Workers,
           NEW stage \in Stages,
           main' = main \/ main' = [main EXCEPT ![w] = stage],
           \/ main' = main
           \/ stage \notin {"listening", "resuming", "polling", "sleeping"}
           \/ main[w] \in {"listening", "resuming", "polling", "sleeping"}
           \/ ~shutdown[w]
    PROVE  NoneBegun'
BY TypeParts DEF NoneBegun, TypeMain

LEMMA NoneBegunNext == TypeOK /\ NoneBegun /\ [Next]_vars => NoneBegun'
<1> SUFFICES ASSUME TypeOK, NoneBegun, [Next]_vars PROVE NoneBegun'
  OBVIOUS
<1>1. CASE UNCHANGED vars
  BY <1>1 DEF vars, loop, NoneBegun
<1>2. ASSUME NEW w \in Workers, Start(w) PROVE NoneBegun'
  BY <1>2, TypeParts DEF Start, To, NoneBegun, TypeMain
<1>3. ASSUME NEW w \in Workers, NEW j \in Jobs, Resume(w, j) \/ Pop(w, j)
      PROVE  NoneBegun'
  <2>1. CASE Begin(w, j)
    <3>1. extra[w] = 0 /\ UNCHANGED shutdown
      BY <1>3, <2>1 DEF Resume, Pop, NoneBegun
    <3>2. extra' = [extra EXCEPT ![w] = IF shutdown[w] THEN 1 ELSE 0]
      BY <2>1, <3>1, TypeParts DEF Begin, TypeMain
    <3>3. main' = [main EXCEPT ![w] = "working"]
      BY <2>1 DEF Begin, To
    <3> QED BY <3>1, <3>2, <3>3, TypeParts DEF NoneBegun, TypeMain
  <2>2. CASE UNCHANGED <<main, extra>>
    BY <1>3, <2>2 DEF Resume, Pop, NoneBegun
  <2> QED BY <1>3, <2>1, <2>2 DEF Resume, Pop
<1>4. ASSUME NEW w \in Workers,
             \/ WaitUntilListening(w) \/ NothingToResume(w) \/ PopNothing(w)
             \/ Wake(w) \/ Check(w) \/ Leave(w) \/ Unlisten(w) \/ Join(w)
      PROVE  NoneBegun'
  <2>1. \E stage \in Stages :
            /\ main' = [main EXCEPT ![w] = stage]
            /\ \/ stage \notin {"listening", "resuming", "polling", "sleeping"}
               \/ main[w] \in {"listening", "resuming", "polling", "sleeping"}
               \/ ~shutdown[w]
    BY <1>4
    DEF WaitUntilListening, NothingToResume, PopNothing, Wake, Check, Leave, Unlisten,
        StopListening, Join, To, Stages, Loop
  <2>2. UNCHANGED <<shutdown, extra>>
    BY <1>4
    DEF WaitUntilListening, NothingToResume, PopNothing, Wake, Check, Leave, Unlisten,
        StopListening, Join, loop
  <2> QED BY <2>1, <2>2, NoneBegunKept
<1>5. ASSUME NEW w \in Workers, Work(w) \/ Interrupted(w) \/ Crash(w)
      PROVE  NoneBegun'
  <2>1. \E stage \in {"checking", "unlistening", "over"} :
            main' = [main EXCEPT ![w] = stage]
    BY <1>5
    DEF Work, Return, Complete, Requeue, Fail, Over, Interrupted, Crash, To
  <2>2. UNCHANGED <<shutdown, extra>>
    BY <1>5 DEF Work, Return, Complete, Requeue, Fail, Over, Interrupted, Crash
  <2> QED BY <2>1, <2>2, NoneBegunKept DEF Stages, Loop
<1>6. ASSUME NEW w \in Workers, Stop(w) PROVE NoneBegun'
  BY <1>6, TypeParts DEF Stop, NoneBegun, TypeMain
<1>7. ASSUME NEW w \in Workers, Heartbeat(w) \/ Thread(w) \/ ThreadFails(w)
      PROVE  NoneBegun'
  BY <1>7 DEF Heartbeat, Thread, Subscribe, Resolve, Listen, Handle, ThreadFails,
              ThreadEnds, loop, NoneBegun
<1>8. ASSUME NEW j \in Jobs, Expire(j) \/ TakeAway(j) \/ Lose(j) PROVE NoneBegun'
  BY <1>8 DEF Expire, TakeAway, Lose, loop, NoneBegun
<1> QED
  BY <1>1, <1>2, <1>3, <1>4, <1>5, <1>6, <1>7, <1>8 DEF Next, Main

-----------------------------------------------------------------------------
(* A thread told to stop has a message to look at.                         *)

LEMMA ToldNext == TypeOK /\ ThreadsAreTold /\ [Next]_vars => ThreadsAreTold'
<1> SUFFICES ASSUME TypeOK, ThreadsAreTold, [Next]_vars,
                    NEW v \in Workers, thread'[v] = "listening", ~isListening'[v]
             PROVE  inbox'[v] # <<>>
  BY DEF ThreadsAreTold
<1> USE TypeParts
<1>0. \A a \in Jobs \cup {Ack} : Append(inbox[v], a) # <<>>
  <2>1. inbox[v] \in Seq(Jobs \cup {Ack})
    BY DEF TypeListener
  <2> QED BY <2>1
<1>1. CASE UNCHANGED vars
  BY <1>1 DEF vars, listener, ThreadsAreTold
<1>2. ASSUME NEW w \in Workers, Start(w) PROVE inbox'[v] # <<>>
  <2>1. v # w
    BY <1>2 DEF Start, TypeListener
  <2> QED BY <1>2, <2>1 DEF Start, TypeListener, ThreadsAreTold
<1>3. ASSUME NEW w \in Workers, Unlisten(w) PROVE inbox'[v] # <<>>
  <2>1. CASE isListening[w]
    <3>1. CASE v = w
      BY <1>0, <1>3, <2>1, <3>1 DEF Unlisten, StopListening, TypeListener
    <3>2. CASE v # w
      BY <1>3, <2>1, <3>2 DEF Unlisten, StopListening, TypeListener, ThreadsAreTold
    <3> QED BY <3>1, <3>2
  <2>2. CASE ~isListening[w]
    BY <1>3, <2>2 DEF Unlisten, StopListening, ThreadsAreTold
  <2> QED BY <2>1, <2>2
<1>4. ASSUME NEW w \in Workers, Subscribe(w) \/ Resolve(w) \/ Listen(w)
      PROVE  inbox'[v] # <<>>
  BY <1>4 DEF Subscribe, Resolve, Listen, TypeListener, ThreadsAreTold
<1>5. ASSUME NEW w \in Workers, Handle(w) PROVE inbox'[v] # <<>>
  <2>1. v # w
    BY <1>5 DEF Handle, TypeListener
  <2> QED BY <1>5, <2>1 DEF Handle, TypeListener, ThreadsAreTold
<1>6. ASSUME NEW w \in Workers, ThreadFails(w) \/ Crash(w) PROVE inbox'[v] # <<>>
  <2>1. v # w
    BY <1>6 DEF ThreadFails, ThreadEnds, Crash, TypeListener
  <2> QED BY <1>6, <2>1 DEF ThreadFails, ThreadEnds, Crash, TypeListener, ThreadsAreTold
<1>7. ASSUME NEW j \in Jobs, Expire(j) \/ TakeAway(j) PROVE inbox'[v] # <<>>
  BY <1>0, <1>7 DEF Expire, TakeAway, Publish, ThreadsAreTold
<1>8. CASE UNCHANGED listener
  BY <1>8 DEF listener, ThreadsAreTold
<1>9. ASSUME NEW w \in Workers,
             (Main(w) /\ ~Unlisten(w)) \/ Work(w) \/ Heartbeat(w) \/ Stop(w) \/ Interrupted(w)
      PROVE  UNCHANGED listener
  BY <1>9
  DEF Main, WaitUntilListening, Resume, NothingToResume, Pop, PopNothing, Wake, Check,
      Leave, Join, Work, Return, Complete, Requeue, Fail, Over, Heartbeat, Stop,
      Interrupted
<1>10. ASSUME NEW j \in Jobs, Lose(j) PROVE UNCHANGED listener
  BY <1>10 DEF Lose
<1> QED
  BY <1>1, <1>2, <1>3, <1>4, <1>5, <1>6, <1>7, <1>8, <1>9, <1>10 DEF Next, Thread

-----------------------------------------------------------------------------
LEMMA Inductive == Spec => []IInv
<1>1. Init => IInv
  BY TypeInit DEF Init, IInv, NoneBegun, ThreadsAreTold
<1>2. IInv /\ [Next]_vars => IInv'
  BY TypeNext, NoneBegunNext, ToldNext DEF IInv
<1> QED BY <1>1, <1>2, PTL DEF Spec

(* Every variable keeps values of its kind, and a process has a job in     *)
(* hand exactly while it works.                                            *)
THEOREM TypeCorrect == Spec => []TypeOK
<1>1. IInv => TypeOK
  BY DEF IInv
<1> QED BY <1>1, Inductive, PTL

(* However stop, the jobs it resumes and those it pops come together, a    *)
(* worker begins one job at most after it was stopped.                     *)
THEOREM StoppedAfterOneJob == Spec => []StopsAfterOneJob
<1>1. IInv => StopsAfterOneJob
  BY DEF IInv, NoneBegun, StopsAfterOneJob
<1> QED BY <1>1, Inductive, PTL

(* A listener's thread that listens on after unlisten has a message that   *)
(* wakes it, whenever unlisten came.                                       *)
THEOREM ThreadsCanStop == Spec => []ThreadsAreTold
<1>1. IInv => ThreadsAreTold
  BY DEF IInv
<1> QED BY <1>1, Inductive, PTL
=============================================================================
