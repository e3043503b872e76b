------------------------ MODULE ForkingWorker_proofs ------------------------
(***************************************************************************)
(* Proofs about ForkingWorker, for any pids, number of children and jobs   *)
(* to resume: no two live children have one sandbox, stop leaves none      *)
(* behind but the one not yet entered, each job to resume is given to one  *)
(* child as long as none ends, and the worker implements Crew.             *)
(***************************************************************************)
EXTENDS ForkingWorker, TLAPS

-----------------------------------------------------------------------------
(* The inductive invariant.                                                *)

(* The process in hand is where the parent's step says it is.              *)
InHand ==
    /\ stage \in {"forking", "waiting"} => pid = NoPid
    /\ stage \in {"reaped", "replacing"} => pid \in Pids /\ proc[pid] = "free"
    /\ stage = "entering" =>
          /\ pid \in Pids
          /\ proc[pid] \in {"live", "zombie"}
          /\ sandboxes[pid] = NoBox
          /\ Live(pid) => child[pid].box = sandbox
    /\ stage = "over" => Entered = {}

(* The table names processes that are not reaped, with sandboxes given out *)
(* so far, each once; the sandbox in hand is not in it.                    *)
TableExact ==
    /\ stage \notin Stopping =>
          \A p \in Entered : \/ proc[p] \in {"live", "zombie"}
                             \/ stage = "reaped" /\ p = pid
    /\ \A p, q \in Entered : sandboxes[p] = sandboxes[q] => p = q
    /\ \A p \in Entered : sandboxes[p] < index
    /\ stage \in {"entering", "replacing"} =>
          /\ sandbox \in Boxes /\ sandbox < index
          /\ \A p \in Entered : sandboxes[p] # sandbox

(* A live child is in the table with its sandbox, or it is the one in      *)
(* hand, and then no other has that sandbox.                               *)
ChildrenKnown ==
    \A p \in Pids : Live(p) =>
        /\ child[p].box \in Boxes
        /\ \/ sandboxes[p] = child[p].box
           \/ p = pid
        /\ p = pid => \A q \in Entered : sandboxes[q] # child[p].box

IInv == TypeOK /\ InHand /\ TableExact /\ ChildrenKnown

-----------------------------------------------------------------------------
(* Type correctness.                                                       *)

LEMMA TypeFork ==
    ASSUME TypeOK, NEW p \in Pids, NEW b \in Boxes, NEW js,
           js \in {Divide(Resume)[c] : c \in Boxes} \cup {Resume, <<>>},
           Fork(p, b, js), index' \in 0..Count
    PROVE  TypeOK'
<1>1. [box |-> b, jobs |-> js, kin |-> Entered]
      \in [box : Boxes \cup {NoBox}, kin : SUBSET Pids,
           jobs : {Divide(Resume)[c] : c \in Boxes} \cup {Resume, <<>>}]
  BY DEF Entered
<1> QED BY <1>1 DEF Fork, TypeOK

LEMMA TypePerish ==
    ASSUME TypeOK, NEW p \in Pids, Perish(p)
    PROVE  /\ proc' \in [Pids -> {"free", "live", "zombie", "stray"}]
           /\ child' \in [Pids -> [box : Boxes \cup {NoBox}, kin : SUBSET Pids,
                  jobs : {Divide(Resume)[b] : b \in Boxes} \cup {Resume, <<>>}]]
<1>1. NoChild \in [box : Boxes \cup {NoBox}, kin : SUBSET Pids,
           jobs : {Divide(Resume)[c] : c \in Boxes} \cup {Resume, <<>>}]
  BY DEF NoChild
<1> QED BY <1>1 DEF Perish, TypeOK

LEMMA TypeRun == IInv /\ Run => TypeOK'
<1> SUFFICES ASSUME IInv, Run PROVE TypeOK'
  OBVIOUS
<1>0. TypeOK /\ InHand
  BY DEF IInv
<1>1. CASE Enter
  BY <1>0, <1>1 DEF Enter, InHand, TypeOK
<1>2. CASE ForkFails
  BY <1>0, <1>2 DEF ForkFails, Stop, Entered, Stopping, Stopped, TypeOK
<1>3. CASE Forget
  BY <1>0, <1>3 DEF Forget, Stop, Entered, Stopping, Stopped, InHand, TypeOK
<1>4. ASSUME NEW p \in Pids, Spawn(p) PROVE TypeOK'
  <2>1. index \in Boxes /\ index' \in 0..Count
    BY <1>0, <1>4, CountAssumption DEF Spawn, Boxes, TypeOK
  <2> QED BY <1>0, <1>4, <2>1, TypeFork DEF Spawn
<1>5. ASSUME NEW p \in Pids, Respawn(p) PROVE TypeOK'
  <2>1. sandbox \in Boxes
    BY <1>5 DEF Respawn, IInv, TableExact
  <2> QED BY <1>0, <1>5, <2>1, TypeFork DEF Respawn, TypeOK
<1>6. ASSUME NEW p \in Pids, Reap(p) PROVE TypeOK'
  BY <1>0, <1>6 DEF Reap, TypeOK
<1> QED BY <1>1, <1>2, <1>3, <1>4, <1>5, <1>6 DEF Run

LEMMA TypeRest ==
    ASSUME TypeOK, NEW p \in Pids,
           \/ Kill(p) \/ WaitFor(p) \/ Drop(p)
           \/ Die(p) \/ SignalChild(p) \/ Handle(p) \/ Adopt(p)
    PROVE  TypeOK'
<1>2. CASE Kill(p)
  <2>1. CASE Live(p) /\ sig = "KILL"
    BY <1>2, <2>1, TypePerish DEF Kill, TypeOK
  <2>2. CASE ~(Live(p) /\ sig = "KILL")
    BY <1>2, <2>2 DEF Kill, TypeOK
  <2> QED BY <2>1, <2>2
<1>3. CASE WaitFor(p) \/ Drop(p)
  BY <1>3 DEF WaitFor, Drop, parent, TypeOK
<1>5. CASE Die(p)
  <2>1. deaths' \in 0..MaxDeaths /\ told' \subseteq Pids
    BY <1>5, BoundAssumption DEF Die, TypeOK
  <2> QED BY <1>5, <2>1, TypePerish DEF Die, parent, TypeOK
<1>6. CASE SignalChild(p)
  BY <1>6, BoundAssumption DEF SignalChild, parent, TypeOK
<1>7. CASE Handle(p)
  <2>1. told' \subseteq Pids
    BY <1>7 DEF Handle, TypeOK
  <2> QED BY <1>7, <2>1, TypePerish DEF Handle, parent, TypeOK
<1>8. CASE Adopt(p)
  BY <1>8 DEF Adopt, parent, TypeOK
<1> QED BY <1>2, <1>3, <1>5, <1>6, <1>7, <1>8

-----------------------------------------------------------------------------
(* The steps of run keep the rest of the invariant.                        *)

LEMMA SpawnSafe ==
    ASSUME IInv, NEW p \in Pids, Spawn(p) \/ Respawn(p)
    PROVE  (InHand /\ TableExact /\ ChildrenKnown)'
<1> PICK b \in Boxes, js \in {Divide(Resume)[index], Resume} :
        Fork(p, b, js) /\ b < index' /\ index <= index' /\ stage \notin Stopping
        /\ \A q \in Entered : sandboxes[q] # b
  <2>1. CASE Spawn(p)
    <3>1. index \in Boxes /\ index' = index + 1
      BY <2>1, CountAssumption DEF Spawn, Boxes, IInv, TypeOK
    <3>2. \A q \in Entered : sandboxes[q] # index
      BY <3>1, NullAssumption DEF IInv, TypeOK, TableExact, Entered, Boxes
    <3> QED BY <2>1, <3>1, <3>2 DEF Spawn, Stopping, Stopped, Boxes
  <2>2. CASE Respawn(p)
    BY <2>2 DEF Respawn, IInv, TypeOK, TableExact, Stopping, Stopped, Boxes
  <2> QED BY <2>1, <2>2
<1>1. p \notin Entered /\ ~Live(p)
  <2>1. \A q \in Entered : proc[q] \in {"live", "zombie"}
    BY DEF Spawn, Respawn, IInv, TableExact, Stopping, Stopped
  <2> QED BY <2>1 DEF Fork, Free, Live
<1>2. Entered' = Entered /\ \A q \in Entered : sandboxes[q] \in Boxes
  BY DEF Fork, Entered, IInv, TypeOK
<1>3. InHand'
  BY <1>1 DEF Fork, InHand, Entered, Live, IInv, TypeOK
<1>4. TableExact'
  <2>1. /\ UNCHANGED sandboxes /\ stage' = "entering" /\ sandbox' = b
        /\ \A q \in Entered : proc'[q] \in {"live", "zombie"}
    <3>1. \A q \in Entered : proc[q] \in {"live", "zombie"}
      BY DEF Spawn, Respawn, IInv, TableExact, Stopping, Stopped
    <3> QED BY <1>1, <3>1 DEF Fork, IInv, TypeOK, Entered
  <2>2. \A q \in Entered : sandboxes[q] < index'
    BY <1>2 DEF IInv, TableExact, TypeOK, Boxes, Spawn, Respawn
  <2> QED BY <1>2, <2>1, <2>2 DEF TableExact, IInv
<1>5. ChildrenKnown'
  <2>1. ~(pid \in Pids /\ Live(pid))
    BY NullAssumption DEF Spawn, Respawn, InHand, Live, IInv
  <2> QED BY <1>1, <1>2, <2>1 DEF Fork, ChildrenKnown, Entered, Live, IInv, TypeOK
<1> QED BY <1>3, <1>4, <1>5

LEMMA RunSafe == IInv /\ Run => (InHand /\ TableExact /\ ChildrenKnown)'
<1> SUFFICES ASSUME IInv, Run PROVE (InHand /\ TableExact /\ ChildrenKnown)'
  OBVIOUS
<1> USE DEF IInv, InHand, Entered, Live
<1>1. CASE Enter
  <2>1. sandbox \in Boxes /\ pid \in Pids /\ sandboxes' = [sandboxes EXCEPT ![pid] = sandbox]
    BY <1>1 DEF Enter, TableExact
  <2>2. InHand'
    BY <1>1 DEF Enter, TypeOK
  <2>3. TableExact'
    BY <1>1, <2>1 DEF Enter, TableExact, Stopping, Stopped, TypeOK
  <2>4. ChildrenKnown'
    BY <1>1, <2>1, NullAssumption DEF Enter, ChildrenKnown, TypeOK
  <2> QED BY <2>2, <2>3, <2>4
<1>2. CASE ForkFails
  BY <1>2 DEF ForkFails, Stop, TableExact, ChildrenKnown, Stopping, Stopped, TypeOK
<1>3. CASE Forget
  <2>1. InHand'
    BY <1>3 DEF Forget, Stop, TypeOK
  <2>2. TableExact'
    <3>1. CASE pid \in Entered
      <4>1. /\ sandbox' = sandboxes[pid] /\ stage' = "replacing"
            /\ sandboxes' = [sandboxes EXCEPT ![pid] = NoBox]
            /\ sandboxes[pid] \in Boxes /\ sandboxes[pid] < index
            /\ UNCHANGED <<index, proc, pid>>
        BY <1>3, <3>1 DEF Forget, TypeOK, TableExact
      <4>2. Entered' = Entered \ {pid}
        BY <1>3, <4>1 DEF TypeOK
      <4>3. \A p \in Entered' : p \in Entered /\ p # pid /\ sandboxes'[p] = sandboxes[p]
        BY <4>1, <4>2 DEF TypeOK
      <4>4. stage = "reaped"
        BY <1>3 DEF Forget
      <4>5. ASSUME NEW p \in Entered'
            PROVE  proc[p] \in {"live", "zombie"} /\ sandboxes'[p] # sandbox'
        <5>1. p \in Entered /\ p # pid /\ sandboxes'[p] = sandboxes[p]
          BY <4>3
        <5> HIDE DEF Entered
        <5> QED BY <3>1, <4>1, <4>4, <5>1 DEF TableExact, Stopping, Stopped
      <4> HIDE DEF Entered
      <4> QED BY <4>1, <4>3, <4>5 DEF TableExact, Stopping, Stopped
    <3>2. CASE pid \notin Entered
      BY <1>3, <3>2 DEF Forget, Stop, TableExact, Stopping, Stopped
    <3> QED BY <3>1, <3>2
  <2>3. ChildrenKnown'
    BY <1>3 DEF Forget, Stop, ChildrenKnown, TypeOK
  <2> QED BY <2>1, <2>2, <2>3
<1>4. ASSUME NEW p \in Pids, Reap(p) PROVE (InHand /\ TableExact /\ ChildrenKnown)'
  BY <1>4, NullAssumption DEF Reap, TableExact, ChildrenKnown, Stopping, Stopped, TypeOK
<1> QED BY <1>1, <1>2, <1>3, <1>4, SpawnSafe DEF Run

(* The other steps do not add to the table, and end children at most.      *)
LEMMA RestSafe ==
    ASSUME IInv, NEW p \in Pids,
           \/ Kill(p) \/ WaitFor(p) \/ Drop(p)
           \/ Die(p) \/ SignalChild(p) \/ Handle(p) \/ Adopt(p)
    PROVE  (InHand /\ TableExact /\ ChildrenKnown)'
<1> USE DEF IInv, InHand, TableExact, ChildrenKnown, Entered, Live, Stopping, Stopped
<1>2. CASE Perish(p) /\ Live(p) /\ UNCHANGED parent
  <2>1. /\ proc[p] = "live" /\ proc'[p] = "zombie"
        /\ \A q \in Pids \ {p} : proc'[q] = proc[q] /\ child'[q] = child[q]
        /\ UNCHANGED <<stage, index, pid, sandbox, sandboxes>>
    BY <1>2 DEF Perish, parent, TypeOK
  <2>2. InHand'
    BY <2>1
  <2>3. TableExact'
    BY <2>1
  <2>4. \A q \in Pids : proc'[q] = "live" => q # p /\ proc[q] = "live"
    BY <2>1
  <2>5. Entered' = Entered
    BY <2>1
  <2>6. ChildrenKnown'
    <3> SUFFICES ASSUME NEW q \in Pids, Live(q)'
                 PROVE  /\ child'[q].box \in Boxes
                        /\ sandboxes'[q] = child'[q].box \/ q = pid'
                        /\ q = pid' => \A r \in Entered' :
                                          sandboxes'[r] # child'[q].box
      BY DEF Boxes
    <3>1. q # p /\ Live(q) /\ child'[q] = child[q]
      BY <2>1, <2>4
    <3> HIDE DEF Entered, Live, InHand, TableExact
    <3> QED BY <2>1, <2>5, <3>1
  <2> QED BY <2>2, <2>3, <2>6
<1>3. CASE Kill(p)
  <2>1. CASE Perish(p)
    BY <1>3, <2>1 DEF Kill, Perish, TypeOK
  <2>2. CASE UNCHANGED <<proc, child>>
    BY <1>3, <2>2 DEF Kill, TypeOK
  <2> QED BY <1>3, <2>1, <2>2 DEF Kill
<1>4. CASE WaitFor(p)
  BY <1>4 DEF WaitFor, parent, TypeOK
<1>5. CASE Drop(p)
  BY <1>5, NullAssumption DEF Drop, Boxes, TypeOK
<1>6. CASE SignalChild(p)
  BY <1>6 DEF SignalChild, parent
<1>7. CASE Adopt(p)
  <2>1. /\ proc[p] = "free" /\ p # pid /\ p \notin Entered /\ proc'[p] = "stray"
        /\ \A q \in Pids \ {p} : proc'[q] = proc[q]
        /\ UNCHANGED <<stage, index, pid, sandbox, sandboxes, child>>
    BY <1>7 DEF Adopt, Free, parent, TypeOK
  <2>2. InHand'
    BY <2>1
  <2>3. TableExact'
    BY <2>1
  <2>4. ChildrenKnown'
    BY <2>1
  <2> QED BY <2>2, <2>3, <2>4
<1>8. CASE Die(p) \/ Handle(p)
  BY <1>2, <1>8 DEF Die, Handle, parent
<1> QED BY <1>3, <1>4, <1>5, <1>6, <1>7, <1>8

LEMMA StopSafe == IInv /\ (AllKilled \/ End \/ Signal) => IInv'
<1> SUFFICES ASSUME IInv, AllKilled \/ End \/ Signal PROVE IInv'
  OBVIOUS
<1>1. /\ UNCHANGED <<index, pid, sandbox, sandboxes, proc, child>>
      /\ stage' \in Stopping
      /\ stage' \notin {"forking", "waiting", "reaped", "replacing", "entering"}
      /\ stage' = "over" => Entered = {}
  BY DEF AllKilled, End, Signal, Stop, Stopping, Stopped
<1>2. TypeOK'
  <2>1. CASE AllKilled \/ End
    BY <1>1, <2>1 DEF AllKilled, End, IInv, TypeOK
  <2>2. CASE Signal
    BY <1>1, <2>2, BoundAssumption DEF Signal, Stop, Entered, IInv, TypeOK
  <2> QED BY <2>1, <2>2
<1>3. InHand'
  BY <1>1 DEF InHand, Entered
<1>4. TableExact'
  BY <1>1 DEF TableExact, Entered, Stopping, Stopped, IInv
<1>5. ChildrenKnown'
  BY <1>1 DEF ChildrenKnown, Entered, Live, IInv
<1> QED BY <1>2, <1>3, <1>4, <1>5 DEF IInv

LEMMA IInvInit == Init => IInv
<1> SUFFICES ASSUME Init PROVE IInv
  OBVIOUS
<1>1. TypeOK
  BY CountAssumption, BoundAssumption, NullAssumption DEF Init, TypeOK, NoChild
<1>2. InHand /\ TableExact /\ ChildrenKnown
  BY DEF Init, InHand, TableExact, ChildrenKnown, Entered, Live, Stopping, Stopped
<1> QED BY <1>1, <1>2 DEF IInv

LEMMA IInvNext == IInv /\ [Next]_vars => IInv'
<1> SUFFICES ASSUME IInv, [Next]_vars PROVE IInv'
  OBVIOUS
<1>1. CASE Run
  BY <1>1, TypeRun, RunSafe DEF IInv
<1>2. CASE UNCHANGED vars
  BY <1>2 DEF vars, parent, IInv, TypeOK, InHand, TableExact, ChildrenKnown, Entered, Live
<1>3. ASSUME NEW p \in Pids,
             \/ Kill(p) \/ WaitFor(p) \/ Drop(p)
             \/ Die(p) \/ SignalChild(p) \/ Handle(p) \/ Adopt(p)
      PROVE  IInv'
  BY <1>3, TypeRest, RestSafe DEF IInv
<1> QED BY <1>1, <1>2, <1>3, StopSafe DEF Next, StopStep

LEMMA Inductive == Spec => []IInv
BY IInvInit, IInvNext, PTL DEF Spec

-----------------------------------------------------------------------------
(* Every variable keeps values of its kind, whatever the parent and its    *)
(* children do.                                                            *)
THEOREM TypeCorrect == Spec => []TypeOK
<1>1. IInv => TypeOK
  BY DEF IInv
<1> QED BY <1>1, Inductive, PTL

LEMMA Unshared == IInv => SandboxesUnshared
BY NullAssumption
DEF IInv, TypeOK, TableExact, ChildrenKnown, SandboxesUnshared, Entered, Live, Boxes

(* No two live children have one sandbox, however many die, are replaced,  *)
(* are signalled or outlive the parent.                                    *)
THEOREM SandboxPerChild == Spec => []SandboxesUnshared
BY Unshared, Inductive, PTL

(* When stop is over only a child that was not yet in the table lives.     *)
THEOREM StopIsThorough == Spec => []OnlyTheUnenteredSurvive
<1>1. IInv => OnlyTheUnenteredSurvive
  BY NullAssumption
  DEF IInv, InHand, ChildrenKnown, OnlyTheUnenteredSurvive, Entered, Live, Boxes
<1> QED BY <1>1, Inductive, PTL
-----------------------------------------------------------------------------
(* Each job to resume is dealt to one sandbox.                             *)

(* What the theorem assumes of the jobs to resume: none is listed twice.   *)
(* resumable reads them from a sorted set; a list that the caller gives is *)
(* taken to be like it.                                                    *)
ResumeIsDistinct ==
    \A i, k \in 1..Len(Resume) : Resume[i] = Resume[k] => i = k

Share(b) == {Divide(Resume)[b][k] : k \in DOMAIN Divide(Resume)[b]}

LEMMA Division ==
    ASSUME NEW a \in Int, NEW b \in Nat \ {0}
    PROVE  /\ a \div b \in Int
           /\ (a \div b) * b <= a
           /\ a < (a \div b + 1) * b
  OBVIOUS

LEMMA ProductsGrow ==
    ASSUME NEW a \in Int, NEW c \in Int, NEW b \in Nat \ {0}
    PROVE  /\ a <= c => a * b <= c * b
           /\ a * b < c * b => a < c
  OBVIOUS

LEMMA ProductAndOne ==
    ASSUME NEW a \in Int, NEW b \in Int
    PROVE  /\ (a + 1) * b = a * b + b /\ (a - 1) * b = a * b - b
           /\ a * b \in Int
  OBVIOUS

(* The places of the jobs of a sandbox in the list.                        *)
LEMMA ShareIsEveryCountth ==
    ASSUME NEW b \in Boxes, NEW job
    PROVE  job \in Share(b) <=>
              \E d \in Nat : /\ d * Count + b + 1 \in 1..Len(Resume)
                             /\ job = Resume[d * Count + b + 1]
<1> DEFINE top == Len(Resume) - b + Count - 1
           n   == top \div Count
<1>1. /\ Count \in Nat \ {0} /\ Len(Resume) \in Nat /\ b \in 0..(Count - 1)
      /\ top \in Int
  BY CountAssumption, ResumeAssumption DEF Boxes
<1>2. /\ DOMAIN Divide(Resume)[b] = 1..n
      /\ \A k \in 1..n : Divide(Resume)[b][k] = Resume[(k - 1) * Count + b + 1]
  BY DEF Divide
<1> HIDE DEF n
<1>3. n \in Int /\ n * Count <= top /\ top < (n + 1) * Count
  BY <1>1, Division DEF n
(* A number of turns is within the share when its job is within the list.  *)
<1>4. ASSUME NEW d \in Nat
      PROVE  d + 1 <= n <=> d * Count + b + 1 <= Len(Resume)
  <2>1. (d + 1) * Count = d * Count + Count /\ d * Count \in Int
    BY <1>1, ProductAndOne
  <2>2. ASSUME d + 1 <= n PROVE d * Count + b + 1 <= Len(Resume)
    <3>1. (d + 1) * Count <= n * Count /\ n * Count \in Int
      BY <1>1, <1>3, <2>2, ProductsGrow
    <3> QED BY <1>1, <1>3, <2>1, <3>1
  <2>3. ASSUME d * Count + b + 1 <= Len(Resume) PROVE d + 1 <= n
    <3>1. (d + 1) * Count < (n + 1) * Count
      <4>1. (d + 1) * Count <= top
        BY <1>1, <2>1, <2>3
      <4>2. (d + 1) * Count \in Int /\ (n + 1) * Count \in Int
        BY <1>1, <1>3
      <4> HIDE DEF top
      <4> QED BY <1>1, <1>3, <4>1, <4>2
    <3>2. d + 1 < n + 1
      BY <1>1, <1>3, <3>1, ProductsGrow
    <3> QED BY <1>3, <3>2
  <2> QED BY <2>2, <2>3
<1>5. ASSUME NEW d \in Nat PROVE d * Count + b + 1 >= 1 /\ d * Count + b + 1 \in Nat
  BY <1>1
<1>6. ASSUME job \in Share(b)
      PROVE  \E d \in Nat : /\ d * Count + b + 1 \in 1..Len(Resume)
                            /\ job = Resume[d * Count + b + 1]
  <2>1. PICK k \in 1..n : job = Divide(Resume)[b][k]
    BY <1>2, <1>6 DEF Share
  <2>2. PICK d \in Nat : d = k - 1 /\ d + 1 <= n
    BY <1>3
  <2>3. d * Count + b + 1 <= Len(Resume)
    BY <1>4, <2>2
  <2>4. d * Count + b + 1 \in 1..Len(Resume)
    BY <1>1, <1>5, <2>3
  <2> QED BY <1>2, <2>1, <2>2, <2>4
<1>7. ASSUME NEW d \in Nat, d * Count + b + 1 \in 1..Len(Resume),
             job = Resume[d * Count + b + 1]
      PROVE  job \in Share(b)
  <2>1. d + 1 \in 1..n /\ (d + 1) - 1 = d
    BY <1>1, <1>3, <1>4, <1>7
  <2>2. Divide(Resume)[b][d + 1] = job
    BY <1>2, <1>7, <2>1
  <2> QED BY <1>2, <2>1, <2>2 DEF Share
<1> QED BY <1>6, <1>7

LEMMA DealtOnce ==
    ASSUME ResumeIsDistinct, NEW i \in 1..Len(Resume)
    PROVE  \E b \in Boxes : \A c \in Boxes : Resume[i] \in Share(c) <=> c = b
<1> DEFINE d == (i - 1) \div Count
           b == (i - 1) - d * Count
<1>1. Count \in Nat \ {0} /\ i \in Nat /\ 1 <= i /\ i - 1 \in Nat
  BY CountAssumption, ResumeAssumption
<1>2. /\ d \in Int /\ d * Count <= i - 1 /\ i - 1 < (d + 1) * Count
  BY <1>1, Division
<1> HIDE DEF d
<1>3. (d + 1) * Count = d * Count + Count /\ d * Count \in Int
  BY <1>1, <1>2, ProductAndOne
<1>4. b \in Boxes /\ d * Count + b + 1 = i
  BY <1>1, <1>2, <1>3 DEF Boxes
<1>5. d \in Nat
  <2>1. 0 * Count < (d + 1) * Count
    BY <1>1, <1>2, <1>3
  <2>2. 0 < d + 1
    BY <1>1, <1>2, <2>1, ProductsGrow
  <2> QED BY <1>2, <2>2
<1> HIDE DEF b
<1>6. Resume[i] \in Share(b)
  BY <1>4, <1>5, ShareIsEveryCountth
<1>7. ASSUME NEW c \in Boxes, Resume[i] \in Share(c) PROVE c = b
  <2>1. PICK e \in Nat : /\ e * Count + c + 1 \in 1..Len(Resume)
                         /\ Resume[i] = Resume[e * Count + c + 1]
    BY <1>7, ShareIsEveryCountth
  <2>2. i = e * Count + c + 1
    BY <2>1 DEF ResumeIsDistinct
  <2>3. c \in 0..(Count - 1) /\ b \in 0..(Count - 1)
    BY <1>4 DEF Boxes
  <2>4. (e + 1) * Count = e * Count + Count /\ e * Count \in Int
    BY <1>1, ProductAndOne
  <2>5. d * Count < (e + 1) * Count /\ e * Count < (d + 1) * Count
    BY <1>1, <1>3, <1>4, <2>2, <2>3, <2>4
  <2>6. d < e + 1 /\ e < d + 1
    BY <1>1, <1>5, <2>5, ProductsGrow
  <2>7. d = e
    BY <1>5, <2>6
  <2> QED BY <1>3, <1>4, <2>2, <2>3, <2>7
<1> QED BY <1>4, <1>6, <1>7

(* As long as no child ended and none was signalled, those of the first    *)
(* loop are there, each with the share of its sandbox.                     *)
EndedHaveNothing == \A p \in Pids : ~Live(p) => child[p] = NoChild

Undisturbed == stage \notin Stopping /\ deaths = 0 /\ signals = 0

SharesAreHeld ==
    Undisturbed =>
        /\ told = {} /\ stage # "replacing"
        /\ stage = "reaped" => pid \notin Entered
        /\ stage = "waiting" => index = Count
        /\ stage = "reaped" => index = Count
        /\ \A p \in Pids : proc[p] # "zombie"
        /\ \A p \in Pids : Live(p) => /\ child[p].box < index
                                      /\ child[p].jobs = Divide(Resume)[child[p].box]
        /\ \A b \in Boxes : b < index => \E p \in Pids : Live(p) /\ child[p].box = b

Shares == EndedHaveNothing /\ SharesAreHeld

LEMMA SharesSpawn ==
    ASSUME IInv, Shares, NEW p \in Pids, Spawn(p) PROVE Shares'
<1>1. /\ index \in Boxes /\ index' = index + 1 /\ ~Live(p)
      /\ proc' = [proc EXCEPT ![p] = "live"]
      /\ child' = [child EXCEPT ![p] = [box |-> index, kin |-> Entered,
                                        jobs |-> Divide(Resume)[index]]]
      /\ stage = "forking" /\ stage' = "entering"
      /\ UNCHANGED <<told, signals, deaths>>
  BY CountAssumption DEF Spawn, Fork, Free, Live, Boxes, IInv, TypeOK
<1>2. /\ Live(p)' /\ child'[p].box = index
      /\ child'[p].jobs = Divide(Resume)[index]
      /\ \A q \in Pids \ {p} : /\ child'[q] = child[q] /\ proc'[q] = proc[q]
                               /\ Live(q)' <=> Live(q)
  BY <1>1 DEF Live, IInv, TypeOK
<1>3. EndedHaveNothing'
  <2> SUFFICES ASSUME NEW q \in Pids, ~Live(q)' PROVE child'[q] = NoChild
    BY DEF EndedHaveNothing
  <2>1. q \in Pids \ {p}
    BY <1>2 DEF Live
  <2>2. ~Live(q) /\ child'[q] = child[q]
    BY <1>2, <2>1 DEF Live
  <2> QED BY <2>1, <2>2 DEF Shares, EndedHaveNothing
<1>4. SharesAreHeld'
  <2> SUFFICES ASSUME Undisturbed' PROVE SharesAreHeld'
    BY DEF SharesAreHeld
  <2>1. Undisturbed
    BY <1>1 DEF Undisturbed, Stopping, Stopped
  <2>2. \A q \in Pids : proc'[q] # "zombie"
    BY <1>1, <1>2, <2>1 DEF Shares, SharesAreHeld, IInv, TypeOK
  <2>3. \A q \in Pids : Live(q)' => /\ child'[q].box < index'
                                    /\ child'[q].jobs = Divide(Resume)[child'[q].box]
    <3>1. ASSUME NEW q \in Pids \ {p}, Live(q)
          PROVE  child[q].box \in Boxes /\ child[q].box < index
                 /\ child[q].jobs = Divide(Resume)[child[q].box]
      BY <2>1, <3>1 DEF Shares, SharesAreHeld, IInv, ChildrenKnown
    <3> QED BY <1>1, <1>2, <3>1 DEF Boxes
  <2>4. \A b \in Boxes : b < index' => \E q \in Pids : Live(q)' /\ child'[q].box = b
    <3> SUFFICES ASSUME NEW b \in Boxes, b < index'
                 PROVE  \E q \in Pids : Live(q)' /\ child'[q].box = b
      OBVIOUS
    <3>1. CASE b = index
      BY <1>2, <3>1
    <3>2. CASE b # index
      <4>1. b < index
        BY <1>1, <3>2 DEF Boxes
      <4>2. PICK q \in Pids : Live(q) /\ child[q].box = b
        BY <2>1, <4>1 DEF Shares, SharesAreHeld
      <4> QED BY <1>1, <1>2, <4>2
    <3> QED BY <3>1, <3>2
  <2> QED BY <1>1, <2>1, <2>2, <2>3, <2>4 DEF Shares, SharesAreHeld
<1> QED BY <1>3, <1>4 DEF Shares

(* What the shares depend on.                                              *)
LEMMA SharesStay ==
    ASSUME IInv, Shares, UNCHANGED <<child, index>>,
           \A p \in Pids : Live(p)' <=> Live(p),
           Undisturbed' =>
               /\ Undisturbed /\ told' = {} /\ stage' # "replacing"
               /\ stage' = "reaped" => pid' \notin Entered'
               /\ stage' \in {"waiting", "reaped"} => index = Count
               /\ \A p \in Pids : proc'[p] # "zombie"
    PROVE  Shares'
BY DEF Shares, EndedHaveNothing, SharesAreHeld

LEMMA SharesPerish ==
    ASSUME IInv, Shares, NEW p \in Pids, Perish(p), ~Undisturbed'
    PROVE  Shares'
<1>1. \A q \in Pids : ~Live(q)' => child'[q] = NoChild
  BY DEF Perish, Live, Shares, EndedHaveNothing, IInv, TypeOK
<1> QED BY <1>1 DEF Shares, EndedHaveNothing, SharesAreHeld

LEMMA SharesRun == IInv /\ Shares /\ Run => Shares'
<1> SUFFICES ASSUME IInv, Shares, Run PROVE Shares'
  OBVIOUS
<1> USE DEF Undisturbed, Stopping, Stopped
<1>1. CASE Enter
  <2>1. index < Count \/ index = Count
    <3>1. index \in 0..Count
      BY DEF IInv, TypeOK
    <3> QED BY <3>1, CountAssumption
  <2>2. \A p \in Pids : Live(p)' <=> Live(p)
    BY <1>1 DEF Enter, Live
  <2> QED BY <1>1, <2>1, <2>2, SharesStay DEF Enter, Shares, SharesAreHeld
<1>2. CASE ForkFails
  <2>1. \A p \in Pids : Live(p)' <=> Live(p)
    BY <1>2 DEF ForkFails, Live
  <2> QED BY <1>2, <2>1, SharesStay DEF ForkFails, Stop, Shares, SharesAreHeld
<1>3. CASE Forget
  <2>1. \A p \in Pids : Live(p)' <=> Live(p)
    BY <1>3 DEF Forget, Live
  <2>2. Undisturbed => stage' \in Stopping
    BY <1>3 DEF Forget, Stop, Shares, SharesAreHeld
  <2>3. UNCHANGED <<child, index, deaths, signals>> /\ stage \notin Stopping
    BY <1>3 DEF Forget
  <2>4. ~Undisturbed'
    BY <2>2, <2>3
  <2> QED BY <2>1, <2>3, <2>4, SharesStay
<1>4. ASSUME NEW p \in Pids, Respawn(p) PROVE Shares'
  <2>1. ~Undisturbed
    BY <1>4 DEF Respawn, Shares, SharesAreHeld
  <2>2. ~Undisturbed'
    BY <1>4, <2>1 DEF Respawn, Fork
  <2>3. EndedHaveNothing'
    BY <1>4 DEF Respawn, Fork, Live, Shares, EndedHaveNothing, IInv, TypeOK
  <2> QED BY <2>2, <2>3 DEF Shares, SharesAreHeld
<1>5. ASSUME NEW p \in Pids, Reap(p) PROVE Shares'
  <2>1. \A q \in Pids : Live(q)' <=> Live(q)
    BY <1>5 DEF Reap, Live, IInv, TypeOK
  <2>2. Undisturbed' => Undisturbed
    BY <1>5 DEF Reap
  <2>3. ASSUME Undisturbed
        PROVE  pid' \notin Entered' /\ \A q \in Pids : proc'[q] # "zombie"
    <3>1. proc[p] = "stray"
      BY <1>5, <2>3 DEF Reap, Shares, SharesAreHeld
    <3>2. p \notin Entered
      BY <1>5, <3>1 DEF Reap, IInv, TableExact
    <3> QED BY <1>5, <2>3, <3>2 DEF Reap, Entered, Shares, SharesAreHeld, IInv, TypeOK
  <2> QED BY <1>5, <2>1, <2>2, <2>3, SharesStay DEF Reap, Shares, SharesAreHeld
<1> QED BY <1>1, <1>2, <1>3, <1>4, <1>5, SharesSpawn DEF Run

LEMMA SharesRest ==
    ASSUME IInv, Shares, NEW p \in Pids,
           \/ Kill(p) \/ WaitFor(p) \/ Drop(p)
           \/ Die(p) \/ SignalChild(p) \/ Handle(p) \/ Adopt(p)
    PROVE  Shares'
<1> USE DEF Undisturbed, Stopping, Stopped
<1>1. CASE Kill(p)
  <2>1. ~Undisturbed'
    BY <1>1 DEF Kill
  <2>2. CASE Perish(p)
    BY <2>1, <2>2, SharesPerish
  <2>3. CASE UNCHANGED <<proc, child>>
    <3>1. \A q \in Pids : Live(q)' <=> Live(q)
      BY <2>3 DEF Live
    <3> QED BY <1>1, <2>1, <2>3, <3>1, SharesStay DEF Kill
  <2> QED BY <1>1, <2>2, <2>3 DEF Kill
<1>2. CASE WaitFor(p) \/ Drop(p)
  <2>1. ~Undisturbed'
    BY <1>2 DEF WaitFor, Drop, parent
  <2>2. \A q \in Pids : Live(q)' <=> Live(q)
    BY <1>2 DEF WaitFor, Drop, Live, IInv, TypeOK
  <2> QED BY <1>2, <2>1, <2>2, SharesStay DEF WaitFor, Drop, parent
<1>3. CASE Die(p)
  <2>1. ~Undisturbed'
    <3>1. deaths \in 0..MaxDeaths /\ deaths' = deaths + 1
      BY <1>3 DEF Die, IInv, TypeOK
    <3>2. deaths' # 0
      BY <3>1, BoundAssumption
    <3> QED BY <3>2
  <2> QED BY <1>3, <2>1, SharesPerish DEF Die
<1>4. CASE SignalChild(p)
  <2>1. ~Undisturbed'
    <3>1. signals \in 0..MaxSignals /\ signals' = signals + 1
      BY <1>4 DEF SignalChild, IInv, TypeOK
    <3>2. signals' # 0
      BY <3>1, BoundAssumption
    <3> QED BY <3>2
  <2>2. \A q \in Pids : Live(q)' <=> Live(q)
    BY <1>4 DEF SignalChild, Live
  <2> QED BY <1>4, <2>1, <2>2, SharesStay DEF SignalChild, parent
<1>5. CASE Handle(p)
  <2>1. ~Undisturbed'
    BY <1>5 DEF Handle, parent, Shares, SharesAreHeld
  <2> QED BY <1>5, <2>1, SharesPerish DEF Handle
<1>6. CASE Adopt(p)
  <2>1. \A q \in Pids : Live(q)' <=> Live(q)
    BY <1>6 DEF Adopt, Free, Live, IInv, TypeOK
  <2>2. Undisturbed' => Undisturbed /\ \A q \in Pids : proc'[q] # "zombie"
    BY <1>6 DEF Adopt, parent, Shares, SharesAreHeld, IInv, TypeOK
  <2> QED BY <1>6, <2>1, <2>2, SharesStay
      DEF Adopt, Entered, parent, Shares, SharesAreHeld
<1> QED BY <1>1, <1>2, <1>3, <1>4, <1>5, <1>6

LEMMA SharesInductive == Spec => []Shares
<1>1. Init => Shares
  <2> SUFFICES ASSUME Init PROVE Shares
    OBVIOUS
  <2>1. EndedHaveNothing
    BY DEF Init, EndedHaveNothing
  <2>2. SharesAreHeld
    BY DEF Init, SharesAreHeld, Live, Boxes
  <2> QED BY <2>1, <2>2 DEF Shares
<1>2. IInv /\ Shares /\ [Next]_vars => Shares'
  <2> SUFFICES ASSUME IInv, Shares, [Next]_vars PROVE Shares'
    OBVIOUS
  <2>1. CASE Run
    BY <2>1, SharesRun
  <2>2. CASE AllKilled \/ End \/ Signal
    <3>1. \A q \in Pids : Live(q)' <=> Live(q)
      BY <2>2 DEF AllKilled, End, Signal, Stop, Live
    <3>2. ~Undisturbed' /\ UNCHANGED <<child, index>>
      BY <2>2 DEF AllKilled, End, Signal, Stop, Undisturbed, Stopping, Stopped
    <3> QED BY <3>1, <3>2, SharesStay
  <2>3. CASE UNCHANGED vars
    BY <2>3 DEF vars, parent, Shares, EndedHaveNothing, SharesAreHeld, Undisturbed,
                Live, Entered
  <2> QED BY <2>1, <2>2, <2>3, SharesRest DEF Next, StopStep
<1> QED BY <1>1, <1>2, Inductive, PTL DEF Spec

(* Until a child ends or is signalled, each job to resume is given to one  *)
(* child, whatever the number of jobs and of children.                     *)
THEOREM ResumedOnce ==
    ASSUME ResumeIsDistinct PROVE Spec => []EachIsResumedOnce
<1>1. IInv /\ Shares => EachIsResumedOnce
  <2> SUFFICES ASSUME IInv, Shares, stage = "waiting", deaths = 0, signals = 0,
                      NEW i \in 1..Len(Resume)
               PROVE  \E p \in Pids : {q \in Pids : Resume[i] \in Given(q)} = {p}
    BY DEF EachIsResumedOnce
  <2>1. Undisturbed /\ index = Count
    BY DEF Undisturbed, Stopping, Stopped, Shares, SharesAreHeld
  <2>2. PICK b \in Boxes : \A c \in Boxes : Resume[i] \in Share(c) <=> c = b
    BY DealtOnce
  <2>3. b < index
    BY <2>1, CountAssumption DEF Boxes
  <2>4. PICK p \in Pids : Live(p) /\ child[p].box = b
    BY <2>1, <2>3 DEF Shares, SharesAreHeld
  <2>5. ASSUME NEW q \in Pids, Live(q)
        PROVE  child[q].box \in Boxes /\ Given(q) = Share(child[q].box)
    BY <2>1, <2>5 DEF Shares, SharesAreHeld, IInv, ChildrenKnown, Given, Share
  <2>6. ASSUME NEW q \in Pids, ~Live(q) PROVE Given(q) = {}
    BY <2>6 DEF Shares, EndedHaveNothing, Given, NoChild
  <2>7. \A q \in Pids : Resume[i] \in Given(q) <=> q = p
    <3>1. \A q \in Pids : Live(q) /\ child[q].box = b => q = p
      BY <2>4, Unshared DEF SandboxesUnshared
    <3> QED BY <2>2, <2>4, <2>5, <2>6, <3>1
  <2> QED BY <2>7
<1> QED BY <1>1, Inductive, SharesInductive, PTL

-----------------------------------------------------------------------------
(* The worker implements Crew.                                             *)

Seated(b) == {p \in Pids : Live(p) /\ child[p].box = b}
Seats     == [b \in Boxes |-> Seated(b)]

LEMMA CrewForks ==
    ASSUME IInv, NEW p \in Pids, Spawn(p) \/ Respawn(p)
    PROVE  C!Next
<1> PICK b \in Boxes, js \in {Divide(Resume)[index], Resume} : Fork(p, b, js) /\ stage \notin Stopping
                           /\ \A q \in Entered : sandboxes[q] # b
  <2>1. CASE Spawn(p)
    <3>1. index \in Boxes
      BY <2>1, CountAssumption DEF Spawn, Boxes, IInv, TypeOK
    <3>2. \A q \in Entered : sandboxes[q] # index
      BY <3>1, NullAssumption DEF IInv, TypeOK, TableExact, Entered, Boxes
    <3> QED BY <2>1, <3>1, <3>2 DEF Spawn, Stopping, Stopped
  <2>2. CASE Respawn(p)
    BY <2>2 DEF Respawn, IInv, TableExact, Stopping, Stopped
  <2> QED BY <2>1, <2>2
<1>1. \A q \in Pids : Live(q) => q # p /\ child[q].box # b
  <2>1. ~(pid \in Pids /\ Live(pid))
    BY NullAssumption DEF Spawn, Respawn, InHand, Live, IInv
  <2> QED BY <2>1, NullAssumption
      DEF Fork, Free, Live, ChildrenKnown, Entered, IInv, Boxes
<1>2. Seated(b) = {} /\ \A c \in Boxes : p \notin Seated(c)
  BY <1>1 DEF Seated
<1>3. \A c \in Boxes : Seated(c)' = IF c = b THEN {p} ELSE Seated(c)
  BY <1>1 DEF Seated, Fork, Live, IInv, TypeOK
<1>4. stage' \notin Stopping
  BY DEF Fork, Stopping, Stopped
<1>5. Seats[b] = {} /\ (\A c \in Boxes : p \notin Seats[c]) /\ stage \notin Stopping
  BY <1>2 DEF Seats
<1>6. Seats' = [Seats EXCEPT ![b] = {p}]
  BY <1>3 DEF Seats
<1>7. C!Sit(b, p)
  BY <1>4, <1>5, <1>6 DEF C!Sit, C!Seats, Seats, Seated, Boxes
<1> QED BY <1>7 DEF C!Next, C!Seats, Boxes

(* A child's end leaves its seat empty, since it was alone there.          *)
LEMMA CrewEnds ==
    ASSUME IInv, NEW p \in Pids, Perish(p), Live(p), UNCHANGED stage
    PROVE  C!Next
<1>1. PICK b \in Boxes : child[p].box = b
  BY DEF IInv, ChildrenKnown
<1>2. Seated(b) = {p}
  BY <1>1, Unshared DEF SandboxesUnshared, Seated
<1>3. \A c \in Boxes : Seated(c)' = IF c = b THEN {} ELSE Seated(c)
  BY <1>2 DEF Seated, Perish, Live, IInv, TypeOK
<1>4. (stage \in Stopping)' <=> (stage \in Stopping)
  BY DEF Stopping, Stopped
<1>5. Seats[b] # {} /\ Seats' = [Seats EXCEPT ![b] = {}]
  BY <1>1, <1>2, <1>3 DEF Seats
<1>6. C!Leave(b)
  BY <1>4, <1>5 DEF C!Leave, Seats, Seated
<1> QED BY <1>1, <1>6 DEF C!Next, C!Seats, Boxes

LEMMA CrewStutters ==
    ASSUME UNCHANGED child, \A p \in Pids : Live(p)' <=> Live(p),
           (stage \in Stopping)' <=> (stage \in Stopping)
    PROVE  UNCHANGED C!vars
<1>1. Seats' = Seats
  BY DEF Seats, Seated
<1>2. (stage \in Stopping)' = (stage \in Stopping)
  OBVIOUS
<1> QED BY <1>1, <1>2 DEF C!vars, Seats, Seated

LEMMA CrewStep == IInv /\ [Next]_vars => [C!Next]_C!vars
<1> SUFFICES ASSUME IInv, [Next]_vars PROVE [C!Next]_C!vars
  OBVIOUS
<1> USE DEF Live, Stopping, Stopped
<1>1. ASSUME UNCHANGED <<proc, child>>, (stage \in Stopping)' <=> (stage \in Stopping)
      PROVE  UNCHANGED C!vars
  BY <1>1, CrewStutters
<1>2. ASSUME UNCHANGED <<proc, child>>, (stage \in Stopping)' PROVE C!Next
  BY <1>2 DEF C!Next, C!Close
<1>3. ASSUME NEW p \in Pids, proc' = [proc EXCEPT ![p] = "free"], ~Live(p),
             UNCHANGED child, (stage \in Stopping)' <=> (stage \in Stopping)
      PROVE  UNCHANGED C!vars
  <2>1. \A q \in Pids : Live(q)' <=> Live(q)
    BY <1>3 DEF IInv, TypeOK
  <2> QED BY <1>3, <2>1, CrewStutters
<1>4. CASE Run
  <2>1. CASE Enter
    BY <1>1, <2>1 DEF Enter
  <2>2. CASE ForkFails
    BY <1>2, <2>2 DEF ForkFails, Stop
  <2>3. CASE Forget
    BY <1>1, <1>2, <2>3 DEF Forget, Stop
  <2>4. ASSUME NEW p \in Pids, Spawn(p) \/ Respawn(p) PROVE C!Next
    BY <2>4, CrewForks
  <2>5. ASSUME NEW p \in Pids, Reap(p) PROVE UNCHANGED C!vars
    BY <1>3, <2>5 DEF Reap
  <2> QED BY <1>4, <2>1, <2>2, <2>3, <2>4, <2>5 DEF Run
<1>5. CASE AllKilled \/ End
  BY <1>1, <1>5 DEF AllKilled, End
<1>6. CASE Signal
  BY <1>2, <1>6 DEF Signal, Stop
<1>7. ASSUME NEW p \in Pids, Kill(p) PROVE [C!Next]_C!vars
  BY <1>1, <1>7, CrewEnds DEF Kill
<1>8. ASSUME NEW p \in Pids, WaitFor(p) PROVE UNCHANGED C!vars
  BY <1>3, <1>8 DEF WaitFor, parent
<1>9. ASSUME NEW p \in Pids, Drop(p) \/ SignalChild(p) PROVE UNCHANGED C!vars
  BY <1>1, <1>9 DEF Drop, SignalChild, parent
<1>10. ASSUME NEW p \in Pids, Die(p) \/ Handle(p) PROVE C!Next
  BY <1>10, CrewEnds DEF Die, Handle, parent
<1>11. ASSUME NEW p \in Pids, Adopt(p) PROVE UNCHANGED C!vars
  <2>1. \A q \in Pids : Live(q)' <=> Live(q)
    BY <1>11 DEF Adopt, Free, IInv, TypeOK
  <2> QED BY <1>11, <2>1, CrewStutters DEF Adopt, parent
<1>12. CASE UNCHANGED vars
  BY <1>1, <1>12 DEF vars, parent
<1> QED BY <1>4, <1>5, <1>6, <1>7, <1>8, <1>9, <1>10, <1>11, <1>12
    DEF Next, StopStep

(* For any number of children and any deaths and signals, the worker does  *)
(* with its children nothing that Crew does not: one child in a seat, and  *)
(* none hired any more once it stops.  That an empty seat is taken again   *)
(* needs fairness, and is checked on instances only.                       *)
THEOREM CrewImplemented == Spec => C!Spec
<1>1. Init => C!Init
  BY DEF Init, C!Init, C!Seats, Live, Boxes, Stopping, Stopped
<1> QED BY <1>1, CrewStep, Inductive, PTL DEF Spec, C!Spec
=============================================================================
