------------------------- MODULE GeventWorker_proofs -------------------------
(***************************************************************************)
(* Proofs about GeventWorker, for any jobs, runs and sandboxes: there are  *)
(* as many sandboxes as runs that need one, and no two share one; and the  *)
(* only run of a job is stopped when the job is lost.                      *)
(***************************************************************************)
EXTENDS GeventWorker, FiniteSetTheorems, TLAPS

USE DEF Others

-----------------------------------------------------------------------------
(* The inductive invariant.                                                *)

(* The pool holds no more than it has room for, also when the job in hand  *)
(* joins it; each sandbox is free or has a run at work in it.              *)
PoolBounded ==
    /\ IsFiniteSet(Pooled)
    /\ Cardinality(Pooled) <= Cardinality(Sandboxes)
    /\ main = "popped" => Cardinality(Pooled) < Cardinality(Sandboxes)
    /\ Cardinality(free) + Cardinality(Working) = Cardinality(Sandboxes)

SandboxesApart ==
    /\ \A g, h \in Greenlets :
          g # h /\ sandbox[g] = sandbox[h] => sandbox[g] = NoSandbox
    /\ \A g \in Greenlets : sandbox[g] \notin free

(* The only run of its job is the one the map has for it.                  *)
LoneRunsAreMapped ==
    /\ \A g \in told : stage[g] \notin {"unborn", "popped"}
    /\ \A g \in alone : stage[g] # "unborn"
    /\ \A g \in alone \cap Live, h \in Live : job[g] = job[h] => g = h
    /\ \A g \in alone \cap Pooled : entry[job[g]] = g

(* A run that has a job is, or was, a run of that job.                     *)
LeasesAreRuns ==
    \A j \in Jobs : lease[j] \in Greenlets =>
        job[lease[j]] = j /\ stage[lease[j]] # "unborn"

IInv ==
    /\ TypeOK
    /\ PoolBounded
    /\ SandboxesApart
    /\ LeasesAreRuns
    /\ LoneRunsAreMapped
    /\ LoneRunsAreStopped

-----------------------------------------------------------------------------
(* Type correctness.                                                       *)

LEMMA TypeInit == Init => TypeOK
<1> SUFFICES ASSUME Init PROVE TypeOK
  OBVIOUS
<1>1. messages \in Seq(Jobs)
  BY DEF Init
<1>2. lease \in [Jobs -> Greenlets \cup Others] /\ shutdown \in BOOLEAN
  BY DEF Init
<1>3. \A g \in Greenlets : stage[g] = "unborn" /\ sandbox[g] \notin Sandboxes
  BY ConstantsAssumption DEF Init
<1> QED BY <1>1, <1>2, <1>3 DEF Init, TypeOK

LEMMA TypeScripts == TypeOK /\ Scripts => TypeOK'
<1> SUFFICES ASSUME TypeOK, Scripts PROVE TypeOK'
  OBVIOUS
<1> PICK j \in Jobs : TakeAway(j) \/ Expire(j) \/ HandOver(j) \/ Meanwhile(j)
  BY DEF Scripts
<1>1. CASE TakeAway(j)
  BY <1>1 DEF TakeAway, Publish, Pooled, Started, Working, TypeOK, loop, runs
<1>2. CASE Expire(j)
  BY <1>2 DEF Expire, Publish, Pooled, Started, Working, TypeOK, loop, runs
<1>3. CASE HandOver(j)
  BY <1>3 DEF HandOver, TypeOK, loop, runs, aux
<1>4. CASE Meanwhile(j)
  BY <1>4 DEF Meanwhile, TypeOK, loop, runs, aux
<1> QED BY <1>1, <1>2, <1>3, <1>4

LEMMA TypeTake ==
    ASSUME TypeOK, NEW g \in Greenlets, NEW j \in Jobs, Take(g, j),
           notified' \in SUBSET Jobs, resume' \in SUBSET Jobs
    PROVE  TypeOK'
BY ConstantsAssumption DEF Take, Live, Pooled, Started, Working, TypeOK

LEMMA TypeMain == TypeOK /\ Main => TypeOK'
<1> SUFFICES ASSUME TypeOK, Main PROVE TypeOK'
  OBVIOUS
<1>1. CASE Check
  BY <1>1 DEF Check, TypeOK, store, runs, aux
<1>2. CASE Sleep
  BY <1>2 DEF Sleep, TypeOK, store, runs, aux
<1>3. CASE Join
  BY <1>3 DEF Join, TypeOK, store, runs, aux
<1>4. ASSUME NEW j \in Jobs, CannotResume(j) PROVE TypeOK'
  BY <1>4 DEF CannotResume, TypeOK, store, runs, aux
<1>5. ASSUME NEW g \in Greenlets, Start(g) PROVE TypeOK'
  BY <1>5 DEF Start, TypeOK, store, aux
<1>6. ASSUME NEW g \in Greenlets, ImportFails(g) PROVE TypeOK'
  BY <1>6 DEF ImportFails, TypeOK, store, aux
<1>7. ASSUME NEW g \in Greenlets, NEW j \in Jobs, Resume(g, j) PROVE TypeOK'
  BY <1>7, TypeTake DEF Resume, TypeOK
<1>8. ASSUME NEW g \in Greenlets, NEW j \in Jobs, Pop(g, j) PROVE TypeOK'
  BY <1>8, TypeTake DEF Pop, TypeOK
<1> QED BY <1>1, <1>2, <1>3, <1>4, <1>5, <1>6, <1>7, <1>8 DEF Main

LEMMA TypeRun ==
    ASSUME TypeOK, NEW g \in Greenlets, Begin(g) \/ Finish(g) \/ Leave(g)
    PROVE  TypeOK'
<1>1. CASE Begin(g)
  BY <1>1, ConstantsAssumption DEF Begin, TypeOK, store, loop, aux
<1>2. CASE Finish(g)
  BY <1>2 DEF Finish, TypeOK, loop, runs, aux
<1>3. CASE Leave(g)
  BY <1>3, ConstantsAssumption DEF Leave, TypeOK, store, loop, aux
<1> QED BY <1>1, <1>2, <1>3

LEMMA TypeHandle == TypeOK /\ Handle => TypeOK'
<1> SUFFICES ASSUME TypeOK, Handle PROVE TypeOK'
  OBVIOUS
<1> DEFINE g == entry[Head(messages)]
<1>1. Head(messages) \in Jobs /\ messages' \in Seq(Jobs)
  BY DEF Handle, TypeOK
<1>2. CASE g = NoGreenlet
  BY <1>1, <1>2 DEF Handle, TypeOK, loop, aux
<1>3. CASE g # NoGreenlet
  <2>1. g \in Greenlets
    BY <1>1, <1>3 DEF TypeOK
  <2> QED BY <1>1, <1>3, <2>1 DEF Handle, Kill, TypeOK, loop, aux
<1> QED BY <1>2, <1>3

LEMMA TypeNext == TypeOK /\ [Next]_vars => TypeOK'
<1> SUFFICES ASSUME TypeOK, [Next]_vars PROVE TypeOK'
  OBVIOUS
<1>1. CASE Stop
  BY <1>1 DEF Stop, TypeOK, store, runs, aux
<1>2. CASE UNCHANGED vars
  BY <1>2 DEF vars, TypeOK
<1> QED BY <1>1, <1>2, TypeScripts, TypeMain, TypeRun, TypeHandle DEF Next

(* Every variable keeps values of its kind, and a run has a sandbox        *)
(* exactly while it works: process takes it and gives it back.             *)
THEOREM TypeCorrect == Spec => []TypeOK
<1>1. Init => TypeOK
  BY TypeInit
<1>2. TypeOK /\ [Next]_vars => TypeOK'
  BY TypeNext
<1> QED BY <1>1, <1>2, PTL DEF Spec
-----------------------------------------------------------------------------
(* Sandboxes.                                                              *)

(* Steps that move no run leave the sets of runs as they are.              *)
LEMMA SameStages ==
    ASSUME UNCHANGED stage
    PROVE  /\ Started' = Started /\ Working' = Working
           /\ Pooled' = Pooled /\ Live' = Live
BY DEF Started, Working, Pooled, Live

(* Runs that start do not outnumber the free sandboxes: what the bound of  *)
(* the pool gives them, with the sandboxes of those at work.               *)
LEMMA EnoughFree ==
    ASSUME TypeOK, PoolBounded
    PROVE  Cardinality(Started) <= Cardinality(free)
<1>1. IsFiniteSet(Started) /\ IsFiniteSet(Working) /\ IsFiniteSet(free)
  BY FS_Subset, PoolAssumption DEF PoolBounded, Pooled, TypeOK
<1>2. Started \cap Working = {}
  BY DEF Started, Working
<1>3. Cardinality(Pooled) = Cardinality(Started) + Cardinality(Working)
  <2>1. Cardinality(Pooled) = Cardinality(Started) + Cardinality(Working)
                                - Cardinality(Started \cap Working)
    BY <1>1, FS_Union DEF Pooled
  <2>2. Cardinality(Started \cap Working) = 0
    BY <1>2, FS_EmptySet
  <2>3. Cardinality(Started) \in Nat /\ Cardinality(Working) \in Nat
    BY <1>1, FS_CardinalityType
  <2> QED BY <2>1, <2>2, <2>3
<1>4. /\ Cardinality(Started) \in Nat /\ Cardinality(Working) \in Nat
      /\ Cardinality(free) \in Nat /\ Cardinality(Sandboxes) \in Nat
  BY <1>1, PoolAssumption, FS_CardinalityType
<1> QED BY <1>3, <1>4 DEF PoolBounded

(* No step that leaves runs and sandboxes alone, and takes no job in hand, *)
(* matters to the pool.                                                    *)
LEMMA PoolUnchanged ==
    ASSUME PoolBounded, UNCHANGED <<stage, free>>,
           main' = "popped" => main = "popped"
    PROVE  PoolBounded'
BY SameStages DEF PoolBounded

(* Runs that leave the pool without having begun make room.                *)
LEMMA PoolShrinks ==
    ASSUME TypeOK, PoolBounded, NEW g \in Greenlets, g \notin Working,
           stage' = [stage EXCEPT ![g] = "over"], UNCHANGED free,
           main' = "popped" => main = "popped"
    PROVE  PoolBounded'
<1>1. Pooled' = Pooled \ {g} /\ Working' = Working
  BY DEF Pooled, Started, Working, TypeOK
<1>2. IsFiniteSet(Pooled') /\ Cardinality(Pooled') <= Cardinality(Pooled)
  BY <1>1, FS_Subset DEF PoolBounded
<1>3. Cardinality(Pooled) \in Nat /\ Cardinality(Pooled') \in Nat
      /\ Cardinality(Sandboxes) \in Nat
  BY <1>2, FS_CardinalityType, PoolAssumption DEF PoolBounded
<1> QED BY <1>1, <1>2, <1>3 DEF PoolBounded

LEMMA PoolInit == Init => PoolBounded
<1> SUFFICES ASSUME Init PROVE PoolBounded
  OBVIOUS
<1>1. Pooled = {} /\ Working = {}
  BY DEF Init, Pooled, Started, Working
<1>2. IsFiniteSet({}) /\ Cardinality({}) = 0 /\ Cardinality(Sandboxes) \in Nat
  BY FS_EmptySet, FS_CardinalityType, PoolAssumption
<1> QED BY <1>1, <1>2 DEF PoolBounded, Init

LEMMA PoolTake ==
    ASSUME TypeOK, PoolBounded, Room, NEW g \in Greenlets, NEW j \in Jobs, Take(g, j)
    PROVE  PoolBounded'
<1>1. g \notin Pooled /\ g \notin Working
  BY DEF Take, Pooled, Started, Working
<1>2. Pooled' = Pooled /\ Working' = Working
  BY <1>1 DEF Take, Live, Pooled, Started, Working, TypeOK
<1> QED BY <1>2 DEF PoolBounded, Room, Take

LEMMA PoolStart ==
    ASSUME TypeOK, PoolBounded, NEW g \in Greenlets, Start(g)
    PROVE  PoolBounded'
<1>1. Pooled' = Pooled \cup {g} /\ Working' = Working
  <2>1. g \notin Working
    BY DEF Start, Working
  <2> QED BY <2>1 DEF Start, Pooled, Started, Working, TypeOK
<1>2. g \notin Pooled
  BY DEF Start, Pooled, Started, Working
<1>3. IsFiniteSet(Pooled') /\ Cardinality(Pooled') = Cardinality(Pooled) + 1
  BY <1>1, <1>2, FS_AddElement DEF PoolBounded
<1>4. Cardinality(Pooled) \in Nat /\ Cardinality(Sandboxes) \in Nat
  BY FS_CardinalityType, PoolAssumption DEF PoolBounded
<1> QED BY <1>1, <1>3, <1>4 DEF PoolBounded, Start

LEMMA PoolBegin ==
    ASSUME TypeOK, PoolBounded, NEW g \in Greenlets, Begin(g)
    PROVE  PoolBounded'
<1> PICK s \in free : free' = free \ {s}
  BY DEF Begin
<1>1. Pooled' = Pooled /\ Working' = Working \cup {g}
  <2>1. g \in Pooled
    BY DEF Begin, Pooled, Started
  <2> QED BY <2>1 DEF Begin, Pooled, Started, Working, TypeOK
<1>2. g \notin Working
  BY DEF Begin, Working
<1>3. IsFiniteSet(Working) /\ IsFiniteSet(free)
  BY FS_Subset, PoolAssumption DEF PoolBounded, Pooled, TypeOK
<1>4. Cardinality(Working') = Cardinality(Working) + 1
  BY <1>1, <1>2, <1>3, FS_AddElement
<1>5. Cardinality(free') = Cardinality(free) - 1
  BY <1>3, FS_RemoveElement
<1>6. Cardinality(Working) \in Nat /\ Cardinality(free) \in Nat
  BY <1>3, FS_CardinalityType
<1> QED BY <1>1, <1>4, <1>5, <1>6 DEF PoolBounded, Begin, loop

LEMMA PoolLeave ==
    ASSUME TypeOK, PoolBounded, SandboxesApart, NEW g \in Greenlets, Leave(g)
    PROVE  PoolBounded'
<1>1. Pooled' = Pooled \ {g} /\ Working' = Working \ {g}
  BY DEF Leave, Pooled, Started, Working, TypeOK
<1>2. g \in Working /\ g \in Pooled
  BY DEF Leave, Working, Pooled
<1>3. IsFiniteSet(Working) /\ IsFiniteSet(free)
  BY FS_Subset, PoolAssumption DEF PoolBounded, Pooled, TypeOK
<1>4. Cardinality(Working') = Cardinality(Working) - 1
  BY <1>1, <1>2, <1>3, FS_RemoveElement
<1>5. Cardinality(free') = Cardinality(free) + 1
  BY <1>3, FS_AddElement DEF SandboxesApart, Leave
<1>6. IsFiniteSet(Pooled') /\ Cardinality(Pooled') = Cardinality(Pooled) - 1
  BY <1>1, <1>2, FS_RemoveElement DEF PoolBounded
<1>7. /\ Cardinality(Working) \in Nat /\ Cardinality(free) \in Nat
      /\ Cardinality(Pooled) \in Nat /\ Cardinality(Sandboxes) \in Nat
  BY <1>3, FS_CardinalityType, PoolAssumption DEF PoolBounded
<1> QED BY <1>4, <1>5, <1>6, <1>7 DEF PoolBounded, Leave, loop

LEMMA PoolHandle ==
    ASSUME TypeOK, PoolBounded, Handle
    PROVE  PoolBounded'
<1> DEFINE g == entry[Head(messages)]
<1>1. g \in Greenlets \cup {NoGreenlet}
  BY DEF Handle, TypeOK
<1>2. CASE g # NoGreenlet /\ stage[g] = "started"
  <2>1. g \in Greenlets /\ g \notin Working
    BY <1>1, <1>2 DEF Working
  <2>2. stage' = [stage EXCEPT ![g] = "over"] /\ UNCHANGED free /\ UNCHANGED main
    BY <1>2 DEF Handle, Kill, loop
  <2> QED BY <2>1, <2>2, PoolShrinks
<1>3. CASE ~(g # NoGreenlet /\ stage[g] = "started")
  BY <1>3, PoolUnchanged DEF Handle, Kill, loop
<1> QED BY <1>2, <1>3

LEMMA PoolNext == TypeOK /\ PoolBounded /\ SandboxesApart /\ [Next]_vars => PoolBounded'
<1> SUFFICES ASSUME TypeOK, PoolBounded, SandboxesApart, [Next]_vars
             PROVE  PoolBounded'
  OBVIOUS
<1>1. CASE Scripts
  <2>1. UNCHANGED <<stage, free, main>>
    BY <1>1 DEF Scripts, TakeAway, Expire, HandOver, Meanwhile, loop, runs
  <2> QED BY <2>1, PoolUnchanged
<1>2. CASE Stop \/ UNCHANGED vars
  BY <1>2, PoolUnchanged DEF Stop, vars, runs
<1>3. CASE Check \/ Sleep \/ Join
  BY <1>3, PoolUnchanged DEF Check, Sleep, Join, runs
<1>4. ASSUME NEW j \in Jobs, CannotResume(j) PROVE PoolBounded'
  BY <1>4, PoolUnchanged DEF CannotResume, runs
<1>5. ASSUME NEW g \in Greenlets, ImportFails(g) PROVE PoolBounded'
  <2>1. g \notin Working
    BY <1>5 DEF ImportFails, Working
  <2> QED BY <1>5, <2>1, PoolShrinks DEF ImportFails
<1>6. ASSUME NEW g \in Greenlets, NEW j \in Jobs, Resume(g, j) \/ Pop(g, j)
      PROVE  PoolBounded'
  BY <1>6, PoolTake DEF Resume, Pop
<1>7. ASSUME NEW g \in Greenlets, Finish(g) PROVE PoolBounded'
  BY <1>7, PoolUnchanged DEF Finish, loop, runs
<1> QED BY <1>1, <1>2, <1>3, <1>4, <1>5, <1>6, <1>7, PoolStart, PoolBegin,
           PoolLeave, PoolHandle DEF Next, Main

LEMMA ApartNext == TypeOK /\ SandboxesApart /\ [Next]_vars => SandboxesApart'
<1> SUFFICES ASSUME TypeOK, SandboxesApart, [Next]_vars
             PROVE  SandboxesApart'
  OBVIOUS
<1>1. CASE UNCHANGED <<sandbox, free>>
  BY <1>1 DEF SandboxesApart
<1>2. ASSUME NEW g \in Greenlets, Begin(g) PROVE SandboxesApart'
  BY <1>2, ConstantsAssumption DEF Begin, SandboxesApart, TypeOK
<1>3. ASSUME NEW g \in Greenlets, Leave(g) PROVE SandboxesApart'
  BY <1>3, ConstantsAssumption DEF Leave, SandboxesApart, TypeOK
<1>4. Scripts => UNCHANGED <<sandbox, free>>
  BY DEF Scripts, TakeAway, Expire, HandOver, Meanwhile, runs
<1>5. Main => UNCHANGED <<sandbox, free>>
  BY DEF Main, Check, Sleep, Join, CannotResume, Start, ImportFails, Resume,
         Pop, Take, runs
<1>6. Stop \/ Handle \/ UNCHANGED vars => UNCHANGED <<sandbox, free>>
  BY DEF Stop, Handle, vars, runs
<1>7. \A g \in Greenlets : Finish(g) => UNCHANGED <<sandbox, free>>
  BY DEF Finish, runs
<1> QED BY <1>1, <1>2, <1>3, <1>4, <1>5, <1>6, <1>7 DEF Next

-----------------------------------------------------------------------------
(* The only run of a job.                                                  *)

(* Steps that neither move runs nor write the map.                         *)
LEMMA MappedUnchanged ==
    ASSUME LoneRunsAreMapped, UNCHANGED <<job, stage, entry, alone>>,
           told' \subseteq told \cup Pooled
    PROVE  LoneRunsAreMapped'
<1>1. \A g \in Pooled : stage[g] \notin {"unborn", "popped"}
  BY DEF Pooled, Started, Working
<1> QED BY <1>1, SameStages DEF LoneRunsAreMapped

(* A run that is over, or has begun to work.                               *)
LEMMA MappedMoved ==
    ASSUME TypeOK, LoneRunsAreMapped, NEW g \in Greenlets,
           NEW to \in {"working", "over"}, stage' = [stage EXCEPT ![g] = to],
           to = "working" => g \in Pooled,
           UNCHANGED <<job, entry, aux>>
    PROVE  LoneRunsAreMapped'
<1>1. Live' \subseteq Live /\ Pooled' \subseteq Pooled
  BY DEF Live, Pooled, Started, Working, TypeOK
<1>2. /\ \A h \in told : stage'[h] \notin {"unborn", "popped"}
      /\ \A h \in alone : stage'[h] # "unborn"
  BY DEF LoneRunsAreMapped, TypeOK
<1> QED BY <1>1, <1>2 DEF LoneRunsAreMapped, aux

LEMMA MappedTake ==
    ASSUME TypeOK, LoneRunsAreMapped, NEW g \in Greenlets, NEW j \in Jobs, Take(g, j)
    PROVE  LoneRunsAreMapped'
<1> DEFINE beside == {h \in Live : job[h] = j}
<1>1. g \notin Live /\ g \notin Pooled /\ g \notin told
  BY DEF Take, Live, Pooled, Started, Working, LoneRunsAreMapped
<1>2. Live' = Live \cup {g} /\ Pooled' = Pooled
  BY <1>1 DEF Take, Live, Pooled, Started, Working, TypeOK
<1>3. job'[g] = j /\ \A h \in Live : job'[h] = job[h]
  BY <1>1 DEF Take, TypeOK
<1>4. /\ \A h \in told' : stage'[h] \notin {"unborn", "popped"}
      /\ \A h \in alone' : stage'[h] # "unborn"
  BY <1>1 DEF Take, LoneRunsAreMapped, TypeOK
<1>5. \A h \in alone' \cap Live', k \in Live' : job'[h] = job'[k] => h = k
  <2> SUFFICES ASSUME NEW h \in alone' \cap Live', NEW k \in Live',
                      job'[h] = job'[k]
               PROVE  h = k
    OBVIOUS
  <2>1. CASE beside = {}
    BY <1>2, <1>3, <2>1 DEF Take, LoneRunsAreMapped
  <2>2. CASE beside # {}
    <3>1. alone' = alone \ beside
      BY <2>2 DEF Take
    <3>2. CASE h \in Live
      BY <1>2, <1>3, <3>1, <3>2 DEF LoneRunsAreMapped
    <3>3. CASE h = g
      <4>1. g \notin alone
        BY DEF Take, LoneRunsAreMapped
      <4> QED BY <3>1, <3>3, <4>1
    <3> QED BY <1>2, <3>2, <3>3
  <2> QED BY <2>1, <2>2
<1>6. \A h \in alone' \cap Pooled' : entry'[job'[h]] = h
  BY <1>1, <1>2, <1>3 DEF Take, LoneRunsAreMapped, Live
<1> QED BY <1>4, <1>5, <1>6 DEF LoneRunsAreMapped

LEMMA MappedStart ==
    ASSUME TypeOK, LoneRunsAreMapped, NEW g \in Greenlets, Start(g)
    PROVE  LoneRunsAreMapped'
<1>1. g \in Live /\ g \notin Pooled
  BY DEF Start, Live, Pooled, Started, Working
<1>2. Live' = Live /\ Pooled' = Pooled \cup {g}
  BY DEF Start, Live, Pooled, Started, Working, TypeOK
<1>3. /\ \A h \in told' : stage'[h] \notin {"unborn", "popped"}
      /\ \A h \in alone' : stage'[h] # "unborn"
  BY DEF Start, LoneRunsAreMapped, TypeOK, aux
<1>4. \A h \in alone' \cap Live', k \in Live' : job'[h] = job'[k] => h = k
  BY <1>2 DEF Start, LoneRunsAreMapped, aux
<1>5. \A h \in alone' \cap Pooled' : entry'[job'[h]] = h
  <2> SUFFICES ASSUME NEW h \in alone, h \in Pooled \cup {g}
               PROVE  entry'[job[h]] = h
    BY <1>2 DEF Start, aux
  <2>1. job[g] \in Jobs /\ entry'[job[g]] = g
    BY DEF Start, TypeOK
  <2>2. CASE h # g
    <3>1. job[h] # job[g]
      BY <1>1, <2>2 DEF LoneRunsAreMapped, Live
    <3>2. job[h] \in Jobs /\ h \in Pooled
      BY <2>2 DEF Pooled, Started, Working, TypeOK
    <3> QED BY <3>1, <3>2 DEF Start, LoneRunsAreMapped, TypeOK
  <2> QED BY <2>1, <2>2
<1> QED BY <1>3, <1>4, <1>5 DEF LoneRunsAreMapped

(* A run that leaves clears the entry of its job, which is that of no      *)
(* other lone run.                                                         *)
LEMMA MappedLeave ==
    ASSUME TypeOK, LoneRunsAreMapped, NEW g \in Greenlets, Leave(g)
    PROVE  LoneRunsAreMapped'
<1>1. g \in Live /\ Live' = Live \ {g} /\ Pooled' = Pooled \ {g}
  BY DEF Leave, Live, Pooled, Started, Working, TypeOK
<1>2. /\ \A h \in told' : stage'[h] \notin {"unborn", "popped"}
      /\ \A h \in alone' : stage'[h] # "unborn"
  BY DEF Leave, LoneRunsAreMapped, TypeOK, aux
<1>3. \A h \in alone' \cap Pooled' : entry'[job'[h]] = h
  <2> SUFFICES ASSUME NEW h \in alone \cap Pooled, h # g
               PROVE  entry'[job[h]] = h
    BY <1>1 DEF Leave, aux
  <2>1. job[h] # job[g]
    BY <1>1 DEF LoneRunsAreMapped, Live
  <2>2. job[h] \in Jobs
    BY DEF Pooled, Started, Working, TypeOK
  <2> QED BY <2>1, <2>2 DEF Leave, LoneRunsAreMapped, TypeOK
<1> QED BY <1>1, <1>2, <1>3 DEF LoneRunsAreMapped, Leave, aux

LEMMA MappedHandle ==
    ASSUME TypeOK, LoneRunsAreMapped, Handle
    PROVE  LoneRunsAreMapped'
<1> DEFINE g == entry[Head(messages)]
<1>1. UNCHANGED <<job, entry, aux>>
  BY DEF Handle
<1>2. CASE g # NoGreenlet /\ stage[g] = "started"
  <2>1. g \in Greenlets
    BY <1>2 DEF Handle, TypeOK
  <2>2. stage' = [stage EXCEPT ![g] = "over"]
    BY <1>2 DEF Handle, Kill
  <2> QED BY <1>1, <2>1, <2>2, MappedMoved
<1>3. CASE ~(g # NoGreenlet /\ stage[g] = "started")
  <2>1. UNCHANGED stage
    BY <1>3 DEF Handle, Kill
  <2> QED BY <1>1, <2>1, MappedUnchanged DEF aux
<1> QED BY <1>2, <1>3

LEMMA MappedNext == TypeOK /\ LoneRunsAreMapped /\ [Next]_vars => LoneRunsAreMapped'
<1> SUFFICES ASSUME TypeOK, LoneRunsAreMapped, [Next]_vars
             PROVE  LoneRunsAreMapped'
  OBVIOUS
<1>1. CASE Scripts
  <2> PICK j \in Jobs : TakeAway(j) \/ Expire(j) \/ HandOver(j) \/ Meanwhile(j)
    BY <1>1 DEF Scripts
  <2>1. UNCHANGED <<job, stage, entry, alone>> /\ told' \subseteq told \cup Pooled
    BY DEF TakeAway, Expire, HandOver, Meanwhile, Publish, runs, aux
  <2> QED BY <2>1, MappedUnchanged
<1>2. CASE Stop \/ UNCHANGED vars
  BY <1>2, MappedUnchanged DEF Stop, vars, runs, aux
<1>3. CASE Check \/ Sleep \/ Join
  BY <1>3, MappedUnchanged DEF Check, Sleep, Join, runs, aux
<1>4. ASSUME NEW j \in Jobs, CannotResume(j) PROVE LoneRunsAreMapped'
  BY <1>4, MappedUnchanged DEF CannotResume, runs, aux
<1>5. ASSUME NEW g \in Greenlets, ImportFails(g) PROVE LoneRunsAreMapped'
  BY <1>5, MappedMoved DEF ImportFails
<1>6. ASSUME NEW g \in Greenlets, NEW j \in Jobs, Resume(g, j) \/ Pop(g, j)
      PROVE  LoneRunsAreMapped'
  BY <1>6, MappedTake DEF Resume, Pop
<1>7. ASSUME NEW g \in Greenlets, Finish(g) PROVE LoneRunsAreMapped'
  BY <1>7, MappedUnchanged DEF Finish, runs, aux
<1>8. ASSUME NEW g \in Greenlets, Begin(g) PROVE LoneRunsAreMapped'
  <2>1. g \in Pooled
    BY <1>8 DEF Begin, Pooled, Started
  <2> QED BY <1>8, <2>1, MappedMoved DEF Begin
<1> QED BY <1>1, <1>2, <1>3, <1>4, <1>5, <1>6, <1>7, <1>8, MappedStart,
           MappedLeave, MappedHandle DEF Next, Main

(* No run of a job becomes another's, and the scripts give a job away or   *)
(* to the run that was taken for it.                                       *)
LEMMA LeasesNext == TypeOK /\ LeasesAreRuns /\ [Next]_vars => LeasesAreRuns'
<1> SUFFICES ASSUME TypeOK, LeasesAreRuns, [Next]_vars
             PROVE  LeasesAreRuns'
  OBVIOUS
<1> DEFINE Born == \A g \in Greenlets : stage[g] # "unborn" => stage'[g] # "unborn"
           Given == \A j \in Jobs : lease'[j] = lease[j] \/ lease'[j] \in Others
<1>1. ASSUME Born, Given, UNCHANGED job PROVE LeasesAreRuns'
  BY <1>1, ConstantsAssumption DEF LeasesAreRuns
<1>2. Scripts => Born /\ Given /\ UNCHANGED job
  BY DEF Scripts, TakeAway, Expire, HandOver, Meanwhile, TypeOK, runs
<1>3. Stop \/ UNCHANGED vars => Born /\ Given /\ UNCHANGED job
  BY DEF Stop, vars, store, runs
<1>4. Check \/ Sleep \/ Join => Born /\ Given /\ UNCHANGED job
  BY DEF Check, Sleep, Join, store, runs
<1>5. \A j \in Jobs : CannotResume(j) => Born /\ Given /\ UNCHANGED job
  BY DEF CannotResume, store, runs
<1>6. \A g \in Greenlets : Start(g) \/ ImportFails(g) => Born /\ Given /\ UNCHANGED job
  BY DEF Start, ImportFails, TypeOK, store
<1>7. \A g \in Greenlets : Begin(g) \/ Finish(g) \/ Leave(g)
                           => Born /\ Given /\ UNCHANGED job
  BY DEF Begin, Finish, Leave, TypeOK, store, runs
<1>8. Handle => Born /\ Given /\ UNCHANGED job
  BY DEF Handle, Kill, TypeOK
<1>9. ASSUME NEW g \in Greenlets, NEW j \in Jobs, Take(g, j) PROVE LeasesAreRuns'
  BY <1>9 DEF Take, LeasesAreRuns, TypeOK
<1> QED BY <1>1, <1>2, <1>3, <1>4, <1>5, <1>6, <1>7, <1>8, <1>9
        DEF Next, Main, Resume, Pop

(* A step that takes no message, adds no run to those told and unmarked,   *)
(* and lets the listener wait.                                             *)
LEMMA StoppedUnchanged ==
    ASSUME TypeOK, LoneRunsAreStopped, UNCHANGED messages,
           \A g \in told' \cap alone' \cap Pooled' :
              /\ g \in told \cap alone \cap Pooled
              /\ job'[g] = job[g]
              /\ halting = g => halting' = g
    PROVE  LoneRunsAreStopped'
BY DEF LoneRunsAreStopped

(* Those told of j have the message just published before them.            *)
LEMMA StoppedPublish ==
    ASSUME TypeOK, LoneRunsAreStopped, NEW j \in Jobs, Publish(j),
           lease[j] \in Pooled => job[lease[j]] = j,
           UNCHANGED <<stage, job, halting, alone>>
    PROVE  LoneRunsAreStopped'
<1> SUFFICES ASSUME NEW g \in told' \cap alone \cap Pooled, halting # g
             PROVE  \E i \in DOMAIN messages' : messages'[i] = job[g]
  BY SameStages DEF LoneRunsAreStopped
<1>1. /\ messages \in Seq(Jobs) /\ messages' = Append(messages, j)
      /\ DOMAIN messages = 1 .. Len(messages)
      /\ DOMAIN messages' = 1 .. Len(messages) + 1
      /\ Len(messages) \in Nat
  BY DEF Publish, TypeOK
<1>2. CASE g \in told
  <2>1. PICK i \in DOMAIN messages : messages[i] = job[g]
    BY <1>2 DEF LoneRunsAreStopped
  <2>2. i \in DOMAIN messages' /\ messages'[i] = messages[i]
    BY <1>1
  <2> QED BY <2>1, <2>2
<1>3. CASE g \notin told
  <2>1. g = lease[j] /\ job[g] = j
    BY <1>3 DEF Publish
  <2>2. messages'[Len(messages) + 1] = j /\ Len(messages) + 1 \in DOMAIN messages'
    BY <1>1
  <2> QED BY <2>1, <2>2
<1> QED BY <1>2, <1>3

(* A message is for one job, whose lone run it finds in the map.           *)
LEMMA StoppedHandle ==
    ASSUME TypeOK, LoneRunsAreMapped, LoneRunsAreStopped, Handle
    PROVE  LoneRunsAreStopped'
<1> DEFINE h == entry[Head(messages)]
<1> SUFFICES ASSUME NEW g \in told' \cap alone' \cap Pooled', halting' # g
             PROVE  \E i \in DOMAIN messages' : messages'[i] = job'[g]
  BY DEF LoneRunsAreStopped
<1>1. UNCHANGED <<job, told, alone>>
  BY DEF Handle, aux
<1>2. g \in Pooled
  <2>1. \A k \in Greenlets : stage'[k] = stage[k] \/ stage'[k] = "over"
    BY DEF Handle, Kill, TypeOK
  <2> QED BY <2>1 DEF Pooled, Started, Working
<1>3. halting = NoGreenlet /\ NoGreenlet \notin Greenlets
  BY ConstantsAssumption DEF Handle
<1>4. PICK i \in DOMAIN messages : messages[i] = job[g]
  BY <1>1, <1>2, <1>3 DEF LoneRunsAreStopped, TypeOK
<1>5. /\ messages \in Seq(Jobs) /\ messages # <<>> /\ messages' = Tail(messages)
      /\ i \in 1 .. Len(messages)
  BY DEF Handle, TypeOK
<1>6. CASE i = 1
  <2>1. h = g
    BY <1>1, <1>2, <1>4, <1>5, <1>6 DEF LoneRunsAreMapped
  <2>2. g # NoGreenlet /\ Kill(g)
    BY <1>3, <2>1 DEF Handle
  <2>3. CASE stage[g] = "started"
    BY <2>2, <2>3, <1>2 DEF Kill, TypeOK, Pooled, Started, Working
  <2>4. CASE stage[g] = "working"
    BY <2>2, <2>4 DEF Kill
  <2> QED BY <1>2, <2>3, <2>4 DEF Pooled, Started, Working
<1>7. CASE i # 1
  <2>1. i - 1 \in DOMAIN messages' /\ messages'[i - 1] = messages[i]
    BY <1>5, <1>7
  <2> QED BY <1>1, <1>4, <2>1
<1> QED BY <1>6, <1>7

LEMMA StoppedNext ==
    TypeOK /\ LeasesAreRuns /\ LoneRunsAreMapped /\ LoneRunsAreStopped /\ [Next]_vars
    => LoneRunsAreStopped'
<1> SUFFICES ASSUME TypeOK, LeasesAreRuns, LoneRunsAreMapped, LoneRunsAreStopped,
                    [Next]_vars
             PROVE  LoneRunsAreStopped'
  OBVIOUS
<1>1. ASSUME NEW j \in Jobs, TakeAway(j) \/ Expire(j) PROVE LoneRunsAreStopped'
  <2>1. lease[j] \in Pooled => job[lease[j]] = j
    BY DEF LeasesAreRuns, Pooled, Started, Working
  <2> QED BY <1>1, <2>1, StoppedPublish DEF TakeAway, Expire, runs
<1>2. ASSUME UNCHANGED <<messages, job, stage, halting, told, alone>>
      PROVE  LoneRunsAreStopped'
  BY <1>2, StoppedUnchanged, SameStages
<1>3. ASSUME NEW g \in Greenlets, NEW j \in Jobs, Resume(g, j) \/ Pop(g, j)
      PROVE  LoneRunsAreStopped'
  <2>1. Take(g, j) /\ g \notin told
    BY <1>3 DEF Resume, Pop, Take, LoneRunsAreMapped
  <2>2. Pooled' = Pooled /\ g \notin Pooled
    BY <2>1 DEF Take, Pooled, Started, Working, TypeOK
  <2>3. \A h \in Pooled : h \in alone' => h \in alone
    BY <2>1, <2>2 DEF Take
  <2>4. \A h \in Pooled : job'[h] = job[h]
    BY <2>1, <2>2 DEF Take, TypeOK, Pooled, Started, Working
  <2> QED BY <2>1, <2>2, <2>3, <2>4, StoppedUnchanged DEF Take
<1>4. ASSUME NEW g \in Greenlets, Start(g) PROVE LoneRunsAreStopped'
  <2>1. g \notin told
    BY <1>4 DEF Start, LoneRunsAreMapped
  <2>2. Pooled' = Pooled \cup {g}
    BY <1>4 DEF Start, Pooled, Started, Working, TypeOK
  <2> QED BY <1>4, <2>1, <2>2, StoppedUnchanged DEF Start, store, aux
<1>5. ASSUME NEW g \in Greenlets, ImportFails(g) \/ Begin(g) \/ Leave(g)
      PROVE  LoneRunsAreStopped'
  <2>1. Pooled' \subseteq Pooled /\ (Leave(g) => g \notin Pooled')
    BY <1>5 DEF ImportFails, Begin, Leave, Pooled, Started, Working, TypeOK
  <2>2. UNCHANGED <<messages, job, told, alone>>
    BY <1>5 DEF ImportFails, Begin, Leave, store, aux
  <2>3. \A h \in Pooled' : halting = h => halting' = h
    BY <1>5, <2>1 DEF ImportFails, Begin, Leave
  <2> QED BY <2>1, <2>2, <2>3, StoppedUnchanged
<1>6. \A j \in Jobs : HandOver(j) \/ Meanwhile(j) \/ CannotResume(j)
      => UNCHANGED <<messages, job, stage, halting, told, alone>>
  BY DEF HandOver, Meanwhile, CannotResume, store, runs, aux
<1>7. Stop \/ Check \/ Sleep \/ Join \/ UNCHANGED vars
      => UNCHANGED <<messages, job, stage, halting, told, alone>>
  BY DEF Stop, Check, Sleep, Join, vars, store, runs, aux
<1>8. \A g \in Greenlets : Finish(g)
      => UNCHANGED <<messages, job, stage, halting, told, alone>>
  BY DEF Finish, runs, aux
<1> QED BY <1>1, <1>2, <1>3, <1>4, <1>5, <1>6, <1>7, <1>8, StoppedHandle
        DEF Next, Main, Scripts

-----------------------------------------------------------------------------
LEMMA InvInit == Init => IInv
<1> SUFFICES ASSUME Init PROVE IInv
  OBVIOUS
<1>1. SandboxesApart
  BY ConstantsAssumption DEF Init, SandboxesApart
<1>2. LeasesAreRuns
  BY ConstantsAssumption DEF Init, LeasesAreRuns
<1>3. LoneRunsAreMapped /\ LoneRunsAreStopped
  BY DEF Init, LoneRunsAreMapped, LoneRunsAreStopped
<1> QED BY <1>1, <1>2, <1>3, TypeInit, PoolInit DEF IInv

LEMMA InvNext == IInv /\ [Next]_vars => IInv'
BY TypeNext, PoolNext, ApartNext, LeasesNext, MappedNext, StoppedNext DEF IInv

LEMMA Inductive == Spec => []IInv
BY InvInit, InvNext, PTL DEF Spec

(* Whatever ends the runs, and however often jobs are lost, no two runs    *)
(* share a sandbox and no run that starts goes without one: the list       *)
(* process takes its first element of is never empty.                      *)
THEOREM SandboxForAll == Spec => []SandboxesSuffice
<1>1. IInv => SandboxesSuffice
  BY EnoughFree DEF IInv, SandboxesApart, SandboxesSuffice
<1> QED BY <1>1, Inductive, PTL

(* halt_job_processing finds and kills the run whose job is lost after its *)
(* start, if it never shared the worker with another run of that job.      *)
THEOREM LoneRunsStop == Spec => []LoneRunsAreStopped
<1>1. IInv => LoneRunsAreStopped
  BY DEF IInv
<1> QED BY <1>1, Inductive, PTL
=============================================================================
