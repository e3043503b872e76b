---------------------------- MODULE ForkingWorker ----------------------------
(***************************************************************************)
(* The forking worker of src/reqless/workers/forking_worker.py: a parent   *)
(* that forks children, waits for them to die and replaces them, and stops *)
(* them when it is signalled or fails.                                     *)
(*                                                                         *)
(* The parent has one thread.  Its signal handler runs between any two of  *)
(* its steps and does not return, so what matters is where it can come in  *)
(* between: a fork is one step and the entry of its pid in the table       *)
(* another, and so are the reaping of a child and the removal of its entry.*)
(*                                                                         *)
(* A child inherits the parent's memory and with it the signal handler and *)
(* a copy of the table.  What a child does with jobs is left out here.     *)
(***************************************************************************)
EXTENDS Integers, Sequences, FiniteSets

CONSTANTS
    Pids,          \* the process ids the system hands out, again and again
    Count,         \* count, the number of children
    Resume,        \* resume: the jobs to resume, a sequence
    Adopts,        \* whether the parent is process 1 of a container, which
                   \* becomes the parent of processes it did not fork
    MaxSignals,    \* bound: the signals sent to the parent or to children
    MaxDeaths,     \* bound: the children that end by themselves
    NoPid, NoBox   \* no process, no sandbox

ASSUME CountAssumption  == Count \in Nat \ {0}
ASSUME ResumeAssumption == Len(Resume) \in Nat
ASSUME AdoptsAssumption == Adopts \in BOOLEAN
ASSUME BoundAssumption  == MaxSignals \in Nat /\ MaxDeaths \in Nat
ASSUME NullAssumption   == NoPid \notin Pids /\ NoBox \notin Int

VARIABLES
    \* The parent.
    stage,         \* where it is in run or stop
    index,         \* the first loop's index
    pid,           \* the process in hand: forked and not yet entered, or
                   \* reaped
    sandbox,       \* the sandbox in hand
    sandboxes,     \* the table: for each pid its sandbox
    sig,           \* the signal stop was called with
    targets,       \* the children stop has still to kill
    \* The processes.
    proc,          \* what the system knows a pid as
    child,         \* of each child its sandbox, the jobs it was given to
                   \* resume and the pids in its copy of the table
    told,          \* the children with a signal they have not handled
    signals,       \* how many signals have been sent
    deaths         \* how many children ended by themselves

parent   == <<stage, index, pid, sandbox, sandboxes, sig, targets>>
vars     == <<parent, proc, child, told, signals, deaths>>

-----------------------------------------------------------------------------
Boxes == 0..(Count - 1)

NoChild == [box |-> NoBox, jobs |-> <<>>, kin |-> {}]

Live(p)   == proc[p] = "live"
Entered   == {p \in Pids : sandboxes[p] # NoBox}

(* The system hands pids out in turn: it comes back to one when those are  *)
(* gone that have it in their copy of the table.                           *)
Free(p)   == proc[p] = "free" /\ \A q \in Pids : p \notin child[q].kin

Stopped   == {"over", "crashed"}
Stopping  == {"killing", "waiting for all"} \cup Stopped

(* A slip: chunks of consecutive jobs, each one too long.                  *)
DivideInChunks(jobs) ==
    [b \in Boxes |->
        LET n == (Len(jobs) + Count - 1) \div Count
        IN SubSeq(jobs, b * n + 1,
                  IF (b + 1) * n + 1 > Len(jobs) THEN Len(jobs)
                  ELSE (b + 1) * n + 1)]

(* Divide deals the jobs out one by one, as the zip of zip_longest does.   *)
Divide(jobs) ==
    [b \in Boxes |->
        [k \in 1..((Len(jobs) - b + Count - 1) \div Count) |->
            jobs[(k - 1) * Count + b + 1]]]

Init ==
    /\ stage = "forking"
    /\ index = 0
    /\ pid = NoPid
    /\ sandbox = NoBox
    /\ sandboxes = [p \in Pids |-> NoBox]
    /\ sig = "none"
    /\ targets = {}
    /\ proc = [p \in Pids |-> "free"]
    /\ child = [p \in Pids |-> NoChild]
    /\ told = {}
    /\ signals = 0
    /\ deaths = 0

(* p ends, and is a zombie until the parent has waited for it.             *)
Perish(p) == /\ proc' = [proc EXCEPT ![p] = "zombie"]
             /\ child' = [child EXCEPT ![p] = NoChild]

-----------------------------------------------------------------------------
(* The parent's run.                                                       *)

(* stop begins: it is given a signal and the table as it is.               *)
Stop(s) == /\ stage' = "killing"
           /\ sig' = s
           /\ targets' = Entered

(* fork: p is the new child, in the sandbox b, with the jobs js to resume. *)
Fork(p, b, js) ==
    /\ Free(p)
    /\ proc' = [proc EXCEPT ![p] = "live"]
    /\ child' = [child EXCEPT ![p] = [box |-> b, jobs |-> js, kin |-> Entered]]
    /\ stage' = "entering"
    /\ pid' = p
    /\ sandbox' = b
    /\ UNCHANGED <<sandboxes, sig, targets, told, signals, deaths>>

(* A slip: the sandboxes are numbered from one.                            *)
SpawnFromOne(p) ==
    /\ stage = "forking"
    /\ index < Count
    /\ Fork(p, index + 1, Divide(Resume)[index])
    /\ index' = index + 1

Spawn(p) ==
    /\ stage = "forking"
    /\ index < Count
    /\ Fork(p, index, Divide(Resume)[index])
    /\ index' = index + 1

(* A slip: the sandbox is taken from the loop that is over.                *)
RespawnAstray(p) ==
    /\ stage = "replacing"
    /\ Fork(p, index - 1, Resume)
    /\ UNCHANGED index

(* The kwargs hold what resume the parent was given, for all children.     *)
Respawn(p) ==
    /\ stage = "replacing"
    /\ Fork(p, sandbox, Resume)
    /\ UNCHANGED index

Enter ==
    /\ stage = "entering"
    /\ sandboxes' = [sandboxes EXCEPT ![pid] = sandbox]
    /\ stage' = IF index < Count THEN "forking" ELSE "waiting"
    /\ pid' = NoPid
    /\ UNCHANGED <<index, sandbox, sig, targets, proc, child, told, signals, deaths>>

(* A slip: the error is logged, and the parent waits for the others.       *)
ForkFailsQuietly ==
    /\ \/ stage = "forking" /\ stage' = "crashed"
       \/ stage = "replacing" /\ stage' = "waiting"
    /\ UNCHANGED <<index, pid, sandbox, sandboxes, sig, targets, proc, child, told,
                   signals, deaths>>

(* The first loop is outside of the try: its error leaves the children.    *)
ForkFails ==
    /\ \/ stage = "forking" /\ stage' = "crashed" /\ UNCHANGED <<sig, targets>>
       \/ stage = "replacing" /\ Stop("KILL")
    /\ UNCHANGED <<index, pid, sandbox, sandboxes, proc, child, told, signals, deaths>>

Reap(p) ==
    /\ stage = "waiting"
    /\ proc[p] \in {"zombie", "stray"}
    /\ proc' = [proc EXCEPT ![p] = "free"]
    /\ stage' = "reaped"
    /\ pid' = p
    /\ UNCHANGED <<index, sandbox, sandboxes, sig, targets, child, told, signals, deaths>>

(* sandboxes.pop(pid); for a process that is not in the table it raises.   *)
Forget ==
    /\ stage = "reaped"
    /\ IF pid \in Entered
       THEN /\ sandbox' = sandboxes[pid]
            /\ sandboxes' = [sandboxes EXCEPT ![pid] = NoBox]
            /\ stage' = "replacing"
            /\ UNCHANGED <<sig, targets>>
       ELSE Stop("KILL") /\ UNCHANGED <<sandbox, sandboxes>>
    /\ UNCHANGED <<index, pid, proc, child, told, signals, deaths>>

-----------------------------------------------------------------------------
(* The parent's stop, called by the handler or by run as it ends.          *)

(* TERM, INT or QUIT reaches the parent, wherever it is.                   *)
Signal ==
    /\ stage \notin Stopped
    /\ signals < MaxSignals
    /\ signals' = signals + 1
    /\ Stop("TERM")
    /\ UNCHANGED <<index, pid, sandbox, sandboxes, proc, child, told, deaths>>

Kill(p) ==
    /\ stage = "killing"
    /\ p \in targets
    /\ targets' = targets \ {p}
    /\ IF Live(p) /\ sig = "KILL"
       THEN Perish(p) /\ told' = told \ {p}
       ELSE /\ told' = IF Live(p) THEN told \cup {p} ELSE told
            /\ UNCHANGED <<proc, child>>
    /\ UNCHANGED <<stage, index, pid, sandbox, sandboxes, sig, signals, deaths>>

AllKilled ==
    /\ stage = "killing"
    /\ targets = {}
    /\ stage' = "waiting for all"
    /\ UNCHANGED <<index, pid, sandbox, sandboxes, sig, targets, proc, child,
                   told, signals, deaths>>

(* waitpid returns, or raises for what is not a child any more; then the   *)
(* entry goes.                                                             *)
WaitFor(p) ==
    /\ stage = "waiting for all"
    /\ p \in Entered
    /\ proc[p] = "zombie"
    /\ proc' = [proc EXCEPT ![p] = "free"]
    /\ UNCHANGED <<parent, child, told, signals, deaths>>

(* A slip: the wait does not block.                                        *)
DropUnwaited(p) ==
    /\ stage = "waiting for all"
    /\ p \in Entered
    /\ sandboxes' = [sandboxes EXCEPT ![p] = NoBox]
    /\ UNCHANGED <<stage, index, pid, sandbox, sig, targets, proc, child, told,
                   signals, deaths>>

Drop(p) ==
    /\ stage = "waiting for all"
    /\ p \in Entered
    /\ proc[p] \notin {"live", "zombie"}
    /\ sandboxes' = [sandboxes EXCEPT ![p] = NoBox]
    /\ UNCHANGED <<stage, index, pid, sandbox, sig, targets, proc, child, told,
                   signals, deaths>>

End ==
    /\ stage = "waiting for all"
    /\ Entered = {}
    /\ stage' = "over"
    /\ UNCHANGED <<index, pid, sandbox, sandboxes, sig, targets, proc, child,
                   told, signals, deaths>>

-----------------------------------------------------------------------------
(* The children, and the system.                                           *)

(* A child ends: its run ends or raises, a job kills it, the memory is     *)
(* short.                                                                  *)
Die(p) ==
    /\ Live(p)
    /\ deaths < MaxDeaths
    /\ deaths' = deaths + 1
    /\ Perish(p)
    /\ told' = told \ {p}
    /\ UNCHANGED <<parent, signals>>

SignalChild(p) ==
    /\ Live(p)
    /\ signals < MaxSignals
    /\ signals' = signals + 1
    /\ told' = told \cup {p}
    /\ UNCHANGED <<parent, proc, child, deaths>>

(* A slip: the handler returns.                                            *)
HandleAndGoOn(p) ==
    /\ Live(p)
    /\ p \in told
    /\ told' = (told \cup {q \in child[p].kin : Live(q)}) \ {p}
    /\ UNCHANGED <<parent, proc, child, signals, deaths>>

(* The handler a child inherits is the parent's: it kills those in the     *)
(* copy of the table, which are its elder siblings, waits for none of them *)
(* since they are not its children, and exits.                             *)
Handle(p) ==
    /\ Live(p)
    /\ p \in told
    /\ Perish(p)
    /\ told' = (told \cup {q \in child[p].kin : Live(q)}) \ {p}
    /\ UNCHANGED <<parent, signals, deaths>>

(* A process whose parent died becomes a child of process 1, and ends.     *)
Adopt(p) ==
    /\ Adopts
    /\ Free(p)
    /\ p # pid
    /\ p \notin Entered
    /\ proc' = [proc EXCEPT ![p] = "stray"]
    /\ UNCHANGED <<parent, child, told, signals, deaths>>

-----------------------------------------------------------------------------
Run == \/ Enter \/ ForkFails \/ Forget
       \/ \E p \in Pids : Spawn(p) \/ Respawn(p) \/ Reap(p)

StopStep == \/ AllKilled \/ End
            \/ \E p \in Pids : Kill(p) \/ WaitFor(p) \/ Drop(p)

Next == \/ Run \/ StopStep \/ Signal
        \/ \E p \in Pids : Die(p) \/ SignalChild(p) \/ Handle(p) \/ Adopt(p)

Spec == Init /\ [][Next]_vars

(* The parent goes on, and a child handles a signal.                       *)
Fairness == /\ WF_vars(Run)
            /\ WF_vars(StopStep)
            /\ \A p \in Pids : WF_vars(Handle(p))

FairSpec == Spec /\ Fairness

-----------------------------------------------------------------------------
(* Every variable keeps values of its kind.                                *)
TypeOK ==
    /\ stage \in {"forking", "entering", "waiting", "reaped", "replacing"} \cup Stopping
    /\ index \in 0..Count
    /\ pid \in Pids \cup {NoPid}
    /\ sandbox \in Boxes \cup {NoBox}
    /\ sandboxes \in [Pids -> Boxes \cup {NoBox}]
    /\ sig \in {"none", "TERM", "KILL"}
    /\ targets \subseteq Pids
    /\ proc \in [Pids -> {"free", "live", "zombie", "stray"}]
    /\ child \in [Pids -> [box : Boxes \cup {NoBox}, kin : SUBSET Pids,
                          jobs : {Divide(Resume)[b] : b \in Boxes} \cup {Resume, <<>>}]]
    /\ told \subseteq Pids
    /\ signals \in 0..MaxSignals
    /\ deaths \in 0..MaxDeaths

(* "Each child process runs in its own sandboxed directory": whoever dies, *)
(* is replaced or is signalled, no two live children have one sandbox.     *)
SandboxesUnshared ==
    \A p, q \in Pids : Live(p) /\ Live(q) /\ child[p].box = child[q].box => p = q

(* stop leaves no child behind, wherever the signal came in, but the one   *)
(* that was forked and not yet entered in the table.                       *)
OnlyTheUnenteredSurvive ==
    stage = "over" => \A p \in Pids : Live(p) => p = pid

(* "Divide up the jobs that we have": until a child ends, each job to      *)
(* resume is given to one of them.  One that replaces a child is given all *)
(* of them again.                                                          *)
Given(p) == {child[p].jobs[k] : k \in DOMAIN child[p].jobs}
EachIsResumedOnce ==
    stage = "waiting" /\ deaths = 0 /\ signals = 0
    => \A i \in 1..Len(Resume) : \E p \in Pids :
           {q \in Pids : Resume[i] \in Given(q)} = {p}

(* A stop ends: the parent waits only for children that will die.          *)
StopsEnd == (stage = "killing") ~> (stage = "over")

(* What the README promises of the children, as Crew states it: an own     *)
(* seat for each, an empty one taken again, none hired while stopping.     *)
C == INSTANCE Crew WITH
        seat   <- [b \in Boxes |-> {p \in Pids : Live(p) /\ child[p].box = b}],
        closed <- stage \in Stopping
CrewIsKept == C!FairSpec
=============================================================================
