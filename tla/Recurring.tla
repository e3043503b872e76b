----------------------------- MODULE Recurring -----------------------------
(***************************************************************************)
(* Recurring jobs: the templates ql:r:<jid>, the sorted set of each queue  *)
(* that says when each is next due, and check_recurring, by which a call   *)
(* that pops or peeks makes the children that are due.  Queue.recur and    *)
(* the class RecurringJob of src/reqless are how clients reach them.       *)
(*                                                                         *)
(* Abstractions.                                                           *)
(*  - Time is a number of seconds, and so is every due time; it is bounded *)
(*    by MaxTime.  The numbers of the children are bounded by MaxChildren. *)
(*  - The class, data, priority, tags, retries and throttles of a template *)
(*    are copied to its children and are not told apart.                   *)
(*  - What becomes of a child once it waits is the business of JobStore.   *)
(***************************************************************************)
EXTENDS Integers, FiniteSets, FiniteSetsExt, Functions

CONSTANTS
    Templates,     \* the jids of recurring jobs
    Queues,        \* the queues
    Intervals,     \* the intervals they are given
    Offsets,       \* the delays of a first child
    Backlogs,      \* the backlogs they are given, 0 for none
    Limits,        \* what the calls leave for recurring jobs
    MaxTime,       \* the bound on time
    MaxChildren,   \* the bound on the number of a child
    Absent,        \* there is no such template
    Never          \* the template is not in the set of the queue

ASSUME IntervalsAssumption == Intervals \subseteq Nat \ {0}
ASSUME NumbersAssumption   == /\ Offsets \cup Backlogs \subseteq Nat
                              /\ Limits \subseteq Nat \ {0}
                              /\ MaxTime \in Nat /\ MaxChildren \in Nat
ASSUME TemplatesAssumption == IsFiniteSet(Templates)

(* What the hash of a template keeps.                                      *)
Hashes == [queue : Queues, interval : Intervals, backlog : Backlogs \cup {0},
           count : 0 .. MaxChildren]

ASSUME NullsAssumption == Never \notin Int /\ Absent \notin Hashes

VARIABLES
    now,       \* the time clients call with
    template,  \* the hash of each template: queue, interval, backlog, count
    score,     \* for each queue, when each template is next due
    (* What has happened, kept for the properties.                         *)
    first,     \* when the first child of the schedule was due, the schedule
               \* beginning anew with its interval and where some are skipped
    made,      \* the children of the schedule made so far
    used       \* the numbers of the children made since there is a template

vars == <<now, template, score, first, made, used>>

-----------------------------------------------------------------------------
Exists(r) == template[r] # Absent
Due(q)    == {r \in Templates : score[q][r] # Never /\ score[q][r] <= now}

CeilDiv(a, b) == (a + b - 1) \div b

(* The intervals check_recurring leaves out for a template with a backlog. *)
Skipped(r, at) ==
    LET t    == template[r]
        late == now - at
    IN  IF t.backlog # 0 /\ late > t.backlog * t.interval
        THEN CeilDiv(late - t.backlog * t.interval, t.interval) ELSE 0

(* The time of the first child to make, and how many are due from it.      *)
From(q, r) == score[q][r] + Skipped(r, score[q][r]) * template[r].interval
Owed(q, r) == (now - From(q, r)) \div template[r].interval + 1

(* The turn of each due template, as the sorted set has them; equal times  *)
(* come in any order.                                                      *)
Turns(q) ==
    {turn \in Bijection(Due(q), 1 .. Cardinality(Due(q))) :
        \A r, s \in Due(q) : turn[r] < turn[s] => score[q][r] <= score[q][s]}

(* The running count of children, moved, after each turn: a template makes *)
(* those it owes as long as the limit allows.  Each owes one at least, so  *)
(* the limit of the peek leaves out none that would make any.              *)
(* Slip: the limit holds for each template.                                *)
DealEach(q, turn, limit) ==
    {moved \in [0 .. Cardinality(Due(q)) -> 0 .. limit * Cardinality(Due(q))] :
        /\ moved[0] = 0
        /\ \A r \in Due(q) : moved[turn[r]] =
              moved[turn[r] - 1] + Min({Owed(q, r), limit})}

Deal(q, turn, limit) ==
    {moved \in [0 .. Cardinality(Due(q)) -> 0 .. limit] :
        /\ moved[0] = 0
        /\ \A r \in Due(q) : moved[turn[r]] =
              Min({moved[turn[r] - 1] + Owed(q, r), limit})}

Init ==
    /\ now      = 0
    /\ template = [r \in Templates |-> Absent]
    /\ score    = [q \in Queues |-> [r \in Templates |-> Never]]
    /\ first    = [r \in Templates |-> 0]
    /\ made     = [r \in Templates |-> 0]
    /\ used     = [r \in Templates |-> {}]

-----------------------------------------------------------------------------
(* Queue.recur: a new template, or an old one with a new schedule, which   *)
(* goes on numbering its children.  Slip: it starts again at one.          *)
RecurAnew(q, r, i, offset) ==
    /\ template' = [template EXCEPT ![r] =
                      [queue |-> q, interval |-> i, backlog |-> 0,
                       count |-> 0]]
    /\ score'    = [p \in Queues |-> [score[p] EXCEPT ![r] =
                      IF p = q THEN now + offset
                      ELSE IF Exists(r) /\ p = template[r].queue THEN Never
                      ELSE @]]
    /\ first'    = [first EXCEPT ![r] = now + offset]
    /\ made'     = [made EXCEPT ![r] = 0]
    /\ UNCHANGED <<now, used>>

Recur(q, r, i, offset) ==
    /\ template' = [template EXCEPT ![r] =
                      [queue |-> q, interval |-> i, backlog |-> 0,
                       count |-> IF Exists(r) THEN @.count ELSE 0]]
    /\ score'    = [p \in Queues |-> [score[p] EXCEPT ![r] =
                      IF p = q THEN now + offset
                      ELSE IF Exists(r) /\ p = template[r].queue THEN Never
                      ELSE @]]
    /\ first'    = [first EXCEPT ![r] = now + offset]
    /\ made'     = [made EXCEPT ![r] = 0]
    /\ UNCHANGED <<now, used>>

(* RecurringJob.interval = i: what is due next moves by the difference.    *)
SetInterval(r, i) ==
    /\ Exists(r)
    /\ template' = [template EXCEPT ![r].interval = i]
    /\ score' = [score EXCEPT ![template[r].queue][r] =
                    @ + i - template[r].interval]
    /\ first' = [first EXCEPT ![r] =
                    @ + made[r] * template[r].interval
                      + i - template[r].interval]
    /\ made'  = [made EXCEPT ![r] = 0]
    /\ UNCHANGED <<now, used>>

(* recurringJob.update with a backlog; the Python classes leave it at 0.   *)
SetBacklog(r, b) ==
    /\ Exists(r)
    /\ template' = [template EXCEPT ![r].backlog = b]
    /\ UNCHANGED <<now, score, first, made, used>>

(* RecurringJob.move: it is due when it was, in the set of another queue.  *)
(* Slip: it stays in the set of the first.                                 *)
MoveStaying(r, q) ==
    /\ Exists(r)
    /\ template' = [template EXCEPT ![r].queue = q]
    /\ score' = [score EXCEPT ![q][r] = score[template[r].queue][r]]
    /\ UNCHANGED <<now, first, made, used>>

Move(r, q) ==
    /\ Exists(r)
    /\ template' = [template EXCEPT ![r].queue = q]
    /\ score' = [p \in Queues |-> [score[p] EXCEPT ![r] =
                    IF p = q THEN score[template[r].queue][r]
                    ELSE IF p = template[r].queue THEN Never ELSE @]]
    /\ UNCHANGED <<now, first, made, used>>

(* RecurringJob.cancel.  Its children stay, and a later template with its  *)
(* jid makes children with their numbers.                                  *)
Cancel(r) ==
    /\ Exists(r)
    /\ template' = [template EXCEPT ![r] = Absent]
    /\ score'    = [score EXCEPT ![template[r].queue][r] = Never]
    /\ first'    = [first EXCEPT ![r] = 0]
    /\ made'     = [made EXCEPT ![r] = 0]
    /\ used'     = [used EXCEPT ![r] = {}]
    /\ UNCHANGED now

(* check_recurring, in a pop or a peek of queue q that still has room for  *)
(* limit jobs.  Slip: the next child is due an interval from now.          *)
NextDueFromNow(q, r, n) == now + template[r].interval

NextDue(q, r, n) == From(q, r) + n * template[r].interval

Make(q, n) ==
    LET some == {r \in Due(q) : n[r] > 0}
        skip == [r \in some |-> Skipped(r, score[q][r])]
    IN  /\ some # {}
        /\ \A r \in some : template[r].count + n[r] <= MaxChildren
        /\ template' = [r \in Templates |->
              IF r \in some THEN [template[r] EXCEPT !.count = @ + n[r]]
              ELSE template[r]]
        /\ score' = [score EXCEPT ![q] = [r \in Templates |->
              IF r \in some THEN NextDue(q, r, n[r]) ELSE @[r]]]
        /\ first' = [r \in Templates |->
              IF r \in some /\ skip[r] > 0
              THEN first[r] + (made[r] + skip[r]) * template[r].interval
              ELSE first[r]]
        /\ made' = [r \in Templates |->
              IF r \notin some THEN made[r]
              ELSE IF skip[r] > 0 THEN n[r] ELSE made[r] + n[r]]
        /\ used' = [r \in Templates |->
              IF r \in some
              THEN used[r] \cup (template[r].count + 1
                                 .. template[r].count + n[r])
              ELSE used[r]]
        /\ UNCHANGED now

Poll(q, limit) ==
    \E turn \in Turns(q) : \E moved \in Deal(q, turn, limit) :
        Make(q, [r \in Due(q) |-> moved[turn[r]] - moved[turn[r] - 1]])

Tick ==
    /\ now < MaxTime
    /\ now' = now + 1
    /\ UNCHANGED <<template, score, first, made, used>>

Next ==
    \/ \E q \in Queues, r \in Templates, i \in Intervals, o \in Offsets :
          Recur(q, r, i, o)
    \/ \E r \in Templates, i \in Intervals : SetInterval(r, i)
    \/ \E r \in Templates, b \in Backlogs : SetBacklog(r, b)
    \/ \E r \in Templates, q \in Queues : Move(r, q)
    \/ \E r \in Templates : Cancel(r)
    \/ \E q \in Queues, limit \in Limits : Poll(q, limit)
    \/ Tick

Spec == Init /\ [][Next]_vars

-----------------------------------------------------------------------------
(* A template that exists is in the set of its queue and in no other, and  *)
(* one that was cancelled is in none.                                      *)
TypeOK ==
    /\ now \in 0 .. MaxTime
    /\ template \in [Templates -> {Absent} \cup Hashes]
    /\ score \in [Queues -> [Templates -> Int \cup {Never}]]
    /\ \A q \in Queues, r \in Templates :
          IF Exists(r) /\ template[r].queue = q THEN score[q][r] \in Int
          ELSE score[q][r] = Never
    /\ first \in [Templates -> Int]
    /\ made \in [Templates -> Nat]
    /\ used \in [Templates -> SUBSET (1 .. MaxChildren)]

(* The jobs there are do not depend on how often workers try to pop: each  *)
(* child is due an interval after the one before it, not after the poll    *)
(* that made it, through polls that come late, are full before its turn or *)
(* skip some for a backlog, through moves and through changed intervals.   *)
PollsDoNotMatter ==
    \A r \in Templates : Exists(r) =>
        score[template[r].queue][r] = first[r] + made[r] * template[r].interval

(* Every child has a number of its own: a number is never used twice,      *)
(* however often the job is told to recur, for the child that has it would *)
(* be overwritten.                                                         *)
NumbersAreUsedOnce ==
    \A r \in Templates : Exists(r) => used[r] = 1 .. template[r].count

(* A poll makes no more children than the call has room for, counted over  *)
(* all the templates of the queue, and stops short of that only when none  *)
(* is due any more; and a template with a backlog gives at most one child  *)
(* more than its backlog, and at least one.                                *)
Made(r)     == used'[r] \ used[r]
Children(q) == {child \in Due(q) \X (1 .. MaxChildren) :
                    child[2] \in Made(child[1])}

PollStep ==
    \A q \in Queues, limit \in Limits : used' # used /\ Poll(q, limit) =>
        /\ Cardinality(Children(q)) <= limit
        /\ \/ Cardinality(Children(q)) = limit
           \/ \A r \in Due(q) : score'[q][r] > now
        /\ \A r \in Due(q) : template[r].backlog > 0 =>
              Cardinality(Made(r)) <= template[r].backlog + 1
PollsAreBounded == [][PollStep]_vars
=============================================================================
