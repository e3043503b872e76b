-------------------------- MODULE Recurring_proofs --------------------------
(***************************************************************************)
(* Proofs about Recurring.  The schedule of a template does not depend on  *)
(* the polls, no number of a child is used twice, and a poll makes as many *)
(* children as it may and no more, for any templates, queues, intervals,   *)
(* backlogs and limits.                                                    *)
(***************************************************************************)
EXTENDS Recurring, FiniteSetTheorems, WellFoundedInduction, TLAPS

(* There are no numbers without a template.                                *)
NumbersHaveTemplates == \A r \in Templates : ~Exists(r) => used[r] = {}

IInv == /\ TypeOK /\ PollsDoNotMatter
        /\ NumbersAreUsedOnce /\ NumbersHaveTemplates

-----------------------------------------------------------------------------
(* Arithmetic.                                                             *)

(* The least of two numbers.                                               *)
LEMMA LeastOfTwo ==
    ASSUME NEW a \in Int, NEW b \in Int
    PROVE  Min({a, b}) = IF a <= b THEN a ELSE b
<1> DEFINE m == IF a <= b THEN a ELSE b
<1>1. m \in {a, b} /\ \A y \in {a, b} : m <= y
  OBVIOUS
<1>2. \A x \in {a, b} : (\A y \in {a, b} : x <= y) => x = m
  OBVIOUS
<1> QED BY <1>1, <1>2 DEF Min

(* What division by a positive number leaves.                              *)
LEMMA Division ==
    ASSUME NEW a \in Int, NEW b \in Nat \ {0}
    PROVE  /\ a \div b \in Int
           /\ (a \div b) * b <= a
           /\ a < (a \div b + 1) * b
  OBVIOUS

LEMMA ProductsGrow ==
    ASSUME NEW a \in Int, NEW c \in Int, NEW b \in Nat \ {0}
    PROVE  /\ a <= c => a * b <= c * b
           /\ a * b < c * b => a < c
  OBVIOUS

LEMMA ProductsAdd ==
    ASSUME NEW a \in Int, NEW c \in Int, NEW b \in Int
    PROVE  (a + c) * b = a * b + c * b
  OBVIOUS

-----------------------------------------------------------------------------
(* What check_recurring computes for a template that is due.               *)

LEMMA DueIsThere ==
    ASSUME TypeOK, NEW q \in Queues, NEW r \in Due(q)
    PROVE  /\ r \in Templates
           /\ Exists(r) /\ template[r].queue = q
           /\ template[r] \in Hashes
           /\ score[q][r] \in Int
           /\ score[q][r] <= now
BY DEF Due, TypeOK, Exists

LEMMA HashFields ==
    ASSUME NEW h \in Hashes
    PROVE  /\ h.queue \in Queues
           /\ h.interval \in Intervals /\ h.interval \in Nat \ {0}
           /\ h.backlog \in Backlogs \cup {0} /\ h.backlog \in Nat
           /\ h.count \in 0 .. MaxChildren
<1>1. Intervals \subseteq Nat \ {0} /\ Backlogs \cup {0} \subseteq Nat
  BY IntervalsAssumption, NumbersAssumption
<1>2. /\ h.queue \in Queues /\ h.interval \in Intervals
      /\ h.backlog \in Backlogs \cup {0} /\ h.count \in 0 .. MaxChildren
  BY DEF Hashes
<1> QED BY <1>1, <1>2

(* With a backlog, what is skipped leaves a first child that is due, and   *)
(* no more intervals than the backlog.                                     *)
LEMMA SkippedLeavesBacklog ==
    ASSUME TypeOK, NEW q \in Queues, NEW r \in Due(q)
    PROVE  /\ Skipped(r, score[q][r]) \in Nat
           /\ From(q, r) \in Int
           /\ From(q, r) <= now
           /\ template[r].backlog > 0 =>
                 now - From(q, r) <= template[r].backlog * template[r].interval
<1> DEFINE i    == template[r].interval
           b    == template[r].backlog
           late == now - score[q][r]
           c    == CeilDiv(late - b * i, i)
<1>1. i \in Nat \ {0} /\ b \in Nat /\ late \in Nat /\ b * i \in Nat
  BY DueIsThere, HashFields DEF TypeOK
<1>2. now \in Int /\ score[q][r] \in Int
  BY DueIsThere DEF TypeOK
<1>3. From(q, r) = score[q][r] + Skipped(r, score[q][r]) * i
  BY DEF From
<1>4. CASE b # 0 /\ late > b * i
  <2>1. Skipped(r, score[q][r]) = c
    BY <1>4 DEF Skipped
  <2>2. c = (late - b * i + i - 1) \div i
    BY DEF CeilDiv
  <2>3. late - b * i + i - 1 \in Nat
    BY <1>1, <1>4
  <2> HIDE DEF c, i, b, late
  <2>4. /\ c \in Int
        /\ c * i <= late - b * i + i - 1
        /\ late - b * i + i - 1 < (c + 1) * i
    BY <1>1, <2>2, <2>3, Division
  <2>5. (c + 1) * i = c * i + i /\ c * i \in Int
    BY <1>1, <2>4
  <2>6. c \in Nat
    <3>1. 0 * i < (c + 1) * i
      BY <1>1, <2>3, <2>4
    <3>2. 0 < c + 1
      BY <1>1, <2>4, <3>1, ProductsGrow
    <3> QED BY <2>4, <3>2
  <2>7. i <= b * i
    <3>1. 1 <= b
      BY <1>1, <1>4
    <3> QED BY <1>1, <3>1, ProductsGrow
  <2> QED BY <1>1, <1>2, <1>3, <2>1, <2>4, <2>5, <2>6, <2>7 DEF late, i, b
<1>5. CASE ~(b # 0 /\ late > b * i)
  <2>1. Skipped(r, score[q][r]) = 0
    BY <1>5 DEF Skipped
  <2> QED BY <1>1, <1>2, <1>3, <1>5, <2>1, DueIsThere
<1> QED BY <1>4, <1>5

(* A template owes one child at least, and after those it owes none is     *)
(* due; with a backlog it owes one more than the backlog at most.          *)
LEMMA OwedIsWhatIsDue ==
    ASSUME TypeOK, NEW q \in Queues, NEW r \in Due(q)
    PROVE  /\ Owed(q, r) \in Nat \ {0}
           /\ From(q, r) + Owed(q, r) * template[r].interval > now
           /\ template[r].backlog > 0 => Owed(q, r) <= template[r].backlog + 1
<1> DEFINE i == template[r].interval
           b == template[r].backlog
           l == now - From(q, r)
           d == l \div i
<1>1. i \in Nat \ {0} /\ b \in Nat
  BY DueIsThere, HashFields
<1>2. /\ now \in Int /\ From(q, r) \in Int /\ l \in Nat
      /\ b > 0 => l <= b * i
  BY SkippedLeavesBacklog DEF TypeOK
<1>3. Owed(q, r) = d + 1
  BY DEF Owed
<1> HIDE DEF i, b, l, d
<1>4. d \in Int /\ d * i <= l /\ l < (d + 1) * i
  BY <1>1, <1>2, Division DEF d
<1>5. 0 < d + 1
  <2>1. 0 * i < (d + 1) * i
    BY <1>1, <1>2, <1>4
  <2> QED BY <1>1, <1>4, <2>1, ProductsGrow
<1>6. b > 0 => d < b + 1
  <2>1. (b + 1) * i = b * i + i /\ b * i \in Int
    BY <1>1
  <2>2. b > 0 => d * i < (b + 1) * i
    BY <1>1, <1>2, <1>4, <2>1
  <2> QED BY <1>1, <1>4, <2>2, ProductsGrow
<1> QED BY <1>1, <1>2, <1>3, <1>4, <1>5, <1>6 DEF i, b, l

(* The places of the due templates, and the running count at each.         *)
LEMMA DueIsFinite == \A q : IsFiniteSet(Due(q)) /\ Cardinality(Due(q)) \in Nat
<1>1. \A q : Due(q) \subseteq Templates
  BY DEF Due
<1> QED BY <1>1, TemplatesAssumption, FS_Subset, FS_CardinalityType

LEMMA DealtInTurn ==
    ASSUME TypeOK, NEW q \in Queues, NEW limit \in Limits,
           NEW turn \in Turns(q), NEW moved \in Deal(q, turn, limit),
           NEW r \in Due(q)
    PROVE  /\ turn[r] \in 1 .. Cardinality(Due(q))
           /\ moved[turn[r]] \in 0 .. limit
           /\ moved[turn[r] - 1] \in 0 .. limit
           /\ moved[turn[r]] - moved[turn[r] - 1] \in 0 .. Owed(q, r)
           /\ \/ moved[turn[r]] - moved[turn[r] - 1] = Owed(q, r)
              \/ moved[turn[r]] = limit
<1>1. turn[r] \in 1 .. Cardinality(Due(q))
  BY DEF Turns, Bijection, Injection
<1>2. limit \in Nat
  BY NumbersAssumption
<1>3. Cardinality(Due(q)) \in Nat
  BY DueIsFinite
<1>4. /\ moved[turn[r]] \in 0 .. limit
      /\ moved[turn[r] - 1] \in 0 .. limit
      /\ moved[turn[r]] = Min({moved[turn[r] - 1] + Owed(q, r), limit})
  BY <1>1, <1>3 DEF Deal
<1>5. Owed(q, r) \in Nat
  BY OwedIsWhatIsDue
<1>6. moved[turn[r]] = IF moved[turn[r] - 1] + Owed(q, r) <= limit
                       THEN moved[turn[r] - 1] + Owed(q, r) ELSE limit
  BY <1>2, <1>4, <1>5, LeastOfTwo
<1> QED BY <1>1, <1>2, <1>4, <1>5, <1>6

-----------------------------------------------------------------------------
(* The invariant, template by template.                                    *)

Fields ==
    /\ now \in 0 .. MaxTime
    /\ template \in [Templates -> {Absent} \cup Hashes]
    /\ score \in [Queues -> [Templates -> Int \cup {Never}]]
    /\ first \in [Templates -> Int]
    /\ made \in [Templates -> Nat]
    /\ used \in [Templates -> SUBSET (1 .. MaxChildren)]

Sound(s) ==
    /\ \A p \in Queues :
          IF Exists(s) /\ template[s].queue = p THEN score[p][s] \in Int
          ELSE score[p][s] = Never
    /\ Exists(s) =>
          /\ score[template[s].queue][s] = first[s] + made[s] * template[s].interval
          /\ used[s] = 1 .. template[s].count
    /\ ~Exists(s) => used[s] = {}

LEMMA InvIsSoundness == IInv <=> Fields /\ \A s \in Templates : Sound(s)
BY DEF IInv, TypeOK, PollsDoNotMatter, NumbersAreUsedOnce, NumbersHaveTemplates,
       Fields, Sound

LEMMA InvIsSoundnessNext == IInv' <=> Fields' /\ \A s \in Templates : Sound(s)'
BY DEF IInv, TypeOK, PollsDoNotMatter, NumbersAreUsedOnce, NumbersHaveTemplates,
       Fields, Sound

(* A template that a step leaves alone.                                    *)
LEMMA Untouched ==
    ASSUME NEW s \in Templates, Sound(s), template'[s] = template[s],
           \A p \in Queues : score'[p][s] = score[p][s],
           first'[s] = first[s], made'[s] = made[s], used'[s] = used[s],
           Exists(s) => template[s].queue \in Queues
    PROVE  Sound(s)'
BY DEF Sound, Exists

(* What there is to know of a template that exists.                        *)
LEMMA TemplateIsThere ==
    ASSUME IInv, NEW r \in Templates, Exists(r)
    PROVE  /\ template[r] \in Hashes
           /\ template[r].queue \in Queues
           /\ template[r].interval \in Nat \ {0}
           /\ template[r].count \in 0 .. MaxChildren
           /\ score[template[r].queue][r] \in Int
           /\ score[template[r].queue][r]
                 = first[r] + made[r] * template[r].interval
           /\ \A p \in Queues \ {template[r].queue} : score[p][r] = Never
           /\ used[r] = 1 .. template[r].count
<1>1. template[r] \in Hashes
  BY DEF IInv, TypeOK, Exists
<1> QED BY <1>1, HashFields, InvIsSoundness DEF Sound

LEMMA InvInit == Init => IInv
<1> SUFFICES ASSUME Init PROVE IInv
  OBVIOUS
<1>1. \A r \in Templates : ~Exists(r)
  BY DEF Init, Exists
<1>2. TypeOK
  BY <1>1, NumbersAssumption DEF Init, TypeOK
<1> QED BY <1>1, <1>2 DEF IInv, Init, PollsDoNotMatter, NumbersAreUsedOnce,
                          NumbersHaveTemplates

-----------------------------------------------------------------------------
(* The invariant, action by action.                                        *)

LEMMA RecurStep ==
    ASSUME IInv, NEW q \in Queues, NEW r \in Templates, NEW i \in Intervals,
           NEW offset \in Offsets, Recur(q, r, i, offset)
    PROVE  IInv'
<1> DEFINE h == [queue |-> q, interval |-> i, backlog |-> 0,
                 count |-> IF Exists(r) THEN template[r].count ELSE 0]
<1>1. h \in Hashes /\ h # Absent
  <2>1. IF Exists(r) THEN template[r].count \in 0 .. MaxChildren
        ELSE 0 \in 0 .. MaxChildren
    BY TemplateIsThere, NumbersAssumption
  <2>2. h \in Hashes
    BY <2>1 DEF Hashes
  <2> QED BY <2>2, NullsAssumption
<1>2. now + offset \in Int /\ i \in Nat
  BY NumbersAssumption, IntervalsAssumption DEF IInv, TypeOK
<1>3. template' = [template EXCEPT ![r] = h]
  BY DEF Recur, IInv, TypeOK
<1> HIDE DEF h
<1>4. /\ score' \in [Queues -> [Templates -> Int \cup {Never}]]
      /\ score'[q][r] = now + offset
      /\ \A p \in Queues, s \in Templates : s # r => score'[p][s] = score[p][s]
      /\ \A p \in Queues \ {q} : score'[p][r] = Never
  BY <1>2 DEF Recur, IInv, TypeOK, Exists
<1>5. /\ template'[r] = h /\ h.queue = q /\ h.interval = i
      /\ \A s \in Templates \ {r} : template'[s] = template[s]
      /\ template' \in [Templates -> {Absent} \cup Hashes]
  BY <1>1, <1>3 DEF IInv, TypeOK, h
<1>6. /\ first' \in [Templates -> Int] /\ first'[r] = now + offset
      /\ made' \in [Templates -> Nat] /\ made'[r] = 0
      /\ \A s \in Templates \ {r} : first'[s] = first[s] /\ made'[s] = made[s]
      /\ used' = used /\ now' = now
  BY <1>2 DEF Recur, IInv, TypeOK
<1>7. used[r] = 1 .. h.count
  <2>1. CASE Exists(r)
    BY <2>1, TemplateIsThere DEF h
  <2>2. CASE ~Exists(r)
    <3>1. h.count = 0 /\ 1 .. 0 = {}
      BY <2>2 DEF h
    <3> QED BY <2>2, <3>1 DEF IInv, NumbersHaveTemplates
  <2> QED BY <2>1, <2>2
<1>8. Sound(r)'
  <2>1. Exists(r)'
    BY <1>1, <1>5 DEF Exists
  <2>2. 0 * i = 0
    BY <1>2
  <2>3. /\ score'[template'[r].queue][r]
             = first'[r] + made'[r] * template'[r].interval
        /\ used'[r] = 1 .. template'[r].count
    BY <1>2, <1>4, <1>5, <1>6, <1>7, <2>2
  <2>4. \A p \in Queues :
            IF template'[r].queue = p THEN score'[p][r] \in Int
            ELSE score'[p][r] = Never
    BY <1>2, <1>4, <1>5
  <2> QED BY <2>1, <2>3, <2>4 DEF Sound
<1>9. \A s \in Templates \ {r} : Sound(s)'
  BY <1>4, <1>5, <1>6, Untouched, TemplateIsThere, InvIsSoundness
<1>10. Fields'
  BY <1>4, <1>5, <1>6 DEF IInv, TypeOK, Fields
<1> QED BY <1>8, <1>9, <1>10, InvIsSoundnessNext

LEMMA SetIntervalStep ==
    ASSUME IInv, NEW r \in Templates, NEW i \in Intervals, SetInterval(r, i)
    PROVE  IInv'
<1> DEFINE t == template[r]
           h == [t EXCEPT !.interval = i]
           due == score[t.queue][r]
           old == made[r] * t.interval
<1>1. /\ Exists(r) /\ t \in Hashes /\ t.queue \in Queues /\ t.interval \in Int
      /\ due \in Int /\ due = first[r] + old
  BY TemplateIsThere DEF SetInterval
<1>2. i \in Int /\ first[r] \in Int /\ old \in Int
  BY <1>1, IntervalsAssumption DEF IInv, TypeOK
<1>3. /\ h \in Hashes /\ h.queue = t.queue /\ h.interval = i
      /\ h.count = t.count
  BY <1>1 DEF Hashes
<1>4. /\ template' = [template EXCEPT ![r] = h]
      /\ score' = [score EXCEPT ![t.queue][r] = due + i - t.interval]
      /\ first' = [first EXCEPT ![r] = first[r] + old + i - t.interval]
      /\ made' = [made EXCEPT ![r] = 0]
      /\ now' = now /\ used' = used
  BY <1>1 DEF SetInterval, IInv, TypeOK
<1> HIDE DEF h, t, due, old
<1>5. /\ template'[r] = h
      /\ \A s \in Templates \ {r} : template'[s] = template[s]
      /\ template' \in [Templates -> {Absent} \cup Hashes]
  BY <1>3, <1>4 DEF IInv, TypeOK
<1>6. /\ score' \in [Queues -> [Templates -> Int \cup {Never}]]
      /\ score'[t.queue][r] = due + i - t.interval
      /\ \A p \in Queues, s \in Templates :
            s # r \/ p # t.queue => score'[p][s] = score[p][s]
  BY <1>1, <1>2, <1>4 DEF IInv, TypeOK
<1>7. /\ first' \in [Templates -> Int]
      /\ first'[r] = first[r] + old + i - t.interval
      /\ made' \in [Templates -> Nat] /\ made'[r] = 0
      /\ \A s \in Templates \ {r} : first'[s] = first[s] /\ made'[s] = made[s]
  BY <1>1, <1>2, <1>4 DEF IInv, TypeOK
<1>8. Sound(r)'
  <2>1. Exists(r)'
    BY <1>3, <1>5, NullsAssumption DEF Exists
  <2>2. 0 * i = 0
    BY <1>2
  <2>3. /\ score'[template'[r].queue][r]
             = first'[r] + made'[r] * template'[r].interval
        /\ score'[template'[r].queue][r] \in Int
    BY <1>1, <1>2, <1>3, <1>5, <1>6, <1>7, <2>2
  <2>4. /\ used'[r] = 1 .. template'[r].count
        /\ \A p \in Queues \ {t.queue} : score'[p][r] = Never
    BY <1>1, <1>3, <1>4, <1>5, <1>6, TemplateIsThere DEF t
  <2> QED BY <1>3, <1>5, <2>1, <2>3, <2>4 DEF Sound
<1>9. \A s \in Templates \ {r} : Sound(s)'
  BY <1>4, <1>5, <1>6, <1>7, Untouched, TemplateIsThere, InvIsSoundness
<1>10. Fields'
  BY <1>4, <1>5, <1>6, <1>7 DEF IInv, TypeOK, Fields
<1> QED BY <1>8, <1>9, <1>10, InvIsSoundnessNext

LEMMA SetBacklogStep ==
    ASSUME IInv, NEW r \in Templates, NEW b \in Backlogs, SetBacklog(r, b)
    PROVE  IInv'
<1> DEFINE t == template[r]
           h == [t EXCEPT !.backlog = b]
<1>1. Exists(r) /\ t \in Hashes
  BY TemplateIsThere DEF SetBacklog
<1>2. /\ h \in Hashes /\ h.queue = t.queue /\ h.interval = t.interval
      /\ h.count = t.count
  BY <1>1 DEF Hashes
<1>3. /\ template' = [template EXCEPT ![r] = h]
      /\ UNCHANGED <<now, score, first, made, used>>
  BY <1>1 DEF SetBacklog, IInv, TypeOK
<1> HIDE DEF h
<1>4. /\ template'[r] = h
      /\ \A s \in Templates \ {r} : template'[s] = template[s]
      /\ template' \in [Templates -> {Absent} \cup Hashes]
  BY <1>2, <1>3 DEF IInv, TypeOK
<1>5. Sound(r)'
  <2>1. Exists(r)'
    BY <1>2, <1>4, NullsAssumption DEF Exists
  <2>2. Sound(r)
    BY InvIsSoundness
  <2> QED BY <1>1, <1>2, <1>3, <1>4, <2>1, <2>2 DEF Sound
<1>6. \A s \in Templates \ {r} : Sound(s)'
  BY <1>3, <1>4, Untouched, TemplateIsThere, InvIsSoundness
<1>7. Fields'
  BY <1>3, <1>4 DEF IInv, TypeOK, Fields
<1> QED BY <1>5, <1>6, <1>7, InvIsSoundnessNext

LEMMA MoveStep ==
    ASSUME IInv, NEW r \in Templates, NEW q \in Queues, Move(r, q)
    PROVE  IInv'
<1> DEFINE t == template[r]
           h == [t EXCEPT !.queue = q]
           due == score[t.queue][r]
<1>1. /\ Exists(r) /\ t \in Hashes /\ t.queue \in Queues
      /\ due \in Int /\ due = first[r] + made[r] * t.interval
      /\ used[r] = 1 .. t.count
      /\ \A p \in Queues \ {t.queue} : score[p][r] = Never
  BY TemplateIsThere DEF Move
<1>2. /\ h \in Hashes /\ h.queue = q /\ h.interval = t.interval
      /\ h.count = t.count
  BY <1>1 DEF Hashes
<1>3. /\ template' = [template EXCEPT ![r] = h]
      /\ UNCHANGED <<now, first, made, used>>
  BY <1>1 DEF Move, IInv, TypeOK
<1>4. /\ score' \in [Queues -> [Templates -> Int \cup {Never}]]
      /\ score'[q][r] = due
      /\ \A p \in Queues \ {q} : score'[p][r] = Never
      /\ \A p \in Queues, s \in Templates \ {r} : score'[p][s] = score[p][s]
  BY <1>1 DEF Move, IInv, TypeOK
<1> HIDE DEF h, due, t
<1>5. /\ template'[r] = h
      /\ \A s \in Templates \ {r} : template'[s] = template[s]
      /\ template' \in [Templates -> {Absent} \cup Hashes]
  BY <1>2, <1>3 DEF IInv, TypeOK
<1>6. Sound(r)'
  <2>1. Exists(r)'
    BY <1>2, <1>5, NullsAssumption DEF Exists
  <2> QED BY <1>1, <1>2, <1>3, <1>4, <1>5, <2>1 DEF Sound
<1>7. \A s \in Templates \ {r} : Sound(s)'
  BY <1>3, <1>4, <1>5, Untouched, TemplateIsThere, InvIsSoundness
<1>8. Fields'
  BY <1>3, <1>4, <1>5 DEF IInv, TypeOK, Fields
<1> QED BY <1>6, <1>7, <1>8, InvIsSoundnessNext

LEMMA CancelStep ==
    ASSUME IInv, NEW r \in Templates, Cancel(r)
    PROVE  IInv'
<1> DEFINE t == template[r]
<1>1. /\ Exists(r) /\ t.queue \in Queues
      /\ \A p \in Queues \ {t.queue} : score[p][r] = Never
  BY TemplateIsThere DEF Cancel
<1>2. /\ score' \in [Queues -> [Templates -> Int \cup {Never}]]
      /\ \A p \in Queues : score'[p][r] = Never
      /\ \A p \in Queues, s \in Templates \ {r} : score'[p][s] = score[p][s]
  BY <1>1 DEF Cancel, IInv, TypeOK
<1>3. /\ template'[r] = Absent /\ used'[r] = {}
      /\ \A s \in Templates \ {r} :
            /\ template'[s] = template[s] /\ used'[s] = used[s]
            /\ first'[s] = first[s] /\ made'[s] = made[s]
  BY DEF Cancel, IInv, TypeOK
<1>4. Sound(r)'
  BY <1>2, <1>3 DEF Sound, Exists
<1>5. \A s \in Templates \ {r} : Sound(s)'
  BY <1>2, <1>3, Untouched, TemplateIsThere, InvIsSoundness
<1>6. Fields'
  BY <1>2 DEF Cancel, IInv, TypeOK, Fields
<1> QED BY <1>4, <1>5, <1>6, InvIsSoundnessNext

LEMMA TickStep == IInv /\ Tick => IInv'
<1> SUFFICES ASSUME IInv, Tick PROVE IInv'
  OBVIOUS
<1>1. Fields'
  BY NumbersAssumption DEF Tick, IInv, TypeOK, Fields
<1>2. \A s \in Templates : Sound(s)'
  BY Untouched, TemplateIsThere, InvIsSoundness DEF Tick
<1> QED BY <1>1, <1>2, InvIsSoundnessNext

(* A poll, seen from a template that makes n children: its count goes on,  *)
(* and so does its schedule, which begins anew where some are skipped.     *)
LEMMA PolledTemplate ==
    ASSUME TypeOK, NEW q \in Queues, NEW r \in Due(q), NEW n \in Nat
    PROVE  /\ Skipped(r, score[q][r]) \in Nat
           /\ NextDue(q, r, n) \in Int
           /\ NextDue(q, r, n) = score[q][r]
                + Skipped(r, score[q][r]) * template[r].interval
                + n * template[r].interval
<1>1. score[q][r] \in Int /\ template[r].interval \in Nat
  BY DueIsThere, HashFields
<1>2. Skipped(r, score[q][r]) \in Nat
  BY SkippedLeavesBacklog
<1>3. /\ n * template[r].interval \in Int
      /\ Skipped(r, score[q][r]) * template[r].interval \in Int
  BY <1>1, <1>2
<1> QED BY <1>1, <1>2, <1>3 DEF NextDue, From

LEMMA SoundAfterPoll ==
    ASSUME IInv, NEW q \in Queues, NEW r \in Due(q), NEW n \in Nat,
           NEW skip, skip = Skipped(r, score[q][r]),
           NEW i, i = template[r].interval,
           NEW c, c = template[r].count,
           template'[r] = [template[r] EXCEPT !.count = @ + n],
           c + n <= MaxChildren,
           score'[q][r] = NextDue(q, r, n),
           \A p \in Queues \ {q} : score'[p][r] = score[p][r],
           first'[r] = IF skip > 0 THEN first[r] + (made[r] + skip) * i
                       ELSE first[r],
           made'[r] = IF skip > 0 THEN n ELSE made[r] + n,
           used'[r] = used[r] \cup (c + 1 .. c + n)
    PROVE  /\ template'[r] \in Hashes /\ first'[r] \in Int
           /\ made'[r] \in Nat /\ used'[r] \in SUBSET (1 .. MaxChildren)
           /\ score'[q][r] \in Int
           /\ Sound(r)'
<1>1. r \in Templates
  BY DueIsThere DEF IInv
<1>2. /\ Exists(r) /\ template[r].queue = q /\ template[r] \in Hashes
      /\ i \in Nat /\ c \in 0 .. MaxChildren
      /\ score[q][r] = first[r] + made[r] * i
      /\ used[r] = 1 .. c
      /\ \A p \in Queues \ {q} : score[p][r] = Never
  BY <1>1, DueIsThere, TemplateIsThere DEF IInv
<1>3. first[r] \in Int /\ made[r] \in Nat /\ MaxChildren \in Nat
  BY <1>1, NumbersAssumption DEF IInv, TypeOK
<1>4. /\ skip \in Nat /\ NextDue(q, r, n) \in Int
      /\ NextDue(q, r, n) = score[q][r] + skip * i + n * i
  BY PolledTemplate DEF IInv
<1>5. c + n \in 0 .. MaxChildren
  BY <1>2, <1>3
<1>6. /\ template'[r] \in Hashes /\ template'[r].queue = q
      /\ template'[r].interval = i /\ template'[r].count = c + n
  BY <1>2, <1>5 DEF Hashes
<1>7. /\ first'[r] \in Int /\ made'[r] \in Nat
      /\ first[r] + made[r] * i + skip * i + n * i = first'[r] + made'[r] * i
  <2> DEFINE m == made[r]
             f == first[r]
  <2>1. i \in Int /\ m \in Int /\ skip \in Int /\ n \in Int /\ f \in Int
    BY <1>2, <1>3, <1>4
  <2> HIDE DEF m, f
  <2>2. (m + skip) * i = m * i + skip * i
    BY <2>1, ProductsAdd
  <2>6. (m + n) * i = m * i + n * i
    BY <2>1, ProductsAdd
  <2>3. m * i \in Int /\ skip * i \in Int /\ n * i \in Int /\ 0 * i = 0
    BY <2>1
  <2>4. CASE skip > 0
    <3>1. first'[r] = f + (m + skip) * i /\ made'[r] = n
      BY <2>4 DEF m, f
    <3>2. first[r] + made[r] * i = f + m * i
      BY DEF m, f
    <3> QED BY <2>1, <2>2, <2>3, <3>1, <3>2
  <2>5. CASE ~(skip > 0)
    <3>1. skip = 0
      BY <1>4, <2>5
    <3>2. first'[r] = f /\ made'[r] = m + n /\ m \in Nat
      BY <1>3, <2>5 DEF m, f
    <3>3. first[r] + made[r] * i = f + m * i
      BY DEF m, f
    <3>4. skip * i = 0
      BY <2>3, <3>1
    <3>5. made'[r] * i = m * i + n * i
      BY <2>6, <3>2, Zenon
    <3>6. first[r] + made[r] * i + skip * i + n * i = f + m * i + n * i
      BY <2>1, <2>3, <3>3, <3>4
    <3> QED BY <2>1, <2>3, <3>2, <3>5, <3>6
  <2> QED BY <2>4, <2>5
<1>8. score'[q][r] = first'[r] + made'[r] * i
  BY <1>2, <1>4, <1>7
<1>9. used'[r] = 1 .. c + n
  <2>1. (1 .. c) \cup (c + 1 .. c + n) = 1 .. c + n
    BY <1>2, <1>3
  <2> QED BY <1>2, <2>1
<1>10. used'[r] \in SUBSET (1 .. MaxChildren)
  BY <1>3, <1>5, <1>9
<1>11. Exists(r)'
  BY <1>6, NullsAssumption DEF Exists
<1>12. Sound(r)'
  BY <1>2, <1>4, <1>6, <1>8, <1>9, <1>11 DEF Sound
<1> QED BY <1>4, <1>6, <1>7, <1>10, <1>12

LEMMA MakeKeepsInv ==
    ASSUME IInv, NEW q \in Queues, NEW n \in [Due(q) -> Nat], Make(q, n)
    PROVE  IInv'
<1> DEFINE some == {r \in Due(q) : n[r] > 0}
<1>1. \A r \in Due(q) : r \in Templates
  BY DEF Due
<1>2. ASSUME NEW r \in Templates \ some
      PROVE  /\ template'[r] = template[r] /\ first'[r] = first[r]
             /\ made'[r] = made[r] /\ used'[r] = used[r]
             /\ \A p \in Queues : score'[p][r] = score[p][r]
  BY DEF IInv, TypeOK, Make
<1>3. ASSUME NEW r \in some
      PROVE  /\ template'[r] \in Hashes /\ first'[r] \in Int
             /\ made'[r] \in Nat /\ used'[r] \in SUBSET (1 .. MaxChildren)
             /\ score'[q][r] \in Int
             /\ \A p \in Queues \ {q} : score'[p][r] = score[p][r]
             /\ Sound(r)'
  <2>1. r \in Templates /\ r \in Due(q) /\ n[r] \in Nat
    BY <1>1
  <2>2. /\ template'[r] = [template[r] EXCEPT !.count = @ + n[r]]
        /\ template[r].count + n[r] <= MaxChildren
    BY <2>1 DEF Make
  <2>3. /\ score'[q][r] = NextDue(q, r, n[r])
        /\ \A p \in Queues \ {q} : score'[p][r] = score[p][r]
    BY <2>1 DEF Make, IInv, TypeOK
  <2>4. /\ first'[r] = IF Skipped(r, score[q][r]) > 0
                       THEN first[r] + (made[r] + Skipped(r, score[q][r]))
                                       * template[r].interval
                       ELSE first[r]
        /\ made'[r] = IF Skipped(r, score[q][r]) > 0 THEN n[r]
                      ELSE made[r] + n[r]
    BY <2>1 DEF Make
  <2>5. used'[r] = used[r] \cup (template[r].count + 1
                                 .. template[r].count + n[r])
    BY <2>1 DEF Make
  <2> QED BY <2>1, <2>2, <2>3, <2>4, <2>5, SoundAfterPoll
<1>4. /\ now' = now
      /\ template' = [r \in Templates |-> template'[r]]
      /\ first' = [r \in Templates |-> first'[r]]
      /\ made' = [r \in Templates |-> made'[r]]
      /\ used' = [r \in Templates |-> used'[r]]
  BY DEF Make
<1>5. score' = [p \in Queues |-> [r \in Templates |-> score'[p][r]]]
  BY DEF IInv, TypeOK, Make
<1> HIDE DEF some
<1>6. \A r \in Templates : Sound(r)'
  BY <1>2, <1>3, Untouched, TemplateIsThere, InvIsSoundness
<1>7. Fields'
  <2>1. ASSUME NEW r \in Templates
        PROVE  /\ template'[r] \in {Absent} \cup Hashes /\ first'[r] \in Int
               /\ made'[r] \in Nat /\ used'[r] \in SUBSET (1 .. MaxChildren)
    BY <1>2, <1>3 DEF IInv, TypeOK
  <2>2. ASSUME NEW p \in Queues, NEW r \in Templates
        PROVE  score'[p][r] \in Int \cup {Never}
    <3>1. score[p][r] \in Int \cup {Never}
      BY DEF IInv, TypeOK
    <3> QED BY <1>2, <1>3, <3>1
  <2>3. now' \in 0 .. MaxTime
    BY <1>4 DEF IInv, TypeOK
  <2>4. template' \in [Templates -> {Absent} \cup Hashes]
    BY <1>4, <2>1
  <2>5. first' \in [Templates -> Int] /\ made' \in [Templates -> Nat]
    BY <1>4, <2>1
  <2>6. used' \in [Templates -> SUBSET (1 .. MaxChildren)]
    BY <1>4, <2>1
  <2>7. score' \in [Queues -> [Templates -> Int \cup {Never}]]
    BY <1>5, <2>2
  <2> QED BY <2>3, <2>4, <2>5, <2>6, <2>7 DEF Fields
<1> QED BY <1>6, <1>7, InvIsSoundnessNext

LEMMA PollKeepsInv ==
    ASSUME IInv, NEW q \in Queues, NEW limit \in Limits, Poll(q, limit)
    PROVE  IInv'
<1>1. PICK turn \in Turns(q) : \E moved \in Deal(q, turn, limit) :
         Make(q, [r \in Due(q) |-> moved[turn[r]] - moved[turn[r] - 1]])
  BY DEF Poll
<1>2. PICK moved \in Deal(q, turn, limit) :
         Make(q, [r \in Due(q) |-> moved[turn[r]] - moved[turn[r] - 1]])
  BY <1>1
<1>3. \A r \in Due(q) : moved[turn[r]] - moved[turn[r] - 1] \in Nat
  BY DealtInTurn, OwedIsWhatIsDue DEF IInv
<1> QED BY <1>2, <1>3, MakeKeepsInv

LEMMA InvInductive == IInv /\ [Next]_vars => IInv'
<1> SUFFICES ASSUME IInv, [Next]_vars PROVE IInv'
  OBVIOUS
<1>1. CASE \E q \in Queues, r \in Templates, i \in Intervals, o \in Offsets :
              Recur(q, r, i, o)
  BY <1>1, RecurStep
<1>2. CASE \E r \in Templates, i \in Intervals : SetInterval(r, i)
  BY <1>2, SetIntervalStep
<1>3. CASE \E r \in Templates, b \in Backlogs : SetBacklog(r, b)
  BY <1>3, SetBacklogStep
<1>4. CASE \E r \in Templates, q \in Queues : Move(r, q)
  BY <1>4, MoveStep
<1>5. CASE \E r \in Templates : Cancel(r)
  BY <1>5, CancelStep
<1>6. CASE \E q \in Queues, limit \in Limits : Poll(q, limit)
  BY <1>6, PollKeepsInv
<1>7. CASE Tick
  BY <1>7, TickStep
<1>8. CASE UNCHANGED vars
  BY <1>8 DEF vars, IInv, TypeOK, PollsDoNotMatter, NumbersAreUsedOnce,
              NumbersHaveTemplates, Exists
<1> QED BY <1>1, <1>2, <1>3, <1>4, <1>5, <1>6, <1>7, <1>8 DEF Next

(* The invariant holds, of which the three that follow are parts.          *)
THEOREM Inductive == Spec => []IInv
BY InvInit, InvInductive, PTL DEF Spec

(* Every variable keeps values of its kind, and a template is in the set   *)
(* of its queue and in no other.                                           *)
THEOREM TypeCorrect == Spec => []TypeOK
BY Inductive, PTL DEF IInv

(* When the next child is due does not depend on when workers poll.        *)
THEOREM ScheduleIsKept == Spec => []PollsDoNotMatter
BY Inductive, PTL DEF IInv

(* The number of a child is used once while there is a template.           *)
THEOREM NumbersAreFresh == Spec => []NumbersAreUsedOnce
BY Inductive, PTL DEF IInv

-----------------------------------------------------------------------------
(* The bound on polls: the children of a poll are counted by the running   *)
(* count, each by the place it has in it.                                  *)

(* A set of naturals has a least element.                                  *)
LEMMA Least ==
    ASSUME NEW S, S \subseteq Nat, S # {}
    PROVE  \E least \in S : \A x \in S : least <= x
<1>1. PICK least \in S : \A x \in S : ~ (<<x, least>> \in OpToRel(<, Nat))
  BY NatLessThanWellFounded, WFMin, Zenon
<1>2. \A x \in S : ~ (x < least)
  BY <1>1, Zenon DEF OpToRel
<1>3. ASSUME NEW x \in S PROVE least <= x
  <2>1. x \in Nat /\ least \in Nat /\ ~ (x < least)
    BY <1>2
  <2> QED BY <2>1
<1> QED BY <1>1, <1>3

(* A running count never falls, and passes every number up to its last.    *)
RunningCount(m, N) ==
    /\ m[0] = 0
    /\ \A j \in 0 .. N : m[j] \in Nat
    /\ \A j \in 1 .. N : m[j - 1] <= m[j]

LEMMA CountNeverFalls ==
    ASSUME NEW N \in Nat, NEW m, RunningCount(m, N),
           NEW a \in 0 .. N, NEW b \in a .. N
    PROVE  m[a] <= m[b]
<1> DEFINE S == {j \in a .. N : ~ (m[a] <= m[j])}
<1>1. S = {}
  <2> SUFFICES ASSUME S # {} PROVE FALSE
    OBVIOUS
  <2>1. PICK least \in S : \A x \in S : least <= x
    <3>1. S \subseteq Nat
      OBVIOUS
    <3> HIDE DEF S
    <3> QED BY <3>1, Least
  <2>2. least \in a .. N /\ ~ (m[a] <= m[least])
    OBVIOUS
  <2>3. least # a
    BY <2>2 DEF RunningCount
  <2>4. least - 1 \in a .. N /\ least \in 1 .. N
    BY <2>2, <2>3
  <2>5. m[a] <= m[least - 1]
    <3>1. least - 1 \notin S
      BY <2>1, <2>4
    <3> QED BY <2>4, <3>1
  <2>6. m[least - 1] <= m[least]
    BY <2>4 DEF RunningCount
  <2>7. m[a] \in Nat /\ m[least] \in Nat /\ m[least - 1] \in Nat
    BY <2>4 DEF RunningCount
  <2> QED BY <2>2, <2>5, <2>6, <2>7
<1> QED BY <1>1

LEMMA CountPassesAll ==
    ASSUME NEW N \in Nat, NEW m, RunningCount(m, N), NEW x \in 1 .. m[N]
    PROVE  \E j \in 1 .. N : m[j - 1] < x /\ x <= m[j]
<1> DEFINE S == {j \in 0 .. N : x <= m[j]}
<1>1. x \in Nat /\ 1 <= x /\ x <= m[N]
  BY DEF RunningCount
<1>2. N \in S /\ S \subseteq Nat
  BY <1>1
<1>3. PICK least \in S : \A y \in S : least <= y
  BY <1>2, Least
<1>4. least # 0
  BY <1>1 DEF RunningCount
<1>5. least \in 1 .. N /\ least - 1 \in 0 .. N
  BY <1>4
<1>6. least - 1 \notin S
  BY <1>3, <1>5
<1>7. m[least - 1] \in Nat
  BY <1>5 DEF RunningCount
<1> QED BY <1>1, <1>5, <1>6, <1>7

(* The children of a step that deals by a running count are as many as it  *)
(* says in the end.                                                        *)
LEMMA ChildrenAreCounted ==
    ASSUME NEW q \in Queues, NEW D, D = Due(q),
           NEW N \in Nat, NEW turn \in Bijection(D, 1 .. N),
           NEW m, RunningCount(m, N), NEW c \in [D -> Nat],
           \A r \in D : c[r] + (m[turn[r]] - m[turn[r] - 1]) <= MaxChildren,
           \A r \in D : Made(r) = c[r] + 1 .. c[r] + (m[turn[r]] - m[turn[r] - 1])
    PROVE  Cardinality(Children(q)) = m[N]
<1> DEFINE before(r) == m[turn[r] - 1]
           after(r)  == m[turn[r]]
           place(x)  == before(x[1]) + (x[2] - c[x[1]])
           C == Children(q)
           f == [x \in C |-> place(x)]
<1>1. /\ \A r \in D : turn[r] \in 1 .. N
      /\ \A r, s \in D : turn[r] = turn[s] => r = s
      /\ \A j \in 1 .. N : \E r \in D : turn[r] = j
  BY DEF Bijection, Injection, Surjection, IsInjective
<1>2. /\ \A j \in 0 .. N : m[j] \in Nat
      /\ \A j \in 1 .. N : m[j - 1] \in Nat /\ m[j - 1] <= m[j]
  BY DEF RunningCount
<1>3. ASSUME NEW r \in D
      PROVE  /\ before(r) \in Nat /\ after(r) \in Nat /\ c[r] \in Nat
             /\ after(r) <= m[N]
  <2>1. turn[r] \in 1 .. N
    BY <1>1
  <2>2. before(r) \in Nat /\ after(r) \in Nat
    BY <1>2, <2>1
  <2>3. turn[r] \in 0 .. N /\ N \in turn[r] .. N
    BY <2>1
  <2>4. after(r) <= m[N]
    BY <2>3, CountNeverFalls
  <2> QED BY <2>2, <2>4
<1>4. ASSUME NEW r \in D, NEW s \in D, turn[r] < turn[s]
      PROVE  after(r) <= before(s)
  <2>1. turn[r] \in 1 .. N /\ turn[s] \in 1 .. N
    BY <1>1
  <2>2. turn[r] \in 0 .. N /\ turn[s] - 1 \in turn[r] .. N
    BY <1>4, <2>1
  <2> QED BY <2>2, CountNeverFalls
<1>5. ASSUME NEW r \in D, NEW s \in D, r # s
      PROVE  turn[r] < turn[s] \/ turn[s] < turn[r]
  <2>1. turn[r] \in Int /\ turn[s] \in Int /\ turn[r] # turn[s]
    BY <1>1, <1>5
  <2> QED BY <2>1
<1>6. \A r \in D : /\ Made(r) = c[r] + 1 .. c[r] + (after(r) - before(r))
                   /\ c[r] + (after(r) - before(r)) <= MaxChildren
  OBVIOUS
<1>7. ASSUME NEW v \in 1 .. m[N]
      PROVE  \E r \in D : before(r) < v /\ v <= after(r)
  <2>1. PICK j \in 1 .. N : m[j - 1] < v /\ v <= m[j]
    BY CountPassesAll
  <2> QED BY <1>1, <2>1
<1> HIDE DEF before, after
<1>8. ASSUME NEW x \in C
      PROVE  /\ x = <<x[1], x[2]>> /\ x[1] \in D /\ x[2] \in Nat
             /\ c[x[1]] + 1 <= x[2]
             /\ x[2] <= c[x[1]] + (after(x[1]) - before(x[1]))
  <2>1. x \in D \X (1 .. MaxChildren) /\ x[2] \in Made(x[1])
    BY DEF Children
  <2>2. x = <<x[1], x[2]>> /\ x[1] \in D /\ x[2] \in 1 .. MaxChildren
    BY <2>1
  <2>3. x[2] \in c[x[1]] + 1 .. c[x[1]] + (after(x[1]) - before(x[1]))
    BY <1>6, <2>1, <2>2
  <2> QED BY <2>2, <2>3
<1>9. ASSUME NEW x \in C
      PROVE  /\ place(x) \in Nat
             /\ before(x[1]) < place(x) /\ place(x) <= after(x[1])
  <2>1. before(x[1]) \in Nat /\ after(x[1]) \in Nat /\ c[x[1]] \in Nat
    BY <1>3, <1>8
  <2> QED BY <1>8, <2>1
<1>10. f \in [C -> 1 .. m[N]]
  <2> SUFFICES ASSUME NEW x \in C PROVE place(x) \in 1 .. m[N]
    OBVIOUS
  <2> HIDE DEF place
  <2>1. before(x[1]) \in Nat /\ after(x[1]) \in Nat /\ after(x[1]) <= m[N]
    BY <1>3, <1>8
  <2>2. m[N] \in Nat
    BY <1>2
  <2> QED BY <1>9, <2>1, <2>2
<1>11. f \in Injection(C, 1 .. m[N])
  <2> SUFFICES ASSUME NEW x \in C, NEW y \in C, place(x) = place(y) PROVE x = y
    BY <1>10 DEF Injection, IsInjective
  <2>1. /\ before(x[1]) \in Nat /\ after(x[1]) \in Nat
        /\ before(y[1]) \in Nat /\ after(y[1]) \in Nat /\ c[x[1]] \in Nat
        /\ x[1] \in D /\ y[1] \in D /\ x[2] \in Nat /\ y[2] \in Nat
    BY <1>3, <1>8
  <2>2. x[1] = y[1]
    <3> HIDE DEF place
    <3>1. ~ (after(x[1]) <= before(y[1])) /\ ~ (after(y[1]) <= before(x[1]))
      BY <1>9, <2>1
    <3> QED BY <1>4, <1>5, <2>1, <3>1
  <2>3. x[2] = y[2]
    BY <2>1, <2>2
  <2> QED BY <1>8, <2>2, <2>3
<1>12. f \in Surjection(C, 1 .. m[N])
  <2> SUFFICES ASSUME NEW v \in 1 .. m[N] PROVE \E x \in C : place(x) = v
    BY <1>10 DEF Surjection
  <2>1. PICK r \in D : before(r) < v /\ v <= after(r)
    BY <1>7
  <2> DEFINE k == c[r] + (v - before(r))
  <2>2. before(r) \in Nat /\ after(r) \in Nat /\ v \in Nat /\ c[r] \in Nat
    BY <1>2, <1>3
  <2>3. k \in c[r] + 1 .. c[r] + (after(r) - before(r))
    BY <2>1, <2>2
  <2>4. place(<<r, k>>) = v
    BY <2>2
  <2> HIDE DEF k
  <2>5. k \in Made(r)
    BY <1>6, <2>3
  <2>6. k \in 1 .. MaxChildren
    <3>1. c[r] + (after(r) - before(r)) <= MaxChildren
      BY <1>6
    <3> QED BY <2>2, <2>3, <3>1, NumbersAssumption
  <2>7. <<r, k>> \in C
    BY <2>5, <2>6 DEF Children
  <2> QED BY <2>4, <2>7
<1>13. m[N] \in Nat
  BY <1>2
<1>14. IsFiniteSet(1 .. m[N]) /\ Cardinality(1 .. m[N]) = m[N]
  <2>1. 1 \in Int /\ m[N] \in Int
    BY <1>13
  <2>2. /\ IsFiniteSet(1 .. m[N])
        /\ Cardinality(1 .. m[N]) = IF 1 > m[N] THEN 0 ELSE m[N] - 1 + 1
    BY <2>1, FS_Interval, Zenon
  <2> QED BY <1>13, <2>2
<1> HIDE DEF f, C
<1>15. Cardinality(C) = m[N]
  BY <1>11, <1>12, <1>14, FS_Injection
<1> QED BY <1>15 DEF C

LEMMA PollIsBounded ==
    ASSUME IInv, NEW q \in Queues, NEW limit \in Limits, Poll(q, limit)
    PROVE  /\ Cardinality(Children(q)) <= limit
           /\ \/ Cardinality(Children(q)) = limit
              \/ \A r \in Due(q) : score'[q][r] > now
           /\ \A r \in Due(q) : template[r].backlog > 0 =>
                 Cardinality(Made(r)) <= template[r].backlog + 1
<1> DEFINE N == Cardinality(Due(q))
<1>1. PICK turn \in Turns(q) : \E moved \in Deal(q, turn, limit) :
         Make(q, [r \in Due(q) |-> moved[turn[r]] - moved[turn[r] - 1]])
  BY DEF Poll
<1>2. PICK moved \in Deal(q, turn, limit) :
         Make(q, [r \in Due(q) |-> moved[turn[r]] - moved[turn[r] - 1]])
  BY <1>1
<1> DEFINE n == [r \in Due(q) |-> moved[turn[r]] - moved[turn[r] - 1]]
           c == [r \in Due(q) |-> template[r].count]
<1>3. Make(q, n)
  BY <1>2
<1>4. limit \in Nat /\ N \in Nat
  BY NumbersAssumption, DueIsFinite
<1>5. turn \in Bijection(Due(q), 1 .. N)
  BY DEF Turns
<1>6. moved[0] = 0 /\ \A j \in 0 .. N : moved[j] \in 0 .. limit
  BY DEF Deal
<1>7. ASSUME NEW r \in Due(q)
      PROVE  /\ n[r] \in 0 .. Owed(q, r) /\ Owed(q, r) \in Nat \ {0}
             /\ n[r] = moved[turn[r]] - moved[turn[r] - 1]
             /\ n[r] = Owed(q, r) \/ moved[turn[r]] = limit
             /\ turn[r] \in 1 .. N
  BY DealtInTurn, OwedIsWhatIsDue DEF IInv
<1>8. RunningCount(moved, N)
  <2>1. \A j \in 1 .. N : \E r \in Due(q) : turn[r] = j
    BY <1>5 DEF Bijection, Surjection
  <2>2. ASSUME NEW j \in 1 .. N PROVE moved[j - 1] <= moved[j]
    <3>1. PICK r \in Due(q) : turn[r] = j
      BY <2>1
    <3>2. j \in 0 .. N /\ j - 1 \in 0 .. N
      BY <1>4
    <3>3. moved[j] \in 0 .. limit /\ moved[j - 1] \in 0 .. limit
      BY <1>6, <3>2
    <3>4. moved[j] - moved[j - 1] \in 0 .. Owed(q, r)
      BY <1>7, <3>1
    <3> QED BY <1>4, <1>7, <3>3, <3>4
  <2> QED BY <1>4, <1>6, <2>2 DEF RunningCount
<1> HIDE DEF n, N
<1>9. ASSUME NEW r \in Due(q)
      PROVE  /\ c[r] = template[r].count /\ c[r] \in Nat
             /\ c[r] + n[r] <= MaxChildren
             /\ Made(r) = c[r] + 1 .. c[r] + n[r]
  <2>1. /\ r \in Templates /\ template[r].count \in 0 .. MaxChildren
        /\ used[r] = 1 .. template[r].count
    BY DueIsThere, TemplateIsThere DEF IInv
  <2>2. c[r] = template[r].count /\ c[r] \in 0 .. MaxChildren
    BY <2>1
  <2>3. n[r] \in Nat /\ MaxChildren \in Nat
    BY <1>7, NumbersAssumption
  <2> HIDE DEF c
  <2>4. CASE n[r] > 0
    <3>1. template[r].count + n[r] <= MaxChildren
      BY <1>3, <2>4 DEF Make
    <3>2. used'[r] = used[r] \cup (template[r].count + 1
                                   .. template[r].count + n[r])
      BY <1>3, <2>1, <2>4 DEF Make
    <3> QED BY <2>1, <2>2, <2>3, <3>1, <3>2 DEF Made
  <2>5. CASE n[r] = 0
    <3>1. used'[r] = used[r]
      BY <1>3, <2>1, <2>5 DEF Make
    <3> QED BY <2>1, <2>2, <2>3, <2>5, <3>1 DEF Made
  <2> QED BY <2>2, <2>3, <2>4, <2>5
<1>10. Cardinality(Children(q)) = moved[N]
  <2>1. c \in [Due(q) -> Nat]
    BY <1>9
  <2>2. \A r \in Due(q) :
           /\ c[r] + (moved[turn[r]] - moved[turn[r] - 1]) <= MaxChildren
           /\ Made(r) = c[r] + 1 .. c[r] + (moved[turn[r]] - moved[turn[r] - 1])
    BY <1>7, <1>9
  <2> HIDE DEF c
  <2> QED BY <1>4, <1>5, <1>8, <2>1, <2>2, ChildrenAreCounted
<1>11. moved[N] \in 0 .. limit
  BY <1>4, <1>6
(* With room left, each made all that it owed.                             *)
<1>12. ASSUME moved[N] # limit, NEW r \in Due(q)
       PROVE  score'[q][r] > now
  <2>1. turn[r] \in 0 .. N /\ N \in turn[r] .. N
    BY <1>4, <1>7
  <2>2. moved[turn[r]] <= moved[N] /\ moved[turn[r]] \in 0 .. limit
    BY <1>4, <1>6, <1>8, <2>1, CountNeverFalls
  <2>3. n[r] = Owed(q, r)
    BY <1>4, <1>7, <1>11, <1>12, <2>2
  <2>4. n[r] > 0 /\ r \in Templates
    BY <1>7, <2>3, DueIsThere DEF IInv
  <2>5. score'[q][r] = NextDue(q, r, n[r])
    BY <1>3, <2>4 DEF Make, IInv, TypeOK
  <2> QED BY <2>3, <2>5, OwedIsWhatIsDue DEF NextDue, IInv
<1>13. ASSUME NEW r \in Due(q), template[r].backlog > 0
       PROVE  Cardinality(Made(r)) <= template[r].backlog + 1
  <2>1. /\ n[r] <= Owed(q, r) /\ n[r] \in Nat /\ Owed(q, r) \in Nat
        /\ c[r] \in Nat /\ Made(r) = c[r] + 1 .. c[r] + n[r]
        /\ template[r].backlog \in Nat
    BY <1>7, <1>9, DueIsThere, HashFields DEF IInv
  <2>2. Owed(q, r) <= template[r].backlog + 1
    BY <1>13, OwedIsWhatIsDue DEF IInv
  <2> DEFINE from == c[r] + 1
             to   == c[r] + n[r]
  <2>3. from \in Int /\ to \in Int
    BY <2>1
  <2> HIDE DEF from, to
  <2>4. Cardinality(from .. to) = IF from > to THEN 0 ELSE to - from + 1
    BY <2>3, FS_Interval
  <2>5. Cardinality(from .. to) = n[r]
    BY <2>1, <2>4 DEF from, to
  <2> QED BY <2>1, <2>2, <2>5 DEF from, to
<1> QED BY <1>4, <1>10, <1>11, <1>12, <1>13

(* A poll makes as many children as there is room for, over all templates  *)
(* of its queue, stops short of that only when none is due any more, and   *)
(* makes one more than its backlog at most of a template that has one.     *)
THEOREM PollsMakeWhatIsDue == Spec => PollsAreBounded
<1>1. IInv /\ [Next]_vars => [PollStep]_vars
  <2> SUFFICES ASSUME IInv PROVE PollStep
    OBVIOUS
  <2> QED BY PollIsBounded DEF PollStep
<1> QED BY <1>1, Inductive, PTL DEF Spec, PollsAreBounded

=============================================================================
