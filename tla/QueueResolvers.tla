--------------------------- MODULE QueueResolvers ---------------------------
(***************************************************************************)
(* How a worker finds the queues it polls, and in which order: a           *)
(* TransformingQueueResolver that hands its queue identifiers to the       *)
(* mapping transformer and what comes out of it to the priority            *)
(* transformer (src/reqless/queue_resolvers), each of which keeps for a    *)
(* while what it read of the patterns in the store.                        *)
(*                                                                         *)
(* A pattern is a record: neg, whether it starts with '!'; star, whether   *)
(* it has a '*'; names, the names its expression matches; at, the dynamic  *)
(* identifier it stands for when it starts with '@', or NoId.  The time    *)
(* the caches look at is counted in ticks, up to TTL of them.              *)
(***************************************************************************)
EXTENDS Integers, FiniteSets, Sequences, SequencesExt

CONSTANTS
    Names,          \* the names queues have
    Ids,            \* the dynamic identifiers
    Identifiers,    \* the lists of patterns workers are started with
    Mappings,       \* what is set for the dynamic identifiers
    Priorities,     \* the lists of priority patterns that are set
    TTL,            \* how long a transformer keeps what it read, in ticks
    Default,        \* the pattern "default" of a list of priorities
    NoId,           \* the pattern is not a dynamic identifier
    None,           \* nothing has been read, or resolved
    Raised          \* the call raised ValueError

(* A plain pattern without a star is a name.                               *)
Patterns == [neg : BOOLEAN, star : BOOLEAN, names : SUBSET Names,
             at : Ids \cup {NoId}]
Dynamic  == {p \in Patterns : p.at # NoId}
Plain    == {p \in Patterns : /\ p.at = NoId
                              /\ ~ p.star => \E n \in Names : p.names = {n}}

ASSUME TTLAssumption == TTL \in Nat \ {0}
ASSUME PatternsAssumption ==
    /\ Identifiers \subseteq Seq(Plain \cup Dynamic)
    /\ Mappings \subseteq [Ids -> Seq(Plain)]
    /\ Priorities \subseteq Seq([patterns : Seq(Plain) \cup {<<Default>>},
                                 fairly : BOOLEAN])
ASSUME NullsAssumption == NoId \notin Ids /\ Raised \notin Seq(Names)

VARIABLES
    mapping,        \* the patterns of each dynamic identifier, as stored
    priorities,     \* the list of priority patterns, as stored
    known,          \* the names of the queues there are, as they are listed
    identifiers,    \* the list of this worker
    cache,          \* what each transformer read, and for how long it stays
    step,           \* where the worker is in resolve
    using,          \* the patterns the transformer at work uses
    matched,        \* what the mapping transformer made of the identifiers
    resolved,       \* what resolve returned
    age             \* the ticks since each of the two was stored, up to TTL

stored == <<mapping, priorities>>
worker == <<step, using, matched, resolved>>
vars   == <<stored, known, identifiers, cache, worker, age>>

-----------------------------------------------------------------------------
(* The entries of a list that are in S, in their order.                    *)
Among(list, S) ==
    LET kept[i \in 0 .. Len(list)] ==
          IF i = 0 THEN <<>>
          ELSE kept[i - 1] \o IF list[i] \in S THEN <<list[i]>> ELSE <<>>
    IN  kept[Len(list)]

(* The patterns for the dynamic identifiers take their place; a negated    *)
(* one negates each of them.                                               *)
Expand(map, patterns) ==
    FlattenSeq([i \in DOMAIN patterns |->
        LET p == patterns[i]
        IN  IF p.at = NoId THEN <<p>>
            ELSE [k \in DOMAIN map[p.at] |->
                    [map[p.at][k] EXCEPT !.neg = (@ # p.neg)]]])

(* Slip in Match: a queue that is listed already moves back.                *)
MatchLatest(queues, list, p) ==
    LET hits  == Among(queues, p.names)
        found == IF p.star \/ p.neg THEN hits ELSE SetToSeq(p.names)
    IN  IF list = Raised THEN Raised
        ELSE IF p.neg /\ ~ ToSet(hits) \subseteq ToSet(list) THEN Raised
        ELSE Among(list, Names \ ToSet(found))
               \o IF p.neg THEN <<>> ELSE found

(* One pattern of resolve_queue_names.  A name without '!' and '*' is      *)
(* taken whether or not there is such a queue; any other pattern is tried  *)
(* on the queues there are, and the removal of one that is not in the list *)
(* raises.                                                                 *)
Match(queues, list, p) ==
    LET hits == Among(queues, p.names)
    IN  IF list = Raised THEN Raised
        ELSE IF p.neg
        THEN IF ToSet(hits) \subseteq ToSet(list)
             THEN Among(list, Names \ ToSet(hits))
             ELSE Raised
        ELSE LET found == IF p.star THEN hits ELSE SetToSeq(p.names)
             IN  list \o Among(found, Names \ ToSet(list))

ResolveQueueNames(map, queues, patterns) ==
    LET ps == Expand(map, patterns)
        list[i \in 0 .. Len(ps)] ==
          IF i = 0 THEN <<>> ELSE Match(queues, list[i - 1], ps[i])
    IN  list[Len(ps)]

-----------------------------------------------------------------------------
(* A priority pattern is a record: patterns, a list of such patterns, and  *)
(* fairly; the list <<"default">> is the place of what no other matches.   *)
IsDefault(g) == g.patterns = <<Default>>

(* The queues one priority pattern takes of those that are left.           *)
Group(g, rest) ==
    LET list[i \in 0 .. Len(g.patterns)] ==
          IF i = 0 THEN <<>>
          ELSE IF g.patterns[i].neg
          THEN Among(list[i - 1], Names \ g.patterns[i].names)
          ELSE list[i - 1]
                 \o Among(rest, g.patterns[i].names \ ToSet(list[i - 1]))
    IN  list[Len(g.patterns)]

(* The groups found so far, what is left, and where and how that goes in.  *)
(* Slip: what a group takes is not taken from what is left.                *)
TakeGroupAndLeave(s, g) ==
    IF IsDefault(g)
    THEN [s EXCEPT !.at = Len(s.groups) + 1, !.fairly = g.fairly]
    ELSE [s EXCEPT !.groups = Append(@, [list |-> Group(g, s.rest),
                                         fairly |-> g.fairly])]

TakeGroup(s, g) ==
    IF IsDefault(g)
    THEN [s EXCEPT !.at = Len(s.groups) + 1, !.fairly = g.fairly]
    ELSE LET list == Group(g, s.rest)
         IN  [s EXCEPT !.groups = Append(@, [list |-> list,
                                             fairly |-> g.fairly]),
                       !.rest = Among(@, Names \ ToSet(list))]

(* All the groups, what is left in its place: that of the last default, or *)
(* at the end.                                                             *)
Groups(queues, list) ==
    LET taken[i \in 0 .. Len(list)] ==
          IF i = 0 THEN [groups |-> <<>>, rest |-> queues,
                         at |-> 0, fairly |-> FALSE]
          ELSE TakeGroup(taken[i - 1], list[i])
        s == taken[Len(list)]
    IN  InsertAt(s.groups, IF s.at = 0 THEN Len(s.groups) + 1 ELSE s.at,
                 [list |-> s.rest, fairly |-> s.fairly])

(* Every order a group may come out in: as found, or shuffled.             *)
Orders(group) ==
    LET D == DOMAIN group.list
    IN  IF group.fairly
        THEN {[i \in D |-> group.list[turn[i]]] : turn \in Bijection(D, D)}
        ELSE {group.list}

(* prioritize_queues: all the lists it may return.                         *)
PrioritizeQueues(queues, list) ==
    LET all == Groups(queues, list)
        lists[i \in 0 .. Len(all)] ==
          IF i = 0 THEN {<<>>}
          ELSE {front \o back : front \in lists[i - 1], back \in Orders(all[i])}
    IN  lists[Len(all)]

-----------------------------------------------------------------------------
Kinds == {"mapping", "priorities"}

Init ==
    /\ mapping \in Mappings
    /\ priorities \in Priorities
    /\ known = <<>>
    /\ identifiers \in Identifiers
    /\ cache    = [k \in Kinds |-> None]
    /\ step     = "idle"
    /\ using    = None
    /\ matched  = <<>>
    /\ resolved = None
    /\ age      = [k \in Kinds |-> 0]

Stored(k) == IF k = "mapping" THEN mapping ELSE priorities

(* What the transformer of kind k works with: what it has, unless that is  *)
(* nothing or too old, and what is stored otherwise.  Slip: what it has    *)
(* never grows old.                                                        *)
ReadOnce(k) ==
    LET new == [value |-> Stored(k), left |-> TTL]
        got == IF cache[k] = None THEN new ELSE cache[k]
    IN  /\ cache' = [cache EXCEPT ![k] = got]
        /\ using' = got.value

Read(k) ==
    LET new == [value |-> Stored(k), left |-> TTL]
        got == IF cache[k] = None THEN new
               ELSE IF cache[k].left = 0 THEN new ELSE cache[k]
    IN  /\ cache' = [cache EXCEPT ![k] = got]
        /\ using' = got.value

(* resolve, and the mapping transformer's reading of the mapping.          *)
Begin ==
    /\ step = "idle"
    /\ Read("mapping")
    /\ step' = "match"
    /\ UNCHANGED <<stored, known, identifiers, matched, resolved, age>>

(* It lists the queues there are and matches.  What it raises ends resolve.*)
MatchQueues ==
    /\ step = "match"
    /\ LET list == ResolveQueueNames(using, known, identifiers)
       IN  /\ matched' = list
           /\ step' = IF list = Raised THEN "idle" ELSE "read"
           /\ resolved' = IF list = Raised THEN Raised ELSE resolved
    /\ using' = None
    /\ UNCHANGED <<stored, known, identifiers, cache, age>>

(* The priority transformer reads the priorities and orders the list.      *)
ReadPriorities ==
    /\ step = "read"
    /\ Read("priorities")
    /\ step' = "order"
    /\ UNCHANGED <<stored, known, identifiers, matched, resolved, age>>

Order ==
    /\ step = "order"
    /\ resolved' \in PrioritizeQueues(matched, using)
    /\ step' = "idle"
    /\ using' = None
    /\ matched' = <<>>
    /\ UNCHANGED <<stored, known, identifiers, cache, age>>

(* Clients set the patterns; a queue is put into, or forgotten.            *)
SetMapping(m) ==
    /\ m # mapping
    /\ mapping' = m
    /\ age' = [age EXCEPT !["mapping"] = 0]
    /\ UNCHANGED <<priorities, known, identifiers, cache, worker>>

SetPriorities(p) ==
    /\ p # priorities
    /\ priorities' = p
    /\ age' = [age EXCEPT !["priorities"] = 0]
    /\ UNCHANGED <<mapping, known, identifiers, cache, worker>>

Appear(n) ==
    /\ n \notin ToSet(known)
    /\ known' = Append(known, n)
    /\ UNCHANGED <<stored, identifiers, cache, worker, age>>

Forget(n) ==
    /\ n \in ToSet(known)
    /\ known' = Among(known, Names \ {n})
    /\ UNCHANGED <<stored, identifiers, cache, worker, age>>

(* A tick passes.  The worker does not stop between its calls for one.     *)
Tick ==
    /\ step = "idle"
    /\ cache' = [k \in Kinds |->
                    IF cache[k] = None THEN None
                    ELSE [cache[k] EXCEPT !.left = IF @ = 0 THEN 0 ELSE @ - 1]]
    /\ age' = [k \in Kinds |-> IF age[k] = TTL THEN TTL ELSE age[k] + 1]
    /\ UNCHANGED <<stored, known, identifiers, worker>>

Next ==
    \/ Begin \/ MatchQueues \/ ReadPriorities \/ Order
    \/ \E m \in Mappings : SetMapping(m)
    \/ \E p \in Priorities : SetPriorities(p)
    \/ \E n \in Names : Appear(n) \/ Forget(n)
    \/ Tick

Spec == Init /\ [][Next]_vars

-----------------------------------------------------------------------------
(* The lists a worker works with name no queue twice, and its steps and    *)
(* caches are what they can be.                                            *)
TypeOK ==
    /\ mapping \in Mappings /\ priorities \in Priorities
    /\ IsInjective(known) /\ ToSet(known) \subseteq Names
    /\ identifiers \in Identifiers
    /\ \A k \in Kinds : cache[k] # None => cache[k].left \in 0 .. TTL
    /\ step \in {"idle", "match", "read", "order"}
    /\ matched # Raised => IsInjective(matched)
    /\ resolved \notin {None, Raised} =>
          IsInjective(resolved) /\ ToSet(resolved) \subseteq Names
    /\ age \in [Kinds -> 0 .. TTL]

(* The reference: pattern i decides about queue n when it matches n and,   *)
(* unless it is a plain name, n is a queue there is.                       *)
Decides(queues, ps, i, n) ==
    /\ n \in ps[i].names
    /\ n \in ToSet(queues) \/ (~ ps[i].neg /\ ~ ps[i].star)

(* Where n came in to stay: the first pattern that takes it after the last *)
(* that removes it, among the first k; 0 when it is not in.                *)
Entry(queues, ps, k, n) ==
    LET takes   == {i \in 1 .. k : Decides(queues, ps, i, n) /\ ~ ps[i].neg}
        removes == {i \in 1 .. k : Decides(queues, ps, i, n) /\ ps[i].neg}
        stays   == {i \in takes : \A r \in removes : r < i}
    IN  IF stays = {} THEN 0 ELSE CHOOSE i \in stays : \A t \in stays : i <= t

(* Whether n comes before m in a list.                                     *)
Before(list, n, m) ==
    \E i, k \in DOMAIN list : i < k /\ list[i] = n /\ list[k] = m

(* A queue is in the list when the last pattern that decides about it      *)
(* takes it, at the place of the first that took it since it was last      *)
(* removed; and resolve raises just when a pattern removes a queue that is *)
(* not in, so a list may serve until the day some queue is first put into. *)
MatchStep ==
    LET ps       == Expand(using, identifiers)
        place(n) == Entry(known, ps, Len(ps), n)
    IN  /\ matched' = Raised <=>
              \E i \in DOMAIN ps : \E n \in ToSet(known) \cap ps[i].names :
                 ps[i].neg /\ Entry(known, ps, i - 1, n) = 0
        /\ matched' # Raised =>
              /\ ToSet(matched') = {n \in Names : place(n) # 0}
              /\ \A i, k \in DOMAIN matched' : i < k =>
                    \/ place(matched'[i]) < place(matched'[k])
                    \/ /\ place(matched'[i]) = place(matched'[k])
                       /\ Before(known, matched'[i], matched'[k])
MatchedAsListed == [][MatchQueues => MatchStep]_vars

(* The reference for the order: a queue belongs to the first priority      *)
(* pattern whose last pattern that matches it takes it, or to the last     *)
(* "default", or after all of them.                                        *)
Claims(g, n) == ~ IsDefault(g) /\ Entry(<<n>>, g.patterns, Len(g.patterns), n) # 0

Rank(list, n) ==
    LET claimed  == {i \in DOMAIN list : Claims(list[i], n)}
        defaults == {i \in DOMAIN list : IsDefault(list[i])}
    IN  IF claimed # {} THEN CHOOSE i \in claimed : \A k \in claimed : i <= k
        ELSE IF defaults # {}
        THEN CHOOSE i \in defaults : \A k \in defaults : k <= i
        ELSE Len(list) + 1

(* Whether n may come before m: by their ranks; and those of one rank that *)
(* is not fair in the order of the patterns, or, of those nothing claims,  *)
(* as they were listed.                                                    *)
Precedes(queues, list, n, m) ==
    LET r     == Rank(list, n)
        g     == list[r]
        at(x) == Entry(queues, g.patterns, Len(g.patterns), x)
    IN  \/ r < Rank(list, m)
        \/ /\ r = Rank(list, m)
           /\ IF r > Len(list) THEN Before(queues, n, m)
              ELSE \/ g.fairly
                   \/ IsDefault(g) /\ Before(queues, n, m)
                   \/ /\ ~ IsDefault(g)
                      /\ \/ at(n) < at(m)
                         \/ at(n) = at(m) /\ Before(queues, n, m)

(* The queues come out as they went in, each once, and in that order.      *)
OrderStep ==
    LET out == resolved'
    IN  /\ IsInjective(out)
        /\ ToSet(out) = ToSet(matched)
        /\ \A i, k \in DOMAIN out : i < k => Precedes(matched, using, out[i], out[k])
OrderedByPriority == [][Order => OrderStep]_vars

(* What a transformer works with is what is stored, or was until less than *)
(* its refresh frequency ago.                                              *)
ReadStep ==
    /\ Begin => using' = mapping \/ age["mapping"] < TTL
    /\ ReadPriorities => using' = priorities \/ age["priorities"] < TTL
StalenessIsBounded == [][ReadStep]_vars
=============================================================================
