------------------------ MODULE QueueResolvers_proofs ------------------------
(***************************************************************************)
(* Proofs about QueueResolvers, for every list of patterns, every set of   *)
(* queues and every refresh frequency: what the loops of the two           *)
(* transformers make is what the references of the properties describe.    *)
(*                                                                         *)
(* The loops are recursive functions.  A function that makes the steps     *)
(* exists (StepsCanBeRepeated), so the recursive definition has the value  *)
(* its body says; and what holds before the first step, and after each if  *)
(* before it, holds after all of them (UpTo).  Both are consequences of    *)
(* the least element of a set of numbers, so that no induction theorem     *)
(* has to be instantiated.                                                 *)
(***************************************************************************)
EXTENDS QueueResolvers, FiniteSetTheorems, NaturalsInduction,
        WellFoundedInduction, TLAPS

-----------------------------------------------------------------------------
(* Numbers and steps that are repeated.                                    *)

(* A set of numbers that is not empty has a least.                         *)
LEMMA Least ==
    ASSUME NEW S, S \subseteq Nat, S # {}
    PROVE  \E least \in S : \A x \in S : least <= x
<1>1. PICK least \in S : \A x \in S : ~ (<<x, least>> \in OpToRel(<, Nat))
  BY NatLessThanWellFounded, WFMin, Zenon
<1>2. \A x \in S : ~ (x < least)
  BY <1>1, Zenon DEF OpToRel
<1>3. ASSUME NEW x \in S PROVE least <= x
  <2>1. x \in Nat /\ least \in Nat /\ ~ (x < least)
    BY <1>2
  <2> QED BY <2>1
<1> QED BY <1>1, <1>3

(* A set that has 0, and each number up to n after one it has, has all of  *)
(* them.                                                                   *)
LEMMA UpTo ==
    ASSUME NEW n \in Nat, NEW I, 0 \in I, \A i \in 1 .. n : i - 1 \in I => i \in I
    PROVE  n \in I /\ \A i \in 0 .. n : i \in I
<1> DEFINE out == {i \in 0 .. n : i \notin I}
<1> SUFFICES ASSUME out # {} PROVE FALSE
  OBVIOUS
<1>0. out \subseteq Nat
  OBVIOUS
<1>1. PICK least \in out : \A x \in out : least <= x
  <2> HIDE DEF out
  <2> QED BY <1>0, Least
<1>2. least \in 1 .. n /\ least \notin I
  BY <1>1
<1>3. least - 1 \notin out
  BY <1>1, <1>2
<1>4. least - 1 \in I
  BY <1>2, <1>3
<1> QED BY <1>2, <1>4

(* f is what n steps make of base, step by step.                           *)
Iterates(f, n, S, base, next) ==
    /\ f \in [0 .. n -> S] /\ f[0] = base
    /\ \A i \in 1 .. n : f[i] = next[<<i, f[i - 1]>>]

(* A step may be repeated: what the recursive definitions of the model     *)
(* rest on.                                                                *)
LEMMA StepsCanBeRepeated ==
    ASSUME NEW n \in Nat, NEW S, NEW base \in S, NEW next \in [(1 .. n) \X S -> S]
    PROVE  \E f : Iterates(f, n, S, base, next)
<1> DEFINE Iterated(f, k) == Iterates(f, k, S, base, next)
           I == {k \in 0 .. n : \E f : Iterated(f, k)}
<1> USE DEF Iterates
<1>1. 0 \in I
  <2> DEFINE f == [i \in 0 .. 0 |-> base]
  <2>1. f \in [0 .. 0 -> S] /\ f[0] = base /\ 1 .. 0 = {}
    OBVIOUS
  <2> HIDE DEF f
  <2>2. Iterated(f, 0)
    BY <2>1
  <2> HIDE DEF Iterated
  <2> QED BY <2>2
<1>2. ASSUME NEW k \in 1 .. n, k - 1 \in I PROVE k \in I
  <2>1. PICK f : Iterated(f, k - 1)
    BY <1>2
  <2> DEFINE g == [i \in 0 .. k |-> IF i = k THEN next[<<k, f[k - 1]>>] ELSE f[i]]
  <2>2. f[k - 1] \in S
    BY <2>1
  <2>3. next[<<k, f[k - 1]>>] \in S
    BY <2>2
  <2>4. g \in [0 .. k -> S]
    <3> SUFFICES ASSUME NEW i \in 0 .. k PROVE g[i] \in S
      OBVIOUS
    <3>1. CASE i = k
      BY <2>3, <3>1
    <3>2. CASE i # k
      <4>1. i \in 0 .. k - 1
        BY <3>2
      <4> QED BY <2>1, <3>2, <4>1
    <3> QED BY <3>1, <3>2
  <2>5. g[0] = base
    BY <2>1
  <2>6. ASSUME NEW i \in 1 .. k PROVE g[i] = next[<<i, g[i - 1]>>]
    <3>1. g[i - 1] = f[i - 1]
      OBVIOUS
    <3>2. CASE i = k
      <4>1. g[k] = next[<<k, f[k - 1]>>]
        OBVIOUS
      <4> HIDE DEF g
      <4> QED BY <3>1, <3>2, <4>1
    <3>3. CASE i # k
      <4>1. i \in 1 .. k - 1 /\ g[i] = f[i]
        BY <3>3
      <4> HIDE DEF g
      <4> QED BY <2>1, <3>1, <4>1
    <3> QED BY <3>2, <3>3
  <2> HIDE DEF g
  <2>7. Iterated(g, k)
    BY <2>4, <2>5, <2>6
  <2> HIDE DEF Iterated
  <2> QED BY <2>7
<1>3. n \in I
  <2> HIDE DEF I
  <2> QED BY <1>1, <1>2, UpTo
<1> QED BY <1>3

(* kept has what is kept of the beginnings of a list.                      *)
Keeps(kept, T, list, S) ==
    /\ kept \in [0 .. Len(list) -> Seq(T)] /\ kept[0] = <<>>
    /\ \A i \in 1 .. Len(list) :
          kept[i] = kept[i - 1] \o IF list[i] \in S THEN <<list[i]>> ELSE <<>>

(* Among, from a list of one entry to one of all of them.                  *)
LEMMA AmongKeeps ==
    ASSUME NEW T, NEW list \in Seq(T), NEW S
    PROVE  \E kept : Keeps(kept, T, list, S) /\ Among(list, S) = kept[Len(list)]
<1> DEFINE N == Len(list)
           last(i) == IF list[i] \in S THEN <<list[i]>> ELSE <<>>
           Lists == Seq(T)
           none == <<>>
           next == [x \in (1 .. N) \X Lists |-> x[2] \o last(x[1])]
           Kept(f) == f = [i \in 0 .. N |-> IF i = 0 THEN <<>> ELSE f[i - 1] \o last(i)]
<1>1. \A i \in 1 .. N : last(i) \in Lists
  OBVIOUS
<1>2. next \in [(1 .. N) \X Lists -> Lists]
  BY <1>1
<1>3. N \in Nat /\ none \in Lists
  OBVIOUS
<1>4. PICK f : /\ f \in [0 .. N -> Lists] /\ f[0] = none
               /\ \A i \in 1 .. N : f[i] = next[<<i, f[i - 1]>>]
  <2> HIDE DEF next, N, Lists, none
  <2>1. PICK f : Iterates(f, N, Lists, none, next)
    BY <1>2, <1>3, StepsCanBeRepeated
  <2> QED BY <2>1 DEF Iterates
<1>5. ASSUME NEW i \in 1 .. N PROVE f[i] = f[i - 1] \o last(i)
  <2>1. f[i - 1] \in Lists
    BY <1>4
  <2> HIDE DEF last, Lists
  <2> QED BY <1>4, <2>1
<1>6. Kept(f)
  <2> HIDE DEF last
  <2> QED BY <1>4, <1>5
<1> DEFINE kept == CHOOSE g : Kept(g)
<1>7. Kept(kept)
  <2> HIDE DEF Kept
  <2> QED BY <1>6
<1>8. Among(list, S) = kept[N]
  BY DEF Among
<1> HIDE DEF kept, last
<1>9. kept[0] = <<>> /\ \A i \in 1 .. N : kept[i] = kept[i - 1] \o last(i)
  <2>1. \A i \in 0 .. N : kept[i] = IF i = 0 THEN <<>> ELSE kept[i - 1] \o last(i)
    BY <1>7
  <2> HIDE DEF N
  <2>2. \A i \in 1 .. N : i \in 0 .. N /\ i # 0
    OBVIOUS
  <2>3. 0 \in 0 .. N
    BY <1>3
  <2>4. kept[0] = <<>>
    BY <2>1, <2>3
  <2>5. ASSUME NEW i \in 1 .. N PROVE kept[i] = kept[i - 1] \o last(i)
    BY <2>1, <2>2
  <2> QED BY <2>4, <2>5
<1>10. \A i \in 0 .. N : kept[i] = f[i]
  <2> DEFINE I == {i \in 0 .. N : kept[i] = f[i]}
  <2>1. 0 \in I
    BY <1>4, <1>9
  <2>2. ASSUME NEW i \in 1 .. N, i - 1 \in I PROVE i \in I
    <3>1. kept[i - 1] = f[i - 1]
      BY <2>2
    <3>2. kept[i] = f[i]
      BY <1>5, <1>9, <3>1
    <3> QED BY <3>2
  <2>3. \A i \in 0 .. N : i \in I
    <3> HIDE DEF I, N
    <3> QED BY <1>3, <2>1, <2>2, UpTo
  <2> QED BY <2>3
<1>11. kept \in [0 .. N -> Lists]
  <2>1. kept = [i \in 0 .. N |-> kept[i]]
    BY <1>7
  <2> HIDE DEF N, Lists
  <2> QED BY <1>4, <1>10, <2>1
<1> QED BY <1>8, <1>9, <1>11 DEF Keeps, last

(* What Among keeps: the entries that are in S, in the order of the list.  *)
LEMMA AmongIs ==
    ASSUME NEW T, NEW list \in Seq(T), NEW S
    PROVE  /\ Among(list, S) \in Seq(T)
           /\ ToSet(Among(list, S)) = ToSet(list) \cap S
           /\ \A a, b \in DOMAIN Among(list, S) :
                 a < b => Before(list, Among(list, S)[a], Among(list, S)[b])
<1>1. PICK kept : Keeps(kept, T, list, S) /\ Among(list, S) = kept[Len(list)]
  BY AmongKeeps
<1> DEFINE N == Len(list)
           Has(i) == \A n : (\E a \in DOMAIN kept[i] : kept[i][a] = n)
                               <=> n \in S /\ \E x \in 1 .. i : list[x] = n
           Sorted(i) == \A a, b \in DOMAIN kept[i] : a < b =>
                          \E x, y \in 1 .. i : x < y /\ list[x] = kept[i][a]
                                                     /\ list[y] = kept[i][b]
           I == {i \in 0 .. N : Has(i) /\ Sorted(i)}
<1>2. 0 \in I
  <2>1. kept[0] = <<>> /\ N \in Nat /\ 1 .. 0 = {} /\ DOMAIN kept[0] = {}
    BY <1>1 DEF Keeps
  <2> QED BY <2>1
<1>3. ASSUME NEW i \in 1 .. N, i - 1 \in I PROVE i \in I
  <2> DEFINE old == kept[i - 1]
             new == kept[i]
             M   == Len(old)
  <2>1. old \in Seq(T) /\ Has(i - 1) /\ Sorted(i - 1)
        /\ new = old \o IF list[i] \in S THEN <<list[i]>> ELSE <<>>
    BY <1>1, <1>3 DEF Keeps
  <2>2. M \in Nat /\ DOMAIN old = 1 .. M
    BY <2>1
  <2>3. i \in 1 .. i /\ 1 .. i = (1 .. i - 1) \cup {i}
    OBVIOUS
  <2>4. CASE list[i] \in S
    <3>1. /\ DOMAIN new = 1 .. M + 1 /\ new[M + 1] = list[i]
          /\ \A a \in 1 .. M : new[a] = old[a]
      <4> HIDE DEF new
      <4> QED BY <2>1, <2>4
    <3> HIDE DEF old, new, M
    <3>2. ASSUME NEW n
          PROVE  (\E a \in DOMAIN new : new[a] = n)
                    <=> n \in S /\ \E x \in 1 .. i : list[x] = n
      <4>1. (\E a \in DOMAIN new : new[a] = n)
               <=> n = list[i] \/ \E a \in 1 .. M : old[a] = n
        BY <2>2, <3>1
      <4>2. (\E a \in 1 .. M : old[a] = n)
               <=> n \in S /\ \E x \in 1 .. i - 1 : list[x] = n
        BY <2>1, <2>2 DEF old
      <4> QED BY <2>3, <2>4, <4>1, <4>2
    <3>3. ASSUME NEW a \in DOMAIN new, NEW b \in DOMAIN new, a < b
          PROVE  \E x, y \in 1 .. i : x < y /\ list[x] = new[a] /\ list[y] = new[b]
      <4>1. a \in 1 .. M /\ new[a] = old[a]
        BY <2>2, <3>1, <3>3
      <4>2. CASE b \in 1 .. M
        BY <2>1, <2>2, <2>3, <3>1, <3>3, <4>1, <4>2 DEF old
      <4>3. CASE b = M + 1
        <5>1. PICK x \in 1 .. i - 1 : list[x] = old[a]
          BY <2>1, <2>2, <4>1 DEF old
        <5>2. x \in 1 .. i /\ x < i
          BY <5>1
        <5> QED BY <2>3, <3>1, <4>1, <4>3, <5>1, <5>2
      <4> QED BY <2>2, <3>1, <4>2, <4>3
    <3> QED BY <3>2, <3>3 DEF new
  <2>5. CASE list[i] \notin S
    <3>1. new = old
      <4> HIDE DEF new
      <4> QED BY <2>1, <2>5
    <3> HIDE DEF old, new
    <3>2. ASSUME NEW n
          PROVE  (\E a \in DOMAIN new : new[a] = n)
                    <=> n \in S /\ \E x \in 1 .. i : list[x] = n
      <4>1. (\E a \in DOMAIN old : old[a] = n)
               <=> n \in S /\ \E x \in 1 .. i - 1 : list[x] = n
        BY <2>1 DEF old
      <4> QED BY <2>3, <2>5, <3>1, <4>1
    <3>3. ASSUME NEW a \in DOMAIN new, NEW b \in DOMAIN new, a < b
          PROVE  \E x, y \in 1 .. i : x < y /\ list[x] = new[a] /\ list[y] = new[b]
      <4>0. \A c, d \in DOMAIN old : c < d =>
               \E x, y \in 1 .. i - 1 : x < y /\ list[x] = old[c] /\ list[y] = old[d]
        BY <2>1 DEF old
      <4>1. PICK x \in 1 .. i - 1, y \in 1 .. i - 1 :
               x < y /\ list[x] = old[a] /\ list[y] = old[b]
        BY <3>1, <3>3, <4>0
      <4> QED BY <2>3, <3>1, <4>1
    <3> QED BY <3>2, <3>3 DEF new
  <2> QED BY <2>4, <2>5
<1>4. N \in I
  <2>1. N \in Nat
    OBVIOUS
  <2> HIDE DEF I, N
  <2> QED BY <1>2, <1>3, <2>1, UpTo
<1>5. kept[N] \in Seq(T) /\ DOMAIN list = 1 .. N
  BY <1>1 DEF Keeps
<1> DEFINE A == Among(list, S)
<1>6. A \in Seq(T) /\ Has(N) /\ Sorted(N) /\ kept[N] = A
  BY <1>1, <1>4, <1>5
<1>7. ToSet(A) = ToSet(list) \cap S
  BY <1>5, <1>6 DEF ToSet
<1>8. \A a, b \in DOMAIN A : a < b => Before(list, A[a], A[b])
  <2>1. \A a, b \in DOMAIN A : a < b =>
           \E x, y \in 1 .. N : x < y /\ list[x] = A[a] /\ list[y] = A[b]
    BY <1>6
  <2> HIDE DEF A
  <2> QED BY <1>5, <2>1 DEF Before
<1> QED BY <1>6, <1>7, <1>8

-----------------------------------------------------------------------------
(* Lists.                                                                  *)

(* The entries of a list are in the order of the relation R.               *)
InOrder(list, R) ==
    \A a, b \in DOMAIN list : a < b => <<list[a], list[b]>> \in R

(* What is kept of a list in some order is in that order.                  *)
LEMMA AmongInOrder ==
    ASSUME NEW T, NEW list \in Seq(T), NEW S, NEW R, InOrder(list, R)
    PROVE  InOrder(Among(list, S), R)
<1> DEFINE A == Among(list, S)
<1>1. \A a, b \in DOMAIN A : a < b => Before(list, A[a], A[b])
  BY AmongIs
<1> HIDE DEF A
<1>2. InOrder(A, R)
  <2> SUFFICES ASSUME NEW a \in DOMAIN A, NEW b \in DOMAIN A, a < b
               PROVE  <<A[a], A[b]>> \in R
    BY DEF InOrder
  <2>1. PICK x \in DOMAIN list, y \in DOMAIN list :
           x < y /\ list[x] = A[a] /\ list[y] = A[b]
    BY <1>1 DEF Before
  <2>2. <<list[x], list[y]>> \in R
    BY <2>1 DEF InOrder
  <2> QED BY <2>1, <2>2
<1> QED BY <1>2 DEF A

(* A list in an order on Names in which nothing is before itself has       *)
(* nothing twice.                                                          *)
LEMMA OrderedIsInjective ==
    ASSUME NEW T, NEW list \in Seq(T), NEW R, InOrder(list, R),
           \A n : <<n, n>> \notin R
    PROVE  IsInjective(list)
<1> SUFFICES ASSUME NEW a \in DOMAIN list, NEW b \in DOMAIN list,
                    list[a] = list[b], a # b
             PROVE  FALSE
  BY DEF IsInjective
<1>1. a \in Nat /\ b \in Nat
  OBVIOUS
<1>2. a < b \/ b < a
  BY <1>1
<1> QED BY <1>2 DEF InOrder

(* No entry of a list without duplicates comes before itself.              *)
LEMMA BeforeIsNotBack ==
    ASSUME NEW T, NEW list \in Seq(T), IsInjective(list), NEW n
    PROVE  ~ Before(list, n, n)
<1> SUFFICES ASSUME NEW i \in DOMAIN list, NEW k \in DOMAIN list,
                    i < k, list[i] = n, list[k] = n
             PROVE  FALSE
  BY DEF Before
<1>1. i = k
  BY DEF IsInjective
<1> QED BY <1>1

(* What is kept of a list without duplicates has none.                     *)
LEMMA AmongIsInjective ==
    ASSUME NEW T, NEW list \in Seq(T), IsInjective(list), NEW S
    PROVE  IsInjective(Among(list, S))
<1> DEFINE A == Among(list, S)
           R == {x \in T \X T : Before(list, x[1], x[2])}
<1>1. A \in Seq(T) /\ \A a, b \in DOMAIN A : a < b => Before(list, A[a], A[b])
  BY AmongIs
<1>2. \A n : <<n, n>> \notin R
  BY BeforeIsNotBack
<1> HIDE DEF A
<1>3. InOrder(A, R)
  BY <1>1 DEF InOrder
<1> HIDE DEF R
<1>4. IsInjective(A)
  BY <1>1, <1>2, <1>3, OrderedIsInjective
<1> QED BY <1>4 DEF A

(* The entries of a list.                                                  *)
LEMMA ToSetIs ==
    ASSUME NEW T, NEW list \in Seq(T)
    PROVE  /\ ToSet(list) \subseteq T
           /\ \A n : n \in ToSet(list) <=> \E a \in DOMAIN list : list[a] = n
BY DEF ToSet

(* Two lists, one after the other.                                         *)
LEMMA Concatenated ==
    ASSUME NEW T, NEW front \in Seq(T), NEW back \in Seq(T)
    PROVE  /\ front \o back \in Seq(T)
           /\ ToSet(front \o back) = ToSet(front) \cup ToSet(back)
<1> DEFINE all == front \o back
           F == Len(front)
           B == Len(back)
<1>1. /\ all \in Seq(T) /\ F \in Nat /\ B \in Nat
      /\ DOMAIN all = 1 .. F + B /\ DOMAIN front = 1 .. F /\ DOMAIN back = 1 .. B
      /\ \A a \in 1 .. F : all[a] = front[a]
      /\ \A b \in 1 .. B : all[F + b] = back[b]
  OBVIOUS
<1> HIDE DEF all, F, B
<1>2. ASSUME NEW n \in ToSet(all) PROVE n \in ToSet(front) \cup ToSet(back)
  <2>1. PICK a \in 1 .. F + B : all[a] = n
    BY <1>1 DEF ToSet
  <2>2. CASE a \in 1 .. F
    BY <1>1, <2>1, <2>2 DEF ToSet
  <2>3. CASE a \notin 1 .. F
    <3>1. a - F \in 1 .. B /\ F + (a - F) = a
      BY <1>1, <2>3
    <3> QED BY <1>1, <2>1, <3>1 DEF ToSet
  <2> QED BY <2>2, <2>3
<1>3. ASSUME NEW n \in ToSet(front) PROVE n \in ToSet(all)
  BY <1>1 DEF ToSet
<1>4. ASSUME NEW n \in ToSet(back) PROVE n \in ToSet(all)
  <2>1. PICK b \in 1 .. B : back[b] = n
    BY <1>1 DEF ToSet
  <2>2. F + b \in 1 .. F + B
    BY <1>1
  <2> QED BY <1>1, <2>1, <2>2 DEF ToSet
<1> QED BY <1>1, <1>2, <1>3, <1>4 DEF all

(* They are in order when each is, and the first comes before the second.  *)
LEMMA ConcatenatedInOrder ==
    ASSUME NEW T, NEW front \in Seq(T), NEW back \in Seq(T), NEW R,
           InOrder(front, R), InOrder(back, R),
           \A n \in ToSet(front), m \in ToSet(back) : <<n, m>> \in R
    PROVE  InOrder(front \o back, R)
<1> DEFINE all == front \o back
           F == Len(front)
           B == Len(back)
<1>1. /\ F \in Nat /\ B \in Nat
      /\ DOMAIN all = 1 .. F + B /\ DOMAIN front = 1 .. F /\ DOMAIN back = 1 .. B
      /\ \A a \in 1 .. F : all[a] = front[a]
      /\ \A b \in 1 .. F + B : b \notin 1 .. F => b - F \in 1 .. B /\ all[b] = back[b - F]
  OBVIOUS
<1> HIDE DEF all, F, B
<1> SUFFICES ASSUME NEW a \in 1 .. F + B, NEW b \in 1 .. F + B, a < b
             PROVE  <<all[a], all[b]>> \in R
  BY <1>1 DEF InOrder, all
<1>2. CASE a \in 1 .. F /\ b \in 1 .. F
  BY <1>1, <1>2 DEF InOrder
<1>3. CASE a \in 1 .. F /\ b \notin 1 .. F
  <2>1. all[a] \in ToSet(front) /\ all[b] \in ToSet(back)
    BY <1>1, <1>3 DEF ToSet
  <2> QED BY <2>1
<1>4. CASE a \notin 1 .. F
  <2>1. b \notin 1 .. F
    BY <1>1, <1>4
  <2>2. a - F < b - F
    BY <1>1
  <2> QED BY <1>1, <1>4, <2>1, <2>2 DEF InOrder
<1> QED BY <1>2, <1>3, <1>4

(* The list of one name.                                                   *)
LEMMA OfOne ==
    ASSUME NEW n
    PROVE  SetToSeq({n}) = <<n>>
<1>1. Cardinality({n}) = 1
  BY FS_Singleton
<1> DEFINE S == {n}
<1>2. SetToSeq({n}) = CHOOSE f \in [1 .. 1 -> S] : IsInjective(f)
  BY <1>1 DEF SetToSeq
<1>3. \A f \in [1 .. 1 -> S] : f = <<n>>
  OBVIOUS
<1>4. <<n>> \in [1 .. 1 -> S] /\ IsInjective(<<n>>)
  BY DEF IsInjective
<1> QED BY <1>2, <1>3, <1>4

-----------------------------------------------------------------------------
(* What the identifiers stand for.                                         *)

(* Lists put end to end.                                                   *)
LEMMA FlatIsList ==
    ASSUME NEW T, NEW seqs \in Seq(Seq(T))
    PROVE  FlattenSeq(seqs) \in Seq(T)
<1> DEFINE N == Len(seqs)
           Lists == Seq(T)
           none == <<>>
           next == [x \in (1 .. N) \X Lists |-> x[2] \o seqs[x[1]]]
           Flat(f) == f = [i \in 1 .. N |-> IF i = 1 THEN seqs[i]
                                            ELSE f[i - 1] \o seqs[i]]
<1>1. CASE N = 0
  BY <1>1 DEF FlattenSeq
<1>2. CASE N # 0
  <2>1. N \in Nat /\ none \in Lists /\ \A i \in 1 .. N : seqs[i] \in Lists
    OBVIOUS
  <2>2. next \in [(1 .. N) \X Lists -> Lists]
    BY <2>1
  <2>3. PICK f : /\ f \in [0 .. N -> Lists] /\ f[0] = none
                 /\ \A i \in 1 .. N : f[i] = next[<<i, f[i - 1]>>]
    <3> HIDE DEF next, N, Lists, none
    <3>1. PICK f : Iterates(f, N, Lists, none, next)
      BY <2>1, <2>2, StepsCanBeRepeated
    <3> QED BY <3>1 DEF Iterates
  <2>4. ASSUME NEW i \in 1 .. N PROVE f[i] = f[i - 1] \o seqs[i]
    <3>1. f[i - 1] \in Lists
      <4>1. i - 1 \in 0 .. N
        BY <2>1
      <4> HIDE DEF N, Lists
      <4> QED BY <2>3, <4>1
    <3> HIDE DEF Lists
    <3> QED BY <2>3, <3>1
  <2> DEFINE g == [i \in 1 .. N |-> f[i]]
  <2>5. Flat(g)
    <3>1. ASSUME NEW i \in 1 .. N, i # 1 PROVE g[i] = g[i - 1] \o seqs[i]
      <4>1. i - 1 \in 1 .. N
        BY <2>1, <3>1
      <4> HIDE DEF N
      <4>2. g[i] = f[i] /\ g[i - 1] = f[i - 1]
        BY <4>1
      <4> HIDE DEF g
      <4> QED BY <2>4, <4>2
    <3>2. g[1] = seqs[1]
      <4>1. 1 \in 1 .. N
        BY <1>2, <2>1
      <4>2. f[1] = f[1 - 1] \o seqs[1] /\ seqs[1] \in Seq(T)
        BY <2>1, <2>4, <4>1
      <4>3. f[1] = <<>> \o seqs[1]
        <5>1. 1 - 1 = 0
          OBVIOUS
        <5>2. f[1 - 1] = <<>>
          BY <2>3, <5>1
        <5> QED BY <4>2, <5>2
      <4> HIDE DEF N
      <4> QED BY <4>1, <4>2, <4>3
    <3>3. \A i \in 1 .. N : g[i] = IF i = 1 THEN seqs[i] ELSE g[i - 1] \o seqs[i]
      BY <3>1, <3>2
    <3>4. g = [i \in 1 .. N |-> g[i]]
      OBVIOUS
    <3> HIDE DEF g, N
    <3> QED BY <3>3, <3>4
  <2> DEFINE flat == CHOOSE h : Flat(h)
  <2>6. Flat(flat)
    <3> HIDE DEF Flat
    <3> QED BY <2>5
  <2>7. FlattenSeq(seqs) = flat[N]
    BY <1>2 DEF FlattenSeq
  <2> HIDE DEF flat
  <2>8. flat[1] = seqs[1] /\ \A i \in 2 .. N : flat[i] = flat[i - 1] \o seqs[i]
    <3>1. \A i \in 1 .. N : flat[i] = IF i = 1 THEN seqs[i]
                                      ELSE flat[i - 1] \o seqs[i]
      BY <2>6
    <3>2. 1 \in 1 .. N /\ \A i \in 2 .. N : i \in 1 .. N /\ i # 1
      BY <1>2, <2>1
    <3> HIDE DEF N
    <3> QED BY <3>1, <3>2
  <2> DEFINE I == {i \in 0 .. N : i # 0 => flat[i] \in Lists}
  <2>9. 0 \in I
    BY <2>1
  <2>10. ASSUME NEW i \in 1 .. N, i - 1 \in I PROVE i \in I
    <3>1. CASE i = 1
      BY <2>1, <2>8, <3>1
    <3>2. CASE i # 1
      <4>1. i \in 2 .. N /\ flat[i - 1] \in Lists /\ seqs[i] \in Lists
        BY <2>1, <2>10, <3>2
      <4>2. flat[i] = flat[i - 1] \o seqs[i]
        BY <2>8, <4>1
      <4>3. flat[i] \in Lists
        <5>1. flat[i - 1] \in Seq(T) /\ seqs[i] \in Seq(T)
          BY <4>1
        <5> HIDE DEF flat, N
        <5> QED BY <4>2, <5>1
      <4> HIDE DEF Lists
      <4> QED BY <4>3
    <3> QED BY <3>1, <3>2
  <2>11. N \in I
    <3> HIDE DEF I, N
    <3> QED BY <2>1, <2>9, <2>10, UpTo
  <2> QED BY <1>2, <2>7, <2>11
<1> QED BY <1>1, <1>2

(* What the identifiers stand for is a list of plain patterns.             *)
LEMMA ExpandedIsPlain ==
    ASSUME NEW map \in [Ids -> Seq(Plain)], NEW patterns \in Seq(Plain \cup Dynamic)
    PROVE  Expand(map, patterns) \in Seq(Plain)
<1> DEFINE turned(p, q) == [q EXCEPT !.neg = (@ # p.neg)]
           one(p) == IF p.at = NoId THEN <<p>>
                     ELSE [k \in DOMAIN map[p.at] |-> turned(p, map[p.at][k])]
           seqs == [i \in DOMAIN patterns |-> one(patterns[i])]
<1>1. ASSUME NEW p \in Plain \cup Dynamic, NEW q \in Plain
      PROVE  turned(p, q) \in Plain
  <2>1. q \in Patterns /\ q.at = NoId /\ (~ q.star => \E n \in Names : q.names = {n})
    BY DEF Plain
  <2>2. turned(p, q) \in Patterns
    BY <2>1 DEF Patterns
  <2>3. /\ turned(p, q).at = q.at /\ turned(p, q).star = q.star
        /\ turned(p, q).names = q.names
    BY <2>1 DEF Patterns
  <2> HIDE DEF turned
  <2> QED BY <2>1, <2>2, <2>3 DEF Plain
<1>2. ASSUME NEW p \in Plain \cup Dynamic PROVE one(p) \in Seq(Plain)
  <2>1. CASE p.at = NoId
    <3>1. p \in Plain
      BY <2>1 DEF Dynamic
    <3> QED BY <2>1, <3>1
  <2>2. CASE p.at # NoId
    <3>1. p.at \in Ids
      BY <2>2 DEF Dynamic, Plain, Patterns
    <3> DEFINE l == map[p.at]
    <3>2. l \in Seq(Plain) /\ DOMAIN l = 1 .. Len(l) /\ Len(l) \in Nat
      BY <3>1
    <3> HIDE DEF l, turned
    <3>3. \A k \in DOMAIN l : turned(p, l[k]) \in Plain
      BY <1>1, <3>2
    <3>4. [k \in DOMAIN l |-> turned(p, l[k])] \in Seq(Plain)
      BY <3>2, <3>3
    <3> QED BY <2>2, <3>4 DEF l
  <2> QED BY <2>1, <2>2
<1>3. seqs \in Seq(Seq(Plain))
  <2> HIDE DEF one
  <2>1. DOMAIN patterns = 1 .. Len(patterns) /\ Len(patterns) \in Nat
    OBVIOUS
  <2>2. \A i \in DOMAIN patterns : patterns[i] \in Plain \cup Dynamic
    OBVIOUS
  <2>3. \A i \in DOMAIN patterns : one(patterns[i]) \in Seq(Plain)
    BY <1>2, <2>2
  <2> QED BY <2>1, <2>3
<1>4. Expand(map, patterns) = FlattenSeq(seqs)
  BY DEF Expand
<1> HIDE DEF seqs
<1> QED BY <1>3, <1>4, FlatIsList

-----------------------------------------------------------------------------
(* The patterns where n may have come in to stay, among the first k.       *)
Stays(queues, ps, k, n) ==
    {i \in 1 .. k : /\ Decides(queues, ps, i, n) /\ ~ ps[i].neg
                    /\ \A r \in 1 .. k :
                          Decides(queues, ps, r, n) /\ ps[r].neg => r < i}

(* The entry is the first of the patterns that take the queue to stay, or  *)
(* 0.                                                                      *)
LEMMA EntryIs ==
    ASSUME NEW queues, NEW ps, NEW k \in Nat, NEW n
    PROVE  /\ Entry(queues, ps, k, n) \in 0 .. k
           /\ Stays(queues, ps, k, n) = {} => Entry(queues, ps, k, n) = 0
           /\ Stays(queues, ps, k, n) # {} =>
                 /\ Entry(queues, ps, k, n) \in Stays(queues, ps, k, n)
                 /\ \A i \in Stays(queues, ps, k, n) : Entry(queues, ps, k, n) <= i
<1> DEFINE S == Stays(queues, ps, k, n)
           E == Entry(queues, ps, k, n)
<1>1. E = IF S = {} THEN 0 ELSE CHOOSE i \in S : \A t \in S : i <= t
  <2> DEFINE takes   == {i \in 1 .. k : Decides(queues, ps, i, n) /\ ~ ps[i].neg}
             removes == {i \in 1 .. k : Decides(queues, ps, i, n) /\ ps[i].neg}
             stays   == {i \in takes : \A r \in removes : r < i}
  <2>1. stays = S
    BY DEF Stays
  <2>2. E = IF stays = {} THEN 0 ELSE CHOOSE i \in stays : \A t \in stays : i <= t
    BY DEF Entry
  <2> HIDE DEF stays, E, S
  <2> QED BY <2>1, <2>2
<1>2. S \subseteq 1 .. k
  BY DEF Stays
<1> HIDE DEF S, E
<1>3. CASE S = {}
  BY <1>1, <1>3 DEF S, E
<1>4. CASE S # {}
  <2>1. \E i \in S : \A t \in S : i <= t
    <3>1. S \subseteq Nat
      BY <1>2
    <3> QED BY <1>4, <3>1, Least
  <2>2. E \in S /\ \A t \in S : E <= t
    BY <1>1, <1>4, <2>1
  <2> QED BY <1>2, <1>4, <2>2 DEF S, E
<1> QED BY <1>3, <1>4

(* No queue has an entry among no patterns.                                *)
LEMMA EntryNever ==
    ASSUME NEW queues, NEW ps, NEW n
    PROVE  Entry(queues, ps, 0, n) = 0
BY EntryIs

(* What one more pattern makes of the entry.                               *)
LEMMA EntryNext ==
    ASSUME NEW queues, NEW ps, NEW k \in Nat \ {0}, NEW n
    PROVE  /\ ~ Decides(queues, ps, k, n) =>
                 Entry(queues, ps, k, n) = Entry(queues, ps, k - 1, n)
           /\ Decides(queues, ps, k, n) /\ ps[k].neg => Entry(queues, ps, k, n) = 0
           /\ Decides(queues, ps, k, n) /\ ~ ps[k].neg =>
                 Entry(queues, ps, k, n) =
                    IF Entry(queues, ps, k - 1, n) # 0
                    THEN Entry(queues, ps, k - 1, n) ELSE k
<1> DEFINE old == Stays(queues, ps, k - 1, n)
           new == Stays(queues, ps, k, n)
           e   == Entry(queues, ps, k - 1, n)
           f   == Entry(queues, ps, k, n)
<1>1. /\ k - 1 \in Nat /\ k \in Nat /\ 1 .. k = (1 .. k - 1) \cup {k}
      /\ \A i \in 1 .. k - 1 : i < k
  OBVIOUS
<1>2. /\ e \in 0 .. k - 1 /\ (old = {} => e = 0)
      /\ old # {} => e \in old /\ \A i \in old : e <= i
  BY <1>1, EntryIs
<1>3. /\ f \in 0 .. k /\ (new = {} => f = 0)
      /\ new # {} => f \in new /\ \A i \in new : f <= i
  BY <1>1, EntryIs
<1>4. old \subseteq 1 .. k - 1 /\ new \subseteq 1 .. k
  BY DEF Stays
<1>5. CASE ~ Decides(queues, ps, k, n)
  <2>1. new = old
    BY <1>1, <1>5 DEF Stays
  <2> HIDE DEF old, new, e, f
  <2>2. f = e
    BY <1>1, <1>2, <1>3, <1>4, <2>1
  <2> QED BY <1>5, <2>2 DEF e, f
<1>6. CASE Decides(queues, ps, k, n) /\ ps[k].neg
  <2>1. new = {}
    BY <1>1, <1>6 DEF Stays
  <2> QED BY <1>3, <1>6, <2>1
<1>7. CASE Decides(queues, ps, k, n) /\ ~ ps[k].neg
  <2>1. new = old \cup {k}
    BY <1>1, <1>7 DEF Stays
  <2> HIDE DEF old, new, e, f
  <2>2. f = IF e # 0 THEN e ELSE k
    <3>1. CASE old = {}
      BY <1>1, <1>2, <1>3, <2>1, <3>1
    <3>2. CASE old # {}
      BY <1>1, <1>2, <1>3, <1>4, <2>1, <3>2
    <3> QED BY <3>1, <3>2
  <2> QED BY <1>7, <2>2 DEF e, f
<1> QED BY <1>5, <1>6, <1>7

-----------------------------------------------------------------------------
(* One pattern of resolve_queue_names.                                     *)

(* Pattern i removes a queue that is not in the list.                      *)
Raises(queues, ps, i) ==
    /\ ps[i].neg
    /\ \E n \in ToSet(queues) \cap ps[i].names : Entry(queues, ps, i - 1, n) = 0

(* By their entries among the first k patterns, and as they are listed.    *)
EntryOrder(queues, ps, k) ==
    {x \in Names \X Names :
        \/ Entry(queues, ps, k, x[1]) < Entry(queues, ps, k, x[2])
        \/ /\ Entry(queues, ps, k, x[1]) = Entry(queues, ps, k, x[2])
           /\ Before(queues, x[1], x[2])}

(* The list is what the first k patterns make.                             *)
Matches(queues, ps, k, list) ==
    /\ list = Raised <=> \E i \in 1 .. k : Raises(queues, ps, i)
    /\ list # Raised =>
          /\ list \in Seq(Names)
          /\ ToSet(list) = {n \in Names : Entry(queues, ps, k, n) # 0}
          /\ InOrder(list, EntryOrder(queues, ps, k))

(* What a pattern that takes queues finds.                                 *)
Found(queues, p) == IF p.star THEN Among(queues, p.names) ELSE SetToSeq(p.names)

(* It finds queues the pattern matches, in the order they are listed.      *)
LEMMA FoundIs ==
    ASSUME NEW queues \in Seq(Names), NEW p \in Plain, ~ p.neg
    PROVE  /\ Found(queues, p) \in Seq(Names)
           /\ ToSet(Found(queues, p)) =
                 {n \in p.names : n \in ToSet(queues) \/ ~ p.star}
           /\ \A a, b \in DOMAIN Found(queues, p) : a < b =>
                 Before(queues, Found(queues, p)[a], Found(queues, p)[b])
<1>1. p \in Patterns /\ (~ p.star => \E n \in Names : p.names = {n})
  BY DEF Plain
<1>2. p.names \subseteq Names
  BY <1>1 DEF Patterns
<1>3. CASE p.star
  <2> DEFINE A == Among(queues, p.names)
  <2>1. /\ A \in Seq(Names) /\ ToSet(A) = ToSet(queues) \cap p.names
        /\ \A a, b \in DOMAIN A : a < b => Before(queues, A[a], A[b])
    BY AmongIs
  <2>2. Found(queues, p) = A
    BY <1>3 DEF Found
  <2> HIDE DEF A
  <2> QED BY <1>2, <1>3, <2>1, <2>2
<1>4. CASE ~ p.star
  <2>1. PICK n \in Names : p.names = {n}
    BY <1>1, <1>4
  <2>2. Found(queues, p) = <<n>>
    BY <1>4, <2>1, OfOne DEF Found
  <2>3. <<n>> \in Seq(Names) /\ ToSet(<<n>>) = {n} /\ DOMAIN <<n>> = {1}
    BY <2>1 DEF ToSet
  <2> QED BY <1>4, <2>1, <2>2, <2>3
<1> QED BY <1>1, <1>3, <1>4 DEF Patterns

(* A pattern that removes queues.                                          *)
LEMMA MatchRemoves ==
    ASSUME NEW queues, NEW list, NEW p, p.neg, list # Raised
    PROVE  Match(queues, list, p) =
              IF ToSet(Among(queues, p.names)) \subseteq ToSet(list)
              THEN Among(list, Names \ ToSet(Among(queues, p.names)))
              ELSE Raised
BY DEF Match

(* A pattern that takes queues.                                            *)
LEMMA MatchTakes ==
    ASSUME NEW queues, NEW list, NEW p, ~ p.neg, list # Raised
    PROVE  Match(queues, list, p) =
              list \o Among(Found(queues, p), Names \ ToSet(list))
BY DEF Match, Found

(* A pattern makes a list of a list, or raises.                            *)
LEMMA MatchIsList ==
    ASSUME NEW queues \in Seq(Names), NEW list \in Seq(Names) \cup {Raised}, NEW p \in Plain
    PROVE  Match(queues, list, p) \in Seq(Names) \cup {Raised}
<1>1. p.neg \in BOOLEAN
  BY DEF Plain, Patterns
<1>2. CASE list = Raised
  BY <1>2 DEF Match
<1>3. CASE list # Raised
  <2> DEFINE hits == ToSet(Among(queues, p.names))
             new  == Match(queues, list, p)
  <2>2. CASE p.neg
    <3>1. Among(list, Names \ hits) \in Seq(Names)
      BY <1>3, AmongIs
    <3>2. new = IF hits \subseteq ToSet(list) THEN Among(list, Names \ hits) ELSE Raised
      BY <1>3, <2>2, MatchRemoves
    <3> HIDE DEF hits, new
    <3> QED BY <3>1, <3>2 DEF new
  <2>3. CASE ~ p.neg
    <3>1. Found(queues, p) \in Seq(Names)
      BY <2>3, FoundIs
    <3>2. Among(Found(queues, p), Names \ ToSet(list)) \in Seq(Names)
      BY <3>1, AmongIs
    <3>3. list \o Among(Found(queues, p), Names \ ToSet(list)) \in Seq(Names)
      BY <1>3, <3>2, Concatenated
    <3> QED BY <1>3, <2>3, <3>3, MatchTakes
  <2> QED BY <1>1, <2>2, <2>3
<1> QED BY <1>2, <1>3

(* A negated pattern.                                                      *)
LEMMA RemovesRight ==
    ASSUME NEW queues \in Seq(Names), NEW ps \in Seq(Plain), NEW k \in 1 .. Len(ps),
           NEW list, list # Raised, Matches(queues, ps, k - 1, list), ps[k].neg
    PROVE  Matches(queues, ps, k, Match(queues, list, ps[k]))
<1> DEFINE e(n) == Entry(queues, ps, k - 1, n)
           f(n) == Entry(queues, ps, k, n)
           hits == ToSet(Among(queues, ps[k].names))
           new  == Match(queues, list, ps[k])
<1>1. /\ list \in Seq(Names) /\ InOrder(list, EntryOrder(queues, ps, k - 1))
      /\ ToSet(list) = {n \in Names : e(n) # 0}
      /\ \A i \in 1 .. k - 1 : ~ Raises(queues, ps, i)
  BY DEF Matches
<1>2. ps[k].neg \in BOOLEAN /\ ps[k].names \subseteq Names
  BY DEF Plain, Patterns
<1>3. new = IF hits \subseteq ToSet(list) THEN Among(list, Names \ hits) ELSE Raised
  BY MatchRemoves
<1>4. hits = ToSet(queues) \cap ps[k].names
  BY AmongIs
<1>5. \A n : f(n) = IF n \in hits THEN 0 ELSE e(n)
  <2>1. \A n : Decides(queues, ps, k, n) <=> n \in hits
    BY <1>4 DEF Decides
  <2>2. k \in Nat \ {0}
    OBVIOUS
  <2> HIDE DEF hits
  <2> SUFFICES ASSUME NEW n PROVE f(n) = IF n \in hits THEN 0 ELSE e(n)
    OBVIOUS
  <2>3. /\ ~ Decides(queues, ps, k, n) => f(n) = e(n)
        /\ Decides(queues, ps, k, n) => f(n) = 0
    BY <2>2, EntryNext
  <2> QED BY <2>1, <2>3
<1>6. Raises(queues, ps, k) <=> ~ (hits \subseteq ToSet(list))
  <2>1. Raises(queues, ps, k) <=> \E n \in hits : e(n) = 0
    BY <1>4 DEF Raises
  <2>2. hits \subseteq Names
    BY <1>2, <1>4
  <2> HIDE DEF hits, e
  <2> QED BY <1>1, <2>1, <2>2
<1>7. 1 .. k = (1 .. k - 1) \cup {k}
  OBVIOUS
<1> HIDE DEF hits, new
<1>8. CASE hits \subseteq ToSet(list)
  <2>1. new = Among(list, Names \ hits)
    BY <1>3, <1>8
  <2>2. new \in Seq(Names) /\ ToSet(new) = ToSet(list) \cap (Names \ hits)
    BY <1>1, <2>1, AmongIs
  <2>3. InOrder(new, EntryOrder(queues, ps, k - 1))
    BY <1>1, <2>1, AmongInOrder
  <2>4. ToSet(new) = {n \in Names : f(n) # 0}
    <3> HIDE DEF e, f
    <3> QED BY <1>1, <1>5, <2>2
  <2>5. InOrder(new, EntryOrder(queues, ps, k))
    <3> SUFFICES ASSUME NEW a \in DOMAIN new, NEW b \in DOMAIN new, a < b
                 PROVE  <<new[a], new[b]>> \in EntryOrder(queues, ps, k)
      BY DEF InOrder
    <3>1. <<new[a], new[b]>> \in EntryOrder(queues, ps, k - 1)
      BY <2>3 DEF InOrder
    <3>2. new[a] \in ToSet(new) /\ new[b] \in ToSet(new)
      BY DEF ToSet
    <3>3. f(new[a]) = e(new[a]) /\ f(new[b]) = e(new[b])
      BY <1>5, <2>2, <3>2
    <3> QED BY <3>1, <3>3 DEF EntryOrder
  <2>6. new # Raised
    BY <2>2, NullsAssumption
  <2> QED BY <1>1, <1>6, <1>7, <1>8, <2>2, <2>4, <2>5, <2>6 DEF Matches, new
<1>9. CASE ~ (hits \subseteq ToSet(list))
  <2>1. new = Raised
    BY <1>3, <1>9
  <2> QED BY <1>6, <1>7, <1>9, <2>1 DEF Matches, new
<1> QED BY <1>8, <1>9

(* A pattern that is not negated.                                          *)
LEMMA TakesRight ==
    ASSUME NEW queues \in Seq(Names), NEW ps \in Seq(Plain), NEW k \in 1 .. Len(ps),
           NEW list, list # Raised, Matches(queues, ps, k - 1, list), ~ ps[k].neg
    PROVE  Matches(queues, ps, k, Match(queues, list, ps[k]))
<1> DEFINE e(n) == Entry(queues, ps, k - 1, n)
           f(n) == Entry(queues, ps, k, n)
           R    == EntryOrder(queues, ps, k)
           found == Found(queues, ps[k])
           more == Among(found, Names \ ToSet(list))
           new  == Match(queues, list, ps[k])
<1>1. /\ list \in Seq(Names) /\ InOrder(list, EntryOrder(queues, ps, k - 1))
      /\ ToSet(list) = {n \in Names : e(n) # 0}
      /\ \A i \in 1 .. k - 1 : ~ Raises(queues, ps, i)
  BY DEF Matches
<1>2. ps[k] \in Plain /\ ps[k].neg \in BOOLEAN /\ ps[k].names \subseteq Names
  BY DEF Plain, Patterns
<1>3. new = list \o more
  BY MatchTakes
<1>4. /\ found \in Seq(Names)
      /\ ToSet(found) = {n \in ps[k].names : n \in ToSet(queues) \/ ~ ps[k].star}
      /\ \A a, b \in DOMAIN found : a < b => Before(queues, found[a], found[b])
  BY <1>2, FoundIs
<1>5. k \in Nat \ {0} /\ k - 1 \in Nat /\ 1 .. k = (1 .. k - 1) \cup {k}
  OBVIOUS
<1> HIDE DEF found, more
<1>6. \A n : f(n) = IF n \in ToSet(found) /\ e(n) = 0 THEN k ELSE e(n)
  <2>1. \A n : Decides(queues, ps, k, n) <=> n \in ToSet(found)
    BY <1>4 DEF Decides
  <2> QED BY <1>2, <1>5, <2>1, EntryNext
<1>7. \A n : e(n) \in 0 .. k - 1
  BY <1>5, EntryIs
<1>8. more \in Seq(Names) /\ ToSet(more) = ToSet(found) \cap (Names \ ToSet(list))
  BY <1>4, AmongIs DEF more
<1>9. new \in Seq(Names) /\ ToSet(new) = ToSet(list) \cup ToSet(more)
  BY <1>1, <1>3, <1>8, Concatenated
<1> HIDE DEF e, f, new
<1>10. ToSet(found) \subseteq Names
  BY <1>2, <1>4
<1>11. ToSet(new) = {n \in Names : f(n) # 0}
  BY <1>1, <1>5, <1>6, <1>7, <1>8, <1>9, <1>10
<1>12. \A n \in ToSet(list) : n \in Names /\ f(n) = e(n) /\ f(n) \in 1 .. k - 1
  BY <1>1, <1>6, <1>7
<1>13. \A n \in ToSet(more) : n \in Names /\ f(n) = k
  BY <1>1, <1>6, <1>8
<1>14. \A n, m \in Names : <<n, m>> \in R <=>
          f(n) < f(m) \/ (f(n) = f(m) /\ Before(queues, n, m))
  <2> SUFFICES ASSUME NEW n \in Names, NEW m \in Names
               PROVE  <<n, m>> \in R <=>
                         f(n) < f(m) \/ (f(n) = f(m) /\ Before(queues, n, m))
    OBVIOUS
  <2> QED BY DEF EntryOrder, f
<1>15. \A n, m \in Names : <<n, m>> \in EntryOrder(queues, ps, k - 1) <=>
          e(n) < e(m) \/ (e(n) = e(m) /\ Before(queues, n, m))
  <2> SUFFICES ASSUME NEW n \in Names, NEW m \in Names
               PROVE  <<n, m>> \in EntryOrder(queues, ps, k - 1) <=>
                         e(n) < e(m) \/ (e(n) = e(m) /\ Before(queues, n, m))
    OBVIOUS
  <2> QED BY DEF EntryOrder, e
<1> HIDE DEF R
<1>16. InOrder(list, R)
  <2> SUFFICES ASSUME NEW a \in DOMAIN list, NEW b \in DOMAIN list, a < b
               PROVE  <<list[a], list[b]>> \in R
    BY DEF InOrder
  <2>1. <<list[a], list[b]>> \in EntryOrder(queues, ps, k - 1)
    BY <1>1 DEF InOrder
  <2>2. list[a] \in ToSet(list) /\ list[b] \in ToSet(list)
    BY DEF ToSet
  <2> QED BY <1>12, <1>14, <1>15, <2>1, <2>2
<1>17. InOrder(more, R)
  <2>1. \A a, b \in DOMAIN more : a < b => Before(found, more[a], more[b])
    BY <1>4, AmongIs DEF more
  <2> SUFFICES ASSUME NEW a \in DOMAIN more, NEW b \in DOMAIN more, a < b
               PROVE  <<more[a], more[b]>> \in R
    BY DEF InOrder
  <2>2. Before(queues, more[a], more[b])
    BY <1>4, <2>1 DEF Before
  <2>3. more[a] \in ToSet(more) /\ more[b] \in ToSet(more)
    BY DEF ToSet
  <2> QED BY <1>13, <1>14, <2>2, <2>3
<1>18. \A n \in ToSet(list), m \in ToSet(more) : <<n, m>> \in R
  <2> SUFFICES ASSUME NEW n \in ToSet(list), NEW m \in ToSet(more)
               PROVE  <<n, m>> \in R
    OBVIOUS
  <2>1. f(n) < f(m) /\ n \in Names /\ m \in Names
    BY <1>5, <1>12, <1>13
  <2> QED BY <1>14, <2>1
<1>19. InOrder(new, R)
  BY <1>1, <1>3, <1>8, <1>16, <1>17, <1>18, ConcatenatedInOrder
<1>20. new # Raised
  BY <1>9, NullsAssumption
<1>21. ~ Raises(queues, ps, k)
  BY DEF Raises
<1> QED BY <1>1, <1>5, <1>9, <1>11, <1>19, <1>20, <1>21 DEF Matches, new, f, R

(* One more pattern, of either kind, or after one that raised.             *)
LEMMA MatchesOneMore ==
    ASSUME NEW queues \in Seq(Names), NEW ps \in Seq(Plain), NEW k \in 1 .. Len(ps),
           NEW list, Matches(queues, ps, k - 1, list)
    PROVE  Matches(queues, ps, k, Match(queues, list, ps[k]))
<1>1. CASE list = Raised
  <2>1. Match(queues, list, ps[k]) = Raised
    BY <1>1 DEF Match
  <2>2. \E i \in 1 .. k - 1 : Raises(queues, ps, i)
    BY <1>1 DEF Matches
  <2>3. \E i \in 1 .. k : Raises(queues, ps, i)
    BY <2>2
  <2> QED BY <2>1, <2>3 DEF Matches
<1>2. ps[k].neg \in BOOLEAN
  BY DEF Plain, Patterns
<1> QED BY <1>1, <1>2, RemovesRight, TakesRight

-----------------------------------------------------------------------------
(* All of them.                                                            *)

(* The empty list is what no patterns make.                                *)
LEMMA MatchesNothing ==
    ASSUME NEW queues \in Seq(Names), NEW ps
    PROVE  Matches(queues, ps, 0, <<>>)
<1>1. <<>> \in Seq(Names) /\ ToSet(<<>>) = {} /\ DOMAIN <<>> = {} /\ 1 .. 0 = {}
  BY DEF ToSet
<1>2. <<>> # Raised
  BY <1>1, NullsAssumption
<1>3. \A n : Entry(queues, ps, 0, n) = 0
  BY EntryNever
<1>4. InOrder(<<>>, EntryOrder(queues, ps, 0))
  BY <1>1 DEF InOrder
<1> QED BY <1>1, <1>2, <1>3, <1>4 DEF Matches

(* What resolve_queue_names makes of the patterns, all of them.            *)
LEMMA ResolvesRight ==
    ASSUME NEW map \in [Ids -> Seq(Plain)], NEW queues \in Seq(Names),
           NEW patterns \in Seq(Plain \cup Dynamic)
    PROVE  LET ps == Expand(map, patterns)
           IN  Matches(queues, ps, Len(ps), ResolveQueueNames(map, queues, patterns))
<1> DEFINE ps == Expand(map, patterns)
           N == Len(ps)
           Lists == Seq(Names) \cup {Raised}
           none == <<>>
           next == [x \in (1 .. N) \X Lists |-> Match(queues, x[2], ps[x[1]])]
           Made(f) == f = [i \in 0 .. N |-> IF i = 0 THEN <<>>
                                            ELSE Match(queues, f[i - 1], ps[i])]
           list == CHOOSE f : Made(f)
<1>1. ps \in Seq(Plain)
  BY ExpandedIsPlain
<1>2. ResolveQueueNames(map, queues, patterns) = list[N]
  BY DEF ResolveQueueNames
<1> HIDE DEF ps
<1>3. N \in Nat /\ none \in Lists /\ \A i \in 1 .. N : ps[i] \in Plain
  BY <1>1
<1> HIDE DEF N
<1>4. next \in [(1 .. N) \X Lists -> Lists]
  BY <1>3, MatchIsList
<1>5. PICK f : /\ f \in [0 .. N -> Lists] /\ f[0] = none
               /\ \A i \in 1 .. N : f[i] = next[<<i, f[i - 1]>>]
  <2> HIDE DEF next, Lists, none
  <2>1. PICK f : Iterates(f, N, Lists, none, next)
    BY <1>3, <1>4, StepsCanBeRepeated
  <2> QED BY <2>1 DEF Iterates
<1>6. ASSUME NEW i \in 1 .. N PROVE f[i] = Match(queues, f[i - 1], ps[i])
  <2>1. f[i - 1] \in Lists
    <3>1. i - 1 \in 0 .. N
      BY <1>3
    <3> HIDE DEF Lists
    <3> QED BY <1>5, <3>1
  <2> HIDE DEF Lists
  <2> QED BY <1>5, <2>1
<1>7. Made(f)
  <2> HIDE DEF Lists
  <2> QED BY <1>5, <1>6
<1>8. Made(list)
  <2> HIDE DEF Made
  <2> QED BY <1>7
<1> HIDE DEF list
<1>9. list[0] = <<>> /\ \A i \in 1 .. N : list[i] = Match(queues, list[i - 1], ps[i])
  <2>1. \A i \in 0 .. N : list[i] = IF i = 0 THEN <<>>
                                    ELSE Match(queues, list[i - 1], ps[i])
    BY <1>8
  <2>2. 0 \in 0 .. N /\ \A i \in 1 .. N : i \in 0 .. N /\ i # 0
    BY <1>3
  <2> QED BY <2>1, <2>2
<1> DEFINE I == {i \in 0 .. N : Matches(queues, ps, i, list[i])}
<1>10. 0 \in I
  BY <1>3, <1>9, MatchesNothing
<1>11. ASSUME NEW i \in 1 .. N, i - 1 \in I PROVE i \in I
  <2>1. Matches(queues, ps, i - 1, list[i - 1]) /\ i \in 1 .. Len(ps)
    BY <1>11 DEF N
  <2>2. Matches(queues, ps, i, Match(queues, list[i - 1], ps[i]))
    BY <1>1, <2>1, MatchesOneMore
  <2> QED BY <1>9, <2>2
<1>12. N \in I
  <2> HIDE DEF I
  <2> QED BY <1>3, <1>10, <1>11, UpTo
<1> QED BY <1>2, <1>12 DEF ps, N

(* A list that matches names no queue twice.                               *)
LEMMA MatchedIsInjective ==
    ASSUME NEW queues \in Seq(Names), IsInjective(queues), NEW ps, NEW k \in Nat,
           NEW list, list # Raised, Matches(queues, ps, k, list)
    PROVE  list \in Seq(Names) /\ IsInjective(list)
<1>1. list \in Seq(Names) /\ InOrder(list, EntryOrder(queues, ps, k))
  BY DEF Matches
<1>2. ASSUME NEW n PROVE <<n, n>> \notin EntryOrder(queues, ps, k)
  <2>1. Entry(queues, ps, k, n) \in 0 .. k
    BY EntryIs
  <2>2. ~ Before(queues, n, n)
    BY BeforeIsNotBack
  <2> QED BY <2>1, <2>2 DEF EntryOrder
<1> QED BY <1>1, <1>2, OrderedIsInjective

-----------------------------------------------------------------------------
(* What the mapping transformer has in hand.                               *)
Reading ==
    /\ mapping \in Mappings /\ priorities \in Priorities
    /\ known \in Seq(Names) /\ IsInjective(known)
    /\ identifiers \in Identifiers
    /\ step \in {"idle", "match", "read", "order"}
    /\ step = "match" => using \in Mappings
    /\ step = "order" => using \in Priorities
    /\ step \in {"read", "order"} =>
          matched \in Seq(Names) /\ IsInjective(matched)

(* The step of the mapping transformer is the one the reference describes. *)
LEMMA MatchStepIsRight ==
    ASSUME Reading, MatchQueues
    PROVE  /\ MatchStep
           /\ matched' = Raised \/ (matched' \in Seq(Names) /\ IsInjective(matched'))
<1> DEFINE ps == Expand(using, identifiers)
           N == Len(ps)
           place(n) == Entry(known, ps, N, n)
<1>1. /\ using \in [Ids -> Seq(Plain)] /\ identifiers \in Seq(Plain \cup Dynamic)
      /\ known \in Seq(Names) /\ IsInjective(known)
  BY PatternsAssumption DEF Reading, MatchQueues
<1>2. matched' = ResolveQueueNames(using, known, identifiers)
  BY DEF MatchQueues
<1>3. ps \in Seq(Plain)
  BY <1>1, ExpandedIsPlain
<1>4. Matches(known, ps, N, matched')
  BY <1>1, <1>2, ResolvesRight
<1> HIDE DEF ps
<1>5. N \in Nat /\ DOMAIN ps = 1 .. N
  BY <1>3
<1>6. matched' = Raised \/ (matched' \in Seq(Names) /\ IsInjective(matched'))
  BY <1>1, <1>4, <1>5, MatchedIsInjective
<1>7. matched' = Raised <=>
         \E i \in DOMAIN ps : \E n \in ToSet(known) \cap ps[i].names :
            ps[i].neg /\ Entry(known, ps, i - 1, n) = 0
  BY <1>4, <1>5 DEF Matches, Raises
<1>8. ASSUME matched' # Raised
      PROVE  /\ ToSet(matched') = {n \in Names : place(n) # 0}
             /\ \A i, k \in DOMAIN matched' : i < k =>
                   \/ place(matched'[i]) < place(matched'[k])
                   \/ /\ place(matched'[i]) = place(matched'[k])
                      /\ Before(known, matched'[i], matched'[k])
  <2>1. /\ matched' \in Seq(Names)
        /\ ToSet(matched') = {n \in Names : place(n) # 0}
        /\ InOrder(matched', EntryOrder(known, ps, N))
    BY <1>4, <1>8 DEF Matches
  <2>2. ASSUME NEW i \in DOMAIN matched', NEW k \in DOMAIN matched', i < k
        PROVE  \/ place(matched'[i]) < place(matched'[k])
               \/ /\ place(matched'[i]) = place(matched'[k])
                  /\ Before(known, matched'[i], matched'[k])
    <3>1. <<matched'[i], matched'[k]>> \in EntryOrder(known, ps, N)
      BY <2>1, <2>2 DEF InOrder
    <3> QED BY <3>1 DEF EntryOrder
  <2> QED BY <2>1, <2>2
<1>9. MatchStep
  <2> HIDE DEF place, N
  <2> QED BY <1>7, <1>8 DEF MatchStep, ps, place, N
<1> QED BY <1>6, <1>9

-----------------------------------------------------------------------------
(* What one priority pattern takes.                                        *)

(* The entry of a queue depends on the patterns alone when the queue is    *)
(* among those there are.                                                  *)
LEMMA EntryOfListed ==
    ASSUME NEW queues, NEW others, NEW ps, NEW k \in Nat, NEW n,
           n \in ToSet(queues), n \in ToSet(others)
    PROVE  Entry(queues, ps, k, n) = Entry(others, ps, k, n)
<1> DEFINE S == Stays(queues, ps, k, n)
           e == Entry(queues, ps, k, n)
           f == Entry(others, ps, k, n)
<1>1. S = Stays(others, ps, k, n)
  BY DEF Stays, Decides
<1>2. /\ S = {} => e = 0
      /\ S # {} => e \in S /\ \A i \in S : e <= i
  BY EntryIs
<1>3. /\ S = {} => f = 0
      /\ S # {} => f \in S /\ \A i \in S : f <= i
  BY <1>1, EntryIs
<1>4. S \subseteq Nat
  BY DEF Stays
<1> HIDE DEF S, e, f
<1>5. e = f
  <2>1. CASE S = {}
    BY <1>2, <1>3, <2>1
  <2>2. CASE S # {}
    <3>1. e \in Nat /\ f \in Nat /\ e <= f /\ f <= e
      BY <1>2, <1>3, <1>4, <2>2
    <3> QED BY <3>1
  <2> QED BY <2>1, <2>2
<1> QED BY <1>5 DEF e, f

(* The list is what the first k patterns take of those that are left.      *)
Takes(rest, ps, k, list) ==
    /\ list \in Seq(Names)
    /\ ToSet(list) = {n \in ToSet(rest) : Entry(rest, ps, k, n) # 0}
    /\ InOrder(list, EntryOrder(rest, ps, k))

(* One more pattern of a priority pattern.                                 *)
GroupStep(rest, list, p) ==
    IF p.neg THEN Among(list, Names \ p.names)
    ELSE list \o Among(rest, p.names \ ToSet(list))

(* A pattern that drops queues from the group.                             *)
LEMMA GroupDrops ==
    ASSUME NEW rest \in Seq(Names), NEW ps, NEW k \in Nat \ {0},
           NEW list, Takes(rest, ps, k - 1, list), ps[k].neg
    PROVE  Takes(rest, ps, k, GroupStep(rest, list, ps[k]))
<1> DEFINE e(n) == Entry(rest, ps, k - 1, n)
           f(n) == Entry(rest, ps, k, n)
           new  == Among(list, Names \ ps[k].names)
<1>1. /\ list \in Seq(Names) /\ InOrder(list, EntryOrder(rest, ps, k - 1))
      /\ ToSet(list) = {n \in ToSet(rest) : e(n) # 0}
  BY DEF Takes
<1>2. \A n \in ToSet(rest) : f(n) = IF n \in ps[k].names THEN 0 ELSE e(n)
  <2> SUFFICES ASSUME NEW n \in ToSet(rest)
               PROVE  f(n) = IF n \in ps[k].names THEN 0 ELSE e(n)
    OBVIOUS
  <2>1. Decides(rest, ps, k, n) <=> n \in ps[k].names
    BY DEF Decides
  <2>2. /\ ~ Decides(rest, ps, k, n) => f(n) = e(n)
        /\ Decides(rest, ps, k, n) => f(n) = 0
    BY EntryNext
  <2> QED BY <2>1, <2>2
<1>3. new \in Seq(Names) /\ ToSet(new) = ToSet(list) \cap (Names \ ps[k].names)
  BY <1>1, AmongIs
<1>4. InOrder(new, EntryOrder(rest, ps, k - 1))
  BY <1>1, AmongInOrder
<1>5. ToSet(rest) \subseteq Names
  BY ToSetIs
<1> HIDE DEF new
<1>6. ToSet(new) = {n \in ToSet(rest) : f(n) # 0}
  <2> HIDE DEF e, f
  <2> QED BY <1>1, <1>2, <1>3, <1>5
<1>7. InOrder(new, EntryOrder(rest, ps, k))
  <2> SUFFICES ASSUME NEW a \in DOMAIN new, NEW b \in DOMAIN new, a < b
               PROVE  <<new[a], new[b]>> \in EntryOrder(rest, ps, k)
    BY DEF InOrder
  <2>1. <<new[a], new[b]>> \in EntryOrder(rest, ps, k - 1)
    BY <1>4 DEF InOrder
  <2>2. new[a] \in ToSet(new) /\ new[b] \in ToSet(new)
    BY DEF ToSet
  <2>3. f(new[a]) = e(new[a]) /\ f(new[b]) = e(new[b])
    <3> HIDE DEF e, f
    <3> QED BY <1>1, <1>2, <1>3, <2>2
  <2> QED BY <2>1, <2>3 DEF EntryOrder
<1>8. GroupStep(rest, list, ps[k]) = new
  BY DEF GroupStep, new
<1> QED BY <1>3, <1>6, <1>7, <1>8 DEF Takes

(* A pattern that adds queues to the group.                                *)
LEMMA GroupAdds ==
    ASSUME NEW rest \in Seq(Names), NEW ps, NEW k \in Nat \ {0},
           NEW list, Takes(rest, ps, k - 1, list), ~ ps[k].neg
    PROVE  Takes(rest, ps, k, GroupStep(rest, list, ps[k]))
<1> DEFINE e(n) == Entry(rest, ps, k - 1, n)
           f(n) == Entry(rest, ps, k, n)
           old  == EntryOrder(rest, ps, k - 1)
           R    == EntryOrder(rest, ps, k)
           more == Among(rest, ps[k].names \ ToSet(list))
           new  == list \o more
<1>1. /\ list \in Seq(Names) /\ InOrder(list, old)
      /\ ToSet(list) = {n \in ToSet(rest) : e(n) # 0}
  BY DEF Takes
<1>2. k - 1 \in Nat
  OBVIOUS
<1>3. \A n \in ToSet(rest) :
         f(n) = IF n \in ps[k].names /\ e(n) = 0 THEN k ELSE e(n)
  <2> SUFFICES ASSUME NEW n \in ToSet(rest)
               PROVE  f(n) = IF n \in ps[k].names /\ e(n) = 0 THEN k ELSE e(n)
    OBVIOUS
  <2>1. Decides(rest, ps, k, n) <=> n \in ps[k].names
    BY DEF Decides
  <2>2. /\ ~ Decides(rest, ps, k, n) => f(n) = e(n)
        /\ Decides(rest, ps, k, n) => f(n) = IF e(n) # 0 THEN e(n) ELSE k
    BY EntryNext
  <2> HIDE DEF e, f
  <2> QED BY <2>1, <2>2
<1>4. \A n : e(n) \in 0 .. k - 1
  BY <1>2, EntryIs
<1>5. /\ more \in Seq(Names)
      /\ ToSet(more) = ToSet(rest) \cap (ps[k].names \ ToSet(list))
      /\ \A a, b \in DOMAIN more : a < b => Before(rest, more[a], more[b])
  BY AmongIs
<1> HIDE DEF more
<1>6. new \in Seq(Names) /\ ToSet(new) = ToSet(list) \cup ToSet(more)
  BY <1>1, <1>5, Concatenated
<1>7. ToSet(rest) \subseteq Names
  BY ToSetIs
<1> HIDE DEF e, f, new
<1>8. ToSet(new) = {n \in ToSet(rest) : f(n) # 0}
  BY <1>1, <1>3, <1>4, <1>5, <1>6
<1>9. \A n \in ToSet(list) : n \in Names /\ f(n) = e(n) /\ f(n) \in 1 .. k - 1
  BY <1>1, <1>3, <1>4, <1>7
<1>10. \A n \in ToSet(more) : n \in Names /\ f(n) = k
  BY <1>1, <1>3, <1>5, <1>7
<1>11. \A x \in Names \X Names : x \in R <=>
          \/ f(x[1]) < f(x[2])
          \/ f(x[1]) = f(x[2]) /\ Before(rest, x[1], x[2])
  BY DEF EntryOrder, f
<1>12. \A x \in Names \X Names : x \in old <=>
          \/ e(x[1]) < e(x[2])
          \/ e(x[1]) = e(x[2]) /\ Before(rest, x[1], x[2])
  BY DEF EntryOrder, e
<1> HIDE DEF R, old
<1>13. InOrder(list, R)
  <2> SUFFICES ASSUME NEW a \in DOMAIN list, NEW b \in DOMAIN list, a < b
               PROVE  <<list[a], list[b]>> \in R
    BY DEF InOrder
  <2>1. <<list[a], list[b]>> \in old
    BY <1>1 DEF InOrder
  <2>2. list[a] \in ToSet(list) /\ list[b] \in ToSet(list)
    BY DEF ToSet
  <2> QED BY <1>9, <1>11, <1>12, <2>1, <2>2
<1>14. InOrder(more, R)
  <2> SUFFICES ASSUME NEW a \in DOMAIN more, NEW b \in DOMAIN more, a < b
               PROVE  <<more[a], more[b]>> \in R
    BY DEF InOrder
  <2>1. Before(rest, more[a], more[b])
    BY <1>5
  <2>2. more[a] \in ToSet(more) /\ more[b] \in ToSet(more)
    BY DEF ToSet
  <2> QED BY <1>10, <1>11, <2>1, <2>2
<1>15. \A n \in ToSet(list), m \in ToSet(more) : <<n, m>> \in R
  <2> SUFFICES ASSUME NEW n \in ToSet(list), NEW m \in ToSet(more)
               PROVE  <<n, m>> \in R
    OBVIOUS
  <2>1. f(n) < f(m) /\ n \in Names /\ m \in Names
    BY <1>9, <1>10
  <2> QED BY <1>11, <2>1
<1>16. InOrder(new, R)
  BY <1>1, <1>5, <1>13, <1>14, <1>15, ConcatenatedInOrder DEF new
<1>17. GroupStep(rest, list, ps[k]) = new
  BY DEF GroupStep, new, more
<1> QED BY <1>6, <1>8, <1>16, <1>17 DEF Takes, f, R

(* A group is a list of queues, and stays one.                             *)
LEMMA GroupStepIsList ==
    ASSUME NEW rest \in Seq(Names), NEW list \in Seq(Names), NEW p
    PROVE  GroupStep(rest, list, p) \in Seq(Names)
<1>1. Among(list, Names \ p.names) \in Seq(Names)
  BY AmongIs
<1>2. Among(rest, p.names \ ToSet(list)) \in Seq(Names)
  BY AmongIs
<1>3. list \o Among(rest, p.names \ ToSet(list)) \in Seq(Names)
  BY <1>2, Concatenated
<1> QED BY <1>1, <1>3 DEF GroupStep

(* What one priority pattern takes.                                        *)
LEMMA GroupIs ==
    ASSUME NEW rest \in Seq(Names), NEW g, g.patterns \in Seq(Plain)
    PROVE  Takes(rest, g.patterns, Len(g.patterns), Group(g, rest))
<1> DEFINE ps == g.patterns
           N == Len(ps)
           Lists == Seq(Names)
           none == <<>>
           next == [x \in (1 .. N) \X Lists |-> GroupStep(rest, x[2], ps[x[1]])]
           Made(f) == f = [i \in 0 .. N |-> IF i = 0 THEN <<>>
                             ELSE IF ps[i].neg
                             THEN Among(f[i - 1], Names \ ps[i].names)
                             ELSE f[i - 1] \o Among(rest, ps[i].names \ ToSet(f[i - 1]))]
           list == CHOOSE f : Made(f)
<1>1. Group(g, rest) = list[N]
  BY DEF Group
<1>2. N \in Nat /\ none \in Lists
  OBVIOUS
<1> HIDE DEF ps, N
<1>3. next \in [(1 .. N) \X Lists -> Lists]
  BY GroupStepIsList
<1>4. PICK f : /\ f \in [0 .. N -> Lists] /\ f[0] = none
               /\ \A i \in 1 .. N : f[i] = next[<<i, f[i - 1]>>]
  <2> HIDE DEF next, Lists, none
  <2>1. PICK f : Iterates(f, N, Lists, none, next)
    BY <1>2, <1>3, StepsCanBeRepeated
  <2> QED BY <2>1 DEF Iterates
<1>5. ASSUME NEW i \in 1 .. N PROVE f[i] = GroupStep(rest, f[i - 1], ps[i])
  <2>1. f[i - 1] \in Lists
    <3>1. i - 1 \in 0 .. N
      BY <1>2
    <3> HIDE DEF Lists
    <3> QED BY <1>4, <3>1
  <2> HIDE DEF Lists
  <2> QED BY <1>4, <2>1
<1>6. Made(f)
  <2>1. f = [i \in 0 .. N |-> f[i]]
    <3> HIDE DEF Lists
    <3> QED BY <1>4
  <2>2. \A i \in 0 .. N : i # 0 => i \in 1 .. N
    BY <1>2
  <2>3. \A i \in 0 .. N : f[i] =
           IF i = 0 THEN <<>>
           ELSE IF ps[i].neg THEN Among(f[i - 1], Names \ ps[i].names)
           ELSE f[i - 1] \o Among(rest, ps[i].names \ ToSet(f[i - 1]))
    BY <1>4, <1>5, <2>2 DEF GroupStep
  <2> QED BY <2>1, <2>3
<1>7. Made(list)
  <2> HIDE DEF Made
  <2> QED BY <1>6
<1> HIDE DEF list
<1>8. list[0] = <<>>
  <2>1. 0 \in 0 .. N
    BY <1>2
  <2> QED BY <1>7, <2>1
<1>9. ASSUME NEW i \in 1 .. N PROVE list[i] = GroupStep(rest, list[i - 1], ps[i])
  <2>1. i \in 0 .. N /\ i # 0
    BY <1>2
  <2> QED BY <1>7, <2>1 DEF GroupStep
<1> DEFINE I == {i \in 0 .. N : Takes(rest, ps, i, list[i])}
<1>10. 0 \in I
  <2>1. <<>> \in Seq(Names) /\ ToSet(<<>>) = {} /\ DOMAIN <<>> = {}
    BY DEF ToSet
  <2>2. \A n : Entry(rest, ps, 0, n) = 0
    BY EntryNever
  <2>3. InOrder(<<>>, EntryOrder(rest, ps, 0))
    BY <2>1 DEF InOrder
  <2>4. Takes(rest, ps, 0, <<>>)
    BY <2>1, <2>2, <2>3 DEF Takes
  <2> QED BY <1>2, <1>8, <2>4
<1>11. ASSUME NEW i \in 1 .. N, i - 1 \in I PROVE i \in I
  <2>1. Takes(rest, ps, i - 1, list[i - 1]) /\ i \in Nat \ {0}
    BY <1>11
  <2>2. Takes(rest, ps, i, GroupStep(rest, list[i - 1], ps[i]))
    BY <2>1, GroupDrops, GroupAdds
  <2> QED BY <1>9, <2>2
<1>12. N \in I
  <2> HIDE DEF I
  <2> QED BY <1>2, <1>10, <1>11, UpTo
<1> QED BY <1>1, <1>12 DEF ps, N

-----------------------------------------------------------------------------
(* What the priority patterns divide the queues into.                      *)

PriorityPatterns == [patterns : Seq(Plain) \cup {<<Default>>}, fairly : BOOLEAN]
GroupRecords == [list : Seq(Names), fairly : BOOLEAN]
Divisions == [groups : Seq(GroupRecords), rest : Seq(Names), at : Nat, fairly : BOOLEAN]

(* As they are listed.                                                     *)
ListOrder(queues) == {x \in Names \X Names : Before(queues, x[1], x[2])}

(* Pattern h is the first of a list of priority patterns that claims n.    *)
FirstClaims(list, h, n) ==
    Claims(list[h], n) /\ \A l \in 1 .. h - 1 : ~ Claims(list[l], n)

(* The groups are those of the priority patterns that are not "default",   *)
(* among the first i: group c is that of pattern from[c].                  *)
GroupsAre(queues, list, i, groups, from) ==
    /\ from \in [1 .. Len(groups) -> 1 .. i]
    /\ \A c, d \in 1 .. Len(groups) : c < d => from[c] < from[d]
    /\ \A h \in 1 .. i : ~ IsDefault(list[h]) => \E c \in 1 .. Len(groups) : from[c] = h
    /\ \A c \in 1 .. Len(groups) :
          /\ ~ IsDefault(list[from[c]])
          /\ groups[c].fairly = list[from[c]].fairly
          /\ ToSet(groups[c].list) =
                {n \in ToSet(queues) : FirstClaims(list, from[c], n)}
          /\ InOrder(groups[c].list,
                     EntryOrder(queues, list[from[c]].patterns,
                                Len(list[from[c]].patterns)))

(* What is left is what none of the first i patterns claims.               *)
RestIs(queues, list, i, rest) ==
    /\ ToSet(rest) = {n \in ToSet(queues) : \A h \in 1 .. i : ~ Claims(list[h], n)}
    /\ InOrder(rest, ListOrder(queues))

(* It goes in where the last "default" among the first i patterns is.      *)
PlaceIs(list, i, s, from) ==
    \/ /\ s.at = 0 /\ ~ s.fairly
       /\ \A h \in 1 .. i : ~ IsDefault(list[h])
    \/ /\ s.at \in 1 .. Len(s.groups) + 1
       /\ \E d \in 1 .. i :
             /\ IsDefault(list[d]) /\ s.fairly = list[d].fairly
             /\ \A h \in 1 .. i : IsDefault(list[h]) => h <= d
             /\ \A c \in 1 .. Len(s.groups) : c < s.at <=> from[c] < d

Divides(queues, list, i, s, from) ==
    /\ GroupsAre(queues, list, i, s.groups, from)
    /\ RestIs(queues, list, i, s.rest)
    /\ PlaceIs(list, i, s, from)

-----------------------------------------------------------------------------
(* A priority pattern claims a queue when its last pattern that matches    *)
(* the queue takes it, whichever queues there are.                         *)
LEMMA ClaimsIs ==
    ASSUME NEW queues, NEW n \in ToSet(queues), NEW g, ~ IsDefault(g),
           Len(g.patterns) \in Nat
    PROVE  Claims(g, n) <=> Entry(queues, g.patterns, Len(g.patterns), n) # 0
<1>1. n \in ToSet(<<n>>)
  BY DEF ToSet
<1>2. Entry(<<n>>, g.patterns, Len(g.patterns), n) =
      Entry(queues, g.patterns, Len(g.patterns), n)
  BY <1>1, EntryOfListed
<1> QED BY <1>2 DEF Claims

(* What the division becomes with one more priority pattern.               *)
LEMMA TakeGroupIsDivision ==
    ASSUME NEW s \in Divisions, NEW g \in PriorityPatterns
    PROVE  TakeGroup(s, g) \in Divisions
<1>1. CASE IsDefault(g)
  <2>1. Len(s.groups) + 1 \in Nat /\ g.fairly \in BOOLEAN
    BY DEF Divisions, PriorityPatterns
  <2> QED BY <1>1, <2>1 DEF TakeGroup, Divisions
<1>2. CASE ~ IsDefault(g)
  <2> DEFINE l == Group(g, s.rest)
             r == Among(s.rest, Names \ ToSet(l))
             a == Append(s.groups, [list |-> l, fairly |-> g.fairly])
  <2>1. g.patterns \in Seq(Plain) /\ s.rest \in Seq(Names)
    BY <1>2 DEF PriorityPatterns, Divisions, IsDefault
  <2>2. l \in Seq(Names)
    BY <2>1, GroupIs DEF Takes
  <2>3. r \in Seq(Names)
    BY <2>1, AmongIs
  <2>4. [list |-> l, fairly |-> g.fairly] \in GroupRecords
    BY <2>2 DEF GroupRecords, PriorityPatterns
  <2>5. a \in Seq(GroupRecords)
    BY <2>4 DEF Divisions
  <2>6. TakeGroup(s, g) = [s EXCEPT !.groups = a, !.rest = r]
    BY <1>2 DEF TakeGroup
  <2> HIDE DEF a, r
  <2> QED BY <2>3, <2>5, <2>6 DEF Divisions
<1> QED BY <1>1, <1>2

(* A "default" sets the place of what is left, the last one for good.      *)
LEMMA DefaultDivides ==
    ASSUME NEW queues \in Seq(Names), NEW list \in Seq(PriorityPatterns),
           NEW i \in 1 .. Len(list), NEW s \in Divisions, NEW from,
           Divides(queues, list, i - 1, s, from), IsDefault(list[i])
    PROVE  Divides(queues, list, i, TakeGroup(s, list[i]), from)
<1> DEFINE N == Len(s.groups)
           t == TakeGroup(s, list[i])
<1>1. N \in Nat
  BY DEF Divisions
<1>2. /\ t.groups = s.groups /\ t.rest = s.rest
      /\ t.at = N + 1 /\ t.fairly = list[i].fairly
  BY DEF TakeGroup, Divisions
<1> HIDE DEF t
<1>3. 1 .. i = (1 .. i - 1) \cup {i} /\ i \in Int
  OBVIOUS
<1>4. \A n : ~ Claims(list[i], n)
  BY DEF Claims
<1>5. GroupsAre(queues, list, i, t.groups, from)
  <2>1. GroupsAre(queues, list, i - 1, s.groups, from)
    BY DEF Divides
  <2>2. from \in [1 .. N -> 1 .. i]
    BY <1>3, <2>1 DEF GroupsAre
  <2> QED BY <1>2, <1>3, <2>1, <2>2 DEF GroupsAre
<1>6. RestIs(queues, list, i, t.rest)
  BY <1>2, <1>3, <1>4 DEF Divides, RestIs
<1>7. PlaceIs(list, i, t, from)
  <2>1. t.at \in 1 .. Len(t.groups) + 1
    BY <1>1, <1>2
  <2>2. i \in 1 .. i /\ \A h \in 1 .. i : h <= i
    OBVIOUS
  <2>3. \A c \in 1 .. Len(t.groups) : c < t.at /\ from[c] < i
    <3>1. \A c \in 1 .. N : from[c] \in 1 .. i - 1
      BY DEF Divides, GroupsAre
    <3>2. \A x \in 1 .. i - 1 : x < i
      OBVIOUS
    <3>3. \A c \in 1 .. N : c < N + 1
      BY <1>1
    <3> QED BY <1>2, <3>1, <3>2, <3>3
  <2> QED BY <1>2, <2>1, <2>2, <2>3 DEF PlaceIs
<1> QED BY <1>5, <1>6, <1>7 DEF Divides, t

(* A group comes to those there are.                                       *)
LEMMA GroupDivides ==
    ASSUME NEW queues \in Seq(Names), NEW list \in Seq(PriorityPatterns),
           NEW i \in 1 .. Len(list), NEW s \in Divisions, NEW from,
           Divides(queues, list, i - 1, s, from), ~ IsDefault(list[i])
    PROVE  \E to : Divides(queues, list, i, TakeGroup(s, list[i]), to)
<1> DEFINE N == Len(s.groups)
           g == list[i]
           ps == g.patterns
           taken == Group(g, s.rest)
           left == Among(s.rest, Names \ ToSet(taken))
           new == [list |-> taken, fairly |-> g.fairly]
           t == TakeGroup(s, g)
           to == [c \in 1 .. N + 1 |-> IF c = N + 1 THEN i ELSE from[c]]
<1>1. /\ N \in Nat /\ s.rest \in Seq(Names) /\ s.groups \in Seq(GroupRecords)
      /\ g \in PriorityPatterns /\ ps \in Seq(Plain) /\ Len(ps) \in Nat
  <2>1. s.rest \in Seq(Names) /\ s.groups \in Seq(GroupRecords)
    BY DEF Divisions
  <2>2. g \in PriorityPatterns
    OBVIOUS
  <2> HIDE DEF g
  <2>3. ps \in Seq(Plain)
    BY <2>2 DEF PriorityPatterns, IsDefault, g
  <2> HIDE DEF ps
  <2> QED BY <2>1, <2>2, <2>3
<1>2. /\ t.groups = Append(s.groups, new) /\ t.rest = left
      /\ t.at = s.at /\ t.fairly = s.fairly
  BY DEF TakeGroup, Divisions
<1>3. /\ Len(t.groups) = N + 1 /\ t.groups[N + 1] = new
      /\ \A c \in 1 .. N : t.groups[c] = s.groups[c]
  BY <1>1, <1>2
<1>4. Takes(s.rest, ps, Len(ps), taken)
  BY <1>1, GroupIs
<1>5. left \in Seq(Names) /\ ToSet(left) = ToSet(s.rest) \cap (Names \ ToSet(taken))
  BY <1>1, AmongIs
<1>6. /\ GroupsAre(queues, list, i - 1, s.groups, from)
      /\ RestIs(queues, list, i - 1, s.rest) /\ PlaceIs(list, i - 1, s, from)
  BY DEF Divides
<1>7. /\ 1 .. i = (1 .. i - 1) \cup {i} /\ i \in Int
      /\ \A h \in 1 .. i - 1 : h \in Int /\ h < i
      /\ 1 .. N + 1 = (1 .. N) \cup {N + 1} /\ \A c \in 1 .. N : c < N + 1 /\ c # N + 1
  BY <1>1
<1>8. ToSet(s.rest) \subseteq Names /\ ToSet(s.rest) \subseteq ToSet(queues)
  BY <1>1, <1>6, ToSetIs DEF RestIs
<1>9. ToSet(taken) = {n \in ToSet(queues) : FirstClaims(list, i, n)}
  <2>1. ToSet(taken) = {n \in ToSet(s.rest) : Entry(s.rest, ps, Len(ps), n) # 0}
    BY <1>4 DEF Takes
  <2>2. \A n \in ToSet(s.rest) : Claims(g, n) <=> Entry(s.rest, ps, Len(ps), n) # 0
    BY <1>1, ClaimsIs
  <2>3. ToSet(s.rest) = {n \in ToSet(queues) :
                            \A h \in 1 .. i - 1 : ~ Claims(list[h], n)}
    BY <1>6 DEF RestIs
  <2> HIDE DEF taken, ps
  <2> QED BY <2>1, <2>2, <2>3 DEF FirstClaims
<1>10. InOrder(taken, EntryOrder(queues, ps, Len(ps)))
  <2>1. taken \in Seq(Names) /\ InOrder(taken, EntryOrder(s.rest, ps, Len(ps)))
        /\ ToSet(taken) \subseteq ToSet(s.rest)
    BY <1>4 DEF Takes
  <2> HIDE DEF taken, ps
  <2> SUFFICES ASSUME NEW a \in DOMAIN taken, NEW b \in DOMAIN taken, a < b
               PROVE  <<taken[a], taken[b]>> \in EntryOrder(queues, ps, Len(ps))
    BY DEF InOrder
  <2>2. <<taken[a], taken[b]>> \in EntryOrder(s.rest, ps, Len(ps))
    BY <2>1 DEF InOrder
  <2>3. taken[a] \in ToSet(s.rest) /\ taken[b] \in ToSet(s.rest)
    BY <2>1 DEF ToSet
  <2>4. \A n \in ToSet(s.rest) :
           Entry(s.rest, ps, Len(ps), n) = Entry(queues, ps, Len(ps), n)
    BY <1>1, <1>8, EntryOfListed
  <2>5. ASSUME NEW n, NEW m, Before(s.rest, n, m) PROVE Before(queues, n, m)
    <3>1. PICK x \in DOMAIN s.rest, y \in DOMAIN s.rest :
             x < y /\ s.rest[x] = n /\ s.rest[y] = m
      BY <2>5 DEF Before
    <3>2. <<n, m>> \in ListOrder(queues)
      BY <1>6, <3>1 DEF RestIs, InOrder
    <3> QED BY <3>2 DEF ListOrder
  <2> QED BY <2>2, <2>3, <2>4, <2>5 DEF EntryOrder
<1> HIDE DEF taken, left, t
<1>11. GroupsAre(queues, list, i, t.groups, to)
  <2>1. /\ from \in [1 .. N -> 1 .. i - 1]
        /\ \A c, d \in 1 .. N : c < d => from[c] < from[d]
        /\ \A h \in 1 .. i - 1 : ~ IsDefault(list[h]) => \E c \in 1 .. N : from[c] = h
    BY <1>6 DEF GroupsAre
  <2>2. /\ to[N + 1] = i /\ \A c \in 1 .. N : to[c] = from[c]
        /\ to \in [1 .. N + 1 -> 1 .. i]
    BY <1>1, <1>7, <2>1
  <2> HIDE DEF to, N, g
  <2>3. \A c, d \in 1 .. N + 1 : c < d => to[c] < to[d]
    <3> SUFFICES ASSUME NEW c \in 1 .. N + 1, NEW d \in 1 .. N + 1, c < d
                 PROVE  to[c] < to[d]
      OBVIOUS
    <3>1. c \in 1 .. N
      BY <1>1
    <3>2. CASE d \in 1 .. N
      BY <2>1, <2>2, <3>1, <3>2
    <3>3. CASE d = N + 1
      <4>1. from[c] \in 1 .. i - 1
        BY <2>1, <3>1
      <4> QED BY <1>7, <2>2, <3>1, <3>3, <4>1
    <3> QED BY <1>7, <3>2, <3>3
  <2>4. \A h \in 1 .. i : ~ IsDefault(list[h]) => \E c \in 1 .. N + 1 : to[c] = h
    <3> SUFFICES ASSUME NEW h \in 1 .. i, ~ IsDefault(list[h])
                 PROVE  \E c \in 1 .. N + 1 : to[c] = h
      OBVIOUS
    <3>1. CASE h = i
      BY <1>7, <2>2, <3>1
    <3>2. CASE h \in 1 .. i - 1
      <4>1. PICK c \in 1 .. N : from[c] = h
        BY <2>1, <3>2
      <4> QED BY <1>7, <2>2, <4>1
    <3> QED BY <1>7, <3>1, <3>2
  <2>5. ASSUME NEW c \in 1 .. N + 1
        PROVE  /\ ~ IsDefault(list[to[c]])
               /\ t.groups[c].fairly = list[to[c]].fairly
               /\ ToSet(t.groups[c].list) =
                     {n \in ToSet(queues) : FirstClaims(list, to[c], n)}
               /\ InOrder(t.groups[c].list,
                          EntryOrder(queues, list[to[c]].patterns,
                                     Len(list[to[c]].patterns)))
    <3>1. CASE c \in 1 .. N
      BY <1>3, <1>6, <2>2, <3>1 DEF GroupsAre, N
    <3>2. CASE c = N + 1
      BY <1>3, <1>9, <1>10, <2>2, <3>2 DEF g
    <3> QED BY <1>7, <3>1, <3>2
  <2> QED BY <1>3, <2>2, <2>3, <2>4, <2>5 DEF GroupsAre
<1>12. RestIs(queues, list, i, t.rest)
  <2>1. ToSet(left) = {n \in ToSet(queues) : \A h \in 1 .. i : ~ Claims(list[h], n)}
    <3>1. ToSet(s.rest) = {n \in ToSet(queues) :
                              \A h \in 1 .. i - 1 : ~ Claims(list[h], n)}
      BY <1>6 DEF RestIs
    <3>2. \A n \in ToSet(s.rest) : n \in ToSet(taken) <=> Claims(list[i], n)
      BY <1>9, <3>1 DEF FirstClaims
    <3> QED BY <1>5, <1>7, <1>8, <3>1, <3>2
  <2>2. InOrder(left, ListOrder(queues))
    BY <1>1, <1>6, AmongInOrder DEF RestIs, left
  <2> QED BY <1>2, <2>1, <2>2 DEF RestIs
<1>13. PlaceIs(list, i, t, to)
  <2>1. \A c \in 1 .. N : to[c] = from[c]
    BY <1>7
  <2>2. to[N + 1] = i
    BY <1>1
  <2> HIDE DEF to, N
  <2>3. CASE s.at = 0 /\ ~ s.fairly /\ \A h \in 1 .. i - 1 : ~ IsDefault(list[h])
    BY <1>2, <1>7, <2>3 DEF PlaceIs
  <2>4. CASE /\ s.at \in 1 .. N + 1
             /\ \E d \in 1 .. i - 1 :
                   /\ IsDefault(list[d]) /\ s.fairly = list[d].fairly
                   /\ \A h \in 1 .. i - 1 : IsDefault(list[h]) => h <= d
                   /\ \A c \in 1 .. N : c < s.at <=> from[c] < d
    <3>1. PICK d \in 1 .. i - 1 :
             /\ IsDefault(list[d]) /\ s.fairly = list[d].fairly
             /\ \A h \in 1 .. i - 1 : IsDefault(list[h]) => h <= d
             /\ \A c \in 1 .. N : c < s.at <=> from[c] < d
      BY <2>4
    <3>2. t.at \in 1 .. Len(t.groups) + 1
      BY <1>1, <1>2, <1>3, <2>4
    <3>3. d \in 1 .. i /\ \A h \in 1 .. i : IsDefault(list[h]) => h <= d
      BY <1>7, <3>1
    <3>4. ~ (N + 1 < s.at) /\ ~ (to[N + 1] < d)
      BY <1>1, <1>7, <2>2, <2>4
    <3>5. \A c \in 1 .. N + 1 : c < t.at <=> to[c] < d
      BY <1>2, <1>7, <2>1, <3>1, <3>4
    <3> QED BY <1>2, <1>3, <3>1, <3>2, <3>3, <3>5 DEF PlaceIs
  <2> QED BY <1>6, <2>3, <2>4 DEF PlaceIs, N
<1> QED BY <1>11, <1>12, <1>13 DEF Divides, t

(* What prioritize_queues has taken when it has gone through the patterns. *)
LEMMA GroupsAreTaken ==
    ASSUME NEW queues \in Seq(Names), NEW list \in Seq(PriorityPatterns)
    PROVE  \E s \in Divisions :
              /\ \E from : Divides(queues, list, Len(list), s, from)
              /\ Groups(queues, list) =
                    InsertAt(s.groups, IF s.at = 0 THEN Len(s.groups) + 1 ELSE s.at,
                             [list |-> s.rest, fairly |-> s.fairly])
<1> DEFINE N == Len(list)
           base == [groups |-> <<>>, rest |-> queues, at |-> 0, fairly |-> FALSE]
           next == [x \in (1 .. N) \X Divisions |-> TakeGroup(x[2], list[x[1]])]
           Made(f) == f = [i \in 0 .. N |->
                             IF i = 0 THEN [groups |-> <<>>, rest |-> queues,
                                            at |-> 0, fairly |-> FALSE]
                             ELSE TakeGroup(f[i - 1], list[i])]
           taken == CHOOSE f : Made(f)
           s == taken[N]
<1>1. Groups(queues, list) =
      InsertAt(s.groups, IF s.at = 0 THEN Len(s.groups) + 1 ELSE s.at,
               [list |-> s.rest, fairly |-> s.fairly])
  BY DEF Groups
<1>2. N \in Nat /\ \A i \in 1 .. N : list[i] \in PriorityPatterns
  OBVIOUS
<1>3. base \in Divisions
  BY DEF Divisions
<1> HIDE DEF N
<1>4. next \in [(1 .. N) \X Divisions -> Divisions]
  BY <1>2, TakeGroupIsDivision
<1>5. PICK f : /\ f \in [0 .. N -> Divisions] /\ f[0] = base
               /\ \A i \in 1 .. N : f[i] = next[<<i, f[i - 1]>>]
  <2> HIDE DEF next, base
  <2>1. PICK f : Iterates(f, N, Divisions, base, next)
    BY <1>2, <1>3, <1>4, StepsCanBeRepeated
  <2> QED BY <2>1 DEF Iterates
<1>6. ASSUME NEW i \in 1 .. N PROVE f[i] = TakeGroup(f[i - 1], list[i])
  <2>1. f[i - 1] \in Divisions
    <3>1. i - 1 \in 0 .. N
      BY <1>2
    <3> QED BY <1>5, <3>1
  <2> HIDE DEF base
  <2> QED BY <1>5, <2>1
<1>7. Made(f)
  <2>1. f = [i \in 0 .. N |-> f[i]]
    <3> HIDE DEF base
    <3> QED BY <1>5
  <2>2. \A i \in 0 .. N : i # 0 => i \in 1 .. N
    BY <1>2
  <2>3. \A i \in 0 .. N : f[i] = IF i = 0 THEN base ELSE TakeGroup(f[i - 1], list[i])
    <3> HIDE DEF base
    <3> QED BY <1>5, <1>6, <2>2
  <2> QED BY <2>1, <2>3
<1>8. Made(taken)
  <2> HIDE DEF Made
  <2> QED BY <1>7
<1> HIDE DEF taken
<1>9. taken[0] = base
  <2>1. 0 \in 0 .. N
    BY <1>2
  <2> QED BY <1>8, <2>1
<1>10. ASSUME NEW i \in 1 .. N PROVE taken[i] = TakeGroup(taken[i - 1], list[i])
  <2>1. i \in 0 .. N /\ i # 0
    BY <1>2
  <2> QED BY <1>8, <2>1
<1> DEFINE I == {i \in 0 .. N : /\ taken[i] \in Divisions
                                /\ \E from : Divides(queues, list, i, taken[i], from)}
<1>11. 0 \in I
  <2> DEFINE none == [c \in 1 .. 0 |-> 0]
  <2>1. /\ base.groups = <<>> /\ base.rest = queues /\ base.at = 0 /\ ~ base.fairly
        /\ Len(<<>>) = 0 /\ 1 .. 0 = {} /\ 0 \in 0 .. N
    BY <1>2
  <2> HIDE DEF base
  <2>2. GroupsAre(queues, list, 0, base.groups, none)
    BY <2>1 DEF GroupsAre
  <2>3. RestIs(queues, list, 0, base.rest)
    <3>1. InOrder(queues, ListOrder(queues))
      BY DEF InOrder, ListOrder, Before
    <3> QED BY <2>1, <3>1 DEF RestIs
  <2>4. PlaceIs(list, 0, base, none)
    BY <2>1 DEF PlaceIs
  <2>5. Divides(queues, list, 0, base, none)
    BY <2>2, <2>3, <2>4 DEF Divides
  <2> HIDE DEF none
  <2> QED BY <1>3, <1>9, <2>1, <2>5
<1>12. ASSUME NEW i \in 1 .. N, i - 1 \in I PROVE i \in I
  <2>1. PICK from : Divides(queues, list, i - 1, taken[i - 1], from)
    BY <1>12
  <2>2. taken[i - 1] \in Divisions /\ i \in 1 .. Len(list)
    BY <1>12 DEF N
  <2>3. taken[i] \in Divisions
    BY <1>2, <1>10, <2>2, TakeGroupIsDivision
  <2>4. \E to : Divides(queues, list, i, TakeGroup(taken[i - 1], list[i]), to)
    BY <2>1, <2>2, DefaultDivides, GroupDivides
  <2>5. \E to : Divides(queues, list, i, taken[i], to)
    BY <1>10, <2>4
  <2>6. i \in 0 .. N
    BY <1>2
  <2> QED BY <2>3, <2>5, <2>6
<1>13. N \in I
  <2> HIDE DEF I
  <2> QED BY <1>2, <1>11, <1>12, UpTo
<1>14. s \in Divisions /\ \E from : Divides(queues, list, Len(list), s, from)
  BY <1>13 DEF N
<1> HIDE DEF s
<1> QED BY <1>1, <1>14

(* A list with one more entry.                                             *)
LEMMA Inserted ==
    ASSUME NEW T, NEW list \in Seq(T), NEW at \in 1 .. Len(list) + 1, NEW x \in T
    PROVE  /\ InsertAt(list, at, x) \in Seq(T)
           /\ Len(InsertAt(list, at, x)) = Len(list) + 1
           /\ InsertAt(list, at, x)[at] = x
           /\ \A c \in 1 .. Len(list) :
                 c < at => InsertAt(list, at, x)[c] = list[c]
           /\ \A c \in 1 .. Len(list) :
                 c >= at => InsertAt(list, at, x)[c + 1] = list[c]
<1> DEFINE N == Len(list)
           front == SubSeq(list, 1, at - 1)
           back == SubSeq(list, at, N)
           fore == front \o <<x>>
<1>1. N \in Nat /\ at \in Nat
  OBVIOUS
<1>2. /\ front \in Seq(T) /\ Len(front) = at - 1
      /\ \A c \in 1 .. at - 1 : front[c] = list[c]
  <2>1. \A c \in 1 .. at - 1 : c \in 1 .. N
    BY <1>1
  <2> QED BY <1>1, <2>1
<1>3. /\ back \in Seq(T) /\ Len(back) = N - at + 1
      /\ \A c \in 1 .. N - at + 1 : back[c] = list[at + c - 1]
  <2>1. \A c \in at .. N : c \in 1 .. N
    BY <1>1
  <2> QED BY <1>1, <2>1
<1> HIDE DEF front, back
<1>4. /\ fore \in Seq(T) /\ Len(fore) = at /\ fore[at] = x
      /\ \A c \in 1 .. at - 1 : fore[c] = list[c]
  BY <1>1, <1>2
<1> HIDE DEF fore
<1> DEFINE all == fore \o back
<1>5. /\ all \in Seq(T) /\ Len(all) = N + 1
      /\ \A c \in 1 .. at : all[c] = fore[c]
      /\ \A c \in 1 .. N - at + 1 : all[at + c] = back[c]
  BY <1>1, <1>3, <1>4
<1>6. InsertAt(list, at, x) = all
  BY DEF InsertAt, front, back, fore
<1> HIDE DEF all
<1>7. all[at] = x
  BY <1>1, <1>4, <1>5
<1>8. ASSUME NEW c \in 1 .. N, c < at PROVE all[c] = list[c]
  <2>1. c \in 1 .. at /\ c \in 1 .. at - 1
    BY <1>1, <1>8
  <2> QED BY <1>4, <1>5, <2>1
<1>9. ASSUME NEW c \in 1 .. N, c >= at PROVE all[c + 1] = list[c]
  <2>1. c - at + 1 \in 1 .. N - at + 1 /\ at + (c - at + 1) = c + 1
        /\ at + (c - at + 1) - 1 = c
    BY <1>1, <1>9
  <2> DEFINE d == c - at + 1
  <2>2. d \in 1 .. N - at + 1 /\ at + d = c + 1 /\ at + d - 1 = c
    BY <2>1
  <2> HIDE DEF d, N
  <2>3. all[at + d] = back[d] /\ back[d] = list[at + d - 1]
    BY <1>3, <1>5, <2>2
  <2> QED BY <2>2, <2>3
<1> QED BY <1>5, <1>6, <1>7, <1>8, <1>9

-----------------------------------------------------------------------------
(* The ranks of the groups.                                                *)

(* The rank of a queue some pattern claims is that of the first one that   *)
(* does.                                                                   *)
LEMMA RankOfClaimed ==
    ASSUME NEW list \in Seq(PriorityPatterns), NEW n, NEW h \in 1 .. Len(list),
           FirstClaims(list, h, n)
    PROVE  Rank(list, n) = h
<1> DEFINE claimed == {i \in DOMAIN list : Claims(list[i], n)}
<1>1. DOMAIN list = 1 .. Len(list) /\ Len(list) \in Nat
  OBVIOUS
<1>2. h \in claimed /\ \A k \in claimed : h <= k
  BY <1>1 DEF FirstClaims
<1>3. claimed \subseteq Int
  BY <1>1
<1>4. Rank(list, n) = CHOOSE i \in claimed : \A k \in claimed : i <= k
  BY <1>2 DEF Rank
<1> HIDE DEF claimed
<1>5. \A i \in claimed : (\A k \in claimed : i <= k) => i = h
  BY <1>2, <1>3
<1> QED BY <1>2, <1>4, <1>5

(* The rank of a queue nothing claims is that of the last "default", or    *)
(* comes after all of them.                                                *)
LEMMA RankOfUnclaimed ==
    ASSUME NEW list \in Seq(PriorityPatterns), NEW n,
           \A h \in 1 .. Len(list) : ~ Claims(list[h], n)
    PROVE  /\ (\A h \in 1 .. Len(list) : ~ IsDefault(list[h])) =>
                 Rank(list, n) = Len(list) + 1
           /\ \A d \in 1 .. Len(list) :
                 /\ IsDefault(list[d])
                 /\ \A h \in 1 .. Len(list) : IsDefault(list[h]) => h <= d
                 => Rank(list, n) = d
<1> DEFINE claimed == {i \in DOMAIN list : Claims(list[i], n)}
           defaults == {i \in DOMAIN list : IsDefault(list[i])}
<1>1. DOMAIN list = 1 .. Len(list) /\ Len(list) \in Nat
  OBVIOUS
<1>2. claimed = {} /\ defaults \subseteq Int
  BY <1>1
<1>3. Rank(list, n) = IF defaults # {}
                      THEN CHOOSE i \in defaults : \A k \in defaults : k <= i
                      ELSE Len(list) + 1
  BY <1>2 DEF Rank
<1>4. ASSUME \A h \in 1 .. Len(list) : ~ IsDefault(list[h])
      PROVE  Rank(list, n) = Len(list) + 1
  <2>1. defaults = {}
    BY <1>1, <1>4
  <2> HIDE DEF defaults
  <2> QED BY <1>3, <2>1
<1>5. ASSUME NEW d \in 1 .. Len(list), IsDefault(list[d]),
             \A h \in 1 .. Len(list) : IsDefault(list[h]) => h <= d
      PROVE  Rank(list, n) = d
  <2>1. d \in defaults /\ \A k \in defaults : k <= d
    BY <1>1, <1>5
  <2> HIDE DEF defaults
  <2>2. \A i \in defaults : (\A k \in defaults : k <= i) => i = d
    BY <1>2, <2>1
  <2> QED BY <1>3, <2>1, <2>2
<1> QED BY <1>4, <1>5

(* A group of queues of rank r, in the order the patterns give it.         *)
GroupRight(queues, list, g, r) ==
    /\ g \in GroupRecords /\ r \in 1 .. Len(list) + 1
    /\ g.fairly => r <= Len(list) /\ list[r].fairly
    /\ \A n \in ToSet(g.list) : n \in ToSet(queues) /\ Rank(list, n) = r
    /\ IsInjective(g.list)
    /\ \/ /\ r > Len(list) \/ IsDefault(list[r])
          /\ InOrder(g.list, ListOrder(queues))
       \/ /\ r <= Len(list) /\ ~ IsDefault(list[r])
          /\ InOrder(g.list, EntryOrder(queues, list[r].patterns,
                                        Len(list[r].patterns)))

(* All the groups, by rank.                                                *)
Ranked(queues, list, all, rank) ==
    /\ all \in Seq(GroupRecords)
    /\ \A c \in 1 .. Len(all) : GroupRight(queues, list, all[c], rank[c])
    /\ \A c, d \in 1 .. Len(all) : c < d => rank[c] < rank[d]
    /\ \A n \in ToSet(queues) : \E c \in 1 .. Len(all) : n \in ToSet(all[c].list)

(* What has been taken of the queues that are left is in order.            *)
LEMMA TakenIsRight ==
    ASSUME NEW queues \in Seq(Names), IsInjective(queues),
           NEW list \in Seq(PriorityPatterns), NEW s \in Divisions, NEW from,
           Divides(queues, list, Len(list), s, from), NEW c \in 1 .. Len(s.groups)
    PROVE  GroupRight(queues, list, s.groups[c], from[c])
<1> DEFINE g == s.groups[c]
           r == from[c]
           ps == list[r].patterns
           R == EntryOrder(queues, ps, Len(ps))
<1>1. s.groups \in Seq(GroupRecords) /\ Len(list) \in Nat
  BY DEF Divisions
<1>2. g \in GroupRecords
  BY <1>1
<1>3. g.list \in Seq(Names)
  BY <1>2 DEF GroupRecords
<1>4. /\ r \in 1 .. Len(list) /\ ~ IsDefault(list[r])
      /\ g.fairly = list[r].fairly
      /\ ToSet(g.list) = {n \in ToSet(queues) : FirstClaims(list, r, n)}
      /\ InOrder(g.list, R)
  BY DEF Divides, GroupsAre
<1> HIDE DEF g, r, ps
<1>5. \A n \in ToSet(g.list) : n \in ToSet(queues) /\ Rank(list, n) = r
  BY <1>4, RankOfClaimed
<1>6. IsInjective(g.list)
  <2>1. list[r] \in PriorityPatterns
    BY <1>1, <1>4
  <2>2. ps \in Seq(Plain)
    BY <1>4, <2>1 DEF PriorityPatterns, IsDefault, ps
  <2>3. \A n : Entry(queues, ps, Len(ps), n) \in Int
    <3>1. Len(ps) \in Nat
      BY <2>2
    <3> TAKE n
    <3>2. Entry(queues, ps, Len(ps), n) \in 0 .. Len(ps)
      BY <3>1, EntryIs
    <3> QED BY <3>1, <3>2
  <2>4. \A n : ~ Before(queues, n, n)
    BY BeforeIsNotBack
  <2>5. \A n : <<n, n>> \notin R
    BY <2>3, <2>4 DEF EntryOrder
  <2> HIDE DEF R
  <2> QED BY <1>3, <1>4, <2>5, OrderedIsInjective
<1>7. r \in 1 .. Len(list) + 1 /\ r <= Len(list)
  BY <1>1, <1>4
<1>8. GroupRight(queues, list, g, r)
  <2> HIDE DEF R
  <2>1. InOrder(g.list, EntryOrder(queues, list[r].patterns, Len(list[r].patterns)))
    BY <1>4 DEF R, ps
  <2> QED BY <1>2, <1>4, <1>5, <1>6, <1>7, <2>1 DEF GroupRight
<1> QED BY <1>8 DEF g, r

(* And so is what is left, where it goes in.                               *)
LEMMA LeftIsRight ==
    ASSUME NEW queues \in Seq(Names), IsInjective(queues),
           NEW list \in Seq(PriorityPatterns), NEW s \in Divisions, NEW from,
           Divides(queues, list, Len(list), s, from)
    PROVE  LET at == IF s.at = 0 THEN Len(s.groups) + 1 ELSE s.at
           IN  \E place :
                  /\ at \in 1 .. Len(s.groups) + 1
                  /\ GroupRight(queues, list, [list |-> s.rest, fairly |-> s.fairly], place)
                  /\ \A c \in 1 .. Len(s.groups) :
                        /\ c < at => from[c] < place
                        /\ c >= at => from[c] > place
<1> DEFINE N == Len(list)
           M == Len(s.groups)
           at == IF s.at = 0 THEN M + 1 ELSE s.at
           x == [list |-> s.rest, fairly |-> s.fairly]
<1>1. M \in Nat /\ N \in Nat /\ x \in GroupRecords
  BY DEF Divisions, GroupRecords
<1>2. /\ s.rest \in Seq(Names) /\ InOrder(s.rest, ListOrder(queues))
      /\ \A n \in ToSet(s.rest) : n \in ToSet(queues) /\ \A h \in 1 .. N : ~ Claims(list[h], n)
  BY DEF Divides, RestIs, Divisions
<1>3. IsInjective(s.rest)
  <2>1. \A n : ~ Before(queues, n, n)
    BY BeforeIsNotBack
  <2>2. \A n : <<n, n>> \notin ListOrder(queues)
    BY <2>1 DEF ListOrder
  <2> QED BY <1>2, <2>2, OrderedIsInjective
<1>4. /\ \A c \in 1 .. M : from[c] \in 1 .. N /\ ~ IsDefault(list[from[c]])
  BY DEF Divides, GroupsAre
<1>5. PICK place \in 1 .. N + 1 :
         /\ at \in 1 .. M + 1
         /\ s.fairly => place <= N /\ list[place].fairly
         /\ place > N \/ IsDefault(list[place])
         /\ \A c \in 1 .. M : (c < at => from[c] < place) /\ (c >= at => from[c] > place)
         /\ \A n \in ToSet(s.rest) : Rank(list, n) = place
  <2>1. PlaceIs(list, N, s, from)
    BY DEF Divides
  <2>2. CASE /\ s.at = 0 /\ ~ s.fairly
             /\ \A h \in 1 .. N : ~ IsDefault(list[h])
    <3>1. \A n \in ToSet(s.rest) : Rank(list, n) = N + 1
      <4>1. TAKE n \in ToSet(s.rest)
      <4> QED BY <1>2, <2>2, RankOfUnclaimed
    <3>2. \A c \in 1 .. M : c < at /\ from[c] < N + 1
      BY <1>1, <1>4, <2>2
    <3>3. N + 1 \in 1 .. N + 1 /\ at \in 1 .. M + 1 /\ N + 1 > N
      BY <1>1, <2>2
    <3>4. \A c \in 1 .. M : ~ (c >= at)
      BY <1>1, <2>2
    <3> HIDE DEF at, N, M
    <3> QED BY <2>2, <3>1, <3>2, <3>3, <3>4
  <2>3. ASSUME s.at \in 1 .. M + 1, NEW d \in 1 .. N,
               IsDefault(list[d]), s.fairly = list[d].fairly,
               \A h \in 1 .. N : IsDefault(list[h]) => h <= d,
               \A c \in 1 .. M : c < s.at <=> from[c] < d
        PROVE  /\ at \in 1 .. M + 1 /\ d \in 1 .. N + 1 /\ d <= N
               /\ s.fairly => list[d].fairly
               /\ \A c \in 1 .. M : (c < at => from[c] < d) /\ (c >= at => from[c] > d)
               /\ \A n \in ToSet(s.rest) : Rank(list, n) = d
    <3>1. \A n \in ToSet(s.rest) : Rank(list, n) = d
      <4>1. TAKE n \in ToSet(s.rest)
      <4>2. \A h \in 1 .. Len(list) : ~ Claims(list[h], n)
        BY <1>2
      <4> QED BY <2>3, <4>2, RankOfUnclaimed
    <3>2. at = s.at
      BY <2>3
    <3>3. \A c \in 1 .. M : from[c] # d /\ from[c] \in Int
      BY <1>4, <2>3
    <3>4. \A c \in 1 .. M : (c < at => from[c] < d) /\ (c >= at => from[c] > d)
      <4>1. TAKE c \in 1 .. M
      <4>2. c < at <=> from[c] < d
        BY <2>3, <3>2
      <4>3. c \in Int /\ at \in Int /\ d \in Int
        BY <2>3, <3>2
      <4> QED BY <3>3, <4>2, <4>3
    <3>5. d \in 1 .. N + 1 /\ d <= N
      BY <1>1
    <3> QED BY <2>3, <3>1, <3>2, <3>4, <3>5
  <2>4. CASE \E d \in 1 .. N :
               /\ s.at \in 1 .. M + 1
               /\ IsDefault(list[d]) /\ s.fairly = list[d].fairly
               /\ \A h \in 1 .. N : IsDefault(list[h]) => h <= d
               /\ \A c \in 1 .. M : c < s.at <=> from[c] < d
    <3>1. PICK d \in 1 .. N :
             /\ s.at \in 1 .. M + 1
             /\ IsDefault(list[d]) /\ s.fairly = list[d].fairly
             /\ \A h \in 1 .. N : IsDefault(list[h]) => h <= d
             /\ \A c \in 1 .. M : c < s.at <=> from[c] < d
      BY <2>4
    <3>2. /\ at \in 1 .. M + 1 /\ d \in 1 .. N + 1 /\ d <= N
          /\ s.fairly => list[d].fairly
          /\ \A c \in 1 .. M : (c < at => from[c] < d) /\ (c >= at => from[c] > d)
          /\ \A n \in ToSet(s.rest) : Rank(list, n) = d
      BY <2>3, <3>1
    <3> HIDE DEF at, N, M
    <3> QED BY <3>1, <3>2
  <2>5. \/ /\ s.at = 0 /\ ~ s.fairly
           /\ \A h \in 1 .. N : ~ IsDefault(list[h])
        \/ \E d \in 1 .. N :
               /\ s.at \in 1 .. M + 1
               /\ IsDefault(list[d]) /\ s.fairly = list[d].fairly
               /\ \A h \in 1 .. N : IsDefault(list[h]) => h <= d
               /\ \A c \in 1 .. M : c < s.at <=> from[c] < d
    BY <2>1 DEF PlaceIs
  <2> HIDE DEF at, N, M
  <2> QED BY <2>2, <2>4, <2>5
<1>6. GroupRight(queues, list, x, place)
  <2>1. x.list = s.rest /\ x.fairly = s.fairly
    OBVIOUS
  <2> HIDE DEF x
  <2> QED BY <1>1, <1>2, <1>3, <1>5, <2>1 DEF GroupRight
<1> HIDE DEF at, x, M
<1>7. \E p : /\ at \in 1 .. M + 1 /\ GroupRight(queues, list, x, p)
             /\ \A c \in 1 .. M : (c < at => from[c] < p) /\ (c >= at => from[c] > p)
  BY <1>5, <1>6
<1> QED BY <1>7 DEF at, x, M

(* The groups come in the order of their ranks, and every queue is in one. *)
LEMMA GroupsAreRanked ==
    ASSUME NEW queues \in Seq(Names), IsInjective(queues),
           NEW list \in Seq(PriorityPatterns)
    PROVE  \E rank : Ranked(queues, list, Groups(queues, list), rank)
<1> DEFINE N == Len(list)
<1>1. PICK s, from :
         /\ s \in Divisions /\ Divides(queues, list, Len(list), s, from)
         /\ Groups(queues, list) =
               InsertAt(s.groups, IF s.at = 0 THEN Len(s.groups) + 1 ELSE s.at,
                        [list |-> s.rest, fairly |-> s.fairly])
  BY GroupsAreTaken
<1> DEFINE M == Len(s.groups)
           at == IF s.at = 0 THEN M + 1 ELSE s.at
           x == [list |-> s.rest, fairly |-> s.fairly]
           all == Groups(queues, list)
<1>2. M \in Nat /\ N \in Nat /\ x \in GroupRecords /\ s.groups \in Seq(GroupRecords)
  BY <1>1 DEF Divisions, GroupRecords
<1>3. all = InsertAt(s.groups, at, x)
  BY <1>1
<1>4. PICK place : /\ at \in 1 .. M + 1 /\ GroupRight(queues, list, x, place)
                   /\ \A c \in 1 .. M : /\ c < at => from[c] < place
                                        /\ c >= at => from[c] > place
  BY <1>1, LeftIsRight
<1>5. \A c \in 1 .. M : GroupRight(queues, list, s.groups[c], from[c])
  BY <1>1, TakenIsRight
<1>6. /\ \A c, d \in 1 .. M : c < d => from[c] < from[d]
      /\ \A c \in 1 .. M : from[c] \in Int
      /\ \A h \in 1 .. N : ~ IsDefault(list[h]) => \E c \in 1 .. M : from[c] = h
      /\ \A c \in 1 .. M : ToSet(s.groups[c].list) =
                              {n \in ToSet(queues) : FirstClaims(list, from[c], n)}
  <2>1. GroupsAre(queues, list, N, s.groups, from)
    BY <1>1 DEF Divides
  <2>2. from \in [1 .. M -> 1 .. N]
    BY <2>1 DEF GroupsAre
  <2>3. \A c \in 1 .. M : from[c] \in Int
    BY <2>2
  <2> QED BY <2>1, <2>3 DEF GroupsAre
<1>7. ToSet(s.rest) = {n \in ToSet(queues) : \A h \in 1 .. N : ~ Claims(list[h], n)}
  BY <1>1 DEF Divides, RestIs
<1>8. x.list = s.rest /\ place \in Int
  BY <1>2, <1>4 DEF GroupRight
<1> HIDE DEF all, at, x
<1>9. /\ all \in Seq(GroupRecords) /\ Len(all) = M + 1 /\ all[at] = x
      /\ \A c \in 1 .. M : c < at => all[c] = s.groups[c]
      /\ \A c \in 1 .. M : c >= at => all[c + 1] = s.groups[c]
  <2>1. at \in 1 .. Len(s.groups) + 1
    BY <1>4
  <2> HIDE DEF M
  <2>2. /\ InsertAt(s.groups, at, x) \in Seq(GroupRecords)
        /\ Len(InsertAt(s.groups, at, x)) = Len(s.groups) + 1
        /\ InsertAt(s.groups, at, x)[at] = x
        /\ \A c \in 1 .. Len(s.groups) :
              c < at => InsertAt(s.groups, at, x)[c] = s.groups[c]
        /\ \A c \in 1 .. Len(s.groups) :
              c >= at => InsertAt(s.groups, at, x)[c + 1] = s.groups[c]
    BY <1>2, <2>1, Inserted
  <2> QED BY <1>3, <2>2 DEF M
<1>10. at \in 1 .. M + 1 /\ at \in Int
  BY <1>2, <1>4
<1> DEFINE rank == [c \in 1 .. M + 1 |-> IF c < at THEN from[c]
                                         ELSE IF c = at THEN place ELSE from[c - 1]]
           Is(c, k) == all[c] = s.groups[k] /\ rank[c] = from[k]
<1>11. rank[at] = place
  BY <1>2, <1>4
<1>12. ASSUME NEW c \in 1 .. M + 1, c # at
       PROVE  \E k \in 1 .. M : /\ Is(c, k)
                                /\ (c < at /\ k = c) \/ (c > at /\ k = c - 1)
  <2>1. CASE c < at
    <3>1. c \in 1 .. M
      BY <1>2, <1>4, <2>1
    <3> QED BY <1>9, <2>1, <3>1
  <2>2. CASE c > at
    <3>1. c - 1 \in 1 .. M /\ c - 1 >= at /\ (c - 1) + 1 = c /\ ~ (c < at) /\ c # at
      BY <1>2, <1>4, <2>2
    <3>2. all[c] = s.groups[c - 1]
      BY <1>9, <3>1
    <3> QED BY <2>2, <3>1, <3>2
  <2>3. c < at \/ c > at
    <3> HIDE DEF M
    <3> QED BY <1>2, <1>12, <1>10
  <2> QED BY <2>1, <2>2, <2>3
<1> HIDE DEF rank, M
<1>13. ASSUME NEW c \in 1 .. M + 1 PROVE GroupRight(queues, list, all[c], rank[c])
  <2>1. CASE c = at
    BY <1>4, <1>9, <1>11, <2>1
  <2>2. CASE c # at
    <3>1. PICK k \in 1 .. M : Is(c, k)
      BY <1>12, <2>2
    <3> QED BY <1>5, <3>1
  <2> QED BY <2>1, <2>2
<1>14. ASSUME NEW c \in 1 .. M + 1, NEW d \in 1 .. M + 1, c < d PROVE rank[c] < rank[d]
  <2>1. CASE c = at
    <3>1. PICK k \in 1 .. M : Is(d, k) /\ ((d < at /\ k = d) \/ (d > at /\ k = d - 1))
      <4>1. d # at
        BY <1>2, <1>10, <1>14, <2>1
      <4> QED BY <1>12, <4>1
    <3>2. k >= at
      BY <1>2, <1>10, <1>14, <2>1, <3>1
    <3>3. from[k] > place /\ from[k] \in Int
      BY <1>4, <1>6, <3>2
    <3> QED BY <1>11, <1>8, <2>1, <3>1, <3>3
  <2>2. CASE d = at
    <3>1. PICK k \in 1 .. M : Is(c, k) /\ ((c < at /\ k = c) \/ (c > at /\ k = c - 1))
      <4>1. c # at
        BY <1>2, <1>10, <1>14, <2>2
      <4> QED BY <1>12, <4>1
    <3>2. k < at
      BY <1>2, <1>10, <1>14, <2>2, <3>1
    <3> QED BY <1>4, <1>11, <2>2, <3>1, <3>2
  <2>3. CASE c # at /\ d # at
    <3>1. PICK k \in 1 .. M : Is(c, k) /\ ((c < at /\ k = c) \/ (c > at /\ k = c - 1))
      BY <1>12, <2>3
    <3>2. PICK l \in 1 .. M : Is(d, l) /\ ((d < at /\ l = d) \/ (d > at /\ l = d - 1))
      BY <1>12, <2>3
    <3>3. k < l
      BY <1>2, <1>10, <1>14, <3>1, <3>2
    <3> QED BY <1>6, <3>1, <3>2, <3>3
  <2> QED BY <2>1, <2>2, <2>3
<1>15. ASSUME NEW k \in 1 .. M PROVE \E c \in 1 .. M + 1 : all[c] = s.groups[k]
  <2>1. CASE k < at
    BY <1>2, <1>9, <2>1
  <2>2. CASE k >= at
    <3>1. k + 1 \in 1 .. M + 1
      BY <1>2
    <3> QED BY <1>9, <2>2, <3>1
  <2> QED BY <1>2, <1>4, <2>1, <2>2
<1>16. ASSUME NEW n \in ToSet(queues) PROVE \E c \in 1 .. M + 1 : n \in ToSet(all[c].list)
  <2> DEFINE S == {h \in 1 .. N : Claims(list[h], n)}
  <2>1. CASE S = {}
    <3>1. n \in ToSet(s.rest)
      BY <1>7, <2>1
    <3> QED BY <1>4, <1>9, <1>8, <3>1
  <2>2. CASE S # {}
    <3>1. S \subseteq Nat
      BY <1>2
    <3>2. PICK h \in S : \A l \in S : h <= l
      <4> HIDE DEF S
      <4> QED BY <2>2, <3>1, Least
    <3>3. FirstClaims(list, h, n)
      <4>1. ASSUME NEW l \in 1 .. h - 1 PROVE ~ Claims(list[l], n)
        <5>1. l \in 1 .. N /\ ~ (h <= l)
          BY <1>2
        <5> QED BY <3>2, <5>1
      <4> QED BY <4>1 DEF FirstClaims
    <3>4. h \in 1 .. N /\ ~ IsDefault(list[h])
      BY <3>3 DEF FirstClaims, Claims
    <3>5. PICK k \in 1 .. M : from[k] = h
      BY <1>6, <3>4
    <3>6. n \in ToSet(s.groups[k].list)
      BY <1>6, <3>3, <3>5
    <3> QED BY <1>15, <3>6
  <2> QED BY <2>1, <2>2
<1>17. Ranked(queues, list, all, rank)
  BY <1>9, <1>13, <1>14, <1>16 DEF Ranked
<1> QED BY <1>17 DEF all

-----------------------------------------------------------------------------
(* The order prioritize_queues makes.                                      *)

(* A group comes out as it was found or shuffled.                          *)
LEMMA OrdersAre ==
    ASSUME NEW g \in GroupRecords, IsInjective(g.list), NEW l \in Orders(g)
    PROVE  /\ l \in Seq(Names) /\ ToSet(l) = ToSet(g.list) /\ IsInjective(l)
           /\ ~ g.fairly => l = g.list
<1>1. g.list \in Seq(Names) /\ g.fairly \in BOOLEAN
  BY DEF GroupRecords
<1>2. CASE ~ g.fairly
  BY <1>1, <1>2 DEF Orders
<1>3. CASE g.fairly
  <2> DEFINE old == g.list
             D == DOMAIN old
  <2>1. D = 1 .. Len(old) /\ Len(old) \in Nat
    BY <1>1
  <2>2. PICK turn \in Bijection(D, D) : l = [i \in D |-> old[turn[i]]]
    BY <1>3 DEF Orders
  <2>3. /\ turn \in [D -> D]
        /\ \A a, b \in D : turn[a] = turn[b] => a = b
        /\ \A b \in D : \E a \in D : turn[a] = b
    BY <2>2 DEF Bijection, Injection, Surjection, IsInjective
  <2>4. \A a \in D : old[a] \in Names
    BY <1>1
  <2>5. DOMAIN l = D /\ \A a \in D : l[a] = old[turn[a]] /\ l[a] \in Names
    BY <2>2, <2>3, <2>4
  <2>6. l \in Seq(Names)
    <3>1. l = [a \in 1 .. Len(old) |-> l[a]]
      BY <2>1, <2>2
    <3>2. l \in [1 .. Len(old) -> Names]
      BY <2>1, <2>5, <3>1
    <3> QED BY <2>1, <3>2
  <2>7. ToSet(l) = ToSet(old)
    <3> HIDE DEF D, old
    <3>1. \A n : n \in ToSet(l) <=> \E a \in D : old[turn[a]] = n
      BY <2>5 DEF ToSet
    <3>2. \A n : n \in ToSet(old) <=> \E b \in D : old[b] = n
      BY DEF ToSet, D
    <3>3. \A n : n \in ToSet(l) <=> n \in ToSet(old)
      BY <2>3, <3>1, <3>2
    <3> QED BY <3>3 DEF ToSet
  <2>8. IsInjective(l)
    <3>1. \A a, b \in D : old[a] = old[b] => a = b
      BY DEF IsInjective
    <3> HIDE DEF D, old
    <3>2. \A a, b \in D : l[a] = l[b] => a = b
      BY <2>3, <2>5, <3>1
    <3> QED BY <2>5, <3>2 DEF IsInjective
  <2> QED BY <1>3, <2>6, <2>7, <2>8
<1> QED BY <1>1, <1>2, <1>3

(* The order of prioritize_queues.                                         *)
Ordering(queues, list) ==
    {x \in Names \X Names : x[1] # x[2] /\ Precedes(queues, list, x[1], x[2])}

(* Whichever order a group comes out in, each of its queues may come       *)
(* before the next ones.                                                   *)
LEMMA OrdersInOrder ==
    ASSUME NEW queues \in Seq(Names), NEW list \in Seq(PriorityPatterns),
           NEW g, NEW r, GroupRight(queues, list, g, r), NEW l \in Orders(g)
    PROVE  InOrder(l, Ordering(queues, list))
<1>1. /\ g \in GroupRecords /\ r \in 1 .. Len(list) + 1 /\ IsInjective(g.list)
      /\ \A n \in ToSet(g.list) : Rank(list, n) = r
  BY DEF GroupRight
<1>2. /\ l \in Seq(Names) /\ ToSet(l) = ToSet(g.list) /\ IsInjective(l)
      /\ ~ g.fairly => l = g.list
  BY <1>1, OrdersAre
<1>3. Len(list) \in Nat /\ r \in Int
  BY <1>1
<1> SUFFICES ASSUME NEW a \in DOMAIN l, NEW b \in DOMAIN l, a < b
             PROVE  <<l[a], l[b]>> \in Ordering(queues, list)
  BY DEF InOrder
<1>4. l[a] \in Names /\ l[b] \in Names /\ l[a] # l[b]
  <2>1. a # b
    BY <1>2
  <2> QED BY <1>2, <2>1 DEF IsInjective
<1>5. Rank(list, l[a]) = r /\ Rank(list, l[b]) = r
  BY <1>1, <1>2 DEF ToSet
<1>6. Precedes(queues, list, l[a], l[b])
  <2>1. CASE g.fairly
    <3>1. r <= Len(list) /\ list[r].fairly
      BY <2>1 DEF GroupRight
    <3> QED BY <1>3, <1>5, <3>1 DEF Precedes
  <2>2. CASE ~ g.fairly
    <3>1. l = g.list
      BY <1>2, <2>2
    <3>2. CASE /\ r > Len(list) \/ IsDefault(list[r])
               /\ InOrder(g.list, ListOrder(queues))
      <4>1. Before(queues, l[a], l[b])
        BY <3>1, <3>2 DEF InOrder, ListOrder
      <4> QED BY <1>3, <1>5, <3>2, <4>1 DEF Precedes
    <3>3. CASE /\ r <= Len(list) /\ ~ IsDefault(list[r])
               /\ InOrder(g.list, EntryOrder(queues, list[r].patterns,
                                             Len(list[r].patterns)))
      <4> DEFINE e(n) == Entry(queues, list[r].patterns, Len(list[r].patterns), n)
      <4>1. \/ e(l[a]) < e(l[b])
            \/ e(l[a]) = e(l[b]) /\ Before(queues, l[a], l[b])
        BY <3>1, <3>3 DEF InOrder, EntryOrder
      <4> QED BY <1>3, <1>5, <3>3, <4>1 DEF Precedes
    <3> QED BY <3>2, <3>3 DEF GroupRight
  <2> QED BY <2>1, <2>2
<1> QED BY <1>4, <1>6 DEF Ordering

(* The queues of the first c groups.                                       *)
Upto(all, c) == UNION {ToSet(all[d].list) : d \in 1 .. c}

(* Lists of the queues of the first c groups, in the order of the patterns.*)
Ordered(queues, list, all, c, lists) ==
    \A l \in lists : /\ l \in Seq(Names) /\ ToSet(l) = Upto(all, c)
                     /\ InOrder(l, Ordering(queues, list))

(* Lists one after the other.                                              *)
Joined(fronts, backs) == {front \o back : front \in fronts, back \in backs}

(* A list that is joined comes from one of each.                           *)
LEMMA JoinedIs ==
    ASSUME NEW fronts, NEW backs, NEW l \in Joined(fronts, backs)
    PROVE  \E front \in fronts, back \in backs : l = front \o back
BY DEF Joined

(* One more group, after those of lower ranks.                             *)
LEMMA OneMoreGroup ==
    ASSUME NEW queues \in Seq(Names), NEW list \in Seq(PriorityPatterns),
           NEW all, NEW rank, Ranked(queues, list, all, rank),
           NEW c \in 1 .. Len(all), NEW lists,
           Ordered(queues, list, all, c - 1, lists)
    PROVE  Ordered(queues, list, all, c,
                   Joined(lists, Orders(all[c])))
<1>1. all \in Seq(GroupRecords) /\ Len(all) \in Nat
  BY DEF Ranked
<1>2. \A d \in 1 .. c : d \in 1 .. Len(all)
  BY <1>1
<1>3. 1 .. c = (1 .. c - 1) \cup {c} /\ \A d \in 1 .. c - 1 : d < c /\ d \in 1 .. c
  BY <1>1
<1> SUFFICES ASSUME NEW l \in Joined(lists, Orders(all[c]))
             PROVE  /\ l \in Seq(Names) /\ ToSet(l) = Upto(all, c)
                    /\ InOrder(l, Ordering(queues, list))
  BY DEF Ordered
<1> PICK front \in lists, back \in Orders(all[c]) : l = front \o back
  BY JoinedIs
<1>4. /\ front \in Seq(Names) /\ ToSet(front) = Upto(all, c - 1)
      /\ InOrder(front, Ordering(queues, list))
  BY DEF Ordered
<1>5. GroupRight(queues, list, all[c], rank[c])
  BY <1>2 DEF Ranked
<1>6. back \in Seq(Names) /\ ToSet(back) = ToSet(all[c].list)
  <2>1. all[c] \in GroupRecords /\ IsInjective(all[c].list)
    BY <1>5 DEF GroupRight
  <2> QED BY <2>1, OrdersAre
<1>7. InOrder(back, Ordering(queues, list))
  BY <1>5, OrdersInOrder
<1>8. Upto(all, c) = Upto(all, c - 1) \cup ToSet(all[c].list)
  BY <1>3 DEF Upto
<1>9. ASSUME NEW n \in ToSet(front), NEW m \in ToSet(back)
      PROVE  <<n, m>> \in Ordering(queues, list)
  <2>1. PICK d \in 1 .. c - 1 : n \in ToSet(all[d].list)
    BY <1>4 DEF Upto
  <2>2. d \in 1 .. Len(all) /\ d < c
    BY <1>2, <1>3
  <2>3. Rank(list, n) = rank[d] /\ Rank(list, m) = rank[c]
    <3>1. GroupRight(queues, list, all[d], rank[d])
      BY <2>2 DEF Ranked
    <3> QED BY <1>5, <1>6, <2>1, <3>1 DEF GroupRight
  <2>4. rank[d] < rank[c] /\ rank[d] \in 1 .. Len(list) + 1
    <3>1. rank[d] < rank[c]
      BY <2>2 DEF Ranked
    <3>2. GroupRight(queues, list, all[d], rank[d])
      BY <2>2 DEF Ranked
    <3> QED BY <3>1, <3>2 DEF GroupRight
  <2>5. n # m
    BY <2>3, <2>4
  <2>6. Precedes(queues, list, n, m)
    BY <2>3, <2>4 DEF Precedes
  <2>7. n \in Names /\ m \in Names
    BY <1>4, <1>6, ToSetIs
  <2> QED BY <2>5, <2>6, <2>7 DEF Ordering
<1>10. front \o back \in Seq(Names) /\ ToSet(front \o back) = Upto(all, c)
  BY <1>4, <1>6, <1>8, Concatenated
<1>11. InOrder(front \o back, Ordering(queues, list))
  BY <1>4, <1>6, <1>7, <1>9, ConcatenatedInOrder
<1> QED BY <1>10, <1>11

(* All the lists prioritize_queues may return.                             *)
LEMMA PrioritizedInOrder ==
    ASSUME NEW queues \in Seq(Names), IsInjective(queues),
           NEW list \in Seq(PriorityPatterns), NEW out \in PrioritizeQueues(queues, list)
    PROVE  /\ out \in Seq(Names) /\ IsInjective(out)
           /\ ToSet(out) = ToSet(queues)
           /\ InOrder(out, Ordering(queues, list))
<1> DEFINE all == Groups(queues, list)
           M == Len(all)
           Lists == SUBSET Seq(Names)
           none == {<<>>}
           next == [x \in (1 .. M) \X Lists |->
                      Joined(x[2], Orders(all[x[1]]))]
           Made(f) == f = [i \in 0 .. M |->
                             IF i = 0 THEN {<<>>}
                             ELSE Joined(f[i - 1], Orders(all[i]))]
           lists == CHOOSE f : Made(f)
<1>1. out \in lists[M]
  BY DEF PrioritizeQueues, Joined
<1>2. PICK rank : Ranked(queues, list, all, rank)
  BY GroupsAreRanked
<1> HIDE DEF all
<1>3. M \in Nat /\ \A c \in 1 .. M : GroupRight(queues, list, all[c], rank[c])
  BY <1>2 DEF Ranked
<1> HIDE DEF M
<1>4. \A c \in 1 .. M : Orders(all[c]) \subseteq Seq(Names)
  <2> TAKE c \in 1 .. M
  <2>1. all[c] \in GroupRecords /\ IsInjective(all[c].list)
    BY <1>3 DEF GroupRight
  <2> QED BY <2>1, OrdersAre
<1>5. next \in [(1 .. M) \X Lists -> Lists]
  <2>1. ASSUME NEW c \in 1 .. M, NEW fronts, fronts \in Lists
        PROVE  Joined(fronts, Orders(all[c])) \in Lists
    <3>1. ASSUME NEW l \in Joined(fronts, Orders(all[c]))
          PROVE  l \in Seq(Names)
      <4>1. PICK front \in fronts, back \in Orders(all[c]) : l = front \o back
        BY <3>1, JoinedIs
      <4>2. front \in Seq(Names) /\ back \in Seq(Names)
        BY <1>4, <2>1
      <4> QED BY <4>1, <4>2, Concatenated
    <3> QED BY <3>1
  <2> HIDE DEF Lists
  <2>2. \A x \in (1 .. M) \X Lists : Joined(x[2], Orders(all[x[1]])) \in Lists
    <3> TAKE x \in (1 .. M) \X Lists
    <3>1. x[1] \in 1 .. M /\ x[2] \in Lists
      OBVIOUS
    <3> QED BY <2>1, <3>1
  <2> QED BY <2>2
<1>6. PICK f : /\ f \in [0 .. M -> Lists] /\ f[0] = none
               /\ \A i \in 1 .. M : f[i] = next[<<i, f[i - 1]>>]
  <2>1. none \in Lists
    OBVIOUS
  <2> HIDE DEF next, none, Lists
  <2>2. PICK f : Iterates(f, M, Lists, none, next)
    BY <1>3, <1>5, <2>1, StepsCanBeRepeated
  <2> QED BY <2>2 DEF Iterates
<1>7. ASSUME NEW i \in 1 .. M
      PROVE  f[i] = Joined(f[i - 1], Orders(all[i]))
  <2>1. f[i - 1] \in Lists
    <3>1. i - 1 \in 0 .. M
      BY <1>3
    <3> HIDE DEF Lists
    <3> QED BY <1>6, <3>1
  <2>2. <<i, f[i - 1]>> \in (1 .. M) \X Lists
    <3> HIDE DEF Lists
    <3> QED BY <2>1
  <2>3. f[i] = next[<<i, f[i - 1]>>]
    BY <1>6
  <2> QED BY <2>2, <2>3
<1>8. Made(f)
  <2>1. f = [i \in 0 .. M |-> f[i]]
    <3> HIDE DEF Lists
    <3> QED BY <1>6
  <2>2. \A i \in 0 .. M : i # 0 => i \in 1 .. M
    BY <1>3
  <2>3. \A i \in 0 .. M :
           f[i] = IF i = 0 THEN {<<>>}
                  ELSE Joined(f[i - 1], Orders(all[i]))
    BY <1>6, <1>7, <2>2
  <2> QED BY <2>1, <2>3
<1>9. Made(lists)
  <2> HIDE DEF Made
  <2> QED BY <1>8
<1> HIDE DEF lists
<1>10. lists[0] = {<<>>}
  <2>1. 0 \in 0 .. M
    BY <1>3
  <2> QED BY <1>9, <2>1
<1>11. ASSUME NEW i \in 1 .. M
       PROVE  lists[i] = Joined(lists[i - 1], Orders(all[i]))
  <2>1. i \in 0 .. M /\ i # 0
    BY <1>3
  <2> QED BY <1>9, <2>1
<1> DEFINE I == {i \in 0 .. M : Ordered(queues, list, all, i, lists[i])}
<1>12. 0 \in I
  <2>1. /\ \A l \in lists[0] : l = <<>>
        /\ <<>> \in Seq(Names) /\ ToSet(<<>>) = {} /\ DOMAIN <<>> = {}
    BY <1>10 DEF ToSet
  <2>2. Upto(all, 0) = {} /\ 0 \in 0 .. M
    <3>1. 1 .. 0 = {}
      OBVIOUS
    <3> QED BY <1>3, <3>1 DEF Upto
  <2>3. \A R : InOrder(<<>>, R)
    BY <2>1 DEF InOrder
  <2> QED BY <2>1, <2>2, <2>3 DEF Ordered
<1>13. ASSUME NEW i \in 1 .. M, i - 1 \in I PROVE i \in I
  <2>1. Ordered(queues, list, all, i - 1, lists[i - 1]) /\ i \in 1 .. Len(all)
    BY <1>13 DEF M
  <2>2. Ordered(queues, list, all, i,
                Joined(lists[i - 1], Orders(all[i])))
    BY <1>2, <2>1, OneMoreGroup
  <2>3. i \in 0 .. M
    BY <1>3
  <2> QED BY <1>11, <2>2, <2>3
<1>14. M \in I
  <2> HIDE DEF I
  <2> QED BY <1>3, <1>12, <1>13, UpTo
<1>15. /\ out \in Seq(Names) /\ ToSet(out) = Upto(all, M)
       /\ InOrder(out, Ordering(queues, list))
  BY <1>1, <1>14 DEF Ordered
<1>16. Upto(all, M) = ToSet(queues)
  <2>1. \A c \in 1 .. M : ToSet(all[c].list) \subseteq ToSet(queues)
    BY <1>3 DEF GroupRight
  <2>2. \A n \in ToSet(queues) : \E c \in 1 .. M : n \in ToSet(all[c].list)
    BY <1>2 DEF Ranked, M
  <2> QED BY <2>1, <2>2 DEF Upto
<1>17. IsInjective(out)
  <2>1. \A n : <<n, n>> \notin Ordering(queues, list)
    BY DEF Ordering
  <2> QED BY <1>15, <2>1, OrderedIsInjective
<1> QED BY <1>15, <1>16, <1>17

(* The step of the priority transformer is the one the reference           *)
(* describes.                                                              *)
LEMMA OrderStepIsRight ==
    ASSUME Reading, Order
    PROVE  OrderStep /\ resolved' \in Seq(Names)
<1>1. /\ matched \in Seq(Names) /\ IsInjective(matched) /\ using \in Priorities
      /\ resolved' \in PrioritizeQueues(matched, using)
  BY DEF Reading, Order
<1>2. using \in Seq(PriorityPatterns)
  BY <1>1, PatternsAssumption DEF PriorityPatterns
<1>3. /\ resolved' \in Seq(Names) /\ IsInjective(resolved')
      /\ ToSet(resolved') = ToSet(matched)
      /\ InOrder(resolved', Ordering(matched, using))
  BY <1>1, <1>2, PrioritizedInOrder
<1>4. \A i, k \in DOMAIN resolved' : i < k =>
         Precedes(matched, using, resolved'[i], resolved'[k])
  BY <1>3 DEF InOrder, Ordering
<1> QED BY <1>3, <1>4 DEF OrderStep

-----------------------------------------------------------------------------
(* What a transformer may have read.                                       *)
Values(k) == IF k = "mapping" THEN Mappings ELSE Priorities
Copies(k) == [value : Values(k), left : 0 .. TTL]

CachesAreCopies ==
    /\ cache = [k \in Kinds |-> cache[k]]
    /\ \A k \in Kinds : cache[k] = None \/ cache[k] \in Copies(k)

(* What it has is what is stored, or became old when it had as long to     *)
(* stay as has passed since.                                               *)
CachesAreFresh ==
    \A k \in Kinds : \/ cache[k] = None \/ cache[k].value = Stored(k)
                     \/ age[k] + cache[k].left <= TTL

ResultsAreLists ==
    /\ matched = Raised \/ (matched \in Seq(Names) /\ IsInjective(matched))
    /\ resolved \in {None, Raised} \/ (resolved \in Seq(Names) /\ IsInjective(resolved))

Inductive ==
    /\ Reading /\ CachesAreCopies /\ CachesAreFresh /\ ResultsAreLists
    /\ age \in [Kinds -> 0 .. TTL]

-----------------------------------------------------------------------------
(* The invariant holds at the start, and each action keeps it.             *)
LEMMA InitIsRight == Init => Inductive
<1> SUFFICES ASSUME Init PROVE Inductive
  OBVIOUS
<1>1. <<>> \in Seq(Names) /\ IsInjective(<<>>)
  BY DEF IsInjective
<1>2. Reading
  BY <1>1 DEF Init, Reading
<1>3. CachesAreCopies /\ CachesAreFresh
  BY DEF Init, CachesAreCopies, CachesAreFresh
<1>4. ResultsAreLists
  BY <1>1 DEF Init, ResultsAreLists
<1>5. age \in [Kinds -> 0 .. TTL]
  BY TTLAssumption DEF Init
<1> QED BY <1>2, <1>3, <1>4, <1>5 DEF Inductive

(* What is stored may be read.                                             *)
LEMMA StoredIsValue ==
    ASSUME Inductive, NEW k \in Kinds
    PROVE  Stored(k) \in Values(k)
BY DEF Inductive, Reading, Stored, Values

(* What the transformer of kind k works with, and what it keeps.           *)
LEMMA ReadIsRight ==
    ASSUME Inductive, NEW k \in Kinds, Read(k), UNCHANGED <<stored, age>>
    PROVE  /\ CachesAreCopies' /\ CachesAreFresh'
           /\ using' \in Values(k)
           /\ using' = Stored(k) \/ age[k] < TTL
<1> DEFINE new == [value |-> Stored(k), left |-> TTL]
           got == IF cache[k] = None THEN new
                  ELSE IF cache[k].left = 0 THEN new ELSE cache[k]
<1>1. cache' = [cache EXCEPT ![k] = got] /\ using' = got.value
  BY DEF Read
<1>2. TTL \in Nat /\ age[k] \in 0 .. TTL
  BY TTLAssumption DEF Inductive
<1>3. new \in Copies(k) /\ new.value = Stored(k)
  BY <1>2, StoredIsValue DEF Copies
<1>4. cache = [l \in Kinds |-> cache[l]]
      /\ \A l \in Kinds : cache[l] = None \/ cache[l] \in Copies(l)
  BY DEF Inductive, CachesAreCopies
<1> HIDE DEF new
<1>5. /\ got \in Copies(k)
      /\ got = new \/ (got = cache[k] /\ cache[k] # None /\ cache[k].left # 0)
  BY <1>3, <1>4
<1> HIDE DEF got
<1>6. /\ cache' = [l \in Kinds |-> IF l = k THEN got ELSE cache[l]]
      /\ \A l \in Kinds : cache'[l] = IF l = k THEN got ELSE cache[l]
  BY <1>1, <1>4
<1>7. CachesAreCopies'
  BY <1>4, <1>5, <1>6 DEF CachesAreCopies, Copies, Values
<1>8. got.value = Stored(k) \/ (age[k] + got.left <= TTL /\ got.left # 0)
  BY <1>3, <1>5 DEF Inductive, CachesAreFresh
<1>9. CachesAreFresh'
  <2>1. \A l \in Kinds : Stored(l)' = Stored(l) /\ age'[l] = age[l]
    BY DEF stored, Stored
  <2>2. \A l \in Kinds : \/ cache[l] = None \/ cache[l].value = Stored(l)
                         \/ age[l] + cache[l].left <= TTL
    BY DEF Inductive, CachesAreFresh
  <2> QED BY <1>6, <1>8, <2>1, <2>2 DEF CachesAreFresh
<1>10. using' \in Values(k)
  BY <1>1, <1>5 DEF Copies
<1>11. using' = Stored(k) \/ age[k] < TTL
  <2>1. got.left \in 0 .. TTL
    BY <1>5 DEF Copies
  <2> QED BY <1>1, <1>2, <1>8, <2>1
<1> QED BY <1>7, <1>9, <1>10, <1>11

(* What the caches and the ages are about is left alone.                   *)
LEMMA CachesAreLeft ==
    ASSUME Inductive, UNCHANGED <<stored, cache, age>>
    PROVE  CachesAreCopies' /\ CachesAreFresh' /\ age' \in [Kinds -> 0 .. TTL]
BY DEF Inductive, stored, CachesAreCopies, CachesAreFresh, Stored, Copies, Values

LEMMA BeginIsRight ==
    ASSUME Inductive, Begin PROVE Inductive'
<1>1. Read("mapping") /\ UNCHANGED <<stored, age>> /\ "mapping" \in Kinds
  BY DEF Begin, Kinds
<1>2. /\ CachesAreCopies' /\ CachesAreFresh' /\ using' \in Values("mapping")
  BY <1>1, ReadIsRight
<1>3. Reading'
  BY <1>2 DEF Inductive, Reading, Begin, stored, Values
<1>4. ResultsAreLists' /\ age' \in [Kinds -> 0 .. TTL]
  BY DEF Inductive, ResultsAreLists, Begin
<1> QED BY <1>2, <1>3, <1>4 DEF Inductive

LEMMA MatchIsRight ==
    ASSUME Inductive, MatchQueues PROVE Inductive'
<1>1. matched' = Raised \/ (matched' \in Seq(Names) /\ IsInjective(matched'))
  BY MatchStepIsRight DEF Inductive
<1>2. CachesAreCopies' /\ CachesAreFresh' /\ age' \in [Kinds -> 0 .. TTL]
  BY CachesAreLeft DEF MatchQueues
<1>3. /\ step' = IF matched' = Raised THEN "idle" ELSE "read"
      /\ resolved' = IF matched' = Raised THEN Raised ELSE resolved
      /\ UNCHANGED <<stored, known, identifiers>>
  BY DEF MatchQueues
<1>4. Reading'
  BY <1>1, <1>3 DEF Inductive, Reading, stored
<1>5. ResultsAreLists'
  BY <1>1, <1>3 DEF Inductive, ResultsAreLists
<1> QED BY <1>2, <1>4, <1>5 DEF Inductive

LEMMA ReadPrioritiesIsRight ==
    ASSUME Inductive, ReadPriorities PROVE Inductive'
<1>1. Read("priorities") /\ UNCHANGED <<stored, age>> /\ "priorities" \in Kinds
  BY DEF ReadPriorities, Kinds
<1>2. /\ CachesAreCopies' /\ CachesAreFresh' /\ using' \in Values("priorities")
  BY <1>1, ReadIsRight
<1>3. Reading'
  BY <1>2 DEF Inductive, Reading, ReadPriorities, stored, Values
<1>4. ResultsAreLists' /\ age' \in [Kinds -> 0 .. TTL]
  BY DEF Inductive, ResultsAreLists, ReadPriorities
<1> QED BY <1>2, <1>3, <1>4 DEF Inductive

LEMMA OrderIsRight ==
    ASSUME Inductive, Order PROVE Inductive'
<1>1. OrderStep /\ resolved' \in Seq(Names)
  BY OrderStepIsRight DEF Inductive
<1>2. CachesAreCopies' /\ CachesAreFresh' /\ age' \in [Kinds -> 0 .. TTL]
  BY CachesAreLeft DEF Order
<1>3. Reading'
  BY DEF Inductive, Reading, Order, stored
<1>4. ResultsAreLists'
  <2>1. <<>> \in Seq(Names) /\ IsInjective(<<>>)
    BY DEF IsInjective
  <2>2. matched' = <<>> /\ IsInjective(resolved')
    BY <1>1 DEF Order, OrderStep
  <2> QED BY <1>1, <2>1, <2>2 DEF ResultsAreLists
<1> QED BY <1>2, <1>3, <1>4 DEF Inductive

LEMMA SetMappingIsRight ==
    ASSUME Inductive, NEW m \in Mappings, SetMapping(m) PROVE Inductive'
<1>1. /\ mapping' = m /\ age' = [age EXCEPT !["mapping"] = 0]
      /\ UNCHANGED <<priorities, known, identifiers, cache, step, using, matched, resolved>>
  BY DEF SetMapping, worker
<1>2. Reading' /\ ResultsAreLists'
  BY <1>1 DEF Inductive, Reading, ResultsAreLists
<1>3. TTL \in Nat /\ age \in [Kinds -> 0 .. TTL]
  BY TTLAssumption DEF Inductive
<1>4. /\ age' \in [Kinds -> 0 .. TTL] /\ age'["mapping"] = 0
      /\ age'["priorities"] = age["priorities"]
  BY <1>1, <1>3 DEF Kinds
<1>5. CachesAreCopies'
  BY <1>1 DEF Inductive, CachesAreCopies, Copies, Values
<1>6. CachesAreFresh'
  <2>1. \A k \in Kinds : cache[k] = None \/ cache[k].left \in 0 .. TTL
    BY DEF Inductive, CachesAreCopies, Copies
  <2> QED BY <1>1, <1>3, <1>4, <2>1 DEF Inductive, CachesAreFresh, Stored, Kinds
<1> QED BY <1>2, <1>4, <1>5, <1>6 DEF Inductive

LEMMA SetPrioritiesIsRight ==
    ASSUME Inductive, NEW p \in Priorities, SetPriorities(p) PROVE Inductive'
<1>1. /\ priorities' = p /\ age' = [age EXCEPT !["priorities"] = 0]
      /\ UNCHANGED <<mapping, known, identifiers, cache, step, using, matched, resolved>>
  BY DEF SetPriorities, worker
<1>2. Reading' /\ ResultsAreLists'
  BY <1>1 DEF Inductive, Reading, ResultsAreLists
<1>3. TTL \in Nat /\ age \in [Kinds -> 0 .. TTL]
  BY TTLAssumption DEF Inductive
<1>4. /\ age' \in [Kinds -> 0 .. TTL] /\ age'["priorities"] = 0
      /\ age'["mapping"] = age["mapping"]
  BY <1>1, <1>3 DEF Kinds
<1>5. CachesAreCopies'
  BY <1>1 DEF Inductive, CachesAreCopies, Copies, Values
<1>6. CachesAreFresh'
  <2>1. \A k \in Kinds : cache[k] = None \/ cache[k].left \in 0 .. TTL
    BY DEF Inductive, CachesAreCopies, Copies
  <2> QED BY <1>1, <1>3, <1>4, <2>1 DEF Inductive, CachesAreFresh, Stored, Kinds
<1> QED BY <1>2, <1>4, <1>5, <1>6 DEF Inductive

LEMMA AppearIsRight ==
    ASSUME Inductive, NEW n \in Names, Appear(n) PROVE Inductive'
<1>1. /\ n \notin ToSet(known) /\ known' = Append(known, n)
      /\ UNCHANGED <<stored, identifiers, cache, age, step, using, matched, resolved>>
  BY DEF Appear, worker
<1>2. known \in Seq(Names) /\ IsInjective(known)
  BY DEF Inductive, Reading
<1>3. known' \in Seq(Names) /\ IsInjective(known')
  <2> DEFINE N == Len(known)
  <2>1. /\ N \in Nat /\ known' \in Seq(Names) /\ DOMAIN known' = 1 .. N + 1
        /\ known'[N + 1] = n /\ \A a \in 1 .. N : known'[a] = known[a]
        /\ DOMAIN known = 1 .. N
    BY <1>1, <1>2
  <2>2. \A a \in 1 .. N : known[a] # n
    BY <1>1, <2>1 DEF ToSet
  <2>3. \A a \in 1 .. N + 1 : a \in 1 .. N \/ a = N + 1
    BY <2>1
  <2>4. \A a, b \in 1 .. N : known[a] = known[b] => a = b
    BY <1>2, <2>1 DEF IsInjective
  <2> HIDE DEF N
  <2>5. \A a, b \in 1 .. N + 1 : known'[a] = known'[b] => a = b
    BY <2>1, <2>2, <2>3, <2>4
  <2> QED BY <2>1, <2>5 DEF IsInjective
<1>4. Reading' /\ ResultsAreLists'
  BY <1>1, <1>3 DEF Inductive, Reading, ResultsAreLists, stored
<1>5. CachesAreCopies' /\ CachesAreFresh' /\ age' \in [Kinds -> 0 .. TTL]
  BY <1>1, CachesAreLeft
<1> QED BY <1>4, <1>5 DEF Inductive

LEMMA ForgetIsRight ==
    ASSUME Inductive, NEW n \in Names, Forget(n) PROVE Inductive'
<1>1. /\ known' = Among(known, Names \ {n})
      /\ UNCHANGED <<stored, identifiers, cache, age, step, using, matched, resolved>>
  BY DEF Forget, worker
<1>2. known \in Seq(Names) /\ IsInjective(known)
  BY DEF Inductive, Reading
<1>3. known' \in Seq(Names) /\ IsInjective(known')
  BY <1>1, <1>2, AmongIs, AmongIsInjective
<1>4. Reading' /\ ResultsAreLists'
  BY <1>1, <1>3 DEF Inductive, Reading, ResultsAreLists, stored
<1>5. CachesAreCopies' /\ CachesAreFresh' /\ age' \in [Kinds -> 0 .. TTL]
  BY <1>1, CachesAreLeft
<1> QED BY <1>4, <1>5 DEF Inductive

LEMMA TickIsRight ==
    ASSUME Inductive, Tick PROVE Inductive'
<1> DEFINE Older(c) == IF c = None THEN None
                       ELSE [c EXCEPT !.left = IF @ = 0 THEN 0 ELSE @ - 1]
<1>1. /\ cache' = [k \in Kinds |-> Older(cache[k])]
      /\ age' = [k \in Kinds |-> IF age[k] = TTL THEN TTL ELSE age[k] + 1]
      /\ UNCHANGED <<stored, known, identifiers, step, using, matched, resolved>>
  BY DEF Tick, worker
<1>2. Reading' /\ ResultsAreLists'
  BY <1>1 DEF Inductive, Reading, ResultsAreLists, stored
<1>3. TTL \in Nat /\ age \in [Kinds -> 0 .. TTL]
  BY TTLAssumption DEF Inductive
<1>4. age' \in [Kinds -> 0 .. TTL]
  <2>1. \A k \in Kinds : (IF age[k] = TTL THEN TTL ELSE age[k] + 1) \in 0 .. TTL
    <3> TAKE k \in Kinds
    <3>1. age[k] \in 0 .. TTL
      BY <1>3
    <3> QED BY <1>3, <3>1
  <2> QED BY <1>1, <2>1
<1>5. ASSUME NEW k \in Kinds, NEW c, c \in Copies(k), c # None
      PROVE  /\ Older(c) \in Copies(k) /\ Older(c).value = c.value
             /\ c.left \in 0 .. TTL
             /\ Older(c).left = IF c.left = 0 THEN 0 ELSE c.left - 1
  BY <1>3, <1>5 DEF Copies
<1>6. \A k \in Kinds : cache[k] = None \/ cache[k] \in Copies(k)
  BY DEF Inductive, CachesAreCopies
<1>7. \A k \in Kinds : cache[k] = None => Older(cache[k]) = None
  OBVIOUS
<1> HIDE DEF Older
<1>8. \A k \in Kinds : cache'[k] = Older(cache[k])
  BY <1>1
<1>9. CachesAreCopies'
  <2>1. \A k \in Kinds : cache'[k] = None \/ cache'[k] \in Copies(k)
    BY <1>5, <1>6, <1>7, <1>8
  <2>2. cache' = [k \in Kinds |-> cache'[k]]
    BY <1>1
  <2> QED BY <2>1, <2>2 DEF CachesAreCopies, Copies, Values
<1>10. CachesAreFresh'
  <2> SUFFICES ASSUME NEW k \in Kinds, cache[k] # None
               PROVE  \/ cache'[k] = None \/ cache'[k].value = Stored(k)'
                      \/ age'[k] + cache'[k].left <= TTL
    BY <1>7, <1>8 DEF CachesAreFresh
  <2>1. /\ cache'[k].value = cache[k].value /\ cache[k].left \in 0 .. TTL
        /\ cache'[k].left = IF cache[k].left = 0 THEN 0 ELSE cache[k].left - 1
    BY <1>5, <1>6, <1>8
  <2>2. age[k] \in 0 .. TTL /\ age'[k] = IF age[k] = TTL THEN TTL ELSE age[k] + 1
    BY <1>1, <1>3
  <2>3. Stored(k)' = Stored(k)
    BY <1>1 DEF Stored, stored
  <2>4. cache[k].value = Stored(k) \/ age[k] + cache[k].left <= TTL
    BY DEF Inductive, CachesAreFresh
  <2> QED BY <1>3, <2>1, <2>2, <2>3, <2>4
<1> QED BY <1>2, <1>4, <1>9, <1>10 DEF Inductive

(* Every step keeps the invariant.                                         *)
LEMMA Preserved == Inductive /\ [Next]_vars => Inductive'
<1> SUFFICES ASSUME Inductive, [Next]_vars PROVE Inductive'
  OBVIOUS
<1>1. CASE UNCHANGED vars
  BY <1>1 DEF vars, stored, worker, Inductive, Reading, CachesAreCopies, CachesAreFresh,
              ResultsAreLists, Stored, Copies, Values
<1>2. CASE Begin
  BY <1>2, BeginIsRight
<1>3. CASE MatchQueues
  BY <1>3, MatchIsRight
<1>4. CASE ReadPriorities
  BY <1>4, ReadPrioritiesIsRight
<1>5. CASE Order
  BY <1>5, OrderIsRight
<1>6. ASSUME NEW m \in Mappings, SetMapping(m) PROVE Inductive'
  BY <1>6, SetMappingIsRight
<1>7. ASSUME NEW p \in Priorities, SetPriorities(p) PROVE Inductive'
  BY <1>7, SetPrioritiesIsRight
<1>8. ASSUME NEW n \in Names, Appear(n) PROVE Inductive'
  BY <1>8, AppearIsRight
<1>9. ASSUME NEW n \in Names, Forget(n) PROVE Inductive'
  BY <1>9, ForgetIsRight
<1>10. CASE Tick
  BY <1>10, TickIsRight
<1> QED
  BY <1>1, <1>2, <1>3, <1>4, <1>5, <1>6, <1>7, <1>8, <1>9, <1>10 DEF Next

(* The invariant holds in every state.                                     *)
LEMMA Invariance == Spec => []Inductive
<1>1. Init => Inductive
  BY InitIsRight
<1>2. Inductive /\ [Next]_vars => Inductive'
  BY Preserved
<1> QED BY <1>1, <1>2, PTL DEF Spec

-----------------------------------------------------------------------------
(* The lists a worker works with name no queue twice.                      *)
THEOREM TypeCorrect == Spec => []TypeOK
<1>1. ASSUME Inductive PROVE TypeOK
  <2>1. /\ mapping \in Mappings /\ priorities \in Priorities /\ identifiers \in Identifiers
        /\ IsInjective(known) /\ step \in {"idle", "match", "read", "order"}
        /\ known \in Seq(Names) /\ age \in [Kinds -> 0 .. TTL]
    BY <1>1 DEF Inductive, Reading
  <2>2. ToSet(known) \subseteq Names
    BY <2>1, ToSetIs
  <2>3. \A k \in Kinds : cache[k] # None => cache[k].left \in 0 .. TTL
    BY <1>1 DEF Inductive, CachesAreCopies, Copies
  <2>4. /\ matched # Raised => IsInjective(matched)
        /\ resolved \notin {None, Raised} =>
              resolved \in Seq(Names) /\ IsInjective(resolved)
    BY <1>1 DEF Inductive, ResultsAreLists
  <2>5. resolved \notin {None, Raised} => ToSet(resolved) \subseteq Names
    BY <2>4, ToSetIs
  <2> QED BY <2>1, <2>2, <2>3, <2>4, <2>5 DEF TypeOK
<1> QED BY <1>1, Invariance, PTL

(* What the mapping transformer makes of the identifiers has a queue when  *)
(* the last pattern that decides about it takes it, in the order they came *)
(* in to stay, and resolve raises just when a pattern removes a queue that *)
(* is not in.                                                              *)
THEOREM MatchesAsListed == Spec => MatchedAsListed
<1>1. ASSUME Inductive, [Next]_vars PROVE [MatchQueues => MatchStep]_vars
  BY <1>1, MatchStepIsRight DEF Inductive
<1> QED BY <1>1, Invariance, PTL DEF Spec, MatchedAsListed

(* The priority transformer returns the queues it is given, each once, by  *)
(* the first priority pattern that claims each; those of one pattern are   *)
(* in the order of its patterns unless it is fair, and those nothing       *)
(* claims are where the last "default" is.                                 *)
THEOREM OrdersByPriority == Spec => OrderedByPriority
<1>1. ASSUME Inductive, [Next]_vars PROVE [Order => OrderStep]_vars
  BY <1>1, OrderStepIsRight DEF Inductive
<1> QED BY <1>1, Invariance, PTL DEF Spec, OrderedByPriority

(* A transformer never works with what was replaced as long as its refresh *)
(* frequency ago.                                                          *)
THEOREM WhatIsUsedIsFresh == Spec => StalenessIsBounded
<1>1. ASSUME Inductive, [Next]_vars PROVE [ReadStep]_vars
  <2>1. ASSUME Begin PROVE using' = mapping \/ age["mapping"] < TTL
    <3>1. Read("mapping") /\ UNCHANGED <<stored, age>> /\ "mapping" \in Kinds
      BY <2>1 DEF Begin, Kinds
    <3>2. using' = Stored("mapping") \/ age["mapping"] < TTL
      BY <1>1, <3>1, ReadIsRight
    <3> QED BY <3>2 DEF Stored
  <2>2. ASSUME ReadPriorities PROVE using' = priorities \/ age["priorities"] < TTL
    <3>1. Read("priorities") /\ UNCHANGED <<stored, age>> /\ "priorities" \in Kinds
      BY <2>2 DEF ReadPriorities, Kinds
    <3>2. using' = Stored("priorities") \/ age["priorities"] < TTL
      BY <1>1, <3>1, ReadIsRight
    <3> QED BY <3>2 DEF Stored
  <2> QED BY <2>1, <2>2 DEF ReadStep
<1> QED BY <1>1, Invariance, PTL DEF Spec, StalenessIsBounded
=============================================================================
