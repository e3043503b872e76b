-------------------------- MODULE MCQueueResolvers --------------------------
(***************************************************************************)
(* Instances of QueueResolvers for TLC: two queues, one dynamic identifier.*)
(***************************************************************************)
EXTENDS QueueResolvers

TwoNames == {"a", "b"}
D        == CHOOSE d \in Ids : TRUE

Pattern(neg, star, names, at) ==
    [neg |-> neg, star |-> star, names |-> names, at |-> at]

A      == Pattern(FALSE, FALSE, {"a"}, NoId)
B      == Pattern(FALSE, FALSE, {"b"}, NoId)
NotA   == Pattern(TRUE, FALSE, {"a"}, NoId)
Each    == Pattern(FALSE, TRUE, {"a", "b"}, NoId)
NotEach == Pattern(TRUE, TRUE, {"a", "b"}, NoId)
Dyn    == Pattern(FALSE, FALSE, {}, D)
NotDyn == Pattern(TRUE, FALSE, {}, D)

(* The lists with a "*" and up to two more, and some without.              *)
SomeIdentifiers ==
    {<<Each, p, q>> : p \in {A, B, Dyn}, q \in {NotA, Dyn, NotDyn}}
      \cup {<<B, A>>, <<A, Each>>, <<Dyn, Each>>, <<B, NotA>>, <<A, NotEach, Dyn>>}

SomeMappings == {[d \in Ids |-> <<A>>], [d \in Ids |-> <<Each, NotA>>]}

Group1(patterns, fairly) == [patterns |-> patterns, fairly |-> fairly]
Rest(fairly) == Group1(<<Default>>, fairly)

SomePriorities ==
    {<<Rest(FALSE)>>,
     <<Group1(<<B>>, FALSE), Rest(TRUE)>>,
     <<Rest(FALSE), Group1(<<Each, NotA>>, FALSE), Group1(<<A, B>>, TRUE)>>,
     <<Group1(<<B, Each>>, FALSE), Rest(FALSE)>>}
=============================================================================
