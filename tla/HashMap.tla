------------------------------ MODULE HashMap ------------------------------
(***************************************************************************)
(* What a UtilHashTable promises (utilft.h): a map from keys to values that*)
(* keeps the caller's copy of the key beside the value, and iterations over*)
(* it.                                                                     *)
(*                                                                         *)
(* An iteration returns every pair once, with those that are put meanwhile *)
(* or without.  Two things it does not survive: a rehash, after which it   *)
(* may return any pair any number of times and end at any time; and the    *)
(* removal of the pair it returned last, after which it may do anything.   *)
(***************************************************************************)
EXTENDS Integers, FiniteSets

CONSTANTS Keys, Copies, Values, Iterators, BucketCounts, IdealBuckets(_), UpperRehashThreshold, NULL

VARIABLES
  map,         \* a function from the keys there are, NULL while there is no table
  buckets,     \* how many buckets the table has
  iteration,   \* of each iterator: the last pair, the pairs to come
  answer,      \* the pair or value the last call returned
  ended        \* a call had no defined meaning

vars == <<map, buckets, iteration, answer, ended>>

Lost == "lost"

None == [k \in {} |-> NULL]

\* Those of the iterations that are going on.
Going == {i \in Iterators : iteration[i] # NULL}

Each(S, F(_)) == iteration' = [i \in Iterators |-> IF i \in S THEN F(iteration[i]) ELSE iteration[i]]

Shuffled(it) == [it EXCEPT !.exact = FALSE, !.todo = {}]

Rehashed(n) ==
  /\ buckets' = n
  /\ IF n = buckets THEN UNCHANGED iteration ELSE Each(Going, Shuffled)

Init ==
  /\ map = NULL
  /\ buckets = 0
  /\ iteration = [i \in Iterators |-> NULL]
  /\ answer = NULL
  /\ ended = FALSE

Create(n) == map = NULL /\ map' = None /\ buckets' = n /\ UNCHANGED <<iteration, answer, ended>>

\* What was an iterator of the table is of no use.
Release ==
  /\ map # NULL
  /\ map' = NULL /\ buckets' = 0
  /\ iteration' = [i \in Iterators |-> NULL]
  /\ UNCHANGED <<answer, ended>>

Put(k, entry) ==
  LET full == Cardinality(DOMAIN map) + 1 > UpperRehashThreshold * buckets
      n == IdealBuckets(Cardinality(DOMAIN map) + 1)
  IN /\ map # NULL
     /\ map' = [j \in DOMAIN map \cup {k} |-> IF j = k THEN entry ELSE map[j]]
     /\ CASE k \in DOMAIN map -> UNCHANGED <<buckets, iteration>>
          [] k \notin DOMAIN map /\ full -> Rehashed(n)
          [] OTHER -> /\ UNCHANGED buckets
                      /\ \E S \in SUBSET {i \in Going : iteration[i].exact /\ iteration[i].on # Lost} :
                           Each(S, LAMBDA it : [it EXCEPT !.todo = @ \cup {k}])
     /\ UNCHANGED <<answer, ended>>

Remove(k) ==
  LET Without(it) == IF it.on = k THEN [it EXCEPT !.on = Lost, !.todo = {}]
                     ELSE [it EXCEPT !.todo = @ \ {k}]
  IN /\ map # NULL
     /\ map' = [j \in DOMAIN map \ {k} |-> map[j]]
     /\ Each(Going, Without)
     /\ UNCHANGED <<buckets, answer, ended>>

Clear ==
  LET Over(it) == [it EXCEPT !.exact = @ /\ buckets = 5, !.on = Lost, !.todo = {}]
  IN /\ map # NULL
     /\ map' = None /\ buckets' = 5
     /\ Each(Going, Over)
     /\ UNCHANGED <<answer, ended>>

Rehash(n) ==
  /\ map # NULL
  /\ Rehashed(IF n = 0 THEN IdealBuckets(Cardinality(DOMAIN map)) ELSE n)
  /\ UNCHANGED <<map, answer, ended>>

Get(k) ==
  /\ map # NULL
  /\ answer' = IF k \in DOMAIN map THEN map[k].value ELSE NULL
  /\ UNCHANGED <<map, buckets, iteration, ended>>

Returns(i, k, todo, exact) ==
  /\ iteration' = [iteration EXCEPT ![i] = [on |-> k, todo |-> todo, exact |-> exact]]
  /\ answer' = <<k, map[k]>>
  /\ UNCHANGED <<map, buckets, ended>>

Ends(i) ==
  /\ iteration' = [iteration EXCEPT ![i] = NULL]
  /\ answer' = NULL
  /\ UNCHANGED <<map, buckets, ended>>

GetFirst(i) ==
  /\ map # NULL /\ iteration[i] = NULL
  /\ IF map = None THEN Ends(i)
     ELSE \E k \in DOMAIN map : Returns(i, k, DOMAIN map \ {k}, TRUE)

GetNext(i) ==
  LET it == iteration[i] IN
  /\ it # NULL
  /\ CASE it.on = Lost -> ended' = TRUE /\ UNCHANGED <<map, buckets, iteration, answer>>
       [] it.on # Lost /\ it.exact ->
            IF it.todo = {} THEN Ends(i)
            ELSE \E k \in it.todo : Returns(i, k, it.todo \ {k}, TRUE)
       [] OTHER -> Ends(i) \/ \E k \in DOMAIN map : Returns(i, k, {}, FALSE)

Next ==
  /\ ~ended
  /\ \/ \E n \in BucketCounts : Create(n) \/ Rehash(n)
     \/ Release \/ Clear \/ Rehash(0)
     \/ \E k \in Keys : Remove(k) \/ Get(k)
     \/ \E k \in Keys, c \in Copies, v \in Values : Put(k, [key |-> c, value |-> v])
     \/ \E i \in Iterators : GetFirst(i) \/ GetNext(i)

Spec == Init /\ [][Next]_vars
=============================================================================
