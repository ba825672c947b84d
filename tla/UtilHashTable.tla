--------------------------- MODULE UtilHashTable ---------------------------
(***************************************************************************)
(* UtilHashTable (sfcUtil/hashtable.c, utilHashtable.c): an array of chains*)
(* of key/value pairs.                                                     *)
(*                                                                         *)
(* A table as newHashTableDefault() makes it: equal keys hash alike, and   *)
(* the table owns its keys and values and frees them.  A member of Keys is *)
(* a class of equal keys; the caller's pointers to it are told apart by    *)
(* their copy.  There is at most one pair for each key, so the key names   *)
(* the pair.                                                               *)
(***************************************************************************)
EXTENDS Integers, FiniteSets, Sequences, SequencesExt

CONSTANTS
  Keys,
  Copies,                 \* pointers to equal keys
  Values,                 \* pointers to values
  Hash,                   \* the hash of every key
  Iterators,
  BucketCounts,           \* what HashTableCreate and HashTableRehash may be asked for
  IdealRatio,             \* 3 in the code
  UpperRehashThreshold,   \* 15 in the code
  NULL

\* isProbablePrime(), calculateIdealNumOfBuckets()
IsProbablePrime(n) ==
  \A i \in 3..50 : i % 2 = 1 /\ n % i = 0 => n = i \/ \E j \in 3..(i - 1) : j % 2 = 1 /\ n = j

IdealNumOfBuckets(elements) ==
  LET n == elements \div IdealRatio
      odd == IF n % 2 = 0 THEN n + 1 ELSE n
  IN IF n < 5 THEN 5
     ELSE CHOOSE m \in odd..(2 * odd) :
            /\ m % 2 = 1 /\ IsProbablePrime(m)
            /\ \A j \in odd..(m - 1) : j % 2 = 0 \/ ~IsProbablePrime(j)

\* How many buckets a table may have.
TableSizes == BucketCounts \cup {5} \cup {IdealNumOfBuckets(m) : m \in 0..Cardinality(Keys)}

\* What is expected of the constants: no table is without buckets, the search for
\* a number of buckets finds one, and the null pointer is no table.
TableAssumption ==
  /\ IsFiniteSet(Keys) /\ Hash \in [Keys -> Nat]
  /\ TableSizes \subseteq Nat \ {0}
  /\ \A n \in TableSizes : NULL \notin [0..(n - 1) -> Seq(Keys)]
  /\ Values \cap (Keys \X Copies) = {}

\* The same where a table is seen as a map (HashMap): the null pointer is neither
\* a key, an iterator nor a map, and a table is rehashed when it is full, which
\* with the ideal number of buckets it is not.
MapAssumption ==
  /\ Keys \cap {NULL, "dangling", "lost"} = {}
  /\ NULL \notin [bucket : Nat, pair : Keys \cup {"dangling"}]
  /\ NULL \notin [on : Keys \cup {"lost"}, todo : SUBSET Keys, exact : BOOLEAN]
  /\ \A K \in SUBSET Keys : NULL \notin [K -> [key : Copies, value : Values]]
  /\ UpperRehashThreshold > IdealRatio
  /\ \A m \in 0..Cardinality(Keys) : ~(m > UpperRehashThreshold * IdealNumOfBuckets(m))

VARIABLES
  bucketArray,      \* the chains, from 0; NULL while there is no table
  numOfElements,
  pairs,            \* key and value of every pair, by its key
  iter,             \* what getFirst allocated: a bucket and a pair
  allocated,        \* keys and values that were given to the table and not freed
  result,           \* the pair or value the last call returned
  shuffled,         \* history: iterators since whose start there was a rehash
  crashed           \* a pair was read that was freed

table == <<bucketArray, numOfElements, pairs, allocated>>
vars == <<table, iter, result, shuffled, crashed>>

Dangling == "dangling"
NoPairs == [k \in {} |-> NULL]

numOfBuckets == Cardinality(DOMAIN bucketArray)
Bucket(k) == Hash[k] % numOfBuckets

\* The search in a chain.
Found(k) == k \in ToSet(bucketArray[Bucket(k)])

Held(S) == {<<k, pairs[k].key>> : k \in S} \cup {pairs[k].value : k \in S}

----------------------------------------------------------------------------
\* Mutant: the pairs keep their bucket.
Rehashed_SameBucket(array, n) ==
  [i \in 0..(n - 1) |-> IF i \in DOMAIN array THEN Reverse(array[i]) ELSE <<>>]

\* The chains are walked one after the other, and every pair put in front of
\* its new chain.
Rehashed(array, n) ==
  LET count == Cardinality(DOMAIN array)
      walk[b \in 0..count] == IF b = 0 THEN <<>> ELSE walk[b - 1] \o array[b - 1]
      moved[m \in 0..Len(walk[count])] ==
        IF m = 0 THEN [i \in 0..(n - 1) |-> <<>>]
        ELSE LET k == walk[count][m] IN [moved[m - 1] EXCEPT ![Hash[k] % n] = <<k>> \o @]
  IN moved[Len(walk[count])]

\* HashTableRehash() of a table with these chains.
RehashTo(array, n) ==
  IF n = Cardinality(DOMAIN array)
  THEN bucketArray' = array /\ UNCHANGED shuffled
  ELSE /\ bucketArray' = Rehashed(array, n)
       /\ shuffled' = {i \in Iterators : iter[i] # NULL}

----------------------------------------------------------------------------
HashTableCreate(n) ==
  /\ bucketArray = NULL
  /\ bucketArray' = [i \in 0..(n - 1) |-> <<>>]
  /\ UNCHANGED <<numOfElements, pairs, allocated, iter, result, shuffled, crashed>>

\* Iterators of a table that is gone are left out.
HashTableDestroy ==
  /\ bucketArray # NULL
  /\ bucketArray' = NULL
  /\ numOfElements' = 0
  /\ pairs' = NoPairs
  /\ allocated' = allocated \ Held(DOMAIN pairs)
  /\ iter' = [i \in Iterators |-> NULL]
  /\ shuffled' = {}
  /\ UNCHANGED <<result, crashed>>

\* Mutant: an equal key is dropped and not freed.
Replaced_KeyKept(k, c, v) == {pairs[k].value} \ {v}

\* What a put under an existing key frees.
Replaced(k, c, v) ==
  (IF pairs[k].key # c THEN {<<k, pairs[k].key>>} ELSE {}) \cup ({pairs[k].value} \ {v})

\* The caller gives pointers that the table has not, or those of this pair.
HashTablePut(k, c, v) ==
  /\ bucketArray # NULL
  /\ {<<k, c>>, v} \cap Held(DOMAIN pairs \ {k}) = {}
  /\ pairs' = [j \in DOMAIN pairs \cup {k} |->
                IF j = k THEN [key |-> c, value |-> v] ELSE pairs[j]]
  /\ IF Found(k)
     THEN /\ allocated' = (allocated \ Replaced(k, c, v)) \cup {<<k, c>>, v}
          /\ UNCHANGED <<bucketArray, numOfElements, shuffled>>
     ELSE LET array == [bucketArray EXCEPT ![Bucket(k)] = <<k>> \o @]
          IN /\ allocated' = allocated \cup {<<k, c>>, v}
             /\ numOfElements' = numOfElements + 1
             /\ IF /\ UpperRehashThreshold > IdealRatio
                   /\ numOfElements + 1 > UpperRehashThreshold * numOfBuckets
                THEN RehashTo(array, IdealNumOfBuckets(numOfElements + 1))
                ELSE bucketArray' = array /\ UNCHANGED shuffled
  /\ UNCHANGED <<iter, result, crashed>>

\* Pairs are freed: an iterator that is on one of them is left dangling.
Freed(S) ==
  /\ allocated' = allocated \ Held(S)
  /\ pairs' = [k \in DOMAIN pairs \ S |-> pairs[k]]
  /\ iter' = [i \in Iterators |->
               IF iter[i] # NULL /\ iter[i].pair \in S THEN [iter[i] EXCEPT !.pair = Dangling]
               ELSE iter[i]]

\* The lower threshold is 0: a removal does not rehash.
HashTableRemove(k) ==
  /\ bucketArray # NULL
  /\ IF Found(k)
     THEN /\ bucketArray' = [bucketArray EXCEPT ![Bucket(k)] = RemoveFirst(@, k)]
          /\ numOfElements' = numOfElements - 1
          /\ Freed({k})
     ELSE UNCHANGED <<table, iter>>
  /\ UNCHANGED <<result, shuffled, crashed>>

HashTableRemoveAll ==
  /\ bucketArray # NULL
  /\ RehashTo([i \in DOMAIN bucketArray |-> <<>>], 5)
  /\ numOfElements' = 0
  /\ Freed(DOMAIN pairs)
  /\ UNCHANGED <<result, crashed>>

HashTableRehash(n) ==
  /\ bucketArray # NULL
  /\ RehashTo(bucketArray, IF n = 0 THEN IdealNumOfBuckets(numOfElements) ELSE n)
  /\ UNCHANGED <<numOfElements, pairs, allocated, iter, result, crashed>>

\* HashTableGet, HashTableContainsKey
HashTableGet(k) ==
  /\ bucketArray # NULL
  /\ result' = IF Found(k) THEN pairs[k].value ELSE NULL
  /\ UNCHANGED <<table, iter, shuffled, crashed>>

----------------------------------------------------------------------------
\* The pair is returned and the iterator kept, or the iterator freed.
Return(i, bucket, pair) ==
  /\ iter' = [iter EXCEPT ![i] = IF pair = NULL THEN NULL ELSE [bucket |-> bucket, pair |-> pair]]
  /\ result' = IF pair = NULL THEN NULL ELSE <<pair, pairs[pair]>>
  /\ shuffled' = IF pair = NULL THEN shuffled \ {i} ELSE shuffled
  /\ UNCHANGED <<table, crashed>>

\* The first pair of the first bucket from b on that has one.
ReturnFrom(i, b) ==
  LET some == {c \in DOMAIN bucketArray : c >= b /\ bucketArray[c] # <<>>}
  IN IF some = {} THEN Return(i, 0, NULL)
     ELSE LET c == CHOOSE c \in some : \A d \in some : c <= d
          IN Return(i, c, Head(bucketArray[c]))

hashTableGetFirst(i) == bucketArray # NULL /\ iter[i] = NULL /\ ReturnFrom(i, 0)

\* pair->next, in the chain the pair is in now.
NextInChain(k) ==
  LET chain == bucketArray[Bucket(k)]
      j == SelectInSeq(chain, LAMBDA m : m = k)
  IN IF j = Len(chain) THEN NULL ELSE chain[j + 1]

\* Mutant: the walk goes on in the bucket that follows the pair's next.
hashTableGetNext_SkipsChain(i) ==
  /\ bucketArray # NULL /\ iter[i] # NULL
  /\ IF iter[i].pair = Dangling
     THEN crashed' = TRUE /\ UNCHANGED <<table, iter, result, shuffled>>
     ELSE ReturnFrom(i, iter[i].bucket + 1)

hashTableGetNext(i) ==
  LET it == iter[i] IN
  /\ bucketArray # NULL /\ it # NULL
  /\ IF it.pair = Dangling
     THEN crashed' = TRUE /\ UNCHANGED <<table, iter, result, shuffled>>
     ELSE IF it.bucket >= numOfBuckets THEN Return(i, 0, NULL)
     ELSE IF NextInChain(it.pair) # NULL THEN Return(i, it.bucket, NextInChain(it.pair))
     ELSE ReturnFrom(i, it.bucket + 1)

----------------------------------------------------------------------------
Init ==
  /\ bucketArray = NULL
  /\ numOfElements = 0
  /\ pairs = NoPairs
  /\ iter = [i \in Iterators |-> NULL]
  /\ allocated = {}
  /\ result = NULL
  /\ shuffled = {}
  /\ crashed = FALSE

Next ==
  /\ ~crashed
  /\ \/ \E n \in BucketCounts : HashTableCreate(n) \/ HashTableRehash(n)
     \/ HashTableDestroy \/ HashTableRemoveAll \/ HashTableRehash(0)
     \/ \E k \in Keys : HashTableRemove(k) \/ HashTableGet(k)
     \/ \E k \in Keys, c \in Copies, v \in Values : HashTablePut(k, c, v)
     \/ \E i \in Iterators : hashTableGetFirst(i) \/ hashTableGetNext(i)

Spec == Init /\ [][Next]_vars

----------------------------------------------------------------------------
(* Properties.                                                             *)

\* Every pair is in the bucket its key hashes to now, once, and the table knows
\* how many they are: a rehash, asked for or not, loses none and strands none.
PairsInPlace ==
  bucketArray # NULL =>
    /\ UNION {ToSet(bucketArray[b]) : b \in DOMAIN bucketArray} = DOMAIN pairs
    /\ \A b \in DOMAIN bucketArray :
         IsInjective(bucketArray[b]) /\ \A k \in ToSet(bucketArray[b]) : Bucket(k) = b
    /\ numOfElements = Cardinality(DOMAIN pairs)

\* The table owns the keys and values of its pairs and no others: what a put
\* replaces and what is removed is freed once, with the copy of the key that
\* was stored, and nothing is freed that is still in the table.
TableOwnsItsPairs == allocated = Held(DOMAIN pairs)

\* What an iterator has yet to return, for the refinement mapping.
Todo(i) ==
  LET it == iter[i]
      chain == bucketArray[Bucket(it.pair)]
      j == SelectInSeq(chain, LAMBDA m : m = it.pair)
  IN ToSet(SubSeq(chain, j + 1, Len(chain)))
     \cup UNION {ToSet(bucketArray[b]) : b \in {b \in DOMAIN bucketArray : b > it.bucket}}

\* A table is a map with iterations, see HashMap.
Abstract == INSTANCE HashMap WITH
  map <- IF bucketArray = NULL THEN NULL ELSE pairs,
  buckets <- IF bucketArray = NULL THEN 0 ELSE numOfBuckets,
  IdealBuckets <- IdealNumOfBuckets,
  iteration <- [i \in Iterators |->
                 IF iter[i] = NULL THEN NULL
                 ELSE [on |-> IF iter[i].pair = Dangling THEN "lost" ELSE iter[i].pair,
                       todo |-> IF iter[i].pair = Dangling \/ i \in shuffled THEN {} ELSE Todo(i),
                       exact |-> i \notin shuffled]],
  answer <- result,
  ended <- crashed

TableRefinesMap == Abstract!Spec

=============================================================================
