-------------------------- MODULE ClientTables_Proofs --------------------------
(***************************************************************************)
(* TLAPS proofs about UtilHashTable as the part of MCSpec, for any keys,   *)
(* hash function and numbers of buckets: every pair is where its key is    *)
(* looked for, the table frees what it was given once, and a program sees  *)
(* of it what it would see of a map with iterations, see HashMap.          *)
(***************************************************************************)
EXTENDS MCClient, FiniteSetTheorems, SequenceTheorems, WellFoundedInduction, TLAPS

\* What c has, and that it has it once.
On(c) == {c[k] : k \in 1..Len(c)}

Once(c) == \A j, k \in 1..Len(c) : c[j] = c[k] => j = k

Removed(c, i) == [k \in 1..(Len(c) - 1) |-> IF k < i THEN c[k] ELSE c[k + 1]]

\* A chain without its i-th element.
LEMMA RemovedIs ==
  ASSUME NEW S, NEW c \in Seq(S), Once(c), NEW i \in 1..Len(c)
  PROVE  /\ Removed(c, i) \in Seq(S) /\ Once(Removed(c, i))
         /\ On(Removed(c, i)) = On(c) \ {c[i]}
<1> DEFINE d == Removed(c, i)
<1>1. Len(c) \in Nat /\ i \in Nat /\ i >= 1 /\ i <= Len(c) /\ \A k \in 1..Len(c) : c[k] \in S
  OBVIOUS
<1>2. d \in Seq(S) /\ Len(d) = Len(c) - 1
  BY <1>1 DEF Removed
<1>3. \A k \in 1..(Len(c) - 1) : d[k] = IF k < i THEN c[k] ELSE c[k + 1]
  BY <1>1 DEF Removed
<1> HIDE DEF d
<1>4. On(d) = On(c) \ {c[i]}
  <2>1. ASSUME NEW k \in 1..Len(d)
        PROVE  d[k] \in On(c) /\ d[k] # c[i]
    <3>1. CASE k < i
      <4>1. k \in 1..Len(c) /\ k # i /\ d[k] = c[k]
        BY <3>1, <1>1, <1>2, <1>3
      <4> QED
        BY <4>1, <1>1 DEF On, Once
    <3>2. CASE k >= i
      <4>1. k + 1 \in 1..Len(c) /\ k + 1 # i /\ d[k] = c[k + 1]
        BY <3>2, <1>1, <1>2, <1>3
      <4> QED
        BY <4>1, <1>1 DEF On, Once
    <3> QED
      BY <3>1, <3>2, <1>1
  <2>2. ASSUME NEW k \in 1..Len(c), c[k] # c[i]
        PROVE  c[k] \in On(d)
    <3>1. CASE k < i
      <4>1. k \in 1..Len(d) /\ d[k] = c[k]
        BY <3>1, <1>1, <1>2, <1>3
      <4> QED
        BY <4>1 DEF On
    <3>2. CASE k > i
      <4>1. k - 1 \in 1..Len(d) /\ d[k - 1] = c[k]
        BY <3>2, <1>1, <1>2, <1>3
      <4> QED
        BY <4>1 DEF On
    <3> QED
      BY <3>1, <3>2, <2>2, <1>1
  <2> QED
    BY <2>1, <2>2 DEF On
<1>5. ASSUME NEW j \in 1..Len(d), NEW k \in 1..Len(d), d[j] = d[k]
      PROVE  j = k
  <2> DEFINE At(m) == IF m < i THEN m ELSE m + 1
  <2>1. \A m \in 1..Len(d) : At(m) \in 1..Len(c) /\ d[m] = c[At(m)]
    BY <1>1, <1>2, <1>3
  <2>2. At(j) = At(k)
    BY <1>5, <2>1 DEF Once
  <2> QED
    BY <2>2, <1>1, <1>2
<1> QED
  BY <1>2, <1>4, <1>5 DEF Once, d

\* A set of numbers has a least.
LEMMA LeastOf ==
  ASSUME NEW T \in SUBSET Nat, T # {}
  PROVE  \E i \in T : \A j \in T : i <= j
<1>1. PICK m \in T : \A k \in T : <<k, m>> \notin OpToRel(<, Nat)
  BY WFMin, NatLessThanWellFounded, Zenon
<1>2. \A k \in T : ~(k < m)
  BY <1>1, Zenon DEF OpToRel
<1> QED
  BY <1>2

\* A set that has 0, and with every number the next, up to n.
LEMMA UpTo ==
  ASSUME NEW n \in Nat, NEW T, 0 \in T, \A k \in 1..n : k - 1 \in T => k \in T
  PROVE  \A k \in 0..n : k \in T
<1> DEFINE D == {k \in 0..n : k \notin T}
<1>1. ASSUME D # {}
      PROVE  FALSE
  <2>0. D \in SUBSET Nat
    OBVIOUS
  <2> HIDE DEF D
  <2>1. PICK k \in D : \A j \in D : k <= j
    BY <1>1, <2>0, LeastOf
  <2>2. k \in 0..n /\ k \notin T /\ k # 0
    BY <2>1 DEF D
  <2>3. k \in 1..n /\ k - 1 \in 0..n /\ ~(k <= k - 1)
    BY <2>2
  <2>4. k - 1 \notin D
    BY <2>1, <2>3
  <2>5. k - 1 \in T
    BY <2>3, <2>4 DEF D
  <2> QED
    BY <2>2, <2>3, <2>5
<1> QED
  BY <1>1

\* f has e at 0, and at every number what its step makes of the value before.
Stepwise(f, n, e, step) == \A k \in 0..n : f[k] = IF k = 0 THEN e ELSE step[k][f[k - 1]]

\* There is such a function.
LEMMA StepwiseExists ==
  ASSUME NEW n \in Nat, NEW S, NEW e \in S, NEW step \in [1..n -> [S -> S]]
  PROVE  \E f \in [0..n -> S] : Stepwise(f, n, e, step)
<1> DEFINE Is(f, m) == Stepwise(f, m, e, step)
           T == {m \in 0..n : \E f \in [0..m -> S] : Is(f, m)}
<1> USE DEF Stepwise
<1>1. 0 \in T
  <2> DEFINE f == [k \in 0..0 |-> e]
  <2>1. 0 \in 0..n /\ f \in [0..0 -> S] /\ Is(f, 0)
    OBVIOUS
  <2> HIDE DEF f
  <2>2. \E g \in [0..0 -> S] : Is(g, 0)
    BY <2>1
  <2> QED
    BY <2>1, <2>2
<1>2. ASSUME NEW m \in 1..n, m - 1 \in T
      PROVE  m \in T
  <2>1. PICK f \in [0..(m - 1) -> S] : Is(f, m - 1)
    BY <1>2
  <2> DEFINE g == [k \in 0..m |-> IF k = m THEN step[m][f[m - 1]] ELSE f[k]]
  <2>2. m - 1 \in 0..(m - 1) /\ f[m - 1] \in S /\ step[m] \in [S -> S]
    OBVIOUS
  <2>3. g \in [0..m -> S]
    BY <2>2
  <2>4. ASSUME NEW k \in 0..m
        PROVE  g[k] = IF k = 0 THEN e ELSE step[k][g[k - 1]]
    <3>1. CASE k = m
      <4>1. g[k] = step[m][f[m - 1]] /\ g[k - 1] = f[m - 1] /\ k # 0
        BY <3>1
      <4> QED
        BY <3>1, <4>1
    <3>2. CASE k # m
      <4>1. k \in 0..(m - 1) /\ g[k] = f[k] /\ (k # 0 => g[k - 1] = f[k - 1])
        BY <3>2
      <4> QED
        BY <2>1, <4>1
    <3> QED
      BY <3>1, <3>2
  <2> HIDE DEF g
  <2> QED
    BY <2>3, <2>4
<1> HIDE DEF T
<1>3. \A m \in 1..n : m - 1 \in T => m \in T
  BY <1>2
<1>4. \A m \in 0..n : m \in T
  BY <1>1, <1>3, UpTo
<1>5. n \in T
  BY <1>4
<1> QED
  BY <1>5, Zenon DEF T

----------------------------------------------------------------------------
(* UtilHashTable.                                                          *)

\* An instance has the operators of FiniteSets under its own names.
LEMMA SameFinite == \A S : Table!IsFiniteSet(S) <=> IsFiniteSet(S)
BY DEF Table!IsFiniteSet, IsFiniteSet

LEMMA SameCardinality == \A S : Table!Cardinality(S) = Cardinality(S)
BY DEF Table!Cardinality, Cardinality

\* The chains of n buckets hold the keys K, each where it hashes to, once.
Placed(array, n, K) ==
  /\ array \in [0..(n - 1) -> Seq(Keys)]
  /\ \A b \in 0..(n - 1) : Once(array[b]) /\ On(array[b]) = {k \in K : Hash[k] % n = b}

LEMMA HashedTo ==
  ASSUME NEW n \in Nat \ {0}, NEW k \in Keys
  PROVE  Hash[k] % n \in 0..(n - 1)
<1>1. Hash[k] \in Nat
  BY TablesAssumption DEF Table!TableAssumption
<1>2. \A m \in Nat : m % n \in 0..(n - 1)
  OBVIOUS
<1> QED
  BY <1>1, <1>2

LEMMA PlacedArray ==
  ASSUME NEW n \in Nat \ {0}, NEW array, NEW K, Placed(array, n, K)
  PROVE  DOMAIN array = 0..(n - 1) /\ Cardinality(DOMAIN array) = n
<1>1. DOMAIN array = 0..(n - 1)
  BY DEF Placed
<1>2. 0 \in Int /\ n - 1 \in Int /\ ~(0 > n - 1) /\ (n - 1) - 0 + 1 = n
  OBVIOUS
<1>3. Cardinality(0..(n - 1)) = n
  BY <1>2, FS_Interval
<1> QED
  BY <1>1, <1>3

LEMMA NonePlaced ==
  ASSUME NEW n \in Nat \ {0}
  PROVE  Placed([b \in 0..(n - 1) |-> <<>>], n, {})
BY DEF Placed, On, Once

\* What is in front of a chain.
LEMMA Pushed ==
  ASSUME NEW c \in Seq(Keys), NEW k \in Keys \ On(c), Once(c)
  PROVE  /\ <<k>> \o c \in Seq(Keys)
         /\ Once(<<k>> \o c)
         /\ On(<<k>> \o c) = On(c) \cup {k}
<1> DEFINE d == <<k>> \o c
<1>1. d \in Seq(Keys) /\ Len(d) = Len(c) + 1 /\ Len(c) \in Nat
  OBVIOUS
<1>2. \A j \in 1..Len(d) : d[j] = IF j = 1 THEN k ELSE c[j - 1]
  OBVIOUS
<1> HIDE DEF d
<1>3. ASSUME NEW i \in 1..Len(d), NEW j \in 1..Len(d), d[i] = d[j]
      PROVE  i = j
  <2>1. \A m \in 1..Len(d) : m # 1 => m - 1 \in 1..Len(c) /\ c[m - 1] # k
    BY <1>1 DEF On
  <2>2. CASE i = 1 \/ j = 1
    BY <1>2, <1>3, <2>1, <2>2
  <2>3. CASE i # 1 /\ j # 1
    <3>1. i - 1 \in 1..Len(c) /\ j - 1 \in 1..Len(c) /\ c[i - 1] = c[j - 1]
      BY <1>2, <1>3, <2>1, <2>3
    <3>2. i - 1 = j - 1
      BY <3>1 DEF Once
    <3> QED
      BY <3>2
  <2> QED
    BY <2>2, <2>3
<1>4. On(d) \subseteq On(c) \cup {k}
  <2>1. ASSUME NEW j \in 1..Len(d)
        PROVE  d[j] \in On(c) \cup {k}
    <3>1. j # 1 => j - 1 \in 1..Len(c)
      BY <1>1
    <3> QED
      BY <3>1, <1>2 DEF On
  <2> QED
    BY <2>1 DEF On
<1>5. k \in On(d)
  <2>1. 1 \in 1..Len(d) /\ d[1] = k
    BY <1>1, <1>2
  <2> QED
    BY <2>1 DEF On
<1>6. On(c) \subseteq On(d)
  <2>1. ASSUME NEW j \in 1..Len(c)
        PROVE  c[j] \in On(d)
    <3>1. j + 1 \in 1..Len(d) /\ d[j + 1] = c[j]
      BY <1>1, <1>2
    <3> QED
      BY <3>1 DEF On
  <2> QED
    BY <2>1 DEF On
<1> QED
  BY <1>1, <1>3, <1>4, <1>5, <1>6 DEF Once, d

\* A new pair goes in front of the chain of its bucket.
LEMMA PushPlaces ==
  ASSUME NEW n \in Nat \ {0}, NEW array, NEW K, Placed(array, n, K), NEW k \in Keys \ K
  PROVE  Placed([array EXCEPT ![Hash[k] % n] = <<k>> \o @], n, K \cup {k})
<1> DEFINE h == Hash[k] % n
           after == [array EXCEPT ![h] = <<k>> \o @]
<1>1. h \in 0..(n - 1)
  BY HashedTo
<1> HIDE DEF h
<1>2. array[h] \in Seq(Keys) /\ Once(array[h]) /\ On(array[h]) = {j \in K : Hash[j] % n = h}
  BY <1>1 DEF Placed
<1>3. k \in Keys \ On(array[h])
  BY <1>2
<1>4. /\ <<k>> \o array[h] \in Seq(Keys) /\ Once(<<k>> \o array[h])
      /\ On(<<k>> \o array[h]) = On(array[h]) \cup {k}
  BY <1>2, <1>3, Pushed
<1>5. /\ after \in [0..(n - 1) -> Seq(Keys)]
      /\ \A b \in 0..(n - 1) : after[b] = IF b = h THEN <<k>> \o array[h] ELSE array[b]
  BY <1>1, <1>4 DEF Placed
<1> HIDE DEF after
<1>6. ASSUME NEW b \in 0..(n - 1)
      PROVE  Once(after[b]) /\ On(after[b]) = {j \in K \cup {k} : Hash[j] % n = b}
  <2>1. CASE b = h
    BY <2>1, <1>2, <1>4, <1>5 DEF h
  <2>2. CASE b # h
    <3>1. after[b] = array[b] /\ Hash[k] % n # b
      BY <2>2, <1>5 DEF h
    <3>2. Once(array[b]) /\ On(array[b]) = {j \in K : Hash[j] % n = b}
      BY DEF Placed
    <3> QED
      BY <3>1, <3>2
  <2> QED
    BY <2>1, <2>2
<1> QED
  BY <1>5, <1>6 DEF Placed, after, h

\* A chain holds a key once, so the first is the one.
LEMMA RemoveFirstIs ==
  ASSUME NEW c \in Seq(Keys), Once(c), NEW i \in 1..Len(c)
  PROVE  Table!RemoveFirst(c, c[i]) = Removed(c, i)
<1>1. Table!SelectInSeq(c, LAMBDA v : v = c[i]) = i
  <2> DEFINE I == {j \in 1..Len(c) : c[j] = c[i]}
  <2>1. I = {i}
    BY DEF Once
  <2>2. Table!Min(I) = i
    BY <2>1 DEF Table!Min
  <2> QED
    BY <2>1, <2>2 DEF Table!SelectInSeq
<1>2. Table!RemoveFirst(c, c[i]) = Table!RemoveAt(c, i)
  BY <1>1 DEF Table!RemoveFirst
<1>3. Table!RemoveAt(c, i) = Removed(c, i)
  <2> DEFINE p == SubSeq(c, 1, i - 1)
             q == SubSeq(c, i + 1, Len(c))
             d == p \o q
  <2>1. Len(c) \in Nat /\ i \in Nat /\ i >= 1 /\ i <= Len(c)
    OBVIOUS
  <2>2. /\ p \in Seq(Keys) /\ Len(p) = i - 1
        /\ \A k \in 1..(i - 1) : p[k] = c[k]
    BY <2>1, SubSeqProperties
  <2>3. /\ q \in Seq(Keys) /\ Len(q) = Len(c) - i
        /\ \A k \in 1..(Len(c) - i) : q[k] = c[k + i]
    BY <2>1, SubSeqProperties
  <2> HIDE DEF p, q
  <2>4. /\ d \in Seq(Keys) /\ Len(d) = Len(c) - 1
        /\ \A k \in 1..Len(d) : d[k] = IF k <= Len(p) THEN p[k] ELSE q[k - Len(p)]
    <3>1. /\ d \in Seq(Keys) /\ Len(d) = Len(p) + Len(q)
          /\ \A k \in 1..Len(p) + Len(q) : d[k] = IF k <= Len(p) THEN p[k] ELSE q[k - Len(p)]
      BY <2>2, <2>3, ConcatProperties
    <3>2. Len(p) + Len(q) = Len(c) - 1
      BY <2>1, <2>2, <2>3
    <3> QED
      BY <3>1, <3>2
  <2> HIDE DEF d
  <2>5. ASSUME NEW k \in 1..(Len(c) - 1)
        PROVE  d[k] = IF k < i THEN c[k] ELSE c[k + 1]
    <3>1. CASE k < i
      BY <3>1, <2>1, <2>2, <2>4
    <3>2. CASE ~(k < i)
      <4>1. k - (i - 1) \in 1..(Len(c) - i) /\ (k - (i - 1)) + i = k + 1
        BY <3>2, <2>1
      <4>2. d[k] = q[k - (i - 1)]
        BY <3>2, <2>1, <2>2, <2>4
      <4> QED
        BY <3>2, <4>1, <4>2, <2>3
    <3> QED
      BY <3>1, <3>2
  <2>6. d = [k \in 1..(Len(c) - 1) |-> d[k]]
    BY <2>4
  <2> QED
    BY <2>5, <2>6 DEF Table!RemoveAt, Removed, p, q, d
<1> QED
  BY <1>2, <1>3

\* The pair of k is taken out of its chain.
LEMMA RemovePlaces ==
  ASSUME NEW n \in Nat \ {0}, NEW array, NEW K \in SUBSET Keys, Placed(array, n, K), NEW k \in K
  PROVE  Placed([array EXCEPT ![Hash[k] % n] = Table!RemoveFirst(@, k)], n, K \ {k})
<1> DEFINE h == Hash[k] % n
           after == [array EXCEPT ![h] = Table!RemoveFirst(@, k)]
<1>1. h \in 0..(n - 1)
  BY HashedTo
<1>2. array[h] \in Seq(Keys) /\ Once(array[h]) /\ On(array[h]) = {j \in K : Hash[j] % n = h}
  BY <1>1 DEF Placed
<1>3. PICK i \in 1..Len(array[h]) : array[h][i] = k
  BY <1>2 DEF On
<1> HIDE DEF h
<1>4. Table!RemoveFirst(array[h], k) = Removed(array[h], i)
  BY <1>2, <1>3, RemoveFirstIs
<1>5. /\ Removed(array[h], i) \in Seq(Keys) /\ Once(Removed(array[h], i))
      /\ On(Removed(array[h], i)) = On(array[h]) \ {k}
  BY <1>2, <1>3, RemovedIs
<1>6. /\ after \in [0..(n - 1) -> Seq(Keys)]
      /\ \A b \in 0..(n - 1) : after[b] = IF b = h THEN Removed(array[h], i) ELSE array[b]
  BY <1>1, <1>4, <1>5 DEF Placed
<1> HIDE DEF after
<1>7. ASSUME NEW b \in 0..(n - 1)
      PROVE  Once(after[b]) /\ On(after[b]) = {j \in K \ {k} : Hash[j] % n = b}
  <2>1. CASE b = h
    BY <2>1, <1>2, <1>5, <1>6
  <2>2. CASE b # h
    <3>1. after[b] = array[b] /\ Hash[k] % n # b
      BY <2>2, <1>6 DEF h
    <3>2. Once(array[b]) /\ On(array[b]) = {j \in K : Hash[j] % n = b}
      BY DEF Placed
    <3> QED
      BY <3>1, <3>2
  <2> QED
    BY <2>1, <2>2
<1> QED
  BY <1>6, <1>7 DEF Placed, after, h

\* The chains one after the other hold every key once.
LEMMA WalkHolds ==
  ASSUME NEW n \in Nat \ {0}, NEW array, NEW K \in SUBSET Keys, Placed(array, n, K),
         NEW walk \in [0..n -> Seq(Keys)],
         \A b \in 0..n : walk[b] = IF b = 0 THEN <<>> ELSE walk[b - 1] \o array[b - 1]
  PROVE  Once(walk[n]) /\ On(walk[n]) = K
<1> DEFINE Before(b) == {k \in K : Hash[k] % n < b}
           T == {b \in 0..n : Once(walk[b]) /\ On(walk[b]) = Before(b)}
<1>0. \A k \in K : Hash[k] % n \in 0..(n - 1)
  BY HashedTo
<1>1. 0 \in T
  <2>0. 0 \in 0..n
    OBVIOUS
  <2>1. On(<<>>) = {} /\ Once(<<>>)
    BY DEF On, Once
  <2>3. walk[0] = <<>>
    BY <2>0, Zenon
  <2>2. Before(0) = {}
    BY <1>0
  <2> QED
    BY <2>0, <2>1, <2>2, <2>3
<1>2. ASSUME NEW b \in 1..n, b - 1 \in T
      PROVE  b \in T
  <2>1. b - 1 \in 0..(n - 1) /\ b \in 0..n /\ b # 0
    OBVIOUS
  <2> DEFINE p == walk[b - 1]
             q == array[b - 1]
             d == p \o q
  <2>2. /\ p \in Seq(Keys) /\ Once(p) /\ On(p) = Before(b - 1)
        /\ q \in Seq(Keys) /\ Once(q) /\ On(q) = {k \in K : Hash[k] % n = b - 1}
        /\ walk[b] = d
    BY <1>2, <2>1 DEF Placed
  <2> HIDE DEF p, q
  <2>3. /\ d \in Seq(Keys) /\ Len(d) = Len(p) + Len(q) /\ Len(p) \in Nat /\ Len(q) \in Nat
        /\ \A j \in 1..Len(d) : d[j] = IF j <= Len(p) THEN p[j] ELSE q[j - Len(p)]
    BY <2>2, ConcatProperties
  <2> HIDE DEF d
  <2>4. On(p) \cap On(q) = {}
    BY <2>2, <1>0
  <2>5. On(d) = On(p) \cup On(q)
    <3>1. ASSUME NEW j \in 1..Len(d)
          PROVE  d[j] \in On(p) \cup On(q)
      <4>1. CASE j <= Len(p)
        <5>1. j \in 1..Len(p) /\ d[j] = p[j]
          BY <4>1, <2>3
        <5> QED
          BY <5>1 DEF On
      <4>2. CASE ~(j <= Len(p))
        <5>1. j - Len(p) \in 1..Len(q) /\ d[j] = q[j - Len(p)]
          BY <4>2, <2>3
        <5> QED
          BY <5>1 DEF On
      <4> QED
        BY <4>1, <4>2
    <3>2. ASSUME NEW j \in 1..Len(p)
          PROVE  p[j] \in On(d)
      <4>1. j \in 1..Len(d) /\ d[j] = p[j]
        BY <2>3
      <4> QED
        BY <4>1 DEF On
    <3>3. ASSUME NEW j \in 1..Len(q)
          PROVE  q[j] \in On(d)
      <4>1. j + Len(p) \in 1..Len(d) /\ ~(j + Len(p) <= Len(p)) /\ (j + Len(p)) - Len(p) = j
        BY <2>3
      <4>2. d[j + Len(p)] = q[j]
        BY <4>1, <2>3
      <4> QED
        BY <4>1, <4>2 DEF On
    <3> QED
      BY <3>1, <3>2, <3>3 DEF On
  <2>6. ASSUME NEW i \in 1..Len(d), NEW j \in 1..Len(d), d[i] = d[j]
        PROVE  i = j
    <3>1. \A m \in 1..Len(d) :
            IF m <= Len(p) THEN m \in 1..Len(p) /\ d[m] = p[m] /\ p[m] \in On(p)
            ELSE m - Len(p) \in 1..Len(q) /\ d[m] = q[m - Len(p)] /\ q[m - Len(p)] \in On(q)
      BY <2>3 DEF On
    <3>2. i <= Len(p) <=> j <= Len(p)
      BY <3>1, <2>4, <2>6
    <3>3. CASE i <= Len(p)
      BY <3>1, <3>2, <3>3, <2>2, <2>6 DEF Once
    <3>4. CASE ~(i <= Len(p))
      <4>1. /\ i - Len(p) \in 1..Len(q) /\ j - Len(p) \in 1..Len(q)
            /\ q[i - Len(p)] = q[j - Len(p)]
        BY <3>1, <3>2, <3>4, <2>6
      <4>2. i - Len(p) = j - Len(p)
        BY <4>1, <2>2 DEF Once
      <4> QED
        BY <4>2, <2>3
    <3> QED
      BY <3>3, <3>4
  <2>7. Before(b) = Before(b - 1) \cup {k \in K : Hash[k] % n = b - 1}
    <3>1. \A h \in 0..(n - 1) : h < b <=> (h < b - 1 \/ h = b - 1)
      BY <2>1
    <3> QED
      BY <3>1, <1>0
  <2> QED
    BY <2>1, <2>2, <2>5, <2>6, <2>7 DEF Once
<1>3. \A b \in 1..n : b - 1 \in T => b \in T
  BY <1>2
<1> HIDE DEF T
<1>4. \A b \in 0..n : b \in T
  BY <1>1, <1>3, UpTo
<1>5. n \in T /\ Before(n) = K
  BY <1>0, <1>4
<1> QED
  BY <1>5 DEF T

\* Pushed one after the other, the keys of a sequence are placed.
LEMMA MovedPlaces ==
  ASSUME NEW n \in Nat \ {0}, NEW w \in Seq(Keys), Once(w),
         NEW moved \in [0..Len(w) -> [0..(n - 1) -> Seq(Keys)]],
         \A m \in 0..Len(w) :
           moved[m] = IF m = 0 THEN [i \in 0..(n - 1) |-> <<>>]
                      ELSE [moved[m - 1] EXCEPT ![Hash[w[m]] % n] = <<w[m]>> \o @]
  PROVE  Placed(moved[Len(w)], n, On(w))
<1> DEFINE First(m) == {w[j] : j \in 1..m}
           T == {m \in 0..Len(w) : Placed(moved[m], n, First(m))}
<1>0. Len(w) \in Nat /\ \A m \in 1..Len(w) : w[m] \in Keys
  OBVIOUS
<1>1. 0 \in T
  <2>1. 0 \in 0..Len(w) /\ First(0) = {}
    BY <1>0
  <2>2. moved[0] = [i \in 0..(n - 1) |-> <<>>]
    BY <2>1
  <2> QED
    BY <2>1, <2>2, NonePlaced
<1>2. ASSUME NEW m \in 1..Len(w), m - 1 \in T
      PROVE  m \in T
  <2>1. Placed(moved[m - 1], n, First(m - 1))
    BY <1>2
  <2>2. w[m] \in Keys \ First(m - 1)
    <3>1. \A j \in 1..(m - 1) : j \in 1..Len(w) /\ j # m
      BY <1>0
    <3> QED
      BY <3>1, <1>0 DEF Once
  <2>3. First(m) = First(m - 1) \cup {w[m]}
    <3>1. \A j \in 1..m : j = m \/ j \in 1..(m - 1)
      BY <1>0
    <3>2. m \in 1..m /\ \A j \in 1..(m - 1) : j \in 1..m
      BY <1>0
    <3> QED
      BY <3>1, <3>2
  <2>4. m \in 0..Len(w) /\ m # 0
    BY <1>0
  <2>5. moved[m] = [moved[m - 1] EXCEPT ![Hash[w[m]] % n] = <<w[m]>> \o @]
    BY <2>4
  <2> HIDE DEF First
  <2>6. Placed([moved[m - 1] EXCEPT ![Hash[w[m]] % n] = <<w[m]>> \o @], n, First(m - 1) \cup {w[m]})
    BY <2>1, <2>2, PushPlaces
  <2>7. Placed(moved[m], n, First(m))
    BY <2>3, <2>5, <2>6
  <2> QED
    BY <2>4, <2>7
<1>3. \A m \in 1..Len(w) : m - 1 \in T => m \in T
  BY <1>2
<1> HIDE DEF T
<1>4. Len(w) \in T
  <2>1. \A m \in 0..Len(w) : m \in T
    BY <1>0, <1>1, <1>3, UpTo
  <2> QED
    BY <2>1, <1>0
<1> QED
  BY <1>4 DEF T, On

\* What the loop of HashTableRehash makes of the chains.
LEMMA RehashedPlaces ==
  ASSUME NEW c \in Nat \ {0}, NEW n \in Nat \ {0}, NEW array, NEW K \in SUBSET Keys,
         Placed(array, c, K)
  PROVE  Placed(Table!Rehashed(array, n), n, K)
<1> DEFINE count == Table!Cardinality(DOMAIN array)
           IsWalk(f) == f = [b \in 0..count |-> IF b = 0 THEN <<>> ELSE f[b - 1] \o array[b - 1]]
           walk == CHOOSE f : IsWalk(f)
           w == walk[count]
           none == [i \in 0..(n - 1) |-> <<>>]
           IsMoved(f) ==
             f = [m \in 0..Len(w) |->
                   IF m = 0 THEN [i \in 0..(n - 1) |-> <<>>]
                   ELSE LET k == w[m] IN [f[m - 1] EXCEPT ![Hash[k] % n] = <<k>> \o @]]
           moved == CHOOSE f : IsMoved(f)
<1>1. Table!Rehashed(array, n) = moved[Len(w)]
  BY DEF Table!Rehashed
<1>2. count = c /\ c \in Nat /\ \A b \in 1..c : array[b - 1] \in Seq(Keys)
  <2>1. count = c
    BY PlacedArray, SameCardinality
  <2>2. \A b \in 1..c : b - 1 \in 0..(c - 1)
    OBVIOUS
  <2> QED
    BY <2>1, <2>2 DEF Placed
<1> HIDE DEF count
<1>3. /\ walk \in [0..c -> Seq(Keys)]
      /\ \A b \in 0..c : walk[b] = IF b = 0 THEN <<>> ELSE walk[b - 1] \o array[b - 1]
  <2> DEFINE step == [b \in 1..c |-> [s \in Seq(Keys) |-> s \o array[b - 1]]]
  <2>1. step \in [1..c -> [Seq(Keys) -> Seq(Keys)]] /\ <<>> \in Seq(Keys)
    BY <1>2
  <2> HIDE DEF step
  <2> DEFINE e == <<>>
  <2> HIDE DEF e
  <2>2. PICK f \in [0..c -> Seq(Keys)] : Stepwise(f, c, e, step)
    <3>1. e \in Seq(Keys)
      BY DEF e
    <3> QED
      BY <3>1, <2>1, <1>2, StepwiseExists
  <2>3. \A b \in 0..c : b # 0 => b \in 1..c /\ b - 1 \in 0..c
    BY <1>2
  <2>4. \A b \in 0..c : f[b] = IF b = 0 THEN <<>> ELSE f[b - 1] \o array[b - 1]
    BY <2>2, <2>3 DEF Stepwise, step, e
  <2>5. f = [b \in 0..c |-> f[b]]
    OBVIOUS
  <2>6. IsWalk(f)
    BY <2>4, <2>5, <1>2
  <2> HIDE DEF IsWalk
  <2>7. IsWalk(walk)
    BY <2>6, Zenon
  <2> USE DEF IsWalk
  <2> HIDE DEF walk
  <2>8. /\ walk = [b \in 0..c |-> walk[b]]
        /\ \A b \in 0..c : walk[b] = IF b = 0 THEN <<>> ELSE walk[b - 1] \o array[b - 1]
    BY <2>7, <1>2
  <2> DEFINE T == {b \in 0..c : walk[b] \in Seq(Keys)}
  <2>9. 0 \in 0..c /\ walk[0] \in Seq(Keys)
    <3>1. 0 \in 0..c
      BY <1>2
    <3>2. walk[0] = <<>>
      BY <3>1, <2>8, Zenon
    <3> QED
      BY <3>1, <3>2
  <2>10. ASSUME NEW b \in 1..c, b - 1 \in T
         PROVE  b \in T
    <3>1. b \in 0..c /\ b # 0
      BY <1>2
    <3>2. walk[b] = walk[b - 1] \o array[b - 1]
      BY <3>1, <2>8, Zenon
    <3>3. walk[b - 1] \in Seq(Keys) /\ array[b - 1] \in Seq(Keys)
      BY <2>10, <1>2
    <3>4. walk[b] \in Seq(Keys)
      BY <3>2, <3>3, ConcatProperties
    <3> QED
      BY <3>1, <3>4
  <2>11. 0 \in T /\ \A b \in 1..c : b - 1 \in T => b \in T
    BY <2>9, <2>10
  <2> HIDE DEF T
  <2>12. \A b \in 0..c : b \in T
    BY <2>11, <1>2, UpTo
  <2>13. \A b \in 0..c : walk[b] \in Seq(Keys)
    BY <2>12 DEF T
  <2> QED
    BY <2>8, <2>13
<1> HIDE DEF walk
<1>4. w \in Seq(Keys) /\ Once(w) /\ On(w) = K
  <2>1. c \in 0..c /\ w = walk[c]
    BY <1>2
  <2>2. Once(walk[c]) /\ On(walk[c]) = K
    BY <1>3, WalkHolds, Zenon
  <2>3. walk[c] \in Seq(Keys)
    BY <2>1, <1>3
  <2> QED
    BY <2>1, <2>2, <2>3
<1> HIDE DEF w
<1>5. Len(w) \in Nat /\ \A m \in 1..Len(w) : w[m] \in Keys
  BY <1>4
<1>6. /\ moved \in [0..Len(w) -> [0..(n - 1) -> Seq(Keys)]]
      /\ \A m \in 0..Len(w) :
           moved[m] = IF m = 0 THEN [i \in 0..(n - 1) |-> <<>>]
                      ELSE [moved[m - 1] EXCEPT ![Hash[w[m]] % n] = <<w[m]>> \o @]
  <2> DEFINE A == [0..(n - 1) -> Seq(Keys)]
             Put(a, k) == [a EXCEPT ![Hash[k] % n] = <<k>> \o @]
             step == [m \in 1..Len(w) |-> [a \in A |-> Put(a, w[m])]]
  <2>1. \A a \in A, k \in Keys : Put(a, k) \in A
    BY HashedTo
  <2> HIDE DEF Put
  <2>2. none \in A
    OBVIOUS
  <2> HIDE DEF A
  <2>3. step \in [1..Len(w) -> [A -> A]]
    BY <2>1, <1>5
  <2> HIDE DEF step, none
  <2>4. PICK f \in [0..Len(w) -> A] : Stepwise(f, Len(w), none, step)
    BY <2>2, <2>3, <1>5, StepwiseExists
  <2>5. \A m \in 0..Len(w) : m # 0 => m \in 1..Len(w) /\ m - 1 \in 0..Len(w)
    BY <1>5
  <2>6. \A m \in 0..Len(w) : f[m] = IF m = 0 THEN none ELSE Put(f[m - 1], w[m])
    BY <2>4, <2>5 DEF Stepwise, step
  <2>7. f = [m \in 0..Len(w) |-> f[m]]
    OBVIOUS
  <2>8. f = [m \in 0..Len(w) |-> IF m = 0 THEN none ELSE Put(f[m - 1], w[m])]
    BY <2>6, <2>7
  <2>9. IsMoved(f)
    BY <2>8, Zenon DEF Put, none
  <2> HIDE DEF IsMoved
  <2>10. IsMoved(moved)
    BY <2>9, Zenon
  <2> HIDE DEF moved
  <2>11. moved = [m \in 0..Len(w) |-> IF m = 0 THEN none ELSE Put(moved[m - 1], w[m])]
    BY <2>10, Zenon DEF IsMoved, Put, none
  <2>12. /\ moved = [m \in 0..Len(w) |-> moved[m]]
         /\ \A m \in 0..Len(w) : moved[m] = IF m = 0 THEN none ELSE Put(moved[m - 1], w[m])
    BY <2>11
  <2> DEFINE T == {m \in 0..Len(w) : moved[m] \in A}
  <2>13. 0 \in T
    <3>1. 0 \in 0..Len(w)
      BY <1>5
    <3> QED
      BY <3>1, <2>2, <2>12
  <2>14. ASSUME NEW m \in 1..Len(w), m - 1 \in T
         PROVE  m \in T
    <3>1. m \in 0..Len(w) /\ m # 0
      BY <1>5
    <3>2. moved[m] = Put(moved[m - 1], w[m])
      BY <3>1, <2>12
    <3> QED
      BY <3>1, <3>2, <2>1, <2>14, <1>5
  <2>15. \A m \in 1..Len(w) : m - 1 \in T => m \in T
    BY <2>14
  <2> HIDE DEF T
  <2>16. \A m \in 0..Len(w) : m \in T
    BY <2>13, <2>15, <1>5, UpTo
  <2>17. \A m \in 0..Len(w) : moved[m] \in A
    BY <2>16 DEF T
  <2>18. moved \in [0..Len(w) -> A]
    BY <2>12, <2>17
  <2> QED
    BY <2>12, <2>18, Zenon DEF A, Put, none
<1> HIDE DEF moved
<1>7. Placed(moved[Len(w)], n, On(w))
  BY <1>4, <1>6, MovedPlaces
<1> QED
  BY <1>1, <1>4, <1>7

\* What a table holds, without its chains.
TableTypes ==
  /\ DOMAIN pairs \subseteq Keys
  /\ pairs \in [DOMAIN pairs -> [key : Copies, value : Pointers]]

\* No two pairs share a value, and all that was given and not freed is in a pair.
OwnedOnce ==
  /\ allocated = Table!Held(DOMAIN pairs)
  /\ \A j, k \in DOMAIN pairs : pairs[j].value = pairs[k].value => j = k

ChainsHold ==
  /\ IF bucketArray = NULL THEN DOMAIN pairs = {}
     ELSE \E n \in Table!TableSizes : Placed(bucketArray, n, DOMAIN pairs)
  /\ numOfElements = Cardinality(DOMAIN pairs)

TableInv == TableTypes /\ OwnedOnce /\ ChainsHold

LEMMA SizesAre ==
  /\ \A n \in Table!TableSizes : n \in Nat \ {0}
  /\ 5 \in Table!TableSizes /\ BucketCounts \subseteq Table!TableSizes
  /\ \A m \in 0..Cardinality(Keys) : Table!IdealNumOfBuckets(m) \in Table!TableSizes
<1>1. \A n \in Table!TableSizes : n \in Nat \ {0}
  BY TablesAssumption DEF Table!TableAssumption
<1>2. 5 \in Table!TableSizes /\ BucketCounts \subseteq Table!TableSizes
  BY DEF Table!TableSizes
<1>3. \A m \in 0..Cardinality(Keys) : Table!IdealNumOfBuckets(m) \in Table!TableSizes
  BY SameCardinality DEF Table!TableSizes
<1> QED
  BY <1>1, <1>2, <1>3

LEMMA KeysFinite ==
  ASSUME NEW K \in SUBSET Keys
  PROVE  /\ IsFiniteSet(K) /\ Cardinality(K) \in Nat /\ Cardinality(Keys) \in Nat
         /\ Cardinality(K) <= Cardinality(Keys)
<1>1. IsFiniteSet(Keys)
  BY TablesAssumption, SameFinite DEF Table!TableAssumption
<1> QED
  BY <1>1, FS_Subset, FS_CardinalityType

\* Chains are not the null pointer.
LEMMA PlacedIsTable ==
  ASSUME NEW n \in Table!TableSizes, NEW array, NEW K, Placed(array, n, K)
  PROVE  array # NULL
BY TablesAssumption DEF Table!TableAssumption, Placed

LEMMA FoundIs ==
  ASSUME NEW n \in Table!TableSizes, Placed(bucketArray, n, DOMAIN pairs), NEW k \in Keys
  PROVE  /\ Table!numOfBuckets = n /\ Table!Bucket(k) = Hash[k] % n
         /\ Table!Found(k) <=> k \in DOMAIN pairs
<1>1. n \in Nat \ {0}
  BY SizesAre
<1>2. Table!numOfBuckets = n /\ Table!Bucket(k) = Hash[k] % n
  BY <1>1, PlacedArray, SameCardinality DEF Table!numOfBuckets, Table!Bucket
<1> DEFINE h == Hash[k] % n
<1>3. h \in 0..(n - 1)
  BY <1>1, HashedTo
<1> HIDE DEF h
<1>4. bucketArray[h] \in Seq(Keys) /\ On(bucketArray[h]) = {j \in DOMAIN pairs : Hash[j] % n = h}
  BY <1>3 DEF Placed
<1>5. Table!ToSet(bucketArray[h]) = On(bucketArray[h])
  <2>1. DOMAIN bucketArray[h] = 1..Len(bucketArray[h])
    BY <1>4
  <2> QED
    BY <2>1 DEF Table!ToSet, On
<1>6. Table!Found(k) <=> k \in On(bucketArray[h])
  BY <1>2, <1>5 DEF Table!Found, h
<1> QED
  BY <1>2, <1>4, <1>6 DEF h

\* A rehash loses no key.
LEMMA RehashKeeps ==
  ASSUME NEW n \in Table!TableSizes, NEW m \in Table!TableSizes,
         NEW array, NEW K \in SUBSET Keys, Placed(array, n, K),
         Table!RehashTo(array, m)
  PROVE  bucketArray' # NULL /\ \E s \in Table!TableSizes : Placed(bucketArray', s, K)
<1>1. n \in Nat \ {0} /\ m \in Nat \ {0}
  BY SizesAre
<1>2. CASE bucketArray' = array
  BY <1>2, PlacedIsTable
<1>3. CASE bucketArray' = Table!Rehashed(array, m)
  <2>1. Placed(bucketArray', m, K)
    BY <1>1, <1>3, RehashedPlaces
  <2> QED
    BY <2>1, PlacedIsTable
<1> QED
  BY <1>2, <1>3 DEF Table!RehashTo

LEMMA FreedKeeps ==
  ASSUME TableTypes, OwnedOnce, NEW S \in SUBSET DOMAIN pairs, Table!Freed(S)
  PROVE  TableTypes' /\ OwnedOnce' /\ DOMAIN pairs' = DOMAIN pairs \ S
<1>1. DOMAIN pairs' = DOMAIN pairs \ S /\ \A k \in DOMAIN pairs \ S : pairs'[k] = pairs[k]
  BY DEF Table!Freed
<1>2. TableTypes'
  BY <1>1 DEF TableTypes, Table!Freed
<1>3. \A j, k \in DOMAIN pairs' : pairs'[j].value = pairs'[k].value => j = k
  BY <1>1 DEF OwnedOnce
<1>4. Table!Held(DOMAIN pairs) \ Table!Held(S) = Table!Held(DOMAIN pairs \ S)
  <2> DEFINE Key(k) == <<k, pairs[k].key>>
             Value(k) == pairs[k].value
  <2>1. \A j, k \in DOMAIN pairs : Key(j) = Key(k) => j = k
    OBVIOUS
  <2>2. \A j, k \in DOMAIN pairs : Value(j) = Value(k) => j = k
    BY DEF OwnedOnce
  <2>3. \A j, k \in DOMAIN pairs : Key(j) # Value(k)
    <3>1. \A j, k \in DOMAIN pairs : Key(j) \in Keys \X Copies /\ Value(k) \in Pointers
      BY DEF TableTypes
    <3>2. Pointers \cap (Keys \X Copies) = {}
      BY TablesAssumption DEF Table!TableAssumption
    <3> QED
      BY <3>1, <3>2
  <2>4. \A T : Table!Held(T) = {Key(k) : k \in T} \cup {Value(k) : k \in T}
    BY DEF Table!Held
  <2> HIDE DEF Key, Value
  <2> QED
    BY <2>1, <2>2, <2>3, <2>4
<1>5. Table!Held(DOMAIN pairs)' = Table!Held(DOMAIN pairs \ S)
  BY <1>1 DEF Table!Held
<1> QED
  BY <1>1, <1>2, <1>3, <1>4, <1>5 DEF OwnedOnce, Table!Freed

\* The pairs after a put.
Puts(k, c, v) ==
  /\ {<<k, c>>, v} \cap Table!Held(DOMAIN pairs \ {k}) = {}
  /\ pairs' = [j \in DOMAIN pairs \cup {k} |->
                IF j = k THEN [key |-> c, value |-> v] ELSE pairs[j]]
  /\ allocated' = IF k \in DOMAIN pairs
                  THEN (allocated \ Table!Replaced(k, c, v)) \cup {<<k, c>>, v}
                  ELSE allocated \cup {<<k, c>>, v}

LEMMA PutKeeps ==
  ASSUME TableTypes, OwnedOnce, NEW k \in Keys, NEW c \in Copies, NEW v \in Pointers, Puts(k, c, v)
  PROVE  TableTypes' /\ OwnedOnce' /\ DOMAIN pairs' = DOMAIN pairs \cup {k}
<1>1. /\ DOMAIN pairs' = DOMAIN pairs \cup {k} /\ pairs'[k] = [key |-> c, value |-> v]
      /\ \A j \in DOMAIN pairs \ {k} : pairs'[j] = pairs[j]
  BY DEF Puts
<1>2. TableTypes'
  BY <1>1 DEF TableTypes, Puts
<1> DEFINE rest == DOMAIN pairs \ {k}
<1>3. v \notin Table!Held(rest) /\ <<k, c>> \notin Table!Held(rest)
  BY DEF Puts
<1>4. \A j \in rest : pairs[j].value # v
  BY <1>3 DEF Table!Held
<1>5. \A i, j \in DOMAIN pairs' : pairs'[i].value = pairs'[j].value => i = j
  BY <1>1, <1>4 DEF OwnedOnce
<1>6. Table!Held(DOMAIN pairs)' = Table!Held(rest) \cup {<<k, c>>, v}
  <2>1. \A j \in DOMAIN pairs' : j = k \/ j \in rest
    BY <1>1
  <2>2. \A j \in rest : pairs'[j] = pairs[j] /\ j \in DOMAIN pairs'
    BY <1>1
  <2>3. pairs'[k].key = c /\ pairs'[k].value = v /\ k \in DOMAIN pairs'
    BY <1>1
  <2> HIDE DEF rest
  <2> QED
    BY <2>1, <2>2, <2>3 DEF Table!Held
<1>7. CASE k \notin DOMAIN pairs
  <2>1. rest = DOMAIN pairs
    BY <1>7
  <2>2. allocated' = Table!Held(rest) \cup {<<k, c>>, v}
    BY <1>7, <2>1 DEF OwnedOnce, Puts
  <2> HIDE DEF rest
  <2> QED
    BY <1>1, <1>2, <1>5, <1>6, <2>2 DEF OwnedOnce
<1>8. CASE k \in DOMAIN pairs
  <2>1. Table!Held(DOMAIN pairs) = Table!Held(rest) \cup {<<k, pairs[k].key>>, pairs[k].value}
    <3>1. \A j \in DOMAIN pairs : j = k \/ j \in rest
      OBVIOUS
    <3>2. k \in DOMAIN pairs /\ \A j \in rest : j \in DOMAIN pairs
      BY <1>8
    <3> HIDE DEF rest
    <3> QED
      BY <3>1, <3>2 DEF Table!Held
  <2>2. Table!Held(rest) \cap {<<k, pairs[k].key>>, pairs[k].value} = {}
    <3>1. \A j \in rest : <<j, pairs[j].key>> \in Keys \X Copies /\ pairs[j].value \in Pointers
      BY DEF TableTypes
    <3>2. <<k, pairs[k].key>> \in Keys \X Copies /\ pairs[k].value \in Pointers
      BY <1>8 DEF TableTypes
    <3>3. Pointers \cap (Keys \X Copies) = {}
      BY TablesAssumption DEF Table!TableAssumption
    <3>4. \A j \in rest : j # k /\ pairs[j].value # pairs[k].value
      BY <1>8 DEF OwnedOnce
    <3> HIDE DEF rest
    <3> DEFINE key == <<k, pairs[k].key>>
               value == pairs[k].value
    <3>5. \A j \in rest : key # <<j, pairs[j].key>> /\ key # pairs[j].value
      BY <3>1, <3>2, <3>3, <3>4
    <3>6. \A j \in rest : value # <<j, pairs[j].key>> /\ value # pairs[j].value
      BY <3>1, <3>2, <3>3, <3>4
    <3> HIDE DEF key, value
    <3>7. key \notin Table!Held(rest) /\ value \notin Table!Held(rest)
      BY <3>5, <3>6 DEF Table!Held
    <3> QED
      BY <3>7 DEF key, value
  <2>3. allocated' = (allocated \ Table!Replaced(k, c, v)) \cup {<<k, c>>, v}
    BY <1>8 DEF Puts
  <2>4. /\ Table!Replaced(k, c, v) \subseteq {<<k, pairs[k].key>>, pairs[k].value}
        /\ {<<k, pairs[k].key>>, pairs[k].value} \ Table!Replaced(k, c, v) \subseteq {<<k, c>>, v}
    BY DEF Table!Replaced
  <2>5. allocated = Table!Held(DOMAIN pairs)
    BY DEF OwnedOnce
  <2>6. allocated' = Table!Held(rest) \cup {<<k, c>>, v}
    BY <2>1, <2>2, <2>3, <2>4, <2>5
  <2> QED
    BY <1>1, <1>2, <1>5, <1>6, <2>6 DEF OwnedOnce
<1> QED
  BY <1>7, <1>8

LEMMA TableInvInit == Table!Init => TableInv
<1> SUFFICES ASSUME Table!Init PROVE TableInv
  OBVIOUS
<1>1. DOMAIN pairs = {} /\ pairs \in [DOMAIN pairs -> [key : Copies, value : Pointers]]
  BY DEF Table!Init, Table!NoPairs
<1>2. Table!Held({}) = {} /\ Cardinality({}) = 0
  BY FS_EmptySet DEF Table!Held
<1> QED
  BY <1>1, <1>2 DEF TableInv, TableTypes, OwnedOnce, ChainsHold, Table!Init

\* A call that reads, or moves an iterator.
LEMMA TableRests ==
  ASSUME TableInv, UNCHANGED Table!table
  PROVE  TableInv'
BY DEF TableInv, TableTypes, OwnedOnce, ChainsHold, Table!table, Table!Held

LEMMA CreateInv ==
  ASSUME TableInv, NEW n \in BucketCounts, Table!HashTableCreate(n)
  PROVE  TableInv'
<1>1. n \in Table!TableSizes /\ n \in Nat \ {0}
  BY SizesAre
<1>2. DOMAIN pairs = {}
  BY DEF TableInv, ChainsHold, Table!HashTableCreate
<1>3. Placed(bucketArray', n, DOMAIN pairs)
  BY <1>1, <1>2, NonePlaced DEF Table!HashTableCreate
<1>4. bucketArray' # NULL
  BY <1>1, <1>3, PlacedIsTable
<1> QED
  BY <1>1, <1>3, <1>4
  DEF TableInv, TableTypes, OwnedOnce, ChainsHold, Table!Held, Table!HashTableCreate

LEMMA DestroyInv ==
  ASSUME TableInv, Table!HashTableDestroy
  PROVE  TableInv'
<1>1. DOMAIN pairs' = {} /\ pairs' \in [DOMAIN pairs' -> [key : Copies, value : Pointers]]
  BY DEF Table!HashTableDestroy, Table!NoPairs
<1>2. Table!Held(DOMAIN pairs)' = {} /\ Cardinality({}) = 0
  BY <1>1, FS_EmptySet DEF Table!Held
<1>3. allocated' = {}
  BY DEF TableInv, OwnedOnce, Table!HashTableDestroy
<1> QED
  BY <1>1, <1>2, <1>3 DEF TableInv, TableTypes, OwnedOnce, ChainsHold, Table!HashTableDestroy

LEMMA PutInv ==
  ASSUME TableInv, NEW k \in Keys, NEW c \in Copies, NEW v \in Pointers,
         Table!HashTablePut(k, c, v)
  PROVE  TableInv'
<1>1. PICK n \in Table!TableSizes : Placed(bucketArray, n, DOMAIN pairs)
  BY DEF TableInv, ChainsHold, Table!HashTablePut
<1>2. /\ n \in Nat \ {0} /\ bucketArray # NULL
      /\ Table!numOfBuckets = n /\ Table!Bucket(k) = Hash[k] % n
      /\ Table!Found(k) <=> k \in DOMAIN pairs
  BY <1>1, SizesAre, FoundIs DEF Table!HashTablePut
<1>3. Puts(k, c, v)
  BY <1>2 DEF Puts, Table!HashTablePut
<1>4. TableTypes' /\ OwnedOnce' /\ DOMAIN pairs' = DOMAIN pairs \cup {k}
  BY <1>3, PutKeeps DEF TableInv
<1>5. CASE k \in DOMAIN pairs
  <2>1. DOMAIN pairs' = DOMAIN pairs /\ bucketArray' = bucketArray /\ numOfElements' = numOfElements
    BY <1>2, <1>4, <1>5 DEF Table!HashTablePut
  <2> QED
    BY <1>1, <1>2, <1>4, <2>1 DEF TableInv, ChainsHold
<1>6. CASE k \notin DOMAIN pairs
  <2> DEFINE array == [bucketArray EXCEPT ![Hash[k] % n] = <<k>> \o @]
  <2>1. Placed(array, n, DOMAIN pairs \cup {k})
    BY <1>1, <1>2, <1>6, PushPlaces
  <2>2. /\ numOfElements' = numOfElements + 1
        /\ \/ bucketArray' = array
           \/ Table!RehashTo(array, Table!IdealNumOfBuckets(numOfElements + 1))
    BY <1>2, <1>6 DEF Table!HashTablePut
  <2> HIDE DEF array
  <2>3. DOMAIN pairs \cup {k} \subseteq Keys /\ DOMAIN pairs \subseteq Keys
    BY DEF TableInv, TableTypes
  <2>4. Cardinality(DOMAIN pairs \cup {k}) = numOfElements + 1
    BY <1>6, <2>3, KeysFinite, FS_AddElement DEF TableInv, ChainsHold
  <2>5. Table!IdealNumOfBuckets(numOfElements + 1) \in Table!TableSizes
    <3>1. numOfElements + 1 \in 0..Cardinality(Keys)
      BY <2>3, <2>4, KeysFinite
    <3> QED
      BY <3>1, SizesAre
  <2>6. bucketArray' # NULL /\ \E s \in Table!TableSizes : Placed(bucketArray', s, DOMAIN pairs \cup {k})
    <3>1. CASE bucketArray' = array
      BY <3>1, <2>1, PlacedIsTable
    <3>2. CASE Table!RehashTo(array, Table!IdealNumOfBuckets(numOfElements + 1))
      BY <3>2, <2>1, <2>3, <2>5, RehashKeeps
    <3> QED
      BY <2>2, <3>1, <3>2
  <2> QED
    BY <1>4, <2>2, <2>4, <2>6 DEF TableInv, ChainsHold
<1> QED
  BY <1>5, <1>6

LEMMA RemoveInv ==
  ASSUME TableInv, NEW k \in Keys, Table!HashTableRemove(k)
  PROVE  TableInv'
<1>1. PICK n \in Table!TableSizes : Placed(bucketArray, n, DOMAIN pairs)
  BY DEF TableInv, ChainsHold, Table!HashTableRemove
<1>2. /\ n \in Nat \ {0}
      /\ Table!numOfBuckets = n /\ Table!Bucket(k) = Hash[k] % n
      /\ Table!Found(k) <=> k \in DOMAIN pairs
  BY <1>1, SizesAre, FoundIs
<1>3. CASE k \notin DOMAIN pairs
  BY <1>2, <1>3, TableRests DEF Table!HashTableRemove
<1>4. CASE k \in DOMAIN pairs
  <2>1. /\ bucketArray' = [bucketArray EXCEPT ![Hash[k] % n] = Table!RemoveFirst(@, k)]
        /\ numOfElements' = numOfElements - 1 /\ Table!Freed({k})
    BY <1>2, <1>4 DEF Table!HashTableRemove
  <2>2. TableTypes' /\ OwnedOnce' /\ DOMAIN pairs' = DOMAIN pairs \ {k}
    BY <1>4, <2>1, FreedKeeps DEF TableInv
  <2>3. DOMAIN pairs \subseteq Keys
    BY DEF TableInv, TableTypes
  <2>4. Placed(bucketArray', n, DOMAIN pairs \ {k})
    BY <1>1, <1>2, <1>4, <2>1, <2>3, RemovePlaces
  <2>5. bucketArray' # NULL
    BY <2>4, PlacedIsTable
  <2>6. Cardinality(DOMAIN pairs \ {k}) = numOfElements - 1
    BY <1>4, <2>3, KeysFinite, FS_RemoveElement DEF TableInv, ChainsHold
  <2> QED
    BY <2>1, <2>2, <2>4, <2>5, <2>6 DEF TableInv, ChainsHold
<1> QED
  BY <1>3, <1>4

LEMMA RemoveAllPairsInv ==
  ASSUME TableInv, Table!HashTableRemoveAll
  PROVE  TableInv'
<1>1. PICK n \in Table!TableSizes : Placed(bucketArray, n, DOMAIN pairs)
  BY DEF TableInv, ChainsHold, Table!HashTableRemoveAll
<1>2. n \in Nat \ {0} /\ DOMAIN bucketArray = 0..(n - 1)
  BY <1>1, SizesAre, PlacedArray
<1>3. TableTypes' /\ OwnedOnce' /\ DOMAIN pairs' = {}
  <2>1. DOMAIN pairs \in SUBSET DOMAIN pairs /\ Table!Freed(DOMAIN pairs)
    BY DEF Table!HashTableRemoveAll
  <2> QED
    BY <2>1, FreedKeeps DEF TableInv
<1>4. bucketArray' # NULL /\ \E s \in Table!TableSizes : Placed(bucketArray', s, {})
  <2> DEFINE array == [b \in 0..(n - 1) |-> <<>>]
  <2>1. Placed(array, n, {}) /\ Table!RehashTo(array, 5)
    BY <1>2, NonePlaced DEF Table!HashTableRemoveAll
  <2> HIDE DEF array
  <2> QED
    BY <2>1, SizesAre, RehashKeeps
<1>5. numOfElements' = 0 /\ Cardinality({}) = 0
  BY FS_EmptySet DEF Table!HashTableRemoveAll
<1> QED
  BY <1>3, <1>4, <1>5 DEF TableInv, ChainsHold

LEMMA RehashInv ==
  ASSUME TableInv, NEW m \in BucketCounts \cup {0}, Table!HashTableRehash(m)
  PROVE  TableInv'
<1>1. PICK n \in Table!TableSizes : Placed(bucketArray, n, DOMAIN pairs)
  BY DEF TableInv, ChainsHold, Table!HashTableRehash
<1> DEFINE size == IF m = 0 THEN Table!IdealNumOfBuckets(numOfElements) ELSE m
<1>2. DOMAIN pairs \subseteq Keys /\ numOfElements \in 0..Cardinality(Keys)
  <2>1. DOMAIN pairs \subseteq Keys
    BY DEF TableInv, TableTypes
  <2> QED
    BY <2>1, KeysFinite DEF TableInv, ChainsHold
<1>3. size \in Table!TableSizes
  BY <1>2, SizesAre
<1>4. Table!RehashTo(bucketArray, size)
  BY DEF Table!HashTableRehash
<1> HIDE DEF size
<1>5. bucketArray' # NULL /\ \E s \in Table!TableSizes : Placed(bucketArray', s, DOMAIN pairs)
  BY <1>1, <1>2, <1>3, <1>4, RehashKeeps
<1> QED
  BY <1>5
  DEF TableInv, TableTypes, OwnedOnce, ChainsHold, Table!Held, Table!HashTableRehash

\* The iterators read.
LEMMA IteratorRests ==
  ASSUME NEW i \in Iterators, Table!hashTableGetFirst(i) \/ Table!hashTableGetNext(i)
  PROVE  UNCHANGED Table!table
<1>1. ASSUME NEW b, NEW p, Table!Return(i, b, p)
      PROVE  UNCHANGED Table!table
  BY <1>1 DEF Table!Return
<1>2. ASSUME NEW b, Table!ReturnFrom(i, b)
      PROVE  UNCHANGED Table!table
  BY <1>1, <1>2 DEF Table!ReturnFrom
<1> QED
  BY <1>1, <1>2 DEF Table!hashTableGetFirst, Table!hashTableGetNext

LEMMA TableInvStep == TableInv /\ [Table!Next]_tableVars => TableInv'
<1> SUFFICES ASSUME TableInv, [Table!Next]_tableVars PROVE TableInv'
  OBVIOUS
<1>1. CASE UNCHANGED tableVars
  BY <1>1, TableRests DEF tableVars, Table!table
<1>2. CASE Table!Next
  <2>1. ASSUME NEW n \in BucketCounts, Table!HashTableCreate(n) \/ Table!HashTableRehash(n)
        PROVE  TableInv'
    BY <2>1, CreateInv, RehashInv
  <2>2. CASE Table!HashTableDestroy \/ Table!HashTableRemoveAll \/ Table!HashTableRehash(0)
    BY <2>2, DestroyInv, RemoveAllPairsInv, RehashInv
  <2>3. ASSUME NEW k \in Keys, Table!HashTableRemove(k) \/ Table!HashTableGet(k)
        PROVE  TableInv'
    BY <2>3, RemoveInv, TableRests DEF Table!HashTableGet
  <2>4. ASSUME NEW k \in Keys, NEW c \in Copies, NEW v \in Pointers, Table!HashTablePut(k, c, v)
        PROVE  TableInv'
    BY <2>4, PutInv
  <2>5. ASSUME NEW i \in Iterators, Table!hashTableGetFirst(i) \/ Table!hashTableGetNext(i)
        PROVE  TableInv'
    BY <2>5, IteratorRests, TableRests
  <2> QED
    BY <1>2, <2>1, <2>2, <2>3, <2>4, <2>5 DEF Table!Next
<1> QED
  BY <1>1, <1>2

LEMMA TableInvPlaces == TableInv => Table!PairsInPlace
<1> SUFFICES ASSUME TableInv, bucketArray # NULL
             PROVE  /\ UNION {Table!ToSet(bucketArray[b]) : b \in DOMAIN bucketArray} = DOMAIN pairs
                    /\ \A b \in DOMAIN bucketArray :
                         /\ Table!IsInjective(bucketArray[b])
                         /\ \A k \in Table!ToSet(bucketArray[b]) : Table!Bucket(k) = b
                    /\ numOfElements = Table!Cardinality(DOMAIN pairs)
  BY DEF Table!PairsInPlace
<1>1. PICK n \in Table!TableSizes : Placed(bucketArray, n, DOMAIN pairs)
  BY DEF TableInv, ChainsHold
<1>2. /\ n \in Nat \ {0} /\ DOMAIN bucketArray = 0..(n - 1)
      /\ DOMAIN pairs \subseteq Keys
      /\ \A k \in Keys : Table!Bucket(k) = Hash[k] % n /\ Hash[k] % n \in 0..(n - 1)
  BY <1>1, SizesAre, PlacedArray, FoundIs, HashedTo DEF TableInv, TableTypes
<1>3. ASSUME NEW b \in 0..(n - 1)
      PROVE  /\ Table!ToSet(bucketArray[b]) = {k \in DOMAIN pairs : Hash[k] % n = b}
             /\ Table!IsInjective(bucketArray[b])
  <2>1. /\ bucketArray[b] \in Seq(Keys) /\ Once(bucketArray[b])
        /\ On(bucketArray[b]) = {k \in DOMAIN pairs : Hash[k] % n = b}
    BY <1>1 DEF Placed
  <2>2. DOMAIN bucketArray[b] = 1..Len(bucketArray[b])
    BY <2>1
  <2> QED
    BY <2>1, <2>2 DEF On, Once, Table!ToSet, Table!IsInjective
<1>4. UNION {Table!ToSet(bucketArray[b]) : b \in DOMAIN bucketArray} = DOMAIN pairs
  <2>1. \A k \in DOMAIN pairs : \E b \in 0..(n - 1) : k \in Table!ToSet(bucketArray[b])
    BY <1>2, <1>3
  <2>2. \A b \in 0..(n - 1) : Table!ToSet(bucketArray[b]) \subseteq DOMAIN pairs
    BY <1>3
  <2> QED
    BY <1>2, <2>1, <2>2
<1>5. numOfElements = Table!Cardinality(DOMAIN pairs)
  BY SameCardinality DEF TableInv, ChainsHold
<1> QED
  BY <1>2, <1>3, <1>4, <1>5

\* A step of the program is one of the table or leaves it alone.
LEMMA TableBehaviour == MCSpec => []TableInv
<1>1. MCInit => TableInv
  BY TableInvInit DEF MCInit
<1>2. TableInv /\ [MCNext]_<<part, operationVars, vars, bufferVars, listVars, tableVars>> => TableInv'
  <2>1. [MCNext]_<<part, operationVars, vars, bufferVars, listVars, tableVars>>
          => [Table!Next]_tableVars
    BY DEF MCNext
  <2> QED
    BY <2>1, TableInvStep
<1> QED
  BY <1>1, <1>2, PTL DEF MCSpec

\* Whatever is put, removed or rehashed, and however often, every pair of a table
\* is in the bucket its key hashes to now, once, and the table knows how many
\* they are: HashTablePut, HashTableRemove, HashTableRehash in hashtable.c.
THEOREM ClientTablesInPlace == MCSpec => []PairsInPlace
<1>1. TableInv => PairsInPlace
  BY TableInvPlaces DEF PairsInPlace
<1> QED
  BY <1>1, TableBehaviour, PTL

\* What was given to a table and was not freed is what its pairs hold: no key or
\* value is freed twice, forgotten, or freed while a pair has it: the
\* deallocators in HashTablePut, HashTableRemove and HashTableRemoveAll.
THEOREM ClientTablesOwn == MCSpec => []TableOwnsItsPairs
<1>1. TableInv => TableOwnsItsPairs
  BY DEF TableInv, OwnedOnce, TableOwnsItsPairs, Table!TableOwnsItsPairs
<1> QED
  BY <1>1, TableBehaviour, PTL

----------------------------------------------------------------------------
(* A table is a map with iterations: Table!Abstract, with the names of  *)
(* what the caller sees.                                                   *)

MapSeen == IF bucketArray = NULL THEN NULL ELSE pairs
BucketsSeen == IF bucketArray = NULL THEN 0 ELSE Table!numOfBuckets
Iteration(i) ==
  IF iter[i] = NULL THEN NULL
  ELSE [on |-> IF iter[i].pair = Table!Dangling THEN "lost" ELSE iter[i].pair,
        todo |-> IF iter[i].pair = Table!Dangling \/ i \in shuffled THEN {} ELSE Table!Todo(i),
        exact |-> i \notin shuffled]
Iterations == [i \in Iterators |-> Iteration(i)]

Map == INSTANCE HashMap WITH
  Values <- Pointers, map <- MapSeen, buckets <- BucketsSeen, IdealBuckets <- Table!IdealNumOfBuckets,
  iteration <- Iterations, answer <- tableResult, ended <- tableCrashed

\* That is the refinement mapping of the table.
LEMMA SameMap ==
  /\ Table!Abstract!vars = Map!vars
  /\ Table!Abstract!Init <=> Map!Init
BY Zenon DEF MapSeen, BucketsSeen, Iteration, Iterations, Table!Abstract!vars, Map!vars, Table!Abstract!Init, Map!Init

\* The instances count with operators of their own.
LEMMA SameCounts == \A S : Map!Cardinality(S) = Cardinality(S) /\ Table!Abstract!Cardinality(S) = Cardinality(S)
BY Zenon DEF Map!Cardinality, Table!Abstract!Cardinality, Cardinality

LEMMA SameHelpers ==
  /\ Map!None = Table!Abstract!None /\ Map!Going = Table!Abstract!Going /\ Map!Lost = Table!Abstract!Lost
  /\ \A it : Map!Shuffled(it) = Table!Abstract!Shuffled(it)
  /\ \A n : Map!Rehashed(n) <=> Table!Abstract!Rehashed(n)
  /\ \A i, k, S, e : Map!Returns(i, k, S, e) <=> Table!Abstract!Returns(i, k, S, e)
  /\ \A i : Map!Ends(i) <=> Table!Abstract!Ends(i)
<1> USE DEF MapSeen, BucketsSeen, Iteration, Iterations
<1>1. Map!None = Table!Abstract!None /\ Map!Going = Table!Abstract!Going /\ Map!Lost = Table!Abstract!Lost
  BY Zenon DEF Table!Abstract!None, Map!None, Table!Abstract!Going, Map!Going, Table!Abstract!Lost, Map!Lost
<1>2. \A it : Map!Shuffled(it) = Table!Abstract!Shuffled(it)
  BY Zenon DEF Table!Abstract!Shuffled, Map!Shuffled
<1>3. \A n : Map!Rehashed(n) <=> Table!Abstract!Rehashed(n)
  BY <1>1, Zenon DEF Table!Abstract!Rehashed, Map!Rehashed, Table!Abstract!Each, Map!Each,
        Table!Abstract!Shuffled, Map!Shuffled
<1>4. \A i, k, S, e : Map!Returns(i, k, S, e) <=> Table!Abstract!Returns(i, k, S, e)
  BY Zenon DEF Table!Abstract!Returns, Map!Returns
<1>5. \A i : Map!Ends(i) <=> Table!Abstract!Ends(i)
  BY Zenon DEF Table!Abstract!Ends, Map!Ends
<1> QED
  BY <1>1, <1>2, <1>3, <1>4, <1>5, Zenon

LEMMA SameMapCalls ==
  /\ \A n : Table!Abstract!Create(n) <=> Map!Create(n)
  /\ \A n : Table!Abstract!Rehash(n) <=> Map!Rehash(n)
  /\ Table!Abstract!Release <=> Map!Release
  /\ Table!Abstract!Clear <=> Map!Clear
  /\ \A k : Table!Abstract!Remove(k) <=> Map!Remove(k)
  /\ \A k : Table!Abstract!Get(k) <=> Map!Get(k)
  /\ \A k, e : Table!Abstract!Put(k, e) <=> Map!Put(k, e)
  /\ \A i : Table!Abstract!GetFirst(i) <=> Map!GetFirst(i)
  /\ \A i : Table!Abstract!GetNext(i) <=> Map!GetNext(i)
<1>a. \A S : Map!Cardinality(S) = Table!Abstract!Cardinality(S)
  BY SameCounts, Zenon
<1> USE DEF MapSeen, BucketsSeen, Iteration, Iterations
<1>1. \A n : Table!Abstract!Create(n) <=> Map!Create(n)
  BY Zenon DEF Table!Abstract!Create, Map!Create, Table!Abstract!None, Map!None
<1>2. \A n : Table!Abstract!Rehash(n) <=> Map!Rehash(n)
  BY <1>a, SameHelpers, Zenon DEF Table!Abstract!Rehash, Map!Rehash
<1>3. Table!Abstract!Release <=> Map!Release
  BY Zenon DEF Table!Abstract!Release, Map!Release
<1>4. Table!Abstract!Clear <=> Map!Clear
  BY Zenon DEF Table!Abstract!Clear, Map!Clear, Table!Abstract!Each, Map!Each, Table!Abstract!Going,
           Map!Going, Table!Abstract!Lost, Map!Lost, Table!Abstract!None, Map!None
<1>5. \A k : Table!Abstract!Remove(k) <=> Map!Remove(k)
  BY Zenon DEF Table!Abstract!Remove, Map!Remove, Table!Abstract!Each, Map!Each, Table!Abstract!Going,
           Map!Going, Table!Abstract!Lost, Map!Lost, Table!Abstract!None, Map!None
<1>6. \A k : Table!Abstract!Get(k) <=> Map!Get(k)
  BY SameHelpers, Zenon DEF Table!Abstract!Get, Map!Get
<1>7. \A k, e : Table!Abstract!Put(k, e) <=> Map!Put(k, e)
  BY Zenon DEF Table!Abstract!Put, Map!Put, Table!Abstract!Rehashed, Map!Rehashed,
           Table!Abstract!Shuffled, Map!Shuffled, Table!Abstract!Cardinality, Map!Cardinality, Table!Abstract!Each, Map!Each, Table!Abstract!Going,
           Map!Going, Table!Abstract!Lost, Map!Lost, Table!Abstract!None, Map!None
<1>8. \A i : Table!Abstract!GetFirst(i) <=> Map!GetFirst(i)
  BY SameHelpers, Zenon DEF Table!Abstract!GetFirst, Map!GetFirst
<1>9. \A i : Table!Abstract!GetNext(i) <=> Map!GetNext(i)
  BY SameHelpers, Zenon DEF Table!Abstract!GetNext, Map!GetNext
<1> QED
  BY <1>1, <1>2, <1>3, <1>4, <1>5, <1>6, <1>7, <1>8, <1>9, Zenon

\* The keys that come after k in a chain.
After(c, k) == {c[m] : m \in {m \in 1..Len(c) : \E j \in 1..(m - 1) : c[j] = k}}

\* Where k is in a chain, for NextInChain and Todo.
IndexOf(c, k) == Table!SelectInSeq(c, LAMBDA m : m = k)

\* A chain holds a key once: where it is, and what comes after it.
LEMMA IndexIs ==
  ASSUME NEW c \in Seq(Keys), Once(c), NEW i \in 1..Len(c)
  PROVE  IndexOf(c, c[i]) = i
<1> DEFINE I == {j \in 1..Len(c) : c[j] = c[i]}
<1>1. I = {i}
  BY DEF Once
<1>2. Table!Min(I) = i
  BY <1>1 DEF Table!Min
<1> QED
  BY <1>1, <1>2 DEF IndexOf, Table!SelectInSeq

LEMMA AfterIs ==
  ASSUME NEW c \in Seq(Keys), Once(c), NEW i \in 1..Len(c)
  PROVE  /\ After(c, c[i]) = {c[m] : m \in (i + 1)..Len(c)}
         /\ Table!ToSet(SubSeq(c, i + 1, Len(c))) = After(c, c[i])
<1>1. Len(c) \in Nat /\ i \in Nat /\ 1 <= i /\ i <= Len(c) /\ i + 1 \in 1..(Len(c) + 1)
  OBVIOUS
<1>2. {m \in 1..Len(c) : \E j \in 1..(m - 1) : c[j] = c[i]} = (i + 1)..Len(c)
  <2>1. ASSUME NEW m \in 1..Len(c), NEW j \in 1..(m - 1), c[j] = c[i]
        PROVE  m \in (i + 1)..Len(c)
    <3>1. j \in 1..Len(c) /\ j <= m - 1
      BY <1>1
    <3>2. j = i
      BY <2>1, <3>1 DEF Once
    <3> QED
      BY <3>1, <3>2, <1>1
  <2>2. ASSUME NEW m \in (i + 1)..Len(c)
        PROVE  m \in 1..Len(c) /\ i \in 1..(m - 1)
    BY <1>1
  <2> QED
    BY <2>1, <2>2
<1>3. After(c, c[i]) = {c[m] : m \in (i + 1)..Len(c)}
  BY <1>2, Zenon DEF After
<1>4. Table!ToSet(SubSeq(c, i + 1, Len(c))) = {c[m] : m \in (i + 1)..Len(c)}
  <2> DEFINE q == SubSeq(c, i + 1, Len(c))
  <2>1. /\ q \in Seq(Keys) /\ Len(q) = Len(c) - i
        /\ \A k \in 1..(Len(c) - i) : q[k] = c[k + i]
    BY <1>1, SubSeqProperties
  <2> HIDE DEF q
  <2>2. DOMAIN q = 1..(Len(c) - i)
    BY <2>1
  <2>3. ASSUME NEW k \in 1..(Len(c) - i)
        PROVE  k + i \in (i + 1)..Len(c) /\ q[k] = c[k + i]
    BY <1>1, <2>1
  <2>4. ASSUME NEW m \in (i + 1)..Len(c)
        PROVE  m - i \in 1..(Len(c) - i) /\ q[m - i] = c[m]
    <3>1. m - i \in 1..(Len(c) - i) /\ (m - i) + i = m
      BY <1>1
    <3> QED
      BY <3>1, <2>1
  <2>5. Table!ToSet(q) = {c[m] : m \in (i + 1)..Len(c)}
    <3>1. Table!ToSet(q) = {q[k] : k \in 1..(Len(c) - i)}
      BY <2>2, Zenon DEF Table!ToSet
    <3>2. {q[k] : k \in 1..(Len(c) - i)} \subseteq {c[m] : m \in (i + 1)..Len(c)}
      BY <2>3
    <3>3. {c[m] : m \in (i + 1)..Len(c)} \subseteq {q[k] : k \in 1..(Len(c) - i)}
      BY <2>4
    <3> QED
      BY <3>1, <3>2, <3>3
  <2> QED
    BY <2>5 DEF q
<1> QED
  BY <1>3, <1>4

\* A key in front of a chain is after none of the others.
LEMMA AfterPushed ==
  ASSUME NEW c \in Seq(Keys), Once(c), NEW k \in Keys \ On(c), NEW p \in On(c)
  PROVE  After(<<k>> \o c, p) = After(c, p)
<1> DEFINE d == <<k>> \o c
<1>1. PICK i \in 1..Len(c) : c[i] = p
  BY DEF On
<1>2. d \in Seq(Keys) /\ Once(d)
  BY Pushed
<1>3. Len(d) = Len(c) + 1 /\ Len(c) \in Nat /\ \A m \in 1..Len(c) : d[m + 1] = c[m]
  OBVIOUS
<1> HIDE DEF d
<1>4. i + 1 \in 1..Len(d) /\ d[i + 1] = p
  BY <1>1, <1>3
<1>5. After(d, p) = {d[m] : m \in ((i + 1) + 1)..Len(d)} /\ After(c, p) = {c[m] : m \in (i + 1)..Len(c)}
  BY <1>1, <1>2, <1>4, AfterIs
<1>6. ASSUME NEW m \in (i + 1)..Len(c)
      PROVE  m + 1 \in ((i + 1) + 1)..Len(d) /\ d[m + 1] = c[m]
  <2>1. m \in 1..Len(c) /\ m + 1 \in ((i + 1) + 1)..Len(d)
    BY <1>3
  <2> QED
    BY <2>1, <1>3
<1>7. ASSUME NEW m \in ((i + 1) + 1)..Len(d)
      PROVE  m - 1 \in (i + 1)..Len(c) /\ c[m - 1] = d[m]
  <2>1. m - 1 \in 1..Len(c) /\ m - 1 \in (i + 1)..Len(c) /\ (m - 1) + 1 = m
    BY <1>3
  <2> QED
    BY <2>1, <1>3
<1>8. After(d, p) = After(c, p)
  BY <1>5, <1>6, <1>7
<1> QED
  BY <1>8 DEF d

\* A key that is taken out of a chain.
LEMMA AfterRemoved ==
  ASSUME NEW c \in Seq(Keys), Once(c), NEW i \in 1..Len(c), NEW p \in On(c), p # c[i]
  PROVE  After(Removed(c, i), p) = After(c, p) \ {c[i]}
<1> DEFINE d == Removed(c, i)
<1>1. PICK j \in 1..Len(c) : c[j] = p
  BY DEF On
<1>2. Len(c) \in Nat /\ i \in Nat /\ 1 <= i /\ i <= Len(c) /\ i # j
  BY <1>1
<1>3. d \in Seq(Keys) /\ Once(d)
  BY RemovedIs
<1>4. /\ Len(d) = Len(c) - 1
      /\ \A k \in 1..(Len(c) - 1) : d[k] = IF k < i THEN c[k] ELSE c[k + 1]
  BY <1>2 DEF Removed
<1> HIDE DEF d
<1> DEFINE New(k) == IF k < i THEN k ELSE k - 1
           Old(k) == IF k < i THEN k ELSE k + 1
<1>5. ASSUME NEW k \in 1..Len(c), k # i
      PROVE  New(k) \in 1..Len(d) /\ d[New(k)] = c[k]
  <2>1. k < i => k \in 1..Len(d)
    BY <1>2, <1>4
  <2>2. ~(k < i) => k - 1 \in 1..Len(d) /\ (k - 1) + 1 = k /\ ~(k - 1 < i)
    BY <1>2, <1>4, <1>5
  <2> QED
    BY <2>1, <2>2, <1>4
<1>6. d[New(j)] = p /\ New(j) \in 1..Len(d)
  BY <1>1, <1>2, <1>5
<1>7. After(d, p) = {d[m] : m \in (New(j) + 1)..Len(d)} /\ After(c, p) = {c[m] : m \in (j + 1)..Len(c)}
  <2>1. After(c, p) = {c[m] : m \in (j + 1)..Len(c)}
    BY <1>1, AfterIs
  <2> HIDE DEF New
  <2>2. After(d, d[New(j)]) = {d[m] : m \in (New(j) + 1)..Len(d)}
    BY <1>3, <1>6, AfterIs
  <2> QED
    BY <2>1, <2>2, <1>6
<1>8. ASSUME NEW m \in (j + 1)..Len(c), m # i
      PROVE  New(m) \in (New(j) + 1)..Len(d) /\ d[New(m)] = c[m]
  <2>1. m \in 1..Len(c)
    BY <1>1, <1>2
  <2>2. New(m) \in 1..Len(d) /\ d[New(m)] = c[m]
    BY <2>1, <1>5, <1>8
  <2>3. New(m) > New(j)
    BY <1>1, <1>2, <1>8
  <2> QED
    BY <2>2, <2>3, <1>1, <1>2, <1>4
<1>9. ASSUME NEW m \in (New(j) + 1)..Len(d)
      PROVE  Old(m) \in (j + 1)..Len(c) /\ Old(m) # i /\ c[Old(m)] = d[m]
  <2>1. m \in 1..(Len(c) - 1)
    BY <1>1, <1>2, <1>4
  <2>2. Old(m) \in (j + 1)..Len(c) /\ Old(m) # i
    BY <1>1, <1>2, <1>4
  <2>3. c[Old(m)] = d[m]
    BY <2>1, <1>4
  <2> QED
    BY <2>2, <2>3
<1>10. After(d, p) \subseteq After(c, p) \ {c[i]}
  <2>1. ASSUME NEW m \in (New(j) + 1)..Len(d)
        PROVE  d[m] \in After(c, p) /\ d[m] # c[i]
    <3>1. Old(m) \in 1..Len(c)
      BY <1>9, <1>1, <1>2
    <3> HIDE DEF Old
    <3>2. d[m] # c[i]
      BY <3>1, <1>9 DEF Once
    <3> QED
      BY <3>2, <1>7, <1>9
  <2> HIDE DEF New
  <2> QED
    BY <2>1, <1>7
<1>11. After(c, p) \ {c[i]} \subseteq After(d, p)
  <2> HIDE DEF New
  <2> QED
    BY <1>7, <1>8
<1>12. After(d, p) = After(c, p) \ {c[i]}
  BY <1>10, <1>11
<1> QED
  BY <1>12 DEF d

\* A step along a chain, and its end.
LEMMA AfterNext ==
  ASSUME NEW c \in Seq(Keys), Once(c), NEW i \in 1..Len(c)
  PROVE  /\ i = Len(c) => After(c, c[i]) = {}
         /\ i # Len(c) => /\ i + 1 \in 1..Len(c)
                          /\ c[i + 1] \in After(c, c[i])
                          /\ After(c, c[i + 1]) = After(c, c[i]) \ {c[i + 1]}
<1>1. Len(c) \in Nat /\ i \in Nat /\ 1 <= i /\ i <= Len(c)
  OBVIOUS
<1>2. After(c, c[i]) = {c[m] : m \in (i + 1)..Len(c)}
  BY AfterIs
<1>3. CASE i = Len(c)
  <2>1. (i + 1)..Len(c) = {}
    BY <1>1, <1>3
  <2> QED
    BY <1>2, <1>3, <2>1
<1>4. CASE i # Len(c)
  <2>1. i + 1 \in 1..Len(c)
    BY <1>1, <1>4
  <2>2. After(c, c[i + 1]) = {c[m] : m \in ((i + 1) + 1)..Len(c)}
    BY <2>1, AfterIs
  <2>3. (i + 1)..Len(c) = {i + 1} \cup ((i + 1) + 1)..Len(c)
    BY <1>1, <1>4
  <2>4. \A m \in ((i + 1) + 1)..Len(c) : c[m] # c[i + 1]
    <3>1. \A m \in ((i + 1) + 1)..Len(c) : m \in 1..Len(c) /\ m # i + 1
      BY <1>1
    <3> QED
      BY <2>1, <3>1 DEF Once
  <2> QED
    BY <1>2, <1>4, <2>1, <2>2, <2>3, <2>4
<1> QED
  BY <1>3, <1>4

\* All but the first comes after it.
LEMMA AfterHead ==
  ASSUME NEW c \in Seq(Keys), Once(c), c # <<>>
  PROVE  Head(c) \in On(c) /\ Head(c) = c[1] /\ 1 \in 1..Len(c) /\ After(c, Head(c)) = On(c) \ {Head(c)}
<1>1. Len(c) \in Nat /\ Len(c) # 0 /\ Head(c) = c[1] /\ 1 \in 1..Len(c)
  OBVIOUS
<1>2. After(c, c[1]) = {c[m] : m \in (1 + 1)..Len(c)}
  BY <1>1, AfterIs
<1>3. 1..Len(c) = {1} \cup (1 + 1)..Len(c) /\ 1 \notin (1 + 1)..Len(c)
  BY <1>1
<1>4. \A m \in (1 + 1)..Len(c) : c[m] # c[1]
  BY <1>1, <1>3 DEF Once
<1> QED
  BY <1>1, <1>2, <1>3, <1>4 DEF On

\* What comes after k in a table that holds K: the rest of its chain, and what
\* is in the later ones.
Later(array, n, K, k) ==
  After(array[Hash[k] % n], k) \cup {j \in K : Hash[j] % n > Hash[k] % n}

LEMMA PlacedChain ==
  ASSUME NEW n \in Nat \ {0}, NEW array, NEW K \in SUBSET Keys, Placed(array, n, K), NEW k \in K
  PROVE  /\ Hash[k] % n \in 0..(n - 1)
         /\ array[Hash[k] % n] \in Seq(Keys) /\ Once(array[Hash[k] % n])
         /\ k \in On(array[Hash[k] % n])
         /\ On(array[Hash[k] % n]) = {j \in K : Hash[j] % n = Hash[k] % n}
<1>1. Hash[k] % n \in 0..(n - 1)
  BY HashedTo
<1> QED
  BY <1>1 DEF Placed

LEMMA LaterHeld ==
  ASSUME NEW n \in Nat \ {0}, NEW array, NEW K \in SUBSET Keys, Placed(array, n, K), NEW k \in K
  PROVE  Later(array, n, K, k) \subseteq K
<1>1. After(array[Hash[k] % n], k) \subseteq On(array[Hash[k] % n])
  BY DEF After, On
<1> QED
  BY <1>1, PlacedChain DEF Later

\* That is what Todo says of an iterator on the pair of k.
LEMMA TodoIsLater ==
  ASSUME NEW n \in Nat \ {0}, NEW array, NEW K \in SUBSET Keys, Placed(array, n, K), NEW k \in K,
         NEW chain, chain = array[Hash[k] % n],
         NEW index, index = IndexOf(chain, k)
  PROVE  Table!ToSet(SubSeq(chain, index + 1, Len(chain)))
           \cup UNION {Table!ToSet(array[b]) : b \in {b \in DOMAIN array : b > Hash[k] % n}}
         = Later(array, n, K, k)
<1>1. chain \in Seq(Keys) /\ Once(chain) /\ k \in On(chain)
  BY PlacedChain
<1>2. PICK i \in 1..Len(chain) : chain[i] = k
  BY <1>1 DEF On
<1>3. index = i
  BY <1>1, <1>2, IndexIs
<1>4. Table!ToSet(SubSeq(chain, index + 1, Len(chain))) = After(chain, k)
  BY <1>1, <1>2, <1>3, AfterIs
<1>5. DOMAIN array = 0..(n - 1)
  BY PlacedArray
<1>6. \A b \in 0..(n - 1) : Table!ToSet(array[b]) = {j \in K : Hash[j] % n = b}
  <2>1. ASSUME NEW b \in 0..(n - 1)
        PROVE  Table!ToSet(array[b]) = On(array[b])
    <3>1. array[b] \in Seq(Keys)
      BY DEF Placed
    <3> QED
      BY <3>1 DEF Table!ToSet, On
  <2> QED
    BY <2>1 DEF Placed
<1>7. \A j \in K : Hash[j] % n \in 0..(n - 1)
  BY HashedTo
<1> DEFINE H(j) == Hash[j] % n
<1>8. UNION {Table!ToSet(array[b]) : b \in {b \in DOMAIN array : b > H(k)}} = {j \in K : H(j) > H(k)}
  <2> HIDE DEF H
  <2>1. \A b \in 0..(n - 1) : Table!ToSet(array[b]) = {j \in K : H(j) = b}
    BY <1>6 DEF H
  <2>2. \A j \in K : H(j) \in 0..(n - 1)
    BY <1>7 DEF H
  <2> QED
    BY <1>5, <2>1, <2>2
<1> QED
  BY <1>4, <1>8 DEF Later

LEMMA LaterPushed ==
  ASSUME NEW n \in Nat \ {0}, NEW array, NEW K \in SUBSET Keys, Placed(array, n, K),
         NEW p \in K, NEW k \in Keys \ K,
         NEW after, after = [array EXCEPT ![Hash[k] % n] = <<k>> \o @]
  PROVE  Later(after, n, K \cup {k}, p)
           = Later(array, n, K, p) \cup IF Hash[k] % n > Hash[p] % n THEN {k} ELSE {}
<1> DEFINE H(j) == Hash[j] % n
<1>1. /\ array[H(p)] \in Seq(Keys) /\ Once(array[H(p)]) /\ p \in On(array[H(p)])
      /\ H(p) \in 0..(n - 1) /\ k \notin On(array[H(p)])
  BY PlacedChain
<1>2. H(k) \in 0..(n - 1) /\ DOMAIN array = 0..(n - 1)
  BY HashedTo, PlacedArray
<1>3. After(after[H(p)], p) = After(array[H(p)], p)
  <2> HIDE DEF H
  <2>1. after[H(p)] = IF H(p) = H(k) THEN <<k>> \o array[H(p)] ELSE array[H(p)]
    BY <1>1, <1>2 DEF H
  <2> QED
    BY <1>1, <2>1, AfterPushed
<1>4. {j \in K \cup {k} : H(j) > H(p)} = {j \in K : H(j) > H(p)} \cup IF H(k) > H(p) THEN {k} ELSE {}
  <2> HIDE DEF H
  <2> QED
    OBVIOUS
<1> QED
  BY <1>3, <1>4 DEF Later

LEMMA LaterRemoved ==
  ASSUME NEW n \in Nat \ {0}, NEW array, NEW K \in SUBSET Keys, Placed(array, n, K),
         NEW k \in K, NEW p \in K \ {k},
         NEW after, after = [array EXCEPT ![Hash[k] % n] = Table!RemoveFirst(@, k)]
  PROVE  Later(after, n, K \ {k}, p) = Later(array, n, K, p) \ {k}
<1> DEFINE H(j) == Hash[j] % n
<1>1. /\ array[H(p)] \in Seq(Keys) /\ Once(array[H(p)]) /\ p \in On(array[H(p)])
      /\ H(p) \in 0..(n - 1) /\ On(array[H(p)]) = {j \in K : H(j) = H(p)}
  BY PlacedChain
<1>2. /\ H(k) \in 0..(n - 1) /\ DOMAIN array = 0..(n - 1)
      /\ array[H(k)] \in Seq(Keys) /\ Once(array[H(k)]) /\ k \in On(array[H(k)])
  BY PlacedChain, PlacedArray
<1>3. After(after[H(p)], p) = After(array[H(p)], p) \ {k}
  <2>1. CASE H(p) = H(k)
    <3>1. PICK i \in 1..Len(array[H(k)]) : array[H(k)][i] = k
      BY <1>2 DEF On
    <3> HIDE DEF H
    <3>2. after[H(p)] = Removed(array[H(k)], i)
      <4>1. after[H(p)] = Table!RemoveFirst(array[H(k)], k)
        BY <1>2, <2>1 DEF H
      <4> QED
        BY <4>1, <1>2, <3>1, RemoveFirstIs
    <3> QED
      BY <1>1, <1>2, <2>1, <3>1, <3>2, AfterRemoved
  <2>2. CASE H(p) # H(k)
    <3> HIDE DEF H
    <3>1. after[H(p)] = array[H(p)]
      BY <1>1, <1>2, <2>2 DEF H
    <3>2. k \notin On(array[H(p)])
      BY <1>1, <2>2
    <3>3. After(array[H(p)], p) \subseteq On(array[H(p)])
      BY DEF After, On
    <3> QED
      BY <3>1, <3>2, <3>3
  <2> QED
    BY <2>1, <2>2
<1>4. {j \in K \ {k} : H(j) > H(p)} = {j \in K : H(j) > H(p)} \ {k}
  OBVIOUS
<1> QED
  BY <1>3, <1>4 DEF Later

\* The pair that comes next in the chain.
LEMMA LaterInChain ==
  ASSUME NEW n \in Nat \ {0}, NEW array, NEW K \in SUBSET Keys, Placed(array, n, K), NEW p \in K,
         NEW index, index = IndexOf(array[Hash[p] % n], p)
  PROVE  /\ index = Len(array[Hash[p] % n]) =>
              Later(array, n, K, p) = {j \in K : Hash[j] % n > Hash[p] % n}
         /\ index # Len(array[Hash[p] % n]) =>
              LET m == array[Hash[p] % n][index + 1]
              IN /\ m \in K /\ Hash[m] % n = Hash[p] % n
                 /\ m \in Later(array, n, K, p)
                 /\ Later(array, n, K, m) = Later(array, n, K, p) \ {m}
<1> DEFINE h == Hash[p] % n
           c == array[h]
           Beyond == {j \in K : Hash[j] % n > h}
<1>1. c \in Seq(Keys) /\ Once(c) /\ p \in On(c) /\ On(c) = {j \in K : Hash[j] % n = h}
  BY PlacedChain
<1>2. PICK i \in 1..Len(c) : c[i] = p
  BY <1>1 DEF On
<1>3. index = i
  BY <1>1, <1>2, IndexIs
<1>4. Later(array, n, K, p) = After(c, p) \cup Beyond
  BY DEF Later
<1>5. /\ i = Len(c) => After(c, c[i]) = {}
      /\ i # Len(c) => /\ i + 1 \in 1..Len(c)
                       /\ c[i + 1] \in After(c, c[i])
                       /\ After(c, c[i + 1]) = After(c, c[i]) \ {c[i + 1]}
  <2> HIDE DEF c
  <2> QED
    BY <1>1, AfterNext
<1>6. CASE i = Len(c)
  BY <1>2, <1>3, <1>4, <1>5, <1>6
<1>7. CASE i # Len(c)
  <2> DEFINE m == c[i + 1]
  <2>1. m \in On(c)
    BY <1>5, <1>7 DEF On
  <2>2. m \in K /\ Hash[m] % n = h
    BY <2>1, <1>1
  <2>3. Later(array, n, K, m) = After(c, m) \cup Beyond
    BY <2>2 DEF Later
  <2>4. h \in Int /\ ~(h > h) /\ m \notin Beyond
    <3>1. h \in 0..(n - 1)
      BY PlacedChain
    <3> QED
      BY <3>1, <2>2
  <2> HIDE DEF Beyond
  <2>5. m \in Later(array, n, K, p) /\ Later(array, n, K, m) = Later(array, n, K, p) \ {m}
    <3> HIDE DEF h, c
    <3> QED
      BY <1>2, <1>4, <1>5, <1>7, <2>3, <2>4 DEF m
  <2> QED
    BY <1>3, <1>7, <2>2, <2>5
<1> QED
  BY <1>6, <1>7

\* An iterator is on a pair, or was; one that saw no rehash is in its bucket.
IterInv ==
  /\ iter \in [Iterators -> {NULL} \cup [bucket : Nat, pair : DOMAIN pairs \cup {Table!Dangling}]]
  /\ shuffled \subseteq {i \in Iterators : iter[i] # NULL}
  /\ bucketArray = NULL => \A i \in Iterators : iter[i] = NULL
  /\ \A i \in Iterators \ shuffled :
       iter[i] # NULL /\ iter[i].pair # Table!Dangling => iter[i].bucket = Table!Bucket(iter[i].pair)

\* What the caller sees of an iterator, if L comes after its pair.
IterationView(it, moved, L) ==
  IF it = NULL THEN NULL
  ELSE [on |-> IF it.pair = Table!Dangling THEN "lost" ELSE it.pair,
        todo |-> IF it.pair = Table!Dangling \/ moved THEN {} ELSE L,
        exact |-> ~moved]

\* What the caller sees of a table with n buckets.
Seen(n) ==
  /\ MapSeen = pairs /\ BucketsSeen = n /\ MapSeen # NULL /\ bucketArray # NULL
  /\ \A k \in Keys : Table!Bucket(k) = Hash[k] % n
  /\ \A i \in Iterators :
       /\ Iterations[i] = IterationView(iter[i], i \in shuffled, Later(bucketArray, n, DOMAIN pairs, iter[i].pair))
       /\ Iterations[i] = NULL <=> iter[i] = NULL

TableSeen == \A n \in Table!TableSizes : Placed(bucketArray, n, DOMAIN pairs) => Seen(n)

LEMMA NullIs ==
  /\ NULL \notin Keys /\ Table!Dangling \notin Keys /\ "lost" \notin Keys /\ Table!Dangling = "dangling"
  /\ NULL \notin [bucket : Nat, pair : Keys \cup {Table!Dangling}]
  /\ NULL \notin [on : Keys \cup {"lost"}, todo : SUBSET Keys, exact : BOOLEAN]
  /\ \A K \in SUBSET Keys : NULL \notin [K -> [key : Copies, value : Pointers]]
BY TablesAssumption DEF Table!MapAssumption, Table!Dangling

LEMMA TableSeenIs == TableInv /\ IterInv => TableSeen
<1> SUFFICES ASSUME TableInv, IterInv, NEW n \in Table!TableSizes, Placed(bucketArray, n, DOMAIN pairs)
             PROVE  Seen(n)
  BY DEF TableSeen
<1>1. /\ n \in Nat \ {0} /\ DOMAIN pairs \in SUBSET Keys /\ bucketArray # NULL
      /\ pairs \in [DOMAIN pairs -> [key : Copies, value : Pointers]]
  BY SizesAre, PlacedIsTable DEF TableInv, TableTypes
<1>2. Table!numOfBuckets = n /\ \A k \in Keys : Table!Bucket(k) = Hash[k] % n
  <2>1. Table!numOfBuckets = n
    BY <1>1, PlacedArray, SameCardinality DEF Table!numOfBuckets
  <2> QED
    BY <2>1 DEF Table!Bucket
<1>3. MapSeen = pairs /\ BucketsSeen = n /\ MapSeen # NULL
  <2>1. MapSeen = pairs /\ BucketsSeen = n
    BY <1>1, <1>2, Zenon DEF MapSeen, BucketsSeen
  <2> QED
    BY <1>1, <2>1, NullIs
<1>4. ASSUME NEW i \in Iterators
      PROVE  /\ Iterations[i] = IterationView(iter[i], i \in shuffled, Later(bucketArray, n, DOMAIN pairs, iter[i].pair))
             /\ Iterations[i] = NULL <=> iter[i] = NULL
  <2> DEFINE L == Later(bucketArray, n, DOMAIN pairs, iter[i].pair)
  <2>1. iter[i] \in {NULL} \cup [bucket : Nat, pair : DOMAIN pairs \cup {Table!Dangling}]
    BY DEF IterInv
  <2>2. ASSUME iter[i] # NULL, iter[i].pair # Table!Dangling, i \notin shuffled
        PROVE  Table!Todo(i) = L
    <3>1. iter[i].pair \in DOMAIN pairs /\ iter[i].bucket = Table!Bucket(iter[i].pair)
      BY <2>1, <2>2 DEF IterInv
    <3>2. /\ iter[i].pair \in Keys /\ iter[i].bucket = Hash[iter[i].pair] % n
          /\ Table!Bucket(iter[i].pair) = Hash[iter[i].pair] % n
      BY <1>1, <1>2, <3>1
    <3> DEFINE p == iter[i].pair
               chain == bucketArray[Hash[p] % n]
               index == IndexOf(chain, p)
    <3>3. Table!Todo(i) = Table!ToSet(SubSeq(chain, index + 1, Len(chain)))
            \cup UNION {Table!ToSet(bucketArray[b]) : b \in {b \in DOMAIN bucketArray : b > Hash[p] % n}}
      BY <3>2, Zenon DEF Table!Todo, IndexOf
    <3>4. chain = bucketArray[Hash[p] % n] /\ index = IndexOf(chain, p)
      OBVIOUS
    <3> HIDE DEF chain, index, p
    <3>5. p \in DOMAIN pairs
      BY <3>1 DEF p
    <3> QED
      BY <3>3, <3>4, <3>5, <1>1, TodoIsLater DEF p
  <2>3. Iterations[i] = Iteration(i)
    BY DEF Iterations
  <2>4. CASE iter[i] = NULL
    BY <2>3, <2>4, Zenon DEF Iteration, IterationView
  <2>5. CASE iter[i] # NULL
    <3>1. Iterations[i] = IterationView(iter[i], i \in shuffled, L)
      BY <2>2, <2>3, <2>5, Zenon DEF Iteration, IterationView
    <3>2. iter[i].pair # Table!Dangling => iter[i].pair \in Keys /\ L \in SUBSET Keys
      BY <1>1, <2>1, <2>5, LaterHeld
    <3> HIDE DEF L
    <3>3. IterationView(iter[i], i \in shuffled, L) \in [on : Keys \cup {"lost"}, todo : SUBSET Keys, exact : BOOLEAN]
      BY <2>5, <3>2 DEF IterationView
    <3> QED
      BY <2>5, <3>1, <3>3, NullIs DEF L
  <2> QED
    BY <2>4, <2>5
<1> QED
  BY <1>1, <1>2, <1>3, <1>4 DEF Seen

LEMMA TableSeenNext == TableInv' /\ IterInv' => TableSeen'
<1>1. (TableInv /\ IterInv => TableSeen)'
  BY TableSeenIs, PTL
<1> QED
  BY <1>1

\* While there is no table there is nothing to see.
LEMMA NothingSeen == TableInv /\ IterInv /\ bucketArray = NULL =>
  /\ MapSeen = NULL /\ BucketsSeen = 0 /\ Iterations = [i \in Iterators |-> NULL]
<1> SUFFICES ASSUME TableInv, IterInv, bucketArray = NULL
             PROVE  MapSeen = NULL /\ BucketsSeen = 0 /\ Iterations = [i \in Iterators |-> NULL]
  OBVIOUS
<1>1. \A i \in Iterators : Iteration(i) = NULL
  BY Zenon DEF IterInv, Iteration
<1> QED
  BY <1>1 DEF MapSeen, BucketsSeen, Iterations

LEMMA NothingSeenNext == TableInv' /\ IterInv' /\ bucketArray' = NULL =>
  /\ MapSeen' = NULL /\ BucketsSeen' = 0 /\ Iterations' = [i \in Iterators |-> NULL]
<1>1. (TableInv /\ IterInv /\ bucketArray = NULL =>
        /\ MapSeen = NULL /\ BucketsSeen = 0 /\ Iterations = [i \in Iterators |-> NULL])'
  BY NothingSeen, PTL
<1> QED
  BY <1>1

\* The iterators of a table with n buckets.
Settled(n) ==
  /\ iter \in [Iterators -> {NULL} \cup [bucket : Nat, pair : DOMAIN pairs \cup {Table!Dangling}]]
  /\ shuffled \subseteq {i \in Iterators : iter[i] # NULL}
  /\ \A i \in Iterators \ shuffled :
       iter[i] # NULL /\ iter[i].pair # Table!Dangling => iter[i].bucket = Hash[iter[i].pair] % n

LEMMA SettledIs == TableInv => \A n \in Table!TableSizes :
  Placed(bucketArray, n, DOMAIN pairs) => (Settled(n) <=> IterInv)
<1> SUFFICES ASSUME TableInv, NEW n \in Table!TableSizes, Placed(bucketArray, n, DOMAIN pairs)
             PROVE  Settled(n) <=> IterInv
  OBVIOUS
<1>1. DOMAIN pairs \in SUBSET Keys /\ bucketArray # NULL
  BY PlacedIsTable DEF TableInv, TableTypes
<1>2. \A k \in Keys : Table!Bucket(k) = Hash[k] % n
  BY FoundIs
<1>3. ASSUME NEW i \in Iterators,
             iter \in [Iterators -> {NULL} \cup [bucket : Nat, pair : DOMAIN pairs \cup {Table!Dangling}]],
             iter[i] # NULL, iter[i].pair # Table!Dangling
      PROVE  iter[i].pair \in Keys
  <2>1. iter[i] \in [bucket : Nat, pair : DOMAIN pairs \cup {Table!Dangling}]
    BY <1>3
  <2> QED
    BY <1>1, <1>3, <2>1
<1> QED
  BY <1>1, <1>2, <1>3 DEF Settled, IterInv

LEMMA SettledThen == (TableInv => \A n \in Table!TableSizes :
  Placed(bucketArray, n, DOMAIN pairs) => (Settled(n) <=> IterInv))'
BY SettledIs, PTL

LEMMA SettledNext ==
  ASSUME TableInv', NEW n \in Table!TableSizes, Placed(bucketArray', n, DOMAIN pairs'), Settled(n)'
  PROVE  IterInv' /\ Seen(n)'
<1>1. IterInv'
  BY SettledThen
<1> QED
  BY <1>1, TableSeenNext DEF TableSeen

\* A table, before a step.
LEMMA TableNow ==
  ASSUME TableInv, IterInv, bucketArray # NULL
  PROVE  \E n \in Table!TableSizes :
           /\ n \in Nat \ {0} /\ Placed(bucketArray, n, DOMAIN pairs) /\ Seen(n) /\ Settled(n)
           /\ DOMAIN pairs \in SUBSET Keys /\ NULL \notin DOMAIN pairs
           /\ Table!Dangling \notin DOMAIN pairs
           /\ pairs \in [DOMAIN pairs -> [key : Copies, value : Pointers]]
<1>1. PICK n \in Table!TableSizes : Placed(bucketArray, n, DOMAIN pairs)
  BY DEF TableInv, ChainsHold
<1>2. Seen(n)
  BY <1>1, TableSeenIs DEF TableSeen
<1>3. Settled(n)
  BY <1>1, SettledIs
<1> QED
  BY <1>1, <1>2, <1>3, SizesAre, NullIs DEF TableInv, TableTypes

LEMMA MapStart ==
  ASSUME Table!Init
  PROVE  IterInv /\ Map!Init
<1>1. IterInv
  BY DEF Table!Init, IterInv
<1>2. MapSeen = NULL /\ BucketsSeen = 0 /\ Iterations = [i \in Iterators |-> NULL]
  BY <1>1, TableInvInit, NothingSeen DEF Table!Init
<1> QED
  BY <1>1, <1>2 DEF Table!Init, Map!Init

LEMMA CreatePromise ==
  ASSUME TableInv, IterInv, NEW n \in BucketCounts, Table!HashTableCreate(n)
  PROVE  IterInv' /\ Map!Create(n)
<1>1. /\ bucketArray = NULL /\ bucketArray' = [b \in 0..(n - 1) |-> <<>>]
      /\ UNCHANGED <<pairs, iter, tableResult, shuffled, tableCrashed>>
  BY DEF Table!HashTableCreate
<1>2. n \in Table!TableSizes /\ n \in Nat \ {0} /\ DOMAIN pairs = {}
  BY <1>1, SizesAre DEF TableInv, ChainsHold
<1>3. TableInv' /\ Placed(bucketArray', n, DOMAIN pairs')
  <2>1. Placed(bucketArray', n, {})
    BY <1>1, <1>2, NonePlaced
  <2> QED
    BY <1>1, <1>2, <2>1, CreateInv
<1>4. Settled(n)'
  BY <1>1 DEF IterInv, Settled
<1>5. IterInv' /\ Seen(n)'
  BY <1>2, <1>3, <1>4, SettledNext
<1>6. MapSeen = NULL /\ Iterations = [i \in Iterators |-> NULL]
  BY <1>1, NothingSeen
<1>7. MapSeen' = Map!None /\ BucketsSeen' = n
  <2>1. pairs = [k \in {} |-> NULL]
    BY <1>2 DEF TableInv, TableTypes
  <2> QED
    BY <1>1, <1>5, <2>1 DEF Seen, Map!None
<1>8. Iterations' = Iterations
  <2>1. \A i \in Iterators : iter'[i] = NULL
    BY <1>1 DEF IterInv
  <2>2. \A i \in Iterators : Iterations'[i] = NULL
    BY <1>5, <2>1 DEF Seen
  <2>3. Iterations' = [i \in Iterators |-> Iterations'[i]]
    BY DEF Iterations
  <2> HIDE DEF Iterations
  <2> QED
    BY <1>6, <2>2, <2>3
<1> QED
  BY <1>1, <1>5, <1>6, <1>7, <1>8 DEF Map!Create

LEMMA ReleaseTablePromise ==
  ASSUME TableInv, IterInv, Table!HashTableDestroy
  PROVE  IterInv' /\ Map!Release
<1>1. /\ bucketArray # NULL /\ bucketArray' = NULL
      /\ iter' = [i \in Iterators |-> NULL] /\ shuffled' = {}
      /\ UNCHANGED <<tableResult, tableCrashed>>
  BY DEF Table!HashTableDestroy
<1>2. MapSeen # NULL
  BY <1>1, TableNow DEF Seen
<1>3. TableInv' /\ IterInv'
  BY <1>1, DestroyInv DEF IterInv
<1> QED
  BY <1>1, <1>2, <1>3, NothingSeenNext DEF Map!Release

\* What is seen of the iterators is a function of them.
LEMMA EachIteration ==
  /\ Iterations = [i \in Iterators |-> Iterations[i]]
  /\ Iterations' = [i \in Iterators |-> Iterations'[i]]
BY DEF Iterations

\* A call that leaves the table alone.
LEMMA TableStays ==
  ASSUME TableInv, IterInv, UNCHANGED Table!table
  PROVE  /\ TableInv'
         /\ MapSeen' = MapSeen /\ BucketsSeen' = BucketsSeen
<1>1. bucketArray' = bucketArray /\ pairs' = pairs
  BY DEF Table!table
<1>2. TableInv'
  BY TableRests
<1>3. MapSeen' = MapSeen
  BY <1>1, Zenon DEF MapSeen
<1>4. BucketsSeen' = BucketsSeen
  BY <1>1, Zenon DEF BucketsSeen, Table!numOfBuckets
<1> QED
  BY <1>2, <1>3, <1>4

LEMMA IterationsRest ==
  ASSUME TableInv, IterInv, UNCHANGED <<Table!table, iter, shuffled>>
  PROVE  TableInv' /\ IterInv' /\ UNCHANGED <<MapSeen, BucketsSeen, Iterations>>
<1>1. /\ bucketArray' = bucketArray /\ pairs' = pairs /\ iter' = iter /\ shuffled' = shuffled
      /\ UNCHANGED Table!table
  BY DEF Table!table
<1>2. TableInv' /\ MapSeen' = MapSeen /\ BucketsSeen' = BucketsSeen
  BY <1>1, TableStays
<1>3. CASE bucketArray = NULL
  <2>1. IterInv'
    BY <1>1, <1>3, Zenon DEF IterInv, Table!Bucket, Table!numOfBuckets
  <2> QED
    BY <1>1, <1>2, <1>3, <2>1, NothingSeen, NothingSeenNext
<1>4. CASE bucketArray # NULL
  <2>1. PICK n \in Table!TableSizes : Placed(bucketArray, n, DOMAIN pairs) /\ Seen(n) /\ Settled(n)
    BY <1>4, TableNow
  <2>2. Settled(n)'
    BY <1>1, <2>1 DEF Settled
  <2>3. IterInv' /\ Seen(n)'
    BY <1>1, <1>2, <2>1, <2>2, SettledNext
  <2>4. \A i \in Iterators : Iterations'[i] = Iterations[i]
    BY <1>1, <2>1, <2>3 DEF Seen
  <2>5. Iterations' = Iterations
    <3> HIDE DEF Iterations
    <3> QED
      BY <2>4, EachIteration
  <2> QED
    BY <1>2, <2>3, <2>5
<1> QED
  BY <1>3, <1>4

LEMMA GetPromise ==
  ASSUME TableInv, IterInv, NEW k \in Keys, Table!HashTableGet(k)
  PROVE  IterInv' /\ Map!Get(k)
<1>1. /\ bucketArray # NULL /\ UNCHANGED Table!table
      /\ iter' = iter /\ shuffled' = shuffled /\ tableCrashed' = tableCrashed
      /\ tableResult' = IF Table!Found(k) THEN pairs[k].value ELSE NULL
  BY DEF Table!HashTableGet
<1>2. PICK n \in Table!TableSizes : Placed(bucketArray, n, DOMAIN pairs) /\ Seen(n)
  BY <1>1, TableNow
<1>3. Table!Found(k) <=> k \in DOMAIN pairs
  BY <1>2, FoundIs
<1>4. MapSeen = pairs /\ MapSeen # NULL
  BY <1>2 DEF Seen
<1>5. tableResult' = IF k \in DOMAIN MapSeen THEN MapSeen[k].value ELSE NULL
  BY <1>1, <1>3, <1>4
<1>6. IterInv' /\ UNCHANGED <<MapSeen, BucketsSeen, Iterations>>
  BY <1>1, IterationsRest
<1> QED
  BY <1>1, <1>4, <1>5, <1>6 DEF Map!Get

\* The pair that is returned, and the iterator on it.
LEMMA ReturnPromise ==
  ASSUME TableInv, IterInv, NEW n \in Table!TableSizes, Placed(bucketArray, n, DOMAIN pairs),
         bucketArray # NULL,
         NEW i \in Iterators, NEW b \in Nat, NEW k \in DOMAIN pairs,
         i \notin shuffled => b = Hash[k] % n,
         Table!Return(i, b, k)
  PROVE  /\ IterInv'
         /\ i \notin shuffled => Map!Returns(i, k, Later(bucketArray, n, DOMAIN pairs, k), TRUE)
         /\ i \in shuffled => Map!Returns(i, k, {}, FALSE)
<1>1. k # NULL /\ k # Table!Dangling /\ DOMAIN pairs \in SUBSET Keys
  BY NullIs DEF TableInv, TableTypes
<1>2. /\ iter' = [iter EXCEPT ![i] = [bucket |-> b, pair |-> k]]
      /\ tableResult' = <<k, pairs[k]>> /\ shuffled' = shuffled
      /\ UNCHANGED Table!table /\ tableCrashed' = tableCrashed
      /\ bucketArray' = bucketArray /\ pairs' = pairs
  BY <1>1 DEF Table!Return, Table!table
<1>3. Seen(n) /\ Settled(n)
  BY TableSeenIs, SettledIs DEF TableSeen
<1>4. TableInv' /\ MapSeen' = MapSeen /\ BucketsSeen' = BucketsSeen
  BY <1>2, TableStays
<1>5. /\ iter'[i] = [bucket |-> b, pair |-> k] /\ iter'[i] # NULL
      /\ \A j \in Iterators : j # i => iter'[j] = iter[j]
      /\ iter' \in [Iterators -> {NULL} \cup [bucket : Nat, pair : DOMAIN pairs \cup {Table!Dangling}]]
  <2>1. [bucket |-> b, pair |-> k] \in [bucket : Nat, pair : DOMAIN pairs \cup {Table!Dangling}]
    OBVIOUS
  <2>2. [bucket |-> b, pair |-> k] \in [bucket : Nat, pair : Keys \cup {Table!Dangling}]
    BY <1>1
  <2>3. [bucket |-> b, pair |-> k] # NULL
    BY <2>2, NullIs
  <2> QED
    BY <1>2, <1>3, <2>1, <2>3 DEF Settled
<1>6. Settled(n)'
  BY <1>2, <1>3, <1>5 DEF Settled
<1>7. IterInv' /\ Seen(n)'
  BY <1>2, <1>4, <1>6, SettledNext
<1>8. \A j \in Iterators : j # i => Iterations'[j] = Iterations[j]
  BY <1>2, <1>3, <1>5, <1>7 DEF Seen
<1>9. Iterations'[i] = [on |-> k, todo |-> IF i \in shuffled THEN {} ELSE Later(bucketArray, n, DOMAIN pairs, k),
                        exact |-> i \notin shuffled]
  <2>1. iter'[i].pair = k
    BY <1>5
  <2>2. Iterations'[i] = IterationView(iter'[i], i \in shuffled, Later(bucketArray, n, DOMAIN pairs, k))
    BY <1>2, <1>7, <2>1 DEF Seen
  <2> QED
    BY <1>1, <1>5, <2>1, <2>2 DEF IterationView
<1>10. ASSUME NEW v, Iterations'[i] = v
       PROVE  Iterations' = [Iterations EXCEPT ![i] = v]
  <2> HIDE DEF Iterations
  <2> QED
    BY <1>8, <1>10, EachIteration
<1>11. MapSeen = pairs
  BY <1>3 DEF Seen
<1>12. ASSUME i \notin shuffled
       PROVE  Map!Returns(i, k, Later(bucketArray, n, DOMAIN pairs, k), TRUE)
  <2>1. Iterations'[i] = [on |-> k, todo |-> Later(bucketArray, n, DOMAIN pairs, k), exact |-> TRUE]
    BY <1>9, <1>12
  <2> QED
    BY <1>2, <1>4, <1>10, <1>11, <2>1, Zenon DEF Map!Returns
<1>13. ASSUME i \in shuffled
       PROVE  Map!Returns(i, k, {}, FALSE)
  <2>1. Iterations'[i] = [on |-> k, todo |-> {}, exact |-> FALSE]
    BY <1>9, <1>13
  <2> QED
    BY <1>2, <1>4, <1>10, <1>11, <2>1, Zenon DEF Map!Returns
<1> QED
  BY <1>7, <1>12, <1>13

\* The iterator that is freed.
LEMMA EndPromise ==
  ASSUME TableInv, IterInv, bucketArray # NULL, NEW i \in Iterators, Table!Return(i, 0, NULL)
  PROVE  IterInv' /\ Map!Ends(i)
<1>1. PICK n \in Table!TableSizes : Placed(bucketArray, n, DOMAIN pairs) /\ Seen(n) /\ Settled(n)
  BY TableNow
<1>2. /\ iter' = [iter EXCEPT ![i] = NULL] /\ tableResult' = NULL /\ shuffled' = shuffled \ {i}
      /\ UNCHANGED Table!table /\ tableCrashed' = tableCrashed
      /\ bucketArray' = bucketArray /\ pairs' = pairs
  BY DEF Table!Return, Table!table
<1>3. TableInv' /\ MapSeen' = MapSeen /\ BucketsSeen' = BucketsSeen
  BY <1>2, TableStays
<1>4. /\ iter'[i] = NULL /\ \A j \in Iterators : j # i => iter'[j] = iter[j]
      /\ iter' \in [Iterators -> {NULL} \cup [bucket : Nat, pair : DOMAIN pairs \cup {Table!Dangling}]]
  BY <1>1, <1>2 DEF Settled
<1>5. Settled(n)'
  BY <1>1, <1>2, <1>4 DEF Settled
<1>6. IterInv' /\ Seen(n)'
  BY <1>1, <1>2, <1>3, <1>5, SettledNext
<1>7. \A j \in Iterators : j # i => Iterations'[j] = Iterations[j]
  BY <1>1, <1>2, <1>4, <1>6 DEF Seen
<1>8. Iterations'[i] = NULL
  BY <1>4, <1>6 DEF Seen
<1>9. Iterations' = [Iterations EXCEPT ![i] = NULL]
  <2> HIDE DEF Iterations
  <2> QED
    BY <1>7, <1>8, EachIteration
<1> QED
  BY <1>2, <1>3, <1>6, <1>9 DEF Map!Ends

\* The search for the next pair from bucket b on.
LEMMA FromBucket ==
  ASSUME NEW n \in Nat \ {0}, Placed(bucketArray, n, DOMAIN pairs), DOMAIN pairs \in SUBSET Keys,
         NEW i, NEW b \in Nat, Table!ReturnFrom(i, b),
         NEW Rest \in SUBSET DOMAIN pairs,
         \A j \in DOMAIN pairs : j \in Rest <=> Hash[j] % n >= b
  PROVE  \/ Rest = {} /\ Table!Return(i, 0, NULL)
         \/ \E k \in Rest : /\ Table!Return(i, Hash[k] % n, k)
                            /\ Later(bucketArray, n, DOMAIN pairs, k) = Rest \ {k}
<1> DEFINE some == {c \in DOMAIN bucketArray : c >= b /\ bucketArray[c] # <<>>}
           K == DOMAIN pairs
           H(j) == Hash[j] % n
<1>1. /\ DOMAIN bucketArray = 0..(n - 1)
      /\ \A c \in 0..(n - 1) : /\ bucketArray[c] \in Seq(Keys) /\ Once(bucketArray[c])
                               /\ On(bucketArray[c]) = {j \in K : H(j) = c}
  BY DEF Placed
<1>2. \A j \in K : H(j) \in 0..(n - 1)
  BY HashedTo
<1>3. Rest = {j \in K : H(j) >= b}
  OBVIOUS
<1>4. \A c \in 0..(n - 1) : bucketArray[c] # <<>> => Head(bucketArray[c]) \in On(bucketArray[c])
  BY <1>1, AfterHead
<1>5. \A j \in Rest : H(j) \in some
  <2>1. ASSUME NEW j \in Rest
        PROVE  H(j) \in some
    <3>1. H(j) \in 0..(n - 1) /\ H(j) >= b /\ j \in On(bucketArray[H(j)])
      BY <1>1, <1>2, <1>3
    <3> HIDE DEF H
    <3>2. bucketArray[H(j)] # <<>>
      BY <3>1 DEF On
    <3> QED
      BY <1>1, <3>1, <3>2
  <2> QED
    BY <2>1
<1>6. CASE some = {}
  <2>1. Rest = {}
    BY <1>5, <1>6
  <2> QED
    BY <1>6, <2>1, Zenon DEF Table!ReturnFrom
<1>7. CASE some # {}
  <2> DEFINE c == CHOOSE c \in some : \A d \in some : c <= d
  <2>1. Table!Return(i, c, Head(bucketArray[c]))
    BY <1>7, Zenon DEF Table!ReturnFrom
  <2>2. c \in some /\ \A d \in some : c <= d
    <3>1. some \in SUBSET Nat
      BY <1>1
    <3> HIDE DEF some
    <3>2. \E d \in some : \A e \in some : d <= e
      BY <1>7, <3>1, LeastOf
    <3> QED
      BY <3>2
  <2> DEFINE k == Head(bucketArray[c])
  <2> HIDE DEF c
  <2>3. c \in 0..(n - 1) /\ c >= b /\ bucketArray[c] # <<>>
    BY <1>1, <2>2
  <2> HIDE DEF some
  <2>4. /\ k \in On(bucketArray[c])
        /\ After(bucketArray[c], k) = On(bucketArray[c]) \ {k}
    BY <1>1, <2>3, AfterHead
  <2>5. k \in K /\ H(k) = c
    BY <1>1, <2>3, <2>4
  <2> HIDE DEF k
  <2>6. k \in Rest
    BY <1>3, <2>3, <2>5
  <2>7. Later(bucketArray, n, K, k) = ({j \in K : H(j) = c} \ {k}) \cup {j \in K : H(j) > c}
    BY <1>1, <2>3, <2>4, <2>5 DEF Later
  <2>8. Rest = {j \in K : H(j) = c} \cup {j \in K : H(j) > c}
    <3>1. ASSUME NEW j \in Rest
          PROVE  H(j) = c \/ H(j) > c
      <4>1. H(j) \in some /\ H(j) \in 0..(n - 1) /\ H(j) >= c
        BY <1>2, <1>3, <1>5, <2>2
      <4> HIDE DEF H
      <4> QED
        BY <2>3, <4>1
    <3>2. ASSUME NEW j \in K, H(j) = c \/ H(j) > c
          PROVE  j \in Rest
      <4>1. H(j) \in 0..(n - 1)
        BY <1>2
      <4> HIDE DEF H
      <4>2. H(j) >= b
        BY <2>3, <3>2, <4>1
      <4> QED
        BY <4>2, <1>3 DEF H
    <3>3. Rest \subseteq K
      BY <1>3
    <3> HIDE DEF H
    <3> QED
      BY <3>1, <3>2, <3>3
  <2>9. ~(H(k) > c)
    BY <2>3, <2>5
  <2>10. Later(bucketArray, n, K, k) = Rest \ {k}
    <3> HIDE DEF H
    <3> QED
      BY <2>7, <2>8, <2>9
  <2>11. Table!Return(i, Hash[k] % n, k)
    BY <2>1, <2>5 DEF k
  <2> QED
    BY <2>6, <2>10, <2>11
<1> QED
  BY <1>6, <1>7

LEMMA GetFirstPairPromise ==
  ASSUME TableInv, IterInv, NEW i \in Iterators, Table!hashTableGetFirst(i)
  PROVE  IterInv' /\ Map!GetFirst(i)
<1>1. bucketArray # NULL /\ iter[i] = NULL /\ Table!ReturnFrom(i, 0)
  BY DEF Table!hashTableGetFirst
<1>2. PICK n \in Table!TableSizes :
        /\ n \in Nat \ {0} /\ Placed(bucketArray, n, DOMAIN pairs) /\ Seen(n) /\ Settled(n)
        /\ DOMAIN pairs \in SUBSET Keys
        /\ pairs \in [DOMAIN pairs -> [key : Copies, value : Pointers]]
  BY <1>1, TableNow
<1>3. i \notin shuffled
  BY <1>1, <1>2 DEF Settled
<1>4. MapSeen = pairs /\ MapSeen # NULL /\ Iterations[i] = NULL
  BY <1>1, <1>2 DEF Seen
<1>5. \A j \in DOMAIN pairs : j \in DOMAIN pairs <=> Hash[j] % n >= 0
  <2>1. ASSUME NEW j \in DOMAIN pairs
        PROVE  Hash[j] % n >= 0
    <3>1. Hash[j] % n \in 0..(n - 1)
      BY <1>2, HashedTo
    <3> QED
      BY <3>1
  <2> QED
    BY <2>1
<1>6. \/ DOMAIN pairs = {} /\ Table!Return(i, 0, NULL)
      \/ \E k \in DOMAIN pairs : /\ Table!Return(i, Hash[k] % n, k)
                                 /\ Later(bucketArray, n, DOMAIN pairs, k) = DOMAIN pairs \ {k}
  <2>1. 0 \in Nat /\ DOMAIN pairs \in SUBSET DOMAIN pairs
    OBVIOUS
  <2>2. PICK Rest \in SUBSET DOMAIN pairs : Rest = DOMAIN pairs
    BY <2>1
  <2>3. \A j \in DOMAIN pairs : j \in Rest <=> Hash[j] % n >= 0
    BY <1>5, <2>2
  <2>4. \/ Rest = {} /\ Table!Return(i, 0, NULL)
        \/ \E k \in Rest : /\ Table!Return(i, Hash[k] % n, k)
                           /\ Later(bucketArray, n, DOMAIN pairs, k) = Rest \ {k}
    BY <1>1, <1>2, <2>1, <2>3, FromBucket
  <2> QED
    BY <2>2, <2>4
<1>7. pairs = Map!None <=> DOMAIN pairs = {}
  BY <1>2 DEF Map!None
<1>8. CASE DOMAIN pairs = {} /\ Table!Return(i, 0, NULL)
  <2>1. IterInv' /\ Map!Ends(i)
    BY <1>1, <1>8, EndPromise
  <2> QED
    BY <1>4, <1>7, <1>8, <2>1 DEF Map!GetFirst
<1>9. ASSUME NEW k \in DOMAIN pairs, Table!Return(i, Hash[k] % n, k),
             Later(bucketArray, n, DOMAIN pairs, k) = DOMAIN pairs \ {k}
      PROVE  IterInv' /\ Map!GetFirst(i)
  <2>1. Hash[k] % n \in Nat
    <3>1. Hash[k] % n \in 0..(n - 1)
      BY <1>2, HashedTo
    <3> QED
      BY <3>1
  <2>2. IterInv' /\ Map!Returns(i, k, DOMAIN pairs \ {k}, TRUE)
    <3>1. IterInv' /\ Map!Returns(i, k, Later(bucketArray, n, DOMAIN pairs, k), TRUE)
      BY <1>1, <1>2, <1>3, <1>9, <2>1, ReturnPromise
    <3> QED
      BY <3>1, <1>9
  <2>3. \E j \in DOMAIN pairs : Map!Returns(i, j, DOMAIN pairs \ {j}, TRUE)
    BY <2>2
  <2>4. pairs # Map!None
    BY <1>7
  <2> QED
    BY <1>4, <2>2, <2>3, <2>4, Zenon DEF Map!GetFirst
<1> QED
  BY <1>6, <1>8, <1>9

LEMMA GetNextPairPromise ==
  ASSUME TableInv, IterInv, NEW i \in Iterators, Table!hashTableGetNext(i)
  PROVE  IterInv' /\ Map!GetNext(i)
<1> DEFINE p == iter[i].pair
           b == iter[i].bucket
           K == DOMAIN pairs
           L == Later(bucketArray, Table!numOfBuckets, K, p)
<1>1. bucketArray # NULL /\ iter[i] # NULL
  BY DEF Table!hashTableGetNext
<1>2. PICK n \in Table!TableSizes :
        /\ n \in Nat \ {0} /\ Placed(bucketArray, n, K) /\ Seen(n) /\ Settled(n)
        /\ K \in SUBSET Keys /\ NULL \notin K /\ Table!Dangling \notin K
  BY <1>1, TableNow
<1>3. p \in K \cup {Table!Dangling} /\ b \in Nat
  BY <1>1, <1>2 DEF Settled
<1>4. /\ Iterations[i] # NULL
      /\ Iterations[i] = IterationView(iter[i], i \in shuffled, Later(bucketArray, n, K, p))
      /\ MapSeen = pairs /\ Table!numOfBuckets = n
      /\ \A k \in Keys : Table!Bucket(k) = Hash[k] % n
  <2>1. Table!numOfBuckets = n
    BY <1>1, <1>2, Zenon DEF Seen, BucketsSeen
  <2> QED
    BY <1>1, <1>2, <2>1 DEF Seen
<1>5. CASE p = Table!Dangling
  <2>1. /\ tableCrashed' = TRUE
        /\ UNCHANGED <<Table!table, iter, tableResult, shuffled>>
    BY <1>5, Zenon DEF Table!hashTableGetNext
  <2>2. IterInv' /\ UNCHANGED <<MapSeen, BucketsSeen, Iterations>>
    BY <2>1, IterationsRest
  <2>3. Iterations[i].on = Map!Lost
    BY <1>1, <1>4, <1>5 DEF IterationView, Map!Lost
  <2> QED
    BY <1>4, <2>1, <2>2, <2>3 DEF Map!GetNext
<1>6. CASE p # Table!Dangling
  <2> DEFINE c == bucketArray[Hash[p] % n]
             index == IndexOf(c, p)
             next1 == IF index = Len(c) THEN NULL ELSE c[index + 1]
             La(k) == Later(bucketArray, n, K, k)
             Beyond == {j \in K : Hash[j] % n >= b + 1}
  <2>1. p \in K /\ p \in Keys /\ p # "lost"
    BY <1>2, <1>3, <1>6, NullIs
  <2>2. Table!NextInChain(p) = next1
    <3>1. Table!Bucket(p) = Hash[p] % n
      BY <1>4, <2>1
    <3> QED
      BY <3>1, Zenon DEF Table!NextInChain, IndexOf
  <2>3. /\ Iterations[i].on = p /\ p # Map!Lost
        /\ i \notin shuffled => Iterations[i].exact /\ Iterations[i].todo = La(p)
        /\ i \in shuffled => ~Iterations[i].exact
    <3>1. Iterations[i] = [on |-> p, todo |-> IF i \in shuffled THEN {} ELSE La(p), exact |-> i \notin shuffled]
      BY <1>1, <1>4, <1>6 DEF IterationView
    <3> HIDE DEF p, La
    <3>2. i \notin shuffled => Iterations[i] = [on |-> p, todo |-> La(p), exact |-> TRUE]
      BY <3>1
    <3>3. i \in shuffled => Iterations[i] = [on |-> p, todo |-> {}, exact |-> FALSE]
      BY <3>1
    <3>4. p # Map!Lost
      BY <2>1 DEF Map!Lost
    <3> QED
      BY <3>2, <3>3, <3>4
  <2>4. \/ b >= n /\ Table!Return(i, 0, NULL)
        \/ ~(b >= n) /\ next1 # NULL /\ Table!Return(i, b, next1)
        \/ ~(b >= n) /\ next1 = NULL /\ Table!ReturnFrom(i, b + 1)
    <3> HIDE DEF next1
    <3> QED
      BY <1>4, <1>6, <2>2, Zenon DEF Table!hashTableGetNext
  <2>5. /\ index = Len(c) => La(p) = {j \in K : Hash[j] % n > Hash[p] % n}
        /\ index # Len(c) => /\ c[index + 1] \in K /\ Hash[c[index + 1]] % n = Hash[p] % n
                             /\ c[index + 1] \in La(p)
                             /\ La(c[index + 1]) = La(p) \ {c[index + 1]}
    <3>1. index = IndexOf(bucketArray[Hash[p] % n], p) /\ c = bucketArray[Hash[p] % n]
      OBVIOUS
    <3> HIDE DEF index, p
    <3> QED
      BY <1>2, <2>1, <3>1, LaterInChain
  <2> HIDE DEF index, c
  <2>6. /\ next1 = NULL => La(p) = {j \in K : Hash[j] % n > Hash[p] % n}
        /\ next1 # NULL => /\ next1 \in K /\ Hash[next1] % n = Hash[p] % n
                           /\ next1 \in La(p) /\ La(next1) = La(p) \ {next1}
    <3>1. index = Len(c) <=> next1 = NULL
      BY <1>2, <2>5
    <3>2. index # Len(c) => next1 = c[index + 1]
      OBVIOUS
    <3> HIDE DEF next1, La
    <3> QED
      BY <2>5, <3>1, <3>2
  <2> HIDE DEF next1
  <2>7. i \notin shuffled => b = Hash[p] % n /\ b \in 0..(n - 1)
    <3>1. Hash[p] % n \in 0..(n - 1)
      BY <1>2, <2>1, HashedTo
    <3> QED
      BY <1>1, <1>2, <1>6, <3>1 DEF Settled
  <2>8. i \notin shuffled /\ next1 = NULL => La(p) = Beyond
    <3>1. \A j \in K : Hash[j] % n \in 0..(n - 1)
      BY <1>2, HashedTo
    <3> DEFINE H(j) == Hash[j] % n
    <3> HIDE DEF H
    <3>2. b \in Nat /\ \A j \in K : H(j) \in 0..(n - 1)
      BY <1>3, <3>1 DEF H
    <3> HIDE DEF b
    <3>3. {j \in K : H(j) > b} = {j \in K : H(j) >= b + 1}
      BY <3>2
    <3> QED
      BY <2>6, <2>7, <3>3 DEF H
  \* What comes of a pair that is returned, and of none.
  <2>9. ASSUME Table!Return(i, 0, NULL), i \notin shuffled => La(p) = {}
        PROVE  IterInv' /\ Map!GetNext(i)
    <3>1. IterInv' /\ Map!Ends(i)
      BY <1>1, <2>9, EndPromise
    <3> HIDE DEF La
    <3>2. Map!GetNext(i)
      BY <1>4, <2>3, <2>9, <3>1 DEF Map!GetNext
    <3> QED
      BY <3>1, <3>2
  <2>10. ASSUME NEW d \in Nat, NEW k \in K, Table!Return(i, d, k),
                i \notin shuffled => d = Hash[k] % n /\ k \in La(p) /\ La(k) = La(p) \ {k}
         PROVE  IterInv' /\ Map!GetNext(i)
    <3>1. /\ IterInv'
          /\ i \notin shuffled => Map!Returns(i, k, La(k), TRUE)
          /\ i \in shuffled => Map!Returns(i, k, {}, FALSE)
      BY <1>1, <1>2, <2>10, ReturnPromise
    <3> HIDE DEF La
    <3>2. CASE i \notin shuffled
      <4>1. Map!Returns(i, k, La(p) \ {k}, TRUE) /\ k \in La(p)
        BY <2>10, <3>1, <3>2
      <4>2. Iterations[i].todo # {} /\ \E j \in Iterations[i].todo : Map!Returns(i, j, Iterations[i].todo \ {j}, TRUE)
        BY <2>3, <3>2, <4>1
      <4>3. Map!GetNext(i)
        BY <1>4, <2>3, <3>2, <4>2, Zenon DEF Map!GetNext
      <4> QED
        BY <3>1, <4>3
    <3>3. CASE i \in shuffled
      <4>1. \E j \in DOMAIN MapSeen : Map!Returns(i, j, {}, FALSE)
        BY <1>4, <3>1, <3>3
      <4>2. Map!GetNext(i)
        BY <1>4, <2>3, <3>3, <4>1, Zenon DEF Map!GetNext
      <4> QED
        BY <3>1, <4>2
    <3> QED
      BY <3>2, <3>3
  <2>11. CASE b >= n /\ Table!Return(i, 0, NULL)
    <3>1. i \in shuffled
      BY <1>2, <2>7, <2>11
    <3> QED
      BY <2>9, <2>11, <3>1
  <2>12. CASE next1 # NULL /\ Table!Return(i, b, next1)
    <3> HIDE DEF b, La
    <3> QED
      BY <1>3, <2>6, <2>7, <2>10, <2>12
  <2>13. CASE next1 = NULL /\ Table!ReturnFrom(i, b + 1)
    <3>1. b + 1 \in Nat
      BY <1>3
    <3>2. \/ Beyond = {} /\ Table!Return(i, 0, NULL)
          \/ \E k \in Beyond : /\ Table!Return(i, Hash[k] % n, k)
                               /\ Later(bucketArray, n, K, k) = Beyond \ {k}
      <4>1. Beyond \in SUBSET K /\ \A j \in K : j \in Beyond <=> Hash[j] % n >= b + 1
        OBVIOUS
      <4> HIDE DEF Beyond, b
      <4> QED
        BY <1>2, <2>13, <3>1, <4>1, FromBucket
    <3>3. \A k \in K : Hash[k] % n \in Nat
      <4>1. \A k \in K : Hash[k] % n \in 0..(n - 1)
        BY <1>2, HashedTo
      <4> QED
        BY <4>1
    <3>4. Beyond \subseteq K
      OBVIOUS
    <3> HIDE DEF Beyond
    <3>5. CASE Beyond = {} /\ Table!Return(i, 0, NULL)
      BY <2>8, <2>9, <2>13, <3>5
    <3>6. ASSUME NEW k \in Beyond, Table!Return(i, Hash[k] % n, k), La(k) = Beyond \ {k}
          PROVE  IterInv' /\ Map!GetNext(i)
      <4> HIDE DEF La
      <4> QED
        BY <2>8, <2>10, <2>13, <3>3, <3>4, <3>6
    <3> QED
      BY <3>2, <3>5, <3>6
  <2> QED
    BY <2>4, <2>11, <2>12, <2>13
<1> QED
  BY <1>5, <1>6

\* What the loop of HashTableRehash does to chains and iterators.
LEMMA RehashIs ==
  ASSUME NEW n \in Table!TableSizes, NEW m \in Table!TableSizes,
         NEW array, NEW K \in SUBSET Keys, Placed(array, n, K),
         Table!RehashTo(array, m)
  PROVE  /\ Placed(bucketArray', m, K)
         /\ m = n => bucketArray' = array /\ shuffled' = shuffled
         /\ m # n => shuffled' = {i \in Iterators : iter[i] # NULL}
<1>1. n \in Nat \ {0} /\ m \in Nat \ {0}
  BY SizesAre
<1>2. Table!Cardinality(DOMAIN array) = n
  BY <1>1, PlacedArray, SameCardinality
<1>3. CASE m = n
  <2>1. bucketArray' = array /\ shuffled' = shuffled
    BY <1>2, <1>3 DEF Table!RehashTo
  <2> QED
    BY <1>3, <2>1
<1>4. CASE m # n
  <2>1. bucketArray' = Table!Rehashed(array, m) /\ shuffled' = {i \in Iterators : iter[i] # NULL}
    BY <1>2, <1>4 DEF Table!RehashTo
  <2> QED
    BY <1>1, <1>4, <2>1, RehashedPlaces
<1> QED
  BY <1>3, <1>4

\* An iteration, and what a call makes of it: a key is removed or put, all are
\* removed.  Exact and Loose are those no rehash met, and the others.
Shows(o, t, e) == [on |-> o, todo |-> t, exact |-> e]
Exact(o, t) == Shows(o, t, TRUE)
Loose(o) == Shows(o, {}, FALSE)

LessOf(it, k) == IF it.on = k THEN [it EXCEPT !.on = Map!Lost, !.todo = {}] ELSE [it EXCEPT !.todo = @ \ {k}]
MoreOf(it, k) == [it EXCEPT !.todo = @ \cup {k}]
OverOf(it) == [it EXCEPT !.exact = @ /\ BucketsSeen = 5, !.on = Map!Lost, !.todo = {}]

LEMMA LessShown ==
  ASSUME NEW o, NEW t, NEW e \in BOOLEAN, NEW k, o # k
  PROVE  LessOf(Shows(o, t, e), k) = Shows(o, t \ {k}, e)
<1>1. Shows(o, t, e).on = o /\ Shows(o, t, e).todo = t
  BY DEF Shows
<1>2. [Shows(o, t, e) EXCEPT !.todo = t \ {k}] = Shows(o, t \ {k}, e)
  BY DEF Shows
<1>3. [Shows(o, t, e) EXCEPT !.todo = @ \ {k}] = Shows(o, t \ {k}, e)
  BY <1>1, <1>2
<1> QED
  BY <1>1, <1>3 DEF LessOf

LEMMA GoneShown ==
  ASSUME NEW t, NEW e \in BOOLEAN, NEW k
  PROVE  LessOf(Shows(k, t, e), k) = Shows("lost", {}, e)
<1>1. Shows(k, t, e).on = k
  BY DEF Shows
<1>2. [Shows(k, t, e) EXCEPT !.on = "lost"] = Shows("lost", t, e)
  BY DEF Shows
<1>3. [Shows("lost", t, e) EXCEPT !.todo = {}] = Shows("lost", {}, e)
  BY DEF Shows
<1>4. [Shows(k, t, e) EXCEPT !.on = Map!Lost, !.todo = {}] = Shows("lost", {}, e)
  BY <1>2, <1>3 DEF Map!Lost
<1> QED
  BY <1>1, <1>4 DEF LessOf

LEMMA GoneIs ==
  ASSUME NEW t, NEW k
  PROVE  LessOf(Exact(k, t), k) = Exact("lost", {}) /\ LessOf(Loose(k), k) = Loose("lost")
<1>1. TRUE \in BOOLEAN /\ FALSE \in BOOLEAN
  OBVIOUS
<1> QED
  BY <1>1, GoneShown, Zenon DEF Exact, Loose

LEMMA LessIs ==
  ASSUME NEW o, NEW t, NEW k, o # k
  PROVE  LessOf(Exact(o, t), k) = Exact(o, t \ {k}) /\ LessOf(Loose(o), k) = Loose(o)
<1>1. {} \ {k} = {} /\ TRUE \in BOOLEAN /\ FALSE \in BOOLEAN
  OBVIOUS
<1>2. \A e \in BOOLEAN : \A s : LessOf(Shows(o, s, e), k) = Shows(o, s \ {k}, e)
  BY LessShown
<1>3. LessOf(Shows(o, t, TRUE), k) = Shows(o, t \ {k}, TRUE)
  BY <1>1, <1>2, Zenon
<1>4. LessOf(Shows(o, {}, FALSE), k) = Shows(o, {}, FALSE)
  BY <1>1, <1>2, Zenon
<1> QED
  BY <1>3, <1>4, Zenon DEF Exact, Loose

\* An iterator on a pair that stays, or on none.
LEMMA LessStays ==
  ASSUME NEW o, NEW t, NEW k \in Keys, o # k
  PROVE  /\ LessOf(Loose("lost"), k) = Loose("lost") /\ LessOf(Exact("lost", {}), k) = Exact("lost", {})
         /\ LessOf(Exact(o, t), k) = Exact(o, t \ {k}) /\ LessOf(Loose(o), k) = Loose(o)
<1>1. "lost" # k /\ {} \ {k} = {}
  BY NullIs
<1>2. LessOf(Loose("lost"), k) = Loose("lost") /\ LessOf(Exact("lost", {}), k) = Exact("lost", {} \ {k})
  <2>1. PICK l : l = "lost"
    OBVIOUS
  <2>2. LessOf(Exact(l, {}), k) = Exact(l, {} \ {k}) /\ LessOf(Loose(l), k) = Loose(l)
    <3>1. l # k
      BY <1>1, <2>1
    <3> QED
      BY <3>1, LessIs
  <2> QED
    BY <2>1, <2>2
<1>3. LessOf(Exact(o, t), k) = Exact(o, t \ {k}) /\ LessOf(Loose(o), k) = Loose(o)
  BY LessIs
<1> QED
  BY <1>1, <1>2, <1>3, Zenon

LEMMA MoreIs ==
  ASSUME NEW o, NEW t, NEW k
  PROVE  MoreOf(Exact(o, t), k) = Exact(o, t \cup {k})
<1>1. ASSUME NEW e \in BOOLEAN
      PROVE  MoreOf(Shows(o, t, e), k) = Shows(o, t \cup {k}, e)
  <2>1. Shows(o, t, e).todo = t
    BY DEF Shows
  <2>2. [Shows(o, t, e) EXCEPT !.todo = t \cup {k}] = Shows(o, t \cup {k}, e)
    BY DEF Shows
  <2> QED
    BY <2>1, <2>2 DEF MoreOf
<1>2. TRUE \in BOOLEAN
  OBVIOUS
<1> QED
  BY <1>1, <1>2, Zenon DEF Exact

LEMMA ShuffledIs ==
  ASSUME NEW o, NEW t
  PROVE  Map!Shuffled(Exact(o, t)) = Loose(o) /\ Map!Shuffled(Loose(o)) = Loose(o)
<1>1. ASSUME NEW s, NEW e \in BOOLEAN
      PROVE  Map!Shuffled(Shows(o, s, e)) = Shows(o, {}, FALSE)
  <2>0. PICK f \in BOOLEAN : f = FALSE
    BY Zenon
  <2>1. [Shows(o, s, e) EXCEPT !.exact = f] = Shows(o, s, f)
    BY DEF Shows
  <2>2. [Shows(o, s, f) EXCEPT !.todo = {}] = Shows(o, {}, f)
    BY DEF Shows
  <2>3. [Shows(o, s, e) EXCEPT !.exact = f, !.todo = {}] = Shows(o, {}, f)
    BY <2>1, <2>2
  <2> QED
    BY <2>0, <2>3, Zenon DEF Map!Shuffled
<1>2. TRUE \in BOOLEAN /\ FALSE \in BOOLEAN
  OBVIOUS
<1> QED
  BY <1>1, <1>2, Zenon DEF Exact, Loose

LEMMA OverIs ==
  ASSUME NEW o, NEW t
  PROVE  /\ OverOf(Loose(o)) = Loose("lost")
         /\ BucketsSeen = 5 => OverOf(Exact(o, t)) = Exact("lost", {})
         /\ BucketsSeen # 5 => OverOf(Exact(o, t)) = Loose("lost")
<1>1. ASSUME NEW s, NEW e \in BOOLEAN, NEW f \in BOOLEAN, f = (e /\ BucketsSeen = 5)
      PROVE  OverOf(Shows(o, s, e)) = Shows("lost", {}, f)
  <2>1. Shows(o, s, e).exact = e
    BY DEF Shows
  <2>2. [Shows(o, s, e) EXCEPT !.exact = f] = Shows(o, s, f)
    BY DEF Shows
  <2>3. [Shows(o, s, f) EXCEPT !.on = "lost"] = Shows("lost", s, f)
    BY DEF Shows
  <2>4. [Shows("lost", s, f) EXCEPT !.todo = {}] = Shows("lost", {}, f)
    BY DEF Shows
  <2>5. [Shows(o, s, e) EXCEPT !.exact = f, !.on = Map!Lost, !.todo = {}] = Shows("lost", {}, f)
    BY <2>2, <2>3, <2>4 DEF Map!Lost
  <2>6. OverOf(Shows(o, s, e)) = [Shows(o, s, e) EXCEPT !.exact = f, !.on = Map!Lost, !.todo = {}]
    <3>1. (Shows(o, s, e).exact /\ BucketsSeen = 5) = f
      BY <1>1, <2>1, Zenon
    <3> QED
      BY <3>1, Zenon DEF OverOf
  <2> QED
    BY <2>5, <2>6
<1>2. /\ FALSE = (FALSE /\ BucketsSeen = 5) /\ FALSE \in BOOLEAN /\ TRUE \in BOOLEAN
      /\ BucketsSeen = 5 => TRUE = (TRUE /\ BucketsSeen = 5)
      /\ BucketsSeen # 5 => FALSE = (TRUE /\ BucketsSeen = 5)
  OBVIOUS
<1>3. OverOf(Loose(o)) = Loose("lost")
  BY <1>1, <1>2, Zenon DEF Loose
<1>4. BucketsSeen = 5 => OverOf(Exact(o, t)) = Exact("lost", {})
  BY <1>1, <1>2, Zenon DEF Exact
<1>5. BucketsSeen # 5 => OverOf(Exact(o, t)) = Loose("lost")
  BY <1>1, <1>2, Zenon DEF Exact, Loose
<1> QED
  BY <1>3, <1>4, <1>5

\* What is seen of the iterators that were neither freed nor ended.
Showing(n) == \A i \in Iterators : iter[i] # NULL =>
  /\ iter[i].pair = Table!Dangling /\ i \in shuffled => Iterations[i] = Loose("lost")
  /\ iter[i].pair = Table!Dangling /\ i \notin shuffled => Iterations[i] = Exact("lost", {})
  /\ iter[i].pair # Table!Dangling /\ i \in shuffled => Iterations[i] = Loose(iter[i].pair)
  /\ iter[i].pair # Table!Dangling /\ i \notin shuffled =>
       Iterations[i] = Exact(iter[i].pair, Later(bucketArray, n, DOMAIN pairs, iter[i].pair))

LEMMA ShowingIs == \A n : Seen(n) => Showing(n)
<1> SUFFICES ASSUME NEW n, Seen(n), NEW i \in Iterators, iter[i] # NULL
             PROVE  /\ iter[i].pair = Table!Dangling /\ i \in shuffled => Iterations[i] = Loose("lost")
                    /\ iter[i].pair = Table!Dangling /\ i \notin shuffled => Iterations[i] = Exact("lost", {})
                    /\ iter[i].pair # Table!Dangling /\ i \in shuffled => Iterations[i] = Loose(iter[i].pair)
                    /\ iter[i].pair # Table!Dangling /\ i \notin shuffled =>
                         Iterations[i] = Exact(iter[i].pair, Later(bucketArray, n, DOMAIN pairs, iter[i].pair))
  BY Zenon DEF Showing
<1> DEFINE L == Later(bucketArray, n, DOMAIN pairs, iter[i].pair)
<1>1. Iterations[i] = IterationView(iter[i], i \in shuffled, L)
  BY DEF Seen
<1> HIDE DEF L
<1>2. Iterations[i] = Shows(IF iter[i].pair = Table!Dangling THEN "lost" ELSE iter[i].pair,
                            IF iter[i].pair = Table!Dangling \/ i \in shuffled THEN {} ELSE L, ~(i \in shuffled))
  BY <1>1, Zenon DEF IterationView, Shows
<1>3. CASE i \in shuffled
  <2>1. (~(i \in shuffled)) = FALSE
    BY <1>3
  <2>2. (IF iter[i].pair = Table!Dangling \/ i \in shuffled THEN {} ELSE L) = {}
    BY <1>3
  <2>3. Iterations[i] = Loose(IF iter[i].pair = Table!Dangling THEN "lost" ELSE iter[i].pair)
    BY <1>2, <2>1, <2>2, Zenon DEF Loose
  <2> QED
    BY <1>3, <2>3, Zenon
<1>4. CASE i \notin shuffled
  <2>1. (~(i \in shuffled)) = TRUE
    BY <1>4
  <2>2. Iterations[i] = Exact(IF iter[i].pair = Table!Dangling THEN "lost" ELSE iter[i].pair,
                              IF iter[i].pair = Table!Dangling \/ i \in shuffled THEN {} ELSE L)
    BY <1>2, <2>1, Zenon DEF Exact
  <2> QED
    BY <1>4, <2>2, Zenon DEF L
<1> QED
  BY <1>3, <1>4, Zenon

LEMMA ShowingNext == (\A n : Seen(n) => Showing(n))'
BY ShowingIs, PTL

\* Iterators of a table that has other buckets now.
LEMMA RehashedPromise ==
  ASSUME TableInv, IterInv, TableInv', NEW n \in Table!TableSizes, Placed(bucketArray, n, DOMAIN pairs),
         NEW m \in Table!TableSizes, m # n, Placed(bucketArray', m, DOMAIN pairs'),
         DOMAIN pairs \subseteq DOMAIN pairs',
         iter' = iter, shuffled' = {i \in Iterators : iter[i] # NULL}
  PROVE  IterInv' /\ Seen(m)' /\ Map!Rehashed(m)
<1>1. Seen(n) /\ Settled(n)
  BY TableSeenIs, SettledIs DEF TableSeen
<1>2. Settled(m)'
  <2>1. iter' \in [Iterators -> {NULL} \cup [bucket : Nat, pair : DOMAIN pairs' \cup {Table!Dangling}]]
    <3>1. [bucket : Nat, pair : DOMAIN pairs \cup {Table!Dangling}]
            \subseteq [bucket : Nat, pair : DOMAIN pairs' \cup {Table!Dangling}]
      OBVIOUS
    <3>2. iter \in [Iterators -> {NULL} \cup [bucket : Nat, pair : DOMAIN pairs \cup {Table!Dangling}]]
      BY <1>1 DEF Settled
    <3> QED
      BY <3>1, <3>2
  <2> QED
    BY <2>1 DEF Settled
<1>3. IterInv' /\ Seen(m)'
  BY <1>2, SettledNext
<1>4. Showing(n) /\ Showing(m)'
  BY <1>1, <1>3, ShowingIs, ShowingNext
<1>5. ASSUME NEW i \in Iterators
      PROVE  Iterations'[i] = IF i \in Map!Going THEN Map!Shuffled(Iterations[i]) ELSE Iterations[i]
  <2>0. i \in Map!Going <=> iter[i] # NULL
    BY <1>1 DEF Seen, Map!Going
  <2>1. CASE iter[i] = NULL
    <3>1. Iterations[i] = NULL /\ Iterations'[i] = NULL
      BY <1>1, <1>3, <2>1 DEF Seen
    <3> QED
      BY <2>0, <2>1, <3>1
  <2>2. CASE iter[i] # NULL
    <3>1. i \in shuffled' /\ iter'[i] = iter[i]
      BY <2>2
    <3>2. Iterations'[i] = Map!Shuffled(Iterations[i])
      BY <1>4, <2>2, <3>1, ShuffledIs DEF Showing
    <3> QED
      BY <2>0, <2>2, <3>2
  <2> QED
    BY <2>1, <2>2
<1>6. Iterations' = [i \in Iterators |-> IF i \in Map!Going THEN Map!Shuffled(Iterations[i]) ELSE Iterations[i]]
  <2> HIDE DEF Iterations, Map!Going
  <2> QED
    BY <1>5, EachIteration
<1>7. BucketsSeen' = m /\ BucketsSeen = n
  BY <1>1, <1>3 DEF Seen
<1>8. Map!Rehashed(m)
  BY <1>6, <1>7, Zenon DEF Map!Rehashed, Map!Each
<1> QED
  BY <1>3, <1>8

LEMMA IdealIs ==
  ASSUME TableInv
  PROVE  /\ numOfElements \in 0..Cardinality(Keys) /\ numOfElements = Map!Cardinality(DOMAIN pairs)
         /\ Table!IdealNumOfBuckets(numOfElements) \in Table!TableSizes
         /\ \A k \in Keys \ DOMAIN pairs :
              /\ numOfElements + 1 \in 0..Cardinality(Keys)
              /\ Table!IdealNumOfBuckets(numOfElements + 1) \in Table!TableSizes
              /\ ~(numOfElements + 1 > UpperRehashThreshold * Table!IdealNumOfBuckets(numOfElements + 1))
<1>1. DOMAIN pairs \in SUBSET Keys /\ numOfElements = Cardinality(DOMAIN pairs)
  BY DEF TableInv, TableTypes, ChainsHold
<1>2. numOfElements \in 0..Cardinality(Keys) /\ numOfElements = Map!Cardinality(DOMAIN pairs)
  BY <1>1, KeysFinite, SameCounts
<1>3. ASSUME NEW k \in Keys \ DOMAIN pairs
      PROVE  numOfElements + 1 \in 0..Cardinality(Keys)
  <2>1. DOMAIN pairs \cup {k} \in SUBSET Keys
    BY <1>1
  <2>2. Cardinality(DOMAIN pairs \cup {k}) = numOfElements + 1
    BY <1>1, KeysFinite, FS_AddElement
  <2> QED
    BY <2>1, <2>2, <1>2, KeysFinite
<1>4. \A m \in 0..Cardinality(Keys) :
        ~(m > UpperRehashThreshold * Table!IdealNumOfBuckets(m))
  BY TablesAssumption, SameCardinality DEF Table!MapAssumption
<1> QED
  BY <1>2, <1>3, <1>4, SizesAre

LEMMA RehashPromise ==
  ASSUME TableInv, IterInv, NEW m \in BucketCounts \cup {0}, Table!HashTableRehash(m)
  PROVE  IterInv' /\ Map!Rehash(m)
<1> DEFINE size == IF m = 0 THEN Table!IdealNumOfBuckets(numOfElements) ELSE m
<1>1. /\ bucketArray # NULL /\ Table!RehashTo(bucketArray, size)
      /\ UNCHANGED <<numOfElements, pairs, allocated, iter, tableResult, tableCrashed>>
  BY DEF Table!HashTableRehash
<1>2. size \in Table!TableSizes
  BY IdealIs, SizesAre
<1>10. PICK s \in Table!TableSizes : s = size
  BY <1>2
<1>3. PICK n \in Table!TableSizes :
        /\ Placed(bucketArray, n, DOMAIN pairs) /\ Seen(n) /\ Settled(n)
        /\ DOMAIN pairs \in SUBSET Keys
  BY <1>1, TableNow
<1>4. size = IF m = 0 THEN Table!IdealNumOfBuckets(Map!Cardinality(DOMAIN MapSeen)) ELSE m
  BY <1>3, IdealIs DEF Seen
<1>5. TableInv'
  BY RehashInv
<1> HIDE DEF size
<1>6. /\ Placed(bucketArray', size, DOMAIN pairs')
      /\ size = n => bucketArray' = bucketArray /\ shuffled' = shuffled
      /\ size # n => shuffled' = {i \in Iterators : iter[i] # NULL}
  BY <1>1, <1>2, <1>3, RehashIs
<1>7. MapSeen = pairs /\ MapSeen # NULL /\ BucketsSeen = n
  BY <1>3 DEF Seen
<1>8. CASE size = n
  <2>1. UNCHANGED <<Table!table, iter, shuffled>>
    BY <1>1, <1>6, <1>8 DEF Table!table
  <2>2. IterInv' /\ UNCHANGED <<MapSeen, BucketsSeen, Iterations>>
    BY <2>1, IterationsRest
  <2>3. Map!Rehashed(size)
    BY <1>7, <1>8, <2>2, Zenon DEF Map!Rehashed
  <2> QED
    BY <1>1, <1>4, <1>7, <2>2, <2>3 DEF Map!Rehash
<1>9. CASE size # n
  <2>1. IterInv' /\ Seen(s)' /\ Map!Rehashed(s)
    <3>1. /\ s # n /\ Placed(bucketArray', s, DOMAIN pairs')
          /\ DOMAIN pairs \subseteq DOMAIN pairs' /\ iter' = iter
          /\ shuffled' = {i \in Iterators : iter[i] # NULL}
      BY <1>1, <1>6, <1>9, <1>10
    <3> QED
      BY <1>3, <1>5, <3>1, RehashedPromise
  <2>2. MapSeen' = MapSeen
    BY <1>1, <1>7, <2>1 DEF Seen
  <2>3. Map!Rehashed(size)
    BY <1>10, <2>1, Zenon
  <2> QED
    BY <1>1, <1>4, <1>7, <2>1, <2>2, <2>3 DEF Map!Rehash
<1> QED
  BY <1>8, <1>9

\* Pairs are freed, and an iterator on one of them is lost.
LEMMA FreedSettles ==
  ASSUME NEW n \in Nat, Settled(n), DOMAIN pairs \in SUBSET Keys, NEW S \in SUBSET DOMAIN pairs, Table!Freed(S)
  PROVE  /\ DOMAIN pairs' = DOMAIN pairs \ S /\ pairs' = [k \in DOMAIN pairs \ S |-> pairs[k]]
         /\ iter' \in [Iterators -> {NULL} \cup [bucket : Nat, pair : DOMAIN pairs' \cup {Table!Dangling}]]
         /\ \A i \in Iterators :
              /\ iter'[i] = NULL <=> iter[i] = NULL
              /\ iter[i] # NULL => iter'[i].pair = IF iter[i].pair \in S THEN Table!Dangling ELSE iter[i].pair
              /\ iter[i] # NULL /\ iter[i].pair \notin S => iter'[i] = iter[i]
              /\ iter[i] # NULL => iter[i].pair \in DOMAIN pairs \cup {Table!Dangling}
<1>1. /\ DOMAIN pairs' = DOMAIN pairs \ S /\ pairs' = [k \in DOMAIN pairs \ S |-> pairs[k]]
      /\ iter' = [i \in Iterators |->
                   IF iter[i] # NULL /\ iter[i].pair \in S THEN [iter[i] EXCEPT !.pair = Table!Dangling]
                   ELSE iter[i]]
  BY DEF Table!Freed
<1>2. ASSUME NEW i \in Iterators
      PROVE  /\ iter'[i] \in {NULL} \cup [bucket : Nat, pair : DOMAIN pairs' \cup {Table!Dangling}]
             /\ iter'[i] = NULL <=> iter[i] = NULL
             /\ iter[i] # NULL => iter'[i].pair = IF iter[i].pair \in S THEN Table!Dangling ELSE iter[i].pair
             /\ iter[i] # NULL /\ iter[i].pair \notin S => iter'[i] = iter[i]
             /\ iter[i] # NULL => iter[i].pair \in DOMAIN pairs \cup {Table!Dangling}
  <2>1. CASE iter[i] = NULL
    BY <1>1, <2>1
  <2>2. CASE iter[i] # NULL
    <3>1. iter[i] \in [bucket : Nat, pair : DOMAIN pairs \cup {Table!Dangling}]
      BY <2>2 DEF Settled
    <3>2. PICK b \in Nat, p \in DOMAIN pairs \cup {Table!Dangling} : iter[i] = [bucket |-> b, pair |-> p]
      BY <3>1
    <3>3. iter'[i] = [bucket |-> b, pair |-> IF p \in S THEN Table!Dangling ELSE p]
      BY <1>1, <2>2, <3>2
    <3>4. iter'[i] \in [bucket : Nat, pair : DOMAIN pairs' \cup {Table!Dangling}]
      BY <1>1, <3>2, <3>3
    <3>5. iter'[i] # NULL
      <4>1. iter'[i] \in [bucket : Nat, pair : Keys \cup {Table!Dangling}]
        BY <1>1, <3>4
      <4> QED
        BY <4>1, NullIs
    <3> QED
      BY <2>2, <3>2, <3>3, <3>4, <3>5
  <2> QED
    BY <2>1, <2>2
<1> QED
  BY <1>1, <1>2

LEMMA RemovePairPromise ==
  ASSUME TableInv, IterInv, NEW k \in Keys, Table!HashTableRemove(k)
  PROVE  IterInv' /\ Map!Remove(k)
<1>1. bucketArray # NULL /\ UNCHANGED <<tableResult, shuffled, tableCrashed>>
  BY DEF Table!HashTableRemove
<1>2. PICK n \in Table!TableSizes :
        /\ n \in Nat \ {0} /\ Placed(bucketArray, n, DOMAIN pairs) /\ Seen(n) /\ Settled(n)
        /\ DOMAIN pairs \in SUBSET Keys /\ Table!Dangling \notin DOMAIN pairs
        /\ pairs \in [DOMAIN pairs -> [key : Copies, value : Pointers]]
  BY <1>1, TableNow
<1>3. /\ Table!Bucket(k) = Hash[k] % n
      /\ Table!Found(k) <=> k \in DOMAIN pairs
  BY <1>2, FoundIs
<1>4. TableInv'
  BY RemoveInv
<1>5. /\ MapSeen = pairs /\ MapSeen # NULL /\ BucketsSeen = n /\ k # "lost" /\ k # Table!Dangling
      /\ Showing(n)
  BY <1>2, NullIs, ShowingIs DEF Seen
<1>6. \A i \in Iterators : iter[i] # NULL => iter[i].pair \in DOMAIN pairs \cup {Table!Dangling}
  BY <1>2 DEF Settled
<1>7. ASSUME IterInv', MapSeen' = [j \in DOMAIN MapSeen \ {k} |-> MapSeen[j]], BucketsSeen' = n,
             \A i \in Iterators : iter[i] # NULL => Iterations'[i] = LessOf(Iterations[i], k),
             \A i \in Iterators : iter[i] = NULL => Iterations'[i] = NULL
      PROVE  IterInv' /\ Map!Remove(k)
  <2>1. \A i \in Iterators : i \in Map!Going <=> iter[i] # NULL
    BY <1>2 DEF Seen, Map!Going
  <2>2. \A i \in Iterators : Iterations'[i] = IF i \in Map!Going THEN LessOf(Iterations[i], k) ELSE Iterations[i]
    BY <1>2, <1>7, <2>1 DEF Seen
  <2>3. Iterations' = [i \in Iterators |-> IF i \in Map!Going THEN LessOf(Iterations[i], k) ELSE Iterations[i]]
    <3> HIDE DEF Iterations
    <3> QED
      BY <2>2, EachIteration
  <2> QED
    BY <1>1, <1>5, <1>7, <2>3, Zenon DEF Map!Remove, Map!Each, LessOf
<1>8. CASE k \notin DOMAIN pairs
  <2>1. UNCHANGED <<Table!table, iter, shuffled>>
    BY <1>1, <1>3, <1>8 DEF Table!HashTableRemove
  <2>2. IterInv' /\ MapSeen' = MapSeen /\ BucketsSeen' = BucketsSeen /\ Iterations' = Iterations
    BY <2>1, IterationsRest
  <2>3. MapSeen' = [j \in DOMAIN MapSeen \ {k} |-> MapSeen[j]]
    BY <1>2, <1>5, <1>8, <2>2
  <2>4. ASSUME NEW i \in Iterators, iter[i] # NULL
        PROVE  Iterations[i] = LessOf(Iterations[i], k)
    <3> DEFINE L == Later(bucketArray, n, DOMAIN pairs, iter[i].pair)
    <3>1. iter[i].pair \in DOMAIN pairs => L \ {k} = L
      <4>1. iter[i].pair \in DOMAIN pairs => L \subseteq DOMAIN pairs
        BY <1>2, LaterHeld
      <4> HIDE DEF L
      <4> QED
        BY <1>8, <4>1
    <3>2. iter[i].pair # k
      BY <1>5, <1>6, <1>8, <2>4
    <3>3. /\ LessOf(Loose("lost"), k) = Loose("lost") /\ LessOf(Exact("lost", {}), k) = Exact("lost", {})
          /\ LessOf(Exact(iter[i].pair, L), k) = Exact(iter[i].pair, L \ {k})
          /\ LessOf(Loose(iter[i].pair), k) = Loose(iter[i].pair)
      BY <3>2, LessStays
    <3>4. /\ iter[i].pair = Table!Dangling /\ i \in shuffled => Iterations[i] = Loose("lost")
          /\ iter[i].pair = Table!Dangling /\ i \notin shuffled => Iterations[i] = Exact("lost", {})
          /\ iter[i].pair # Table!Dangling /\ i \in shuffled => Iterations[i] = Loose(iter[i].pair)
          /\ iter[i].pair # Table!Dangling /\ i \notin shuffled => Iterations[i] = Exact(iter[i].pair, L)
      BY <1>5, <2>4, Zenon DEF Showing
    <3>5. iter[i].pair \in DOMAIN pairs \/ iter[i].pair = Table!Dangling
      BY <1>6, <2>4
    <3> HIDE DEF L
    <3> QED
      BY <3>1, <3>3, <3>4, <3>5, Zenon
  <2>5. \A i \in Iterators : iter[i] = NULL => Iterations'[i] = NULL
    BY <1>2, <2>2 DEF Seen
  <2> QED
    BY <1>5, <1>7, <2>2, <2>3, <2>4, <2>5
<1>9. CASE k \in DOMAIN pairs
  <2>1. /\ bucketArray' = [bucketArray EXCEPT ![Hash[k] % n] = Table!RemoveFirst(@, k)]
        /\ Table!Freed({k})
    BY <1>3, <1>9 DEF Table!HashTableRemove
  <2>2. /\ DOMAIN pairs' = DOMAIN pairs \ {k} /\ pairs' = [j \in DOMAIN pairs \ {k} |-> pairs[j]]
        /\ iter' \in [Iterators -> {NULL} \cup [bucket : Nat, pair : DOMAIN pairs' \cup {Table!Dangling}]]
        /\ \A i \in Iterators :
             /\ iter'[i] = NULL <=> iter[i] = NULL
             /\ iter[i] # NULL => iter'[i].pair = IF iter[i].pair \in {k} THEN Table!Dangling ELSE iter[i].pair
             /\ iter[i] # NULL /\ iter[i].pair \notin {k} => iter'[i] = iter[i]
    <3>1. {k} \in SUBSET DOMAIN pairs
      BY <1>9
    <3> QED
      BY <1>2, <2>1, <3>1, FreedSettles
  <2>3. Placed(bucketArray', n, DOMAIN pairs')
    BY <1>2, <1>9, <2>1, <2>2, RemovePlaces
  <2>4. Settled(n)'
    BY <1>1, <1>2, <2>2 DEF Settled
  <2>5. IterInv' /\ Seen(n)' /\ Showing(n)'
    BY <1>2, <1>4, <2>3, <2>4, SettledNext, ShowingNext
  <2>6. MapSeen' = [j \in DOMAIN MapSeen \ {k} |-> MapSeen[j]] /\ BucketsSeen' = n
    BY <1>5, <2>2, <2>5 DEF Seen
  <2>7. ASSUME NEW i \in Iterators, iter[i] # NULL
        PROVE  Iterations'[i] = LessOf(Iterations[i], k)
    <3>1. iter'[i] # NULL
      BY <2>2, <2>7
    <3>2. iter[i].pair \in DOMAIN pairs \cup {Table!Dangling}
      BY <1>6, <2>7
    <3>4. CASE iter[i].pair = k
      <4>1. iter'[i].pair = Table!Dangling
        BY <2>2, <2>7, <3>4
      <4>2. iter[i].pair # Table!Dangling
        BY <1>5, <3>4
      <4>3. CASE i \in shuffled
        <5>1. Iterations[i] = Loose(k) /\ Iterations'[i] = Loose("lost")
          BY <1>1, <1>5, <2>5, <2>7, <3>1, <3>4, <4>1, <4>2, <4>3, Zenon DEF Showing
        <5> QED
          BY <5>1, GoneIs, Zenon
      <4>4. CASE i \notin shuffled
        <5>1. PICK t : Iterations[i] = Exact(k, t) /\ Iterations'[i] = Exact("lost", {})
          BY <1>1, <1>5, <2>5, <2>7, <3>1, <3>4, <4>1, <4>2, <4>4, Zenon DEF Showing
        <5> QED
          BY <5>1, GoneIs, Zenon
      <4> QED
        BY <4>3, <4>4
    <3>5. CASE iter[i].pair # k
      <4>1. iter'[i] = iter[i]
        BY <2>2, <2>7, <3>5
      <4>2. ASSUME iter[i].pair # Table!Dangling
            PROVE  Later(bucketArray', n, DOMAIN pairs', iter[i].pair)
                     = Later(bucketArray, n, DOMAIN pairs, iter[i].pair) \ {k}
        <5>1. PICK p : p = iter[i].pair
          OBVIOUS
        <5>2. p \in DOMAIN pairs \ {k}
          BY <3>2, <3>5, <4>2, <5>1
        <5>3. Later(bucketArray', n, DOMAIN pairs \ {k}, p) = Later(bucketArray, n, DOMAIN pairs, p) \ {k}
          <6>1. PICK array, K : array = bucketArray /\ K = DOMAIN pairs
            OBVIOUS
          <6>2. n \in Nat \ {0} /\ K \in SUBSET Keys /\ Placed(array, n, K) /\ k \in K /\ p \in K \ {k}
            BY <1>2, <1>9, <5>2, <6>1
          <6>3. Later([array EXCEPT ![Hash[k] % n] = Table!RemoveFirst(@, k)], n, K \ {k}, p) = Later(array, n, K, p) \ {k}
            BY <6>2, LaterRemoved
          <6> QED
            BY <2>1, <6>1, <6>3, Zenon
        <5> QED
          BY <2>2, <5>1, <5>3
      <4> DEFINE p == iter[i].pair
                 L == Later(bucketArray, n, DOMAIN pairs, p)
                 M == Later(bucketArray', n, DOMAIN pairs', p)
      <4>3. /\ LessOf(Loose("lost"), k) = Loose("lost") /\ LessOf(Exact("lost", {}), k) = Exact("lost", {})
            /\ LessOf(Exact(p, L), k) = Exact(p, L \ {k}) /\ LessOf(Loose(p), k) = Loose(p)
        BY <3>5, LessStays
      <4>4. /\ p = Table!Dangling /\ i \in shuffled => Iterations[i] = Loose("lost") /\ Iterations'[i] = Loose("lost")
            /\ p = Table!Dangling /\ i \notin shuffled =>
                 Iterations[i] = Exact("lost", {}) /\ Iterations'[i] = Exact("lost", {})
            /\ p # Table!Dangling /\ i \in shuffled => Iterations[i] = Loose(p) /\ Iterations'[i] = Loose(p)
            /\ p # Table!Dangling /\ i \notin shuffled => Iterations[i] = Exact(p, L) /\ Iterations'[i] = Exact(p, M)
        BY <1>1, <1>5, <2>5, <2>7, <3>1, <4>1, Zenon DEF Showing
      <4>5. p # Table!Dangling => M = L \ {k}
        BY <4>2, Zenon
      <4> HIDE DEF p, L, M
      <4> QED
        BY <4>3, <4>4, <4>5, Zenon
    <3> QED
      BY <3>4, <3>5
  <2>8. \A i \in Iterators : iter[i] = NULL => Iterations'[i] = NULL
    BY <2>2, <2>5 DEF Seen
  <2> QED
    BY <1>7, <2>5, <2>6, <2>7, <2>8
<1> QED
  BY <1>8, <1>9

\* Puts(k, c, v) and the key is there: only its pair changes.
LEMMA ReplacePromise ==
  ASSUME TableInv, IterInv, NEW k \in Keys, NEW c \in Copies, NEW v \in Pointers,
         Table!HashTablePut(k, c, v), k \in DOMAIN pairs
  PROVE  IterInv' /\ Map!Put(k, [key |-> c, value |-> v])
<1>1. bucketArray # NULL /\ UNCHANGED <<iter, tableResult, tableCrashed>>
  BY DEF Table!HashTablePut
<1>2. PICK n \in Table!TableSizes :
        /\ n \in Nat \ {0} /\ Placed(bucketArray, n, DOMAIN pairs) /\ Seen(n) /\ Settled(n)
        /\ DOMAIN pairs \in SUBSET Keys
  BY <1>1, TableNow
<1>3. Table!Found(k)
  BY <1>2, FoundIs
<1>4. /\ bucketArray' = bucketArray /\ shuffled' = shuffled
      /\ pairs' = [j \in DOMAIN pairs \cup {k} |-> IF j = k THEN [key |-> c, value |-> v] ELSE pairs[j]]
  BY <1>3 DEF Table!HashTablePut
<1>5. DOMAIN pairs' = DOMAIN pairs /\ TableInv'
  BY <1>4, PutInv
<1>6. IterInv' /\ Seen(n)'
  <2>1. Placed(bucketArray', n, DOMAIN pairs') /\ Settled(n)'
    BY <1>1, <1>2, <1>4, <1>5 DEF Settled
  <2> QED
    BY <1>5, <2>1, SettledNext
<1>7. MapSeen = pairs /\ MapSeen # NULL /\ MapSeen' = pairs' /\ BucketsSeen' = BucketsSeen
  BY <1>2, <1>6 DEF Seen
<1>8. Iterations' = Iterations
  <2>1. ASSUME NEW i \in Iterators
        PROVE  Iterations'[i] = Iterations[i]
    BY <1>1, <1>2, <1>4, <1>5, <1>6, Zenon DEF Seen
  <2> HIDE DEF Iterations
  <2> QED
    BY <2>1, EachIteration
<1>9. k \in DOMAIN MapSeen
  BY <1>7
<1>10. MapSeen' = [j \in DOMAIN MapSeen \cup {k} |-> IF j = k THEN [key |-> c, value |-> v] ELSE MapSeen[j]]
  BY <1>4, <1>7, Zenon
<1> QED
  BY <1>1, <1>6, <1>7, <1>8, <1>9, <1>10, Zenon DEF Map!Put

\* Some of the iterations have a pair more to return.
Joins(k) == \E S \in SUBSET {i \in Map!Going : Iterations[i].exact /\ Iterations[i].on # Map!Lost} :
  Iterations' = [i \in Iterators |-> IF i \in S THEN MoreOf(Iterations[i], k) ELSE Iterations[i]]

\* A new key, and the table is not full: the iterations that have not come to its
\* bucket return it, the others do not.
LEMMA NewKeyPromise ==
  ASSUME TableInv, IterInv, TableInv', NEW k \in Keys, k \notin DOMAIN pairs,
         NEW n \in Table!TableSizes, Placed(bucketArray, n, DOMAIN pairs),
         bucketArray' = [bucketArray EXCEPT ![Hash[k] % n] = <<k>> \o @],
         DOMAIN pairs' = DOMAIN pairs \cup {k}, iter' = iter, shuffled' = shuffled
  PROVE  IterInv' /\ Seen(n)' /\ Joins(k)
<1>1. /\ Seen(n) /\ Settled(n) /\ n \in Nat \ {0} /\ DOMAIN pairs \in SUBSET Keys
      /\ k # "lost" /\ k # Table!Dangling /\ "lost" \notin Keys
  BY TableSeenIs, SettledIs, SizesAre, NullIs DEF TableSeen, TableInv, TableTypes
<1>2. Placed(bucketArray', n, DOMAIN pairs')
  <2>1. k \in Keys \ DOMAIN pairs
    OBVIOUS
  <2>2. Placed([bucketArray EXCEPT ![Hash[k] % n] = <<k>> \o @], n, DOMAIN pairs \cup {k})
    BY <1>1, <2>1, PushPlaces
  <2> QED
    BY <2>2, Zenon
<1>3. Settled(n)'
  <2>1. iter' \in [Iterators -> {NULL} \cup [bucket : Nat, pair : DOMAIN pairs' \cup {Table!Dangling}]]
    <3>1. [bucket : Nat, pair : DOMAIN pairs \cup {Table!Dangling}]
            \subseteq [bucket : Nat, pair : DOMAIN pairs' \cup {Table!Dangling}]
      OBVIOUS
    <3>2. iter \in [Iterators -> {NULL} \cup [bucket : Nat, pair : DOMAIN pairs \cup {Table!Dangling}]]
      BY <1>1 DEF Settled
    <3> QED
      BY <3>1, <3>2
  <2> QED
    BY <1>1, <2>1 DEF Settled
<1>4. IterInv' /\ Seen(n)'
  BY <1>2, <1>3, SettledNext
<1>5. Showing(n) /\ Showing(n)'
  BY <1>1, <1>4, ShowingIs, ShowingNext
<1> DEFINE Coming == {i \in Iterators : /\ iter[i] # NULL /\ iter[i].pair # Table!Dangling /\ i \notin shuffled
                                        /\ Hash[k] % n > Hash[iter[i].pair] % n}
<1>6. ASSUME NEW i \in Iterators, iter[i] # NULL, iter[i].pair # Table!Dangling
      PROVE  /\ iter[i].pair \in DOMAIN pairs
             /\ Later(bucketArray', n, DOMAIN pairs', iter[i].pair)
                  = Later(bucketArray, n, DOMAIN pairs, iter[i].pair)
                      \cup IF Hash[k] % n > Hash[iter[i].pair] % n THEN {k} ELSE {}
  <2>1. iter[i] \in [bucket : Nat, pair : DOMAIN pairs \cup {Table!Dangling}]
    BY <1>1, <1>6 DEF Settled
  <2>2. PICK p \in DOMAIN pairs : p = iter[i].pair
    BY <1>6, <2>1
  <2>3. PICK array, K : array = bucketArray /\ K = DOMAIN pairs
    OBVIOUS
  <2>4. n \in Nat \ {0} /\ K \in SUBSET Keys /\ Placed(array, n, K) /\ p \in K /\ k \in Keys \ K
    BY <1>1, <2>2, <2>3
  <2>5. Later([array EXCEPT ![Hash[k] % n] = <<k>> \o @], n, K \cup {k}, p)
          = Later(array, n, K, p) \cup IF Hash[k] % n > Hash[p] % n THEN {k} ELSE {}
    BY <2>4, LaterPushed
  <2> QED
    BY <2>2, <2>3, <2>5, Zenon
<1>7. ASSUME NEW i \in Iterators
      PROVE  Iterations'[i] = IF i \in Coming THEN MoreOf(Iterations[i], k) ELSE Iterations[i]
  <2> DEFINE p == iter[i].pair
             L == Later(bucketArray, n, DOMAIN pairs, p)
             M == Later(bucketArray', n, DOMAIN pairs', p)
             ahead == Hash[k] % n > Hash[p] % n
  <2>1. CASE iter[i] = NULL
    <3>1. Iterations[i] = NULL /\ Iterations'[i] = NULL
      BY <1>1, <1>4, <2>1 DEF Seen
    <3> QED
      BY <2>1, <3>1
  <2>2. CASE iter[i] # NULL
    <3>1. i \in Coming <=> p # Table!Dangling /\ i \notin shuffled /\ ahead
      BY <2>2
    <3>2. p # Table!Dangling => M = L \cup IF ahead THEN {k} ELSE {}
      BY <1>6, <2>2, Zenon
    <3>3. MoreOf(Exact(p, L), k) = Exact(p, L \cup {k})
      BY MoreIs
    <3>4. /\ p = Table!Dangling /\ i \in shuffled => Iterations[i] = Loose("lost") /\ Iterations'[i] = Loose("lost")
          /\ p = Table!Dangling /\ i \notin shuffled =>
               Iterations[i] = Exact("lost", {}) /\ Iterations'[i] = Exact("lost", {})
          /\ p # Table!Dangling /\ i \in shuffled => Iterations[i] = Loose(p) /\ Iterations'[i] = Loose(p)
          /\ p # Table!Dangling /\ i \notin shuffled => Iterations[i] = Exact(p, L) /\ Iterations'[i] = Exact(p, M)
      BY <1>5, <2>2, Zenon DEF Showing
    <3> HIDE DEF p, L, M, ahead, Coming
    <3>5. p # Table!Dangling /\ ahead => M = L \cup {k}
      BY <3>2
    <3>6. p # Table!Dangling /\ ~ahead => M = L
      BY <3>2
    <3>7. CASE i \in Coming
      BY <3>1, <3>3, <3>4, <3>5, <3>7, Zenon
    <3>8. CASE i \notin Coming
      BY <3>1, <3>4, <3>6, <3>8, Zenon
    <3> QED
      BY <3>7, <3>8
  <2> QED
    BY <2>1, <2>2
<1>8. ASSUME NEW i \in Coming
      PROVE  i \in Map!Going /\ Iterations[i].exact /\ Iterations[i].on # Map!Lost
  <2>1. i \in Map!Going
    BY <1>1 DEF Seen, Map!Going
  <2>2. PICK p, t : Iterations[i] = Exact(p, t) /\ p \in Keys
    <3>1. Iterations[i] = Exact(iter[i].pair, Later(bucketArray, n, DOMAIN pairs, iter[i].pair))
      BY <1>5, Zenon DEF Showing
    <3>2. iter[i].pair \in Keys
      BY <1>1, <1>6
    <3> QED
      BY <3>1, <3>2, Zenon
  <2>3. Exact(p, t).exact = TRUE /\ Exact(p, t).on = p
    BY Zenon DEF Exact, Shows
  <2>4. p # Map!Lost
    BY <1>1, <2>2 DEF Map!Lost
  <2> QED
    BY <2>1, <2>2, <2>3, <2>4, Zenon
<1> HIDE DEF Coming
<1>9. Coming \in SUBSET {i \in Map!Going : Iterations[i].exact /\ Iterations[i].on # Map!Lost}
  BY <1>8
<1>10. Iterations' = [i \in Iterators |-> IF i \in Coming THEN MoreOf(Iterations[i], k) ELSE Iterations[i]]
  <2> HIDE DEF Iterations
  <2> QED
    BY <1>7, EachIteration
<1>11. Joins(k)
  BY <1>9, <1>10, Zenon DEF Joins
<1> QED
  BY <1>4, <1>11

LEMMA PutPromise ==
  ASSUME TableInv, IterInv, NEW k \in Keys, NEW c \in Copies, NEW v \in Pointers,
         Table!HashTablePut(k, c, v)
  PROVE  IterInv' /\ Map!Put(k, [key |-> c, value |-> v])
<1>1. CASE k \in DOMAIN pairs
  BY <1>1, ReplacePromise
<1>2. CASE k \notin DOMAIN pairs
  <2>1. bucketArray # NULL /\ UNCHANGED <<iter, tableResult, tableCrashed>>
    BY DEF Table!HashTablePut
  <2>2. PICK n \in Table!TableSizes :
          /\ n \in Nat \ {0} /\ Placed(bucketArray, n, DOMAIN pairs) /\ Seen(n)
          /\ DOMAIN pairs \in SUBSET Keys
    BY <2>1, TableNow
  <2>3. Table!numOfBuckets = n /\ Table!Bucket(k) = Hash[k] % n /\ ~Table!Found(k)
    BY <1>2, <2>2, FoundIs
  <2>4. TableInv'
    BY PutInv
  <2> DEFINE array == [bucketArray EXCEPT ![Hash[k] % n] = <<k>> \o @]
             full == numOfElements + 1 > UpperRehashThreshold * n
  <2>5. PICK s : s = Table!IdealNumOfBuckets(numOfElements + 1)
    OBVIOUS
  <2>6. s \in Table!TableSizes /\ (full => s # n)
    BY <1>2, <2>5, IdealIs
  <2>7. UpperRehashThreshold > IdealRatio
    BY TablesAssumption DEF Table!MapAssumption
  <2>8. /\ pairs' = [j \in DOMAIN pairs \cup {k} |-> IF j = k THEN [key |-> c, value |-> v] ELSE pairs[j]]
        /\ full => Table!RehashTo(array, s)
        /\ ~full => bucketArray' = array /\ shuffled' = shuffled
    BY <2>3, <2>5, <2>7 DEF Table!HashTablePut
  <2>9. DOMAIN pairs' = DOMAIN pairs \cup {k}
    BY <2>8
  <2>10. MapSeen = pairs /\ MapSeen # NULL /\ BucketsSeen = n
    BY <2>2 DEF Seen
  <2>11. /\ full <=> Map!Cardinality(DOMAIN MapSeen) + 1 > UpperRehashThreshold * BucketsSeen
         /\ s = Table!IdealNumOfBuckets(Map!Cardinality(DOMAIN MapSeen) + 1)
    BY <2>5, <2>10, IdealIs
  <2>12. k \notin DOMAIN MapSeen
    BY <1>2, <2>10
  <2>13. ASSUME MapSeen' = pairs'
         PROVE  MapSeen' = [j \in DOMAIN MapSeen \cup {k} |-> IF j = k THEN [key |-> c, value |-> v] ELSE MapSeen[j]]
    BY <2>8, <2>10, <2>13, Zenon
  <2>14. CASE full
    <3>1. Placed(array, n, DOMAIN pairs \cup {k})
      BY <1>2, <2>2, PushPlaces
    <3>2. DOMAIN pairs \cup {k} \in SUBSET Keys /\ Table!RehashTo(array, s)
      BY <2>2, <2>8, <2>14
    <3> HIDE DEF array, full
    <3>3. /\ Placed(bucketArray', s, DOMAIN pairs \cup {k}) /\ s # n
          /\ shuffled' = {i \in Iterators : iter[i] # NULL}
      BY <2>6, <2>14, <3>1, <3>2, RehashIs
    <3>4. IterInv' /\ Seen(s)' /\ Map!Rehashed(s)
      <4>1. Placed(bucketArray', s, DOMAIN pairs') /\ DOMAIN pairs \subseteq DOMAIN pairs' /\ iter' = iter
        BY <2>1, <2>9, <3>3
      <4> QED
        BY <2>2, <2>4, <2>6, <3>3, <4>1, RehashedPromise
    <3>5. MapSeen' = pairs'
      BY <3>4 DEF Seen
    <3>6. Map!Cardinality(DOMAIN MapSeen) + 1 > UpperRehashThreshold * BucketsSeen
      BY <2>11, <2>14
    <3>7. Map!Rehashed(Table!IdealNumOfBuckets(Map!Cardinality(DOMAIN MapSeen) + 1))
      BY <2>11, <3>4, Zenon
    <3> QED
      BY <2>1, <2>10, <2>12, <2>13, <3>4, <3>5, <3>6, <3>7, Zenon DEF Map!Put
  <2>15. CASE ~full
    <3>1. bucketArray' = array /\ shuffled' = shuffled
      BY <2>8, <2>15
    <3>2. IterInv' /\ Seen(n)' /\ Joins(k)
      BY <1>2, <2>1, <2>2, <2>4, <2>9, <3>1, NewKeyPromise
    <3>3. MapSeen' = pairs' /\ BucketsSeen' = BucketsSeen
      BY <2>10, <3>2 DEF Seen
    <3> HIDE DEF array, full
    <3>4. ~(Map!Cardinality(DOMAIN MapSeen) + 1 > UpperRehashThreshold * BucketsSeen)
      BY <2>11, <2>15
    <3> QED
      BY <2>1, <2>10, <2>12, <2>13, <3>2, <3>3, <3>4, Zenon DEF Map!Put, Map!Each, MoreOf, Joins
  <2> QED
    BY <2>14, <2>15
<1> QED
  BY <1>1, <1>2


LEMMA ClearTablePromise ==
  ASSUME TableInv, IterInv, Table!HashTableRemoveAll
  PROVE  IterInv' /\ Map!Clear
<1>1. /\ bucketArray # NULL /\ UNCHANGED <<tableResult, tableCrashed>>
      /\ Table!RehashTo([b \in DOMAIN bucketArray |-> <<>>], 5) /\ Table!Freed(DOMAIN pairs)
  BY DEF Table!HashTableRemoveAll
<1>2. PICK n \in Table!TableSizes :
        /\ n \in Nat \ {0} /\ Placed(bucketArray, n, DOMAIN pairs) /\ Seen(n) /\ Settled(n)
        /\ DOMAIN pairs \in SUBSET Keys /\ Table!Dangling \notin DOMAIN pairs
  BY <1>1, TableNow
<1>3. 5 \in Table!TableSizes /\ 5 \in Nat \ {0}
  BY SizesAre
<1>4. /\ Placed(bucketArray', 5, {})
      /\ 5 = n => shuffled' = shuffled
      /\ 5 # n => shuffled' = {i \in Iterators : iter[i] # NULL}
  <2> DEFINE array == [b \in 0..(n - 1) |-> <<>>]
  <2>1. DOMAIN bucketArray = 0..(n - 1)
    BY <1>2, PlacedArray
  <2>2. Placed(array, n, {}) /\ Table!RehashTo(array, 5) /\ {} \in SUBSET Keys
    BY <1>1, <1>2, <2>1, NonePlaced
  <2> HIDE DEF array
  <2> QED
    BY <1>2, <1>3, <2>2, RehashIs
<1>5. /\ DOMAIN pairs' = DOMAIN pairs \ DOMAIN pairs
      /\ pairs' = [k \in DOMAIN pairs \ DOMAIN pairs |-> pairs[k]]
      /\ iter' \in [Iterators -> {NULL} \cup [bucket : Nat, pair : DOMAIN pairs' \cup {Table!Dangling}]]
      /\ \A i \in Iterators :
           /\ iter'[i] = NULL <=> iter[i] = NULL
           /\ iter[i] # NULL =>
                iter'[i].pair = IF iter[i].pair \in DOMAIN pairs THEN Table!Dangling ELSE iter[i].pair
           /\ iter[i] # NULL => iter[i].pair \in DOMAIN pairs \cup {Table!Dangling}
  BY <1>1, <1>2, FreedSettles
<1>6. DOMAIN pairs' = {} /\ pairs' = [k \in {} |-> NULL]
  <2>1. DOMAIN pairs \ DOMAIN pairs = {}
    OBVIOUS
  <2> QED
    BY <1>5, <2>1
<1>7. \A i \in Iterators : iter[i] # NULL => iter'[i].pair = Table!Dangling
  BY <1>5
<1>8. Settled(5)'
  <2>1. shuffled' \subseteq {i \in Iterators : iter'[i] # NULL}
    BY <1>2, <1>4, <1>5 DEF Settled
  <2> QED
    BY <1>5, <1>7, <2>1 DEF Settled
<1>9. TableInv'
  BY RemoveAllPairsInv
<1>10. IterInv' /\ Seen(5)' /\ Showing(n) /\ Showing(5)'
  BY <1>2, <1>3, <1>4, <1>6, <1>8, <1>9, SettledNext, ShowingIs, ShowingNext
<1>11. /\ MapSeen # NULL /\ MapSeen' = Map!None /\ BucketsSeen' = 5 /\ BucketsSeen = n
  BY <1>2, <1>6, <1>10 DEF Seen, Map!None
<1>12. ASSUME NEW i \in Iterators
       PROVE  Iterations'[i] = IF i \in Map!Going THEN OverOf(Iterations[i]) ELSE Iterations[i]
  <2>0. i \in Map!Going <=> iter[i] # NULL
    BY <1>2 DEF Seen, Map!Going
  <2>1. CASE iter[i] = NULL
    <3>1. Iterations[i] = NULL /\ Iterations'[i] = NULL
      BY <1>2, <1>5, <1>10, <2>1 DEF Seen
    <3> QED
      BY <2>0, <2>1, <3>1
  <2>2. CASE iter[i] # NULL
    <3>1. iter'[i] # NULL /\ iter'[i].pair = Table!Dangling
      BY <1>5, <1>7, <2>2
    <3>2. /\ i \in shuffled' => Iterations'[i] = Loose("lost")
          /\ i \notin shuffled' => Iterations'[i] = Exact("lost", {})
      BY <1>10, <3>1, Zenon DEF Showing
    <3>3. CASE i \in shuffled
      <4>1. i \in shuffled'
        BY <1>4, <2>2, <3>3
      <4>2. \E o : Iterations[i] = Loose(o)
        BY <1>10, <2>2, <3>3, Zenon DEF Showing
      <4> QED
        BY <2>0, <2>2, <3>2, <4>1, <4>2, OverIs, Zenon
    <3>4. CASE i \notin shuffled
      <4>1. (i \in shuffled' <=> n # 5)
        BY <1>4, <2>2, <3>4
      <4>2. \E o, t : Iterations[i] = Exact(o, t)
        BY <1>10, <2>2, <3>4, Zenon DEF Showing
      <4>3. CASE n = 5
        BY <1>11, <2>0, <2>2, <3>2, <4>1, <4>2, <4>3, OverIs, Zenon
      <4>4. CASE n # 5
        BY <1>11, <2>0, <2>2, <3>2, <4>1, <4>2, <4>4, OverIs, Zenon
      <4> QED
        BY <4>3, <4>4
    <3> QED
      BY <3>3, <3>4
  <2> QED
    BY <2>1, <2>2
<1>13. Iterations' = [i \in Iterators |-> IF i \in Map!Going THEN OverOf(Iterations[i]) ELSE Iterations[i]]
  <2> HIDE DEF Iterations
  <2> QED
    BY <1>12, EachIteration
<1> QED
  BY <1>1, <1>10, <1>11, <1>13, Zenon DEF Map!Clear, Map!Each, OverOf

\* Every call of the table is one of the map.
LEMMA TablePromise ==
  ASSUME TableInv, IterInv, Table!Next
  PROVE  IterInv' /\ Table!Abstract!Next
<1>1. ~tableCrashed
  BY DEF Table!Next
<1>2. ASSUME NEW n \in BucketCounts, Table!HashTableCreate(n)
      PROVE  IterInv' /\ Table!Abstract!Next
  BY <1>1, <1>2, CreatePromise, SameMapCalls, Zenon DEF Table!Abstract!Next
<1>3. ASSUME NEW n \in BucketCounts, Table!HashTableRehash(n)
      PROVE  IterInv' /\ Table!Abstract!Next
  <2>1. n \in BucketCounts \cup {0}
    OBVIOUS
  <2> QED
    BY <1>1, <1>3, <2>1, RehashPromise, SameMapCalls, Zenon DEF Table!Abstract!Next
<1>4. ASSUME Table!HashTableRehash(0)
      PROVE  IterInv' /\ Table!Abstract!Next
  <2>1. 0 \in BucketCounts \cup {0}
    OBVIOUS
  <2> QED
    BY <1>1, <1>4, <2>1, RehashPromise, SameMapCalls, Zenon DEF Table!Abstract!Next
<1>5. ASSUME Table!HashTableDestroy
      PROVE  IterInv' /\ Table!Abstract!Next
  BY <1>1, <1>5, ReleaseTablePromise, SameMapCalls, Zenon DEF Table!Abstract!Next
<1>6. ASSUME Table!HashTableRemoveAll
      PROVE  IterInv' /\ Table!Abstract!Next
  BY <1>1, <1>6, ClearTablePromise, SameMapCalls, Zenon DEF Table!Abstract!Next
<1>7. ASSUME NEW k \in Keys, Table!HashTableRemove(k)
      PROVE  IterInv' /\ Table!Abstract!Next
  BY <1>1, <1>7, RemovePairPromise, SameMapCalls, Zenon DEF Table!Abstract!Next
<1>8. ASSUME NEW k \in Keys, Table!HashTableGet(k)
      PROVE  IterInv' /\ Table!Abstract!Next
  BY <1>1, <1>8, GetPromise, SameMapCalls, Zenon DEF Table!Abstract!Next
<1>9. ASSUME NEW k \in Keys, NEW c \in Copies, NEW v \in Pointers, Table!HashTablePut(k, c, v)
      PROVE  IterInv' /\ Table!Abstract!Next
  <2>1. IterInv' /\ Map!Put(k, [key |-> c, value |-> v])
    BY <1>9, PutPromise, Zenon
  <2> QED
    BY <1>1, <2>1, SameMapCalls, Zenon DEF Table!Abstract!Next
<1>10. ASSUME NEW i \in Iterators, Table!hashTableGetFirst(i)
       PROVE  IterInv' /\ Table!Abstract!Next
  BY <1>1, <1>10, GetFirstPairPromise, SameMapCalls, Zenon DEF Table!Abstract!Next
<1>11. ASSUME NEW i \in Iterators, Table!hashTableGetNext(i)
       PROVE  IterInv' /\ Table!Abstract!Next
  BY <1>1, <1>11, GetNextPairPromise, SameMapCalls, Zenon DEF Table!Abstract!Next
<1> QED
  BY <1>2, <1>3, <1>4, <1>5, <1>6, <1>7, <1>8, <1>9, <1>10, <1>11, Zenon DEF Table!Next

LEMMA IterInvStep == TableInv /\ IterInv /\ [Table!Next]_tableVars => IterInv'
<1> SUFFICES ASSUME TableInv, IterInv, [Table!Next]_tableVars PROVE IterInv'
  OBVIOUS
<1>1. CASE UNCHANGED tableVars
  <2>1. UNCHANGED <<Table!table, iter, shuffled>>
    BY <1>1 DEF tableVars, Table!table
  <2> QED
    BY <2>1, IterationsRest
<1>2. CASE Table!Next
  BY <1>2, TablePromise
<1> QED
  BY <1>1, <1>2

\* Whatever a program does with its tables, every call returns, and leaves behind,
\* what a map with iterations says: an iteration returns every pair once, unless
\* the table was rehashed, and reads a pair that was freed only when the pair it
\* returned last was removed: hashtable.c.
THEOREM ClientTablesPromise == MCSpec => TableRefinesMap
<1> DEFINE allVars == <<part, operationVars, vars, bufferVars, listVars, tableVars>>
           Inv == TableInv /\ IterInv
<1>1. MCInit => Inv /\ Table!Abstract!Init
  BY TableInvInit, MapStart, SameMap DEF MCInit
<1>2. [MCNext]_allVars => [Table!Next]_tableVars
  BY DEF MCNext
<1>3. Inv /\ [MCNext]_allVars => Inv'
  BY <1>2, TableInvStep, IterInvStep
<1>4. Inv /\ [MCNext]_allVars =>
        [part = "table" => (Table!Abstract!vars' = Table!Abstract!vars \/ Table!Abstract!Next)]_<<part, tableVars>>
  <2> SUFFICES ASSUME Inv, [MCNext]_allVars, part = "table", ~UNCHANGED <<part, tableVars>>
               PROVE  Table!Abstract!Next
    OBVIOUS
  <2>1. Table!Next
    BY DEF MCNext
  <2> QED
    BY <2>1, TablePromise
<1> QED
  BY <1>1, <1>3, <1>4, PTL DEF MCSpec, TableRefinesMap
===============================================================================
