------------------------- MODULE CimInstance_Proofs -------------------------
(***************************************************************************)
(* TLAPS proofs about CimInstance, for any instances, paths, names, values *)
(* and filters: the variables have their types, and every value of an      *)
(* instance or an object path has one owner, but for those that are lost.  *)
(***************************************************************************)
EXTENDS CimInstance, SequenceTheorems, FiniteSetTheorems, WellFoundedInduction, TLAPS

\* An address that was allocated for the property or key of an object tells so.
AddressesOf(o, name) == {<<o, name, 1>>, <<o, name, 2>>}

\* A list that is the object o's: no name is there twice, an entry that owns a
\* value has one that was allocated for it.
ListOf(o, list) ==
  /\ list \in Seq(Entry)
  /\ \A j, k \in DOMAIN list : list[j].name = list[k].name => j = k
  /\ \A k \in Owning(list) : list[k].value \in AddressesOf(o, list[k].name)

\* A list that can be cloned: no name is there twice, an entry that owns a value
\* has one that is allocated.
Source(list) ==
  /\ list \in Seq(Entry)
  /\ \A j, k \in DOMAIN list : list[j].name = list[k].name => j = k
  /\ \A k \in Owning(list) : list[k].value \in DOMAIN heap

OwnedBy(o) == IF List(o) = NULL THEN {} ELSE Values(List(o))

InstanceInv ==
  /\ inst \in [Instances -> Instance \cup {NULL}]
  /\ path \in [Paths -> Seq(Entry) \cup {NULL}]
  /\ \A o \in Objects : List(o) # NULL => ListOf(o, List(o))
  /\ \A a : a \in DOMAIN heap <=> a \in LostAddresses \/ \E o \in Objects : a \in OwnedBy(o)
  /\ \A a \in DOMAIN heap : heap[a] \in Contents
  /\ lost \in Nat
  /\ crashed \in BOOLEAN

----------------------------------------------------------------------------
(* Lists and addresses.                                                    *)

\* What is lost has an address of its own kind.
LEMMA LostApart ==
  ASSUME NEW o, NEW name, NEW a \in AddressesOf(o, name)
  PROVE  \A n : a # <<n>>
<1>1. Len(a) = 3
  BY DEF AddressesOf
<1>2. \A n : Len(<<n>>) = 1
  OBVIOUS
<1> QED
  BY <1>1, <1>2

LEMMA OwnsItsOwn ==
  ASSUME NEW o, NEW list, ListOf(o, list), NEW a \in Values(list)
  PROVE  \E k \in Owning(list) : a = list[k].value /\ a \in AddressesOf(o, list[k].name)
BY DEF Values, ListOf

\* What belongs to an object that is not there, or to a name that its list has
\* not, is not allocated.
LEMMA AddressesFree ==
  ASSUME InstanceInv, NEW o \in Objects, NEW name,
         List(o) # NULL => \A k \in Owning(List(o)) : List(o)[k].name # name
  PROVE  AddressesOf(o, name) \cap DOMAIN heap = {}
<1> SUFFICES ASSUME NEW a \in AddressesOf(o, name), a \in DOMAIN heap
             PROVE  FALSE
  OBVIOUS
<1>1. PICK d \in Objects : a \in OwnedBy(d)
  BY LostApart DEF InstanceInv, LostAddresses
<1>2. List(d) # NULL /\ a \in Values(List(d)) /\ ListOf(d, List(d))
  BY <1>1 DEF OwnedBy, InstanceInv
<1>3. PICK k \in Owning(List(d)) : a \in AddressesOf(d, List(d)[k].name)
  BY <1>2, OwnsItsOwn
<1>4. d = o /\ List(d)[k].name = name
  BY <1>3 DEF AddressesOf
<1> QED
  BY <1>2, <1>3, <1>4

\* malloc() returns what is not allocated, and tells what for.
LEMMA FreshAddress ==
  ASSUME NEW o \in Objects, NEW name \in Names, NEW allocated,
         AddressesOf(o, name) \cap allocated = {}
  PROVE  /\ Fresh(o, name, allocated) \in AddressesOf(o, name)
         /\ Fresh(o, name, allocated) \in Addresses
         /\ Fresh(o, name, allocated) \notin allocated
<1> DEFINE n == CHOOSE n \in {1, 2} : <<o, name, n>> \notin allocated
<1>1. <<o, name, 1>> \notin allocated
  BY DEF AddressesOf
<1>2. n \in {1, 2} /\ <<o, name, n>> \notin allocated
  BY <1>1
<1>3. Fresh(o, name, allocated) = <<o, name, n>>
  BY DEF Fresh
<1> HIDE DEF n
<1> QED
  BY <1>2, <1>3 DEF AddressesOf, Addresses

\* The lists of objects are apart.
LEMMA ObjectKinds ==
  /\ \A o \in Instances : o \in Objects /\ List(o) = IF inst[o] = NULL THEN NULL ELSE inst[o].props
  /\ \A o \in Paths : o \in Objects /\ List(o) = path[o]
BY InstanceAssumption DEF Objects, List

\* An object is given another list, or none: what it owned and does not own any
\* more is released, and what it owns now is allocated.
LEMMA ReplacedList ==
  ASSUME InstanceInv, NEW o \in Objects, NEW c,
         inst' \in [Instances -> Instance \cup {NULL}],
         path' \in [Paths -> Seq(Entry) \cup {NULL}],
         \A d \in Objects : d # o => List(d)' = List(d),
         List(o)' = c,
         c # NULL => ListOf(o, c),
         \A a : a \in DOMAIN heap' <=>
                  \/ a \in DOMAIN heap /\ a \notin OwnedBy(o)
                  \/ c # NULL /\ a \in Values(c),
         \A a \in DOMAIN heap' : heap'[a] \in Contents,
         UNCHANGED lost, crashed' \in BOOLEAN
  PROVE  InstanceInv'
<1>1. \A d \in Objects : d # o => OwnedBy(d)' = OwnedBy(d)
  BY DEF OwnedBy, Values, Owning
<1>2. OwnedBy(o)' = IF c = NULL THEN {} ELSE Values(c)
  BY DEF OwnedBy, Values, Owning
<1>3. \A d \in Objects : List(d)' # NULL => ListOf(d, List(d)')
  BY DEF InstanceInv
<1>4. \A d \in Objects : d # o => OwnedBy(d) \cap OwnedBy(o) = {}
  <2> SUFFICES ASSUME NEW d \in Objects, d # o, NEW a \in OwnedBy(d), a \in OwnedBy(o)
               PROVE  FALSE
    OBVIOUS
  <2>1. /\ List(d) # NULL /\ a \in Values(List(d)) /\ ListOf(d, List(d))
        /\ List(o) # NULL /\ a \in Values(List(o)) /\ ListOf(o, List(o))
    BY DEF OwnedBy, InstanceInv
  <2>2. PICK k \in Owning(List(d)) : a \in AddressesOf(d, List(d)[k].name)
    BY <2>1, OwnsItsOwn
  <2>3. PICK j \in Owning(List(o)) : a \in AddressesOf(o, List(o)[j].name)
    BY <2>1, OwnsItsOwn
  <2> QED
    BY <2>2, <2>3 DEF AddressesOf
<1>5. LostAddresses' = LostAddresses
  BY DEF LostAddresses
<1>6. LostAddresses \cap OwnedBy(o) = {}
  <2> SUFFICES ASSUME NEW a \in OwnedBy(o)
               PROVE  a \notin LostAddresses
    OBVIOUS
  <2>1. List(o) # NULL /\ a \in Values(List(o)) /\ ListOf(o, List(o))
    BY DEF OwnedBy, InstanceInv
  <2>2. PICK k \in Owning(List(o)) : a \in AddressesOf(o, List(o)[k].name)
    BY <2>1, OwnsItsOwn
  <2> QED
    BY <2>2, LostApart DEF LostAddresses
<1>7. ASSUME NEW a
      PROVE  a \in DOMAIN heap' <=> a \in LostAddresses \/ \E d \in Objects : a \in OwnedBy(d)'
  <2>1. ASSUME a \in DOMAIN heap', a \notin LostAddresses
        PROVE  \E d \in Objects : a \in OwnedBy(d)'
    <3>1. CASE c # NULL /\ a \in Values(c)
      BY <1>2, <3>1
    <3>2. CASE a \in DOMAIN heap /\ a \notin OwnedBy(o)
      <4>1. PICK d \in Objects : a \in OwnedBy(d)
        BY <2>1, <3>2 DEF InstanceInv
      <4> QED
        BY <1>1, <3>2, <4>1
    <3> QED
      BY <2>1, <3>1, <3>2
  <2>2. ASSUME NEW d \in Objects, a \in OwnedBy(d)'
        PROVE  a \in DOMAIN heap'
    <3>1. CASE d = o
      BY <1>2, <2>2, <3>1
    <3>2. CASE d # o
      <4>1. a \in OwnedBy(d) /\ a \notin OwnedBy(o)
        BY <1>1, <1>4, <2>2, <3>2
      <4> QED
        BY <4>1 DEF InstanceInv
    <3> QED
      BY <3>1, <3>2
  <2>3. a \in LostAddresses => a \in DOMAIN heap'
    BY <1>6 DEF InstanceInv
  <2> QED
    BY <2>1, <2>2, <2>3
<1> QED
  BY <1>3, <1>5, <1>7 DEF InstanceInv, ListOf, Owning

LEMMA InvUnchanged ==
  ASSUME InstanceInv, UNCHANGED <<inst, path, heap, lost, crashed>>
  PROVE  InstanceInv'
BY DEF InstanceInv, OwnedBy, List, Values, Owning, ListOf, LostAddresses

LEMMA IsList ==
  ASSUME NEW S, NEW n \in Nat, NEW list \in [1..n -> S]
  PROVE  list \in Seq(S) /\ Len(list) = n
BY SeqDef

LEMMA ListDomain ==
  ASSUME NEW S, NEW list \in Seq(S)
  PROVE  /\ Len(list) \in Nat /\ DOMAIN list = 1..Len(list)
         /\ \A k \in DOMAIN list : list[k] \in S
OBVIOUS

----------------------------------------------------------------------------
(* Clones.                                                                 *)

\* A clone for an object that is not there: entries that own nothing stay so.
LEMMA CloneOfList ==
  ASSUME InstanceInv, NEW o \in Objects, List(o) = NULL, NEW list, Source(list)
  PROVE  /\ ListOf(o, Clone(o, list))
         /\ DOMAIN WithClone(o, list) = DOMAIN heap \cup Values(Clone(o, list))
         /\ \A a \in DOMAIN WithClone(o, list) : WithClone(o, list)[a] \in Contents
<1> DEFINE copy == Clone(o, list)
           n == Len(list)
<1>1. n \in Nat /\ DOMAIN list = 1..n /\ \A k \in 1..n : list[k] \in Entry
  BY ListDomain DEF Source
<1>2. DOMAIN copy = 1..n
  BY <1>1 DEF Clone
<1>3. ASSUME NEW k \in 1..n
      PROVE  /\ copy[k] \in Entry
             /\ copy[k].name = list[k].name /\ copy[k].state = list[k].state
             /\ copy[k].state # "null" => copy[k].value \in AddressesOf(o, copy[k].name)
  <2> DEFINE e == list[k]
             new == IF e.state = "null" THEN NoAddress ELSE Fresh(o, e.name, DOMAIN heap)
  <2>1. e \in Entry /\ e.name \in Names
    BY <1>1 DEF Entry
  <2>2. copy[k] = [e EXCEPT !.value = new]
    BY <1>1 DEF Clone
  <2>3. AddressesOf(o, e.name) \cap DOMAIN heap = {}
    BY AddressesFree
  <2> HIDE DEF e, copy
  <2>4. Fresh(o, e.name, DOMAIN heap) \in AddressesOf(o, e.name) \cap Addresses
    BY <2>1, <2>3, FreshAddress
  <2>5. new \in Addresses \cup {NoAddress}
    BY <2>4
  <2>6. e.state # "null" => new \in AddressesOf(o, e.name)
    BY <2>4
  <2> HIDE DEF new
  <2> QED
    BY <2>1, <2>2, <2>5, <2>6 DEF Entry, e
<1> HIDE DEF copy, n
<1>4. copy \in [1..n -> Entry]
  <2>1. copy = [k \in 1..n |-> copy[k]]
    BY <1>1 DEF copy, Clone
  <2> QED
    BY <1>3, <2>1
<1>5. Owning(copy) = Owning(list)
  BY <1>1, <1>2, <1>3 DEF Owning
<1>6. ListOf(o, copy)
  <2>1. copy \in Seq(Entry)
    BY <1>1, <1>4, IsList
  <2>2. \A j, k \in DOMAIN copy : copy[j].name = copy[k].name => j = k
    BY <1>1, <1>2, <1>3 DEF Source
  <2>3. \A k \in Owning(copy) : copy[k].value \in AddressesOf(o, copy[k].name)
    BY <1>2, <1>3 DEF Owning
  <2> QED
    BY <2>1, <2>2, <2>3 DEF ListOf
<1>7. DOMAIN WithClone(o, list) = DOMAIN heap \cup Values(copy)
  BY DEF WithClone, copy
<1>8. ASSUME NEW a \in DOMAIN WithClone(o, list)
      PROVE  WithClone(o, list)[a] \in Contents
  <2>1. CASE a \in DOMAIN heap
    BY <1>7, <2>1 DEF WithClone, copy, InstanceInv
  <2>2. CASE a \notin DOMAIN heap
    <3> DEFINE k == CHOOSE k \in Owning(copy) : copy[k].value = a
    <3>1. \E j \in Owning(copy) : copy[j].value = a
      BY <1>7, <2>2 DEF Values
    <3>2. k \in Owning(list)
      BY <1>5, <3>1
    <3>3. WithClone(o, list)[a] = heap[list[k].value]
      BY <1>7, <2>2 DEF WithClone, copy
    <3> HIDE DEF k
    <3> QED
      BY <3>2, <3>3 DEF Source, InstanceInv
  <2> QED
    BY <2>1, <2>2
<1> QED
  BY <1>6, <1>7, <1>8 DEF copy

\* What can be cloned: the list of an object, ...
LEMMA ListIsSource ==
  ASSUME InstanceInv, NEW o \in Objects, List(o) # NULL
  PROVE  Source(List(o))
<1>1. ListOf(o, List(o))
  BY DEF InstanceInv
<1>2. \A k \in Owning(List(o)) : List(o)[k].value \in OwnedBy(o)
  BY DEF OwnedBy, Values
<1>3. \A a \in OwnedBy(o) : a \in DOMAIN heap
  BY DEF InstanceInv
<1> QED
  BY <1>1, <1>2, <1>3 DEF ListOf, Source

\* ... and entries of one, none of them twice, in whatever order.
LEMMA PartIsSource ==
  ASSUME NEW list, Source(list), NEW n \in Nat, NEW at \in [1..n -> DOMAIN list],
         \A j, k \in 1..n : at[j] = at[k] => j = k,
         NEW taken, taken = [k \in 1..n |-> list[at[k]]]
  PROVE  Source(taken)
<1>1. \A k \in DOMAIN list : list[k] \in Entry
  BY ListDomain DEF Source
<1>2. taken \in [1..n -> Entry]
  BY <1>1
<1>3. taken \in Seq(Entry)
  BY <1>2, IsList
<1>4. \A j, k \in DOMAIN taken : taken[j].name = taken[k].name => j = k
  BY DEF Source
<1>5. \A k \in Owning(taken) : taken[k].value \in DOMAIN heap
  BY DEF Source, Owning
<1> QED
  BY <1>3, <1>4, <1>5 DEF Source

LEMMA ReverseIsSource ==
  ASSUME NEW list, Source(list)
  PROVE  Source(Reverse(list))
<1> DEFINE n == Len(list)
           at == [k \in 1..n |-> (n - k) + 1]
<1>1. n \in Nat
  BY ListDomain DEF Source
<1>2. DOMAIN list = 1..n
  BY ListDomain DEF Source
<1>3. Reverse(list) = [k \in 1..n |-> list[at[k]]]
  BY DEF Reverse
<1> HIDE DEF n
<1>4. at \in [1..n -> DOMAIN list] /\ \A j, k \in 1..n : at[j] = at[k] => j = k
  BY <1>1, <1>2
<1> HIDE DEF at
<1> QED
  BY <1>1, <1>3, <1>4, PartIsSource

LEMMA KeysFinite ==
  ASSUME NEW list \in Seq(Entry)
  PROVE  IsFiniteSet(Keys(list)) /\ Keys(list) \subseteq Nat
<1> DEFINE n == Len(list)
<1>1. n \in Nat /\ DOMAIN list = 1..n
  BY ListDomain
<1> HIDE DEF n
<1>2. Keys(list) \in SUBSET (1..n)
  BY <1>1 DEF Keys
<1>3. IsFiniteSet(1..n)
  BY <1>1, FS_Interval
<1>4. IsFiniteSet(Keys(list))
  BY <1>2, <1>3, FS_Subset
<1> QED
  BY <1>2, <1>4

\* The n-th key from the end is there: no two keys have as many keys behind them.
LEMMA KeysCounted ==
  ASSUME NEW list \in Seq(Entry), NEW n \in 1..Cardinality(Keys(list))
  PROVE  \E k \in Keys(list) : Cardinality({j \in Keys(list) : j >= k}) = n
<1> DEFINE K == Keys(list)
           Behind(k) == {j \in K : j >= k}
           rank == [k \in K |-> Cardinality(Behind(k))]
           T == 1..Cardinality(K)
<1>1. IsFiniteSet(K) /\ K \subseteq Nat
  BY KeysFinite
<1> HIDE DEF K
<1>2. Cardinality(K) \in Nat /\ IsFiniteSet(T) /\ Cardinality(T) = Cardinality(K)
  BY <1>1, FS_CardinalityType, FS_Interval
<1>3. ASSUME NEW k \in K
      PROVE  /\ IsFiniteSet(Behind(k)) /\ Cardinality(Behind(k)) \in T
  <2>1. Behind(k) \in SUBSET K /\ Behind(k) # {}
    BY <1>1
  <2>2. IsFiniteSet(Behind(k)) /\ Cardinality(Behind(k)) <= Cardinality(K)
    BY <1>1, <2>1, FS_Subset
  <2>3. Cardinality(Behind(k)) \in Nat /\ Cardinality(Behind(k)) # 0
    BY <2>1, <2>2, FS_CardinalityType, FS_EmptySet
  <2> HIDE DEF Behind
  <2> QED
    BY <1>2, <2>2, <2>3
<1>4. ASSUME NEW j \in K, NEW k \in K, j < k
      PROVE  Cardinality(Behind(j)) # Cardinality(Behind(k))
  <2>1. Behind(k) \in SUBSET Behind(j) /\ j \in Behind(j) /\ j \notin Behind(k)
    <3>1. \A m \in K : m \in Nat
      BY <1>1
    <3>2. \A m \in Behind(k) : m \in K /\ m >= j
      BY <1>4, <3>1
    <3>3. j \in Behind(j) /\ j \notin Behind(k)
      BY <1>4, <3>1
    <3> QED
      BY <3>2, <3>3
  <2>2. IsFiniteSet(Behind(j))
    BY <1>3
  <2> HIDE DEF Behind
  <2> QED
    BY <2>1, <2>2, FS_Subset
<1>5. rank \in Injection(K, T)
  <2>1. rank \in [K -> T]
    BY <1>3
  <2>2. ASSUME NEW j \in K, NEW k \in K, j # k
        PROVE  rank[j] # rank[k]
    <3>1. j < k \/ k < j
      BY <1>1, <2>2
    <3> QED
      BY <1>4, <3>1
  <2> HIDE DEF rank
  <2> QED
    BY <2>1, <2>2 DEF Injection, IsInjective
<1>6. rank \in Surjection(K, T)
  BY <1>2, <1>5, FS_Injection
<1>7. n \in T
  BY DEF K
<1>8. PICK k \in K : rank[k] = n
  BY <1>6, <1>7 DEF Surjection
<1> QED
  BY <1>8 DEF K

LEMMA KeysAreSource ==
  ASSUME NEW list, Source(list)
  PROVE  Source(PathKeys(list))
<1> DEFINE n == Cardinality(Keys(list))
           Count(k) == Cardinality({j \in Keys(list) : j >= k})
           at == [m \in 1..n |-> CHOOSE k \in Keys(list) : Count(k) = m]
<1>1. n \in Nat
  <2>1. IsFiniteSet(Keys(list))
    BY KeysFinite DEF Source
  <2> QED
    BY <2>1, FS_CardinalityType
<1>2. PathKeys(list) = [m \in 1..n |-> list[at[m]]]
  BY DEF PathKeys
<1>3. \A m \in 1..n : at[m] \in Keys(list) /\ Count(at[m]) = m
  BY KeysCounted DEF Source
<1>4. at \in [1..n -> DOMAIN list]
  BY <1>3 DEF Keys
<1> HIDE DEF at, Count
<1>5. \A j, k \in 1..n : at[j] = at[k] => j = k
  BY <1>3
<1> HIDE DEF n
<1> QED
  BY <1>1, <1>2, <1>4, <1>5, PartIsSource

----------------------------------------------------------------------------
(* One entry more, or another one.                                         *)

\* What an entry owns.
Owns(e) == IF e.state = "null" THEN {} ELSE {e.value}

\* An entry that the object o may have in its list.
EntryOf(o, e) == e \in Entry /\ (e.state # "null" => e.value \in AddressesOf(o, e.name))

LEMMA EntryAdded ==
  ASSUME NEW o, NEW list, ListOf(o, list), NEW e, EntryOf(o, e),
         \A k \in DOMAIN list : list[k].name # e.name
  PROVE  ListOf(o, Append(list, e)) /\ Values(Append(list, e)) = Values(list) \cup Owns(e)
<1> DEFINE n == Len(list)
           c == Append(list, e)
<1>1. n \in Nat /\ DOMAIN list = 1..n /\ list \in Seq(Entry) /\ e \in Entry
  BY ListDomain DEF ListOf, EntryOf
<1>2. /\ c \in Seq(Entry) /\ DOMAIN c = 1..(n + 1) /\ c[n + 1] = e
      /\ \A k \in 1..n : c[k] = list[k]
  BY <1>1
<1> HIDE DEF c, n
<1>3. \A k \in 1..(n + 1) : k \in 1..n \/ k = n + 1
  BY <1>1
<1>4. \A j, k \in DOMAIN c : c[j].name = c[k].name => j = k
  BY <1>1, <1>2, <1>3 DEF ListOf
<1>5. \A k \in 1..n : k \in 1..(n + 1)
  BY <1>1
<1>6. Owning(c) = Owning(list) \cup (IF e.state = "null" THEN {} ELSE {n + 1})
  BY <1>1, <1>2, <1>3, <1>5 DEF Owning
<1>7. \A k \in Owning(c) : c[k].value \in AddressesOf(o, c[k].name)
  BY <1>1, <1>2, <1>6 DEF ListOf, EntryOf, Owning
<1>8. Values(c) = Values(list) \cup Owns(e)
  <2>1. \A k \in Owning(list) : c[k].value = list[k].value
    BY <1>1, <1>2 DEF Owning
  <2> QED
    BY <1>2, <1>6, <2>1 DEF Values, Owns
<1> QED
  BY <1>2, <1>4, <1>7, <1>8 DEF ListOf, c

LEMMA EntryReplaced ==
  ASSUME NEW o, NEW list, ListOf(o, list), NEW k \in DOMAIN list, NEW e, EntryOf(o, e),
         e.name = list[k].name, NEW c \in Seq(Entry), DOMAIN c = DOMAIN list, c[k] = e,
         \A j \in DOMAIN list : j # k => c[j] = list[j]
  PROVE  ListOf(o, c) /\ Values(c) = (Values(list) \ Owns(list[k])) \cup Owns(e)
<1> DEFINE n == Len(list)
<1>1. n \in Nat /\ DOMAIN list = 1..n /\ list \in [1..n -> Entry] /\ e \in Entry
  BY ListDomain DEF ListOf, EntryOf
<1>2. /\ DOMAIN c = 1..n /\ c[k] = e
      /\ \A j \in 1..n : j # k => c[j] = list[j]
  BY <1>1
<1> HIDE DEF n
<1>3. c \in Seq(Entry)
  OBVIOUS
<1>4. \A j, m \in DOMAIN c : c[j].name = c[m].name => j = m
  BY <1>1, <1>2 DEF ListOf
<1>5. Owning(c) = (Owning(list) \ {k}) \cup (IF e.state = "null" THEN {} ELSE {k})
  BY <1>1, <1>2 DEF Owning
<1>6. \A j \in Owning(c) : c[j].value \in AddressesOf(o, c[j].name)
  BY <1>1, <1>2, <1>5 DEF ListOf, EntryOf, Owning
<1>7. \A j \in Owning(list) \ {k} : c[j].value = list[j].value
  BY <1>1, <1>2 DEF Owning
<1>8. {list[j].value : j \in Owning(list) \ {k}} = Values(list) \ Owns(list[k])
  <2>1. \A j \in Owning(list) : j # k /\ k \in Owning(list) => list[j].value # list[k].value
    BY <1>1 DEF ListOf, AddressesOf, Owning
  <2>2. Owns(list[k]) = IF k \in Owning(list) THEN {list[k].value} ELSE {}
    BY DEF Owns, Owning
  <2> QED
    BY <2>1, <2>2 DEF Values
<1>9. Values(c) = {c[j].value : j \in Owning(list) \ {k}} \cup Owns(e)
  BY <1>2, <1>5 DEF Values, Owns
<1>10. {c[j].value : j \in Owning(list) \ {k}} = {list[j].value : j \in Owning(list) \ {k}}
  BY <1>7
<1> QED
  BY <1>3, <1>4, <1>6, <1>8, <1>9, <1>10 DEF ListOf

LEMMA LeastOf ==
  ASSUME NEW T \in SUBSET Nat, T # {}
  PROVE  \E i \in T : \A j \in T : i <= j
<1>1. PICK m \in T : \A k \in T : <<k, m>> \notin OpToRel(<, Nat)
  BY WFMin, NatLessThanWellFounded, Zenon
<1>2. \A k \in T : ~(k < m)
  BY <1>1, Zenon DEF OpToRel
<1> QED
  BY <1>2

\* Where an entry with a name is.
LEMMA PositionOfName ==
  ASSUME NEW list \in Seq(Entry), NEW name
  PROVE  IF Position(list, name) = 0 THEN \A k \in DOMAIN list : list[k].name # name
         ELSE Position(list, name) \in DOMAIN list /\ list[Position(list, name)].name = name
<1> DEFINE n == Len(list)
           I == {k \in 1..n : list[k].name = name}
           least == Min(I)
<1>1. n \in Nat /\ DOMAIN list = 1..n
  BY ListDomain
<1>2. Position(list, name) = IF I # {} THEN least ELSE 0
  BY DEF Position, SelectInSeq
<1>3. I # {} => least \in I
  <2> SUFFICES ASSUME I # {}
               PROVE  least \in I
    OBVIOUS
  <2>1. I \in SUBSET Nat
    OBVIOUS
  <2>2. \E k \in I : \A j \in I : k <= j
    BY <2>1, LeastOf
  <2>3. least = CHOOSE k \in I : \A j \in I : k <= j
    BY DEF Min
  <2> HIDE DEF I, least
  <2> QED
    BY <2>2, <2>3
<1>4. \A k \in I : k # 0 /\ k \in DOMAIN list /\ list[k].name = name
  BY <1>1
<1>5. I = {} => \A k \in DOMAIN list : list[k].name # name
  BY <1>1
<1> HIDE DEF I, least
<1> QED
  BY <1>2, <1>3, <1>4, <1>5

----------------------------------------------------------------------------
(* Objects.                                                                *)

LEMMA InstanceChanged ==
  ASSUME InstanceInv, NEW i \in Instances, NEW new \in Instance \cup {NULL},
         inst' = [inst EXCEPT ![i] = new], UNCHANGED path
  PROVE  /\ inst' \in [Instances -> Instance \cup {NULL}]
         /\ path' \in [Paths -> Seq(Entry) \cup {NULL}]
         /\ \A d \in Objects : d # i => List(d)' = List(d)
         /\ List(i)' = IF new = NULL THEN NULL ELSE new.props
BY InstanceAssumption DEF InstanceInv, List, Objects

LEMMA PathChanged ==
  ASSUME InstanceInv, NEW p \in Paths, NEW new \in Seq(Entry) \cup {NULL},
         path' = [path EXCEPT ![p] = new], UNCHANGED inst
  PROVE  /\ inst' \in [Instances -> Instance \cup {NULL}]
         /\ path' \in [Paths -> Seq(Entry) \cup {NULL}]
         /\ \A d \in Objects : d # p => List(d)' = List(d)
         /\ List(p)' = new
BY InstanceAssumption DEF InstanceInv, List, Objects

\* The list of an object that is there.
LEMMA AliveInstance ==
  ASSUME InstanceInv, NEW i \in Instances, inst[i] # NULL
  PROVE  /\ inst[i] \in Instance /\ i \in Objects
         /\ List(i) = inst[i].props /\ List(i) # NULL /\ ListOf(i, inst[i].props)
         /\ OwnedBy(i) = Values(inst[i].props)
<1>1. inst[i] \in Instance /\ inst[i].props \in Seq(Entry)
  BY DEF InstanceInv, Instance
<1>2. i \in Objects /\ List(i) = inst[i].props /\ List(i) # NULL
  BY <1>1, ObjectKinds, NullAssumption
<1> QED
  BY <1>1, <1>2 DEF InstanceInv, OwnedBy

LEMMA AlivePath ==
  ASSUME InstanceInv, NEW p \in Paths, path[p] # NULL
  PROVE  /\ path[p] \in Seq(Entry) /\ p \in Objects
         /\ List(p) = path[p] /\ ListOf(p, path[p]) /\ OwnedBy(p) = Values(path[p])
<1>1. path[p] \in Seq(Entry)
  BY DEF InstanceInv
<1>2. p \in Objects /\ List(p) = path[p]
  BY ObjectKinds
<1> QED
  BY <1>1, <1>2 DEF InstanceInv, OwnedBy

LEMMA NoList ==
  ASSUME NEW o
  PROVE  ListOf(o, <<>>) /\ Values(<<>>) = {} /\ Source(<<>>)
BY DEF ListOf, Values, Owning, Source

\* A clone is given to an object that is not there.
LEMMA CloneKeepsInv ==
  ASSUME InstanceInv, NEW o \in Objects, List(o) = NULL, NEW list, Source(list),
         inst' \in [Instances -> Instance \cup {NULL}],
         path' \in [Paths -> Seq(Entry) \cup {NULL}],
         \A d \in Objects : d # o => List(d)' = List(d),
         List(o)' = Clone(o, list),
         heap' = WithClone(o, list),
         UNCHANGED <<lost, crashed>>
  PROVE  InstanceInv'
<1> DEFINE c == Clone(o, list)
<1>1. /\ ListOf(o, c)
      /\ DOMAIN heap' = DOMAIN heap \cup Values(c)
      /\ \A a \in DOMAIN heap' : heap'[a] \in Contents
  BY CloneOfList
<1>2. c # NULL
  BY <1>1, NullAssumption DEF ListOf
<1>3. OwnedBy(o) = {}
  BY DEF OwnedBy
<1>4. crashed' \in BOOLEAN
  BY DEF InstanceInv
<1> HIDE DEF c
<1>5. \A a : a \in DOMAIN heap' <=>
               \/ a \in DOMAIN heap /\ a \notin OwnedBy(o)
               \/ c # NULL /\ a \in Values(c)
  BY <1>1, <1>2, <1>3
<1>6. List(o)' = c
  BY DEF c
<1> QED
  BY <1>1, <1>4, <1>5, <1>6, ReplacedList

\* An object is released.
LEMMA ReleaseKeepsInv ==
  ASSUME InstanceInv, NEW o \in Objects,
         inst' \in [Instances -> Instance \cup {NULL}],
         path' \in [Paths -> Seq(Entry) \cup {NULL}],
         \A d \in Objects : d # o => List(d)' = List(d),
         List(o)' = NULL,
         heap' = Released(OwnedBy(o)),
         UNCHANGED <<lost, crashed>>
  PROVE  InstanceInv'
<1>1. DOMAIN heap' = DOMAIN heap \ OwnedBy(o) /\ \A a \in DOMAIN heap' : heap'[a] = heap[a]
  BY DEF Released
<1>2. crashed' \in BOOLEAN /\ \A a \in DOMAIN heap' : heap'[a] \in Contents
  BY <1>1 DEF InstanceInv
<1> DEFINE c == NULL
<1>3. \A a : a \in DOMAIN heap' <=>
               \/ a \in DOMAIN heap /\ a \notin OwnedBy(o)
               \/ c # NULL /\ a \in Values(c)
  BY <1>1
<1>4. List(o)' = c /\ (c # NULL => ListOf(o, c))
  OBVIOUS
<1> HIDE DEF c
<1> QED
  BY <1>2, <1>3, <1>4, ReplacedList

\* An entry is added to the list of an object, or one takes the place of
\* another; old is what it owned, and the value of the new one is stored.
LEMMA EntryKeepsInv ==
  ASSUME InstanceInv, NEW o \in Objects, List(o) # NULL, NEW c, NEW old, NEW e,
         inst' \in [Instances -> Instance \cup {NULL}],
         path' \in [Paths -> Seq(Entry) \cup {NULL}],
         \A d \in Objects : d # o => List(d)' = List(d),
         List(o)' = c,
         ListOf(o, c), Values(c) = (Values(List(o)) \ old) \cup Owns(e),
         old \subseteq OwnedBy(o),
         DOMAIN heap' = (DOMAIN heap \ old) \cup Owns(e),
         \A a \in DOMAIN heap' : heap'[a] \in Contents,
         UNCHANGED <<lost, crashed>>
  PROVE  InstanceInv'
<1>1. c # NULL
  BY NullAssumption DEF ListOf
<1>2. OwnedBy(o) = Values(List(o))
  BY DEF OwnedBy
<1>3. crashed' \in BOOLEAN
  BY DEF InstanceInv
<1>4. \A a \in OwnedBy(o) : a \in DOMAIN heap
  BY DEF InstanceInv
<1>5. \A a : a \in DOMAIN heap' <=>
               \/ a \in DOMAIN heap /\ a \notin OwnedBy(o)
               \/ c # NULL /\ a \in Values(c)
  BY <1>1, <1>2, <1>4
<1> QED
  BY <1>3, <1>5, ReplacedList

\* What is stored in the place of what is released.
LEMMA Stored ==
  ASSUME InstanceInv, NEW a, NEW value \in Contents, NEW old
  PROVE  /\ DOMAIN With(a, value, old) = (DOMAIN heap \ old) \cup {a}
         /\ \A b \in DOMAIN With(a, value, old) : With(a, value, old)[b] \in Contents
BY DEF With, InstanceInv

LEMMA CrashKeepsInv ==
  ASSUME Crash
  PROVE  InstanceInv'
<1>1. /\ inst' = [i \in Instances |-> NULL] /\ path' = [p \in Paths |-> NULL]
      /\ heap' = [a \in {} |-> NULL] /\ lost' = 0 /\ crashed' = TRUE
  BY DEF Crash
<1>2. \A o \in Objects : List(o)' = NULL
  BY <1>1 DEF List, Objects
<1>3. \A o \in Objects : OwnedBy(o)' = {}
  BY <1>2 DEF OwnedBy
<1>4. LostAddresses' = {}
  BY <1>1 DEF LostAddresses
<1> QED
  BY <1>1, <1>2, <1>3, <1>4 DEF InstanceInv

----------------------------------------------------------------------------
(* The operations on object paths.                                         *)

LEMMA NewPathKeepsInv ==
  ASSUME InstanceInv, NEW p \in Paths, newCMPIObjectPath(p)
  PROVE  InstanceInv'
<1> DEFINE c == <<>>
<1>1. /\ path[p] = NULL /\ path' = [path EXCEPT ![p] = c]
      /\ UNCHANGED <<inst, heap, lost, crashed>>
  BY DEF newCMPIObjectPath
<1>2. c \in Seq(Entry) /\ ListOf(p, c) /\ Values(c) = {}
  BY NoList
<1>3. p \in Objects /\ OwnedBy(p) = {}
  BY <1>1, ObjectKinds DEF OwnedBy
<1> HIDE DEF c
<1>4. /\ inst' \in [Instances -> Instance \cup {NULL}]
      /\ path' \in [Paths -> Seq(Entry) \cup {NULL}]
      /\ \A d \in Objects : d # p => List(d)' = List(d)
      /\ List(p)' = c
  BY <1>1, <1>2, PathChanged
<1>5. \A a : a \in DOMAIN heap' <=>
               \/ a \in DOMAIN heap /\ a \notin OwnedBy(p)
               \/ c # NULL /\ a \in Values(c)
  BY <1>1, <1>2, <1>3
<1>6. /\ crashed' \in BOOLEAN /\ UNCHANGED lost
      /\ \A a \in DOMAIN heap' : heap'[a] \in Contents
  BY <1>1 DEF InstanceInv
<1> QED
  BY <1>2, <1>3, <1>4, <1>5, <1>6, ReplacedList

LEMMA AddKeyKeepsInv ==
  ASSUME InstanceInv, NEW p \in Paths, NEW name \in Names, NEW value \in Inputs,
         addKey(p, name, value)
  PROVE  InstanceInv'
<1> DEFINE list == path[p]
<1>1. /\ list \in Seq(Entry) /\ p \in Objects /\ List(p) = list /\ List(p) # NULL
      /\ ListOf(p, list) /\ OwnedBy(p) = Values(list) /\ UNCHANGED <<inst, lost, crashed>>
  BY AlivePath DEF addKey
<1>2. CASE Has(list, name)
  <2>1. path' = [path EXCEPT ![p] = list] /\ UNCHANGED heap
    BY <1>2 DEF addKey, Add
  <2>2. UNCHANGED path
    BY <2>1 DEF InstanceInv
  <2> QED
    BY <1>1, <2>1, <2>2, InvUnchanged
<1>3. CASE ~Has(list, name)
  <2>1. \A k \in DOMAIN list : list[k].name # name
    BY <1>1, <1>3, PositionOfName DEF Has
  <2> DEFINE new == Fresh(p, name, DOMAIN heap)
             e == IF value = NULL THEN [name |-> name, state |-> "null", value |-> NoAddress]
                  ELSE [name |-> name, state |-> "key", value |-> new]
  <2>2. path' = [path EXCEPT ![p] = Append(list, e)]
    BY <1>3 DEF addKey, Add
  <2>3. IF value = NULL THEN UNCHANGED heap ELSE heap' = With(new, value, {})
    BY <1>3 DEF addKey
  <2>4. new \in AddressesOf(p, name) /\ new \in Addresses
    <3>1. AddressesOf(p, name) \cap DOMAIN heap = {}
      BY <1>1, <2>1, AddressesFree DEF Owning
    <3> QED
      BY <1>1, <3>1, FreshAddress
  <2> HIDE DEF new
  <2>5. EntryOf(p, e) /\ e.name = name /\ Owns(e) = IF value = NULL THEN {} ELSE {new}
    BY <2>4 DEF EntryOf, Entry, Owns
  <2>6. /\ DOMAIN heap' = (DOMAIN heap \ {}) \cup Owns(e)
        /\ \A a \in DOMAIN heap' : heap'[a] \in Contents
    <3>1. CASE value = NULL
      BY <2>3, <2>5, <3>1 DEF InstanceInv
    <3>2. CASE value # NULL
      <4>1. value \in Contents
        BY <3>2 DEF Inputs, Contents
      <4> QED
        BY <2>3, <2>5, <3>2, <4>1, Stored
    <3> QED
      BY <3>1, <3>2
  <2> HIDE DEF e, list
  <2> DEFINE c == Append(list, e)
  <2>7. ListOf(p, c) /\ Values(c) = (Values(list) \ {}) \cup Owns(e) /\ c \in Seq(Entry)
    <3>1. \A k \in DOMAIN list : list[k].name # e.name
      BY <2>1, <2>5
    <3>2. ListOf(p, list) /\ EntryOf(p, e)
      BY <1>1, <2>5
    <3>3. ListOf(p, c) /\ Values(c) = Values(list) \cup Owns(e)
      BY <3>1, <3>2, EntryAdded
    <3> HIDE DEF c
    <3>4. c \in Seq(Entry)
      BY <3>3 DEF ListOf
    <3> QED
      BY <3>3, <3>4
  <2>8. path' = [path EXCEPT ![p] = c]
    BY <2>2
  <2> HIDE DEF c
  <2>9. /\ inst' \in [Instances -> Instance \cup {NULL}]
        /\ path' \in [Paths -> Seq(Entry) \cup {NULL}]
        /\ \A d \in Objects : d # p => List(d)' = List(d)
        /\ List(p)' = c
    BY <1>1, <2>7, <2>8, PathChanged
  <2>10. UNCHANGED <<lost, crashed>>
    BY <1>1
  <2>11. p \in Objects /\ List(p) # NULL /\ ListOf(p, c)
    BY <1>1, <2>7
  <2> DEFINE old == {}
  <2>12. /\ Values(c) = (Values(List(p)) \ old) \cup Owns(e)
         /\ DOMAIN heap' = (DOMAIN heap \ old) \cup Owns(e)
         /\ old \subseteq OwnedBy(p)
    BY <1>1, <2>6, <2>7 DEF list
  <2> HIDE DEF old
  <2> QED
    BY <2>6, <2>9, <2>10, <2>11, <2>12, EntryKeepsInv
<1> QED
  BY <1>2, <1>3

LEMMA ClonePathKeepsInv ==
  ASSUME InstanceInv, NEW p \in Paths, NEW q \in Paths, ClonePath(p, q)
  PROVE  InstanceInv'
<1> DEFINE list == path[p]
           c == Clone(q, list)
<1>1. /\ path[p] # NULL /\ path[q] = NULL /\ path' = [path EXCEPT ![q] = c]
      /\ heap' = WithClone(q, list) /\ UNCHANGED <<inst, lost, crashed>>
  BY DEF ClonePath
<1>2. p \in Objects /\ List(p) = list /\ List(p) # NULL /\ q \in Objects /\ List(q) = NULL
  BY <1>1, ObjectKinds
<1>3. Source(list)
  BY <1>2, ListIsSource
<1> HIDE DEF list
<1>4. c \in Seq(Entry)
  BY <1>2, <1>3, CloneOfList DEF ListOf
<1>5. /\ inst' \in [Instances -> Instance \cup {NULL}]
      /\ path' \in [Paths -> Seq(Entry) \cup {NULL}]
      /\ \A d \in Objects : d # q => List(d)' = List(d)
      /\ List(q)' = c
  BY <1>1, <1>4, PathChanged
<1> QED
  BY <1>1, <1>2, <1>3, <1>5, CloneKeepsInv

LEMMA ReleasePathKeepsInv ==
  ASSUME InstanceInv, NEW p \in Paths, ReleasePath(p)
  PROVE  InstanceInv'
<1>1. /\ path[p] # NULL /\ path' = [path EXCEPT ![p] = NULL]
      /\ heap' = Released(Values(path[p])) /\ UNCHANGED <<inst, lost, crashed>>
  BY DEF ReleasePath
<1>2. p \in Objects /\ OwnedBy(p) = Values(path[p])
  BY <1>1, AlivePath
<1>3. /\ inst' \in [Instances -> Instance \cup {NULL}]
      /\ path' \in [Paths -> Seq(Entry) \cup {NULL}]
      /\ \A d \in Objects : d # p => List(d)' = List(d)
      /\ List(p)' = NULL
  BY <1>1, PathChanged
<1> QED
  BY <1>1, <1>2, <1>3, ReleaseKeepsInv

LEMMA PathOperationKeepsInv ==
  ASSUME InstanceInv, NEW p \in Paths, PathOperation(p)
  PROVE  InstanceInv'
BY NewPathKeepsInv, AddKeyKeepsInv, ClonePathKeepsInv, ReleasePathKeepsInv DEF PathOperation

----------------------------------------------------------------------------
(* The operations on instances.                                            *)

\* An instance or an object path is given a clone of a list, and an instance its
\* filter.
LEMMA InstanceMadeKeepsInv ==
  ASSUME InstanceInv, NEW i \in Instances, inst[i] = NULL, NEW list, Source(list),
         NEW filter \in Filter,
         inst' = [inst EXCEPT ![i] = [props |-> Clone(i, list), filter |-> filter]],
         heap' = WithClone(i, list), UNCHANGED <<path, lost, crashed>>
  PROVE  InstanceInv'
<1> DEFINE c == Clone(i, list)
           new == [props |-> c, filter |-> filter]
<1>1. i \in Objects /\ List(i) = NULL
  BY ObjectKinds
<1>2. c \in Seq(Entry)
  BY <1>1, CloneOfList DEF ListOf
<1> HIDE DEF c
<1>3. new \in Instance /\ new # NULL /\ new.props = c
  BY <1>2, NullAssumption DEF Instance
<1>4. inst' = [inst EXCEPT ![i] = new]
  BY DEF c
<1> HIDE DEF new
<1>5. /\ inst' \in [Instances -> Instance \cup {NULL}]
      /\ path' \in [Paths -> Seq(Entry) \cup {NULL}]
      /\ \A d \in Objects : d # i => List(d)' = List(d)
      /\ List(i)' = c
  BY <1>3, <1>4, InstanceChanged
<1>6. List(i)' = Clone(i, list)
  BY <1>5 DEF c
<1> QED
  BY <1>1, <1>5, <1>6, CloneKeepsInv

LEMMA NewInstanceKeepsInv ==
  ASSUME InstanceInv, NEW i \in Instances, NEW keys, Source(keys), newCMPIInstance(i, keys)
  PROVE  InstanceInv'
<1>1. Source(Reverse(keys))
  BY ReverseIsSource
<1>2. NoFilter \in Filter
  BY DEF NoFilter, Filter
<1> QED
  BY <1>1, <1>2, InstanceMadeKeepsInv DEF newCMPIInstance

LEMMA CloneInstanceKeepsInv ==
  ASSUME InstanceInv, NEW i \in Instances, NEW j \in Instances, CloneInstance(i, j)
  PROVE  InstanceInv'
<1>1. CASE WalksOff(inst[i].filter.keys)
  BY <1>1, CrashKeepsInv DEF WalksOff
<1>2. CASE ~WalksOff(inst[i].filter.keys)
  <2> DEFINE filter == [inst[i].filter EXCEPT !.filtered = FALSE]
             list == inst[i].props
  <2>1. /\ inst[i] # NULL /\ inst[j] = NULL
        /\ inst' = [inst EXCEPT ![j] = [props |-> Clone(j, list), filter |-> filter]]
        /\ heap' = WithClone(j, list) /\ UNCHANGED <<path, lost, crashed>>
    BY <1>2 DEF CloneInstance
  <2>2. inst[i] \in Instance /\ i \in Objects /\ List(i) = list /\ List(i) # NULL
    BY <2>1, AliveInstance
  <2>3. Source(list)
    BY <2>2, ListIsSource
  <2>4. filter \in Filter
    BY <2>2 DEF Instance, Filter
  <2> HIDE DEF filter, list
  <2> QED
    BY <2>1, <2>3, <2>4, InstanceMadeKeepsInv
<1> QED
  BY <1>1, <1>2

LEMMA ReleaseInstanceKeepsInv ==
  ASSUME InstanceInv, NEW i \in Instances, ReleaseInstance(i)
  PROVE  InstanceInv'
<1>1. CASE WalksOff(inst[i].filter.keys)
  BY <1>1, CrashKeepsInv DEF WalksOff
<1>2. CASE ~WalksOff(inst[i].filter.keys)
  <2>1. /\ inst[i] # NULL /\ inst' = [inst EXCEPT ![i] = NULL]
        /\ heap' = Released(Values(inst[i].props)) /\ UNCHANGED <<path, lost, crashed>>
    BY <1>2 DEF ReleaseInstance
  <2>2. i \in Objects /\ OwnedBy(i) = Values(inst[i].props)
    BY <2>1, AliveInstance
  <2>3. /\ inst' \in [Instances -> Instance \cup {NULL}]
        /\ path' \in [Paths -> Seq(Entry) \cup {NULL}]
        /\ \A d \in Objects : d # i => List(d)' = List(d)
        /\ List(i)' = NULL
    BY <2>1, InstanceChanged
  <2> QED
    BY <2>1, <2>2, <2>3, ReleaseKeepsInv
<1> QED
  BY <1>1, <1>2

LEMMA FilterKeepsInv ==
  ASSUME InstanceInv, NEW i \in Instances, NEW properties \in PropertyLists,
         NEW keys \in KeyLists, setPropertyFilter(i, properties, keys)
  PROVE  InstanceInv'
<1>1. CASE WalksOff(inst[i].filter.keys)
  BY <1>1, CrashKeepsInv DEF WalksOff
<1>2. CASE ~WalksOff(inst[i].filter.keys)
  <2> DEFINE filter == [filtered |-> TRUE, properties |-> properties, keys |-> keys]
             new == [inst[i] EXCEPT !.filter = filter]
  <2>1. inst[i] # NULL /\ inst' = [inst EXCEPT ![i] = new] /\ UNCHANGED <<path, heap, lost, crashed>>
    BY <1>2 DEF setPropertyFilter
  <2>2. inst[i] \in Instance /\ List(i) = inst[i].props /\ i \in Objects
    BY <2>1, AliveInstance
  <2>3. filter \in Filter
    BY DEF Filter
  <2> HIDE DEF filter
  <2>4. new \in Instance /\ new # NULL /\ new.props = inst[i].props
    BY <2>2, <2>3, NullAssumption DEF Instance
  <2> HIDE DEF new
  <2>5. /\ inst' \in [Instances -> Instance \cup {NULL}]
        /\ path' \in [Paths -> Seq(Entry) \cup {NULL}]
        /\ \A d \in Objects : List(d)' = List(d)
    BY <2>1, <2>2, <2>4, InstanceChanged
  <2>6. \A d \in Objects : OwnedBy(d)' = OwnedBy(d)
    BY <2>5 DEF OwnedBy, Values, Owning
  <2> QED
    BY <2>1, <2>5, <2>6 DEF InstanceInv, ListOf, Owning, LostAddresses
<1> QED
  BY <1>1, <1>2

\* The list of an instance is another one.
LEMMA PropsChanged ==
  ASSUME InstanceInv, NEW i \in Instances, inst[i] # NULL, NEW c \in Seq(Entry),
         inst' = [inst EXCEPT ![i] = [inst[i] EXCEPT !.props = c]], UNCHANGED path
  PROVE  /\ inst' \in [Instances -> Instance \cup {NULL}]
         /\ path' \in [Paths -> Seq(Entry) \cup {NULL}]
         /\ \A d \in Objects : d # i => List(d)' = List(d)
         /\ List(i)' = c
<1> DEFINE new == [inst[i] EXCEPT !.props = c]
<1>1. inst[i] \in Instance
  BY AliveInstance
<1>2. new \in Instance /\ new # NULL /\ new.props = c
  BY <1>1, NullAssumption DEF Instance
<1> HIDE DEF new
<1>3. inst' = [inst EXCEPT ![i] = new]
  BY DEF new
<1> QED
  BY <1>2, <1>3, InstanceChanged

LEMMA AddToKeepsInv ==
  ASSUME InstanceInv, NEW i \in Instances, inst[i] # NULL, NEW name \in Names,
         NEW value \in Inputs, \A k \in DOMAIN inst[i].props : inst[i].props[k].name # name,
         AddTo(i, name, value), UNCHANGED <<path, lost, crashed>>
  PROVE  InstanceInv'
<1> DEFINE list == inst[i].props
           null == value \in {NULL, NoChars}
           new == Fresh(i, name, DOMAIN heap)
           e == IF null THEN [name |-> name, state |-> "null", value |-> NoAddress]
                ELSE [name |-> name, state |-> "good", value |-> new]
           c == Append(list, e)
<1>1. /\ inst[i] \in Instance /\ i \in Objects /\ List(i) = list /\ List(i) # NULL
      /\ ListOf(i, list) /\ OwnedBy(i) = Values(list) /\ list \in Seq(Entry)
  BY AliveInstance DEF ListOf
<1>2. ~Has(list, name)
  BY <1>1, PositionOfName DEF Has
<1>3. inst' = [inst EXCEPT ![i].props = Add(@, name, e.state, e.value)]
  BY DEF AddTo
<1>4. inst' = [inst EXCEPT ![i] = [inst[i] EXCEPT !.props = c]]
  <2>1. Add(list, name, e.state, e.value) = c
    BY <1>2 DEF Add
  <2> QED
    BY <1>1, <1>3, <2>1 DEF InstanceInv
<1>5. IF null THEN UNCHANGED heap ELSE heap' = With(new, value, {})
  BY DEF AddTo
<1>6. new \in AddressesOf(i, name) /\ new \in Addresses
  <2>1. AddressesOf(i, name) \cap DOMAIN heap = {}
    BY <1>1, AddressesFree DEF Owning
  <2> QED
    BY <1>1, <2>1, FreshAddress
<1> HIDE DEF new
<1>7. EntryOf(i, e) /\ e.name = name /\ Owns(e) = IF null THEN {} ELSE {new}
  BY <1>6 DEF EntryOf, Entry, Owns
<1>8. /\ DOMAIN heap' = (DOMAIN heap \ {}) \cup Owns(e)
      /\ \A a \in DOMAIN heap' : heap'[a] \in Contents
  <2>1. CASE null
    BY <1>5, <1>7, <2>1 DEF InstanceInv
  <2>2. CASE ~null
    <3>1. value \in Contents
      BY <2>2 DEF Inputs, Contents
    <3> QED
      BY <1>5, <1>7, <2>2, <3>1, Stored
  <2> QED
    BY <2>1, <2>2
<1> HIDE DEF e, list
<1>9. ListOf(i, c) /\ Values(c) = (Values(list) \ {}) \cup Owns(e)
  <2>1. \A k \in DOMAIN list : list[k].name # e.name
    BY <1>7 DEF list
  <2> QED
    BY <1>1, <1>7, <2>1, EntryAdded
<1> HIDE DEF c
<1>10. c \in Seq(Entry)
  BY <1>9 DEF ListOf
<1>11. /\ inst' \in [Instances -> Instance \cup {NULL}]
       /\ path' \in [Paths -> Seq(Entry) \cup {NULL}]
       /\ \A d \in Objects : d # i => List(d)' = List(d)
       /\ List(i)' = c
  BY <1>4, <1>10, PropsChanged
<1>12. i \in Objects /\ List(i) # NULL /\ Values(c) = (Values(List(i)) \ {}) \cup Owns(e)
  BY <1>1, <1>9
<1>13. ListOf(i, c) /\ {} \subseteq OwnedBy(i) /\ UNCHANGED <<lost, crashed>>
  BY <1>9
<1> HIDE DEF null
<1> DEFINE old == {}
<1>14. /\ Values(c) = (Values(List(i)) \ old) \cup Owns(e)
       /\ DOMAIN heap' = (DOMAIN heap \ old) \cup Owns(e)
       /\ old \subseteq OwnedBy(i)
  BY <1>8, <1>12
<1> HIDE DEF old
<1>15. \A a \in DOMAIN heap' : heap'[a] \in Contents
  BY <1>8
<1>16. i \in Objects /\ List(i) # NULL /\ ListOf(i, c) /\ UNCHANGED <<lost, crashed>>
  BY <1>12, <1>13
<1> QED
  BY <1>11, <1>14, <1>15, <1>16, EntryKeepsInv

\* What is stored in a property that is null.
LEMMA LostKeepsInv ==
  ASSUME InstanceInv, NEW value \in Contents, heap' = With(<<lost + 1>>, value, {}),
         lost' = lost + 1, UNCHANGED <<inst, path, crashed>>
  PROVE  InstanceInv'
<1>1. /\ DOMAIN heap' = (DOMAIN heap \ {}) \cup {<<lost + 1>>}
      /\ \A a \in DOMAIN heap' : heap'[a] \in Contents
  BY Stored
<1>2. lost \in Nat /\ lost' \in Nat
  BY DEF InstanceInv
<1>3. LostAddresses' = LostAddresses \cup {<<lost + 1>>}
  <2>1. 1..lost' = 1..lost \cup {lost + 1}
    BY <1>2
  <2> QED
    BY <2>1 DEF LostAddresses
<1>4. \A o \in Objects : List(o)' = List(o)
  BY DEF List
<1>5. \A o \in Objects : OwnedBy(o)' = OwnedBy(o)
  BY <1>4 DEF OwnedBy, Values, Owning
<1>6. \A a : a \in DOMAIN heap' <=> a \in LostAddresses' \/ \E o \in Objects : a \in OwnedBy(o)'
  BY <1>1, <1>3, <1>5 DEF InstanceInv
<1>7. \A o \in Objects : List(o)' # NULL => ListOf(o, List(o)')
  BY <1>4 DEF InstanceInv
<1> QED
  BY <1>1, <1>2, <1>6, <1>7 DEF InstanceInv, ListOf, Owning

LEMMA SetKeepsInv ==
  ASSUME InstanceInv, NEW i \in Instances, inst[i] # NULL, NEW k \in DOMAIN inst[i].props,
         NEW value \in Inputs, Set(i, k, value), UNCHANGED <<path, crashed>>
  PROVE  InstanceInv'
<1> DEFINE list == inst[i].props
           old == list[k]
           new == Fresh(i, old.name, DOMAIN heap \ {old.value})
           e == IF value = NULL THEN [old EXCEPT !.state = "null", !.value = NoAddress]
                ELSE [old EXCEPT !.value = new]
           c == [list EXCEPT ![k] = e]
<1>1. /\ inst[i] \in Instance /\ i \in Objects /\ List(i) = list /\ List(i) # NULL
      /\ ListOf(i, list) /\ OwnedBy(i) = Values(list) /\ list \in Seq(Entry)
  BY AliveInstance DEF ListOf
<1>2. old \in Entry /\ old.name \in Names
  <2>1. k \in DOMAIN list
    OBVIOUS
  <2> HIDE DEF list
  <2>2. old \in Entry
    BY <1>1, <2>1, ListDomain
  <2> HIDE DEF old
  <2> QED
    BY <2>2 DEF Entry
<1>3. CASE old.state = "null"
  <2>1. CASE value = NULL
    BY <1>3, <2>1, InvUnchanged DEF Set
  <2>2. CASE value # NULL
    <3>1. heap' = With(<<lost + 1>>, value, {}) /\ lost' = lost + 1 /\ UNCHANGED inst
      BY <1>3, <2>2 DEF Set
    <3>2. value \in Contents
      BY <2>2 DEF Inputs, Contents
    <3> QED
      BY <3>1, <3>2, LostKeepsInv
  <2> QED
    BY <2>1, <2>2
<1>4. CASE old.state # "null"
  <2>1. Owns(old) = {old.value} /\ old.value \in Values(list)
    BY <1>4 DEF Owns, Values, Owning
  <2>2. new \in AddressesOf(i, old.name) /\ new \in Addresses
    <3>1. ASSUME NEW a \in AddressesOf(i, old.name), a \in DOMAIN heap
          PROVE  a = old.value
      <4>1. PICK d \in Objects : a \in OwnedBy(d)
        BY <3>1, LostApart DEF InstanceInv, LostAddresses
      <4>2. List(d) # NULL /\ a \in Values(List(d)) /\ ListOf(d, List(d))
        BY <4>1 DEF OwnedBy, InstanceInv
      <4>3. PICK j \in Owning(List(d)) :
              a = List(d)[j].value /\ a \in AddressesOf(d, List(d)[j].name)
        BY <4>2, OwnsItsOwn
      <4>4. d = i /\ List(d)[j].name = old.name
        BY <4>3 DEF AddressesOf
      <4>5. j \in DOMAIN list /\ list[j].name = list[k].name /\ a = list[j].value
        BY <1>1, <4>3, <4>4 DEF Owning
      <4>6. j = k
        BY <1>1, <4>5 DEF ListOf
      <4> QED
        BY <4>5, <4>6
    <3>2. AddressesOf(i, old.name) \cap (DOMAIN heap \ {old.value}) = {}
      BY <3>1
    <3> QED
      BY <1>1, <1>2, <3>2, FreshAddress
  <2>3. IF value = NULL
          THEN /\ inst' = [inst EXCEPT ![i].props[k] = [@ EXCEPT !.state = "null", !.value = NoAddress]]
               /\ heap' = Released({old.value}) /\ UNCHANGED lost
          ELSE /\ inst' = [inst EXCEPT ![i].props[k].value = new]
               /\ heap' = With(new, value, {old.value}) /\ UNCHANGED lost
    BY <1>4 DEF Set
  <2>4. inst' = [inst EXCEPT ![i] = [inst[i] EXCEPT !.props = c]]
    <3> HIDE DEF new
    <3>1. CASE value = NULL
      BY <2>3, <3>1
    <3>2. CASE value # NULL
      BY <2>3, <3>2
    <3> QED
      BY <3>1, <3>2
  <2> HIDE DEF new
  <2>5. /\ EntryOf(i, e) /\ e.name = old.name
        /\ Owns(e) = IF value = NULL THEN {} ELSE {new}
    BY <1>2, <1>4, <2>2 DEF EntryOf, Entry, Owns
  <2>6. /\ DOMAIN heap' = (DOMAIN heap \ Owns(old)) \cup Owns(e)
        /\ \A a \in DOMAIN heap' : heap'[a] \in Contents
    <3>1. CASE value = NULL
      BY <2>1, <2>3, <2>5, <3>1 DEF InstanceInv, Released
    <3>2. CASE value # NULL
      <4>1. value \in Contents
        BY <3>2 DEF Inputs, Contents
      <4>2. heap' = With(new, value, Owns(old)) /\ Owns(e) = {new}
        BY <2>1, <2>3, <2>5, <3>2
      <4> HIDE DEF old, e
      <4> QED
        BY <4>1, <4>2, Stored
    <3> QED
      BY <3>1, <3>2
  <2>7. ListOf(i, c) /\ Values(c) = (Values(list) \ Owns(old)) \cup Owns(e)
    <3>1. k \in DOMAIN list /\ ListOf(i, list) /\ EntryOf(i, e) /\ e.name = list[k].name
      BY <1>1, <2>5
    <3>2. /\ c \in Seq(Entry) /\ DOMAIN c = DOMAIN list /\ c[k] = e
          /\ \A j \in DOMAIN list : j # k => c[j] = list[j]
      <4>1. list \in Seq(Entry) /\ e \in Entry
        BY <1>1, <2>5 DEF EntryOf
      <4> HIDE DEF e, list
      <4> QED
        BY <3>1, <4>1
    <3> HIDE DEF e, list, c
    <3> QED
      BY <3>1, <3>2, EntryReplaced
  <2> HIDE DEF c, old, e, list
  <2>8. c \in Seq(Entry)
    BY <2>7 DEF ListOf
  <2>9. /\ inst' \in [Instances -> Instance \cup {NULL}]
        /\ path' \in [Paths -> Seq(Entry) \cup {NULL}]
        /\ \A d \in Objects : d # i => List(d)' = List(d)
        /\ List(i)' = c
    BY <2>4, <2>8, PropsChanged
  <2>10. Owns(old) \subseteq OwnedBy(i) /\ UNCHANGED <<lost, crashed>>
    BY <1>1, <2>1, <2>3
  <2> QED
    BY <1>1, <2>6, <2>7, <2>9, <2>10, EntryKeepsInv
<1> QED
  BY <1>3, <1>4

LEMMA SetPropertyKeepsInv ==
  ASSUME InstanceInv, NEW i \in Instances, NEW name \in Names, NEW value \in Inputs,
         setProperty(i, name, value)
  PROVE  InstanceInv'
<1> DEFINE k == Position(inst[i].props, name)
<1>1. inst[i] # NULL
  BY DEF setProperty
<1>2. inst[i].props \in Seq(Entry)
  BY <1>1, AliveInstance DEF ListOf
<1>3. \/ k # 0 /\ Set(i, k, value) /\ UNCHANGED <<path, crashed>>
      \/ k = 0 /\ AddTo(i, name, value) /\ UNCHANGED <<path, lost, crashed>>
      \/ UNCHANGED vars
      \/ Crash
  BY DEF setProperty, WalksOff
<1>4. IF k = 0 THEN \A j \in DOMAIN inst[i].props : inst[i].props[j].name # name
      ELSE k \in DOMAIN inst[i].props
  BY <1>2, PositionOfName
<1> HIDE DEF k
<1>5. CASE k # 0 /\ Set(i, k, value) /\ UNCHANGED <<path, crashed>>
  BY <1>1, <1>4, <1>5, SetKeepsInv
<1>6. CASE k = 0 /\ AddTo(i, name, value) /\ UNCHANGED <<path, lost, crashed>>
  BY <1>1, <1>4, <1>6, AddToKeepsInv
<1>7. CASE UNCHANGED vars
  BY <1>7, InvUnchanged DEF vars
<1>8. CASE Crash
  BY <1>8, CrashKeepsInv
<1> QED
  BY <1>3, <1>5, <1>6, <1>7, <1>8

LEMMA GetObjectPathKeepsInv ==
  ASSUME InstanceInv, NEW i \in Instances, NEW p \in Paths, getObjectPath(i, p)
  PROVE  InstanceInv'
<1> DEFINE list == PathKeys(inst[i].props)
           c == Clone(p, list)
<1>1. /\ inst[i] # NULL /\ path[p] = NULL /\ path' = [path EXCEPT ![p] = c]
      /\ heap' = WithClone(p, list) /\ UNCHANGED <<inst, lost, crashed>>
  BY DEF getObjectPath
<1>2. p \in Objects /\ List(p) = NULL
  BY <1>1, ObjectKinds
<1>3. Source(list)
  <2>1. Source(inst[i].props)
    BY <1>1, AliveInstance, ListIsSource
  <2> QED
    BY <2>1, KeysAreSource
<1> HIDE DEF list
<1>4. c \in Seq(Entry)
  BY <1>2, <1>3, CloneOfList DEF ListOf
<1>5. /\ inst' \in [Instances -> Instance \cup {NULL}]
      /\ path' \in [Paths -> Seq(Entry) \cup {NULL}]
      /\ \A d \in Objects : d # p => List(d)' = List(d)
      /\ List(p)' = c
  BY <1>1, <1>4, PathChanged
<1> QED
  BY <1>1, <1>2, <1>3, <1>5, CloneKeepsInv

LEMMA InstanceOperationKeepsInv ==
  ASSUME InstanceInv, NEW i \in Instances, InstanceOperation(i)
  PROVE  InstanceInv'
<1>1. CASE newCMPIInstance(i, <<>>)
  BY <1>1, NoList, NewInstanceKeepsInv
<1>2. ASSUME NEW p \in Paths, path[p] # NULL, newCMPIInstance(i, path[p])
      PROVE  InstanceInv'
  <2>1. Source(path[p])
    BY <1>2, AlivePath, ListIsSource
  <2> QED
    BY <1>2, <2>1, NewInstanceKeepsInv
<1>3. ASSUME NEW j \in Instances, CloneInstance(i, j)
      PROVE  InstanceInv'
  BY <1>3, CloneInstanceKeepsInv
<1>4. CASE ReleaseInstance(i)
  BY <1>4, ReleaseInstanceKeepsInv
<1>5. ASSUME NEW properties \in PropertyLists, NEW keys \in KeyLists,
             setPropertyFilter(i, properties, keys)
      PROVE  InstanceInv'
  BY <1>5, FilterKeepsInv
<1>6. ASSUME NEW name \in Names, NEW value \in Inputs, setProperty(i, name, value)
      PROVE  InstanceInv'
  BY <1>6, SetPropertyKeepsInv
<1>7. ASSUME NEW name \in Names, setPropertyToItsOwn(i, name)
      PROVE  InstanceInv'
  BY <1>7, CrashKeepsInv DEF setPropertyToItsOwn
<1>8. ASSUME NEW p \in Paths, getObjectPath(i, p)
      PROVE  InstanceInv'
  BY <1>8, GetObjectPathKeepsInv
<1> QED
  BY <1>1, <1>2, <1>3, <1>4, <1>5, <1>6, <1>7, <1>8 DEF InstanceOperation

----------------------------------------------------------------------------
(* The theorems about instances and object paths.                          *)

LEMMA InitInstanceInv ==
  ASSUME Init
  PROVE  InstanceInv
<1>1. \A o \in Objects : List(o) = NULL
  BY DEF Init, List, Objects
<1>2. \A o \in Objects : OwnedBy(o) = {}
  BY <1>1 DEF OwnedBy
<1>3. LostAddresses = {}
  BY DEF Init, LostAddresses
<1> QED
  BY <1>1, <1>2, <1>3 DEF Init, InstanceInv

\* Whatever an operation of the program does, see Next.
LEMMA InstanceNextKeepsInv ==
  ASSUME InstanceInv, [Next]_vars
  PROVE  InstanceInv'
<1>1. ASSUME NEW p \in Paths, PathOperation(p)
      PROVE  InstanceInv'
  BY <1>1, PathOperationKeepsInv
<1>2. ASSUME NEW i \in Instances, InstanceOperation(i)
      PROVE  InstanceInv'
  BY <1>2, InstanceOperationKeepsInv
<1>3. CASE UNCHANGED vars
  BY <1>3, InvUnchanged DEF vars
<1> QED
  BY <1>1, <1>2, <1>3 DEF Next

\* The types follow from what each list says.
LEMMA InvTyped ==
  ASSUME InstanceInv
  PROVE  TypeOK
<1>1. ASSUME NEW o \in Alive
      PROVE  \A j, k \in DOMAIN List(o) : List(o)[j].name = List(o)[k].name => j = k
  BY DEF Alive, InstanceInv, ListOf
<1>2. ASSUME NEW a \in DOMAIN heap, a \notin LostAddresses
      PROVE  a \in Addresses
  <2>1. PICK o \in Objects : a \in OwnedBy(o)
    BY <1>2 DEF InstanceInv
  <2>2. List(o) # NULL /\ a \in Values(List(o)) /\ ListOf(o, List(o))
    BY <2>1 DEF OwnedBy, InstanceInv
  <2>3. PICK k \in Owning(List(o)) : a \in AddressesOf(o, List(o)[k].name)
    BY <2>2, OwnsItsOwn
  <2>4. List(o)[k] \in Entry
    <3>1. k \in DOMAIN List(o) /\ List(o) \in Seq(Entry)
      BY <2>2, <2>3 DEF Owning, ListOf
    <3> QED
      BY <3>1, ListDomain
  <2>5. List(o)[k].name \in Names
    BY <2>4 DEF Entry
  <2> QED
    BY <2>3, <2>5 DEF AddressesOf, Addresses
<1> QED
  BY <1>1, <1>2 DEF TypeOK, InstanceInv

\* What OneOwner says of the entries of all lists follows from it too.
LEMMA InvOneOwner ==
  ASSUME InstanceInv
  PROVE  OneOwner
<1>1. ASSUME NEW e \in Holders
      PROVE  /\ e = <<e[1], e[2]>> /\ e[1] \in Objects /\ List(e[1]) # NULL
             /\ ListOf(e[1], List(e[1])) /\ e[2] \in Owning(List(e[1]))
             /\ Held(e) \in AddressesOf(e[1], List(e[1])[e[2]].name)
  <2>1. /\ e = <<e[1], e[2]>> /\ e[1] \in Objects /\ List(e[1]) # NULL
        /\ e[2] \in Owning(List(e[1]))
    BY DEF Holders, Entries, Alive, Owning
  <2>2. ListOf(e[1], List(e[1]))
    BY <2>1 DEF InstanceInv
  <2> QED
    BY <2>1, <2>2 DEF ListOf, Held
<1>2. ASSUME NEW e \in Holders, NEW f \in Holders, Held(e) = Held(f)
      PROVE  e = f
  <2>1. e[1] = f[1] /\ List(e[1])[e[2]].name = List(f[1])[f[2]].name
    BY <1>1, <1>2 DEF AddressesOf
  <2>2. e[2] = f[2]
    BY <1>1, <2>1 DEF ListOf, Owning
  <2> QED
    BY <1>1, <2>1, <2>2
<1>3. \A a : a \in DOMAIN heap <=> a \in LostAddresses \/ a \in {Held(e) : e \in Holders}
  <2> TAKE a
  <2>1. ASSUME a \in DOMAIN heap, a \notin LostAddresses
        PROVE  a \in {Held(e) : e \in Holders}
    <3>1. PICK o \in Objects : a \in OwnedBy(o)
      BY <2>1 DEF InstanceInv
    <3>2. PICK k \in Owning(List(o)) : List(o) # NULL /\ a = List(o)[k].value
      BY <3>1 DEF OwnedBy, Values
    <3>3. <<o, k>> \in Entries
      BY <3>2 DEF Entries, Alive, Owning
    <3>4. <<o, k>> \in Holders /\ Held(<<o, k>>) = a
      BY <3>2, <3>3 DEF Holders, Held, Owning
    <3> QED
      BY <3>4
  <2>2. ASSUME NEW e \in Holders, a = Held(e)
        PROVE  a \in DOMAIN heap
    <3>1. a \in OwnedBy(e[1])
      BY <1>1, <2>2 DEF OwnedBy, Values, Held
    <3> QED
      BY <1>1, <3>1 DEF InstanceInv
  <2>3. a \in LostAddresses => a \in DOMAIN heap
    BY DEF InstanceInv
  <2> QED
    BY <2>1, <2>2, <2>3
<1>4. DOMAIN heap = {Held(e) : e \in Holders} \cup LostAddresses
  BY <1>3
<1> QED
  BY <1>2, <1>4 DEF OneOwner

\* The variables keep their types and no list has two entries of a name, which
\* __getProperty would never find: whatever __addProperty, __setProperty, the
\* clones and getObjectPath do, in whatever order, for any instances, paths,
\* names and values.
THEOREM InstanceTypes == Spec => []TypeOK
<1>1. Init => InstanceInv
  BY InitInstanceInv
<1>2. InstanceInv /\ [Next]_vars => InstanceInv'
  BY InstanceNextKeepsInv
<1>3. InstanceInv => TypeOK
  BY InvTyped
<1> QED
  BY <1>1, <1>2, <1>3, PTL DEF Spec

\* No value of a property or key has two owners, none is released while it has
\* one, and what is allocated is owned or was stored in a property that was null
\* (property.c, line 130): the clones and releases of instance.c, objectpath.c and
\* property.c, paths made from instances and instances from paths, values set,
\* added and made null.
THEOREM ValuesHaveOneOwner == Spec => []OneOwner
<1>1. Init => InstanceInv
  BY InitInstanceInv
<1>2. InstanceInv /\ [Next]_vars => InstanceInv'
  BY InstanceNextKeepsInv
<1>3. InstanceInv => OneOwner
  BY InvOneOwner
<1> QED
  BY <1>1, <1>2, <1>3, PTL DEF Spec

==============================================================================
