--------------------------- MODULE CimArray_Proofs ---------------------------
(***************************************************************************)
(* Every value of an array has one owner, but for those that are           *)
(* overwritten: for any arrays, enumerations, types, sizes and first       *)
(* blocks.                                                                 *)
(***************************************************************************)
EXTENDS CimArray, SequenceTheorems, TLAPS

\* An address that was allocated for the element i of a tells so.
AddressesOf(a, i) == {<<a, i, 1>>, <<a, i, 2>>}

\* A block that is the array a's: an element's value was allocated for it, what
\* nobody wrote has none, nor has what is behind the last element.
Belongs(a, item, i) ==
  /\ item \in Items
  /\ item.value \in {NoAddress} \cup AddressesOf(a, i)
  /\ item.state = "raw" => item.value = NoAddress

BlockOf(a, d) ==
  /\ d \in Blocks
  /\ d.data \in [1..d.max -> Items]
  /\ d.size <= d.max
  /\ d.dynamic => d.max > 0
  /\ \A i \in 1..d.max : Belongs(a, d.data[i], i)
  /\ \A i \in 1..d.max : i > d.size => d.data[i].value = NoAddress

UsedBy(a) == IF arr[a] = NULL THEN {} ELSE Used(arr[a])

ArrayInv ==
  /\ arr \in [Arrays -> Blocks \cup {NULL}]
  /\ \A a \in Arrays : arr[a] # NULL => BlockOf(a, arr[a])
  /\ holders \subseteq Arrays
  /\ enum \in [Enums -> [data : Arrays, current : Nat] \cup {NULL}]
  /\ lost \in Nat
  /\ \A x : x \in DOMAIN heap <=> x \in LostAddresses \/ \E a \in Arrays : x \in UsedBy(a)

\* What is lost has an address of its own kind.
LEMMA LostApart ==
  ASSUME NEW a, NEW i, NEW x \in AddressesOf(a, i)
  PROVE  \A n : x # <<n>>
<1>1. Len(x) = 3
  BY DEF AddressesOf
<1>2. \A n : Len(<<n>>) = 1
  OBVIOUS
<1> QED
  BY <1>1, <1>2

LEMMA AddressIsValue ==
  ASSUME NEW a \in Arrays, NEW i \in Nat, NEW x \in AddressesOf(a, i)
  PROVE  x \in {NoAddress} \cup (Arrays \X Nat \X {1, 2})
BY DEF AddressesOf

LEMMA DataIsList ==
  ASSUME NEW n \in Nat, NEW data \in [1..n -> Items]
  PROVE  data \in Seq(Items)
BY SeqDef

LEMMA UsedNamesArray ==
  ASSUME NEW a, NEW d, BlockOf(a, d), NEW x \in Used(d)
  PROVE  \E i \in 1..d.size : x \in AddressesOf(a, i) /\ x = d.data[i].value
<1>1. PICK i \in 1..d.size : x = d.data[i].value /\ x # NoAddress
  BY DEF Used
<1>2. i \in 1..d.max
  BY DEF BlockOf, Blocks
<1> QED
  BY <1>1, <1>2 DEF BlockOf, Belongs

\* No two arrays use the same value.
LEMMA UsedApart ==
  ASSUME NEW a, NEW b, NEW c, NEW d, BlockOf(a, c), BlockOf(b, d), a # b
  PROVE  Used(c) \cap Used(d) = {}
<1> SUFFICES ASSUME NEW x \in Used(c), x \in Used(d)
             PROVE  FALSE
  OBVIOUS
<1>1. \E i : x \in AddressesOf(a, i)
  BY UsedNamesArray
<1>2. \E i : x \in AddressesOf(b, i)
  BY UsedNamesArray
<1> QED
  BY <1>1, <1>2 DEF AddressesOf

LEMMA UsedNotLost ==
  ASSUME ArrayInv, NEW a \in Arrays
  PROVE  UsedBy(a) \cap LostAddresses = {}
<1> SUFFICES ASSUME NEW x \in UsedBy(a)
             PROVE  x \notin LostAddresses
  OBVIOUS
<1>1. \E i : x \in AddressesOf(a, i)
  BY UsedNamesArray DEF UsedBy, ArrayInv
<1> QED
  BY <1>1, LostApart DEF LostAddresses

\* An array is replaced, and the heap follows; more may be lost.
LEMMA ReplacedAndLost ==
  ASSUME ArrayInv, ArrayAssumption, NEW a \in Arrays, NEW d, arr' = [arr EXCEPT ![a] = d],
         d = NULL \/ BlockOf(a, d), holders' \subseteq Arrays,
         enum' \in [Enums -> [data : Arrays, current : Nat] \cup {NULL}],
         lost' \in Nat, LostAddresses \subseteq LostAddresses',
         \A x : x \in DOMAIN heap' <=>
                  \/ x \in LostAddresses'
                  \/ x \in DOMAIN heap /\ x \notin UsedBy(a)
                  \/ d # NULL /\ x \in Used(d)
  PROVE  ArrayInv'
<1>1. arr' \in [Arrays -> Blocks \cup {NULL}]
  BY DEF ArrayInv, BlockOf
<1>2. arr'[a] = d /\ \A b \in Arrays \ {a} : arr'[b] = arr[b]
  BY DEF ArrayInv
<1>3. \A b \in Arrays : arr'[b] # NULL => BlockOf(b, arr'[b])
  BY <1>2 DEF ArrayInv
<1>4. UsedBy(a)' = (IF d = NULL THEN {} ELSE Used(d)) /\ \A b \in Arrays \ {a} : UsedBy(b)' = UsedBy(b)
  BY <1>2, ZenonT(30) DEF UsedBy, Used
<1>5. ASSUME NEW b \in Arrays \ {a}, NEW x \in UsedBy(b)
      PROVE  x \notin UsedBy(a)
  BY <1>5, UsedApart DEF UsedBy, ArrayInv
<1>6. \A x : x \in DOMAIN heap' <=> x \in LostAddresses' \/ \E b \in Arrays : x \in UsedBy(b)'
  <2> TAKE x
  <2>1. x \in DOMAIN heap <=> x \in LostAddresses \/ \E b \in Arrays : x \in UsedBy(b)
    BY DEF ArrayInv
  <2>2. CASE x \in LostAddresses'
    BY <2>2
  <2>3. CASE x \notin LostAddresses' /\ d = NULL
    BY <1>4, <1>5, <2>1, <2>3
  <2>4. CASE x \notin LostAddresses' /\ d # NULL
    BY <1>4, <1>5, <2>1, <2>4
  <2> QED
    BY <2>2, <2>3, <2>4
<1> QED
  BY <1>1, <1>3, <1>6 DEF ArrayInv

LEMMA Replaced ==
  ASSUME ArrayInv, ArrayAssumption, NEW a \in Arrays, NEW d, arr' = [arr EXCEPT ![a] = d],
         d = NULL \/ BlockOf(a, d), holders' \subseteq Arrays,
         enum' \in [Enums -> [data : Arrays, current : Nat] \cup {NULL}],
         lost' = lost,
         \A x : x \in DOMAIN heap' <=>
                  \/ x \in DOMAIN heap /\ x \notin UsedBy(a)
                  \/ d # NULL /\ x \in Used(d)
  PROVE  ArrayInv'
<1>1. LostAddresses' = LostAddresses /\ lost' \in Nat
  BY DEF LostAddresses, ArrayInv
<1>2. \A x \in LostAddresses : x \in DOMAIN heap /\ x \notin UsedBy(a)
  BY UsedNotLost DEF ArrayInv
<1> QED
  BY <1>1, <1>2, ReplacedAndLost

-----------------------------------------------------------------------------
(* Blocks.                                                                 *)

LEMMA NewBlock ==
  ASSUME ArrayAssumption, NEW a \in Arrays, NEW type \in Types, NEW size \in Nat
  PROVE  BlockOf(a, NewArray(type, size)) /\ Used(NewArray(type, size)) = {}
<1> DEFINE max == IF size = 0 THEN InitialMax ELSE size
           d == NewArray(type, size)
<1>1. max \in Nat /\ size <= max /\ (size = 0 => max > 0)
  BY DEF ArrayAssumption
<1>2. NullItem \in Items /\ NullItem.value = NoAddress /\ NullItem.state = "null"
  BY DEF NullItem, Item, Items
<1>3. [i \in 1..max |-> NullItem] \in [1..max -> Items]
  BY <1>2
<1>4. /\ d.type = type /\ d.size = size /\ d.max = max /\ d.dynamic = (size = 0)
      /\ d.data = [i \in 1..max |-> NullItem]
      /\ d = [type |-> type, size |-> size, max |-> max, dynamic |-> size = 0,
              data |-> [i \in 1..max |-> NullItem]]
  BY DEF NewArray
<1>5. d \in Blocks
  BY <1>1, <1>3, <1>4 DEF Blocks
<1> HIDE DEF max, d
<1>6. \A i \in 1..max : Belongs(a, d.data[i], i) /\ d.data[i].value = NoAddress
  BY <1>2, <1>4 DEF Belongs
<1>7. BlockOf(a, d)
  BY <1>1, <1>3, <1>4, <1>5, <1>6 DEF BlockOf
<1>8. Used(d) = {}
  BY <1>1, <1>4, <1>6 DEF Used
<1> QED
  BY <1>7, <1>8 DEF d

\* One element of a block is written.
LEMMA ItemWritten ==
  ASSUME NEW a \in Arrays, NEW b, BlockOf(a, b), NEW i \in 1..b.size, NEW item,
         Belongs(a, item, i)
  PROVE  LET c == [b EXCEPT !.data[i] = item]
         IN /\ BlockOf(a, c) /\ c.size = b.size
            /\ Used(c) = (Used(b) \ {b.data[i].value}) \cup ({item.value} \ {NoAddress})
<1> DEFINE c == [b EXCEPT !.data[i] = item]
<1>1. b \in Blocks /\ b.data \in [1..b.max -> Items] /\ b.size \in Nat /\ b.max \in Nat
  BY DEF BlockOf, Blocks
<1>2. i \in 1..b.max /\ item \in Items
  BY <1>1 DEF BlockOf, Belongs
<1>3. /\ c.type = b.type /\ c.size = b.size /\ c.max = b.max /\ c.dynamic = b.dynamic
      /\ c.data = [b.data EXCEPT ![i] = item]
  BY <1>1 DEF Blocks
<1>4. c.data \in [1..b.max -> Items]
  BY <1>1, <1>2, <1>3
<1>5. c \in Blocks
  <2> DEFINE data == [b.data EXCEPT ![i] = item]
  <2>1. PICK n \in Nat : data \in [1..n -> Items]
    BY <1>1, <1>3, <1>4
  <2>2. c = [b EXCEPT !.data = data]
    OBVIOUS
  <2> HIDE DEF data, c
  <2>3. [b EXCEPT !.data = data] \in Blocks
    BY <1>1, <2>1 DEF Blocks
  <2> QED
    BY <2>2, <2>3
<1> HIDE DEF c
<1>6. \A j \in 1..b.max : c.data[j] = IF j = i THEN item ELSE b.data[j]
  BY <1>1, <1>3
<1>7. \A j \in 1..b.max : Belongs(a, c.data[j], j)
  BY <1>6 DEF BlockOf
<1>8. \A j \in 1..b.max : j > b.size => c.data[j].value = NoAddress
  BY <1>1, <1>6 DEF BlockOf
<1>9. BlockOf(a, c)
  BY <1>3, <1>4, <1>5, <1>7, <1>8 DEF BlockOf
<1>10. Used(c) = (Used(b) \ {b.data[i].value}) \cup ({item.value} \ {NoAddress})
  <2>1. \A j \in 1..b.size : j \in 1..b.max
    BY <1>1 DEF BlockOf
  <2>2. \A j \in 1..b.size : b.data[j].value \in {NoAddress} \cup AddressesOf(a, j)
    BY <2>1 DEF BlockOf, Belongs
  <2>3. ASSUME NEW j \in 1..b.size, j # i, b.data[j].value = b.data[i].value
        PROVE  b.data[j].value = NoAddress
    <3>1. \A m, n : m # n => AddressesOf(a, m) \cap AddressesOf(a, n) = {}
      BY DEF AddressesOf
    <3> QED
      BY <2>2, <2>3, <3>1
  <2>4. Used(c) = {c.data[j].value : j \in 1..b.size} \ {NoAddress}
    BY <1>3 DEF Used
  <2>5. \A x : x \in Used(c) <=> x # NoAddress /\ \E j \in 1..b.size : x = c.data[j].value
    BY <2>4
  <2>6. \A x : x \in Used(b) <=> x # NoAddress /\ \E j \in 1..b.size : x = b.data[j].value
    BY DEF Used
  <2> QED
    BY <1>6, <2>1, <2>3, <2>5, <2>6
<1> QED
  BY <1>3, <1>9, <1>10 DEF c

LEMMA UsedGrows ==
  ASSUME NEW c, NEW d, d.size \in Nat, c.size = d.size + 1,
         c.data[d.size + 1].value = NoAddress,
         \A i \in 1..d.size : c.data[i] = d.data[i]
  PROVE  Used(c) = Used(d)
<1>1. \A i \in 1..c.size : i \in 1..d.size \/ i = d.size + 1
  OBVIOUS
<1>2. \A i \in 1..d.size : i \in 1..c.size
  OBVIOUS
<1>3. ASSUME NEW x \in Used(c)
      PROVE  x \in Used(d)
  <2>1. PICK i \in 1..c.size : x = c.data[i].value /\ x # NoAddress
    BY DEF Used
  <2>2. i \in 1..d.size
    BY <1>1, <2>1
  <2> QED
    BY <2>1, <2>2 DEF Used
<1>4. ASSUME NEW x \in Used(d)
      PROVE  x \in Used(c)
  <2>1. PICK i \in 1..d.size : x = d.data[i].value /\ x # NoAddress
    BY DEF Used
  <2>2. c.data[i].value = d.data[i].value /\ i \in 1..c.size
    BY <1>2
  <2> QED
    BY <2>1, <2>2 DEF Used
<1> QED
  BY <1>3, <1>4

\* Growing keeps what is in use, and the element that comes into use has none.
LEMMA GrownBlock ==
  ASSUME ArrayAssumption, NEW a \in Arrays, NEW d, BlockOf(a, d), d.dynamic
  PROVE  /\ BlockOf(a, Grown(d)) /\ Used(Grown(d)) = Used(d)
         /\ Grown(d).size = d.size + 1 /\ Grown(d).data[d.size + 1].value = NoAddress
         /\ \A i \in 1..d.size : Grown(d).data[i] = d.data[i]
<1> DEFINE c == Grown(d)
<1>1. /\ d \in Blocks /\ d.data \in [1..d.max -> Items] /\ d.size \in Nat /\ d.max \in Nat
      /\ d.size <= d.max /\ d.max > 0
  BY DEF BlockOf, Blocks
<1>2. /\ RawItem \in Items /\ RawItem.value = NoAddress
      /\ ZeroItem \in Items /\ ZeroItem.value = NoAddress /\ ZeroItem.state = "good"
  BY DEF RawItem, ZeroItem, Item, Items
<1>3. CASE d.size + 1 <= d.max
  <2>1. c = [d EXCEPT !.size = d.size + 1]
    BY <1>3 DEF Grown
  <2>2. /\ c.size = d.size + 1 /\ c.max = d.max /\ c.data = d.data /\ c.dynamic = d.dynamic
        /\ c \in Blocks
    <3>1. ASSUME NEW n \in Nat
          PROVE  LET g == [d EXCEPT !.size = n] IN
                 /\ g.size = n /\ g.max = d.max /\ g.data = d.data /\ g.dynamic = d.dynamic
                 /\ g \in Blocks
      BY <1>1 DEF Blocks
    <3>2. d.size + 1 \in Nat
      BY <1>1
    <3> QED
      BY <2>1, <3>1, <3>2
  <2> HIDE DEF c
  <2>3. BlockOf(a, c)
    BY <1>1, <1>3, <2>2 DEF BlockOf
  <2>4. d.data[d.size + 1].value = NoAddress
    BY <1>1, <1>3 DEF BlockOf
  <2>5. Used(c) = Used(d)
    <3>1. c.data[d.size + 1].value = NoAddress /\ \A i \in 1..d.size : c.data[i] = d.data[i]
      BY <2>2, <2>4
    <3> QED
      BY <1>1, <2>2, <3>1, UsedGrows
  <2> QED
    BY <2>2, <2>3, <2>4, <2>5 DEF c
<1>4. CASE ~(d.size + 1 <= d.max)
  <2>1. d.size = d.max /\ d.size # 0 /\ 2 * d.max \in Nat /\ d.size + 1 <= 2 * d.max
    BY <1>1, <1>4
  <2> DEFINE data == [i \in 1..(2 * d.max) |-> IF i <= d.max THEN d.data[i]
                                               ELSE IF i = d.size + 1 THEN ZeroItem ELSE RawItem]
  <2>2. c = [d EXCEPT !.size = d.size + 1, !.max = 2 * d.max, !.data = data]
    BY <1>4, <2>1 DEF Grown
  <2>3. data \in [1..(2 * d.max) -> Items]
    BY <1>1, <1>2
  <2>4. \A i \in 1..(2 * d.max) :
          data[i] = IF i <= d.max THEN d.data[i] ELSE IF i = d.size + 1 THEN ZeroItem ELSE RawItem
    OBVIOUS
  <2> HIDE DEF data
  <2>5. /\ c.size = d.size + 1 /\ c.max = 2 * d.max /\ c.data = data /\ c.dynamic = d.dynamic
        /\ c \in Blocks
    <3>1. PICK n \in Nat, m \in Nat : n = d.size + 1 /\ m = 2 * d.max
      BY <1>1, <2>1
    <3>2. data \in [1..m -> Items]
      BY <2>3, <3>1
    <3> DEFINE g == [d EXCEPT !.size = n, !.max = m, !.data = data]
    <3>3. g.size = n /\ g.max = m /\ g.data = data /\ g.dynamic = d.dynamic /\ g \in Blocks
      <4>1. data \in Seq(Items)
        BY <3>2, DataIsList
      <4> QED
        BY <1>1, <4>1 DEF Blocks
    <3>4. c = g
      BY <2>2, <3>1
    <3> HIDE DEF c, g
    <3> QED
      BY <3>1, <3>3, <3>4
  <2> HIDE DEF c
  <2>6. \A i \in 1..(2 * d.max) : Belongs(a, data[i], i) /\ (i > d.size => data[i].value = NoAddress)
    BY <1>1, <1>2, <2>1, <2>4 DEF BlockOf, Belongs
  <2>7. BlockOf(a, c)
    BY <1>1, <2>1, <2>3, <2>5, <2>6 DEF BlockOf
  <2>8. \A i \in 1..d.size : data[i] = d.data[i]
    BY <1>1, <2>1, <2>4
  <2>9. data[d.size + 1].value = NoAddress
    BY <1>1, <2>1, <2>6
  <2>10. Used(c) = Used(d)
    <3>1. c.data[d.size + 1].value = NoAddress /\ \A i \in 1..d.size : c.data[i] = d.data[i]
      BY <2>5, <2>8, <2>9
    <3> QED
      BY <1>1, <2>5, <3>1, UsedGrows
  <2> QED
    BY <2>5, <2>7, <2>8, <2>9, <2>10 DEF c
<1> QED
  BY <1>3, <1>4

-----------------------------------------------------------------------------
(* Addresses.                                                              *)

\* Nobody has an address of an element that is not there; of one that is,
\* nothing but its value has one.
LEMMA AddressesFree ==
  ASSUME ArrayInv, NEW a \in Arrays, NEW i
  PROVE  /\ arr[a] = NULL \/ i \notin 1..arr[a].size
              => AddressesOf(a, i) \cap DOMAIN heap = {}
         /\ AddressesOf(a, i) \cap DOMAIN heap \subseteq {arr[a].data[i].value}
<1>1. ASSUME NEW x \in AddressesOf(a, i), x \in DOMAIN heap
      PROVE  arr[a] # NULL /\ i \in 1..arr[a].size /\ x = arr[a].data[i].value
  <2>1. PICK b \in Arrays : x \in UsedBy(b)
    BY <1>1, LostApart DEF ArrayInv, LostAddresses
  <2>2. arr[b] # NULL /\ x \in Used(arr[b])
    BY <2>1 DEF UsedBy
  <2>3. PICK j \in 1..arr[b].size : x \in AddressesOf(b, j) /\ x = arr[b].data[j].value
    BY <2>2, UsedNamesArray DEF ArrayInv
  <2>4. b = a /\ j = i
    BY <2>3 DEF AddressesOf
  <2> QED
    BY <2>2, <2>3, <2>4
<1> QED
  BY <1>1

LEMMA FreshIsNew ==
  ASSUME NEW a, NEW i, NEW old, AddressesOf(a, i) \cap DOMAIN heap \subseteq {old}
  PROVE  /\ Fresh(a, i) \in AddressesOf(a, i) /\ Fresh(a, i) \notin DOMAIN heap
         /\ Fresh(a, i) # NoAddress
<1>1. <<a, i, 1>> # <<a, i, 2>>
  OBVIOUS
<1>2. <<a, i, 1>> \notin DOMAIN heap \/ <<a, i, 2>> \notin DOMAIN heap
  BY <1>1 DEF AddressesOf
<1>3. PICK n \in {1, 2} : Fresh(a, i) = <<a, i, n>> /\ <<a, i, n>> \notin DOMAIN heap
  BY <1>2 DEF Fresh
<1> QED
  BY <1>3 DEF AddressesOf, NoAddress

-----------------------------------------------------------------------------
(* The operations.                                                         *)

LEMMA NewKeepsInv ==
  ASSUME ArrayAssumption, ArrayInv, NEW a \in Arrays, NEW type \in Types, NEW size \in Lengths,
         native_new_CMPIArray(a, type, size)
  PROVE  ArrayInv'
<1>1. BlockOf(a, NewArray(type, size)) /\ Used(NewArray(type, size)) = {}
  BY NewBlock DEF ArrayAssumption
<1>2. /\ arr' = [arr EXCEPT ![a] = NewArray(type, size)] /\ enum' = enum /\ heap' = heap
      /\ holders' \subseteq Arrays /\ UsedBy(a) = {} /\ lost' = lost
  BY DEF native_new_CMPIArray, Unused, UsedBy, ArrayInv
<1>3. enum' \in [Enums -> [data : Arrays, current : Nat] \cup {NULL}]
  BY <1>2 DEF ArrayInv
<1>4. \A x : x \in DOMAIN heap' <=>
               \/ x \in DOMAIN heap /\ x \notin UsedBy(a)
               \/ NewArray(type, size) # NULL /\ x \in Used(NewArray(type, size))
  BY <1>1, <1>2
<1> QED
  BY <1>1, <1>2, <1>3, <1>4, Replaced

LEMMA FreeKeepsInv ==
  ASSUME ArrayAssumption, ArrayInv, NEW a \in Arrays, arr[a] # NULL, FreeArray(a),
         holders' \subseteq Arrays,
         enum' \in [Enums -> [data : Arrays, current : Nat] \cup {NULL}]
  PROVE  ArrayInv'
<1>1. arr' = [arr EXCEPT ![a] = NULL] /\ UsedBy(a) = Used(arr[a]) /\ lost' = lost
  BY DEF FreeArray, UsedBy
<1>2. DOMAIN heap' = DOMAIN heap \ Used(arr[a])
  BY DEF FreeArray, Without
<1>3. \A x : x \in DOMAIN heap' <=>
               \/ x \in DOMAIN heap /\ x \notin UsedBy(a)
               \/ NULL # NULL /\ x \in Used(NULL)
  BY <1>1, <1>2
<1> QED
  BY <1>1, <1>3, Replaced

LEMMA NoAddressFree ==
  ASSUME ArrayInv
  PROVE  NoAddress \notin DOMAIN heap
<1>1. NoAddress \notin LostAddresses
  <2>1. Len(NoAddress) = 0 /\ \A n : Len(<<n>>) = 1
    BY DEF NoAddress
  <2> QED
    BY <2>1 DEF LostAddresses
<1> QED
  BY <1>1 DEF ArrayInv, UsedBy, Used

LEMMA MakeNullKeepsInv ==
  ASSUME ArrayAssumption, ArrayInv, NEW a \in Arrays, arr[a] # NULL, NEW b, BlockOf(a, b),
         Used(b) = Used(arr[a]), NEW i \in Nat, i < b.size, MakeNull(a, b, i)
  PROVE  ArrayInv'
<1>1. CASE Crash
  BY <1>1 DEF Crash, ArrayInv, UsedBy, Used, LostAddresses
<1>2. CASE ~Crash
  <2> DEFINE c == [b EXCEPT !.data[i + 1] = NullItem]
             old == b.data[i + 1].value
  <2>1. /\ arr' = [arr EXCEPT ![a] = c] /\ heap' = Without({old})
        /\ enum' = enum /\ holders' = holders /\ lost' = lost
    BY <1>2 DEF MakeNull
  <2>2. i + 1 \in 1..b.size
    BY DEF BlockOf, Blocks
  <2>3. Belongs(a, NullItem, i + 1) /\ NullItem.value = NoAddress
    BY DEF Belongs, NullItem, Item, Items
  <2>4. BlockOf(a, c) /\ Used(c) = Used(b) \ {old}
    BY <2>2, <2>3, ItemWritten
  <2> HIDE DEF c, old
  <2>5. DOMAIN heap' = DOMAIN heap \ {old}
    BY <2>1 DEF Without
  <2>6. UsedBy(a) = Used(b) /\ UsedBy(a) \subseteq DOMAIN heap
    BY DEF UsedBy, ArrayInv
  <2>7. old \in DOMAIN heap => old \in Used(b)
    <3>1. CASE old = NoAddress
      BY <3>1, NoAddressFree
    <3>2. CASE old # NoAddress
      BY <2>2, <3>2 DEF Used, old
    <3> QED
      BY <3>1, <3>2
  <2>8. c # NULL
    BY <2>4 DEF BlockOf, ArrayAssumption
  <2>9. \A x : x \in DOMAIN heap' <=>
                 \/ x \in DOMAIN heap /\ x \notin UsedBy(a)
                 \/ c # NULL /\ x \in Used(c)
    BY <2>4, <2>5, <2>6, <2>7, <2>8
  <2>10. holders' \subseteq Arrays /\ enum' \in [Enums -> [data : Arrays, current : Nat] \cup {NULL}]
    BY <2>1 DEF ArrayInv
  <2> QED
    BY <2>1, <2>4, <2>9, <2>10, Replaced
<1> QED
  BY <1>1, <1>2

\* A value, or a null pointer, takes the place of that of its element, or of none.
LEMMA StoreKeepsInv ==
  ASSUME ArrayAssumption, ArrayInv, NEW a \in Arrays, arr[a] # NULL, NEW b, BlockOf(a, b),
         Used(b) = Used(arr[a]), NEW i \in Nat, i < b.size, NEW content,
         AddressesOf(a, i + 1) \cap DOMAIN heap \subseteq {b.data[i + 1].value},
         Store(a, b, i, content), UNCHANGED <<enum, holders>>
  PROVE  ArrayInv'
<1> DEFINE old == b.data[i + 1].value
           new == IF content = NULL THEN NoAddress ELSE Fresh(a, i + 1)
           gone == IF old = NoAddress THEN NoAddress ELSE <<lost + 1>>
           c == [b EXCEPT !.data[i + 1] = Item("good", new)]
           stored == {new} \ {NoAddress}
<1>1. /\ arr' = [arr EXCEPT ![a] = c]
      /\ DOMAIN heap' = (DOMAIN heap \ {old}) \cup ({new, gone} \ {NoAddress})
      /\ lost' = IF old = NoAddress THEN lost ELSE lost + 1
  BY DEF Store
<1>2. i + 1 \in 1..b.size
  BY DEF BlockOf, Blocks
<1>3. i + 1 \in 1..b.max
  BY <1>2 DEF BlockOf, Blocks
<1>4. old \in {NoAddress} \cup AddressesOf(a, i + 1)
  BY <1>3 DEF BlockOf, Belongs
<1>5. new \in {NoAddress} \cup AddressesOf(a, i + 1)
  <2>1. Fresh(a, i + 1) \in AddressesOf(a, i + 1)
    BY FreshIsNew
  <2> QED
    BY <2>1
<1> HIDE DEF new
<1>6. Belongs(a, Item("good", new), i + 1) /\ Item("good", new).value = new
  <2>1. new \in {NoAddress} \cup (Arrays \X Nat \X {1, 2})
    <3>1. i + 1 \in Nat
      OBVIOUS
    <3> QED
      BY <1>5, <3>1, AddressIsValue
  <2> QED
    BY <1>5, <2>1 DEF Belongs, Item, Items
<1>7. BlockOf(a, c) /\ Used(c) = (Used(b) \ {old}) \cup stored
  <2> DEFINE item == Item("good", new)
  <2>1. Belongs(a, item, i + 1) /\ {item.value} \ {NoAddress} = stored
    BY <1>6
  <2> HIDE DEF item, stored
  <2>2. /\ BlockOf(a, [b EXCEPT !.data[i + 1] = item])
        /\ Used([b EXCEPT !.data[i + 1] = item]) = (Used(b) \ {old}) \cup stored
    BY <1>2, <2>1, ItemWritten
  <2> QED
    BY <2>2 DEF item
<1>8. UsedBy(a) = Used(b) /\ UsedBy(a) \subseteq DOMAIN heap
  BY DEF UsedBy, ArrayInv
<1>9. old \notin LostAddresses /\ (old \in DOMAIN heap => old \in Used(b))
  <2>1. CASE old = NoAddress
    <3>1. NoAddress \notin DOMAIN heap
      BY NoAddressFree
    <3> QED
      BY <2>1, <3>1 DEF ArrayInv
  <2>2. CASE old # NoAddress
    <3>1. old \notin LostAddresses
      BY <1>4, <2>2, LostApart DEF LostAddresses
    <3> QED
      BY <1>2, <2>2, <3>1 DEF Used
  <2> QED
    BY <2>1, <2>2
<1>10. c # NULL
  BY <1>7 DEF BlockOf, ArrayAssumption
<1>11. lost' \in Nat /\ LostAddresses' = LostAddresses \cup ({gone} \ {NoAddress})
  <2>1. lost \in Nat /\ 1..(lost + 1) = 1..lost \cup {lost + 1}
    BY DEF ArrayInv
  <2>2. <<lost + 1>> # NoAddress
    BY DEF NoAddress
  <2>3. CASE old = NoAddress
    BY <1>1, <2>1, <2>3 DEF LostAddresses
  <2>4. CASE old # NoAddress
    BY <1>1, <2>1, <2>2, <2>4 DEF LostAddresses
  <2> QED
    BY <2>3, <2>4
<1> HIDE DEF c, old, gone, new
<1>12. \A x \in LostAddresses : x \in DOMAIN heap
  BY DEF ArrayInv
<1>13. \A x : x \in DOMAIN heap' <=>
                \/ x \in LostAddresses'
                \/ x \in DOMAIN heap /\ x \notin UsedBy(a)
                \/ c # NULL /\ x \in Used(c)
  BY <1>1, <1>7, <1>8, <1>9, <1>10, <1>11, <1>12
<1>14. holders' \subseteq Arrays /\ enum' \in [Enums -> [data : Arrays, current : Nat] \cup {NULL}]
  BY DEF ArrayInv
<1>15. LostAddresses \subseteq LostAddresses' /\ lost' \in Nat
  BY <1>11
<1> QED
  BY <1>1, <1>7, <1>13, <1>14, <1>15, ReplacedAndLost

\* The values of a copy are its own, and it has none where the original has none.
LEMMA CopiedItems ==
  ASSUME ArrayInv, NEW b \in Arrays, arr[b] = NULL, NEW a, NEW d, BlockOf(a, d),
         NEW i \in 1..d.size
  PROVE  /\ Belongs(b, Copied(d, b)[i], i)
         /\ d.data[i].value = NoAddress => Copied(d, b)[i].value = NoAddress
<1>1. i \in 1..d.max /\ d.data[i] \in Items /\ Belongs(a, d.data[i], i)
  BY DEF BlockOf, Blocks
<1>2. CASE d.data[i].value = NoAddress
  <2>1. Copied(d, b)[i] = d.data[i]
    BY <1>2 DEF Copied
  <2> QED
    BY <1>1, <1>2, <2>1 DEF Belongs
<1>3. CASE d.data[i].value # NoAddress
  <2> DEFINE new == IF d.type = "class" THEN NoAddress ELSE Fresh(b, i)
  <2>1. Copied(d, b)[i] = Item(d.data[i].state, new)
    BY <1>3 DEF Copied
  <2>2. Fresh(b, i) \in AddressesOf(b, i) /\ Fresh(b, i) # NoAddress
    BY AddressesFree, FreshIsNew
  <2>3. d.data[i].state \in {"null", "good"}
    BY <1>1, <1>3 DEF Belongs, Items
  <2>4. Fresh(b, i) \in {NoAddress} \cup (Arrays \X Nat \X {1, 2})
    <3>1. i \in Nat
      OBVIOUS
    <3> QED
      BY <2>2, <3>1, AddressIsValue
  <2>5. /\ new \in {NoAddress} \cup (Arrays \X Nat \X {1, 2})
        /\ new \in {NoAddress} \cup AddressesOf(b, i)
    BY <2>2, <2>4
  <2> HIDE DEF new
  <2> QED
    BY <1>3, <2>1, <2>3, <2>5 DEF Belongs, Item, Items
<1> QED
  BY <1>2, <1>3

LEMMA CloneKeepsInv ==
  ASSUME ArrayAssumption, ArrayInv, NEW a \in Arrays, arr[a] # NULL, NEW b \in Arrays,
         CloneInto(a, b), holders' \subseteq Arrays,
         enum' \in [Enums -> [data : Arrays, current : Nat] \cup {NULL}]
  PROVE  ArrayInv'
<1> DEFINE d == arr[a]
           copied == Copied(d, b)
           owning == {i \in 1..d.size : copied[i].value # NoAddress}
           new == NewArray(d.type, d.size)
<1>1. arr[b] = NULL
  BY DEF CloneInto, Unused
<1>2. BlockOf(a, d) /\ d.type \in Types /\ d.size \in Nat
  BY DEF ArrayInv, BlockOf, Blocks
<1>3. BlockOf(b, new) /\ Used(new) = {} /\ new.size = d.size /\ new.max \in Nat
  <2>1. PICK type \in Types, size \in Nat : type = d.type /\ size = d.size
    BY <1>2
  <2>2. BlockOf(b, NewArray(type, size)) /\ Used(NewArray(type, size)) = {}
    BY NewBlock
  <2>3. NewArray(type, size).size = size
    BY DEF NewArray
  <2>4. NewArray(type, size).max \in Nat
    BY <2>2 DEF BlockOf, Blocks
  <2> QED
    BY <2>1, <2>2, <2>3, <2>4
<1>4. \A i \in 1..d.size : Belongs(b, copied[i], i)
  BY <1>1, <1>2, CopiedItems
<1>5. PICK raw \in [{i \in 1..d.size : d.data[i].state = "raw"} -> CopiedRaw(d.type)] :
        arr' = [arr EXCEPT ![b] = [new EXCEPT !.data =
                  [i \in 1..new.max |-> IF i \in DOMAIN raw THEN raw[i]
                                        ELSE IF i <= d.size THEN copied[i] ELSE new.data[i]]]]
  BY DEF CloneInto
<1> DEFINE data == [i \in 1..new.max |-> IF i \in DOMAIN raw THEN raw[i]
                                         ELSE IF i <= d.size THEN copied[i] ELSE new.data[i]]
           c == [new EXCEPT !.data = data]
<1>6. DOMAIN heap' = DOMAIN heap \cup {copied[i].value : i \in owning} /\ lost' = lost
  BY DEF CloneInto, WithValues
<1>7. \A i \in 1..d.size : d.data[i].value = NoAddress => copied[i].value = NoAddress
  BY <1>1, <1>2, CopiedItems
<1>8. \A i \in 1..d.size : d.data[i].state = "raw" => copied[i].value = NoAddress
  <2>1. \A i \in 1..d.size : i \in 1..d.max
    BY <1>2 DEF BlockOf, Blocks
  <2> QED
    BY <1>2, <1>7, <2>1 DEF BlockOf, Belongs
<1> HIDE DEF copied, new, d
<1>9. \A i \in DOMAIN raw : /\ Belongs(b, raw[i], i) /\ raw[i].value = NoAddress
                            /\ i \in 1..d.size /\ copied[i].value = NoAddress
  <2>1. \A item \in CopiedRaw(d.type) : item \in Items /\ item.value = NoAddress
    BY DEF CopiedRaw, RawItem, NullItem, ZeroItem, Item, Items
  <2> QED
    BY <1>8, <2>1 DEF Belongs
<1>10. \A i \in 1..new.max : Belongs(b, data[i], i) /\ (i > d.size => data[i].value = NoAddress)
  <2> SUFFICES ASSUME NEW i \in 1..new.max
               PROVE  Belongs(b, data[i], i) /\ (i > d.size => data[i].value = NoAddress)
    OBVIOUS
  <2>1. CASE i \in DOMAIN raw
    BY <1>9, <2>1
  <2>2. CASE i \notin DOMAIN raw /\ i <= d.size
    BY <1>2, <1>4, <2>2
  <2>3. CASE i \notin DOMAIN raw /\ ~(i <= d.size)
    BY <1>2, <1>3, <2>3 DEF BlockOf
  <2> QED
    BY <2>1, <2>2, <2>3
<1>11. \A i \in 1..d.size : data[i].value = copied[i].value
  <2>1. \A i \in 1..d.size : i \in 1..new.max
    BY <1>2, <1>3 DEF BlockOf
  <2> QED
    BY <1>2, <1>9, <2>1
<1>12. data \in [1..new.max -> Items]
  BY <1>10 DEF Belongs
<1> HIDE DEF data
<1>13. /\ c.size = d.size /\ c.max = new.max /\ c.data = data /\ c.dynamic = new.dynamic
       /\ c \in Blocks
  <2>1. new.max \in Nat /\ d.size \in Nat
    BY <1>2, <1>3 DEF BlockOf, Blocks
  <2>2. data \in Seq(Items)
    BY <1>12, <2>1, DataIsList
  <2> QED
    BY <1>3, <1>12, <2>2 DEF BlockOf, Blocks
<1> HIDE DEF c
<1>14. BlockOf(b, c)
  BY <1>3, <1>10, <1>12, <1>13 DEF BlockOf
<1>15. Used(c) = {copied[i].value : i \in owning}
  BY <1>11, <1>13 DEF Used
<1>16. arr' = [arr EXCEPT ![b] = c] /\ UsedBy(b) = {} /\ c # NULL
  BY <1>1, <1>5, <1>14 DEF c, data, UsedBy, BlockOf, ArrayAssumption
<1>17. \A x : x \in DOMAIN heap' <=>
                \/ x \in DOMAIN heap /\ x \notin UsedBy(b)
                \/ c # NULL /\ x \in Used(c)
  BY <1>6, <1>15, <1>16
<1> QED
  BY <1>6, <1>14, <1>16, <1>17, Replaced

\* A call that ends the process, or changes no array, no value and no holder.
LEMMA NothingChanges ==
  ASSUME ArrayInv, UNCHANGED <<arr, heap, lost>>, holders' \subseteq Arrays,
         enum' \in [Enums -> [data : Arrays, current : Nat] \cup {NULL}]
  PROVE  ArrayInv'
BY DEF ArrayInv, UsedBy, Used, LostAddresses

LEMMA CrashKeepsInv ==
  ASSUME ArrayInv, Crash
  PROVE  ArrayInv'
<1>1. UNCHANGED <<arr, heap, lost, holders, enum>>
  BY DEF Crash
<1> QED
  BY <1>1, NothingChanges DEF ArrayInv

LEMMA SetKeepsInv ==
  ASSUME ArrayAssumption, ArrayInv, NEW a \in Arrays, NEW i \in Nat, NEW content, NEW type,
         aft_setElementAt(a, i, content, type)
  PROVE  ArrayInv'
<1>1. CASE arr[a] = NULL
  BY <1>1, CrashKeepsInv DEF aft_setElementAt
<1>2. CASE arr[a] # NULL
  <2> DEFINE d == arr[a]
             b == IF d.dynamic /\ i = d.size THEN Grown(d) ELSE d
             null == type = "null" \/ (content = NULL /\ type = d.type)
             stored == IF type = "class" THEN NULL ELSE content
  <2>1. BlockOf(a, d)
    BY <1>2 DEF ArrayInv
  <2>2. /\ BlockOf(a, b) /\ Used(b) = Used(d)
        /\ i < b.size => AddressesOf(a, i + 1) \cap DOMAIN heap \subseteq {b.data[i + 1].value}
    <3>1. CASE d.dynamic /\ i = d.size
      <4>1. i + 1 \notin 1..d.size
        BY <3>1
      <4>2. AddressesOf(a, i + 1) \cap DOMAIN heap = {}
        BY <4>1, AddressesFree
      <4> QED
        BY <2>1, <3>1, <4>2, GrownBlock
    <3>2. CASE ~(d.dynamic /\ i = d.size)
      BY <2>1, <3>2, AddressesFree
    <3> QED
      BY <3>1, <3>2
  <2>3. setElementAt(a, i, content, type)
    BY <1>2 DEF aft_setElementAt
  <2>4. \/ i < b.size /\ MakeNull(a, b, i)
        \/ i < b.size /\ Store(a, b, i, stored) /\ UNCHANGED <<enum, holders>>
        \/ arr' = [arr EXCEPT ![a] = b] /\ UNCHANGED <<heap, lost, enum, holders>>
    BY <2>3 DEF setElementAt
  <2> HIDE DEF b
  <2>5. CASE i < b.size /\ MakeNull(a, b, i)
    BY <1>2, <2>2, <2>5, MakeNullKeepsInv
  <2>6. CASE i < b.size /\ Store(a, b, i, stored) /\ UNCHANGED <<enum, holders>>
    BY <1>2, <2>2, <2>6, StoreKeepsInv
  <2>7. CASE arr' = [arr EXCEPT ![a] = b] /\ UNCHANGED <<heap, lost, enum, holders>>
    <3>1. b # NULL /\ UsedBy(a) = Used(b)
      BY <1>2, <2>2 DEF BlockOf, ArrayAssumption, UsedBy
    <3>2. \A x : x \in DOMAIN heap' <=>
                  \/ x \in DOMAIN heap /\ x \notin UsedBy(a)
                  \/ b # NULL /\ x \in Used(b)
      BY <2>7, <3>1 DEF ArrayInv
    <3>3. holders' \subseteq Arrays /\ enum' \in [Enums -> [data : Arrays, current : Nat] \cup {NULL}]
      BY <2>7 DEF ArrayInv
    <3> QED
      BY <2>2, <2>7, <3>2, <3>3, Replaced
  <2> QED
    BY <2>4, <2>5, <2>6, <2>7
<1> QED
  BY <1>1, <1>2

\* An array that has no elements yet is given the type of its first.
LEMMA TypedBlock ==
  ASSUME NEW a, NEW d, BlockOf(a, d), NEW type \in Types
  PROVE  LET c == [d EXCEPT !.type = type]
         IN /\ BlockOf(a, c) /\ Used(c) = Used(d) /\ c.size = d.size
            /\ c.dynamic = d.dynamic /\ c.data = d.data
<1> DEFINE c == [d EXCEPT !.type = type]
<1>1. d \in Blocks
  BY DEF BlockOf
<1>2. /\ c.size = d.size /\ c.max = d.max /\ c.dynamic = d.dynamic /\ c.data = d.data
      /\ c \in Blocks
  BY <1>1 DEF Blocks
<1> HIDE DEF c
<1>3. BlockOf(a, c)
  BY <1>2 DEF BlockOf
<1>4. Used(c) = Used(d)
  BY <1>2 DEF Used
<1> QED
  BY <1>2, <1>3, <1>4 DEF c

LEMMA AddKeepsInv ==
  ASSUME ArrayAssumption, ArrayInv, NEW a \in Arrays, NEW content, NEW type \in Types,
         simpleArrayAdd(a, content, type)
  PROVE  ArrayInv'
<1> DEFINE d == arr[a]
           given == IF d.size = 0 THEN type ELSE d.type
           c == [d EXCEPT !.type = given]
           b == Grown(c)
<1>1. /\ d # NULL /\ UNCHANGED <<enum, holders>>
      /\ \/ d.dynamic /\ type = b.type /\ Store(a, b, d.size, content)
         \/ /\ d.dynamic /\ type # b.type
            /\ arr' = [arr EXCEPT ![a] = [b EXCEPT !.data[b.size] = RawItem]]
            /\ UNCHANGED <<heap, lost>>
         \/ ~d.dynamic /\ UNCHANGED <<arr, heap, lost>>
  BY DEF simpleArrayAdd
<1>2. BlockOf(a, d) /\ d \in Blocks
  BY <1>1 DEF ArrayInv, BlockOf
<1>3. d.size \in Nat /\ given \in Types
  BY <1>2 DEF Blocks
<1> HIDE DEF given
<1>4. BlockOf(a, c) /\ Used(c) = Used(d) /\ c.size = d.size /\ c.dynamic = d.dynamic
  BY <1>2, <1>3, TypedBlock
<1> HIDE DEF c
<1>5. d.dynamic => /\ BlockOf(a, b) /\ Used(b) = Used(d) /\ b.size = d.size + 1
                   /\ b.data[b.size].value = NoAddress
  BY <1>4, GrownBlock
<1>6. CASE d.dynamic /\ type = b.type /\ Store(a, b, d.size, content)
  <2>1. AddressesOf(a, d.size + 1) \cap DOMAIN heap = {}
    <3>1. d.size + 1 \notin 1..d.size
      BY <1>3
    <3> QED
      BY <3>1, AddressesFree
  <2>2. d.size < b.size
    BY <1>3, <1>5, <1>6
  <2> HIDE DEF b
  <2> QED
    BY <1>1, <1>3, <1>5, <1>6, <2>1, <2>2, StoreKeepsInv
<1>7. CASE /\ d.dynamic /\ type # b.type
           /\ arr' = [arr EXCEPT ![a] = [b EXCEPT !.data[b.size] = RawItem]]
           /\ UNCHANGED <<heap, lost>>
  <2> DEFINE new == [b EXCEPT !.data[b.size] = RawItem]
             n == b.size
  <2>1. n \in 1..n /\ BlockOf(a, b) /\ Used(b) = UsedBy(a) /\ b.data[n].value = NoAddress
    BY <1>1, <1>3, <1>5, <1>7 DEF UsedBy
  <2>2. Belongs(a, RawItem, n) /\ RawItem.value = NoAddress
    BY DEF Belongs, RawItem, Item, Items
  <2> HIDE DEF b
  <2>3. /\ BlockOf(a, new)
        /\ Used(new) = (Used(b) \ {b.data[n].value}) \cup ({RawItem.value} \ {NoAddress})
    BY <2>1, <2>2, ItemWritten
  <2>4. Used(new) = UsedBy(a) /\ new # NULL
    <3>1. NoAddress \notin Used(b)
      BY DEF Used
    <3>2. new # NULL
      BY <2>3 DEF BlockOf, ArrayAssumption
    <3> HIDE DEF new
    <3> QED
      BY <2>1, <2>2, <2>3, <3>1, <3>2
  <2> HIDE DEF new, n
  <2>5. \A x \in UsedBy(a) : x \in DOMAIN heap
    BY DEF ArrayInv
  <2>6. holders' \subseteq Arrays /\ enum' \in [Enums -> [data : Arrays, current : Nat] \cup {NULL}]
    BY <1>1 DEF ArrayInv
  <2>7. arr' = [arr EXCEPT ![a] = new] /\ UNCHANGED <<heap, lost>>
    BY <1>7 DEF new
  <2> QED
    BY <2>3, <2>4, <2>5, <2>6, <2>7, Replaced
<1>8. CASE ~d.dynamic /\ UNCHANGED <<arr, heap, lost>>
  BY <1>1, <1>8, NothingChanges DEF ArrayInv
<1> QED
  BY <1>1, <1>6, <1>7, <1>8

LEMMA ArrayOperationKeepsInv ==
  ASSUME ArrayAssumption, ArrayInv, NEW a \in Arrays, ArrayOperation(a)
  PROVE  ArrayInv'
<1>1. ASSUME NEW type \in Types, NEW size \in Lengths, native_new_CMPIArray(a, type, size)
      PROVE  ArrayInv'
  BY <1>1, NewKeepsInv
<1>2. ASSUME NEW b \in Arrays, aft_clone(a, b)
      PROVE  ArrayInv'
  <2>1. CASE Crash
    BY <2>1, CrashKeepsInv
  <2>2. CASE arr[a] # NULL /\ CloneInto(a, b) /\ holders' = holders \cup {b} /\ UNCHANGED enum
    <3>1. holders' \subseteq Arrays /\ enum' \in [Enums -> [data : Arrays, current : Nat] \cup {NULL}]
      BY <2>2 DEF ArrayInv
    <3> QED
      BY <2>2, <3>1, CloneKeepsInv
  <2> QED
    BY <1>2, <2>1, <2>2 DEF aft_clone
<1>3. ASSUME NEW i \in 0..MaxSize, NEW input \in Inputs, aft_setElementAt(a, i, input[2], input[1])
      PROVE  ArrayInv'
  <2>1. i \in Nat
    BY DEF ArrayAssumption
  <2> QED
    BY <1>3, <2>1, SetKeepsInv
<1>4. ASSUME NEW type \in Types, NEW content \in Contents, simpleArrayAdd(a, content, type)
      PROVE  ArrayInv'
  BY <1>4, AddKeepsInv
<1>5. CASE aft_release(a)
  <2>1. CASE Crash
    BY <2>1, CrashKeepsInv
  <2>2. CASE arr[a] # NULL /\ FreeArray(a) /\ holders' = holders \ {a} /\ UNCHANGED enum
    <3>1. holders' \subseteq Arrays /\ enum' \in [Enums -> [data : Arrays, current : Nat] \cup {NULL}]
      BY <2>2 DEF ArrayInv
    <3> QED
      BY <2>2, <3>1, FreeKeepsInv
  <2> QED
    BY <1>5, <2>1, <2>2 DEF aft_release
<1> QED
  BY <1>1, <1>2, <1>3, <1>4, <1>5 DEF ArrayOperation

\* An enumeration is given, moved or taken away.
LEMMA EnumTyped ==
  ASSUME ArrayInv, NEW e \in Enums, NEW new \in [data : Arrays, current : Nat] \cup {NULL},
         enum' = [enum EXCEPT ![e] = new]
  PROVE  enum' \in [Enums -> [data : Arrays, current : Nat] \cup {NULL}]
BY DEF ArrayInv

LEMMA EnumOperationKeepsInv ==
  ASSUME ArrayAssumption, ArrayInv, NEW e \in Enums, EnumOperation(e)
  PROVE  ArrayInv'
<1> DEFINE Views == [data : Arrays, current : Nat]
<1>1. ASSUME NEW a \in Arrays, native_new_CMPIEnumeration(e, a)
      PROVE  ArrayInv'
  <2>1. /\ UNCHANGED <<arr, heap, lost>> /\ holders' \subseteq Arrays
        /\ enum' = [enum EXCEPT ![e] = [data |-> a, current |-> 0]]
    BY <1>1 DEF native_new_CMPIEnumeration, ArrayInv
  <2>2. [data |-> a, current |-> 0] \in Views
    OBVIOUS
  <2> QED
    BY <2>1, <2>2, EnumTyped, NothingChanges
<1>2. ASSUME NEW f \in Enums, NEW b \in Arrays, eft_clone(e, f, b)
      PROVE  ArrayInv'
  <2>1. enum[e] # NULL /\ enum[e].data \in Arrays
    BY <1>2 DEF eft_clone, ArrayInv
  <2>2. CASE Crash
    BY <2>2, CrashKeepsInv
  <2>3. CASE /\ arr[enum[e].data] # NULL /\ CloneInto(enum[e].data, b)
             /\ enum' = [enum EXCEPT ![f] = [data |-> b, current |-> 0]]
             /\ UNCHANGED holders
    <3>1. [data |-> b, current |-> 0] \in Views
      OBVIOUS
    <3>2. enum' \in [Enums -> Views \cup {NULL}]
      BY <2>3, <3>1, EnumTyped
    <3>3. holders' \subseteq Arrays
      BY <2>3 DEF ArrayInv
    <3> QED
      BY <2>1, <2>3, <3>2, <3>3, CloneKeepsInv
  <2> QED
    BY <1>2, <2>2, <2>3 DEF eft_clone
<1>3. CASE eft_getNext(e)
  <2>1. enum[e] # NULL /\ enum[e] \in Views
    BY <1>3 DEF eft_getNext, ArrayInv
  <2>2. CASE Crash
    BY <2>2, CrashKeepsInv
  <2>3. CASE /\ enum' = [enum EXCEPT ![e].current = @ + 1]
             /\ UNCHANGED <<arr, heap, lost, holders>>
    <3>1. enum' = [enum EXCEPT ![e] = [enum[e] EXCEPT !.current = @ + 1]]
      BY <2>3
    <3>2. [enum[e] EXCEPT !.current = @ + 1] \in Views
      BY <2>1
    <3>3. enum' \in [Enums -> Views \cup {NULL}]
      BY <3>1, <3>2, EnumTyped
    <3> QED
      BY <2>3, <3>3, NothingChanges DEF ArrayInv
  <2> QED
    BY <1>3, <2>2, <2>3 DEF eft_getNext
<1>4. CASE eft_toArray(e)
  <2>1. UNCHANGED <<arr, heap, lost, enum>> /\ holders' \subseteq Arrays
    BY <1>4 DEF eft_toArray, ArrayInv
  <2> QED
    BY <2>1, NothingChanges DEF ArrayInv
<1>5. CASE eft_release(e)
  <2>1. enum[e] # NULL /\ enum[e].data \in Arrays
    BY <1>5 DEF eft_release, ArrayInv
  <2>2. CASE Crash
    BY <2>2, CrashKeepsInv
  <2>3. CASE /\ arr[enum[e].data] # NULL /\ FreeArray(enum[e].data)
             /\ enum' = [enum EXCEPT ![e] = NULL]
             /\ UNCHANGED holders
    <3>1. enum' \in [Enums -> Views \cup {NULL}]
      BY <2>3, EnumTyped
    <3>2. holders' \subseteq Arrays
      BY <2>3 DEF ArrayInv
    <3> QED
      BY <2>1, <2>3, <3>1, <3>2, FreeKeepsInv
  <2> QED
    BY <1>5, <2>2, <2>3 DEF eft_release
<1> QED
  BY <1>1, <1>2, <1>3, <1>4, <1>5 DEF EnumOperation

-----------------------------------------------------------------------------
(* The theorem.                                                            *)

LEMMA InitArrayInv ==
  ASSUME ArrayAssumption, Init
  PROVE  ArrayInv
BY DEF Init, ArrayInv, UsedBy, LostAddresses

\* What OneArrayOwns says of the elements follows from what each block says.
LEMMA InvOwns ==
  ASSUME ArrayInv
  PROVE  OneArrayOwns
<1>1. \A x \in Owners : /\ x[1] \in Arrays /\ arr[x[1]] # NULL /\ x[2] \in 1..arr[x[1]].size
                        /\ x = <<x[1], x[2]>> /\ Owned(x) # NoAddress
  BY DEF Owners, Owned, Elements, Alive
<1>2. \A a \in Arrays : arr[a] # NULL =>
        \A i \in 1..arr[a].size : arr[a].data[i].value \in {NoAddress} \cup AddressesOf(a, i)
  <2> SUFFICES ASSUME NEW a \in Arrays, arr[a] # NULL, NEW i \in 1..arr[a].size
               PROVE  arr[a].data[i].value \in {NoAddress} \cup AddressesOf(a, i)
    OBVIOUS
  <2>1. BlockOf(a, arr[a])
    BY DEF ArrayInv
  <2>2. i \in 1..arr[a].max
    BY <2>1 DEF BlockOf, Blocks
  <2> QED
    BY <2>1, <2>2 DEF BlockOf, Belongs
<1>3. ASSUME NEW x \in Owners, NEW y \in Owners, Owned(x) = Owned(y)
      PROVE  x = y
  <2>1. Owned(x) \in AddressesOf(x[1], x[2]) /\ Owned(y) \in AddressesOf(y[1], y[2])
    BY <1>1, <1>2 DEF Owned
  <2>2. x[1] = y[1] /\ x[2] = y[2]
    BY <1>3, <2>1 DEF AddressesOf
  <2> QED
    BY <1>1, <2>2
<1>4. \A z : z \in DOMAIN heap <=> z \in LostAddresses \/ z \in {Owned(x) : x \in Owners}
  <2> TAKE z
  <2>1. ASSUME z \in DOMAIN heap, z \notin LostAddresses
        PROVE  z \in {Owned(x) : x \in Owners}
    <3>1. PICK a \in Arrays : z \in UsedBy(a)
      BY <2>1 DEF ArrayInv
    <3>2. PICK i \in 1..arr[a].size : arr[a] # NULL /\ z = arr[a].data[i].value /\ z # NoAddress
      BY <3>1 DEF UsedBy, Used
    <3>3. <<a, i>> \in Elements
      BY <3>2 DEF Elements, Alive
    <3>4. <<a, i>> \in Owners /\ Owned(<<a, i>>) = z
      BY <3>2, <3>3 DEF Owners, Owned
    <3> QED
      BY <3>4
  <2>2. ASSUME NEW x \in Owners, z = Owned(x)
        PROVE  z \in DOMAIN heap
    <3>1. z \in UsedBy(x[1])
      BY <1>1, <2>2 DEF UsedBy, Used, Owned
    <3> QED
      BY <1>1, <3>1 DEF ArrayInv
  <2>3. z \in LostAddresses => z \in DOMAIN heap
    BY DEF ArrayInv
  <2> QED
    BY <2>1, <2>2, <2>3
<1>5. ASSUME NEW a \in Alive, NEW i \in (arr[a].size + 1)..arr[a].max
      PROVE  arr[a].data[i].value = NoAddress
  <2>1. BlockOf(a, arr[a])
    BY DEF Alive, ArrayInv
  <2>2. i \in 1..arr[a].max /\ i > arr[a].size
    BY <2>1 DEF BlockOf, Blocks
  <2> QED
    BY <2>1, <2>2 DEF BlockOf
<1>6. DOMAIN heap = {Owned(x) : x \in Owners} \cup LostAddresses
  BY <1>4
<1> QED
  BY <1>3, <1>5, <1>6 DEF OneArrayOwns

\* Whatever is made, set, added, cloned, enumerated or released, no two elements
\* have one value, every element that has a value has one that is allocated, and
\* what is allocated belongs to an element or was overwritten (array.c, line 202):
\* setElementAt, simpleArrayAdd, aft_clone, eft_toArray and the releases of array.c
\* and enumeration.c, for any arrays, enumerations, types, sizes and first blocks.
THEOREM ArraysOwnTheirValues ==
  ASSUME ArrayAssumption
  PROVE  Spec => []OneArrayOwns
<1>1. Init => ArrayInv
  BY InitArrayInv
<1>2. ArrayInv /\ [Next]_vars => ArrayInv'
  <2> SUFFICES ASSUME ArrayInv, [Next]_vars
               PROVE  ArrayInv'
    OBVIOUS
  <2>1. ASSUME NEW a \in Arrays, ArrayOperation(a)
        PROVE  ArrayInv'
    BY <2>1, ArrayOperationKeepsInv
  <2>2. ASSUME NEW e \in Enums, EnumOperation(e)
        PROVE  ArrayInv'
    BY <2>2, EnumOperationKeepsInv
  <2>3. CASE UNCHANGED vars
    BY <2>3, NothingChanges DEF vars, ArrayInv
  <2> QED
    BY <2>1, <2>2, <2>3 DEF Next
<1>3. ArrayInv => OneArrayOwns
  BY InvOwns
<1> QED
  BY <1>1, <1>2, <1>3, PTL DEF Spec
=============================================================================
