--------------------------- MODULE CimClass_Proofs ---------------------------
(***************************************************************************)
(* Every node of a class or an argument list is in one place, for any      *)
(* classes, argument lists, names and values.                              *)
(***************************************************************************)
EXTENDS CimClass, SequenceTheorems, FiniteSetTheorems, TLAPS

\* The list that is at a place of the object o: no name is there twice, and the
\* node of an entry was allocated for it.
ListAt(o, place, list) ==
  /\ list \in Seq(Entry)
  /\ \A j, k \in DOMAIN list : list[j].name = list[k].name => j = k
  /\ \A k \in DOMAIN list : list[k].node = Node(o, place, list[k].name)

HasOwner(l, kind, name) == \E k \in DOMAIN l[<<OwnersList(kind), NULL>>] :
                             l[<<OwnersList(kind), NULL>>][k].name = name

\* The lists of the object o: an inner list has its owner.
ListsOf(o, l) ==
  /\ l \in Lists
  /\ \A place \in Places : ListAt(o, place, l[place])
  /\ \A kind \in Inner, name \in Names :
       l[<<kind, name>>] # <<>> => HasOwner(l, kind, name)

NodesIn(l) == UNION {{l[place][k].node : k \in DOMAIN l[place]} : place \in Places}

\* The class that is being made is there, and so is the property or method that
\* the parser is at.
Making ==
  /\ building \in Classes \cup {NULL}
  /\ within[1] \in {"idle", "qualifiers", "properties", "methods"}
  /\ within[2] \in Names \cup {NULL}
  /\ within[1] # "idle" => building \in Classes /\ lists[building] # NULL
  /\ within[2] # NULL =>
       /\ within[1] \in {"properties", "methods"}
       /\ Found(lists[building][<<within[1], NULL>>], within[2]) # {}

ClassInv ==
  /\ lists \in [Objects -> Lists \cup {NULL}]
  /\ \A o \in Objects : lists[o] # NULL => ListsOf(o, lists[o])
  /\ \A n : n \in DOMAIN heap <=> \E o \in Objects : lists[o] # NULL /\ n \in NodesIn(lists[o])
  /\ Making

----------------------------------------------------------------------------
(* Lists and nodes.                                                        *)

LEMMA IsList ==
  ASSUME NEW S, NEW n \in Nat, NEW list \in [1..n -> S]
  PROVE  list \in Seq(S) /\ Len(list) = n
BY SeqDef

LEMMA ListDomain ==
  ASSUME NEW S, NEW list \in Seq(S)
  PROVE  /\ Len(list) \in Nat /\ DOMAIN list = 1..Len(list)
         /\ \A k \in DOMAIN list : list[k] \in S
OBVIOUS

LEMMA NodeOfObject ==
  ASSUME NEW o, NEW l, ListsOf(o, l), NEW n \in NodesIn(l)
  PROVE  /\ n[1] = o /\ n[2] \in Places /\ n = <<o, n[2], n[3]>>
         /\ \E k \in DOMAIN l[n[2]] : n = l[n[2]][k].node /\ l[n[2]][k].name = n[3]
<1>1. PICK place \in Places : \E k \in DOMAIN l[place] : n = l[place][k].node
  BY DEF NodesIn
<1>2. PICK k \in DOMAIN l[place] : n = l[place][k].node
  BY <1>1
<1>3. n = <<o, place, l[place][k].name>>
  <2>1. ListAt(o, place, l[place])
    BY DEF ListsOf
  <2> QED
    BY <1>2, <2>1 DEF ListAt, Node
<1>4. n[1] = o /\ n[2] = place /\ n[3] = l[place][k].name
  BY <1>3
<1> QED
  BY <1>2, <1>3, <1>4

LEMMA PlacesDiffer ==
  /\ \A kind \in Outer : <<kind, NULL>> \in Places
  /\ \A kind \in Inner, name \in Names :
       /\ <<kind, name>> \in Places /\ <<OwnersList(kind), NULL>> \in Places
       /\ <<OwnersList(kind), NULL>> # <<kind, name>>
       /\ \A other \in Outer : <<other, NULL>> # <<kind, name>>
<1>1. \A kind \in Inner : kind \notin Outer /\ OwnersList(kind) \in Outer
  BY DEF Inner, Outer, OwnersList
<1> QED
  BY <1>1 DEF Places

\* An object is given other lists, or none.
LEMMA ObjectReplaced ==
  ASSUME ClassInv, NEW o \in Objects, NEW c \in Lists \cup {NULL},
         c # NULL => ListsOf(o, c),
         lists' = [lists EXCEPT ![o] = c],
         \A n : n \in DOMAIN heap' <=>
                  \/ n \in DOMAIN heap /\ ~(lists[o] # NULL /\ n \in NodesIn(lists[o]))
                  \/ c # NULL /\ n \in NodesIn(c),
         Making'
  PROVE  ClassInv'
<1>1. lists' \in [Objects -> Lists \cup {NULL}] /\ \A d \in Objects : lists'[d] = IF d = o THEN c ELSE lists[d]
  BY DEF ClassInv
<1>2. \A d \in Objects : lists'[d] # NULL => ListsOf(d, lists'[d])
  BY <1>1 DEF ClassInv
<1>3. \A n : n \in DOMAIN heap' <=> \E d \in Objects : lists'[d] # NULL /\ n \in NodesIn(lists'[d])
  <2> TAKE n
  <2>1. ASSUME n \in DOMAIN heap'
        PROVE  \E d \in Objects : lists'[d] # NULL /\ n \in NodesIn(lists'[d])
    <3>1. CASE c # NULL /\ n \in NodesIn(c)
      BY <1>1, <3>1
    <3>2. CASE n \in DOMAIN heap /\ ~(lists[o] # NULL /\ n \in NodesIn(lists[o]))
      <4>1. PICK d \in Objects : lists[d] # NULL /\ n \in NodesIn(lists[d])
        BY <3>2 DEF ClassInv
      <4> QED
        BY <1>1, <3>2, <4>1
    <3> QED
      BY <2>1, <3>1, <3>2
  <2>2. ASSUME NEW d \in Objects, lists'[d] # NULL, n \in NodesIn(lists'[d])
        PROVE  n \in DOMAIN heap'
    <3>1. CASE d = o
      BY <1>1, <2>2, <3>1
    <3>2. CASE d # o
      <4>1. lists[d] # NULL /\ n \in NodesIn(lists[d])
        BY <1>1, <2>2, <3>2
      <4>2. ListsOf(d, lists[d]) /\ n \in DOMAIN heap
        BY <4>1 DEF ClassInv
      <4>3. n[1] = d
        BY <4>1, <4>2, NodeOfObject
      <4>4. lists[o] # NULL /\ n \in NodesIn(lists[o]) => n[1] = o
        BY NodeOfObject DEF ClassInv
      <4> QED
        BY <3>2, <4>2, <4>3, <4>4
    <3> QED
      BY <3>1, <3>2
  <2> QED
    BY <2>1, <2>2
<1> QED
  BY <1>1, <1>2, <1>3 DEF ClassInv

\* Nothing but where the parser is changes, or a value.
LEMMA ListsUnchanged ==
  ASSUME ClassInv, UNCHANGED lists, DOMAIN heap' = DOMAIN heap, Making'
  PROVE  ClassInv'
BY DEF ClassInv

LEMMA MakingKept ==
  ASSUME ClassInv, NEW o \in Objects, o # building,
         UNCHANGED <<building, within>>, \A d \in Objects : d # o => lists'[d] = lists[d]
  PROVE  Making'
<1>1. building # NULL => building \in Objects
  BY DEF ClassInv, Making, Objects
<1>2. within[2] # NULL => within[1] # "idle"
  BY DEF ClassInv, Making
<1>3. within[1] # "idle" => building \in Objects /\ lists'[building] = lists[building]
  BY <1>1 DEF ClassInv, Making, Objects
<1> QED
  BY <1>2, <1>3 DEF ClassInv, Making, Found

\* No object that is not there is being made, nor is one that is no class.
LEMMA NotMaking ==
  ASSUME ClassInv, building \notin Classes \/ lists[building] = NULL,
         UNCHANGED <<building, within>>
  PROVE  Making'
BY DEF ClassInv, Making

----------------------------------------------------------------------------
(* An entry is added, or has another value.                                *)

LEMMA AddedKeepsInv ==
  ASSUME ClassAssumption, ClassInv, NEW o \in Objects, lists[o] # NULL,
         NEW place \in Places, NEW name \in Names, NEW v,
         Found(lists[o][place], name) = {},
         \A kind \in Inner, owner \in Names :
           place = <<kind, owner>> => HasOwner(lists[o], kind, owner),
         Added(o, place, name, v), Making'
  PROVE  ClassInv'
<1> DEFINE l == lists[o]
           list == l[place]
           e == [name |-> name, node |-> Node(o, place, name)]
           longer == Append(list, e)
           c == [l EXCEPT ![place] = longer]
           n == Len(list)
<1>1. ListsOf(o, l) /\ l \in Lists /\ ListAt(o, place, list)
  BY DEF ClassInv, ListsOf
<1>2. /\ n \in Nat /\ DOMAIN list = 1..n /\ list \in Seq(Entry)
      /\ \A k \in 1..n : list[k].name # name
  BY <1>1, ListDomain DEF ListAt, Found
<1>3. lists' = [lists EXCEPT ![o] = c]
  BY DEF Added
<1>4. DOMAIN heap' = DOMAIN heap \cup {Node(o, place, name)}
  BY DEF Added
<1>5. e \in Entry /\ e.name = name /\ e.node = Node(o, place, name)
  BY DEF Entry, Node
<1> HIDE DEF e
<1>6. /\ longer \in Seq(Entry) /\ DOMAIN longer = 1..(n + 1) /\ longer[n + 1] = e
      /\ \A k \in 1..n : longer[k] = list[k]
  <2> HIDE DEF list
  <2> QED
    BY <1>2, <1>5
<1>7. \A k \in 1..(n + 1) : k \in 1..n \/ k = n + 1
  BY <1>2
<1>8. \A k \in 1..n : k \in 1..(n + 1)
  BY <1>2
<1>9. n + 1 \in 1..(n + 1)
  BY <1>2
<1>10. /\ c \in Lists /\ c[place] = longer
       /\ \A other \in Places : other # place => c[other] = l[other]
  <2> HIDE DEF longer, l
  <2> QED
    BY <1>1, <1>6 DEF Lists
<1> HIDE DEF c, longer, n
<1>11. ListAt(o, place, longer)
  <2>1. \A j, k \in DOMAIN longer : longer[j].name = longer[k].name => j = k
    BY <1>1, <1>2, <1>5, <1>6, <1>7 DEF ListAt
  <2>2. \A k \in DOMAIN longer : longer[k].node = Node(o, place, longer[k].name)
    BY <1>1, <1>2, <1>5, <1>6, <1>7 DEF ListAt
  <2> QED
    BY <1>6, <2>1, <2>2 DEF ListAt
<1> HIDE DEF list
<1>12. \A other \in Places : ListAt(o, other, c[other])
  BY <1>1, <1>10, <1>11 DEF ListsOf
<1>13. ASSUME NEW kind \in Inner, NEW owner \in Names, c[<<kind, owner>>] # <<>>
       PROVE  HasOwner(c, kind, owner)
  <2> DEFINE at == <<OwnersList(kind), NULL>>
  <2>1. at \in Places /\ <<kind, owner>> \in Places /\ at # <<kind, owner>>
    BY PlacesDiffer
  <2>2. HasOwner(l, kind, owner)
    BY <1>1, <1>10, <1>13, <2>1 DEF ListsOf
  <2>3. PICK k \in DOMAIN l[at] : l[at][k].name = owner
    BY <2>2 DEF HasOwner
  <2>4. k \in DOMAIN c[at] /\ c[at][k].name = owner
    <3>1. CASE at = place
      <4>1. k \in 1..n /\ list[k].name = owner
        BY <1>2, <2>3, <3>1 DEF list
      <4> QED
        BY <1>6, <1>8, <1>10, <3>1, <4>1
    <3>2. CASE at # place
      BY <1>10, <2>1, <2>3, <3>2
    <3> QED
      BY <3>1, <3>2
  <2> QED
    BY <2>4 DEF HasOwner
<1>14. ListsOf(o, c)
  BY <1>10, <1>12, <1>13 DEF ListsOf
<1>15. \A m : m \in NodesIn(c) <=> m \in NodesIn(l) \/ m = Node(o, place, name)
  <2> TAKE m
  <2>1. ASSUME m \in NodesIn(c)
        PROVE  m \in NodesIn(l) \/ m = Node(o, place, name)
    <3>1. PICK at \in Places : \E k \in DOMAIN c[at] : m = c[at][k].node
      BY <2>1 DEF NodesIn
    <3>2. PICK k \in DOMAIN c[at] : m = c[at][k].node
      BY <3>1
    <3>3. CASE at = place
      <4>1. CASE k = n + 1
        BY <1>5, <1>6, <1>10, <3>2, <3>3, <4>1
      <4>2. CASE k \in 1..n
        <5>1. k \in DOMAIN l[place] /\ m = l[place][k].node
          BY <1>2, <1>6, <1>10, <3>2, <3>3, <4>2 DEF list
        <5> QED
          BY <5>1 DEF NodesIn
      <4> QED
        BY <1>6, <1>7, <1>10, <3>2, <3>3, <4>1, <4>2
    <3>4. CASE at # place
      BY <1>10, <3>2, <3>4 DEF NodesIn
    <3> QED
      BY <3>3, <3>4
  <2>2. ASSUME m \in NodesIn(l)
        PROVE  m \in NodesIn(c)
    <3>1. PICK at \in Places : \E k \in DOMAIN l[at] : m = l[at][k].node
      BY <2>2 DEF NodesIn
    <3>2. PICK k \in DOMAIN l[at] : m = l[at][k].node
      BY <3>1
    <3>3. k \in DOMAIN c[at] /\ m = c[at][k].node
      <4>1. CASE at = place
        <5>1. k \in 1..n /\ m = list[k].node
          BY <1>2, <3>2, <4>1 DEF list
        <5> QED
          BY <1>6, <1>8, <1>10, <4>1, <5>1
      <4>2. CASE at # place
        BY <1>10, <3>2, <4>2
      <4> QED
        BY <4>1, <4>2
    <3> QED
      BY <3>3 DEF NodesIn
  <2>3. ASSUME m = Node(o, place, name)
        PROVE  m \in NodesIn(c)
    <3>1. n + 1 \in DOMAIN c[place] /\ m = c[place][n + 1].node
      BY <1>5, <1>6, <1>9, <1>10, <2>3
    <3> QED
      BY <3>1 DEF NodesIn
  <2> QED
    BY <2>1, <2>2, <2>3
<1>16. c # NULL
  BY <1>10 DEF ClassAssumption
<1>17. \A m \in NodesIn(l) : m \in DOMAIN heap
  BY DEF ClassInv
<1>18. \A m : m \in DOMAIN heap' <=>
                \/ m \in DOMAIN heap /\ ~(lists[o] # NULL /\ m \in NodesIn(lists[o]))
                \/ c # NULL /\ m \in NodesIn(c)
  BY <1>4, <1>15, <1>16, <1>17
<1> HIDE DEF l
<1> QED
  BY <1>3, <1>10, <1>14, <1>18, ObjectReplaced

\* What is found in a list stays there, and what is added is found.
LEMMA AddedFinds ==
  ASSUME ClassInv, NEW o \in Objects, lists[o] # NULL, NEW place \in Places, NEW name \in Names,
         NEW v, Added(o, place, name, v)
  PROVE  /\ \A d \in Objects : d # o => lists'[d] = lists[d]
         /\ Found(lists'[o][place], name) # {}
         /\ \A at \in Places : \A other :
              Found(lists[o][at], other) # {} => Found(lists'[o][at], other) # {}
<1> DEFINE l == lists[o]
           list == l[place]
           e == [name |-> name, node |-> Node(o, place, name)]
           longer == Append(list, e)
           n == Len(list)
<1>1. l \in Lists /\ list \in Seq(Entry) /\ e \in Entry /\ e.name = name
  BY DEF ClassInv, Lists, Entry, Node
<1>2. lists' = [lists EXCEPT ![o] = [l EXCEPT ![place] = longer]]
  BY DEF Added
<1> HIDE DEF e, l
<1>3. /\ n \in Nat /\ DOMAIN list = 1..n /\ DOMAIN longer = 1..(n + 1) /\ longer[n + 1] = e
      /\ \A k \in 1..n : longer[k] = list[k] /\ k \in 1..(n + 1)
      /\ n + 1 \in 1..(n + 1)
  <2> HIDE DEF list
  <2> QED
    BY <1>1, ListDomain
<1> HIDE DEF longer
<1>4. /\ lists'[o][place] = longer
      /\ \A at \in Places : at # place => lists'[o][at] = l[at]
      /\ \A d \in Objects : d # o => lists'[d] = lists[d]
  BY <1>1, <1>2 DEF ClassInv, Lists
<1>5. Found(longer, name) # {}
  BY <1>1, <1>3 DEF Found
<1>6. \A other : Found(list, other) # {} => Found(longer, other) # {}
  BY <1>3 DEF Found
<1> HIDE DEF list, n
<1>7. ASSUME NEW at \in Places, NEW other, Found(l[at], other) # {}
      PROVE  Found(lists'[o][at], other) # {}
  BY <1>4, <1>6, <1>7 DEF list
<1> QED
  BY <1>4, <1>5, <1>7 DEF l

LEMMA AddedThere ==
  ASSUME ClassAssumption, ClassInv, NEW o \in Objects, lists[o] # NULL, NEW place \in Places,
         NEW name \in Names, NEW v, Added(o, place, name, v)
  PROVE  lists'[o] # NULL
<1> DEFINE list == lists[o][place]
           e == [name |-> name, node |-> Node(o, place, name)]
           longer == Append(list, e)
           c == [lists[o] EXCEPT ![place] = longer]
<1>1. lists[o] \in Lists /\ list \in Seq(Entry) /\ e \in Entry
  BY DEF ClassInv, Lists, Entry, Node
<1>2. lists' = [lists EXCEPT ![o] = c]
  BY DEF Added
<1>3. longer \in Seq(Entry)
  <2> HIDE DEF list, e
  <2> QED
    BY <1>1
<1> HIDE DEF longer
<1>4. c \in Lists
  BY <1>1, <1>3 DEF Lists
<1> HIDE DEF c
<1>5. lists'[o] = c
  BY <1>2 DEF ClassInv
<1> QED
  BY <1>4, <1>5 DEF ClassAssumption

LEMMA PutKeepsInv ==
  ASSUME ClassAssumption, ClassInv, within[1] # "idle", NEW place \in Places, NEW name \in Names,
         NEW v,
         \A kind \in Inner, owner \in Names :
           place = <<kind, owner>> => HasOwner(lists[building], kind, owner),
         Put(building, place, name, v), UNCHANGED <<building, within>>
  PROVE  ClassInv'
<1>1. building \in Objects /\ lists[building] # NULL
  BY DEF ClassInv, Making, Objects
<1>2. CASE Found(lists[building][place], name) = {}
  <2>1. Added(building, place, name, v)
    BY <1>2 DEF Put
  <2>2. /\ \A d \in Objects : d # building => lists'[d] = lists[d]
        /\ \A at \in Places : \A other :
              Found(lists[building][at], other) # {} => Found(lists'[building][at], other) # {}
    BY <1>1, <2>1, AddedFinds
  <2>3. lists'[building] # NULL
    BY <1>1, <2>1, AddedThere
  <2>4. within[2] # NULL => <<within[1], NULL>> \in Places
    BY DEF ClassInv, Making, Places, Outer
  <2>5. Making'
    BY <2>2, <2>3, <2>4 DEF ClassInv, Making
  <2> QED
    BY <1>1, <1>2, <2>1, <2>5, AddedKeepsInv
<1>3. CASE Found(lists[building][place], name) # {}
  <2>1. UNCHANGED lists /\ DOMAIN heap' = DOMAIN heap
    BY <1>3 DEF Put, Replaced
  <2>2. Making'
    BY <2>1 DEF ClassInv, Making, Found
  <2> QED
    BY <2>1, <2>2, ListsUnchanged
<1> QED
  BY <1>2, <1>3

----------------------------------------------------------------------------
(* Objects are made, cloned and released.                                  *)

LEMMA NoListsOf ==
  ASSUME NEW o
  PROVE  ListsOf(o, NoLists) /\ NodesIn(NoLists) = {}
<1>1. \A place \in Places : NoLists[place] = <<>> /\ ListAt(o, place, <<>>)
  BY DEF NoLists, ListAt
<1>2. NoLists \in Lists
  BY DEF NoLists, Lists
<1>3. \A kind \in Inner, name \in Names : NoLists[<<kind, name>>] = <<>>
  BY <1>1, PlacesDiffer
<1> HIDE DEF NoLists
<1>4. NodesIn(NoLists) = {}
  BY <1>1 DEF NodesIn
<1> QED
  BY <1>1, <1>2, <1>3, <1>4 DEF ListsOf

LEMMA NewKeepsInv ==
  ASSUME ClassAssumption, ClassInv, NEW o \in Objects, New(o), Making'
  PROVE  ClassInv'
<1> DEFINE c == NoLists
<1>1. lists[o] = NULL /\ lists' = [lists EXCEPT ![o] = c] /\ UNCHANGED heap
  BY DEF New
<1>2. ListsOf(o, c) /\ NodesIn(c) = {} /\ c \in Lists
  BY NoListsOf DEF ListsOf
<1> HIDE DEF c
<1>3. \A m : m \in DOMAIN heap' <=>
               \/ m \in DOMAIN heap /\ ~(lists[o] # NULL /\ m \in NodesIn(lists[o]))
               \/ c # NULL /\ m \in NodesIn(c)
  BY <1>1, <1>2
<1> QED
  BY <1>1, <1>2, <1>3, ObjectReplaced

LEMMA ReleasedKeepsInv ==
  ASSUME ClassAssumption, ClassInv, NEW o \in Objects, lists[o] # NULL, Released(o), Making'
  PROVE  ClassInv'
<1> DEFINE c == NULL
<1>1. lists' = [lists EXCEPT ![o] = c] /\ DOMAIN heap' = DOMAIN heap \ NodesIn(lists[o])
  BY DEF Released, NodesOf, NodesIn
<1>2. \A m : m \in DOMAIN heap' <=>
               \/ m \in DOMAIN heap /\ ~(lists[o] # NULL /\ m \in NodesIn(lists[o]))
               \/ c # NULL /\ m \in NodesIn(c)
  BY <1>1
<1>3. c \in Lists \cup {NULL} /\ (c # NULL => ListsOf(o, c))
  OBVIOUS
<1> HIDE DEF c
<1> QED
  BY <1>1, <1>2, <1>3, ObjectReplaced

\* The copies of an object's lists are those of the other object.
LEMMA CopiesOf ==
  ASSUME ClassInv, NEW o \in Objects, lists[o] # NULL, NEW d \in Objects
  PROVE  ListsOf(d, Copies(o, d))
<1> DEFINE l == lists[o]
           copy == Copies(o, d)
<1>1. ListsOf(o, l)
  BY DEF ClassInv
<1> HIDE DEF l
<1>2. ASSUME NEW place \in Places
      PROVE  /\ copy[place] \in Seq(Entry) /\ DOMAIN copy[place] = DOMAIN l[place]
             /\ \A k \in DOMAIN l[place] :
                   copy[place][k].name = l[place][k].name
                   /\ copy[place][k].node = Node(d, place, l[place][k].name)
             /\ l[place] \in Seq(Entry)
             /\ l[place] = <<>> => copy[place] = <<>>
  <2> DEFINE list == l[place]
             other == [k \in DOMAIN list |->
                         [name |-> list[k].name, node |-> Node(d, place, list[k].name)]]
             n == Len(list)
  <2>1. copy[place] = other
    BY DEF Copies, CloneNode, l
  <2>2. list \in Seq(Entry)
    BY <1>1 DEF ListsOf, ListAt
  <2> HIDE DEF list
  <2>3. n \in Nat /\ DOMAIN list = 1..n /\ \A k \in 1..n : list[k] \in Entry
    BY <2>2, ListDomain
  <2> HIDE DEF n
  <2>4. \A k \in 1..n : list[k].name \in Names
    BY <2>3 DEF Entry
  <2>5. other \in [1..n -> Entry]
    <3> SUFFICES ASSUME NEW k \in 1..n
                 PROVE  [name |-> list[k].name, node |-> Node(d, place, list[k].name)] \in Entry
      BY <2>3
    <3> QED
      BY <2>4 DEF Entry, Node
  <2>6. /\ DOMAIN other = DOMAIN list
        /\ \A k \in DOMAIN list : other[k].name = list[k].name
                                  /\ other[k].node = Node(d, place, list[k].name)
    OBVIOUS
  <2> HIDE DEF other
  <2>7. other \in Seq(Entry) /\ Len(other) = n
    BY <2>3, <2>5, IsList
  <2>8. list = <<>> => other = <<>>
    <3>1. list = <<>> => n = 0
      BY DEF n
    <3> QED
      BY <2>7, <3>1, EmptySeq
  <2> HIDE DEF copy
  <2> QED
    BY <2>1, <2>2, <2>6, <2>7, <2>8 DEF list
<1>3. copy \in Lists
  <2>1. DOMAIN copy = Places /\ copy = [place \in Places |-> copy[place]]
    BY DEF Copies
  <2> HIDE DEF copy
  <2> QED
    BY <1>2, <2>1 DEF Lists
<1> HIDE DEF copy
<1>4. ASSUME NEW place \in Places
      PROVE  ListAt(d, place, copy[place])
  <2>1. \A j, k \in DOMAIN l[place] : l[place][j].name = l[place][k].name => j = k
    BY <1>1 DEF ListsOf, ListAt
  <2> QED
    BY <1>2, <2>1 DEF ListAt
<1>5. ASSUME NEW kind \in Inner, NEW name \in Names, copy[<<kind, name>>] # <<>>
      PROVE  HasOwner(copy, kind, name)
  <2>1. <<kind, name>> \in Places /\ <<OwnersList(kind), NULL>> \in Places
    BY PlacesDiffer
  <2>2. HasOwner(l, kind, name)
    BY <1>1, <1>2, <1>5, <2>1 DEF ListsOf
  <2> QED
    BY <1>2, <2>1, <2>2 DEF HasOwner
<1> QED
  BY <1>3, <1>4, <1>5 DEF ListsOf, copy

LEMMA ClonedKeepsInv ==
  ASSUME ClassAssumption, ClassInv, NEW o \in Objects, lists[o] # NULL,
         NEW d \in Objects, lists[d] = NULL, Cloned(o, d), Making'
  PROVE  ClassInv'
<1> DEFINE c == Copies(o, d)
           made == UNION {{<<c[place][k].node, heap[lists[o][place][k].node]>> :
                             k \in DOMAIN c[place]} : place \in Places}
<1>1. ListsOf(d, c) /\ c \in Lists
  BY CopiesOf DEF ListsOf
<1>2. lists' = [lists EXCEPT ![d] = c] /\ DOMAIN heap' = DOMAIN heap \cup {m[1] : m \in made}
  BY DEF Cloned
<1> HIDE DEF c
<1>3. \A m : m \in {z[1] : z \in made} <=> m \in NodesIn(c)
  <2> TAKE m
  <2>1. ASSUME m \in NodesIn(c)
        PROVE  m \in {z[1] : z \in made}
    <3>1. PICK place \in Places : \E k \in DOMAIN c[place] : m = c[place][k].node
      BY <2>1 DEF NodesIn
    <3>2. PICK k \in DOMAIN c[place] : m = c[place][k].node
      BY <3>1
    <3> DEFINE z == <<c[place][k].node, heap[lists[o][place][k].node]>>
    <3>3. z \in made /\ z[1] = m
      BY <3>2
    <3> QED
      BY <3>3
  <2>2. ASSUME NEW z \in made, m = z[1]
        PROVE  m \in NodesIn(c)
    BY <2>2 DEF NodesIn
  <2> QED
    BY <2>1, <2>2
<1> HIDE DEF made
<1>4. c # NULL
  BY <1>1 DEF ClassAssumption
<1>5. \A m : m \in DOMAIN heap' <=>
               \/ m \in DOMAIN heap /\ ~(lists[d] # NULL /\ m \in NodesIn(lists[d]))
               \/ c # NULL /\ m \in NodesIn(c)
  BY <1>2, <1>3, <1>4
<1> QED
  BY <1>1, <1>2, <1>5, ObjectReplaced

LEMMA CrashKeepsInv ==
  ASSUME Crash
  PROVE  ClassInv'
BY DEF Crash, ClassInv, Making, Idle

----------------------------------------------------------------------------
(* The operations.                                                         *)

LEMMA OuterIsNoInner ==
  ASSUME NEW other \in Outer, NEW l
  PROVE  /\ <<other, NULL>> \in Places
         /\ \A kind \in Inner, owner \in Names :
              <<other, NULL>> = <<kind, owner>> => HasOwner(l, kind, owner)
BY PlacesDiffer

\* A property or method that is new, or the one that is there.
LEMMA MemberKeepsInv ==
  ASSUME ClassAssumption, ClassInv, NEW kind \in {"properties", "methods"}, NEW name \in Names,
         addClassMember(kind, name)
  PROVE  ClassInv'
<1> DEFINE place == <<kind, NULL>>
<1>1. kind \in Outer /\ within[1] = kind /\ name # NULL
  BY DEF Outer, addClassMember, ClassAssumption
<1>2. place \in Places /\ \A inner \in Inner, owner \in Names :
        place = <<inner, owner>> => HasOwner(lists[building], inner, owner)
  BY <1>1, OuterIsNoInner
<1>3. building \in Classes /\ building \in Objects /\ lists[building] # NULL
  BY <1>1 DEF ClassInv, Making, Objects
<1>4. CASE /\ Found(lists[building][place], name) = {}
           /\ Added(building, place, name, NULL)
           /\ within' = <<kind, name>> /\ UNCHANGED building
  <2> HIDE DEF place
  <2>1. lists'[building] # NULL
    BY <1>2, <1>3, <1>4, AddedThere
  <2>2. Found(lists'[building][place], name) # {}
    BY <1>2, <1>3, <1>4, AddedFinds
  <2>3. Making'
    BY <1>3, <1>4, <2>1, <2>2 DEF Making, place
  <2> QED
    BY <1>2, <1>3, <1>4, <2>3, AddedKeepsInv
<1>5. CASE /\ Found(lists[building][place], name) # {}
           /\ within' = <<kind, name>> /\ UNCHANGED <<lists, heap, building>>
  <2>1. Making'
    BY <1>3, <1>5 DEF Making, Found
  <2> QED
    BY <1>5, <2>1, ListsUnchanged
<1>6. CASE Crash
  BY <1>6, CrashKeepsInv
<1> QED
  BY <1>4, <1>5, <1>6 DEF addClassMember

\* What a property or method has of its own: it is found where the parser is.
LEMMA InnerKeepsInv ==
  ASSUME ClassAssumption, ClassInv, NEW kind \in Inner, within[1] = OwnersList(kind),
         within[2] # NULL, NEW name \in Names, NEW v,
         Put(building, <<kind, within[2]>>, name, v), UNCHANGED <<building, within>>
  PROVE  ClassInv'
<1> DEFINE place == <<kind, within[2]>>
<1>1. within[2] \in Names /\ Found(lists[building][<<OwnersList(kind), NULL>>], within[2]) # {}
  BY DEF ClassInv, Making
<1>2. place \in Places
  BY <1>1, PlacesDiffer
<1>3. HasOwner(lists[building], kind, within[2])
  BY <1>1 DEF HasOwner, Found
<1>4. \A inner \in Inner, owner \in Names :
        place = <<inner, owner>> => HasOwner(lists[building], inner, owner)
  BY <1>3
<1>5. within[1] # "idle"
  BY DEF OwnersList
<1> HIDE DEF place
<1>6. Put(building, place, name, v)
  BY DEF place
<1> QED
  BY <1>2, <1>4, <1>5, <1>6, PutKeepsInv

LEMMA ElementKeepsInv ==
  ASSUME ClassAssumption, ClassInv, Element
  PROVE  ClassInv'
<1>1. CASE setClassProperties \/ setClassMethods
  <2>1. /\ UNCHANGED <<lists, heap, building>> /\ within[1] # "idle"
        /\ within' = <<"properties", NULL>> \/ within' = <<"methods", NULL>>
    BY <1>1 DEF setClassProperties, setClassMethods
  <2>2. Making'
    BY <2>1 DEF ClassInv, Making
  <2> QED
    BY <2>1, <2>2, ListsUnchanged
<1>2. CASE ClassMade
  <2>1. UNCHANGED <<lists, heap>> /\ building' = NULL /\ within' = Idle
    BY <1>2 DEF ClassMade
  <2>2. Making'
    BY <2>1 DEF Making, Idle
  <2> QED
    BY <2>1, <2>2, ListsUnchanged
<1>3. ASSUME NEW name \in Names, NEW v \in Vals, addClassQualifier(name, v)
      PROVE  ClassInv'
  <2> DEFINE place == <<"qualifiers", NULL>>
  <2>1. place \in Places /\ \A kind \in Inner, owner \in Names :
          place = <<kind, owner>> => HasOwner(lists[building], kind, owner)
    BY OuterIsNoInner DEF Outer
  <2>2. /\ within[1] # "idle" /\ Put(building, place, name, v)
        /\ UNCHANGED <<building, within>>
    BY <1>3 DEF addClassQualifier
  <2> HIDE DEF place
  <2> QED
    BY <2>1, <2>2, PutKeepsInv
<1>4. ASSUME NEW name \in Names, NEW v \in Vals, addClassPropertyQualifier(name, v)
      PROVE  ClassInv'
  <2>1. "property qualifiers" \in Inner /\ OwnersList("property qualifiers") = "properties"
    BY DEF Inner, OwnersList
  <2> QED
    BY <1>4, <2>1, InnerKeepsInv DEF addClassPropertyQualifier
<1>5. ASSUME NEW name \in Names, NEW v \in Vals, addClassMethodQualifier(name, v)
      PROVE  ClassInv'
  <2>1. "method qualifiers" \in Inner /\ OwnersList("method qualifiers") = "methods"
    BY DEF Inner, OwnersList
  <2> QED
    BY <1>5, <2>1, InnerKeepsInv DEF addClassMethodQualifier
<1>6. ASSUME NEW name \in Names, addClassMethodParameter(name)
      PROVE  ClassInv'
  <2>1. "parameters" \in Inner /\ OwnersList("parameters") = "methods"
    BY DEF Inner, OwnersList
  <2>2. within[1] = "methods"
    BY <1>6 DEF addClassMethodParameter, ClassInv, Making
  <2> QED
    BY <1>6, <2>1, <2>2, InnerKeepsInv DEF addClassMethodParameter
<1>7. ASSUME NEW name \in Names, addClassProperty(name) \/ addClassMethod(name)
      PROVE  ClassInv'
  BY <1>7, MemberKeepsInv DEF addClassProperty, addClassMethod
<1> QED
  BY <1>1, <1>2, <1>3, <1>4, <1>5, <1>6, <1>7 DEF Element

LEMMA ClassOperationKeepsInv ==
  ASSUME ClassAssumption, ClassInv, NEW c \in Classes, ClassOperation(c)
  PROVE  ClassInv'
<1>1. c \in Objects /\ c # NULL
  BY DEF Objects, ClassAssumption
<1>2. CASE native_new_CMPIConstClass(c)
  <2>1. New(c) /\ building' = c /\ within' = <<"qualifiers", NULL>>
    BY <1>2 DEF native_new_CMPIConstClass
  <2>2. lists'[c] # NULL
    <3>1. NoLists \in Lists
      BY NoListsOf DEF ListsOf
    <3>2. lists'[c] = NoLists
      BY <1>1, <2>1 DEF New, ClassInv
    <3> QED
      BY <3>1, <3>2 DEF ClassAssumption
  <2>3. Making'
    BY <2>1, <2>2 DEF Making
  <2> QED
    BY <1>1, <2>1, <2>3, NewKeepsInv
<1>3. ASSUME NEW d \in Classes, __ccft_clone(c, d)
      PROVE  ClassInv'
  <2>1. /\ lists[c] # NULL /\ lists[d] = NULL /\ Cloned(c, d) /\ UNCHANGED <<building, within>>
        /\ d \in Objects
    BY <1>3 DEF __ccft_clone, Objects
  <2>2. \A e \in Objects : e # d => lists'[e] = lists[e]
    BY <2>1 DEF Cloned, ClassInv
  <2>3. Making'
    <3>1. CASE building # d
      BY <2>1, <2>2, <3>1, MakingKept
    <3>2. CASE building = d
      BY <1>1, <2>1, <3>2, NotMaking
    <3> QED
      BY <3>1, <3>2
  <2> QED
    BY <1>1, <2>1, <2>3, ClonedKeepsInv
<1>4. CASE __ccft_release(c)
  <2>1. lists[c] # NULL /\ building # c /\ Released(c) /\ UNCHANGED <<building, within>>
    BY <1>4 DEF __ccft_release
  <2>2. \A e \in Objects : e # c => lists'[e] = lists[e]
    BY <2>1 DEF Released, ClassInv
  <2>3. Making'
    BY <1>1, <2>1, <2>2, MakingKept
  <2> QED
    BY <1>1, <2>1, <2>3, ReleasedKeepsInv
<1> QED
  BY <1>2, <1>3, <1>4 DEF ClassOperation

LEMMA ArgsOperationKeepsInv ==
  ASSUME ClassAssumption, ClassInv, NEW a \in ArgLists, ArgsOperation(a)
  PROVE  ClassInv'
<1>1. \A b \in ArgLists : b \in Objects /\ b \notin Classes
  BY DEF Objects, ClassAssumption
<1>2. ASSUME NEW b \in ArgLists, UNCHANGED <<building, within>>,
             \A d \in Objects : d # b => lists'[d] = lists[d]
      PROVE  Making'
  <2>1. CASE building # b
    BY <1>1, <1>2, <2>1, MakingKept
  <2>2. CASE building = b
    BY <1>1, <1>2, <2>2, NotMaking
  <2> QED
    BY <2>1, <2>2
<1>3. CASE native_new_CMPIArgs(a)
  <2>1. New(a) /\ UNCHANGED <<building, within>>
    BY <1>3 DEF native_new_CMPIArgs
  <2>2. \A d \in Objects : d # a => lists'[d] = lists[d]
    BY <2>1 DEF New, ClassInv
  <2> QED
    BY <1>1, <1>2, <2>1, <2>2, NewKeepsInv
<1>4. ASSUME NEW name \in Names, NEW v \in Vals \cup {NULL}, __aft_addArg(a, name, v)
      PROVE  ClassInv'
  <2> DEFINE place == <<"arguments", NULL>>
  <2>1. place \in Places /\ \A kind \in Inner, owner \in Names :
          place = <<kind, owner>> => HasOwner(lists[a], kind, owner)
    BY OuterIsNoInner DEF Outer
  <2>2. lists[a] # NULL /\ UNCHANGED <<building, within>>
    BY <1>4 DEF __aft_addArg
  <2>3. CASE Found(lists[a][place], name) = {}
    <3>1. Added(a, place, name, v)
      BY <1>4, <2>3 DEF __aft_addArg
    <3> HIDE DEF place
    <3>2. \A d \in Objects : d # a => lists'[d] = lists[d]
      BY <1>1, <2>1, <2>2, <3>1, AddedFinds
    <3>3. Making'
      BY <1>2, <2>2, <3>2
    <3> QED
      BY <1>1, <2>1, <2>2, <2>3, <3>1, <3>3, AddedKeepsInv
  <2>4. CASE Found(lists[a][place], name) # {}
    <3>1. UNCHANGED <<lists, heap>>
      BY <1>4, <2>4 DEF __aft_addArg
    <3>2. Making'
      BY <1>2, <2>2, <3>1
    <3> QED
      BY <3>1, <3>2, ListsUnchanged
  <2> QED
    BY <2>3, <2>4
<1>5. ASSUME NEW b \in ArgLists, NEW rc \in {"given", NULL}, __aft_clone(a, b, rc)
      PROVE  ClassInv'
  <2>1. CASE Crash
    BY <2>1, CrashKeepsInv
  <2>2. CASE Cloned(a, b) /\ UNCHANGED <<building, within>>
    <3>1. lists[a] # NULL /\ lists[b] = NULL
      BY <1>5 DEF __aft_clone
    <3>2. \A d \in Objects : d # b => lists'[d] = lists[d]
      BY <2>2 DEF Cloned, ClassInv
    <3> QED
      BY <1>1, <1>2, <2>2, <3>1, <3>2, ClonedKeepsInv
  <2> QED
    BY <1>5, <2>1, <2>2 DEF __aft_clone
<1>6. CASE __aft_release(a)
  <2>1. lists[a] # NULL /\ Released(a) /\ UNCHANGED <<building, within>>
    BY <1>6 DEF __aft_release
  <2>2. \A d \in Objects : d # a => lists'[d] = lists[d]
    BY <2>1 DEF Released, ClassInv
  <2> QED
    BY <1>1, <1>2, <2>1, <2>2, ReleasedKeepsInv
<1> QED
  BY <1>3, <1>4, <1>5, <1>6 DEF ArgsOperation

----------------------------------------------------------------------------
(* The theorem.                                                            *)

LEMMA InitClassInv ==
  ASSUME Init
  PROVE  ClassInv
BY DEF Init, ClassInv, Making, Idle

LEMMA ClassNextKeepsInv ==
  ASSUME ClassAssumption, ClassInv, [Next]_vars
  PROVE  ClassInv'
<1>1. ASSUME NEW c \in Classes, ClassOperation(c)
      PROVE  ClassInv'
  BY <1>1, ClassOperationKeepsInv
<1>2. ASSUME NEW a \in ArgLists, ArgsOperation(a)
      PROVE  ClassInv'
  BY <1>2, ArgsOperationKeepsInv
<1>3. CASE UNCHANGED vars
  <2>1. UNCHANGED <<lists, heap, building, within>>
    BY <1>3 DEF vars
  <2>2. Making'
    BY <2>1 DEF ClassInv, Making, Found
  <2> QED
    BY <2>1, <2>2, ListsUnchanged
<1> QED
  BY <1>1, <1>2, <1>3, ElementKeepsInv DEF Next

\* What EachNodeOnce says of the nodes follows from what each list says.
LEMMA InvEachNodeOnce ==
  ASSUME ClassInv
  PROVE  EachNodeOnce
<1>1. \A o \in Alive : o \in Objects /\ lists[o] # NULL /\ ListsOf(o, lists[o])
                      /\ NodesOf(o) = NodesIn(lists[o])
  BY DEF Alive, ClassInv, NodesOf, NodesIn
<1>2. ASSUME NEW o \in Alive, NEW place \in Places, NEW name \in Names
      PROVE  Cardinality({k \in DOMAIN lists[o][place] : lists[o][place][k].name = name}) <= 1
  <2> DEFINE list == lists[o][place]
             K == {k \in DOMAIN list : list[k].name = name}
  <2>1. \A j, k \in DOMAIN list : list[j].name = list[k].name => j = k
    <3>1. ListsOf(o, lists[o])
      BY <1>1
    <3>2. ListAt(o, place, list)
      BY <3>1 DEF ListsOf
    <3> QED
      BY <3>2 DEF ListAt
  <2>2. \A j, k \in K : j = k
    BY <2>1
  <2> HIDE DEF K
  <2>3. CASE K = {}
    <3>1. Cardinality(K) = 0
      BY <2>3, FS_EmptySet
    <3> QED
      BY <3>1 DEF K
  <2>4. CASE K # {}
    <3>1. PICK k \in K : TRUE
      BY <2>4
    <3>2. K = {k}
      BY <2>2, <3>1
    <3>3. Cardinality(K) = 1
      BY <3>2, FS_Singleton
    <3> QED
      BY <3>3 DEF K
  <2> QED
    BY <2>3, <2>4
<1>3. ASSUME NEW o \in Alive, NEW kind \in Inner, NEW name \in Names,
             lists[o][<<kind, name>>] # <<>>
      PROVE  \E k \in DOMAIN lists[o][<<OwnersList(kind), NULL>>] :
               lists[o][<<OwnersList(kind), NULL>>][k].name = name
  BY <1>1, <1>3 DEF ListsOf, HasOwner
<1>4. ASSUME NEW o \in Alive, NEW d \in Alive, o # d
      PROVE  NodesOf(o) \cap NodesOf(d) = {}
  <2> SUFFICES ASSUME NEW n \in NodesOf(o), n \in NodesOf(d)
               PROVE  FALSE
    OBVIOUS
  <2>1. n[1] = o /\ n[1] = d
    BY <1>1, NodeOfObject
  <2> QED
    BY <1>4, <2>1
<1>5. \A n : n \in DOMAIN heap <=> n \in UNION {NodesOf(o) : o \in Alive}
  <2> TAKE n
  <2>1. n \in DOMAIN heap <=> \E o \in Objects : lists[o] # NULL /\ n \in NodesIn(lists[o])
    BY DEF ClassInv
  <2>2. n \in UNION {NodesOf(o) : o \in Alive} <=> \E o \in Alive : n \in NodesOf(o)
    OBVIOUS
  <2> QED
    BY <1>1, <2>1, <2>2 DEF Alive
<1>6. DOMAIN heap = UNION {NodesOf(o) : o \in Alive}
  BY <1>5
<1> QED
  BY <1>2, <1>3, <1>4, <1>6 DEF EachNodeOnce

\* Each node that is allocated is in one list of one object, no list has a name
\* twice and no list of a property or method is left behind by it: __addX, __setX,
\* the clones and releases of constClass.c, property.c, method.c, qualifier.c,
\* parameter.c and args.c, and what the parser makes of a CLASS element.
THEOREM NodesAreOnce ==
  ASSUME ClassAssumption
  PROVE  Spec => []EachNodeOnce
<1>1. Init => ClassInv
  BY InitClassInv
<1>2. ClassInv /\ [Next]_vars => ClassInv'
  BY ClassNextKeepsInv
<1>3. ClassInv => EachNodeOnce
  BY InvEachNodeOnce
<1> QED
  BY <1>1, <1>2, <1>3, PTL DEF Spec

=============================================================================
