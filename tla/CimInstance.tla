---------------------------- MODULE CimInstance ----------------------------
(***************************************************************************)
(* CMPIInstance and CMPIObjectPath (instance.c, objectpath.c), both built  *)
(* on the lists of native_property (property.c).                           *)
(*                                                                         *)
(* A list entry owns its value, an object on the heap; every function that *)
(* takes a value from another entry or from the caller clones it, and every*)
(* function that drops one releases it.  A property that has the null      *)
(* state owns nothing: what is set on it is cloned, and lost.              *)
(*                                                                         *)
(* Names are compared without regard to case: a member of Names stands for *)
(* all spellings.                                                          *)
(***************************************************************************)
EXTENDS Naturals, FiniteSets, Sequences, SequencesExt

CONSTANTS
  Instances,      \* instances the program may have at a time
  Paths,          \* object paths it may have at a time
  Names,          \* names of properties and keys
  Vals,           \* values of properties and keys
  PropertyLists,  \* what setPropertyFilter may be given as propertyList, ...
  KeyLists,       \* ... and as keys
  MaxEntries,     \* bound: entries of all lists
  MaxLost,        \* bound: values that are lost
  NULL

ASSUME InstanceAssumption ==
  /\ \A list \in PropertyLists : list = NULL \/ list \subseteq Names
  /\ KeyLists \subseteq SUBSET Names
  /\ MaxEntries \in Nat /\ MaxLost \in Nat
  /\ NULL \notin Vals
  /\ Instances \cap Paths = {}

VARIABLES
  inst,       \* each instance, NULL before it is made and after its release
  path,       \* each object path, likewise
  heap,       \* the values that are allocated, by their address
  lost,       \* history: how many of them were stored in a property that is null
  crashed     \* the process read past the end of a list, or what was released

vars == <<inst, path, heap, lost, crashed>>

\* A string without characters, what becomes of a null pointer that is set
\* as CMPI_chars.
NoChars == "no characters"

Contents == Vals \cup {NoChars}

Objects == Instances \cup Paths

\* An address tells the object and the property it was allocated for, and a
\* number should that not be free.  One that nobody keeps is only numbered.
Addresses == Objects \X Names \X {1, 2}
LostAddresses == {<<n>> : n \in 1..lost}
NoAddress == <<>>

Entry == [name : Names, state : {"good", "null", "key"}, value : Addresses \cup {NoAddress}]

Filter ==
  [filtered : BOOLEAN, properties : PropertyLists \cup {NULL}, keys : KeyLists \cup {NULL}]

Instance == [props : Seq(Entry), filter : Filter]

\* NULL is no object.
ASSUME NullAssumption == NULL \notin Seq(Entry) /\ NULL \notin Instance

NoFilter == [filtered |-> FALSE, properties |-> NULL, keys |-> NULL]

----------------------------------------------------------------------------
(* Lists of properties (property.c).                                       *)

Position(list, name) == SelectInSeq(list, LAMBDA e : e.name = name)
Has(list, name) == Position(list, name) # 0

Owning(list) == {k \in DOMAIN list : list[k].state # "null"}
Values(list) == {list[k].value : k \in Owning(list)}

\* What malloc() returns for a property of an object.
Fresh(o, name, allocated) ==
  <<o, name, CHOOSE n \in {1, 2} : <<o, name, n>> \notin allocated>>

\* Mutant: __clone copies the pointers.
Clone_Shallow(o, list) == list

\* __clone, for the object o.
Clone(o, list) ==
  [k \in DOMAIN list |->
     [list[k] EXCEPT !.value = IF list[k].state = "null" THEN NoAddress
                               ELSE Fresh(o, list[k].name, DOMAIN heap)]]

\* The heap with the values of a list's clone.
WithClone(o, list) ==
  LET copy == Clone(o, list)
  IN [a \in DOMAIN heap \cup Values(copy) |->
        IF a \in DOMAIN heap THEN heap[a]
        ELSE heap[list[CHOOSE k \in Owning(copy) : copy[k].value = a].value]]

\* The heap after the release of some values and the clone of another.
With(a, value, released) ==
  [b \in (DOMAIN heap \ released) \cup {a} |-> IF b = a THEN value ELSE heap[b]]

\* native_release_CMPIValue() of some of the values.
Released(addresses) == [a \in DOMAIN heap \ addresses |-> heap[a]]

\* Mutant: __addProperty looks for the name in the first entry only.
Add_LooksAtFirst(list, name, state, new) ==
  IF list # <<>> /\ list[1].name = name THEN list
  ELSE Append(list, [name |-> name, state |-> state, value |-> new])

\* __addProperty: an existing property stays as it is.
Add(list, name, state, new) ==
  IF Has(list, name) THEN list
  ELSE Append(list, [name |-> name, state |-> state, value |-> new])

----------------------------------------------------------------------------
(* Object paths.                                                           *)

newCMPIObjectPath(p) ==
  /\ path[p] = NULL
  /\ path' = [path EXCEPT ![p] = <<>>]
  /\ UNCHANGED <<inst, heap, lost, crashed>>

\* CMPI_RC_ERR_ALREADY_EXISTS for a key that exists.  NULL stands for a value
\* of type CMPI_null.
addKey(p, name, value) ==
  /\ path[p] # NULL
  /\ IF value = NULL \/ Has(path[p], name)
       THEN path' = [path EXCEPT ![p] = Add(@, name, "null", NoAddress)] /\ UNCHANGED heap
       ELSE LET new == Fresh(p, name, DOMAIN heap)
            IN path' = [path EXCEPT ![p] = Add(@, name, "key", new)] /\ heap' = With(new, value, {})
  /\ UNCHANGED <<inst, lost, crashed>>

ClonePath(p, q) ==
  /\ path[p] # NULL /\ path[q] = NULL
  /\ path' = [path EXCEPT ![q] = Clone(q, path[p])]
  /\ heap' = WithClone(q, path[p])
  /\ UNCHANGED <<inst, lost, crashed>>

ReleasePath(p) ==
  /\ path[p] # NULL
  /\ path' = [path EXCEPT ![p] = NULL]
  /\ heap' = Released(Values(path[p]))
  /\ UNCHANGED <<inst, lost, crashed>>

----------------------------------------------------------------------------
(* Instances.                                                              *)

\* The process ends and all is gone.
Crash ==
  /\ crashed' = TRUE
  /\ inst' = [i \in Instances |-> NULL]
  /\ path' = [p \in Paths |-> NULL]
  /\ heap' = [a \in {} |-> NULL]
  /\ lost' = 0

\* __duplicate_list writes no terminator behind the names: who walks a copy to
\* its end reads what malloc() left there and may go on, until the process ends.
WalksOff(list) == list # NULL /\ Crash

\* The keys of the path, if there is one, are added from the last to the first.
newCMPIInstance(i, keys) ==
  /\ inst[i] = NULL
  /\ inst' = [inst EXCEPT ![i] = [props |-> Clone(i, Reverse(keys)), filter |-> NoFilter]]
  /\ heap' = WithClone(i, Reverse(keys))
  /\ UNCHANGED <<path, lost, crashed>>

\* The lists of the filter are copied, but not that they are in force.
CloneInstance(i, j) ==
  /\ inst[i] # NULL /\ inst[j] = NULL
  /\ \/ /\ inst' = [inst EXCEPT ![j] = [props |-> Clone(j, inst[i].props),
                                         filter |-> [inst[i].filter EXCEPT !.filtered = FALSE]]]
        /\ heap' = WithClone(j, inst[i].props)
        /\ UNCHANGED <<path, lost, crashed>>
     \/ WalksOff(inst[i].filter.keys)

ReleaseInstance(i) ==
  /\ inst[i] # NULL
  /\ \/ /\ inst' = [inst EXCEPT ![i] = NULL]
        /\ heap' = Released(Values(inst[i].props))
        /\ UNCHANGED <<path, lost, crashed>>
     \/ WalksOff(inst[i].filter.keys)

\* The lists of an earlier filter are released, but for those of a clone.
setPropertyFilter(i, properties, keys) ==
  /\ inst[i] # NULL
  /\ \/ /\ inst' = [inst EXCEPT ![i].filter =
                      [filtered |-> TRUE, properties |-> properties, keys |-> keys]]
        /\ UNCHANGED <<path, heap, lost, crashed>>
     \/ inst[i].filter.filtered /\ WalksOff(inst[i].filter.keys)

\* The names that setProperty does not ignore.
Accepted(filter) ==
  IF ~filter.filtered \/ filter.properties = NULL THEN Names
  ELSE filter.properties \cup filter.keys

\* __setProperty on an existing property, which releases the old value first.
\* A null pointer makes it null, unless it is set as CMPI_chars.  Nothing else
\* sets the state: the clone that is stored in a property that is null is not
\* released, as nothing is where the state is null.
Set(i, k, value) ==
  LET old == inst[i].props[k]
      null == old.state = "null"
      new == Fresh(i, old.name, DOMAIN heap \ {old.value})
  IN \/ /\ null /\ value = NULL
        /\ UNCHANGED <<inst, heap, lost>>
     \/ /\ null /\ value # NULL
        /\ heap' = With(<<lost + 1>>, value, {})
        /\ lost' = lost + 1
        /\ UNCHANGED inst
     \/ /\ ~null /\ value = NULL
        /\ inst' = [inst EXCEPT ![i].props[k] = [@ EXCEPT !.state = "null", !.value = NoAddress]]
        /\ heap' = Released({old.value})
        /\ UNCHANGED lost
     \/ /\ ~null /\ value # NULL
        /\ inst' = [inst EXCEPT ![i].props[k].value = new]
        /\ heap' = With(new, value, {old.value})
        /\ UNCHANGED lost

\* __addProperty on a name that is new: any null pointer makes it null.
AddTo(i, name, value) ==
  IF value \in {NULL, NoChars}
    THEN inst' = [inst EXCEPT ![i].props = Add(@, name, "null", NoAddress)] /\ UNCHANGED heap
    ELSE LET new == Fresh(i, name, DOMAIN heap)
         IN /\ inst' = [inst EXCEPT ![i].props = Add(@, name, "good", new)]
            /\ heap' = With(new, value, {})

setProperty(i, name, value) ==
  /\ inst[i] # NULL
  /\ LET filter == inst[i].filter
         k == Position(inst[i].props, name)
     IN \/ /\ name \in Accepted(filter)
           /\ IF k # 0 THEN Set(i, k, value) ELSE AddTo(i, name, value) /\ UNCHANGED lost
           /\ UNCHANGED <<path, crashed>>
        \/ name \notin Accepted(filter) /\ UNCHANGED vars
        \/ /\ filter.filtered /\ filter.properties # NULL /\ name \notin filter.properties
           /\ WalksOff(filter.properties)

\* The caller may set a property to the very value that getProperty returned for
\* it: what is released first is then cloned.
setPropertyToItsOwn(i, name) ==
  /\ inst[i] # NULL /\ name \in Accepted(inst[i].filter)
  /\ \E k \in Owning(inst[i].props) : inst[i].props[k].name = name
  /\ Crash

Keys(props) == {k \in DOMAIN props : props[k].state = "key"}

\* Mutant: the properties are looked at from the first to the last.
PathKeys_Forwards(props) ==
  [n \in 1..Cardinality(Keys(props)) |->
     props[CHOOSE k \in Keys(props) : Cardinality({j \in Keys(props) : j <= k}) = n]]

\* The properties are looked at from the last to the first.
PathKeys(props) ==
  [n \in 1..Cardinality(Keys(props)) |->
     props[CHOOSE k \in Keys(props) : Cardinality({j \in Keys(props) : j >= k}) = n]]

getObjectPath(i, p) ==
  /\ inst[i] # NULL /\ path[p] = NULL
  /\ path' = [path EXCEPT ![p] = Clone(p, PathKeys(inst[i].props))]
  /\ heap' = WithClone(p, PathKeys(inst[i].props))
  /\ UNCHANGED <<inst, lost, crashed>>

----------------------------------------------------------------------------
Init ==
  /\ inst = [i \in Instances |-> NULL]
  /\ path = [p \in Paths |-> NULL]
  /\ heap = [a \in {} |-> NULL]
  /\ lost = 0
  /\ crashed = FALSE

Inputs == Vals \cup {NoChars, NULL}

PathOperation(p) ==
  \/ newCMPIObjectPath(p)
  \/ \E name \in Names, value \in Inputs : addKey(p, name, value)
  \/ \E q \in Paths : ClonePath(p, q)
  \/ ReleasePath(p)

InstanceOperation(i) ==
  \/ newCMPIInstance(i, <<>>)
  \/ \E p \in Paths : path[p] # NULL /\ newCMPIInstance(i, path[p])
  \/ \E j \in Instances : CloneInstance(i, j)
  \/ ReleaseInstance(i)
  \/ \E properties \in PropertyLists, keys \in KeyLists : setPropertyFilter(i, properties, keys)
  \/ \E name \in Names, value \in Inputs : setProperty(i, name, value)
  \/ \E name \in Names : setPropertyToItsOwn(i, name)
  \/ \E p \in Paths : getObjectPath(i, p)

\* The entries of all lists, by their place.
List(o) ==
  IF o \in Paths THEN path[o] ELSE IF inst[o] = NULL THEN NULL ELSE inst[o].props
Alive == {o \in Objects : List(o) # NULL}
Entries == UNION {{<<o, k>> : k \in DOMAIN List(o)} : o \in Alive}

Next ==
  /\ ~crashed
  /\ \/ \E p \in Paths : PathOperation(p)
     \/ \E i \in Instances : InstanceOperation(i)
  /\ Cardinality(Entries') <= MaxEntries /\ lost' <= MaxLost

Spec == Init /\ [][Next]_vars

----------------------------------------------------------------------------
(* Properties.                                                             *)

\* The types of the variables; no list has two entries of one name, which
\* getProperty would never find.
TypeOK ==
  /\ inst \in [Instances -> Instance \cup {NULL}]
  /\ path \in [Paths -> Seq(Entry) \cup {NULL}]
  /\ \A o \in Alive : \A j, k \in DOMAIN List(o) :
       List(o)[j].name = List(o)[k].name => j = k
  /\ DOMAIN heap \subseteq Addresses \cup LostAddresses
  /\ \A a \in DOMAIN heap : heap[a] \in Contents
  /\ lost \in Nat
  /\ crashed \in BOOLEAN

\* The entries that own a value, and the value.
Holders == {e \in Entries : List(e[1])[e[2]].state # "null"}
Held(e) == List(e[1])[e[2]].value

\* No value has two owners and none is released while it has one: clones, paths
\* made from instances and instances made from paths share nothing, in whatever
\* order they are changed and released.  What is allocated has an owner, but for
\* the values that __setProperty stored in properties that were null, and for all
\* of those: nobody releases them.
OneOwner ==
  /\ \A e, f \in Holders : Held(e) = Held(f) => e = f
  /\ DOMAIN heap = {Held(e) : e \in Holders} \cup LostAddresses

\* What a caller reads, for the refinement mapping.
Read(list) ==
  [k \in DOMAIN list |->
     [name |-> list[k].name, state |-> list[k].state,
      content |-> IF list[k].state = "null" THEN NULL
                  ELSE IF list[k].value \in DOMAIN heap THEN heap[list[k].value]
                  ELSE "released"]]

\* Objects are values: what is read of one changes only by what is done to it,
\* see CimObjects.
Abstract == INSTANCE CimObjects WITH
  instance <- [i \in Instances |->
                 IF inst[i] = NULL THEN NULL
                 ELSE [props |-> Read(inst[i].props),
                       accepted |-> Accepted(inst[i].filter),
                       lists |-> inst[i].filter.keys # NULL]],
  objectPath <- [p \in Paths |-> IF path[p] = NULL THEN NULL ELSE Read(path[p])],
  ended <- crashed

ObjectsAreValues == Abstract!Spec

\* cmcift.h, line 239, of setProperty: "Adds/replaces a named Property".  Wherever
\* the filter lets a property through it can be set to a value and then has it;
\* one that was null stays null.
HasValue(i, n, v) ==
  \E k \in DOMAIN inst[i].props :
    inst[i].props[k].name = n /\ Read(inst[i].props)[k].content = v

SetsTo(i, n, v) == setProperty(i, n, v) /\ ~crashed' /\ HasValue(i, n, v)'

SetPropertyReplaces ==
  \A i \in Instances, n \in Names, v \in Vals :
    inst[i] # NULL /\ n \in Accepted(inst[i].filter) => ENABLED SetsTo(i, n, v)

============================================================================
