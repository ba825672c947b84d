----------------------------- MODULE CimClass -----------------------------
(***************************************************************************)
(* CMPIConstClass (constClass.c) with its properties, methods, qualifiers  *)
(* and parameters (property.c, method.c, qualifier.c, parameter.c), made   *)
(* from a CLASS element by the parser (parserUtil.c, grammar.c), and       *)
(* CMPIArgs (args.c), a list of properties.                                *)
(*                                                                         *)
(* All of them are linked lists of named entries; properties and methods   *)
(* have lists of their own.  A node stands for an entry with its name and  *)
(* value.  Names are compared without regard to case: a member of Names    *)
(* stands for all spellings.                                               *)
(***************************************************************************)
EXTENDS Naturals, FiniteSets, Sequences

CONSTANTS
  Classes,      \* class declarations the program may have at a time
  ArgLists,     \* lists of arguments it may have at a time
  Names,        \* names of entries
  Vals,         \* values of qualifiers and arguments
  MaxObjects,   \* bound: classes and lists of arguments
  MaxEntries,   \* bound: entries of all their lists
  NULL

VARIABLES
  lists,     \* each object: its lists of entries by place, NULL without
  heap,      \* the nodes that are allocated, with their values
  building,  \* the class that is being made of a CLASS element, or NULL
  within,    \* the function that is at it, and the property or method
  val,       \* its local of that name: nothing yet, or what was released
  crashed    \* the process read what was released, or through a null pointer

vars == <<lists, heap, building, within, val, crashed>>

Objects == Classes \cup ArgLists

Inner == {"property qualifiers", "method qualifiers", "parameters"}
Outer == {"qualifiers", "properties", "methods", "arguments"}
Places == (Outer \X {NULL}) \cup (Inner \X Names)

\* The list that has the owner of an inner list.
OwnersList(kind) == IF kind = "property qualifiers" THEN "properties" ELSE "methods"

Entry == [name : Names, node : Objects \X Places \X Names]

\* The lists of an object.
Lists == [Places -> Seq(Entry)]

\* What is expected of the constants: NULL is none of them.
ClassAssumption ==
  /\ Classes \cap ArgLists = {}
  /\ NULL \notin Classes /\ NULL \notin Names
  /\ NULL \notin Lists

Idle == <<"idle", NULL>>
NoLists == [place \in Places |-> <<>>]

----------------------------------------------------------------------------
(* The lists.                                                              *)

Node(o, place, name) == <<o, place, name>>

\* __addX on a name that is not there.
Added(o, place, name, v) ==
  LET node == Node(o, place, name)
  IN /\ lists' = [lists EXCEPT ![o][place] = Append(@, [name |-> name, node |-> node])]
     /\ heap' = [n \in DOMAIN heap \cup {node} |-> IF n = node THEN v ELSE heap[n]]

\* The entry with a name, where __setX, __addX and __getX stop.
Found(list, name) == {k \in DOMAIN list : list[k].name = name}

\* __setX on a name that is there: the node has another value.
Replaced(list, name, v) ==
  /\ heap' = [n \in DOMAIN heap |->
                IF \E k \in Found(list, name) : list[k].node = n THEN v ELSE heap[n]]
  /\ UNCHANGED lists

\* setX, and addX if the name is not there: qualifiers and parameters.
Put(o, place, name, v) ==
  IF Found(lists[o][place], name) = {} THEN Added(o, place, name, v)
  ELSE Replaced(lists[o][place], name, v)

\* Mutant: __clone of a method takes the pointer to its parameters.
CloneNode_SharesParameters(d, place, e) ==
  IF place[1] = "parameters" THEN e.node ELSE Node(d, place, e.name)

\* The copy of an entry.
CloneNode(d, place, e) == Node(d, place, e.name)

\* Mutant: the qualifiers of methods are left out of a clone.
Copies_NoMethodQualifiers(o, d) ==
  [place \in Places |->
     IF place[1] = "method qualifiers" THEN <<>>
     ELSE [k \in DOMAIN lists[o][place] |->
             [name |-> lists[o][place][k].name, node |-> CloneNode(d, place, lists[o][place][k])]]]

\* __clone of each list of an object for another.
Copies(o, d) ==
  [place \in Places |->
     [k \in DOMAIN lists[o][place] |->
        [name |-> lists[o][place][k].name, node |-> CloneNode(d, place, lists[o][place][k])]]]

Cloned(o, d) ==
  LET copy == Copies(o, d)
      made == UNION {{<<copy[place][k].node, heap[lists[o][place][k].node]>> :
                        k \in DOMAIN copy[place]} : place \in Places}
  IN /\ lists' = [lists EXCEPT ![d] = copy]
     /\ heap' = [n \in DOMAIN heap \cup {m[1] : m \in made} |->
                   IF n \in DOMAIN heap THEN heap[n] ELSE (CHOOSE m \in made : m[1] = n)[2]]

\* The nodes that __release of all the lists of an object goes through.
NodesOf(o) ==
  UNION {{lists[o][place][k].node : k \in DOMAIN lists[o][place]} : place \in Places}

Released(o) ==
  /\ lists' = [lists EXCEPT ![o] = NULL]
  /\ heap' = [n \in DOMAIN heap \ NodesOf(o) |-> heap[n]]

\* The process does not go on.
Crash ==
  /\ lists' = [o \in Objects |-> NULL]
  /\ heap' = [n \in {} |-> NULL]
  /\ building' = NULL /\ within' = Idle /\ val' = "zero"
  /\ crashed' = TRUE

----------------------------------------------------------------------------
(* A class is made of a CLASS element: its qualifiers, then its properties,*)
(* each followed by its qualifiers, then its methods, each followed by its *)
(* qualifiers and its parameters.                                          *)

New(o) == lists[o] = NULL /\ lists' = [lists EXCEPT ![o] = NoLists] /\ UNCHANGED heap

native_new_CMPIConstClass(c) ==
  /\ building = NULL
  /\ New(c)
  /\ building' = c /\ within' = <<"qualifiers", NULL>>
  /\ UNCHANGED <<val, crashed>>

\* setClassQualifiers.
addClassQualifier(name, v) ==
  /\ within[1] = "qualifiers"
  /\ Put(building, <<"qualifiers", NULL>>, name, v)
  /\ UNCHANGED <<building, within, val, crashed>>

\* setClassProperties and setClassMethods begin with nothing in val.
setClassProperties ==
  /\ within[1] = "qualifiers"
  /\ within' = <<"properties", NULL>> /\ val' = "zero"
  /\ UNCHANGED <<lists, heap, building, crashed>>

setClassMethods ==
  /\ within[1] = "properties"
  /\ within' = <<"methods", NULL>> /\ val' = "zero"
  /\ UNCHANGED <<lists, heap, building, crashed>>

\* Every property and method of a class is null.  The element may hold a name
\* once more: what is then cloned is val, as the last qualifier left it.  The clone
\* is left out: the entry stays null, and what is null is not released.  Only the
\* clone of a method reads it, to make one more that is not released.
addClassMember(kind, name) ==
  LET list == lists[building][<<kind, NULL>>]
  IN /\ within[1] = kind
     /\ \/ /\ Found(list, name) = {}
           /\ Added(building, <<kind, NULL>>, name, NULL)
           /\ within' = <<kind, name>>
           /\ UNCHANGED <<building, val, crashed>>
        \/ /\ Found(list, name) # {}
           /\ within' = <<kind, name>>
           /\ UNCHANGED <<lists, heap, building, val, crashed>>
        \/ /\ Found(list, name) # {} /\ val = "released"
           /\ Crash

addClassProperty(name) == addClassMember("properties", name)
addClassMethod(name) == addClassMember("methods", name)

\* The caller's value, val, is cloned and released.
addClassPropertyQualifier(name, v) ==
  /\ within[1] = "properties" /\ within[2] # NULL
  /\ Put(building, <<"property qualifiers", within[2]>>, name, v)
  /\ val' = "released"
  /\ UNCHANGED <<building, within, crashed>>

addClassMethodQualifier(name, v) ==
  /\ within[1] = "methods" /\ within[2] # NULL
  /\ Put(building, <<"method qualifiers", within[2]>>, name, v)
  /\ val' = "released"
  /\ UNCHANGED <<building, within, crashed>>

\* A parameter has a type and no value; the qualifiers of the method come first.
addClassMethodParameter(name) ==
  /\ within[1] \in {"methods", "parameters"} /\ within[2] # NULL
  /\ Put(building, <<"parameters", within[2]>>, name, NULL)
  /\ UNCHANGED <<building, within, val, crashed>>

\* simpleArrayAdd: the class is in the array of return values.
ClassMade ==
  /\ within[1] = "methods"
  /\ building' = NULL /\ within' = Idle /\ val' = "zero"
  /\ UNCHANGED <<lists, heap, crashed>>

----------------------------------------------------------------------------
(* What a client does with a class.                                        *)

__ccft_clone(c, d) ==
  /\ lists[c] # NULL /\ lists[d] = NULL /\ building # c
  /\ Cloned(c, d)
  /\ UNCHANGED <<building, within, val, crashed>>

__ccft_release(c) ==
  /\ lists[c] # NULL /\ building # c
  /\ Released(c)
  /\ UNCHANGED <<building, within, val, crashed>>

----------------------------------------------------------------------------
(* Arguments.                                                              *)

native_new_CMPIArgs(a) == New(a) /\ UNCHANGED <<building, within, val, crashed>>

\* CMPI_RC_ERR_ALREADY_EXISTS for a name that is there.
__aft_addArg(a, name, v) ==
  /\ lists[a] # NULL
  /\ IF Found(lists[a][<<"arguments", NULL>>], name) = {}
       THEN Added(a, <<"arguments", NULL>>, name, v)
       ELSE UNCHANGED <<lists, heap>>
  /\ UNCHANGED <<building, within, val, crashed>>

\* Without a place for the status the new list is looked at through a null
\* pointer.
__aft_clone(a, b, rc) ==
  /\ lists[a] # NULL /\ lists[b] = NULL
  /\ IF rc = NULL THEN Crash
     ELSE Cloned(a, b) /\ UNCHANGED <<building, within, val, crashed>>

__aft_release(a) ==
  /\ lists[a] # NULL
  /\ Released(a)
  /\ UNCHANGED <<building, within, val, crashed>>

----------------------------------------------------------------------------
Init ==
  /\ lists = [o \in Objects |-> NULL]
  /\ heap = [n \in {} |-> NULL]
  /\ building = NULL /\ within = Idle /\ val = "zero"
  /\ crashed = FALSE

Element ==
  \/ setClassProperties \/ setClassMethods \/ ClassMade
  \/ \E name \in Names, v \in Vals :
       \/ addClassQualifier(name, v)
       \/ addClassPropertyQualifier(name, v)
       \/ addClassMethodQualifier(name, v)
  \/ \E name \in Names :
       \/ addClassProperty(name) \/ addClassMethod(name) \/ addClassMethodParameter(name)

ClassOperation(c) ==
  \/ native_new_CMPIConstClass(c)
  \/ \E d \in Classes : __ccft_clone(c, d)
  \/ __ccft_release(c)

ArgsOperation(a) ==
  \/ native_new_CMPIArgs(a)
  \/ \E name \in Names, v \in Vals \cup {NULL} : __aft_addArg(a, name, v)
  \/ \E b \in ArgLists, rc \in {"given", NULL} : __aft_clone(a, b, rc)
  \/ __aft_release(a)

Next ==
  /\ ~crashed
  /\ \/ Element
     \/ \E c \in Classes : ClassOperation(c)
     \/ \E a \in ArgLists : ArgsOperation(a)
  /\ Cardinality(DOMAIN heap') <= MaxEntries
  /\ Cardinality({o \in Objects : lists'[o] # NULL}) <= MaxObjects

Spec == Init /\ [][Next]_vars

----------------------------------------------------------------------------
(* Properties.                                                             *)

Alive == {o \in Objects : lists[o] # NULL}

\* Each node that is allocated is the node of one entry of one list of one
\* object, no list has a name twice, and lists of properties and methods are
\* not left behind by them: whatever the order of clones and releases, nothing
\* is shared, released twice or lost.
EachNodeOnce ==
  /\ \A o \in Alive :
       /\ \A place \in Places, name \in Names :
            Cardinality({k \in DOMAIN lists[o][place] : lists[o][place][k].name = name}) <= 1
       /\ \A kind \in Inner, name \in Names :
            lists[o][<<kind, name>>] # <<>> =>
              \E k \in DOMAIN lists[o][<<OwnersList(kind), NULL>>] :
                lists[o][<<OwnersList(kind), NULL>>][k].name = name
  /\ \A o, d \in Alive : o # d => NodesOf(o) \cap NodesOf(d) = {}
  /\ DOMAIN heap = UNION {NodesOf(o) : o \in Alive}

\* What a caller reads of an object.
Read(o) ==
  IF lists[o] = NULL THEN NULL
  ELSE [place \in Places |->
          [k \in DOMAIN lists[o][place] |->
             LET e == lists[o][place][k]
             IN [name |-> e.name,
                 value |-> IF e.node \in DOMAIN heap THEN heap[e.node] ELSE "released"]]]

Abstract == INSTANCE CimClasses WITH
  content <- [o \in Objects |-> Read(o)],
  ended <- crashed

\* Classes and argument lists are values: an addition reaches the one list it
\* is for, a clone is equal when it is made and apart from then on.
ClassesAreValues == Abstract!Spec

============================================================================
