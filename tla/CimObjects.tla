---------------------------- MODULE CimObjects ----------------------------
(***************************************************************************)
(* What a program may rely on of instances and object paths (abstract):    *)
(* they are values.  A copy is a copy, and nothing that is done to another *)
(* object, a copy included, is seen in this one.                           *)
(***************************************************************************)
EXTENDS Sequences, SequencesExt

CONSTANTS Instances, Paths, Names, Vals, PropertyLists, KeyLists, NULL, NoChars

VARIABLES
  instance,    \* NULL, or properties, the names setProperty accepts, and
               \* whether it has lists of names
  objectPath,  \* NULL, or keys
  ended        \* the process is gone

vars == <<instance, objectPath, ended>>

Property(name, state, content) == [name |-> name, state |-> state, content |-> content]

Positions(list, name) == {k \in DOMAIN list : list[k].name = name}

\* A null pointer, or a string of no characters in a property that is new,
\* gives a property without a value.
New(name, state, content) ==
  IF content = NULL THEN Property(name, "null", NULL) ELSE Property(name, state, content)

AddKey(keys, name, content) ==
  IF Positions(keys, name) = {} THEN Append(keys, New(name, "key", content)) ELSE keys

ThePaths == {objectPath[p] : p \in Paths} \ {NULL}
TheInstances == {instance[i] : i \in Instances} \ {NULL}

\* A path is made empty, as a copy, or from an instance: from its keys, backwards.
\* It gets a key, and it is dropped.
PathBecomes(old, new) ==
  \/ /\ old = NULL
     /\ new \in {<<>>} \cup ThePaths
               \cup {SelectSeq(Reverse(i.props), LAMBDA e : e.state = "key") : i \in TheInstances}
  \/ old # NULL /\ new = NULL
  \/ /\ old # NULL /\ new # NULL
     /\ \E name \in Names, content \in Vals \cup {NoChars, NULL} : new = AddKey(old, name, content)

\* A property keeps its place and its state: a key stays one, and what is null
\* stays null.
SetProperty(props, name, content) ==
  IF Positions(props, name) = {}
    THEN Append(props, New(name, "good", IF content = NoChars THEN NULL ELSE content))
    ELSE [k \in DOMAIN props |->
            IF props[k].name # name \/ props[k].state = "null" THEN props[k]
            ELSE New(name, props[k].state, content)]

Made(props) == [props |-> props, accepted |-> Names, lists |-> FALSE]

\* An instance is made empty, from the keys of a path, backwards, or as a copy,
\* which accepts every name again.  It gets a filter, a property that it accepts,
\* and it is dropped.
InstanceBecomes(old, new) ==
  \/ /\ old = NULL
     /\ new \in {Made(<<>>)} \cup {Made(Reverse(keys)) : keys \in ThePaths}
               \cup {[i EXCEPT !.accepted = Names] : i \in TheInstances}
  \/ old # NULL /\ new = NULL
  \/ /\ old # NULL /\ new # NULL
     /\ \E properties \in PropertyLists, keys \in KeyLists :
          new = [old EXCEPT !.accepted = IF properties = NULL THEN Names ELSE properties \cup keys,
                            !.lists = TRUE]
  \/ /\ old # NULL /\ new # NULL
     /\ \E name \in old.accepted, content \in Vals \cup {NoChars, NULL} :
          new = [old EXCEPT !.props = SetProperty(@, name, content)]

\* A property that has a value and may be set.
Settable(i) ==
  \E k \in DOMAIN instance[i].props :
    instance[i].props[k].state # "null" /\ instance[i].props[k].name \in instance[i].accepted

\* The process may end once there are lists to be read past, or a property to be
\* set to the value it has.
End ==
  /\ \E i \in Instances : instance[i] # NULL /\ (instance[i].lists \/ Settable(i))
  /\ ended' = TRUE
  /\ instance' = [i \in Instances |-> NULL]
  /\ objectPath' = [p \in Paths |-> NULL]

Init ==
  /\ instance = [i \in Instances |-> NULL]
  /\ objectPath = [p \in Paths |-> NULL]
  /\ ended = FALSE

\* The other objects stay as they are.
PathStep ==
  /\ UNCHANGED <<instance, ended>>
  /\ \E p \in Paths :
       /\ objectPath' = [objectPath EXCEPT ![p] = objectPath'[p]]
       /\ PathBecomes(objectPath[p], objectPath'[p])

InstanceStep ==
  /\ UNCHANGED <<objectPath, ended>>
  /\ \E i \in Instances :
       /\ instance' = [instance EXCEPT ![i] = instance'[i]]
       /\ InstanceBecomes(instance[i], instance'[i])

Next == ~ended /\ (PathStep \/ InstanceStep \/ End)

Spec == Init /\ [][Next]_vars
============================================================================
