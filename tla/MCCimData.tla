------------------------------ MODULE MCCimData ------------------------------
(***************************************************************************)
(* The data types of the client, checked together: instances and object    *)
(* paths (CimInstance), classes and argument lists (CimClass), arrays and  *)
(* enumerations (CimArray).  As in MCClient a behaviour is one of a single *)
(* part.  Classes are looked at twice: with two names, and with one name   *)
(* and more entries.  The parts share the names of their objects, two of   *)
(* each kind, which nothing tells apart.                                   *)
(***************************************************************************)
EXTENDS MCCimInstance

CONSTANTS
  MaxAlive,                                          \* bound: instances and paths
  x, y, MaxObjects, MaxClassEntries, MaxNestedEntries,               \* CimClass
  Types, Contained, Lengths, InitialMax, MaxSize, MaxTotal, MaxNext   \* CimArray

DataSymmetry == Symmetry \cup Permutations({x, y})

VARIABLES
  part,
  lists, classHeap, building, within, val, classCrashed,
  arr, enum, arrayHeap, arrayLost, holders, result, arrayCrashed

Class == INSTANCE CimClass WITH
  Classes <- Instances, ArgLists <- Paths, Vals <- {x, y}, MaxEntries <- MaxClassEntries,
  heap <- classHeap, crashed <- classCrashed

\* A method that has a qualifier and a parameter, and its copy.
Nested == INSTANCE CimClass WITH
  Classes <- Instances, ArgLists <- Paths, Names <- {n1}, Vals <- {x, y},
  MaxEntries <- MaxNestedEntries, heap <- classHeap, crashed <- classCrashed

Array == INSTANCE CimArray WITH
  Arrays <- Instances, Enums <- Paths, Contents <- Contained,
  heap <- arrayHeap, lost <- arrayLost, crashed <- arrayCrashed

\* What CimClass and CimArray expect of the constants.
ASSUME PartsAssumption ==
  Class!ClassAssumption /\ Nested!ClassAssumption /\ Array!ArrayAssumption

classVars == <<lists, classHeap, building, within, val, classCrashed>>
arrayVars == <<arr, enum, arrayHeap, arrayLost, holders, result, arrayCrashed>>

MCInit ==
  /\ Init /\ Class!Init /\ Array!Init
  /\ part \in {"instance", "class", "nested", "array"}

\* A value that is lost takes the place of an entry, or of an element.
FewInstances == Cardinality(Alive) <= MaxAlive /\ Cardinality(Entries) + lost <= MaxEntries
FewArrays == Cardinality(Array!Elements) + arrayLost <= MaxTotal

MCNext ==
  /\ UNCHANGED part
  /\ \/ part = "instance" /\ Next /\ FewInstances' /\ UNCHANGED <<classVars, arrayVars>>
     \/ part = "class" /\ Class!Next /\ UNCHANGED <<vars, arrayVars>>
     \/ part = "nested" /\ Nested!Next /\ UNCHANGED <<vars, arrayVars>>
     \/ part = "array" /\ Array!Next /\ FewArrays' /\ UNCHANGED <<vars, classVars>>

MCSpec == MCInit /\ [][MCNext]_<<part, vars, classVars, arrayVars>>

\* The properties of the parts, see their modules, looked at where the part steps;
\* InstancesAreValues is ObjectsAreValues of CimInstance.
EachNodeOnce ==
  /\ part = "class" => Class!EachNodeOnce
  /\ part = "nested" => Nested!EachNodeOnce
OneArrayOwns == part = "array" => Array!OneArrayOwns

\* The abstract variables are functions of those of the part.
InstancesAreValues ==
  /\ Abstract!Init
  /\ [][part = "instance" =>
          (Abstract!vars' = Abstract!vars \/ Abstract!Next)]_<<part, vars>>
ClassesAreValues ==
  /\ Class!Abstract!Init
  /\ [][/\ part = "class" =>
             (Class!Abstract!vars' = Class!Abstract!vars \/ Class!Abstract!Next)
        /\ part = "nested" =>
             (Nested!Abstract!vars' = Nested!Abstract!vars \/ Nested!Abstract!Next)]_<<part, classVars>>
ArraysAreSequences ==
  /\ Array!Abstract!Init
  /\ [][part = "array" =>
          (Array!Abstract!vars' = Array!Abstract!vars \/ Array!Abstract!Next)]_<<part, arrayVars>>

=============================================================================
