------------------------------ MODULE MCClient ------------------------------
(***************************************************************************)
(* The client and what it stands on, checked together: an operation on a   *)
(* connection (ClientOperation), the environment that the threads of a     *)
(* program share (ConnectionControl), and the string buffers, lists and    *)
(* hash tables of the utility factory.  The parts share no state, so a     *)
(* behaviour is one of a single part, chosen at the start: the states are  *)
(* the sum of those of the parts.                                          *)
(***************************************************************************)
EXTENDS ConnectionControl, UtilStringBuffer, TLC

CONSTANTS
  Ops, LaterOps, Bodies, MaxCalls, MaxHeaders,   \* ClientOperation
  Lists, Nodes, Values,                          \* UtilList
  Keys, Hash, Copies, Pointers, Iterators, BucketCounts, IdealRatio,
  UpperRehashThreshold,                          \* UtilHashTable
  k1, k2, k3

VARIABLES
  part,
  con, todo, opLocals, heap, theirs, answer, fault, calls, wire,
  lists, nodes, next, previous, pointer, current, num_of_elements, listResult, listCrashed,
  bucketArray, numOfElements, pairs, iter, allocated, tableResult, shuffled, tableCrashed

\* Nothing tells the addresses of list elements apart.
Symmetry == Permutations(Nodes)

\* Two keys are always in one bucket, or after a rehash no longer.
ThreeHashes == [k \in {k1, k2, k3} |-> CASE k = k1 -> 0 [] k = k2 -> 1 [] k = k3 -> 5]

Operation == INSTANCE ClientOperation WITH locals <- opLocals
List == INSTANCE UtilList WITH result <- listResult, crashed <- listCrashed
Table == INSTANCE UtilHashTable WITH
  Values <- Pointers, result <- tableResult, crashed <- tableCrashed

operationVars == <<con, todo, opLocals, heap, theirs, answer, fault, calls, wire>>
listVars == <<lists, nodes, next, previous, pointer, current, num_of_elements, listResult, listCrashed>>
tableVars == <<bucketArray, numOfElements, pairs, iter, allocated, tableResult, shuffled, tableCrashed>>

ASSUME OperationAssumption == Operation!OpsAssumption
ASSUME ListsAssumption == List!ListAssumption
ASSUME TablesAssumption == Table!TableAssumption /\ Table!MapAssumption

MCInit ==
  /\ Operation!Init /\ Init /\ BufferInit /\ List!Init /\ Table!Init
  /\ part \in {"operation", "control", "buffer", "list", "table"}
  \* A part that rests has one initial state.
  /\ part # "control" => own = {} /\ wanted = {}
  /\ part # "operation" => con.mHandle

MCNext ==
  /\ UNCHANGED part
  /\ \/ /\ part = "operation" /\ Operation!Next
        /\ UNCHANGED <<vars, bufferVars, listVars, tableVars>>
     \/ /\ part = "control" /\ Next
        /\ UNCHANGED <<operationVars, bufferVars, listVars, tableVars>>
     \/ /\ part = "buffer" /\ BufferNext
        /\ UNCHANGED <<operationVars, vars, listVars, tableVars>>
     \/ /\ part = "list" /\ List!Next
        /\ UNCHANGED <<operationVars, vars, bufferVars, tableVars>>
     \/ /\ part = "table" /\ Table!Next
        /\ UNCHANGED <<operationVars, vars, bufferVars, listVars>>

MCSpec == MCInit /\ [][MCNext]_<<part, operationVars, vars, bufferVars, listVars, tableVars>>

\* The properties of the instances, see their modules, looked at where the part steps.
TypeOK == part = "operation" => Operation!TypeOK
AnswersThisExchange == part = "operation" => Operation!AnswersThisExchange
NoUseAfterRelease == part = "operation" => Operation!NoUseAfterRelease
NothingLost == part = "operation" => Operation!NothingLost
ListsLinked == part = "list" => List!ListsLinked
PairsInPlace == part = "table" => Table!PairsInPlace
TableOwnsItsPairs == part = "table" => Table!TableOwnsItsPairs

\* The abstract variables are functions of those of the part.
ListRefinesCursor ==
  /\ List!Abstract!Init
  /\ [][part = "list" =>
          (List!Abstract!vars' = List!Abstract!vars \/ List!Abstract!Next)]_<<part, listVars>>
TableRefinesMap ==
  /\ Table!Abstract!Init
  /\ [][part = "table" =>
          (Table!Abstract!vars' = Table!Abstract!vars \/ Table!Abstract!Next)]_<<part, tableVars>>

=============================================================================
