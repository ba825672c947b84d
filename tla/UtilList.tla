------------------------------ MODULE UtilList ------------------------------
(***************************************************************************)
(* UtilList (genericlist.c): a doubly linked list between two elements that*)
(* are part of the list's own structure, pre_element and post_element.     *)
(*                                                                         *)
(* A list has one cursor, current.  When the element it is on is removed,  *)
(* the element's neighbours are written into deleted_element and current   *)
(* points there; when any other element is removed nobody looks at what    *)
(* deleted_element remembers, and remove_all does not look at current.     *)
(***************************************************************************)
EXTENDS Integers, FiniteSets, Sequences, SequencesExt

CONSTANTS
  Lists,   \* lists the program may have at a time
  Nodes,   \* addresses of elements
  Values,  \* what is put into lists
  NULL

Pre(l) == <<l, "pre_element">>
Post(l) == <<l, "post_element">>

Cells == Nodes \cup (Lists \X {"pre_element", "post_element"})

\* deleted_element with its two links.  It is read only when current points to
\* it, and is written whenever current is set to it: it is part of current.
Deleted(l, before, after) == <<l, "deleted_element", before, after>>
IsDeleted(c) == c \notin Cells \cup {NULL}

\* What is expected of the addresses: a list's own elements, deleted_element
\* included, are none of those that are allocated, and no list is the null pointer.
ListAssumption ==
  /\ \A l \in Lists : Pre(l) \notin Nodes /\ Post(l) \notin Nodes
  /\ \A l \in Lists : \A before, after \in Cells :
       Deleted(l, before, after) \notin Nodes \cup {NULL}
  /\ NULL \notin Cells /\ NULL \notin Seq(Values \cup {NULL})

VARIABLES
  lists,      \* the lists there are
  nodes,      \* the elements that are allocated
  next, previous, pointer,
  current,
  num_of_elements,
  result,     \* what the last call returned that returns a value
  crashed     \* a call read an element that was freed

links == <<nodes, next, previous, pointer, num_of_elements>>
vars == <<lists, links, current, result, crashed>>

Valid(c) == c \in nodes \/ c \notin Nodes

NextOf(c) == IF IsDeleted(c) THEN c[4] ELSE next[c]
PreviousOf(c) == IF IsDeleted(c) THEN c[3] ELSE previous[c]

\* What malloc() may return next.  An address that a cursor still holds is not
\* reused: the model tells the reading of a freed element by its address.
Kept == UNION {IF IsDeleted(current[l]) THEN {current[l][3], current[l][4]} ELSE {current[l]} :
                 l \in Lists}
Free == Nodes \ (nodes \cup Kept)

Returns(v) == result' = v /\ UNCHANGED crashed
ReturnsNothing == UNCHANGED <<result, crashed>>

----------------------------------------------------------------------------
\* A new list l with the values vs: initialize_list(), and add_to_end() for
\* every value.
Build(l, vs) ==
  \E new \in [DOMAIN vs -> Free] :
    LET chain == <<Pre(l)>> \o new \o <<Post(l)>>
        At(c) == CHOOSE k \in DOMAIN chain : chain[k] = c
    IN /\ IsInjective(new)
       /\ lists' = lists \cup {l}
       /\ nodes' = nodes \cup ToSet(new)
       /\ next' = [c \in Cells |->
                     IF c = Post(l) THEN c
                     ELSE IF c \in ToSet(chain) THEN chain[At(c) + 1] ELSE next[c]]
       /\ previous' = [c \in Cells |->
                         IF c = Pre(l) THEN c
                         ELSE IF c \in ToSet(chain) THEN chain[At(c) - 1] ELSE previous[c]]
       /\ pointer' = [n \in Nodes |-> IF n \in ToSet(new) THEN vs[At(n) - 1] ELSE pointer[n]]
       /\ num_of_elements' = [num_of_elements EXCEPT ![l] = Len(vs)]
       /\ current' = [current EXCEPT ![l] = Pre(l)]

\* The walk from pre_element along next.  It is as long as num_of_elements and
\* ends at post_element: ListsLinked.
Chain(l) ==
  LET cell[k \in 1..num_of_elements[l]] == IF k = 1 THEN next[Pre(l)] ELSE next[cell[k - 1]]
  IN cell

ValuesOf(l) == [k \in DOMAIN Chain(l) |-> pointer[Chain(l)[k]]]

newList(l) == l \notin lists /\ Build(l, <<>>) /\ ReturnsNothing

\* copy_list(), for the list m.
listClone(l, m) ==
  l \in lists /\ m \notin lists /\ Build(m, ValuesOf(l)) /\ ReturnsNothing

\* Mutant: the loop ends with the last element and does not free it.
Passed_NotTheLast(l) == {n \in ToSet(Chain(l)) : next[n] # Post(l)}

\* remove_all() frees, for every element it passes, the previous of the next.
Passed(l) == {previous[next[n]] : n \in ToSet(Chain(l))}

\* What is freed is forgotten.
Freed(S) ==
  /\ nodes' = nodes \ S
  /\ pointer' = [n \in Nodes |-> IF n \in S THEN NULL ELSE pointer[n]]

RemoveAll(l) ==
  /\ Freed(Passed(l))
  /\ next' = [c \in Cells |-> IF c \in Passed(l) THEN NULL
                              ELSE IF c = Pre(l) THEN Post(l) ELSE next[c]]
  /\ previous' = [c \in Cells |-> IF c \in Passed(l) THEN NULL
                                  ELSE IF c = Post(l) THEN Pre(l) ELSE previous[c]]
  /\ num_of_elements' = [num_of_elements EXCEPT ![l] = 0]

\* destroy_list()
listRelease(l) ==
  /\ l \in lists
  /\ lists' = lists \ {l}
  /\ RemoveAll(l)
  /\ current' = [current EXCEPT ![l] = NULL]
  /\ ReturnsNothing

listClear(l) ==
  /\ l \in lists
  /\ RemoveAll(l)
  /\ ReturnsNothing
  /\ UNCHANGED <<lists, current>>

----------------------------------------------------------------------------
\* A new element between two others; a null pointer is refused.
Insert(l, before, after, v) ==
  IF v = NULL THEN UNCHANGED links
  ELSE \E new \in Free :
         /\ nodes' = nodes \cup {new}
         /\ pointer' = [pointer EXCEPT ![new] = v]
         /\ next' = [next EXCEPT ![new] = after, ![before] = new]
         /\ previous' = [previous EXCEPT ![new] = before, ![after] = new]
         /\ num_of_elements' = [num_of_elements EXCEPT ![l] = @ + 1]

\* add_to_end()
listAppend(l, v) ==
  /\ l \in lists
  /\ Insert(l, previous[Post(l)], Post(l), v)
  /\ ReturnsNothing
  /\ UNCHANGED <<lists, current>>

\* add_to_beginning(), also listAdd.
listPrepend(l, v) ==
  /\ l \in lists
  /\ Insert(l, Pre(l), next[Pre(l)], v)
  /\ ReturnsNothing
  /\ UNCHANGED <<lists, current>>

----------------------------------------------------------------------------
\* An element is unlinked and freed, and its value returned.
Unlink(l, n) ==
  /\ Freed({n})
  /\ next' = [next EXCEPT ![previous[n]] = next[n], ![n] = NULL]
  /\ previous' = [previous EXCEPT ![next[n]] = previous[n], ![n] = NULL]
  /\ num_of_elements' = [num_of_elements EXCEPT ![l] = @ - 1]
  /\ Returns(pointer[n])
  /\ UNCHANGED lists

\* Likewise, when current is on it: deleted_element takes its place.
UnlinkCurrent(l, n) ==
  /\ Freed({n})
  /\ next' = [next EXCEPT ![previous[n]] = next[n], ![n] = NULL]
  /\ previous' = [previous EXCEPT ![next[n]] = previous[n], ![n] = NULL]
  /\ num_of_elements' = [num_of_elements EXCEPT ![l] = @ - 1]
  /\ current' = [current EXCEPT ![l] = Deleted(l, previous[n], next[n])]
  /\ Returns(pointer[n])
  /\ UNCHANGED lists

\* A call that finds nothing to remove.
NothingThere == Returns(NULL) /\ UNCHANGED <<lists, links, current>>

\* A call that reads a freed element.
ReadsFreed == crashed' = TRUE /\ UNCHANGED <<lists, links, current, result>>

\* Mutant: the cursor stays on an element that is removed from the beginning.
listRemoveFirst_KeepsCurrent(l) ==
  /\ l \in lists
  /\ IF num_of_elements[l] = 0 THEN NothingThere
     ELSE Unlink(l, next[Pre(l)]) /\ UNCHANGED current

\* remove_from_beginning()
listRemoveFirst(l) ==
  /\ l \in lists
  /\ IF num_of_elements[l] = 0 THEN NothingThere
     ELSE /\ Unlink(l, next[Pre(l)])
          /\ current' = [current EXCEPT ![l] = IF @ = next[Pre(l)] THEN Pre(l) ELSE @]

\* remove_from_end()
listRemoveLast(l) ==
  /\ l \in lists
  /\ IF num_of_elements[l] = 0 THEN NothingThere
     ELSE /\ Unlink(l, previous[Post(l)])
          /\ current' = [current EXCEPT ![l] = IF @ = previous[Post(l)] THEN Post(l) ELSE @]

\* remove_current()
listRemoveCurrent(l) ==
  /\ l \in lists
  /\ IF ~Valid(current[l]) THEN ReadsFreed
     ELSE IF current[l] \notin Nodes THEN NothingThere
     ELSE UnlinkCurrent(l, current[l])

\* remove_from_list(): the search goes from the end to the beginning.
listRemoveThis(l, v) ==
  LET k == SelectLastInSeq(ValuesOf(l), LAMBDA w : w = v)
      n == Chain(l)[k]
  IN /\ l \in lists
     /\ IF k = 0 THEN NothingThere
        ELSE IF n = current[l] THEN UnlinkCurrent(l, n) ELSE Unlink(l, n) /\ UNCHANGED current

----------------------------------------------------------------------------
\* The cursor moves to a cell, and the value there is returned.
GoTo(l, c) ==
  /\ IF Valid(c) THEN /\ current' = [current EXCEPT ![l] = c]
                      /\ Returns(IF c \in Nodes THEN pointer[c] ELSE NULL)
                      /\ UNCHANGED <<lists, links>>
     ELSE ReadsFreed

\* first_in_list() and last_in_list(): for a list without elements the second
\* step stays where it is and the third leads back.
listGetFirst(l) == l \in lists /\ GoTo(l, previous[next[next[Pre(l)]]])
listGetLast(l) == l \in lists /\ GoTo(l, next[previous[previous[Post(l)]]])

\* next_in_list(), previous_in_list(), current_in_list()
listGetNext(l) ==
  l \in lists /\ IF Valid(current[l]) THEN GoTo(l, NextOf(current[l])) ELSE ReadsFreed
listGetPrevious(l) ==
  l \in lists /\ IF Valid(current[l]) THEN GoTo(l, PreviousOf(current[l])) ELSE ReadsFreed
listGetCurrent(l) == l \in lists /\ GoTo(l, current[l])

----------------------------------------------------------------------------
Init ==
  /\ lists = {}
  /\ nodes = {}
  /\ next = [c \in Cells |-> NULL]
  /\ previous = [c \in Cells |-> NULL]
  /\ pointer = [n \in Nodes |-> NULL]
  /\ current = [l \in Lists |-> NULL]
  /\ num_of_elements = [l \in Lists |-> 0]
  /\ result = NULL
  /\ crashed = FALSE

RemoveOne(l) ==
  \/ listRemoveFirst(l) \/ listRemoveLast(l) \/ listRemoveCurrent(l)
  \/ \E v \in Values : listRemoveThis(l, v)

Read(l) ==
  \/ listGetFirst(l) \/ listGetLast(l) \/ listGetNext(l) \/ listGetPrevious(l)
  \/ listGetCurrent(l)

Change(l) ==
  \/ newList(l) \/ listRelease(l) \/ listClear(l)
  \/ \E m \in Lists : listClone(l, m)
  \/ \E v \in Values \cup {NULL} : listAppend(l, v) \/ listPrepend(l, v)

Next == ~crashed /\ \E l \in Lists : Change(l) \/ RemoveOne(l) \/ Read(l)

Spec == Init /\ [][Next]_vars

----------------------------------------------------------------------------
(* Properties.                                                             *)

\* In every list the elements hang together in both directions, the list knows
\* how many they are, no element is in two lists and none is in none: nothing
\* that is removed leaves a link behind, whatever the cursor was on.
ListsLinked ==
  /\ \A l \in lists :
       /\ ToSet(Chain(l)) \subseteq nodes
       /\ next[IF Chain(l) = <<>> THEN Pre(l) ELSE Last(Chain(l))] = Post(l)
       /\ \A c \in ToSet(Chain(l)) \cup {Pre(l)} : previous[next[c]] = c
  /\ Cardinality(nodes) = Cardinality(UNION {ToSet(Chain(l)) : l \in lists})
  /\ \A l, m \in lists : l # m => ToSet(Chain(l)) \cap ToSet(Chain(m)) = {}

\* The place of a cell in a list, for the refinement mapping.
Place(l, c) ==
  CASE c = Pre(l)             -> 0
    [] c = Post(l)            -> Len(Chain(l)) + 1
    [] c \in ToSet(Chain(l))  -> CHOOSE k \in DOMAIN Chain(l) : Chain(l)[k] = c
    [] OTHER                  -> -1

Cursor(l) ==
  IF l \notin lists THEN [gap |-> FALSE, left |-> 0, right |-> 0]
  ELSE IF IsDeleted(current[l])
    THEN [gap |-> TRUE, left |-> Place(l, current[l][3]), right |-> Place(l, current[l][4])]
  ELSE [gap |-> FALSE, left |-> Place(l, current[l]), right |-> Place(l, current[l])]

\* A list is a sequence with a cursor, see ListCursor: every call returns what
\* the sequence says, and reads a freed element only when the cursor's own
\* place, or the neighbour it moves to from a gap, was removed behind its back.
Abstract == INSTANCE ListCursor WITH
  seq <- [l \in Lists |-> IF l \in lists THEN ValuesOf(l) ELSE NULL],
  cursor <- [l \in Lists |-> Cursor(l)],
  answer <- result,
  ended <- crashed

ListRefinesCursor == Abstract!Spec

=============================================================================
