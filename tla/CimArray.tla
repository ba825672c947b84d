------------------------------ MODULE CimArray ------------------------------
(***************************************************************************)
(* CMPIArray and CMPIEnumeration (array.c, enumeration.c).                 *)
(*                                                                         *)
(* An array is a block of max elements of which size are in use.  One that *)
(* is made with size 0 grows: by an element whenever the one behind the    *)
(* last is set.  An enumeration is an index into an array that it owns.    *)
(*                                                                         *)
(* The elements own their values, on the heap.  setElementAt does not      *)
(* release what it overwrites: that is lost, and stays there.  Values of   *)
(* types that are not pointers are left out.  CMPI_chars is made           *)
(* CMPI_string at once: "string" stands for both.  A null pointer is a     *)
(* value of it.                                                            *)
(***************************************************************************)
EXTENDS Naturals, FiniteSets, Sequences

CONSTANTS
  Arrays,      \* arrays the program may have at a time
  Enums,       \* enumerations it may have at a time
  Types,       \* types of elements, among them "string" and "class"
  Contents,    \* values
  Lengths,     \* sizes an array may be made with
  InitialMax,  \* 8 in the code: the block of an array that was made empty
  MaxSize,     \* bound: elements of an array
  MaxTotal,    \* bound: elements of all arrays, and enumerations
  MaxLost,     \* bound: values that are overwritten
  MaxNext,     \* bound: calls of getNext for an enumeration
  NULL

VARIABLES
  arr,      \* each array; NULL before it is made and after its release
  enum,     \* each enumeration, likewise
  heap,     \* the values that are allocated, by their address
  lost,     \* history: how many of them were overwritten
  holders,  \* arrays to which the program has a pointer
  result,   \* the status or the element that the last call returned
  crashed   \* a call used something that was released, or made of garbage

vars == <<arr, enum, heap, lost, holders, result, crashed>>

NoAddress == <<>>

\* An element: its state bits, or that nobody wrote them; and its value.
Item(state, value) == [state |-> state, value |-> value]
NullItem == Item("null", NoAddress)
ZeroItem == Item("good", NoAddress)
RawItem  == Item("raw", NoAddress)

Items ==
  [state : {"null", "good", "raw"}, value : {NoAddress} \cup (Arrays \X Nat \X {1, 2})]

Blocks == [type : Types, size : Nat, max : Nat, dynamic : BOOLEAN, data : Seq(Items)]

\* What is expected of the constants.
ArrayAssumption ==
  /\ Lengths \subseteq Nat /\ InitialMax \in Nat \ {0} /\ MaxSize \in Nat
  /\ NULL \notin Blocks

\* The elements in use.
Used(d) == {d.data[i].value : i \in 1..d.size} \ {NoAddress}

\* What malloc() returns for an element: an address tells the array and the
\* index it was allocated for, and a number that tells it from that of the value
\* that is there.  One that nobody has any more is only numbered.
Fresh(a, i) == <<a, i, CHOOSE n \in {1, 2} : <<a, i, n>> \notin DOMAIN heap>>
LostAddresses == {<<n>> : n \in 1..lost}

WithValues(new) == [x \in DOMAIN heap \cup DOMAIN new |-> IF x \in DOMAIN new THEN new[x] ELSE heap[x]]
Without(addresses) == [x \in DOMAIN heap \ addresses |-> heap[x]]

Crash == crashed' = TRUE /\ UNCHANGED <<arr, enum, heap, lost, holders, result>>
Returns(v) == result' = v /\ UNCHANGED crashed
ReturnsNothing == Returns(NULL)

----------------------------------------------------------------------------
\* __new_empty_array(), with nothing in it.
NewArray(type, size) ==
  LET max == IF size = 0 THEN InitialMax ELSE size
  IN [type |-> type, size |-> size, max |-> max,
      dynamic |-> size = 0, data |-> [i \in 1..max |-> NullItem]]

\* Mutant: the element that comes into use is not cleared.
Grown_NotCleared(d) ==
  IF d.size + 1 <= d.max THEN [d EXCEPT !.size = @ + 1]
  ELSE [d EXCEPT !.size = @ + 1, !.max = 2 * d.max,
                 !.data = [i \in 1..(2 * d.max) |-> IF i <= d.max THEN @[i] ELSE RawItem]]

\* native_array_increase_size(), by one: of what realloc() adds to the block
\* only the element that comes into use is cleared.
Grown(d) ==
  IF d.size + 1 <= d.max THEN [d EXCEPT !.size = @ + 1]
  ELSE LET max == IF d.size = 0 THEN InitialMax ELSE 2 * d.max
       IN [d EXCEPT !.size = @ + 1, !.max = max,
                    !.data = [i \in 1..max |-> IF i <= d.max THEN @[i]
                                               ELSE IF i = d.size + 1 THEN ZeroItem ELSE RawItem]]

\* An address is free when nobody has a pointer to it.
Unused(a) == arr[a] = NULL /\ a \notin holders /\ \A e \in Enums : enum[e] # NULL => enum[e].data # a

native_new_CMPIArray(a, type, size) ==
  /\ Unused(a)
  /\ arr' = [arr EXCEPT ![a] = NewArray(type, size)]
  /\ holders' = holders \cup {a}
  /\ ReturnsNothing
  /\ UNCHANGED <<enum, heap, lost>>

HasRaw(d) == \E i \in 1..d.size : d.data[i].state = "raw"

\* The program, or an enumeration, releases an array; an element that nobody
\* wrote may be taken for a value.
FreeArray(a) ==
  /\ arr' = [arr EXCEPT ![a] = NULL]
  /\ heap' = Without(Used(arr[a]))
  /\ ReturnsNothing
  /\ UNCHANGED lost

aft_release(a) ==
  /\ a \in holders
  /\ \/ arr[a] # NULL /\ FreeArray(a) /\ holders' = holders \ {a} /\ UNCHANGED enum
     \/ (IF arr[a] = NULL THEN TRUE ELSE HasRaw(arr[a])) /\ Crash

\* Mutant: a clone shares the values.
Copied_Shallow(d, b) == [i \in 1..d.size |-> d.data[i]]

\* The elements of a clone b of d, those that nobody wrote as they are.
\* native_clone_CMPIValue() has no case for a class: it makes a null pointer.
Copied(d, b) ==
  [i \in 1..d.size |->
     IF d.data[i].value = NoAddress THEN d.data[i]
     ELSE Item(d.data[i].state, IF d.type = "class" THEN NoAddress ELSE Fresh(b, i))]

\* What becomes of an element that nobody wrote.
CopiedRaw(type) == IF type = "class" THEN {ZeroItem, NullItem} ELSE {RawItem, NullItem}

\* The clone is made with the size of the array: it does not grow.
CloneInto(a, b) ==
  LET d == arr[a]
      copied == Copied(d, b)
      owning == {i \in 1..d.size : copied[i].value # NoAddress}
      new == NewArray(d.type, d.size)
  IN /\ Unused(b)
     /\ \E raw \in [{i \in 1..d.size : d.data[i].state = "raw"} -> CopiedRaw(d.type)] :
          arr' = [arr EXCEPT ![b] = [new EXCEPT !.data =
                    [i \in 1..new.max |-> IF i \in DOMAIN raw THEN raw[i]
                                          ELSE IF i <= d.size THEN copied[i] ELSE @[i]]]]
     /\ heap' = WithValues([x \in {copied[i].value : i \in owning} |->
                              heap[d.data[CHOOSE i \in owning : copied[i].value = x].value]])
     /\ ReturnsNothing
     /\ UNCHANGED lost

aft_clone(a, b) ==
  /\ a \in holders
  /\ IF arr[a] = NULL THEN Crash
     ELSE \/ CloneInto(a, b) /\ holders' = holders \cup {b} /\ UNCHANGED enum
          \/ HasRaw(arr[a]) /\ Crash

\* What getElementAt returns: CMPI_badValue at the end and beyond.
Content(x) == IF x \in DOMAIN heap THEN heap[x] ELSE "released"
Meaning(item) ==
  CASE item.state = "null"                           -> NULL
    [] item.state = "raw"                            -> "undefined"
    [] item.state = "good" /\ item.value = NoAddress -> "empty"
    [] OTHER                                         -> Content(item.value)

ElementAt(d, i) == IF i < d.size THEN Meaning(d.data[i + 1]) ELSE "bad"

----------------------------------------------------------------------------
\* The element i of a becomes NULL, and its value is released: for one that
\* nobody wrote, whatever is there.
MakeNull(a, d, i) ==
  LET item == d.data[i + 1] IN
  \/ /\ arr' = [arr EXCEPT ![a] = [d EXCEPT !.data[i + 1] = NullItem]]
     /\ heap' = Without({item.value})
     /\ Returns("ok")
     /\ UNCHANGED <<enum, lost, holders>>
  \/ item.state = "raw" /\ Crash

\* A value is stored, cloned or as it is; NULL stands for a null pointer.  What
\* it overwrites is not released, and nobody has its address.
Store(a, d, i, content) ==
  LET old == d.data[i + 1].value
      new == IF content = NULL THEN NoAddress ELSE Fresh(a, i + 1)
      gone == IF old = NoAddress THEN NoAddress ELSE <<lost + 1>>
  IN /\ arr' = [arr EXCEPT ![a] = [d EXCEPT !.data[i + 1] = Item("good", new)]]
     /\ heap' = [x \in (DOMAIN heap \ {old}) \cup ({new, gone} \ {NoAddress}) |->
                   CASE x = new -> content [] x = gone -> heap[old] [] OTHER -> heap[x]]
     /\ lost' = IF old = NoAddress THEN lost ELSE lost + 1

\* The array grows before the type is looked at.  The clone of a class that is
\* stored is a null pointer, see Copied.
setElementAt(a, i, content, type) ==
  LET d == arr[a]
      b == IF d.dynamic /\ i = d.size THEN Grown(d) ELSE d
      null == type = "null" \/ (content = NULL /\ type = d.type)
  IN IF i < b.size /\ null THEN MakeNull(a, b, i)
     ELSE IF i < b.size /\ type = d.type
       THEN /\ Store(a, b, i, IF type = "class" THEN NULL ELSE content)
            /\ Returns("ok")
            /\ UNCHANGED <<enum, holders>>
     ELSE /\ arr' = [arr EXCEPT ![a] = b]
          /\ Returns("failed")
          /\ UNCHANGED <<heap, lost, enum, holders>>

aft_setElementAt(a, i, content, type) ==
  /\ a \in holders
  /\ IF arr[a] = NULL THEN Crash
     ELSE setElementAt(a, i, content, type)

\* The scanner puts the elements of a response into an array and gives them away.
\* One of another type than the first is taken for what it is not when it is read
\* or released; the grammar adds none.  Says CMPI_RC_ERR_FAILED whatever happens.
simpleArrayAdd(a, content, type) ==
  LET d == arr[a]
      b == Grown([d EXCEPT !.type = IF d.size = 0 THEN type ELSE @])
  IN /\ a \in holders /\ d # NULL
     /\ \/ d.dynamic /\ type = b.type /\ Store(a, b, d.size, content)
        \/ /\ d.dynamic /\ type # b.type
           /\ arr' = [arr EXCEPT ![a] = [b EXCEPT !.data[b.size] = RawItem]]
           /\ UNCHANGED <<heap, lost>>
        \/ ~d.dynamic /\ UNCHANGED <<arr, heap, lost>>
     /\ Returns("failed")
     /\ UNCHANGED <<enum, holders>>

----------------------------------------------------------------------------
\* The enumeration takes the array over.
native_new_CMPIEnumeration(e, a) ==
  /\ a \in holders /\ arr[a] # NULL /\ enum[e] = NULL
  /\ enum' = [enum EXCEPT ![e] = [data |-> a, current |-> 0]]
  /\ holders' = holders \ {a}
  /\ ReturnsNothing
  /\ UNCHANGED <<arr, heap, lost>>

eft_release(e) ==
  /\ enum[e] # NULL
  /\ LET a == enum[e].data IN
     \/ /\ arr[a] # NULL
        /\ FreeArray(a)
        /\ enum' = [enum EXCEPT ![e] = NULL]
        /\ UNCHANGED holders
     \/ (IF arr[a] = NULL THEN TRUE ELSE HasRaw(arr[a])) /\ Crash

eft_clone(e, f, b) ==
  /\ enum[e] # NULL /\ enum[f] = NULL
  /\ LET a == enum[e].data IN
     IF arr[a] = NULL THEN Crash
     ELSE \/ /\ CloneInto(a, b)
             /\ enum' = [enum EXCEPT ![f] = [data |-> b, current |-> 0]]
             /\ UNCHANGED holders
          \/ HasRaw(arr[a]) /\ Crash

eft_getNext(e) ==
  /\ enum[e] # NULL
  /\ LET a == enum[e].data IN
     IF arr[a] = NULL THEN Crash
     ELSE /\ enum' = [enum EXCEPT ![e].current = @ + 1]
          /\ Returns(ElementAt(arr[a], enum[e].current))
          /\ UNCHANGED <<arr, heap, lost, holders>>

\* The enumeration keeps what it gives.
eft_toArray(e) ==
  /\ enum[e] # NULL
  /\ holders' = holders \cup {enum[e].data}
  /\ ReturnsNothing
  /\ UNCHANGED <<arr, enum, heap, lost>>

----------------------------------------------------------------------------
Init ==
  /\ arr = [a \in Arrays |-> NULL]
  /\ enum = [e \in Enums |-> NULL]
  /\ heap = [x \in {} |-> NULL]
  /\ lost = 0
  /\ holders = {}
  /\ result = NULL
  /\ crashed = FALSE

Inputs == (Types \X Contents) \cup {<<"string", NULL>>, <<"null", NULL>>}

ArrayOperation(a) ==
  \/ \E type \in Types, size \in Lengths : native_new_CMPIArray(a, type, size)
  \/ \E b \in Arrays : aft_clone(a, b)
  \/ \E i \in 0..MaxSize, input \in Inputs : aft_setElementAt(a, i, input[2], input[1])
  \/ \E type \in Types, content \in Contents : simpleArrayAdd(a, content, type)
  \/ aft_release(a)

EnumOperation(e) ==
  \/ \E a \in Arrays : native_new_CMPIEnumeration(e, a)
  \/ \E f \in Enums, b \in Arrays : eft_clone(e, f, b)
  \/ eft_getNext(e) \/ eft_toArray(e) \/ eft_release(e)

Alive == {a \in Arrays : arr[a] # NULL}
Elements == UNION {{<<a, i>> : i \in 1..arr[a].size} : a \in Alive}

Bounded ==
  /\ \A a \in Alive : arr[a].size <= MaxSize
  /\ Cardinality(Elements) + Cardinality({e \in Enums : enum[e] # NULL}) <= MaxTotal
  /\ lost <= MaxLost
  /\ \A e \in Enums : enum[e] # NULL => enum[e].current <= MaxNext

Next ==
  /\ ~crashed
  /\ (\E a \in Arrays : ArrayOperation(a)) \/ (\E e \in Enums : EnumOperation(e))
  /\ Bounded'

Spec == Init /\ [][Next]_vars

----------------------------------------------------------------------------
(* Properties.                                                             *)

Owners == {x \in Elements : arr[x[1]].data[x[2]].value # NoAddress}
Owned(x) == arr[x[1]].data[x[2]].value

\* Every element that has a value has one that is allocated and that no other
\* element has: whatever is set, cloned, enumerated or released.  What no element
\* has, and is allocated for good, are the values that setElementAt overwrote, and
\* all of those.  What is behind the last element owns nothing.
OneArrayOwns ==
  /\ \A x, y \in Owners : Owned(x) = Owned(y) => x = y
  /\ DOMAIN heap = {Owned(x) : x \in Owners} \cup LostAddresses
  /\ \A a \in Alive : \A i \in (arr[a].size + 1)..arr[a].max : arr[a].data[i].value = NoAddress

\* Arrays are sequences and enumerations places in them, see CimSequences: a call
\* goes wrong only on an array that its other holder has released, or on an
\* element that a failed call added to an array longer than its first block.
Abstract == INSTANCE CimSequences WITH
  seq <- [a \in Arrays |->
            IF arr[a] = NULL THEN NULL
            ELSE [type |-> arr[a].type, grows |-> arr[a].dynamic,
                  elems |-> [i \in 1..arr[a].size |-> Meaning(arr[a].data[i])]]],
  view <- [e \in Enums |->
             IF enum[e] = NULL THEN NULL ELSE [of |-> enum[e].data, at |-> enum[e].current]],
  answer <- result,
  ended <- crashed

ArraysAreSequences == Abstract!Spec

=============================================================================
