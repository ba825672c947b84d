---------------------------- MODULE CimSequences ----------------------------
(***************************************************************************)
(* What a program may rely on of arrays and enumerations (abstract): an    *)
(* array is a sequence, an enumeration a place in one.                     *)
(*                                                                         *)
(* Four things are odd.  A call that fails may add an element, and what    *)
(* that is need not be defined; a copy does not grow, unless it is empty;  *)
(* a class is not copied, what is there instead is empty; and the array of *)
(* an enumeration may have two holders, of which only one may release it.  *)
(***************************************************************************)
EXTENDS Naturals, Sequences

CONSTANTS Arrays, Enums, Types, Contents, Lengths, InitialMax, NULL

VARIABLES
  seq,      \* of each array: its type, whether it grows, its elements
  view,     \* of each enumeration: its array and the next index
  holders,  \* arrays the program has a pointer to
  answer,   \* what the last call returned
  ended     \* a call had no defined meaning

vars == <<seq, view, holders, answer, ended>>

Empty == "empty"            \* an element without a value that is not null
Undefined == "undefined"

\* What is found in an element that was added and not set: the block it is in
\* was doubled for it, or for one before it, or not at all.
Unset(length) ==
  IF length <= InitialMax THEN NULL
  ELSE IF length - 1 \in {InitialMax * 2^k : k \in 0..length} THEN Empty
  ELSE Undefined

Ends == ended' = TRUE /\ UNCHANGED <<seq, view, holders, answer>>
Answers(v) == answer' = v /\ UNCHANGED ended
AnswersNothing == Answers(NULL)

Usable(a) == a \in holders /\ seq[a] # NULL
Lost(a) == a \in holders /\ seq[a] = NULL
Unused(a) == seq[a] = NULL /\ a \notin holders /\ \A e \in Enums : view[e] # NULL => view[e].of # a

Make(a, new) == seq' = [seq EXCEPT ![a] = new]

New(a, type, n) ==
  /\ AnswersNothing
  /\ Unused(a)
  /\ holders' = holders \cup {a}
  /\ Make(a, [type |-> type, grows |-> n = 0,
              elems |-> [i \in 1..n |-> NULL]])
  /\ UNCHANGED view

Release(a) ==
  /\ Usable(a)
  /\ Make(a, NULL)
  /\ holders' = holders \ {a}
  /\ AnswersNothing /\ UNCHANGED view

\* A copy of an undefined element is undefined or null.
CopiesOf(type, v) ==
  CASE v = NULL                              -> {NULL}
    [] v = Undefined /\ type = "class"       -> {Empty, NULL}
    [] v = Undefined /\ type # "class"       -> {Undefined, NULL}
    [] v \notin {NULL, Undefined} /\ type = "class" -> {Empty}
    [] OTHER                                 -> {v}

Copies(s) ==
  {copy \in [DOMAIN s.elems -> UNION {CopiesOf(s.type, s.elems[i]) : i \in DOMAIN s.elems}] :
     \A i \in DOMAIN s.elems : copy[i] \in CopiesOf(s.type, s.elems[i])}

Copy(a, b, copy) == Make(b, [seq[a] EXCEPT !.elems = copy, !.grows = seq[a].elems = <<>>])

Clone(a, b) ==
  /\ Usable(a) /\ Unused(b)
  /\ AnswersNothing /\ UNCHANGED view
  /\ holders' = holders \cup {b}
  /\ \E copy \in Copies(seq[a]) : Copy(a, b, copy)

\* Index i, from 0, is set to a value of a type; the type "null" has none.
Set(s, new, i, given, content) ==
  LET adds == s.grows /\ i = Len(s.elems)
      null == given = "null" \/ (content = NULL /\ given = s.type)
      With(v) == [s EXCEPT !.elems = IF adds THEN Append(@, v) ELSE [@ EXCEPT ![i + 1] = v]]
  IN \/ /\ i < Len(s.elems) \/ adds
        /\ null
        /\ new = With(NULL) /\ Answers("ok")
     \/ /\ i < Len(s.elems) \/ adds
        /\ ~null /\ given = s.type
        /\ new = With(IF given = "class" THEN Empty ELSE content) /\ Answers("ok")
     \/ /\ adds /\ ~null /\ given # s.type
        /\ new = With(Unset(i + 1)) /\ Answers("failed")
     \/ /\ ~adds
        /\ i >= Len(s.elems) \/ (~null /\ given # s.type)
        /\ new = s /\ Answers("failed")

\* A value is added, which is given away.  One that is not of the array's type is
\* undefined when it is read.
Add(s, new, type, content) ==
  LET of == IF s.elems = <<>> THEN type ELSE s.type
      v == IF type = of THEN content ELSE Undefined
  IN /\ new = IF s.grows THEN [s EXCEPT !.type = of, !.elems = Append(@, v)] ELSE s
     /\ Answers("failed")

\* What is read at an index.
At(elems, i) == IF i < Len(elems) THEN elems[i + 1] ELSE "bad"

\* The array passes from the program to the enumeration.
Enumerate(e, a) ==
  /\ Usable(a) /\ view[e] = NULL
  /\ view' = [view EXCEPT ![e] = [of |-> a, at |-> 0]]
  /\ holders' = holders \ {a}
  /\ AnswersNothing /\ UNCHANGED seq

Current(e) == view[e] # NULL /\ seq[view[e].of] # NULL

GetNext(e) ==
  /\ Current(e)
  /\ view' = [view EXCEPT ![e].at = @ + 1]
  /\ Answers(At(seq[view[e].of].elems, view[e].at))
  /\ UNCHANGED <<seq, holders>>

\* The program gets the array as well.
ToArray(e) ==
  /\ view[e] # NULL
  /\ holders' = holders \cup {view[e].of}
  /\ AnswersNothing
  /\ UNCHANGED <<seq, view>>

\* A copy starts at the beginning, in an array of its own.
CloneView(e, f, b) ==
  /\ Current(e) /\ view[f] = NULL /\ Unused(b)
  /\ AnswersNothing /\ UNCHANGED holders
  /\ view' = [view EXCEPT ![f] = [of |-> b, at |-> 0]]
  /\ \E copy \in Copies(seq[view[e].of]) : Copy(view[e].of, b, copy)

ReleaseView(e) ==
  /\ Current(e)
  /\ Make(view[e].of, NULL)
  /\ view' = [view EXCEPT ![e] = NULL]
  /\ AnswersNothing /\ UNCHANGED holders

\* A call on an array that its other holder has released, or one that touches
\* an undefined element, by making the one it adds null also.
Meaningless ==
  \/ \E a \in Arrays : Lost(a)
  \/ \E e \in Enums : view[e] # NULL /\ ~Current(e)
  \/ \E a \in Arrays : seq[a] # NULL /\ \E i \in DOMAIN seq[a].elems : seq[a].elems[i] = Undefined
  \/ \E a \in Arrays : seq[a] # NULL /\ seq[a].grows /\ Unset(Len(seq[a].elems) + 1) = Undefined

Init ==
  /\ seq = [a \in Arrays |-> NULL]
  /\ view = [e \in Enums |-> NULL]
  /\ holders = {}
  /\ answer = NULL
  /\ ended = FALSE

Inputs == (Types \X Contents) \cup {<<"string", NULL>>, <<"null", NULL>>}

Changes(old, new) ==
  \/ \E i \in 0..(Len(old.elems) + 1), input \in Inputs : Set(old, new, i, input[1], input[2])
  \/ \E type \in Types, content \in Contents : Add(old, new, type, content)

ArrayStep(a) ==
  \/ \E type \in Types, n \in Lengths : New(a, type, n)
  \/ \E b \in Arrays : Clone(a, b)
  \/ /\ UNCHANGED <<view, holders>>
     /\ Usable(a)
     /\ \A b \in Arrays \ {a} : seq'[b] = seq[b]
     /\ Changes(seq[a], seq'[a])
  \/ Release(a)

EnumStep(e) ==
  \/ \E a \in Arrays : Enumerate(e, a)
  \/ GetNext(e) \/ ToArray(e) \/ ReleaseView(e)
  \/ \E f \in Enums, b \in Arrays : CloneView(e, f, b)

Next ==
  /\ ~ended
  /\ \/ \E a \in Arrays : ArrayStep(a)
     \/ \E e \in Enums : EnumStep(e)
     \/ Meaningless /\ Ends

Spec == Init /\ [][Next]_vars
=============================================================================
