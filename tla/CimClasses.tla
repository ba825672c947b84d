---------------------------- MODULE CimClasses ----------------------------
(***************************************************************************)
(* What class declarations and argument lists promise: each is a value of  *)
(* its own, a family of named lists, and what is done to one is not seen   *)
(* in another.  A named list holds a name once.                            *)
(***************************************************************************)
EXTENDS Naturals, Sequences

CONSTANTS Objects, Places, Names, Vals, NULL

VARIABLES
  content,   \* each object: its lists of named values by place, NULL without
  ended      \* the process came to its end

vars == <<content, ended>>

Holds(list, name) == \E k \in DOMAIN list : list[k].name = name

Replace(list, name, v) ==
  [k \in DOMAIN list |-> IF list[k].name = name THEN [list[k] EXCEPT !.value = v] ELSE list[k]]

\* The value of a name that is there is replaced, or left alone.
Put(list, name, v) ==
  IF Holds(list, name) THEN Replace(list, name, v)
  ELSE Append(list, [name |-> name, value |-> v])

\* An object is made, empty or as a copy; it is dropped; or one of its lists has
\* something put into it.
Becomes(old, new) ==
  \/ /\ old = NULL
     /\ new \in {[place \in Places |-> <<>>]} \cup {content[o] : o \in Objects}
  \/ old # NULL /\ new = NULL
  \/ /\ old # NULL /\ new # NULL
     /\ \E place \in Places, name \in Names, v \in Vals \cup {NULL} :
          new = [old EXCEPT ![place] = Put(@, name, v)]

\* The others stay as they are.
Change(o) ==
  /\ content' = [content EXCEPT ![o] = content'[o]]
  /\ Becomes(content[o], content'[o])
  /\ UNCHANGED ended

End == content' = [o \in Objects |-> NULL] /\ ended' = TRUE

Init == content = [o \in Objects |-> NULL] /\ ended = FALSE

Next == (\E o \in Objects : Change(o)) \/ End

Spec == Init /\ [][Next]_vars

============================================================================
