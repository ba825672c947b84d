----------------------------- MODULE ListCursor -----------------------------
(***************************************************************************)
(* What a UtilList promises (utilft.h): a sequence of values and a cursor. *)
(*                                                                         *)
(* The cursor is on a value, before the first or behind the last.  When the*)
(* value it is on is removed it stays in the gap, between the two that were*)
(* its neighbours: it knows them, and not what comes in between later.  A  *)
(* neighbour that is removed as well, and a value that goes with all others,*)
(* is Lost; who moves to it, or reads it, may get anything.                *)
(***************************************************************************)
EXTENDS Integers, Sequences

S == INSTANCE SequencesExt

CONSTANTS Lists, Values, NULL

VARIABLES
  seq,      \* the values of each list, NULL while there is no such list
  cursor,   \* the cursor of each list
  answer,   \* what the last call returned that returns a value
  ended     \* a call had no defined meaning

vars == <<seq, cursor, answer, ended>>

Lost == -1

On(k) == [gap |-> FALSE, left |-> k, right |-> k]
Between(j, k) == [gap |-> TRUE, left |-> j, right |-> k]

\* What becomes of both neighbours.
Move(c, P(_)) == [c EXCEPT !.left = P(c.left), !.right = P(c.right)]

At(l, k) == IF k \in DOMAIN seq[l] THEN seq[l][k] ELSE NULL

Returns(v) == answer' = v /\ UNCHANGED ended
ReturnsNothing == UNCHANGED <<answer, ended>>

Becomes(l, s, c) == seq' = [seq EXCEPT ![l] = s] /\ cursor' = [cursor EXCEPT ![l] = c]

Undefined == ended' = TRUE /\ UNCHANGED <<seq, cursor, answer>>

Init ==
  /\ seq = [l \in Lists |-> NULL]
  /\ cursor = [l \in Lists |-> On(0)]
  /\ answer = NULL
  /\ ended = FALSE

Create(l) == seq[l] = NULL /\ Becomes(l, <<>>, On(0)) /\ ReturnsNothing

Release(l) == seq[l] # NULL /\ Becomes(l, NULL, On(0)) /\ ReturnsNothing

Copy(l, m) ==
  seq[l] # NULL /\ seq[m] = NULL /\ Becomes(m, seq[l], On(0)) /\ ReturnsNothing

Clear(l) ==
  LET Cleared(k) == IF k \in DOMAIN seq[l] THEN Lost ELSE IF k > 0 THEN 1 ELSE k
  IN seq[l] # NULL /\ Becomes(l, <<>>, Move(cursor[l], Cleared)) /\ ReturnsNothing

\* A null pointer is not added.
AddLast(l, v) ==
  LET Behind(k) == IF k = Len(seq[l]) + 1 THEN k + 1 ELSE k
  IN /\ seq[l] # NULL
     /\ IF v = NULL THEN UNCHANGED <<seq, cursor>>
        ELSE Becomes(l, Append(seq[l], v), Move(cursor[l], Behind))
     /\ ReturnsNothing

AddFirst(l, v) ==
  LET Behind(k) == IF k > 0 THEN k + 1 ELSE k
  IN /\ seq[l] # NULL
     /\ IF v = NULL THEN UNCHANGED <<seq, cursor>>
        ELSE Becomes(l, <<v>> \o seq[l], Move(cursor[l], Behind))
     /\ ReturnsNothing

\* The k-th value goes; a cursor on it becomes c.
Delete(l, k, c) ==
  LET Without(j) == IF j = k THEN Lost ELSE IF j > k THEN j - 1 ELSE j
  IN /\ Becomes(l, S!RemoveAt(seq[l], k),
                IF cursor[l] = On(k) THEN c ELSE Move(cursor[l], Without))
     /\ Returns(seq[l][k])

Nothing == UNCHANGED <<seq, cursor>> /\ Returns(NULL)

RemoveFirst(l) ==
  /\ seq[l] # NULL
  /\ IF seq[l] = <<>> THEN Nothing
     ELSE Delete(l, 1, On(0))

RemoveLast(l) ==
  /\ seq[l] # NULL
  /\ IF seq[l] = <<>> THEN Nothing
     ELSE Delete(l, Len(seq[l]), On(Len(seq[l])))

\* The last of several equal values.
RemoveThis(l, v) ==
  /\ seq[l] # NULL
  /\ LET k == S!SelectLastInSeq(seq[l], LAMBDA w : w = v)
     IN IF k = 0 THEN Nothing
        ELSE Delete(l, k, Between(k - 1, k))

RemoveCurrent(l) ==
  LET c == cursor[l] IN
  /\ seq[l] # NULL
  /\ IF c = On(Lost) THEN Undefined
     ELSE IF c.gap \/ c.left \notin DOMAIN seq[l] THEN Nothing
     ELSE Delete(l, c.left, Between(c.left - 1, c.left))

GoTo(l, k) ==
  IF k = Lost THEN Undefined ELSE Becomes(l, seq[l], On(k)) /\ Returns(At(l, k))

GetFirst(l) == seq[l] # NULL /\ GoTo(l, IF seq[l] = <<>> THEN 0 ELSE 1)

GetLast(l) == seq[l] # NULL /\ GoTo(l, IF seq[l] = <<>> THEN 1 ELSE Len(seq[l]))

GetNext(l) ==
  LET c == cursor[l] IN
  /\ seq[l] # NULL
  /\ GoTo(l, IF c.gap \/ c.right \in {Lost, Len(seq[l]) + 1} THEN c.right ELSE c.right + 1)

GetPrevious(l) ==
  LET c == cursor[l] IN
  /\ seq[l] # NULL
  /\ GoTo(l, IF c.gap \/ c.left \in {Lost, 0} THEN c.left ELSE c.left - 1)

GetCurrent(l) ==
  LET c == cursor[l] IN
  /\ seq[l] # NULL
  /\ IF c.gap THEN Nothing ELSE GoTo(l, c.left)

Next ==
  /\ ~ended
  /\ \E l \in Lists :
       \/ Create(l) \/ Release(l) \/ Clear(l)
       \/ RemoveFirst(l) \/ RemoveLast(l) \/ RemoveCurrent(l)
       \/ GetFirst(l) \/ GetLast(l) \/ GetNext(l) \/ GetPrevious(l) \/ GetCurrent(l)
       \/ \E m \in Lists : Copy(l, m)
       \/ \E v \in Values : RemoveThis(l, v)
       \/ \E v \in Values \cup {NULL} : AddLast(l, v) \/ AddFirst(l, v)

Spec == Init /\ [][Next]_vars
=============================================================================
