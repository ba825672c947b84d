----------------------------- MODULE TagNesting -----------------------------
(* How the tags of a text nest.  A text is a sequence of places, each with *)
(* a kind and a tag; only "start" and "end" places change the depth.       *)
EXTENDS Naturals, Sequences, FiniteSets

(* The number of elements open just before place i.                        *)
Depth(txt, i) ==
  Cardinality({j \in 1..i - 1 : txt[j].kind = "start"})
    - Cardinality({j \in 1..i - 1 : txt[j].kind = "end"})

(* The tag of the element that place i is directly within.                 *)
Parent(txt, i) ==
  LET around == {j \in 1..i - 1 : txt[j].kind = "start" /\ Depth(txt, j) = Depth(txt, i) - 1}
  IN IF around = {} THEN ""
     ELSE txt[CHOOSE j \in around : \A k \in around : k <= j].tag

(* Every end tag closes the start tag of its name that is open.            *)
WellNested(txt) ==
  /\ Depth(txt, Len(txt) + 1) = 0
  /\ \A i \in 1..Len(txt) : txt[i].kind = "end" =>
       \E j \in 1..i - 1 :
         /\ txt[j].kind = "start" /\ txt[j].tag = txt[i].tag
         /\ \A k \in j + 1..i : Depth(txt, k) > Depth(txt, j)
         /\ Depth(txt, i) = Depth(txt, j) + 1
=============================================================================
