------------------------- MODULE IndicationDelivery -------------------------
(***************************************************************************)
(* What the indication listener promises (abstract): each port serves one  *)
(* connection at a time; serving it ends in at most one callback, recorded *)
(* in the log, or in none; the whole process may go down at any time and   *)
(* stays down.                                                             *)
(***************************************************************************)
EXTENDS Naturals, Sequences

CONSTANT Ports

VARIABLES up,       \* FALSE once the process has ended
          taken,    \* connections taken so far
          serving,  \* the connection each port serves and has not delivered, or 0
          log       \* <<port, connection>> of every callback, in order

vars == <<up, taken, serving, log>>

Init ==
  /\ up = TRUE
  /\ taken = 0
  /\ serving = [p \in Ports |-> 0]
  /\ log = << >>

Take(p) ==
  /\ serving[p] = 0
  /\ taken' = taken + 1
  /\ serving' = [serving EXCEPT ![p] = taken + 1]
  /\ UNCHANGED <<up, log>>

Deliver(p) ==
  /\ serving[p] # 0
  /\ log' = Append(log, <<p, serving[p]>>)
  /\ serving' = [serving EXCEPT ![p] = 0]
  /\ UNCHANGED <<up, taken>>

Drop(p) ==
  /\ serving[p] # 0
  /\ serving' = [serving EXCEPT ![p] = 0]
  /\ UNCHANGED <<up, taken, log>>

GoDown == up' = FALSE /\ UNCHANGED <<taken, serving, log>>

Next ==
  /\ up
  /\ (\E p \in Ports : Take(p) \/ Deliver(p) \/ Drop(p)) \/ GoDown

Spec == Init /\ [][Next]_vars
=============================================================================
