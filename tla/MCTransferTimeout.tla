------------------------- MODULE MCTransferTimeout -------------------------
(***************************************************************************)
(* TransferTimeout with limits small enough for TLC: a transfer may take   *)
(* four seconds, progress of two seconds is plausible, and two fixups      *)
(* after the first are too many.                                           *)
(***************************************************************************)
EXTENDS TransferTimeout

\* A clock that can be set forward past what is plausible, a little forward,
\* and back.
SomeSettings == {1, 3, 7}

============================================================================
