------------------------- MODULE MCClientOperation -------------------------
(***************************************************************************)
(* ClientOperation with sets of operations and responses for TLC.          *)
(***************************************************************************)
EXTENDS ClientOperation

\* What follows any operation on the same connection; it clones an element
\* of its response.
SomeLater == {"getInstance"}

OnlyCreateInstance == {"createInstance"}

============================================================================
