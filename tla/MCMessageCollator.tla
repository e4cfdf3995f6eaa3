-------------------------- MODULE MCMessageCollator --------------------------
(* Instances of MessageCollator for TLC. *)
EXTENDS MessageCollator

Kind(variable, max, length) == [variable |-> variable, max |-> max, length |-> length]

\* Rows of variable length that fit a buffer (two of them exactly), shrink to
\* nothing, or exceed a buffer and shrink, and a fixed row that exceeds one.
MixedRows ==
  {Kind(TRUE, 1, 1), Kind(TRUE, 1, 0), Kind(TRUE, 8, 7), Kind(FALSE, 8, 8)}
=============================================================================
