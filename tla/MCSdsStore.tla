------------------------------ MODULE MCSdsStore ------------------------------
(* Instances of SdsStore for TLC. *)
EXTENDS SdsStore

\* Both save, one at a time, and what may go wrong with it.
OneAtATime ==
  {Circumstance(Savers, FALSE, 2, FALSE, FALSE),
   Circumstance(Savers, FALSE, 0, TRUE, FALSE)}

\* Sasha coalesces, nothing fails, and the writer may be quick.
QuickWriter == {Circumstance({"sasha"}, FALSE, 0, FALSE, TRUE)}
=============================================================================
