---------------------------- MODULE DurableTree ----------------------------
(***************************************************************************)
(* What the store of Dali promises: the tree is lost whenever the server   *)
(* stops, and comes back as every change that had been written, once each  *)
(* and in the order they were made.  SdsStore implements it.               *)
(***************************************************************************)
EXTENDS Naturals, Sequences, SequencesExt

CONSTANT NoTree    \* the server is down

VARIABLES
  tree,            \* the changes the tree in memory holds, in order
  written          \* those of them that a restart brings back

Init == tree = <<>> /\ written = <<>>

Change ==
  /\ tree # NoTree /\ tree' # NoTree
  /\ Len(tree') = Len(tree) + 1 /\ IsPrefix(tree, tree')
  /\ UNCHANGED written

Write ==
  /\ tree # NoTree
  /\ Len(written') > Len(written) /\ IsPrefix(written, written') /\ IsPrefix(written', tree)
  /\ UNCHANGED tree

Stop == tree # NoTree /\ tree' = NoTree /\ UNCHANGED written

Restart == tree = NoTree /\ tree' = written /\ UNCHANGED written

Next == Change \/ Write \/ Stop \/ Restart

Spec == Init /\ [][Next]_<<tree, written>>
=============================================================================
