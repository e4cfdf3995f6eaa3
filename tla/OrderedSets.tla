----------------------------- MODULE OrderedSets -----------------------------
(* Ordered sets of numbers, and lists from which elements are taken.        *)
EXTENDS Naturals, FiniteSets, Sequences

\* How many members of S there are up to n.
Rank(S, n) == Cardinality({m \in S : m <= n})

\* The members of a finite set of numbers in ascending order.
Ordered(S) == [i \in 1 .. Cardinality(S) |-> CHOOSE n \in S : Rank(S, n) = i]

\* LinkedListOf::remove (udptrr.cpp), for each element of gone: the others keep
\* their order.
Without(list, gone) ==
  LET kept == Ordered({i \in DOMAIN list : list[i] \notin gone})
  IN  [i \in DOMAIN kept |-> list[kept[i]]]
=============================================================================
