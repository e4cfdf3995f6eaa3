---------------------------- MODULE CountingLemmas ----------------------------
(* Facts about numbers and finite sets that the proofs of the components    *)
(* share: least elements, threads counted by their position, and sums that  *)
(* are written as the size of a set of slots.                               *)
EXTENDS OrderedSets, SequencesExt, FiniteSetTheorems, SequenceTheorems,
        WellFoundedInduction, TLAPS

\* A nonempty set of numbers has a least one: firstTracked() is well defined
\* whenever the resend list holds a packet.
LEMMA MinNat ==
  ASSUME NEW S \in SUBSET Nat, S # {}
  PROVE  Min(S) \in S /\ \A t \in S : Min(S) <= t
<1> DEFINE R == {ss \in Nat \X Nat : ss[1] < ss[2]}
<1>1. R = OpToRel(<, Nat)
  BY DEF OpToRel
<1>2. IsWellFoundedOn(R, Nat)
  BY <1>1, NatLessThanWellFounded, Zenon
<1>3. PICK m \in S : \A y \in S : <<y, m>> \notin R
  <2> HIDE DEF R
  <2> QED BY <1>2, WFMin
<1>4. ASSUME NEW y \in S
      PROVE  m <= y
  <2>1. m \in Nat /\ y \in Nat
    OBVIOUS
  <2>2. ~ (y < m)
    <3>1. y < m => <<y, m>> \in R
      BY <2>1
    <3> HIDE DEF R
    <3>2. QED
      BY <1>3, <3>1
  <2>3. QED
    BY <2>1, <2>2
<1>5. QED
  BY <1>4 DEF Min

\* A number modulo m, where it is at most m away from the range.
LEMMA SmallModulo ==
  ASSUME NEW m \in Nat \ {0}, NEW a \in Int
  PROVE  /\ 0 <= a /\ a < m => a % m = a
         /\ a < 0 /\ -m <= a => a % m = a + m
         /\ a % m \in 0 .. m - 1
OBVIOUS

\* A set of numbers up to n has a greatest one.
LEMMA MaxNat ==
  ASSUME NEW n \in Nat, NEW S \in SUBSET (0 .. n), S # {}
  PROVE  Max(S) \in S /\ \A t \in S : t <= Max(S)
<1> DEFINE R == {n - t : t \in S}
<1>1. R \in SUBSET Nat /\ R # {}
  <2>1. \A t \in S : n - t \in Nat
    OBVIOUS
  <2>2. QED
    BY <2>1
<1>2. Min(R) \in R /\ \A t \in R : Min(R) <= t
  BY <1>1, MinNat
<1>3. PICK m \in S : Min(R) = n - m
  BY <1>2
<1>4. \A t \in S : t <= m
  <2>1. \A t \in S : n - m <= n - t
    BY <1>2, <1>3
  <2>2. QED
    BY <2>1
<1>5. QED
  BY <1>4 DEF Max

-----------------------------------------------------------------------------
\* The number of threads of S at position x.
NumberAt(S, pc, x) == Cardinality({w \in S : pc[w] = x})

LEMMA NumberAtType ==
  ASSUME NEW S, IsFiniteSet(S), NEW pc, NEW x
  PROVE  NumberAt(S, pc, x) \in Nat
<1>1. IsFiniteSet({w \in S : pc[w] = x})
  BY FS_Subset
<1>2. QED
  BY <1>1, FS_CardinalityType DEF NumberAt

\* A thread that moves to x adds one to the threads there ...
LEMMA ThreadArrives ==
  ASSUME NEW S, IsFiniteSet(S), NEW pc, NEW moved, NEW w \in S, NEW x,
         pc[w] # x, moved[w] = x, \A u \in S \ {w} : moved[u] = pc[u]
  PROVE  NumberAt(S, moved, x) = NumberAt(S, pc, x) + 1
<1> DEFINE old == {u \in S : pc[u] = x}
           new == {u \in S : moved[u] = x}
<1>1. IsFiniteSet(old)
  BY FS_Subset
<1>2. new = old \cup {w} /\ w \notin old
  OBVIOUS
<1>3. QED
  BY <1>1, <1>2, FS_AddElement DEF NumberAt

\* ... one that leaves x takes one away ...
LEMMA ThreadLeaves ==
  ASSUME NEW S, IsFiniteSet(S), NEW pc, NEW moved, NEW w \in S, NEW x,
         pc[w] = x, moved[w] # x, \A u \in S \ {w} : moved[u] = pc[u]
  PROVE  NumberAt(S, moved, x) = NumberAt(S, pc, x) - 1
<1> DEFINE old == {u \in S : pc[u] = x}
           new == {u \in S : moved[u] = x}
<1>1. IsFiniteSet(old)
  BY FS_Subset
<1>2. new = old \ {w} /\ w \in old
  OBVIOUS
<1>3. QED
  BY <1>1, <1>2, FS_RemoveElement DEF NumberAt

\* ... and while none does either, it stays as it is.
LEMMA ThreadElsewhere ==
  ASSUME NEW S, NEW pc, NEW moved, NEW x,
         \A u \in S : moved[u] = x <=> pc[u] = x
  PROVE  NumberAt(S, moved, x) = NumberAt(S, pc, x)
<1>1. {u \in S : moved[u] = x} = {u \in S : pc[u] = x}
  OBVIOUS
<1>2. QED
  BY <1>1 DEF NumberAt

-----------------------------------------------------------------------------
\* One slot for each unit of each r[t]: their number is the sum of r over S.
Slots(S, r) == UNION {{t} \X (1 .. r[t]) : t \in S}

LEMMA NoSlots ==
  ASSUME NEW S, NEW r, \A t \in S : r[t] = 0
  PROVE  Slots(S, r) = {}
BY DEF Slots

\* The slots of one t.
LEMMA SlotsOfOne ==
  ASSUME NEW t, NEW n \in Nat
  PROVE  IsFiniteSet({t} \X (1 .. n)) /\ Cardinality({t} \X (1 .. n)) = n
<1>1. IsFiniteSet({t}) /\ Cardinality({t}) = 1
  BY FS_Singleton
<1>2. IsFiniteSet(1 .. n) /\ Cardinality(1 .. n) = n
  BY FS_Interval
<1>3. /\ IsFiniteSet({t} \X (1 .. n))
      /\ Cardinality({t} \X (1 .. n)) = Cardinality({t}) * Cardinality(1 .. n)
  BY <1>1, <1>2, FS_Product, Zenon
<1>4. QED
  BY <1>1, <1>2, <1>3

\* The sum is that of the others and r[t].
LEMMA SlotsWithout ==
  ASSUME NEW S, NEW r, NEW t \in S, r[t] \in Nat, IsFiniteSet(Slots(S \ {t}, r))
  PROVE  /\ IsFiniteSet(Slots(S, r))
         /\ Cardinality(Slots(S, r)) = Cardinality(Slots(S \ {t}, r)) + r[t]
<1> DEFINE others == Slots(S \ {t}, r)
           own == {t} \X (1 .. r[t])
<1>1. Slots(S, r) = others \cup own /\ others \cap own = {}
  BY DEF Slots
<1>2. IsFiniteSet(own) /\ Cardinality(own) = r[t]
  BY SlotsOfOne
<1> HIDE DEF others, own
<1>3. IsFiniteSet(others) /\ Cardinality(others) \in Nat
  BY FS_CardinalityType DEF others
<1>4. /\ IsFiniteSet(others \cup own)
      /\ Cardinality(others \cup own)
           = Cardinality(others) + Cardinality(own) - Cardinality(others \cap own)
  BY <1>2, <1>3, FS_Union, Zenon
<1>5. Cardinality(others \cap own) = 0
  BY <1>1, FS_EmptySet
<1>6. QED
  BY <1>1, <1>2, <1>3, <1>4, <1>5 DEF others

\* Changing r at t changes the sum by the difference.
LEMMA SlotsChange ==
  ASSUME NEW S, NEW r, NEW q, NEW t \in S, r[t] \in Nat, q[t] \in Nat,
         \A u \in S \ {t} : q[u] = r[u],
         IsFiniteSet(Slots(S, r))
  PROVE  /\ IsFiniteSet(Slots(S, q))
         /\ Cardinality(Slots(S, r)) \in Nat /\ Cardinality(Slots(S, q)) \in Nat
         /\ Cardinality(Slots(S, q)) = Cardinality(Slots(S, r)) - r[t] + q[t]
<1>1. Slots(S \ {t}, r) \subseteq Slots(S, r) /\ Slots(S \ {t}, q) = Slots(S \ {t}, r)
  BY DEF Slots
<1>2. IsFiniteSet(Slots(S \ {t}, r)) /\ IsFiniteSet(Slots(S \ {t}, q))
  BY <1>1, FS_Subset
<1>3. /\ Cardinality(Slots(S, r)) = Cardinality(Slots(S \ {t}, r)) + r[t]
      /\ IsFiniteSet(Slots(S, q))
      /\ Cardinality(Slots(S, q)) = Cardinality(Slots(S \ {t}, q)) + q[t]
  BY <1>2, SlotsWithout
<1>4. Cardinality(Slots(S \ {t}, r)) \in Nat
  BY <1>2, FS_CardinalityType
<1>5. QED
  BY <1>1, <1>3, <1>4
-----------------------------------------------------------------------------
(* Ordered sets and lists.                                                  *)

\* The rank of a member counts it from 1, so a set has a member of each rank
\* up to its size, and one only.
LEMMA RankIsBijection ==
  ASSUME NEW S \in SUBSET Nat, IsFiniteSet(S)
  PROVE  /\ \A n \in S : Rank(S, n) \in 1 .. Cardinality(S)
         /\ \A m, n \in S : m < n => Rank(S, m) < Rank(S, n)
         /\ \A i \in 1 .. Cardinality(S) : \E n \in S : Rank(S, n) = i
<1> DEFINE Upto(n) == {m \in S : m <= n}
           rank == [n \in S |-> Rank(S, n)]
<1>1. \A n \in S : /\ IsFiniteSet(Upto(n)) /\ Cardinality(Upto(n)) \in Nat
                   /\ Cardinality(Upto(n)) <= Cardinality(S)
  BY FS_Subset, FS_CardinalityType
<1>2. Cardinality(S) \in Nat
  BY FS_CardinalityType
<1>3. ASSUME NEW n \in S PROVE Rank(S, n) \in 1 .. Cardinality(S)
  <2>1. n \in Upto(n)
    OBVIOUS
  <2>2. Cardinality(Upto(n)) # 0
    BY <1>1, <2>1, FS_EmptySet
  <2>3. QED
    BY <1>1, <1>2, <2>2 DEF Rank
<1>4. ASSUME NEW m \in S, NEW n \in S, m < n PROVE Rank(S, m) < Rank(S, n)
  <2>1. Upto(m) \in SUBSET Upto(n) /\ n \in Upto(n) /\ n \notin Upto(m)
    <3>1. m \in Nat /\ n \in Nat /\ m < n
      BY <1>4
    <3>2. \A k \in S : k \in Nat /\ (k <= m => k <= n)
      BY <3>1
    <3>3. Upto(m) \in SUBSET Upto(n)
      BY <3>2
    <3>4. QED
      BY <3>1, <3>3
  <2>2. /\ Cardinality(Upto(m)) <= Cardinality(Upto(n))
        /\ Cardinality(Upto(n)) = Cardinality(Upto(m)) => Upto(n) = Upto(m)
    BY <1>1, <2>1, FS_Subset
  <2>3. Cardinality(Upto(m)) # Cardinality(Upto(n))
    BY <2>1, <2>2
  <2>4. QED
    BY <1>1, <2>2, <2>3 DEF Rank
<1>5. \A i \in 1 .. Cardinality(S) : \E n \in S : Rank(S, n) = i
  <2>0. \A n \in S : Rank(S, n) \in 1 .. Cardinality(S)
    BY <1>3
  <2>1. rank \in [S -> 1 .. Cardinality(S)]
    BY <2>0
  <2>2. ASSUME NEW a \in S, NEW b \in S, rank[a] = rank[b] PROVE a = b
    <3>1. rank[a] = Rank(S, a) /\ rank[b] = Rank(S, b)
      OBVIOUS
    <3>2. Rank(S, a) \in Nat /\ Rank(S, b) \in Nat
      BY <1>3
    <3>3. QED
      BY <1>4, <2>2, <3>1, <3>2
  <2>3. rank \in Injection(S, 1 .. Cardinality(S))
    BY <2>1, <2>2 DEF Injection, IsInjective
  <2>4. IsFiniteSet(1 .. Cardinality(S)) /\ Cardinality(1 .. Cardinality(S)) = Cardinality(S)
    BY <1>2, FS_Interval
  <2> HIDE DEF rank
  <2>5. rank \in Surjection(S, 1 .. Cardinality(S))
    BY <2>3, <2>4, FS_Injection
  <2>6. \A i \in 1 .. Cardinality(S) : \E n \in S : rank[n] = i
    BY <2>5 DEF Surjection
  <2>7. QED
    BY <2>6 DEF rank
<1>6. QED
  BY <1>3, <1>4, <1>5

\* Ordered lists every member once, in ascending order.
LEMMA OrderedIsAscending ==
  ASSUME NEW S \in SUBSET Nat, IsFiniteSet(S)
  PROVE  /\ Ordered(S) \in Seq(S) /\ Len(Ordered(S)) = Cardinality(S)
         /\ \A i \in 1 .. Cardinality(S) : Ordered(S)[i] \in S
         /\ \A i, j \in 1 .. Cardinality(S) : i < j => Ordered(S)[i] < Ordered(S)[j]
         /\ \A n \in S : \E i \in 1 .. Cardinality(S) : Ordered(S)[i] = n
<1> DEFINE N == Cardinality(S)
           o == Ordered(S)
<1>1. N \in Nat
  BY FS_CardinalityType
<1>2. ASSUME NEW i \in 1 .. N PROVE o[i] \in S /\ Rank(S, o[i]) = i
  <2>1. \E n \in S : Rank(S, n) = i
    BY <1>2, RankIsBijection
  <2>2. o[i] = CHOOSE n \in S : Rank(S, n) = i
    BY DEF Ordered
  <2> HIDE DEF o, N
  <2>3. QED
    BY <2>1, <2>2
<1>3. o \in Seq(S) /\ Len(o) = N
  <2>1. o \in [1 .. N -> S]
    BY <1>2 DEF Ordered
  <2> HIDE DEF o, N
  <2>2. QED
    BY <1>1, <2>1
<1>4. ASSUME NEW i \in 1 .. N, NEW j \in 1 .. N, i < j PROVE o[i] < o[j]
  <2>1. o[i] \in S /\ o[j] \in S /\ Rank(S, o[i]) = i /\ Rank(S, o[j]) = j
    BY <1>2
  <2>2. o[j] < o[i] => Rank(S, o[j]) < Rank(S, o[i])
    BY <2>1, RankIsBijection
  <2> HIDE DEF o, N
  <2>3. o[i] # o[j] /\ ~ (o[j] < o[i])
    BY <1>1, <1>4, <2>1, <2>2
  <2>4. o[i] \in Nat /\ o[j] \in Nat
    BY <2>1
  <2>5. QED
    BY <2>3, <2>4
<1>5. ASSUME NEW n \in S PROVE \E i \in 1 .. N : o[i] = n
  <2>1. Rank(S, n) \in 1 .. N
    BY RankIsBijection
  <2> DEFINE m == o[Rank(S, n)]
  <2>2. m \in S /\ Rank(S, m) = Rank(S, n)
    BY <1>2, <2>1
  <2>3. (m < n => Rank(S, m) < Rank(S, n)) /\ (n < m => Rank(S, n) < Rank(S, m))
    BY <2>2, RankIsBijection
  <2> HIDE DEF m, N
  <2>4. m = n
    <3>1. m \in Nat /\ n \in Nat /\ Rank(S, n) \in Int
      BY <1>1, <2>1, <2>2
    <3>2. QED
      BY <2>2, <2>3, <3>1
  <2>5. QED
    BY <2>1, <2>4 DEF m
<1>6. QED
  BY <1>2, <1>3, <1>4, <1>5

\* Taking elements from a list leaves the others, each as often as before.
LEMMA WithoutKeepsOthers ==
  ASSUME NEW T, NEW list \in Seq(T), NEW gone
  PROVE  /\ Without(list, gone) \in Seq(T)
         /\ Len(Without(list, gone)) <= Len(list)
         /\ ToSet(Without(list, gone)) = ToSet(list) \ gone
         /\ IsInjective(list) => IsInjective(Without(list, gone))
<1> DEFINE kept == {i \in DOMAIN list : list[i] \notin gone}
           o == Ordered(kept)
           left == Without(list, gone)
<1>1. DOMAIN list = 1 .. Len(list) /\ Len(list) \in Nat /\ \A i \in DOMAIN list : list[i] \in T
  OBVIOUS
<1>2. /\ kept \in SUBSET (1 .. Len(list)) /\ kept \in SUBSET Nat
      /\ \A i : i \in kept <=> i \in DOMAIN list /\ list[i] \notin gone
  BY <1>1
<1>3. IsFiniteSet(kept) /\ Cardinality(kept) <= Len(list) /\ Cardinality(kept) \in Nat
  <2>1. IsFiniteSet(1 .. Len(list)) /\ Cardinality(1 .. Len(list)) = Len(list)
    BY <1>1, FS_Interval, SMTT(30)
  <2> HIDE DEF kept
  <2>2. QED
    BY <1>2, <2>1, FS_Subset, FS_CardinalityType
<1> HIDE DEF kept
<1>4. /\ o \in Seq(kept) /\ Len(o) = Cardinality(kept)
      /\ \A i \in 1 .. Cardinality(kept) : o[i] \in kept
      /\ \A i, j \in 1 .. Cardinality(kept) : i < j => o[i] < o[j]
      /\ \A n \in kept : \E i \in 1 .. Cardinality(kept) : o[i] = n
  BY <1>2, <1>3, OrderedIsAscending
<1>5. left = [i \in DOMAIN o |-> list[o[i]]]
  BY DEF Without, kept
<1> HIDE DEF o
<1>6. DOMAIN o = 1 .. Cardinality(kept)
  BY <1>3, <1>4
<1> HIDE DEF left
<1>7. left \in [1 .. Cardinality(kept) -> T]
  BY <1>1, <1>2, <1>4, <1>5, <1>6
<1>8. left \in Seq(T) /\ Len(left) = Cardinality(kept) /\ DOMAIN left = 1 .. Cardinality(kept)
  BY <1>3, <1>7
<1>9. ToSet(left) = ToSet(list) \ gone
  <2>1. ASSUME NEW i \in DOMAIN left PROVE left[i] \in ToSet(list) \ gone
    BY <1>2, <1>4, <1>5, <1>6, <1>8 DEF ToSet
  <2>2. ASSUME NEW i \in DOMAIN list, list[i] \notin gone PROVE list[i] \in ToSet(left)
    <3>1. PICK j \in 1 .. Cardinality(kept) : o[j] = i
      BY <1>2, <1>4, <2>2
    <3>2. left[j] = list[i]
      BY <1>5, <1>6, <3>1
    <3>3. QED
      BY <1>8, <3>1, <3>2 DEF ToSet
  <2>3. QED
    BY <2>1, <2>2 DEF ToSet
<1>10. ASSUME IsInjective(list) PROVE IsInjective(left)
  <2>1. ASSUME NEW i \in 1 .. Cardinality(kept), NEW j \in 1 .. Cardinality(kept),
               left[i] = left[j]
        PROVE  i = j
    <3>1. list[o[i]] = list[o[j]] /\ o[i] \in DOMAIN list /\ o[j] \in DOMAIN list
      BY <1>2, <1>4, <1>5, <1>6, <2>1
    <3>2. o[i] = o[j]
      BY <1>10, <3>1 DEF IsInjective
    <3>3. ~ (i < j) /\ ~ (j < i)
      <4>1. o[i] \in Nat /\ o[j] \in Nat
        BY <1>2, <1>4
      <4>2. QED
        BY <1>4, <3>2, <4>1
    <3>4. QED
      BY <1>3, <3>3
  <2>2. QED
    BY <1>8, <2>1 DEF IsInjective
<1>11. QED
  BY <1>3, <1>8, <1>9, <1>10 DEF left

\* What is left keeps its order: it stands at ascending places of the list.
LEMMA WithoutKeepsOrder ==
  ASSUME NEW T, NEW list \in Seq(T), NEW gone
  PROVE  \E at \in [DOMAIN Without(list, gone) -> DOMAIN list] :
           /\ \A i \in DOMAIN at : Without(list, gone)[i] = list[at[i]] /\ list[at[i]] \notin gone
           /\ \A i, j \in DOMAIN at : i < j => at[i] < at[j]
<1> DEFINE kept == {i \in DOMAIN list : list[i] \notin gone}
           o == Ordered(kept)
<1>1. /\ DOMAIN list = 1 .. Len(list) /\ Len(list) \in Nat
      /\ kept \in SUBSET (1 .. Len(list)) /\ kept \in SUBSET Nat
      /\ \A i \in kept : i \in DOMAIN list /\ list[i] \notin gone
  OBVIOUS
<1>2. IsFiniteSet(kept) /\ Cardinality(kept) \in Nat
  <2>1. IsFiniteSet(1 .. Len(list))
    BY <1>1, FS_Interval
  <2> HIDE DEF kept
  <2>2. QED
    BY <1>1, <2>1, FS_Subset, FS_CardinalityType
<1>3. Without(list, gone) = [i \in DOMAIN o |-> list[o[i]]]
  BY DEF Without
<1> HIDE DEF kept
<1>4. /\ o \in Seq(kept) /\ Len(o) = Cardinality(kept)
      /\ \A i \in 1 .. Cardinality(kept) : o[i] \in kept
      /\ \A i, j \in 1 .. Cardinality(kept) : i < j => o[i] < o[j]
  BY <1>1, <1>2, OrderedIsAscending
<1> HIDE DEF o
<1>5. DOMAIN o = 1 .. Cardinality(kept) /\ DOMAIN Without(list, gone) = DOMAIN o
  BY <1>2, <1>3, <1>4
<1>6. o \in [DOMAIN Without(list, gone) -> DOMAIN list]
  <2>1. o = [i \in DOMAIN o |-> o[i]]
    BY <1>4
  <2>2. \A i \in DOMAIN o : o[i] \in DOMAIN list
    BY <1>1, <1>4, <1>5
  <2>3. QED
    BY <1>5, <2>1, <2>2
<1>7. \A i \in DOMAIN o : Without(list, gone)[i] = list[o[i]] /\ list[o[i]] \notin gone
  BY <1>1, <1>3, <1>4, <1>5
<1>8. QED
  BY <1>4, <1>5, <1>6, <1>7

\* Inserting, removing and appending keep the elements of a sequence where they
\* belong.
LEMMA InsertAtType ==
  ASSUME NEW T, NEW list \in Seq(T), NEW i \in 1 .. Len(list) + 1, NEW e \in T
  PROVE  InsertAt(list, i, e) \in Seq(T)
<1>1. SubSeq(list, 1, i - 1) \in Seq(T) /\ SubSeq(list, i, Len(list)) \in Seq(T)
  OBVIOUS
<1>2. <<e>> \in Seq(T)
  OBVIOUS
<1>3. SubSeq(list, 1, i - 1) \o <<e>> \in Seq(T)
  BY <1>1, <1>2, ConcatProperties
<1>4. QED
  BY <1>1, <1>3, ConcatProperties DEF InsertAt

\* An insertion puts the new element at its place and moves what is behind it.
LEMMA InsertAtElements ==
  ASSUME NEW T, NEW list \in Seq(T), NEW i \in 1 .. Len(list) + 1, NEW e \in T
  PROVE  /\ Len(InsertAt(list, i, e)) = Len(list) + 1
         /\ \A j \in 1 .. Len(list) + 1 :
              InsertAt(list, i, e)[j] = IF j < i THEN list[j]
                                        ELSE IF j = i THEN e ELSE list[j - 1]
<1> DEFINE front == SubSeq(list, 1, i - 1)
           one == <<e>>
           back == SubSeq(list, i, Len(list))
           head == front \o one
           n == Len(list)
<1>0. n \in Nat /\ i \in 1 .. n + 1
  OBVIOUS
<1>1. /\ front \in Seq(T) /\ Len(front) = i - 1
      /\ \A j \in 1 .. i - 1 : front[j] = list[j]
  OBVIOUS
<1>2. /\ back \in Seq(T) /\ Len(back) = n - i + 1
      /\ \A j \in 1 .. n - i + 1 : back[j] = list[j + i - 1]
  OBVIOUS
<1>3. one \in Seq(T) /\ Len(one) = 1 /\ one[1] = e
  OBVIOUS
<1>4. InsertAt(list, i, e) = head \o back
  BY DEF InsertAt
<1> HIDE DEF front, one, back
<1>5. /\ head \in Seq(T) /\ Len(head) = i
      /\ \A j \in 1 .. i : head[j] = IF j <= i - 1 THEN front[j] ELSE one[j - (i - 1)]
  <2> HIDE DEF n
  <2>1. /\ front \o one \in Seq(T) /\ Len(front \o one) = Len(front) + Len(one)
        /\ \A j \in 1 .. Len(front) + Len(one) :
             (front \o one)[j] = IF j <= Len(front) THEN front[j] ELSE one[j - Len(front)]
    BY <1>1, <1>3, ConcatProperties, Zenon
  <2>2. Len(front) + Len(one) = i /\ Len(front) = i - 1
    BY <1>0, <1>1, <1>3
  <2>3. QED
    BY <2>1, <2>2
<1> HIDE DEF head, n
<1>6. /\ Len(head \o back) = n + 1
      /\ \A j \in 1 .. n + 1 : (head \o back)[j] = IF j <= i THEN head[j] ELSE back[j - i]
  <2>1. /\ Len(head \o back) = Len(head) + Len(back)
        /\ \A j \in 1 .. Len(head) + Len(back) :
             (head \o back)[j] = IF j <= Len(head) THEN head[j] ELSE back[j - Len(head)]
    BY <1>2, <1>5, ConcatProperties, Zenon
  <2>2. Len(head) + Len(back) = n + 1 /\ Len(head) = i
    BY <1>0, <1>2, <1>5
  <2>3. QED
    BY <2>1, <2>2
<1>7. ASSUME NEW j \in 1 .. n + 1
      PROVE  (head \o back)[j] = IF j < i THEN list[j] ELSE IF j = i THEN e ELSE list[j - 1]
  <2>1. CASE j < i
    <3>1. j \in 1 .. i /\ j \in 1 .. i - 1 /\ j <= i - 1 /\ j <= i
      BY <1>0, <2>1
    <3>2. QED
      BY <1>1, <1>5, <1>6, <2>1, <3>1
  <2>2. CASE j = i
    <3>1. j \in 1 .. i /\ ~(j <= i - 1) /\ j <= i /\ j - (i - 1) = 1 /\ ~(j < i)
      BY <1>0, <2>2
    <3>2. QED
      BY <1>3, <1>5, <1>6, <2>2, <3>1
  <2>3. CASE j > i
    <3>1. ~(j <= i) /\ j - i \in 1 .. n - i + 1 /\ (j - i) + i - 1 = j - 1 /\ ~(j < i) /\ j # i
      BY <1>0, <2>3
    <3>2. QED
      BY <1>2, <1>6, <3>1
  <2>4. j < i \/ j = i \/ j > i
    BY <1>0
  <2>5. QED
    BY <2>1, <2>2, <2>3, <2>4, Zenon
<1>8. QED
  BY <1>4, <1>6, <1>7 DEF n

LEMMA RemoveAtType ==
  ASSUME NEW T, NEW list \in Seq(T), NEW i \in 1 .. Len(list)
  PROVE  RemoveAt(list, i) \in Seq(T)
<1>1. SubSeq(list, 1, i - 1) \in Seq(T) /\ SubSeq(list, i + 1, Len(list)) \in Seq(T)
  OBVIOUS
<1>2. QED
  BY <1>1, ConcatProperties DEF RemoveAt

\* What is left after a removal are the other elements, each once.
LEMMA RemoveAtElements ==
  ASSUME NEW T, NEW list \in Seq(T), NEW i \in 1 .. Len(list)
  PROVE  /\ Len(RemoveAt(list, i)) = Len(list) - 1
         /\ DOMAIN RemoveAt(list, i) = 1 .. Len(list) - 1
         /\ \A j \in 1 .. Len(list) - 1 :
              RemoveAt(list, i)[j] = list[IF j < i THEN j ELSE j + 1]
<1> DEFINE front == SubSeq(list, 1, i - 1)
           back == SubSeq(list, i + 1, Len(list))
<1>1. /\ front \in Seq(T) /\ Len(front) = i - 1
      /\ \A j \in 1 .. i - 1 : front[j] = list[j]
  OBVIOUS
<1>2. /\ back \in Seq(T) /\ Len(back) = Len(list) - i
      /\ \A j \in 1 .. Len(list) - i : back[j] = list[i + j]
  OBVIOUS
<1>3. RemoveAt(list, i) = front \o back
  BY DEF RemoveAt
<1>4. Len(list) \in Nat
  OBVIOUS
<1> HIDE DEF front, back
<1>5. /\ Len(front \o back) = Len(list) - 1
      /\ \A j \in 1 .. Len(list) - 1 :
           (front \o back)[j] = IF j <= Len(front) THEN front[j] ELSE back[j - Len(front)]
  <2>1. /\ Len(front \o back) = Len(front) + Len(back)
        /\ \A j \in 1 .. Len(front) + Len(back) :
             (front \o back)[j] = IF j <= Len(front) THEN front[j] ELSE back[j - Len(front)]
    BY <1>1, <1>2, ConcatProperties
  <2>2. Len(front) + Len(back) = Len(list) - 1
    BY <1>1, <1>2, <1>4
  <2>3. QED
    BY <2>1, <2>2
<1>6. front \o back \in Seq(T)
  BY <1>1, <1>2, ConcatProperties
<1>7. ASSUME NEW j \in 1 .. Len(list) - 1
      PROVE  (front \o back)[j] = list[IF j < i THEN j ELSE j + 1]
  <2>1. CASE j < i
    BY <1>1, <1>4, <1>5, <2>1
  <2>2. CASE ~(j < i)
    <3>1. /\ (front \o back)[j] = back[j - (i - 1)] /\ j - (i - 1) \in 1 .. Len(list) - i
          /\ i + (j - (i - 1)) = j + 1
      BY <1>1, <1>4, <1>5, <2>2
    <3>2. QED
      BY <1>2, <2>2, <3>1
  <2>3. QED
    BY <2>1, <2>2
<1>8. QED
  BY <1>3, <1>4, <1>5, <1>6, <1>7

LEMMA AppendElements ==
  ASSUME NEW T, NEW list \in Seq(T), NEW e \in T
  PROVE  /\ Append(list, e) \in Seq(T) /\ Len(Append(list, e)) = Len(list) + 1
         /\ ToSet(Append(list, e)) = ToSet(list) \cup {e}
         /\ IsInjective(list) /\ e \notin ToSet(list) => IsInjective(Append(list, e))
<1> DEFINE longer == Append(list, e)
<1>1. /\ longer \in Seq(T) /\ Len(longer) = Len(list) + 1
      /\ DOMAIN longer = 1 .. Len(list) + 1 /\ DOMAIN list = 1 .. Len(list)
      /\ Len(list) \in Nat
      /\ longer[Len(list) + 1] = e
      /\ \A i \in 1 .. Len(list) : longer[i] = list[i]
  BY AppendProperties
<1> HIDE DEF longer
<1>2. ToSet(longer) = ToSet(list) \cup {e}
  <2>1. \A i \in DOMAIN longer : longer[i] = e \/ (i \in DOMAIN list /\ longer[i] = list[i])
    BY <1>1
  <2>2. \A i \in DOMAIN list : i \in DOMAIN longer /\ longer[i] = list[i]
    BY <1>1
  <2>3. \E i \in DOMAIN longer : longer[i] = e
    BY <1>1
  <2>4. QED
    BY <2>1, <2>2, <2>3 DEF ToSet
<1>3. ASSUME IsInjective(list), e \notin ToSet(list) PROVE IsInjective(longer)
  BY <1>1, <1>3 DEF IsInjective, ToSet
<1>4. QED
  BY <1>1, <1>2, <1>3 DEF longer

\* A sequence has finitely many elements.
LEMMA ToSetFinite ==
  ASSUME NEW T, NEW list \in Seq(T)
  PROVE  IsFiniteSet(ToSet(list))
<1> DEFINE f == [i \in 1 .. Len(list) |-> list[i]]
<1>1. IsFiniteSet(1 .. Len(list))
  BY FS_Interval
<1>2. f \in Surjection(1 .. Len(list), ToSet(list))
  BY DEF Surjection, ToSet
<1>3. QED
  BY <1>1, <1>2, FS_Surjection

\* The slots of a finite set are finitely many.
LEMMA SlotsFinite ==
  ASSUME NEW S, IsFiniteSet(S), NEW r, \A t \in S : r[t] \in Nat
  PROVE  IsFiniteSet(Slots(S, r))
<1> DEFINE own == {{t} \X (1 .. r[t]) : t \in S}
           f == [t \in S |-> {t} \X (1 .. r[t])]
<1>1. f \in Surjection(S, own)
  <2>1. f \in [S -> own]
    OBVIOUS
  <2>2. \A o \in own : \E t \in S : f[t] = o
    BY Zenon
  <2> HIDE DEF f, own
  <2>3. QED
    BY <2>1, <2>2 DEF Surjection
<1>2. IsFiniteSet(own)
  BY <1>1, FS_Surjection
<1>3. \A o \in own : IsFiniteSet(o)
  <2>1. \A t \in S : IsFiniteSet({t} \X (1 .. r[t]))
    BY SlotsOfOne
  <2>2. QED
    BY <2>1, Zenon
<1>4. Slots(S, r) = UNION own
  BY DEF Slots
<1> HIDE DEF own
<1>5. QED
  BY <1>2, <1>3, <1>4, FS_UNION
=============================================================================
