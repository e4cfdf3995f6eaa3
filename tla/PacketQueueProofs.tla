-------------------------- MODULE PacketQueueProofs --------------------------
(* Proofs about PacketQueue, for every number of threads and every limit:   *)
(* the types, that no wakeup is lost and that no buffer is stranded.        *)
EXTENDS PacketQueue, CountingLemmas

\* The number of writers at position x.
At(pc, x) == Cardinality({w \in Writers : pc[w] = x})

\* A removal signals no more writers than wait, and the slots beyond the
\* signalled ones are only left over when nobody waits any more.
LEMMA ToSignalAllType ==
  ASSUME count \in Nat, signal_free_sl \in Nat, count <= Limit,
         NEW removed \in 1 .. count
  PROVE  /\ ToSignalAll(removed) \in Nat
         /\ ToSignalAll(removed) <= signal_free_sl
         /\ signal_free_sl > ToSignalAll(removed) => ToSignalAll(removed) = removed
<1> USE QueueAssumption
<1>1. {k \in 1 .. removed : count - k < Limit} = 1 .. removed
  OBVIOUS
<1>2. Cardinality(1 .. removed) = removed
  BY FS_Interval
<1>3. ToSignalAll(removed) = IF removed < signal_free_sl THEN removed ELSE signal_free_sl
  BY <1>1, <1>2, Zenon DEF ToSignalAll
<1>4. QED
  BY <1>3

\* A thread that takes buffers adds the posts it owes ...
LEMMA PostsAdded ==
  ASSUME TypeOK, IsFiniteSet(Posts),
         NEW t \in Takers, NEW n \in Nat, signalFreeSlots[t] = 0,
         signalFreeSlots' = [signalFreeSlots EXCEPT ![t] = n]
  PROVE  IsFiniteSet(Posts') /\ Cardinality(Posts') = Cardinality(Posts) + n
<1>1. signalFreeSlots[t] \in Nat /\ signalFreeSlots'[t] = n
  BY DEF TypeOK
<1>2. \A u \in Takers \ {t} : signalFreeSlots'[u] = signalFreeSlots[u]
  BY DEF TypeOK
<1>3. Posts = Slots(Takers, signalFreeSlots) /\ Posts' = Slots(Takers, signalFreeSlots')
  BY DEF Posts, Slots
<1>4. /\ signalFreeSlots[t] \in Nat /\ signalFreeSlots'[t] \in Nat /\ t \in Takers
      /\ IsFiniteSet(Slots(Takers, signalFreeSlots))
  BY <1>1, <1>3
<1>5. /\ IsFiniteSet(Slots(Takers, signalFreeSlots'))
      /\ Cardinality(Slots(Takers, signalFreeSlots)) \in Nat
      /\ Cardinality(Slots(Takers, signalFreeSlots'))
           = Cardinality(Slots(Takers, signalFreeSlots)) - signalFreeSlots[t] + signalFreeSlots'[t]
  BY ONLY <1>2, <1>4, SlotsChange
<1>6. QED
  BY ONLY <1>1, <1>3, <1>5, signalFreeSlots[t] = 0

\* ... and making one takes one away.
LEMMA PostMade ==
  ASSUME TypeOK, IsFiniteSet(Posts), NEW t \in Takers, signalFreeSlots[t] > 0,
         signalFreeSlots' = [signalFreeSlots EXCEPT ![t] = @ - 1]
  PROVE  IsFiniteSet(Posts') /\ Cardinality(Posts') = Cardinality(Posts) - 1
<1> DEFINE last == <<t, signalFreeSlots[t]>>
<1>1. signalFreeSlots[t] \in Nat
  BY DEF TypeOK
<1>2. last \in Posts /\ Posts' = Posts \ {last}
  BY <1>1 DEF Posts, TypeOK
<1>3. QED
  BY <1>2, FS_RemoveElement

-----------------------------------------------------------------------------
\* The inductive invariant.  NoLostWakeup alone is not inductive: a writer
\* that is signalled and finds no room registers again, which is sound only
\* because signal_free_sl never counts more writers than wait; and a removal
\* from a list longer than its limit would signal too few, so the list that
\* writers wait for must stay within it.
QueueInv ==
  /\ TypeOK
  /\ NoLostWakeup
  /\ DataSignalled
  /\ use = "output" => count <= Limit
  /\ IsFiniteSet(Posts) /\ WaitersCounted
  /\ use = "input" => signal_free_sl = 0
  /\ \A t \in Takers : takePc[t] # "free" => signalFreeSlots[t] = 0

LEMMA QueueInit == Init => QueueInv
<1> SUFFICES ASSUME Init PROVE QueueInv
  OBVIOUS
<1> USE QueueAssumption DEF Init
<1>1. TypeOK
  BY DEF TypeOK, Takers
<1>2. NoLostWakeup
  BY DEF NoLostWakeup
<1>3. Cardinality(Signalling) = 0
  BY FS_EmptySet DEF Signalling
<1>4. DataSignalled
  BY <1>3 DEF DataSignalled, Takers
<1>5. IsFiniteSet(Posts) /\ WaitersCounted
  <2>1. Waiting = {} /\ Posts = {}
    BY DEF Waiting, Posts
  <2>2. QED
    BY <2>1, FS_EmptySet DEF WaitersCounted
<1>6. QED
  BY <1>1, <1>2, <1>4, <1>5 DEF QueueInv

-----------------------------------------------------------------------------
\* A writer that moves to position b changes the numbers of writers there and
\* where it comes from by one, and no other.
LEMMA WriterMoves ==
  ASSUME TypeOK, NEW w \in Writers,
         NEW b \in {"idle", "enter", "wait", "retry", "signal"},
         pushPc' = [pushPc EXCEPT ![w] = b], pushPc[w] # b, NEW x
  PROVE  /\ At(pushPc, x) \in Nat /\ At(pushPc', x) \in Nat
         /\ x = b => At(pushPc', x) = At(pushPc, x) + 1
         /\ x = pushPc[w] => At(pushPc', x) = At(pushPc, x) - 1
         /\ x # b /\ x # pushPc[w] => At(pushPc', x) = At(pushPc, x)
<1> DEFINE old == {u \in Writers : pushPc[u] = x}
           new == {u \in Writers : pushPc'[u] = x}
<1>1. IsFiniteSet(old) /\ IsFiniteSet(new)
  BY QueueAssumption, FS_Subset
<1>2. Cardinality(old) \in Nat /\ Cardinality(new) \in Nat
  BY <1>1, FS_CardinalityType
<1>3. CASE x = b
  <2>1. new = old \cup {w} /\ w \notin old
    BY <1>3 DEF TypeOK
  <2>2. QED
    BY <1>1, <1>2, <1>3, <2>1, FS_AddElement DEF At
<1>4. CASE x = pushPc[w]
  <2>1. new = old \ {w} /\ w \in old
    BY <1>4 DEF TypeOK
  <2>2. QED
    BY <1>1, <1>2, <1>4, <2>1, FS_RemoveElement DEF At
<1>5. CASE x # b /\ x # pushPc[w]
  <2>1. new = old
    BY <1>5 DEF TypeOK
  <2>2. QED
    BY <1>2, <1>5, <2>1 DEF At
<1>6. QED
  BY <1>3, <1>4, <1>5

LEMMA NumbersUnchanged ==
  ASSUME TypeOK, UNCHANGED pushPc
  PROVE  \A x : At(pushPc, x) \in Nat /\ At(pushPc', x) = At(pushPc, x)
<1> TAKE x
<1>1. IsFiniteSet({w \in Writers : pushPc[w] = x})
  BY QueueAssumption, FS_Subset
<1>2. QED
  BY <1>1, FS_CardinalityType DEF At

\* The invariant in terms of these numbers.
LEMMA InTermsOfAt ==
  /\ NoLostWakeup <=>
       (signal_free_sl > 0 =>
          count + (At(pushPc, "wait") - signal_free_sl) + At(pushPc, "retry") >= Limit)
  /\ DataSignalled <=>
       LET units == data_avail + At(pushPc, "signal")
                      + (IF takePc[Popper] = "take" THEN 1 ELSE 0)
       IN  units >= count /\ (use = "input" => units = count)
  /\ WaitersCounted <=>
       At(pushPc, "wait") = signal_free_sl + free_sl + Cardinality(Posts)
BY DEF NoLostWakeup, DataSignalled, WaitersCounted, Waiting, Retrying, Signalling, At

LEMMA InTermsOfAtPrimed ==
  /\ NoLostWakeup' <=>
       (signal_free_sl' > 0 =>
          count' + (At(pushPc', "wait") - signal_free_sl') + At(pushPc', "retry") >= Limit)
  /\ DataSignalled' <=>
       LET units == data_avail' + At(pushPc', "signal")
                      + (IF takePc'[Popper] = "take" THEN 1 ELSE 0)
       IN  units >= count' /\ (use' = "input" => units = count')
  /\ WaitersCounted' <=>
       At(pushPc', "wait") = signal_free_sl' + free_sl' + Cardinality(Posts')
BY DEF NoLostWakeup, DataSignalled, WaitersCounted, Waiting, Retrying, Signalling, At

LEMMA QueueStep == QueueInv /\ [Next]_vars => QueueInv'
<1> SUFFICES ASSUME QueueInv, [Next]_vars PROVE QueueInv'
  OBVIOUS
<1> USE QueueAssumption
<1>0. TypeOK
  BY DEF QueueInv
<1>p. IsFiniteSet(Posts) /\ Cardinality(Posts) \in Nat
  BY FS_CardinalityType DEF QueueInv
<1>a. ASSUME NEW w \in Writers, Push(w) PROVE QueueInv'
  <2>1. pushPc[w] # "enter" /\ pushPc[w] = "idle" /\ pushPc' = [pushPc EXCEPT ![w] = "enter"]
    BY <1>a DEF Push
  <2>2. TypeOK'
    BY <1>a, <1>0 DEF TypeOK, Push
  <2>3. \A x \in {"wait", "retry", "signal"} :
          /\ At(pushPc, x) \in Nat
          /\ At(pushPc', x) = IF x = "enter" THEN At(pushPc, x) + 1
                              ELSE IF x = pushPc[w] THEN At(pushPc, x) - 1
                              ELSE At(pushPc, x)
    BY <1>0, <2>1, WriterMoves
  <2>4. Posts' = Posts
    BY <1>a DEF Push, Posts
  <2>5. QED
    BY <1>0, <1>a, <1>p, <2>1, <2>2, <2>3, <2>4, InTermsOfAt, InTermsOfAtPrimed DEF QueueInv, Push
<1>b. ASSUME NEW w \in Writers, Enqueue(w) PROVE QueueInv'
  <2>1. pushPc[w] \in {"enter", "retry"} /\ pushPc' = [pushPc EXCEPT ![w] = "signal"]
    BY <1>b DEF Enqueue
  <2>2. TypeOK'
    BY <1>b, <1>0 DEF TypeOK, Enqueue
  <2>3. \A x \in {"wait", "retry", "signal"} :
          /\ At(pushPc, x) \in Nat
          /\ At(pushPc', x) = IF x = "signal" THEN At(pushPc, x) + 1
                              ELSE IF x = pushPc[w] THEN At(pushPc, x) - 1
                              ELSE At(pushPc, x)
    BY <1>0, <2>1, WriterMoves, ZenonT(40)
  <2>4. Posts' = Posts
    BY <1>b DEF Enqueue, Posts
  <2>5. QED
    BY <1>0, <1>b, <1>p, <2>1, <2>2, <2>3, <2>4, InTermsOfAt, InTermsOfAtPrimed
    DEF QueueInv, Enqueue, HasRoom, TypeOK
<1>c. ASSUME NEW w \in Writers, Register(w) PROVE QueueInv'
  <2>1. pushPc[w] \in {"enter", "retry"} /\ pushPc' = [pushPc EXCEPT ![w] = "wait"]
    BY <1>c DEF Register
  <2>2. TypeOK'
    BY <1>c, <1>0 DEF TypeOK, Register
  <2>3. \A x \in {"wait", "retry", "signal"} :
          /\ At(pushPc, x) \in Nat
          /\ At(pushPc', x) = IF x = "wait" THEN At(pushPc, x) + 1
                              ELSE IF x = pushPc[w] THEN At(pushPc, x) - 1
                              ELSE At(pushPc, x)
    BY <1>0, <2>1, WriterMoves, ZenonT(40)
  <2>4. Posts' = Posts
    BY <1>c DEF Register, Posts
  <2>5. At(pushPc, "wait") >= signal_free_sl
    BY <1>0, <1>p, InTermsOfAt DEF QueueInv, TypeOK
  <2>6. At(pushPc', "wait") = At(pushPc, "wait") + 1 /\ At(pushPc', "retry") \in Nat
    BY <1>0, <2>1, WriterMoves
  <2>7. NoLostWakeup'
    BY <1>0, <1>c, <2>3, <2>5, <2>6, InTermsOfAtPrimed DEF Register, HasRoom, TypeOK
  <2>8. DataSignalled' /\ WaitersCounted'
    BY <1>0, <1>c, <1>p, <2>1, <2>3, <2>4, InTermsOfAt, InTermsOfAtPrimed
    DEF QueueInv, Register, TypeOK
  <2>9. QED
    BY <1>c, <1>p, <2>2, <2>4, <2>7, <2>8 DEF QueueInv, Register, HasRoom
<1>d. ASSUME NEW w \in Writers, Wake(w) PROVE QueueInv'
  <2>1. pushPc[w] = "wait" /\ pushPc' = [pushPc EXCEPT ![w] = "retry"]
    BY <1>d DEF Wake
  <2>2. TypeOK'
    BY <1>d, <1>0 DEF TypeOK, Wake
  <2>3. \A x \in {"wait", "retry", "signal"} :
          /\ At(pushPc, x) \in Nat
          /\ At(pushPc', x) = IF x = "retry" THEN At(pushPc, x) + 1
                              ELSE IF x = pushPc[w] THEN At(pushPc, x) - 1
                              ELSE At(pushPc, x)
    BY <1>0, <2>1, WriterMoves
  <2>4. Posts' = Posts
    BY <1>d DEF Wake, Posts
  <2>5. QED
    BY <1>0, <1>d, <1>p, <2>1, <2>2, <2>3, <2>4, InTermsOfAt, InTermsOfAtPrimed
    DEF QueueInv, Wake, TypeOK
<1>e. ASSUME NEW w \in Writers, SignalData(w) PROVE QueueInv'
  <2>1. pushPc[w] = "signal" /\ pushPc' = [pushPc EXCEPT ![w] = "idle"]
    BY <1>e DEF SignalData
  <2>2. TypeOK'
    BY <1>e, <1>0 DEF TypeOK, SignalData
  <2>3. \A x \in {"wait", "retry", "signal"} :
          /\ At(pushPc, x) \in Nat
          /\ At(pushPc', x) = IF x = "idle" THEN At(pushPc, x) + 1
                              ELSE IF x = pushPc[w] THEN At(pushPc, x) - 1
                              ELSE At(pushPc, x)
    BY <1>0, <2>1, WriterMoves, ZenonT(40)
  <2>4. Posts' = Posts
    BY <1>e DEF SignalData, Posts
  <2>5. QED
    BY <1>0, <1>e, <1>p, <2>1, <2>2, <2>3, <2>4, InTermsOfAt, InTermsOfAtPrimed
    DEF QueueInv, SignalData, TypeOK
<1>f. ASSUME Pop PROVE QueueInv'
  <2>1. TypeOK'
    BY <1>f, <1>0 DEF TypeOK, Pop, PopWait, PopNothing, PopTake, ToSignal, Takers
  <2>2. UNCHANGED <<use, free_sl, pushPc>> /\ Popper \in Takers
    BY <1>f DEF Pop, PopWait, PopNothing, PopTake, Takers
  <2>3. CASE PopWait \/ PopNothing
    <3>1. Posts' = Posts
      BY <2>3 DEF PopWait, PopNothing, Posts
    <3>2. QED
      BY <1>0, <2>1, <2>2, <2>3, <3>1, NumbersUnchanged, InTermsOfAt, InTermsOfAtPrimed
      DEF QueueInv, PopWait, PopNothing, TypeOK
  <2>4. CASE PopTake
    <3>1. /\ signalFreeSlots[Popper] = 0
          /\ ToSignal(count - 1) \in Nat /\ ToSignal(count - 1) <= signal_free_sl
      BY <1>0, <2>2, <2>4 DEF QueueInv, PopTake, ToSignal, TypeOK
    <3>2. IsFiniteSet(Posts') /\ Cardinality(Posts') = Cardinality(Posts) + ToSignal(count - 1)
      BY <1>0, <1>p, <2>2, <2>4, <3>1, PostsAdded DEF PopTake
    <3>3. \A t \in Takers : takePc'[t] # "free" => signalFreeSlots'[t] = 0
      BY <1>0, <2>2, <2>4 DEF QueueInv, PopTake, TypeOK
    <3>4. QED
      BY <1>0, <1>p, <2>1, <2>2, <2>4, <3>1, <3>2, <3>3,
         NumbersUnchanged, InTermsOfAt, InTermsOfAtPrimed
      DEF QueueInv, PopTake, ToSignal, TypeOK
  <2>5. QED
    BY <1>f, <2>3, <2>4 DEF Pop
<1>g. ASSUME NEW t \in Removers, RemoveData(t) PROVE QueueInv'
  <2>1. PICK removed \in 1 .. count :
          /\ count' = count - removed
          /\ signal_free_sl' = signal_free_sl - ToSignalAll(removed)
          /\ signalFreeSlots' = [signalFreeSlots EXCEPT ![t] = ToSignalAll(removed)]
    BY <1>g DEF RemoveData
  <2>2. use = "output" /\ count <= Limit /\ t \in Takers /\ signalFreeSlots[t] = 0
    BY <1>g DEF RemoveData, QueueInv, Takers
  <2>3. /\ ToSignalAll(removed) \in Nat
        /\ ToSignalAll(removed) <= signal_free_sl
        /\ signal_free_sl > ToSignalAll(removed) => ToSignalAll(removed) = removed
    BY <1>0, <2>2, ToSignalAllType DEF TypeOK
  <2>4. TypeOK'
    BY <1>g, <1>0, <2>1, <2>2, <2>3 DEF TypeOK, RemoveData
  <2>5. UNCHANGED <<use, data_avail, free_sl, pushPc>> /\ takePc'[Popper] = takePc[Popper]
    BY <1>g, <1>0 DEF RemoveData, TypeOK, Takers
  <2>6. IsFiniteSet(Posts') /\ Cardinality(Posts') = Cardinality(Posts) + ToSignalAll(removed)
    BY <1>0, <1>p, <2>1, <2>2, <2>3, PostsAdded
  <2>7. \A u \in Takers : takePc'[u] # "free" => signalFreeSlots'[u] = 0
    BY <1>0, <1>g, <2>1, <2>2 DEF QueueInv, RemoveData, TypeOK
  <2>8. QED
    BY <1>0, <1>p, <2>1, <2>2, <2>3, <2>4, <2>5, <2>6, <2>7,
       NumbersUnchanged, InTermsOfAt, InTermsOfAtPrimed
    DEF QueueInv, TypeOK
<1>h. ASSUME NEW t \in Takers, Taker(t) PROVE QueueInv'
  <2>1. TypeOK'
    BY <1>h, <1>0 DEF TypeOK, Taker, SignalFree, TakeReturns
  <2>2. /\ UNCHANGED <<use, count, data_avail, signal_free_sl, pushPc>>
        /\ (takePc'[Popper] = "take") = (takePc[Popper] = "take")
    BY <1>h, <1>0 DEF Taker, SignalFree, TakeReturns, TypeOK, Takers
  <2>3. \A u \in Takers : takePc'[u] # "free" => signalFreeSlots'[u] = 0
    BY <1>0, <1>h DEF QueueInv, Taker, SignalFree, TakeReturns, TypeOK
  <2>4. IsFiniteSet(Posts') /\ Cardinality(Posts') \in Nat
    <3>1. CASE SignalFree(t)
      BY <1>0, <1>p, <3>1, PostMade, FS_CardinalityType DEF SignalFree
    <3>2. CASE TakeReturns(t)
      BY <1>p, <3>2 DEF TakeReturns, Posts
    <3>3. QED
      BY <1>h, <3>1, <3>2 DEF Taker
  <2>5. free_sl' + Cardinality(Posts') = free_sl + Cardinality(Posts)
    <3>1. CASE SignalFree(t)
      <4>1. Cardinality(Posts') = Cardinality(Posts) - 1
        BY <1>0, <1>p, <3>1, PostMade DEF SignalFree
      <4>2. QED
        BY <1>0, <1>p, <3>1, <4>1 DEF SignalFree, TypeOK
    <3>2. CASE TakeReturns(t)
      BY <3>2 DEF TakeReturns, Posts
    <3>3. QED
      BY <1>h, <3>1, <3>2 DEF Taker
  <2>6. free_sl' \in Nat
    BY <2>1 DEF TypeOK
  <2>7. At(pushPc', "wait") = signal_free_sl' + free_sl' + Cardinality(Posts')
    BY <1>0, <1>p, <2>2, <2>4, <2>5, <2>6, NumbersUnchanged, InTermsOfAt DEF QueueInv, TypeOK
  <2>8. QED
    BY <1>0, <2>1, <2>2, <2>3, <2>4, <2>7, NumbersUnchanged, InTermsOfAt, InTermsOfAtPrimed
    DEF QueueInv
<1>i. CASE UNCHANGED vars
  <2>1. Posts' = Posts
    BY <1>i DEF vars, Posts
  <2>2. QED
    BY <1>i, <1>0, <2>1, NumbersUnchanged, InTermsOfAt, InTermsOfAtPrimed
    DEF QueueInv, TypeOK, vars
<1>j. QED
  BY <1>a, <1>b, <1>c, <1>d, <1>e, <1>f, <1>g, <1>h, <1>i DEF Next, Writer

-----------------------------------------------------------------------------
THEOREM QueueInvariance == Spec => []QueueInv
BY QueueInit, QueueStep, PTL DEF Spec

\* The variables keep their types: no semaphore's count and no length below 0.
THEOREM TypeCorrect == Spec => []TypeOK
<1>1. QueueInv => TypeOK
  BY DEF QueueInv
<1>2. QED
  BY <1>1, QueueInvariance, PTL

\* No lost wakeup, for any number of writers and removers and any limit: a
\* free slot always has a writer on its way while a writer waits.
THEOREM WakeupsKept == Spec => []NoLostWakeup
<1>1. QueueInv => NoLostWakeup
  BY DEF QueueInv
<1>2. QED
  BY <1>1, QueueInvariance, PTL

\* No post of free_sl is lost, and none is left over.
THEOREM PostsCounted == Spec => []WaitersCounted
<1>1. QueueInv => WaitersCounted
  BY DEF QueueInv
<1>2. QED
  BY <1>1, QueueInvariance, PTL

\* Every buffer in the list has its unit of data_avail, and the collator's
\* blocking pop never returns nothing.
THEOREM BuffersSignalled == Spec => []DataSignalled
<1>1. QueueInv => DataSignalled
  BY DEF QueueInv
<1>2. QED
  BY <1>1, QueueInvariance, PTL
=============================================================================
