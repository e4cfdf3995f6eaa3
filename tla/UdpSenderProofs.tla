--------------------------- MODULE UdpSenderProofs ---------------------------
(* Proofs about UdpSender, for every number of threads, queue limit, window *)
(* and setting.  SenderInv is inductive; the properties follow from it.     *)
EXTENDS UdpSender, CountingLemmas

-----------------------------------------------------------------------------
\* Flow numbers stay in range and never take the null value.
LEMMA NextFlowSeqType ==
  ASSUME NEW s \in FlowSeq
  PROVE  NextFlowSeq(s) \in FlowSeqId
BY FlowModAssumption DEF FlowSeq, FlowSeqId, NextFlowSeq

\* The allowance of a permit is a number the permit's own maximum bounds, and
\* sending that many new packets leaves every unacknowledged packet within
\* TrackerBits of the next sequence number.
LEMMA AllowanceFits ==
  ASSUME NEW max \in 0 .. MaxPermit,
         NEW unacked \in SUBSET Nat, IsFiniteSet(unacked),
         NEW resending \in SUBSET unacked,
         nextSend \in Nat,
         \A s \in unacked : s < nextSend /\ nextSend - s <= TrackerBits
  PROVE  /\ NewAllowed(max, resending, unacked) \in Nat
         /\ NewAllowed(max, resending, unacked) <= max
         /\ \A s \in unacked :
              nextSend + NewAllowed(max, resending, unacked) - s <= TrackerBits
<1> USE SizeAssumption
<1> DEFINE space == IF Cardinality(resending) <= max
                      THEN max - Cardinality(resending) ELSE 0
           inflight == nextSend - Min(unacked)
<1>1. Cardinality(resending) \in Nat
  BY FS_Subset, FS_CardinalityType
<1>2. space \in Nat /\ space <= max
  BY <1>1
<1>3. CASE unacked = {}
  BY <1>2, <1>3 DEF NewAllowed
<1>4. CASE unacked # {}
  <2>1. /\ Min(unacked) \in unacked
        /\ \A t \in unacked : Min(unacked) <= t
    BY <1>4, MinNat
  <2>2. inflight \in Nat /\ inflight <= TrackerBits
    <3>1. /\ Min(unacked) \in Nat
          /\ Min(unacked) < nextSend
          /\ nextSend - Min(unacked) <= TrackerBits
      BY <2>1
    <3>2. QED
      BY <3>1
  <2>3. /\ NewAllowed(max, resending, unacked) \in Nat
        /\ NewAllowed(max, resending, unacked) <= max
        /\ NewAllowed(max, resending, unacked) <= TrackerBits - inflight
    <3>1. NewAllowed(max, resending, unacked) =
            IF space <= TrackerBits - inflight THEN space ELSE TrackerBits - inflight
      BY <1>4 DEF NewAllowed
    <3> HIDE DEF space, inflight
    <3>2. QED
      BY <1>2, <2>2, <3>1
  <2>4. ASSUME NEW s \in unacked
        PROVE  nextSend + NewAllowed(max, resending, unacked) - s <= TrackerBits
    <3>1. Min(unacked) <= s /\ Min(unacked) \in Nat /\ s \in Nat
      BY <2>1
    <3>2. QED
      BY <2>3, <3>1, <2>2 DEF inflight
  <2>5. QED
    BY <2>3, <2>4
<1>5. QED
  BY <1>3, <1>4

-----------------------------------------------------------------------------
(* The inductive invariant, action by action.                              *)

LEMMA InitInv == Init => SenderInv
<1> SUFFICES ASSUME Init PROVE SenderInv
  OBVIOUS
<1> USE DEF Init
<1>1. TypeOK
  <2>1. 0 \in FlowSeq /\ 0 \in 0 .. QueueLimit /\ 0 \in 0 .. MaxRequestDeadTimeouts
    BY SizeAssumption, FlowModAssumption DEF FlowSeq
  <2>2. IsFiniteSet(resendList) /\ IsFiniteSet(fresh)
    BY FS_EmptySet
  <2>3. /\ pushPc \in [Pushers -> {"idle", "count", "request"}]
        /\ abortPc \in [Aborters -> {"idle", "resend", "removeSome", "remove",
                                     "subtractSome", "subtract", "lock", "clear"}]
        /\ removed \in [Aborters -> Nat]
    OBVIOUS
  <2>4. permitQ \in Permit \cup {NoPermit} /\ resendList \in SUBSET Nat
    OBVIOUS
  <2>5. activeCrit \in Aborters \cup {SendThread, NoThread}
    OBVIOUS
  <2>6. resend \in SUBSET Nat /\ fresh \in SUBSET Nat
    OBVIOUS
  <2>7. requested \in BOOLEAN /\ aborted \in BOOLEAN /\ dataRemaining \in BOOLEAN
    OBVIOUS
  <2>8. QED
    BY <2>1, <2>2, <2>3, <2>4, <2>5, <2>6, <2>7 DEF TypeOK
<1>2. TimeoutInv
  BY SizeAssumption DEF TimeoutInv
<1>3. CritInv
  BY DEF CritInv
<1>4. CoverInv
  BY DEF CoverInv, DataIsRequested
<1>5. WindowInv
  BY DEF WindowInv
<1>6. QED
  BY <1>1, <1>2, <1>3, <1>4, <1>5 DEF SenderInv

\* Steps that leave the send thread and the resend list alone keep the window.
LEMMA WindowUnchanged ==
  ASSUME WindowInv, UNCHANGED sendVars
  PROVE  WindowInv'
BY DEF WindowInv, sendVars

LEMMA PushEnqueueStep ==
  ASSUME SenderInv, NEW p \in Pushers, PushEnqueue(p)
  PROVE  SenderInv'
<1> USE DEF SenderInv, PushEnqueue, flowVars, sendVars, abortVars, recvVars
<1>1. TypeOK'
  BY SizeAssumption DEF TypeOK
<1>2. TimeoutInv' /\ CritInv'
  BY DEF TimeoutInv, CritInv
<1>3. CoverInv'
  BY DEF CoverInv, DataIsRequested, WillRequest, TypeOK
<1>4. WindowInv'
  BY WindowUnchanged
<1>5. QED
  BY <1>1, <1>2, <1>3, <1>4

LEMMA PushCountStep ==
  ASSUME SenderInv, NEW p \in Pushers, PushCount(p)
  PROVE  SenderInv'
<1> USE DEF SenderInv, PushCount, flowVars, sendVars, abortVars, recvVars
<1>1. TypeOK'
  BY DEF TypeOK
<1>2. TimeoutInv' /\ CritInv'
  BY DEF TimeoutInv, CritInv
<1>3. CoverInv'
  \* The only step that raises packetsQueued: from 0 to 1 it leaves p behind
  \* to make the request, above that it disturbs nothing.
  <2>1. packetsQueued' > 0 => WillRequest' \/ (packetsQueued > 0 /\ (WillRequest => WillRequest'))
    BY DEF TypeOK, WillRequest
  <2>2. QED
    BY <2>1 DEF CoverInv, DataIsRequested
<1>4. WindowInv'
  BY WindowUnchanged
<1>5. QED
  BY <1>1, <1>2, <1>3, <1>4

LEMMA PushRequestStep ==
  ASSUME SenderInv, NEW p \in Pushers, PushRequest(p)
  PROVE  SenderInv'
<1> USE DEF SenderInv, PushRequest, queueVars, sendVars, abortVars, recvVars
<1>1. TypeOK'
  <2>1. activeFlow' \in FlowSeq
    BY NextFlowSeqType DEF TypeOK, FlowSeq, FlowSeqId
  <2>2. QED
    BY <2>1 DEF TypeOK
<1>2. TimeoutInv' /\ CritInv'
  BY DEF TimeoutInv, CritInv
<1>3. CoverInv'
  \* activeCrit is free, so nobody is about to clear requestExpiryTime.
  <2>1. sendPc # "finish" /\ \A t \in Aborters : abortPc[t] # "clear"
    BY ThreadAssumption DEF CritInv
  <2>2. QED
    BY <2>1 DEF CoverInv, DataIsRequested
<1>4. WindowInv'
  BY WindowUnchanged
<1>5. QED
  BY <1>1, <1>2, <1>3, <1>4

LEMMA AbortDataStep ==
  ASSUME SenderInv, NEW t \in Removers, AbortData(t)
  PROVE  SenderInv'
<1> USE DEF SenderInv, AbortData, StartRemove, queueVars, flowVars, sendVars, recvVars
<1>1. TypeOK'
  BY DEF TypeOK, Aborters
<1>2. TimeoutInv' /\ CritInv'
  BY ThreadAssumption DEF TimeoutInv, CritInv
<1>3. CoverInv'
  BY ThreadAssumption DEF CoverInv, DataIsRequested, WillRequest
<1>4. WindowInv'
  BY WindowUnchanged
<1>5. QED
  BY <1>1, <1>2, <1>3, <1>4

LEMMA AbortAllStep ==
  ASSUME SenderInv, NEW t \in Removers, AbortAll(t)
  PROVE  SenderInv'
<1> USE DEF SenderInv, AbortAll, StartRemove, queueVars, sendVars, recvVars
<1>1. TypeOK'
  BY SizeAssumption DEF TypeOK, Aborters
<1>2. TimeoutInv' /\ CritInv'
  BY SizeAssumption, ThreadAssumption DEF TimeoutInv, CritInv
<1>3. CoverInv'
  BY ThreadAssumption DEF CoverInv, DataIsRequested, WillRequest
<1>4. WindowInv'
  BY WindowUnchanged
<1>5. QED
  BY <1>1, <1>2, <1>3, <1>4

LEMMA RemoveQueuedStep ==
  ASSUME SenderInv, NEW t \in Aborters, RemoveQueued(t)
  PROVE  SenderInv'
<1> USE DEF SenderInv, RemoveQueued, StartRemove, flowVars, sendVars, recvVars
<1>1. TypeOK'
  BY SizeAssumption DEF TypeOK
<1>2. TimeoutInv' /\ CritInv'
  <2>1. \A u \in Aborters :
           /\ abortPc'[u] = "clear" => abortPc[u] = "clear"
           /\ abortPc[u] = "resend" => abortPc'[u] = "resend"
    BY DEF TypeOK
  <2>2. timeouts' = timeouts /\ sendPc' = sendPc /\ activeCrit' = activeCrit
    OBVIOUS
  <2>3. ResendThread \in Aborters
    BY DEF Aborters
  <2> HIDE DEF RemoveQueued
  <2>4. TimeoutInv'
    BY <2>1, <2>2, <2>3 DEF TimeoutInv
  <2>5. CritInv'
    BY <2>1, <2>2 DEF CritInv
  <2>6. QED
    BY <2>4, <2>5
<1>3. CoverInv'
  <2>1. \A u \in Aborters : abortPc'[u] = "clear" => abortPc[u] = "clear"
    BY DEF TypeOK
  <2>2. QED
    BY <2>1 DEF CoverInv, DataIsRequested, WillRequest
<1>4. WindowInv'
  BY WindowUnchanged
<1>5. QED
  BY <1>1, <1>2, <1>3, <1>4

LEMMA RemoveCountStep ==
  ASSUME SenderInv, NEW t \in Aborters, RemoveCount(t)
  PROVE  SenderInv'
<1> USE DEF SenderInv, RemoveCount, AfterRemoval, StartRemove, flowVars, sendVars, recvVars
<1>1. TypeOK'
  BY DEF TypeOK
<1>2. TimeoutInv' /\ CritInv'
  BY DEF TimeoutInv, CritInv, TypeOK, Aborters
<1>3. CoverInv'
  <2>1. packetsQueued' <= packetsQueued /\ packetsQueued' \in Int /\ packetsQueued \in Int
    BY DEF TypeOK
  <2>2. packetsQueued' > 0 => packetsQueued > 0
    BY <2>1
  <2>3. \A u \in Aborters : abortPc'[u] = "clear" => abortPc[u] = "clear"
    BY DEF TypeOK
  <2>4. QED
    BY <2>2, <2>3 DEF CoverInv, DataIsRequested, WillRequest
<1>4. WindowInv'
  BY WindowUnchanged
<1>5. QED
  BY <1>1, <1>2, <1>3, <1>4

LEMMA AbortTestStep ==
  ASSUME SenderInv, NEW t \in Aborters, AbortTest(t)
  PROVE  SenderInv'
<1> USE DEF SenderInv, AbortTest, NothingQueued, StartRemove, queueVars, flowVars, sendVars, recvVars
<1>1. TypeOK'
  BY DEF TypeOK
<1>2. TimeoutInv' /\ CritInv'
  BY ThreadAssumption DEF TimeoutInv, CritInv, TypeOK, Aborters
<1>3. CoverInv'
  \* t goes on to clear requestExpiryTime only with packetsQueued = 0.
  BY DEF CoverInv, DataIsRequested, WillRequest, TypeOK
<1>4. WindowInv'
  BY WindowUnchanged
<1>5. QED
  BY <1>1, <1>2, <1>3, <1>4

LEMMA AbortClearStep ==
  ASSUME SenderInv, NEW t \in Aborters, AbortClear(t)
  PROVE  SenderInv'
<1> USE DEF SenderInv, AbortClear, StartRemove, queueVars, sendVars, recvVars
<1>1. TypeOK'
  BY ThreadAssumption DEF TypeOK
<1>2. TimeoutInv' /\ CritInv'
  BY ThreadAssumption DEF TimeoutInv, CritInv, TypeOK, Aborters
<1>3. CoverInv'
  BY DEF CoverInv, DataIsRequested, WillRequest, TypeOK
<1>4. WindowInv'
  BY WindowUnchanged
<1>5. QED
  BY <1>1, <1>2, <1>3, <1>4

LEMMA TimerExpiresStep ==
  ASSUME SenderInv, TimerExpires
  PROVE  SenderInv'
<1> USE DEF SenderInv, TimerExpires, StartRemove, queueVars, sendVars, recvVars
<1>1. TypeOK'
  <2>1. timeouts' \in 0 .. MaxRequestDeadTimeouts
    BY SizeAssumption DEF TypeOK, TimeoutInv
  <2>2. QED
    BY <2>1 DEF TypeOK
<1>2. TimeoutInv' /\ CritInv'
  BY DEF TimeoutInv, CritInv, TypeOK, Aborters
<1>3. CoverInv'
  BY DEF CoverInv, DataIsRequested, WillRequest, TypeOK
<1>4. WindowInv'
  BY WindowUnchanged
<1>5. QED
  BY <1>1, <1>2, <1>3, <1>4

LEMMA TimerResendStep ==
  ASSUME SenderInv, TimerResend
  PROVE  SenderInv'
<1> USE DEF SenderInv, TimerResend, TooManyTimeouts, StartRemove, queueVars, sendVars, recvVars
<1>1. TypeOK'
  BY SizeAssumption DEF TypeOK, Aborters
<1>2. TimeoutInv' /\ CritInv'
  BY SizeAssumption, ThreadAssumption DEF TimeoutInv, CritInv, TypeOK, Aborters
<1>3. CoverInv'
  BY DEF CoverInv, DataIsRequested, WillRequest, TypeOK
<1>4. WindowInv'
  BY WindowUnchanged
<1>5. QED
  BY <1>1, <1>2, <1>3, <1>4

LEMMA ReceivePermitStep ==
  ASSUME SenderInv, NEW permit \in PossiblePermit, ReceivePermit(permit)
  PROVE  SenderInv'
<1> USE DEF SenderInv, ReceivePermit, queueVars, flowVars, sendVars, abortVars
<1>1. TypeOK'
  <2>1. permit \in Permit
    BY DEF PossiblePermit, Permit, TypeOK
  <2>2. permitQ' \in Permit \cup {NoPermit}
    BY <2>1 DEF MergePermit, TypeOK
  <2>3. notePending' \in FlowSeq
    BY <2>1 DEF Permit, FlowSeq, FlowSeqId
  <2>4. QED
    BY <2>2, <2>3 DEF TypeOK
<1>2. TimeoutInv' /\ CritInv'
  BY DEF TimeoutInv, CritInv
<1>3. CoverInv'
  BY DEF CoverInv, DataIsRequested, WillRequest
<1>4. WindowInv'
  BY WindowUnchanged
<1>5. QED
  BY <1>1, <1>2, <1>3, <1>4

LEMMA NotePermitStep ==
  ASSUME SenderInv, NotePermit
  PROVE  SenderInv'
<1> USE DEF SenderInv, NotePermit, queueVars, sendVars, abortVars
<1>1. TypeOK'
  BY SizeAssumption, FlowModAssumption DEF TypeOK, FlowSeq
<1>2. TimeoutInv' /\ CritInv'
  BY SizeAssumption DEF TimeoutInv, CritInv
<1>3. CoverInv'
  BY DEF CoverInv, DataIsRequested, WillRequest
<1>4. WindowInv'
  BY WindowUnchanged
<1>5. QED
  BY <1>1, <1>2, <1>3, <1>4

LEMMA ReceiveAckStep ==
  ASSUME SenderInv, ReceiveAck
  PROVE  SenderInv'
<1> USE DEF SenderInv, ReceiveAck, queueVars, sendVars, abortVars, recvVars
<1>1. TypeOK'
  BY SizeAssumption DEF TypeOK
<1>2. TimeoutInv' /\ CritInv'
  BY SizeAssumption DEF TimeoutInv, CritInv
<1>3. CoverInv'
  BY DEF CoverInv, DataIsRequested, WillRequest
<1>4. WindowInv'
  BY WindowUnchanged
<1>5. QED
  BY <1>1, <1>2, <1>3, <1>4

LEMMA SendAcceptStep ==
  ASSUME SenderInv, SendAccept
  PROVE  SenderInv'
<1> USE DEF SenderInv, SendAccept, queueVars, flowVars, abortVars
<1>1. CASE permitQ.flowSeq # activeFlow /\ UNCHANGED <<resendList, resend, left, sendPc>>
  <2>1. TypeOK'
    BY <1>1 DEF TypeOK
  <2>2. QED
    BY <1>1, <2>1 DEF TimeoutInv, CritInv, CoverInv, DataIsRequested, WillRequest, WindowInv
<1>2. CASE /\ resendList' = resendList \ permitQ.seen
           /\ \E missing \in IF udpResendDelay THEN SUBSET resendList' ELSE {resendList'} :
                /\ resend' = missing
                /\ left' = NewAllowed(permitQ.max, missing, resendList')
           /\ sendPc' = "gather"
  <2>1. PICK missing \in SUBSET resendList' :
          /\ resend' = missing
          /\ left' = NewAllowed(permitQ.max, missing, resendList')
    BY <1>2
  <2>2. permitQ.max \in 0 .. MaxPermit
    BY PermitAssumption DEF TypeOK, Permit
  <2>3. resendList' \in SUBSET Nat /\ IsFiniteSet(resendList')
    BY <1>2, FS_Difference DEF TypeOK
  <2>4. \A s \in resendList' : s < nextSend /\ nextSend - s <= TrackerBits
    BY <1>2 DEF WindowInv
  <2>5. /\ left' \in Nat
        /\ left' <= permitQ.max
        /\ \A s \in resendList' : nextSend + left' - s <= TrackerBits
    BY <2>1, <2>2, <2>3, <2>4, AllowanceFits DEF TypeOK
  <2>6. TypeOK'
    BY <1>2, <2>1, <2>3, <2>5 DEF TypeOK
  <2>7. TimeoutInv' /\ CritInv'
    BY <1>2 DEF TimeoutInv, CritInv
  <2>8. CoverInv'
    BY <1>2 DEF CoverInv, DataIsRequested, WillRequest
  <2>9. WindowInv'
    <3>1. left' <= TrackerBits
      BY <2>2, <2>5, SizeAssumption
    <3>2. fresh' = {} /\ nextSend' = nextSend
      BY DEF WindowInv
    <3>3. QED
      BY <1>2, <2>4, <2>5, <3>1, <3>2 DEF WindowInv
  <2>10. QED
    BY <2>6, <2>7, <2>8, <2>9
<1>3. QED
  BY <1>1, <1>2

LEMMA SendGatherStep ==
  ASSUME SenderInv, SendGather
  PROVE  SenderInv'
<1> USE DEF SenderInv, SendGather, flowVars, abortVars, recvVars
<1>1. TypeOK'
  BY SizeAssumption DEF TypeOK
<1>2. TimeoutInv' /\ CritInv'
  BY DEF TimeoutInv, CritInv
<1>3. CoverInv'
  BY DEF CoverInv, DataIsRequested, WillRequest
<1>4. WindowInv'
  BY DEF WindowInv, TypeOK
<1>5. QED
  BY <1>1, <1>2, <1>3, <1>4

LEMMA SendCountStep ==
  ASSUME SenderInv, SendCount
  PROVE  SenderInv'
<1> USE DEF SenderInv, SendCount, flowVars, abortVars, recvVars
<1>1. sendPc' \in {"gather", "transmit"}
  OBVIOUS
<1>2. nextSend \in Nat /\ nextSend' = nextSend + 1 /\ fresh' = fresh \cup {nextSend}
  BY DEF TypeOK
<1>3. left \in Nat /\ left > 0 /\ left' = left - 1 /\ left <= TrackerBits
  BY DEF TypeOK, WindowInv
<1>4. TypeOK'
  <2>1. IsFiniteSet(fresh')
    BY <1>2, FS_AddElement DEF TypeOK
  <2>2. fresh' \in SUBSET Nat /\ left' \in Nat /\ nextSend' \in Nat
    BY <1>2, <1>3 DEF TypeOK
  <2>3. QED
    BY <1>1, <2>1, <2>2 DEF TypeOK
<1>5. TimeoutInv' /\ CritInv'
  BY <1>1 DEF TimeoutInv, CritInv
<1>6. CoverInv'
  BY <1>1 DEF CoverInv, DataIsRequested, WillRequest, TypeOK
<1>7. WindowInv'
  <2>1. ASSUME NEW s \in resendList' \cup fresh'
        PROVE  /\ s < nextSend' /\ nextSend' - s <= TrackerBits
               /\ nextSend' + left' - s <= TrackerBits
    <3>1. CASE s \in resendList \cup fresh
      <4>1. s \in Nat /\ s < nextSend /\ nextSend + left - s <= TrackerBits
        BY <3>1 DEF TypeOK, WindowInv
      <4>2. QED
        BY <4>1, <1>2, <1>3, SizeAssumption
    <3>2. CASE s = nextSend
      BY <3>2, <1>2, <1>3, SizeAssumption
    <3>3. QED
      BY <3>1, <3>2, <1>2
  <2>2. left' <= TrackerBits
    BY <1>3, SizeAssumption
  <2>3. QED
    BY <1>1, <2>1, <2>2 DEF WindowInv
<1>8. QED
  BY <1>4, <1>5, <1>6, <1>7

LEMMA SendTransmitStep ==
  ASSUME SenderInv, SendTransmit
  PROVE  SenderInv'
<1> USE DEF SenderInv, SendTransmit, queueVars, abortVars, recvVars
<1>1. resendList' \subseteq resendList \cup fresh /\ IsFiniteSet(resendList')
  BY FS_Union, FS_EmptySet DEF TypeOK
<1>2. TypeOK'
  BY <1>1, FlowModAssumption DEF TypeOK, FlowSeq
<1>3. TimeoutInv' /\ CritInv'
  BY DEF TimeoutInv, CritInv
<1>4. CoverInv'
  BY DEF CoverInv, DataIsRequested, WillRequest
<1>5. WindowInv'
  BY <1>1 DEF WindowInv
<1>6. QED
  BY <1>2, <1>3, <1>4, <1>5

LEMMA SendDoneStep ==
  ASSUME SenderInv, SendDone
  PROVE  SenderInv'
<1> USE DEF SenderInv, SendDone, EnterDone, MoreToSend, queueVars, flowVars, abortVars, recvVars
<1>1. TypeOK'
  BY DEF TypeOK
<1>2. TimeoutInv' /\ CritInv'
  BY ThreadAssumption DEF TimeoutInv, CritInv
<1>3. CoverInv'
  \* Nothing remains only if packetsQueued is 0: a full resend list counts too.
  <2>1. ~dataRemaining' => packetsQueued = 0
    BY DEF CanRecord
  <2>2. QED
    BY <2>1 DEF CoverInv, DataIsRequested, WillRequest
<1>4. WindowInv'
  BY DEF WindowInv
<1>5. QED
  BY <1>1, <1>2, <1>3, <1>4

LEMMA SendFinishStep ==
  ASSUME SenderInv, SendFinish
  PROVE  SenderInv'
<1> USE DEF SenderInv, SendFinish, queueVars, abortVars, recvVars
<1>1. TypeOK'
  <2>1. activeFlow' \in FlowSeq
    BY NextFlowSeqType DEF TypeOK, FlowSeq, FlowSeqId
  <2>2. QED
    BY <2>1, FS_EmptySet, ThreadAssumption DEF TypeOK
<1>2. TimeoutInv' /\ CritInv'
  \* The send thread owns activeCrit, so no aborting thread does.
  BY ThreadAssumption DEF TimeoutInv, CritInv
<1>3. CoverInv'
  BY DEF CoverInv, DataIsRequested, WillRequest
<1>4. WindowInv'
  BY DEF WindowInv
<1>5. QED
  BY <1>1, <1>2, <1>3, <1>4

LEMMA StutterStep ==
  ASSUME SenderInv, UNCHANGED vars
  PROVE  SenderInv'
BY DEF SenderInv, vars, queueVars, flowVars, sendVars, abortVars, recvVars, TypeOK,
       TimeoutInv, CritInv, CoverInv, DataIsRequested, WillRequest, WindowInv

-----------------------------------------------------------------------------
\* SenderInv holds in every reachable state of the sender.
THEOREM SenderInvariant == Spec => []SenderInv
<1>1. Init => SenderInv
  BY InitInv
<1>2. SenderInv /\ [Next]_vars => SenderInv'
  <2> SUFFICES ASSUME SenderInv, [Next]_vars PROVE SenderInv'
    OBVIOUS
  <2>1. CASE \E p \in Pushers : Pusher(p)
    BY <2>1, PushEnqueueStep, PushCountStep, PushRequestStep DEF Pusher
  <2>2. CASE \E t \in Removers : Remover(t)
    BY <2>2, AbortDataStep, AbortAllStep DEF Remover
  <2>3. CASE \E t \in Aborters : Abort(t)
    BY <2>3, RemoveQueuedStep, RemoveCountStep, AbortTestStep, AbortClearStep DEF Abort
  <2>4. CASE Timer
    BY <2>4, TimerExpiresStep, TimerResendStep DEF Timer
  <2>5. CASE Receiver \/ NotePermit
    BY <2>5, ReceivePermitStep, NotePermitStep, ReceiveAckStep DEF Receiver
  <2>6. CASE Sending
    BY <2>6, SendAcceptStep, SendGatherStep, SendCountStep, SendTransmitStep,
       SendDoneStep, SendFinishStep DEF Sending
  <2>7. CASE UNCHANGED vars
    BY <2>7, StutterStep
  <2>8. QED
    BY <2>1, <2>2, <2>3, <2>4, <2>5, <2>6, <2>7 DEF Next
<1>3. QED
  BY <1>1, <1>2, PTL DEF Spec

\* The variables keep their types: in particular outQueue never exceeds its
\* limit and timeouts never passes the number that makes the sender give up.
THEOREM TypeCorrect == Spec => []TypeOK
<1>1. SenderInv => TypeOK
  BY DEF SenderInv
<1>2. QED
  BY <1>1, SenderInvariant, PTL

\* No queued data is ever forgotten: whatever the interleaving of pushes,
\* aborts, timeouts and permits, counted data has a request or a thread that
\* is about to make it (pushData, sendDone, abort).
THEOREM NoForgottenData == Spec => []DataIsRequested
<1>1. SenderInv => DataIsRequested
  BY DEF SenderInv, CoverInv
<1>2. QED
  BY <1>1, SenderInvariant, PTL

\* The resend list never holds two packets that share a slot, so append never
\* throws and the assertions of UdpResendList and sendData hold.
THEOREM ResendListNeverOverwritten == Spec => []ResendListFits
<1>1. SenderInv => ResendListFits
  <2> SUFFICES ASSUME SenderInv, NEW s \in resendList \cup fresh,
                      NEW t \in resendList \cup fresh
               PROVE  s - t < TrackerBits
    BY DEF ResendListFits
  <2>1. s \in Nat /\ t \in Nat /\ nextSend \in Nat
    BY DEF SenderInv, TypeOK
  <2>2. s < nextSend /\ nextSend - t <= TrackerBits
    BY DEF SenderInv, WindowInv
  <2>3. QED
    BY <2>1, <2>2, SizeAssumption
<1>2. QED
  BY <1>1, SenderInvariant, PTL
-----------------------------------------------------------------------------
(* The counter of queued packets.  CountInv is inductive relative to the    *)
(* types: a buffer is in the queue, popped, or removed and not yet counted  *)
(* off; a pusher that has not counted its buffer in makes up the difference. *)

Counter == NumberAt(Pushers, pushPc, "count")

LEMMA CountInTerms ==
  /\ PacketAccounting <=>
       packetsQueued = outQueue - Counter + Popped + Cardinality(Slots(Aborters, removed))
  /\ PacketAccounting' <=>
       packetsQueued' = outQueue' - Counter' + Popped'
                        + Cardinality(Slots(Aborters, removed'))
  /\ Removed = Slots(Aborters, removed) /\ Removed' = Slots(Aborters, removed')
BY DEF PacketAccounting, Counter, NumberAt, Uncounted, Removed, Slots

LEMMA CountTypes ==
  ASSUME TypeOK, CountInv
  PROVE  /\ Counter \in Nat /\ Popped \in Nat
         /\ IsFiniteSet(Slots(Aborters, removed))
         /\ Cardinality(Slots(Aborters, removed)) \in Nat
<1>1. Counter \in Nat
  BY ThreadAssumption, NumberAtType DEF Counter
<1>2. IsFiniteSet(Slots(Aborters, removed))
  BY CountInTerms DEF CountInv
<1>3. QED
  BY <1>1, <1>2, FS_CardinalityType DEF Popped

LEMMA CountInit == Init => CountInv
<1> SUFFICES ASSUME Init PROVE CountInv
  OBVIOUS
<1>1. Uncounted = {} /\ Removed = {} /\ Popped = 0
  BY DEF Init, Uncounted, Removed, Popped
<1>2. QED
  BY <1>1, FS_EmptySet DEF Init, CountInv, PacketAccounting

\* Steps that move no buffer and count none.
LEMMA CountUnchanged ==
  ASSUME CountInv, UNCHANGED <<queueVars, pushPc, removed>>,
         sendPc' = "count" <=> sendPc = "count",
         \A t \in Aborters : abortPc[t] \in {"subtractSome", "subtract"} => abortPc'[t] = abortPc[t]
  PROVE  CountInv'
<1>1. PacketAccounting'
  BY DEF CountInv, PacketAccounting, Uncounted, Removed, Popped, queueVars
<1>2. Removed' = Removed
  BY DEF Removed
<1>3. QED
  BY <1>1, <1>2 DEF CountInv

LEMMA PusherMoves ==
  ASSUME TypeOK, NEW p \in Pushers, NEW b, b # pushPc[p],
         pushPc' = [pushPc EXCEPT ![p] = b]
  PROVE  /\ b = "count" => Counter' = Counter + 1
         /\ pushPc[p] = "count" => Counter' = Counter - 1
<1>1. \A u \in Pushers \ {p} : pushPc'[u] = pushPc[u]
  BY DEF TypeOK
<1>2. pushPc'[p] = b
  BY DEF TypeOK
<1>3. IsFiniteSet(Pushers) /\ p \in Pushers
  BY ThreadAssumption
<1>4. CASE b = "count"
  <2>1. pushPc[p] # "count" /\ pushPc'[p] = "count"
    BY <1>2, <1>4
  <2>2. QED
    BY ONLY <1>1, <1>3, <1>4, <2>1, ThreadArrives DEF Counter
<1>5. CASE pushPc[p] = "count"
  <2>1. pushPc[p] = "count" /\ pushPc'[p] # "count" /\ b # "count"
    BY <1>2, <1>5
  <2>2. QED
    BY ONLY <1>1, <1>3, <2>1, ThreadLeaves DEF Counter
<1>6. QED
  BY <1>4, <1>5

LEMMA PusherCounts ==
  ASSUME TypeOK, CountInv, NEW p \in Pushers, Pusher(p)
  PROVE  CountInv'
<1>0. /\ packetsQueued \in Int /\ outQueue \in Int
      /\ Counter \in Nat /\ Popped \in Nat /\ Cardinality(Slots(Aborters, removed)) \in Nat
      /\ IsFiniteSet(Slots(Aborters, removed))
  BY CountTypes, SizeAssumption DEF TypeOK
<1>1. UNCHANGED <<abortPc, removed, sendPc>>
  BY DEF Pusher, PushEnqueue, PushCount, PushRequest, sendVars, abortVars
<1>2. Popped' = Popped /\ Removed' = Removed
  BY <1>1 DEF Popped, Removed
<1>3. CASE PushEnqueue(p)
  <2>1. Counter' = Counter + 1
    BY <1>3, PusherMoves DEF PushEnqueue
  <2>2. outQueue' = outQueue + 1 /\ packetsQueued' = packetsQueued
    BY <1>3 DEF PushEnqueue
  <2>3. QED
    BY <1>0, <1>1, <1>2, <2>1, <2>2, CountInTerms DEF CountInv
<1>4. CASE PushCount(p)
  <2>1. Counter' = Counter - 1
    <3>1. \E b \in {"request", "idle"} : pushPc[p] = "count" /\ pushPc' = [pushPc EXCEPT ![p] = b]
      BY <1>4 DEF PushCount
    <3>2. QED
      BY <3>1, PusherMoves
  <2>2. outQueue' = outQueue /\ packetsQueued' = packetsQueued + 1
    BY <1>4 DEF PushCount
  <2>3. QED
    BY <1>0, <1>1, <1>2, <2>1, <2>2, CountInTerms DEF CountInv
<1>5. CASE PushRequest(p)
  <2>1. Counter' = Counter
    <3>1. \A u \in Pushers : pushPc'[u] = "count" <=> pushPc[u] = "count"
      BY <1>5 DEF PushRequest, TypeOK
    <3>2. QED
      BY ONLY <3>1, ThreadElsewhere DEF Counter
  <2>2. outQueue' = outQueue /\ packetsQueued' = packetsQueued
    BY <1>5 DEF PushRequest, queueVars
  <2>3. QED
    BY <1>0, <1>1, <1>2, <2>1, <2>2, CountInTerms DEF CountInv
<1>6. QED
  BY <1>3, <1>4, <1>5 DEF Pusher

\* Removing buffers leaves as many to be counted off; counting them off ends it.
LEMMA RemovalCounts ==
  ASSUME TypeOK, CountInv, NEW t \in Aborters, RemoveQueued(t) \/ RemoveCount(t)
  PROVE  CountInv'
<1>0. /\ packetsQueued \in Int /\ outQueue \in Int
      /\ Counter \in Nat /\ Popped \in Nat /\ Cardinality(Slots(Aborters, removed)) \in Nat
      /\ IsFiniteSet(Slots(Aborters, removed))
  BY CountTypes, SizeAssumption DEF TypeOK
<1>1. UNCHANGED <<pushPc, sendPc>>
  BY DEF RemoveQueued, RemoveCount, sendVars
<1>2. Popped' = Popped /\ Counter' = Counter
  BY <1>1 DEF Popped, Counter, NumberAt
<1>3. removed[t] \in Nat /\ removed'[t] \in Nat /\ \A u \in Aborters \ {t} : removed'[u] = removed[u]
  BY DEF RemoveQueued, RemoveCount, TypeOK
<1>4. /\ IsFiniteSet(Slots(Aborters, removed'))
      /\ Cardinality(Slots(Aborters, removed')) \in Nat
      /\ Cardinality(Slots(Aborters, removed'))
           = Cardinality(Slots(Aborters, removed)) - removed[t] + removed'[t]
  BY <1>0, <1>3, SlotsChange
<1>5. CASE RemoveQueued(t)
  <2>1. removed[t] = 0
    BY <1>5 DEF RemoveQueued, CountInv
  <2>2. outQueue' = outQueue - removed'[t] /\ packetsQueued' = packetsQueued
    BY <1>5 DEF RemoveQueued
  <2>3. \A u \in Aborters : abortPc'[u] \notin {"subtractSome", "subtract"} => removed'[u] = 0
    BY <1>3, <1>5 DEF RemoveQueued, StartRemove, CountInv, TypeOK
  <2>4. QED
    BY <1>0, <1>2, <1>3, <1>4, <2>1, <2>2, <2>3, CountInTerms DEF CountInv
<1>6. CASE RemoveCount(t)
  <2>1. removed'[t] = 0
    BY <1>6 DEF RemoveCount, TypeOK
  <2>2. outQueue' = outQueue /\ packetsQueued' = packetsQueued - removed[t]
    BY <1>6 DEF RemoveCount, AfterRemoval
  <2>3. \A u \in Aborters : abortPc'[u] \notin {"subtractSome", "subtract"} => removed'[u] = 0
    BY <1>3, <1>6, <2>1 DEF RemoveCount, StartRemove, CountInv, TypeOK
  <2>4. QED
    BY <1>0, <1>2, <1>3, <1>4, <2>1, <2>2, <2>3, CountInTerms DEF CountInv
<1>7. QED
  BY <1>5, <1>6

LEMMA SendingCounts ==
  ASSUME TypeOK, CountInv, Sending
  PROVE  CountInv'
<1>0. /\ packetsQueued \in Int /\ outQueue \in Int
      /\ Counter \in Nat /\ Popped \in Nat /\ Cardinality(Slots(Aborters, removed)) \in Nat
  BY CountTypes, SizeAssumption DEF TypeOK
<1>1. UNCHANGED <<pushPc, abortPc, removed>>
  BY DEF Sending, SendAccept, SendGather, SendCount, SendTransmit, SendDone, SendFinish, abortVars
<1>2. Counter' = Counter /\ Removed' = Removed
  BY <1>1 DEF Counter, NumberAt, Removed
<1>3. CASE SendGather
  <2>1. outQueue' + Popped' = outQueue + Popped /\ packetsQueued' = packetsQueued
    BY <1>3, SizeAssumption DEF SendGather, Popped, TypeOK
  <2>2. outQueue' \in Int /\ Popped' \in Int
    BY <1>3, SizeAssumption DEF SendGather, Popped, TypeOK
  <2>3. QED
    BY <1>0, <1>1, <1>2, <2>1, <2>2, CountInTerms DEF CountInv
<1>4. CASE SendCount
  <2>1. outQueue' = outQueue /\ packetsQueued' = packetsQueued - 1 /\ Popped = 1 /\ Popped' = 0
    BY <1>4 DEF SendCount, Popped
  <2>2. QED
    BY <1>0, <1>1, <1>2, <2>1, CountInTerms DEF CountInv
<1>5. CASE SendAccept \/ SendTransmit \/ SendDone \/ SendFinish
  <2>1. (sendPc' = "count" <=> sendPc = "count") /\ UNCHANGED queueVars
    BY <1>5 DEF SendAccept, SendTransmit, SendDone, SendFinish
  <2>2. QED
    BY <1>1, <2>1, CountUnchanged
<1>6. QED
  BY <1>3, <1>4, <1>5 DEF Sending

LEMMA CountStep == TypeOK /\ CountInv /\ [Next]_vars => CountInv'
<1> SUFFICES ASSUME TypeOK, CountInv, [Next]_vars PROVE CountInv'
  OBVIOUS
<1>1. CASE \E p \in Pushers : Pusher(p)
  BY <1>1, PusherCounts
<1>2. CASE \E t \in Aborters : RemoveQueued(t) \/ RemoveCount(t)
  BY <1>2, RemovalCounts
<1>3. CASE Sending
  BY <1>3, SendingCounts
<1>4. ASSUME NEW t \in Aborters, AbortTest(t) \/ AbortClear(t) PROVE CountInv'
  BY <1>4, CountUnchanged DEF AbortTest, AbortClear, StartRemove, sendVars, TypeOK
<1>5. ASSUME NEW t \in Removers, Remover(t) PROVE CountInv'
  BY <1>5, CountUnchanged DEF Remover, AbortData, AbortAll, StartRemove, sendVars, TypeOK
<1>6. CASE Timer
  BY <1>6, CountUnchanged DEF Timer, TimerExpires, TimerResend, StartRemove, sendVars, TypeOK
<1>7. CASE NotePermit \/ Receiver \/ UNCHANGED vars
  BY <1>7, CountUnchanged DEF NotePermit, Receiver, ReceivePermit, ReceiveAck, sendVars,
     abortVars, vars
<1>8. QED
  BY <1>1, <1>2, <1>3, <1>4, <1>5, <1>6, <1>7 DEF Next, Abort

\* The counter never drifts from the queue, for any number of threads that
\* push and remove at once (pushData, removeData, popQueuedData).
THEOREM CounterMatchesQueue == Spec => []PacketAccounting
<1>1. Init => SenderInv /\ CountInv
  BY InitInv, CountInit
<1>2. CountInv => PacketAccounting
  BY DEF CountInv
<1>3. SenderInv => TypeOK
  BY DEF SenderInv
<1>4. QED
  BY <1>1, <1>2, <1>3, CountStep, SenderInvariant, PTL DEF Spec
-----------------------------------------------------------------------------
(* What may have to be resent.  Only a counter below zero lets the send     *)
(* thread pop a buffer nobody has requested permission for; elsewhere       *)
(* UnackedInv is kept.                                                      *)

LEMMA UnackedInit == Init => UnackedInv
BY DEF Init, UnackedInv

\* Steps of the other threads: a request is made before it stops being due.
LEMMA UnackedOthers ==
  ASSUME UnackedInv, UNCHANGED sendVars,
         requested \/ WillRequest \/ aborted => (requested \/ WillRequest \/ aborted)'
  PROVE  UnackedInv'
BY DEF UnackedInv, sendVars

LEMMA PusherKeepsUnacked ==
  ASSUME TypeOK, UnackedInv, NEW p \in Pushers, Pusher(p)
  PROVE  UnackedInv'
<1>1. CASE PushEnqueue(p)
  BY <1>1, UnackedOthers DEF PushEnqueue, flowVars, WillRequest, TypeOK
<1>2. CASE PushCount(p)
  BY <1>2, UnackedOthers DEF PushCount, flowVars, WillRequest, TypeOK
<1>3. CASE PushRequest(p)
  BY <1>3, UnackedOthers DEF PushRequest
<1>4. QED
  BY <1>1, <1>2, <1>3 DEF Pusher

LEMMA AborterKeepsUnacked ==
  ASSUME UnackedInv, NEW t \in Aborters, Abort(t)
  PROVE  UnackedInv'
<1>1. CASE RemoveQueued(t) \/ RemoveCount(t) \/ AbortTest(t)
  BY <1>1, UnackedOthers DEF RemoveQueued, RemoveCount, AbortTest, flowVars, WillRequest
<1>2. CASE AbortClear(t)
  BY <1>2, UnackedOthers DEF AbortClear
<1>3. QED
  BY <1>1, <1>2 DEF Abort

LEMMA SendingKeepsUnacked ==
  ASSUME SenderInv, UnackedInv, packetsQueued >= 0, Sending
  PROVE  UnackedInv'
<1> USE DEF UnackedInv, WillRequest
<1>1. CASE SendAccept
  BY <1>1 DEF SendAccept, flowVars
<1>2. CASE SendGather
  \* A buffer is popped only if packetsQueued is not 0, so it is requested.
  <2>1. sendPc' = "count" => packetsQueued > 0
    BY <1>2 DEF SendGather, SenderInv, TypeOK
  <2>2. sendPc' = "count" => requested \/ WillRequest
    BY <2>1 DEF SenderInv, CoverInv, DataIsRequested
  <2>3. QED
    BY <1>2, <2>2 DEF SendGather, flowVars
<1>3. CASE SendCount
  BY <1>3 DEF SendCount, flowVars
<1>4. CASE SendTransmit
  BY <1>4 DEF SendTransmit
<1>5. CASE SendDone
  BY <1>5 DEF SendDone, MoreToSend, flowVars
<1>6. CASE SendFinish
  BY <1>6 DEF SendFinish
<1>7. QED
  BY <1>1, <1>2, <1>3, <1>4, <1>5, <1>6 DEF Sending

LEMMA UnackedStep ==
  SenderInv /\ UnackedInv /\ packetsQueued >= 0 /\ [Next]_vars => UnackedInv'
<1> SUFFICES ASSUME SenderInv, UnackedInv, packetsQueued >= 0, [Next]_vars
             PROVE  UnackedInv'
  OBVIOUS
<1>1. CASE \E p \in Pushers : Pusher(p)
  BY <1>1, PusherKeepsUnacked DEF SenderInv
<1>2. CASE \E t \in Aborters : Abort(t)
  BY <1>2, AborterKeepsUnacked
<1>3. CASE \E t \in Removers : Remover(t)
  BY <1>3, UnackedOthers DEF Remover, AbortData, AbortAll, flowVars, WillRequest
<1>4. CASE Timer
  BY <1>4, UnackedOthers DEF Timer, TimerExpires, TimerResend, WillRequest
<1>5. CASE NotePermit \/ Receiver
  BY <1>5, UnackedOthers DEF NotePermit, Receiver, ReceivePermit, ReceiveAck, flowVars,
     WillRequest
<1>6. CASE Sending
  BY <1>6, SendingKeepsUnacked
<1>7. CASE UNCHANGED vars
  BY <1>7, UnackedOthers DEF vars, flowVars, WillRequest
<1>8. QED
  BY <1>1, <1>2, <1>3, <1>4, <1>5, <1>6, <1>7 DEF Next

\* In every behaviour in which the counter stays at zero or above, packets
\* that are not acknowledged keep a request alive, or one was withdrawn by an
\* abort (sendDone looks at resendList->numActive()).
THEOREM UnackedStayRequested ==
  Spec /\ [](packetsQueued >= 0) => []UnackedIsRequested
<1>1. Init => SenderInv /\ UnackedInv
  BY InitInv, UnackedInit
<1>2. UnackedInv => UnackedIsRequested
  BY DEF UnackedInv, UnackedIsRequested
<1>3. QED
  BY <1>1, <1>2, UnackedStep, SenderInvariant, PTL DEF Spec
=============================================================================
