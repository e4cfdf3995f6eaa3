------------------------------ MODULE UdpSender ------------------------------
(***************************************************************************)
(* The sending half of Roxie's UDP transport for ONE destination: the      *)
(* UdpReceiverEntry of roxie/udplib/udptrs.cpp and the threads of the      *)
(* CUdpSendManager that share it.                                          *)
(*                                                                         *)
(*   Pushers       the threads that call writeOwn -> pushData              *)
(*   Removers      the threads that call abortData / abortAll              *)
(*   ResendThread  send_resend_flow: repeats a request that got no answer  *)
(*   receive flow  send_receive_flow: queues permits, notes answers        *)
(*   SendThread    send_data: sends under a permit, asks for the next one  *)
(*                                                                         *)
(* Each action is a stretch of one thread's code between two accesses to   *)
(* shared state; only activeCrit orders them, where the code takes it.     *)
(* The receiver is any sequence of permits and acknowledgements.  Data      *)
(* packets are named by their sequence number, queued buffers (which have   *)
(* none yet) are counted.                                                   *)
(***************************************************************************)
EXTENDS UdpFlowTypes, FiniteSets, FiniteSetsExt

CONSTANTS
  Pushers, Removers,                 \* threads
  ResendThread, SendThread, NoThread,
  NoPermit,
  QueueLimit,                        \* output_queue limit
  TrackerBits,                       \* TRACKER_BITS: size of the resend list
  MaxPermit,                         \* largest max_data a receiver grants
  MaxRequestDeadTimeouts,            \* getMaxRequestDeadTimeout()
  MaxWrites,                         \* bound of the model: packets ever written
  udpResendLostPackets,              \* whether there is a resend list
  udpAllowAsyncPermits,              \* udpsha.cpp:79
  udpResendDelay,                    \* TRUE iff the delay (udpsha.cpp:68) is not 0
  isLocal,                           \* the destination is this node
  StalePermits                       \* permits may precede the first request

Aborters == Removers \cup {ResendThread}

ASSUME ThreadAssumption ==
  /\ ResendThread \notin Removers
  /\ SendThread \notin Aborters /\ NoThread \notin Aborters
  /\ SendThread # NoThread
  /\ IsFiniteSet(Pushers) /\ IsFiniteSet(Removers)

ASSUME SizeAssumption ==
  /\ QueueLimit \in Nat \ {0}
  /\ TrackerBits \in Nat \ {0}
  /\ MaxPermit \in Nat /\ MaxPermit <= TrackerBits  \* udptrr.cpp: maxSlotsPerClient
  /\ MaxRequestDeadTimeouts \in Nat /\ MaxRequestDeadTimeouts >= 2
  /\ MaxWrites \in Nat

ASSUME SettingAssumption ==
  /\ udpResendLostPackets \in BOOLEAN /\ udpAllowAsyncPermits \in BOOLEAN
  /\ udpResendDelay \in BOOLEAN /\ isLocal \in BOOLEAN /\ StalePermits \in BOOLEAN

\* UdpPermitToSendMsg.  seen is the receiver's PacketTracker, restricted to
\* the packets the sender still holds.
Permit == [flowSeq : FlowSeqId, max : 0 .. MaxPermit, seen : SUBSET Nat]

ASSUME PermitAssumption == NoPermit \notin Permit

VARIABLES
  outQueue,        \* buffers in output_queue
  packetsQueued,   \* UdpReceiverEntry::packetsQueued; negative = wrapped below 0
  nextSend,        \* nextSendSequence
  activeFlow,      \* activeFlowSequence
  activePermit,    \* activePermitSeq
  requested,       \* requestExpiryTime # 0
  timeouts,        \* consecutive timeouts of the current request
  activeCrit,      \* owner of activeCrit
  resendList,      \* sequence numbers of the packets the resend list holds
  permitQ,         \* the destination's entry of send_data::send_queue
  pushPc, abortPc, removed, notePending,             \* threads' positions
  sendPc, left, resend, fresh, dataRemaining,        \* ... and locals of sendData
  aborted,         \* history: requested was last cleared by an abort
  out              \* messages written to the sockets by the last step

queueVars == <<outQueue, packetsQueued>>
flowVars  == <<activeFlow, activePermit, requested, timeouts>>
sendVars  == <<nextSend, resendList, sendPc, left, resend, fresh, dataRemaining>>
abortVars == <<abortPc, removed>>
recvVars  == <<permitQ, notePending>>
vars == <<queueVars, flowVars, sendVars, abortVars, recvVars, pushPc, activeCrit,
          aborted, out>>

TypeOK ==
  /\ outQueue \in 0 .. QueueLimit
  /\ packetsQueued \in Int
  /\ nextSend \in Nat
  /\ activeFlow \in FlowSeq /\ activePermit \in FlowSeq
  /\ requested \in BOOLEAN /\ aborted \in BOOLEAN
  /\ timeouts \in 0 .. MaxRequestDeadTimeouts
  /\ activeCrit \in Aborters \cup {SendThread, NoThread}
  /\ resendList \in SUBSET Nat /\ IsFiniteSet(resendList)
  /\ permitQ \in Permit \cup {NoPermit}
  /\ pushPc \in [Pushers -> {"idle", "count", "request"}]
  /\ abortPc \in [Aborters -> {"idle", "resend", "removeSome", "remove",
                               "subtractSome", "subtract", "lock", "clear"}]
  /\ removed \in [Aborters -> Nat]
  /\ notePending \in FlowSeq
  /\ sendPc \in {"idle", "gather", "count", "transmit", "done", "finish"}
  /\ left \in Nat
  /\ resend \in SUBSET Nat
  /\ fresh \in SUBSET Nat /\ IsFiniteSet(fresh)
  /\ dataRemaining \in BOOLEAN

Init ==
  /\ outQueue = 0 /\ packetsQueued = 0 /\ nextSend = 0
  /\ activeFlow = 0 /\ activePermit = 0
  /\ requested = FALSE /\ aborted = FALSE /\ timeouts = 0
  /\ activeCrit = NoThread
  /\ resendList = {} /\ permitQ = NoPermit
  /\ pushPc = [p \in Pushers |-> "idle"]
  /\ abortPc = [t \in Aborters |-> "idle"]
  /\ removed = [t \in Aborters |-> 0]
  /\ notePending = 0
  /\ sendPc = "idle" /\ left = 0 /\ resend = {} /\ fresh = {}
  /\ dataRemaining = FALSE
  /\ out = {}

-----------------------------------------------------------------------------
(* Pushers: pushData.                                                      *)

\* A buffer popQueuedData has taken off the queue but not yet counted.
Popped == IF sendPc = "count" THEN 1 ELSE 0

\* The threads that have queued a buffer and not counted it yet.
Uncounted == {p \in Pushers : pushPc[p] = "count"}

\* pushOwnWait blocks while the queue is full.
PushEnqueue(p) ==
  /\ pushPc[p] = "idle"
  /\ nextSend + outQueue + Popped < MaxWrites                 \* bound
  /\ outQueue < QueueLimit
  /\ outQueue' = outQueue + 1
  /\ pushPc' = [pushPc EXCEPT ![p] = "count"]
  /\ out' = {}
  /\ UNCHANGED <<packetsQueued, flowVars, sendVars, abortVars, recvVars,
                 activeCrit, aborted>>

\* if (!packetsQueued++) requestToSendNew();
PushCount(p) ==
  /\ pushPc[p] = "count"
  /\ packetsQueued' = packetsQueued + 1
  /\ pushPc' = [pushPc EXCEPT ![p] = IF packetsQueued = 0 THEN "request" ELSE "idle"]
  /\ out' = {}
  /\ UNCHANGED <<outQueue, flowVars, sendVars, abortVars, recvVars, activeCrit,
                 aborted>>

\* requestToSendNew, all of it inside activeCrit.
PushRequest(p) ==
  /\ pushPc[p] = "request"
  /\ activeCrit = NoThread
  /\ pushPc' = [pushPc EXCEPT ![p] = "idle"]
  /\ requested' = TRUE
  /\ \/ /\ requested
        /\ out' = {}
        /\ UNCHANGED <<activeFlow, aborted>>
     \/ /\ ~requested
        /\ activeFlow' = NextFlowSeq(activeFlow)
        /\ aborted' = FALSE
        /\ out' = {FlowMsg("request_to_send", 0, activeFlow', nextSend)}
  /\ UNCHANGED <<queueVars, activePermit, timeouts, sendVars, abortVars, recvVars,
                 activeCrit>>

-----------------------------------------------------------------------------
(* Removers: removeData and abort.  The queue and its counter are updated  *)
(* one after the other, and only the last step takes activeCrit.           *)

StartRemove(t, next) ==
  abortPc' = [abortPc EXCEPT ![t] = next]

\* abortData: removeData of the buffers of one message.
AbortData(t) ==
  /\ abortPc[t] = "idle"
  /\ packetsQueued # 0
  /\ StartRemove(t, "removeSome")
  /\ out' = {}
  /\ UNCHANGED <<queueVars, flowVars, sendVars, removed, recvVars, pushPc,
                 activeCrit, aborted>>

\* abortAll: abort() from outside.
AbortAll(t) ==
  /\ abortPc[t] = "idle"
  /\ timeouts' = 0
  /\ StartRemove(t, IF packetsQueued # 0 THEN "remove" ELSE "lock")
  /\ out' = {}
  /\ UNCHANGED <<queueVars, activeFlow, activePermit, requested, sendVars, removed,
                 recvVars, pushPc, activeCrit, aborted>>

\* output_queue.removeData: drops what matches (everything, for abort).
RemoveQueued(t) ==
  /\ \/ /\ abortPc[t] = "removeSome"
        /\ \E n \in 0 .. outQueue : removed' = [removed EXCEPT ![t] = n]
        /\ StartRemove(t, "subtractSome")
     \/ /\ abortPc[t] = "remove"
        /\ removed' = [removed EXCEPT ![t] = outQueue]
        /\ StartRemove(t, "subtract")
  /\ outQueue' = outQueue - removed'[t]
  /\ out' = {}
  /\ UNCHANGED <<packetsQueued, flowVars, sendVars, recvVars, pushPc, activeCrit,
                 aborted>>

\* Seeded fault: the counter is set to the queue's length instead of reduced.
AfterRemoval_Assigned(t) == outQueue

\* packetsQueued -= removed;
AfterRemoval(t) == packetsQueued - removed[t]

RemoveCount(t) ==
  /\ \/ /\ abortPc[t] = "subtractSome"
        /\ StartRemove(t, "idle")
     \/ /\ abortPc[t] = "subtract"
        /\ StartRemove(t, "lock")
  /\ packetsQueued' = AfterRemoval(t)
  /\ removed' = [removed EXCEPT ![t] = 0]
  /\ out' = {}
  /\ UNCHANGED <<outQueue, flowVars, sendVars, recvVars, pushPc, activeCrit, aborted>>

\* Seeded fault: abort withdraws the request without looking at the counter.
NothingQueued_Ignored == TRUE

\* What abort tests inside activeCrit.
NothingQueued == packetsQueued = 0

\* CriticalBlock block(activeCrit); if (packetsQueued == 0) ...
\* The resend thread already owns activeCrit (it is recursive).
AbortTest(t) ==
  /\ abortPc[t] = "lock"
  /\ activeCrit \in {NoThread, t}
  /\ \/ /\ NothingQueued
        /\ activeCrit' = t
        /\ StartRemove(t, "clear")
     \/ /\ ~NothingQueued
        /\ activeCrit' = NoThread
        /\ StartRemove(t, "idle")
  /\ out' = {}
  /\ UNCHANGED <<queueVars, flowVars, sendVars, removed, recvVars, pushPc, aborted>>

\* ... requestExpiryTime = 0;
AbortClear(t) ==
  /\ abortPc[t] = "clear"
  /\ requested' = FALSE
  /\ aborted' = TRUE
  /\ activeCrit' = NoThread
  /\ StartRemove(t, "idle")
  /\ out' = {}
  /\ UNCHANGED <<queueVars, activeFlow, activePermit, timeouts, sendVars, removed,
                 recvVars, pushPc>>

-----------------------------------------------------------------------------
(* The resend thread: send_resend_flow::doRun and resendRequestToSend.     *)

\* Seeded fault: the test of the active permit is inverted.
AwaitingPermit_Inverted == activePermit # 0 /\ activePermit = activeFlow

\* No permit for the current request has been noted.
AwaitingPermit == activePermit = 0 \/ activePermit # activeFlow

\* The expiry time has passed: the clock is left to nondeterminism.
TimerExpires ==
  /\ abortPc[ResendThread] = "idle"
  /\ requested
  /\ AwaitingPermit
  /\ timeouts' = timeouts + 1
  /\ StartRemove(ResendThread, "resend")
  /\ out' = {}
  /\ UNCHANGED <<queueVars, activeFlow, activePermit, requested, sendVars, removed,
                 recvVars, pushPc, activeCrit, aborted>>

\* Seeded fault: one timeout too many before giving up.
TooManyTimeouts_OneMore == timeouts > MaxRequestDeadTimeouts

TooManyTimeouts == timeouts >= MaxRequestDeadTimeouts

\* Under activeCrit: give up after too many timeouts, else repeat the request.
TimerResend ==
  /\ abortPc[ResendThread] = "resend"
  /\ activeCrit = NoThread
  /\ \/ /\ TooManyTimeouts
        /\ activeCrit' = ResendThread
        /\ timeouts' = 0
        /\ StartRemove(ResendThread, IF packetsQueued # 0 THEN "remove" ELSE "lock")
        /\ out' = {}
     \/ /\ ~TooManyTimeouts
        /\ StartRemove(ResendThread, "idle")
        /\ out' = IF requested
                  THEN {FlowMsg("request_to_send", 0, activeFlow, nextSend)}
                  ELSE {}
        /\ UNCHANGED <<activeCrit, timeouts>>
  /\ UNCHANGED <<queueVars, activeFlow, activePermit, requested, sendVars, removed,
                 recvVars, pushPc, aborted>>

-----------------------------------------------------------------------------
(* The receive-flow thread: send_receive_flow::doRun.                      *)

\* pushPermit: a permit from the same receiver replaces the one still queued,
\* unless it is older; with room in the queue the push succeeds.
MergePermit(queued, permit) ==
  IF queued = NoPermit \/ NotOlder(permit.flowSeq, queued.flowSeq) THEN permit ELSE queued

ReceivePermit(permit) ==
  /\ notePending = 0
  /\ permitQ' = MergePermit(permitQ, permit)
  /\ notePending' = permit.flowSeq
  /\ out' = {}
  /\ UNCHANGED <<queueVars, flowVars, sendVars, abortVars, pushPc, activeCrit, aborted>>

\* notePermitReceived(notePending)
NotePermit ==
  /\ notePending # 0
  /\ notePending' = 0
  /\ IF activePermit = activeFlow
       THEN activePermit' = notePending /\ timeouts' = 0
       ELSE UNCHANGED <<activePermit, timeouts>>
  /\ out' = {}
  /\ UNCHANGED <<queueVars, activeFlow, requested, sendVars, abortVars, permitQ,
                 pushPc, activeCrit, aborted>>

\* requestAcknowledged: the new expiry time is not 0 either.
ReceiveAck ==
  /\ notePending = 0
  /\ timeouts' = 0
  /\ out' = {}
  /\ UNCHANGED <<queueVars, activeFlow, activePermit, requested, sendVars, abortVars,
                 recvVars, pushPc, activeCrit, aborted>>

-----------------------------------------------------------------------------
(* The send thread: send_data::doRun, sendData and sendDone.               *)

\* Seeded fault: only the permit limits the new packets, not the resend list.
NewAllowed_NoWindow(max, resending, unacked) ==
  IF Cardinality(resending) <= max THEN max - Cardinality(resending) ELSE 0

\* How many new packets a permit for max packets allows once resending have
\* been set aside: never so many that the resend list would be overwritten.
NewAllowed(max, resending, unacked) ==
  LET space    == IF Cardinality(resending) <= max
                    THEN max - Cardinality(resending) ELSE 0
      inflight == nextSend - Min(unacked)
  IN  IF unacked = {} \/ space <= TrackerBits - inflight
        THEN space ELSE TrackerBits - inflight

\* send_queue.pop; sendData ignores a permit that is not for the current flow.
\* noteRead releases the packets the receiver has seen and picks the missing
\* ones to resend: all of them, or those sent udpResendDelay ago.
SendAccept ==
  /\ sendPc = "idle"
  /\ permitQ # NoPermit
  /\ permitQ' = NoPermit
  /\ \/ /\ permitQ.flowSeq # activeFlow
        /\ UNCHANGED <<resendList, resend, left, sendPc>>
     \/ /\ permitQ.flowSeq = activeFlow
        /\ resendList' = resendList \ permitQ.seen
        /\ \E missing \in IF udpResendDelay THEN SUBSET resendList' ELSE {resendList'} :
             /\ resend' = missing
             /\ left' = NewAllowed(permitQ.max, missing, resendList')
        /\ sendPc' = "gather"
  /\ out' = {}
  /\ UNCHANGED <<queueVars, flowVars, nextSend, fresh, dataRemaining, abortVars,
                 notePending, pushPc, activeCrit, aborted>>

\* popQueuedData finds nothing: the data was removed, or the thread that
\* queued it has not signalled data_avail yet.
NothingToPop == outQueue <= Cardinality(Uncounted)

\* The gathering loop takes one buffer, or stops.
SendGather ==
  /\ sendPc = "gather"
  /\ \/ /\ left > 0 /\ packetsQueued # 0
        /\ outQueue > 0
        /\ outQueue' = outQueue - 1
        /\ sendPc' = "count"
        /\ UNCHANGED left
     \/ /\ left = 0 \/ packetsQueued = 0 \/ NothingToPop
        /\ sendPc' = "transmit"
        /\ left' = 0
        /\ UNCHANGED outQueue
  /\ out' = {}
  /\ UNCHANGED <<packetsQueued, flowVars, nextSend, resendList, resend, fresh,
                 dataRemaining, abortVars, recvVars, pushPc, activeCrit, aborted>>

\* packetsQueued--; header->sendSeq = nextSendSequence++;
SendCount ==
  /\ sendPc = "count"
  /\ packetsQueued' = packetsQueued - 1
  /\ nextSend' = nextSend + 1
  /\ fresh' = fresh \cup {nextSend}
  /\ left' = left - 1
  /\ sendPc' \in {"gather"} \cup (IF isLocal THEN {"transmit"} ELSE {})
  /\ out' = {}
  /\ UNCHANGED <<outQueue, flowVars, resendList, resend, dataRemaining, abortVars,
                 recvVars, pushPc, activeCrit, aborted>>

\* sendStart, the writes and resendList->append; then activePermitSeq = 0.
SendTransmit ==
  /\ sendPc = "transmit"
  /\ sendPc' = "done"
  /\ resendList' = IF udpResendLostPackets THEN resendList \cup fresh ELSE {}
  /\ activePermit' = 0
  /\ out' = IF resend \cup fresh = {} THEN {}
            ELSE {FlowMsg("send_start", Cardinality(resend \cup fresh), activeFlow,
                          nextSend)}
                 \cup {DataMsg(s, TRUE)  : s \in resend}
                 \cup {DataMsg(s, FALSE) : s \in fresh}
  /\ UNCHANGED <<queueVars, activeFlow, requested, timeouts, nextSend, left, resend,
                 fresh, dataRemaining, abortVars, recvVars, pushPc, activeCrit, aborted>>

\* resendList->canRecord(nextSendSequence)
CanRecord == resendList = {} \/ nextSend - Min(resendList) < TrackerBits

\* Seeded fault: packets waiting for an acknowledgement are not counted.
MoreToSend_QueueOnly == packetsQueued # 0 /\ CanRecord

MoreToSend == (packetsQueued # 0 /\ CanRecord) \/ resendList # {}

\* Seeded fault: the counter is read before activeCrit is entered.
EnterDone_TooLate == activeCrit = NoThread /\ UNCHANGED activeCrit

\* CLeavableCriticalBlock block(activeCrit), left in SendFinish.
EnterDone == activeCrit = NoThread /\ activeCrit' = SendThread

\* sendDone enters activeCrit and decides whether there is more to send.
SendDone ==
  /\ sendPc = "done"
  /\ EnterDone
  /\ dataRemaining' = MoreToSend
  /\ sendPc' = "finish"
  /\ out' = {}
  /\ UNCHANGED <<queueVars, flowVars, nextSend, resendList, left, resend, fresh,
                 abortVars, recvVars, pushPc, aborted>>

\* ... then closes the permit, asking for another one if so.
SendFinish ==
  LET sent == Cardinality(resend \cup fresh)
      next == NextFlowSeq(activeFlow)
  IN
  /\ sendPc = "finish"
  /\ \/ /\ dataRemaining /\ requested
        /\ activeFlow' = next
        /\ out' = IF udpAllowAsyncPermits
                  THEN {FlowMsg("send_completed", sent, activeFlow, nextSend),
                        FlowMsg("request_to_send", 0, next, nextSend)}
                  ELSE {FlowMsg("request_to_send_more", sent, activeFlow, nextSend)}
        /\ UNCHANGED requested
     \/ /\ ~(dataRemaining /\ requested)
        /\ requested' = FALSE
        /\ out' = {FlowMsg("send_completed", sent, activeFlow, nextSend)}
        /\ UNCHANGED activeFlow
  /\ activeCrit' = NoThread
  /\ sendPc' = "idle"
  /\ left' = 0 /\ resend' = {} /\ fresh' = {} /\ dataRemaining' = FALSE
  /\ UNCHANGED <<queueVars, activePermit, timeouts, nextSend, resendList, abortVars,
                 recvVars, pushPc, aborted>>

-----------------------------------------------------------------------------
\* What the receiver may say: a permit for a request it could have seen, with
\* a tracker that has seen some of the packets written so far.
PossiblePermit ==
  [flowSeq : IF activeFlow = 0 /\ ~StalePermits THEN {} ELSE FlowSeqId,
   max     : 0 .. MaxPermit,
   seen    : SUBSET (resendList \cup fresh)]

Receiver ==
  \/ \E permit \in PossiblePermit : ReceivePermit(permit)
  \/ ReceiveAck

Pusher(p) == PushEnqueue(p) \/ PushCount(p) \/ PushRequest(p)

Remover(t) == AbortData(t) \/ AbortAll(t)

Abort(t) == RemoveQueued(t) \/ RemoveCount(t) \/ AbortTest(t) \/ AbortClear(t)

Timer == TimerExpires \/ TimerResend

Sending == SendAccept \/ SendGather \/ SendCount \/ SendTransmit \/ SendDone \/ SendFinish

Next ==
  \/ \E p \in Pushers : Pusher(p)
  \/ \E t \in Removers : Remover(t)
  \/ \E t \in Aborters : Abort(t)
  \/ Timer
  \/ NotePermit
  \/ Sending
  \/ Receiver

Spec == Init /\ [][Next]_vars

\* Threads are not starved: a thread inside a call finishes it, the resend
\* thread wakes up again, and activeCrit is granted to whoever waits for it.
\* Nobody has to call writeOwn or abort, and the receiver owes nothing.
FairSpec ==
  /\ Spec
  /\ \A p \in Pushers : WF_vars(PushCount(p)) /\ SF_vars(PushRequest(p))
  /\ \A t \in Aborters : WF_vars(RemoveQueued(t) \/ RemoveCount(t) \/ AbortClear(t))
                        /\ SF_vars(AbortTest(t))
  /\ WF_vars(TimerExpires) /\ SF_vars(TimerResend)
  /\ WF_vars(NotePermit)
  /\ WF_vars(SendAccept \/ SendGather \/ SendCount \/ SendTransmit \/ SendFinish)
  /\ SF_vars(SendDone)

-----------------------------------------------------------------------------
(* Properties.                                                             *)

\* Buffers removed from the queue but still counted.
Removed == UNION {{t} \X (1 .. removed[t]) : t \in Aborters}

\* packetsQueued is the length of the queue up to the operations under way:
\* buffers queued but not counted yet, popped or removed but still counted.
\* It is the counter's only link to the queue; a mismatch that outlives those
\* operations would stop requests for ever, or make them endless.
PacketAccounting ==
  packetsQueued = outQueue - Cardinality(Uncounted) + Popped + Cardinality(Removed)

\* A thread that saw the counter leave zero and will make the request.
WillRequest == \E p \in Pushers : pushPc[p] = "request"

\* Data that is counted has a request under way, or a thread about to make
\* one.  This is the race the comment in sendDone describes: the counter must
\* be read inside activeCrit before requestExpiryTime is cleared.
DataIsRequested == packetsQueued > 0 => requested \/ WillRequest

\* The packets in the resend list and those being added to it fit in it: its
\* entries are indexed modulo TRACKER_BITS, so no unacknowledged packet is
\* overwritten, append never throws and the assertion on inflight holds.
ResendListFits ==
  \A s, t \in resendList \cup fresh : s - t < TrackerBits

\* Packets the receiver has not acknowledged keep a request alive between two
\* permits, so that they can be resent - unless an abort withdrew the request,
\* or overlapped with a push and took the counter below zero (removeData can
\* count a buffer off before pushData counts it in).
UnackedIsRequested ==
  sendPc = "idle" /\ resendList # {} => requested \/ WillRequest \/ aborted

\* Once the receiver falls silent the sender does not keep data for ever: the
\* resend thread counts the timeouts and aborts (udpRequestDeadTimeout).
ReceiverSilent == <>[][~Receiver]_vars
SilentReceiverAborts == ReceiverSilent => []<>(outQueue = 0)

\* "Avoid resending a request to send if we have already received a permit"
\* (udptrs.cpp, send_resend_flow::doRun): the resend thread does not time a
\* request out when a permit for it is queued and has been noted.
PermitNoted == permitQ # NoPermit /\ permitQ.flowSeq = activeFlow /\ notePending = 0
NoResendAfterPermit == [][PermitNoted => ~TimerExpires]_vars

-----------------------------------------------------------------------------
(* The inductive invariant behind DataIsRequested and ResendListFits.      *)

\* The resend thread aborts, and so resets timeouts, when they are exhausted.
TimeoutInv ==
  abortPc[ResendThread] # "resend" => timeouts < MaxRequestDeadTimeouts

\* Whoever is about to clear requestExpiryTime owns activeCrit.
CritInv ==
  /\ sendPc = "finish" => activeCrit = SendThread
  /\ \A t \in Aborters : abortPc[t] = "clear" => activeCrit = t

\* ... and the packets counted since it looked have a thread that waits for
\* activeCrit to request them.
CoverInv ==
  /\ DataIsRequested
  /\ sendPc = "finish" /\ ~dataRemaining /\ packetsQueued > 0 => WillRequest
  /\ \A t \in Aborters : abortPc[t] = "clear" /\ packetsQueued > 0 => WillRequest

\* All packets that may need resending lie in one window below nextSend, and
\* sending what the permit still allows keeps them there.
WindowInv ==
  /\ \A s \in resendList \cup fresh : s < nextSend /\ nextSend - s <= TrackerBits
  /\ sendPc = "idle" => fresh = {}
  /\ sendPc \in {"gather", "count"} =>
       /\ left <= TrackerBits
       /\ \A s \in resendList \cup fresh : nextSend + left - s <= TrackerBits
  /\ sendPc = "count" => left > 0

\* The counter, and what is removed belongs to a removal under way.
CountInv ==
  /\ PacketAccounting
  /\ IsFiniteSet(Removed)
  /\ \A t \in Aborters : abortPc[t] \notin {"subtractSome", "subtract"} => removed[t] = 0

\* As long as the counter stays at zero or above: what may have to be resent has
\* a request, and when the send thread finds nothing to ask for, nothing may.
UnackedInv ==
  /\ resendList \cup fresh # {} \/ sendPc = "count" => requested \/ WillRequest \/ aborted
  /\ sendPc = "finish" /\ ~dataRemaining => resendList = {}

SenderInv == TypeOK /\ TimeoutInv /\ CritInv /\ CoverInv /\ WindowInv
=============================================================================
