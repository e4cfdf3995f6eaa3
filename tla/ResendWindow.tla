----------------------------- MODULE ResendWindow -----------------------------
(***************************************************************************)
(* The resend protocol of the UDP transport for one pair of nodes: the      *)
(* sender's resend list (UdpResendList and sendData, udptrs.cpp) and the    *)
(* receiver's PacketTracker (noteSeen, called by receive_data, udptrr.cpp,  *)
(* and copied into every permit), over a network that loses packets and     *)
(* permits.  Flow control is reduced to its effect here: at any time the    *)
(* receiver may grant a permit, and the sender uses the last one granted.   *)
(*                                                                          *)
(* A packet is named by its absolute number n since the sender started; the *)
(* code sees n modulo SequenceMod: the model covers the wrap of sequence_t.  *)
(***************************************************************************)
EXTENDS PacketTracker, OrderedSets, SequencesExt

CONSTANTS
  MaxSent,         \* bound: packets ever sent by one incarnation of the sender
  MaxPermit,       \* packets a permit allows at most
  NetLimit,        \* bound: data packets in flight
  MaxRestarts,     \* bound: restarts of the sender
  udpResendDelay,  \* TRUE iff the delay (udpsha.cpp:68) is not 0
  InOrder,         \* the network keeps data packets in order
  NoPermit

ASSUME WindowAssumption ==
  /\ MaxSent \in Nat /\ NetLimit \in Nat /\ MaxRestarts \in Nat
  /\ MaxPermit \in 1 .. TrackerBits           \* udptrr.cpp: maxSlotsPerClient
  /\ udpResendDelay \in BOOLEAN /\ InOrder \in BOOLEAN
  /\ NoPermit \notin Tracker

Packets == 0 .. MaxSent - 1

\* UdpPacketHeader: the packet's number, and its UDP_PACKET_RESENT bit.
Header == [n : Packets, resent : BOOLEAN]

VARIABLES
  nextSend,        \* nextSendSequence, as an absolute number
  resendList,      \* packets in the resend list
  dataNet,         \* data packets in flight, oldest first
  permit,          \* the tracker in the last permit, until it is used or lost
  tracker,         \* packetsSeen at the receiver
  passed,          \* history: how often each packet was passed on (at most 2)
  restarts         \* history: restarts of the sender

vars == <<nextSend, resendList, dataNet, permit, tracker, passed, restarts>>

TypeOK ==
  /\ nextSend \in 0 .. MaxSent
  /\ resendList \subseteq Packets
  /\ dataNet \in Seq(Header) /\ Len(dataNet) <= NetLimit
  /\ permit \in Tracker \cup {NoPermit}
  /\ tracker \in Tracker
  /\ passed \in [Packets -> 0 .. 2]
  /\ restarts \in 0 .. MaxRestarts

Init ==
  /\ nextSend = 0 /\ resendList = {}
  /\ dataNet = <<>> /\ permit = NoPermit
  /\ tracker = NewTracker
  /\ passed = [n \in Packets |-> 0]
  /\ restarts = 0

-----------------------------------------------------------------------------
\* sendPermitToSend: the permit carries a copy of the tracker.  A permit that
\* is repeated replaces the one before it (pushPermit).
GrantPermit ==
  /\ permit' = tracker
  /\ UNCHANGED <<nextSend, resendList, dataNet, tracker, passed, restarts>>

LosePermit ==
  /\ permit # NoPermit
  /\ permit' = NoPermit
  /\ UNCHANGED <<nextSend, resendList, dataNet, tracker, passed, restarts>>

\* Seeded fault: everything up to the last packet seen counts as seen.
Unseen_BeyondLast(seen) == {n \in resendList : Newer(n % SequenceMod, seen.hwm)}

\* noteRead: the packets the receiver has not seen stay in the list.
Unseen(seen) == {n \in resendList : ~HasSeen(seen, n % SequenceMod)}

\* Seeded fault: the window is taken from the number of unacknowledged
\* packets, not from the oldest of them.
InResendWindow_ByCount(kept, next) == Cardinality(kept) + next - nextSend <= TrackerBits

\* No packet below next shares a slot of the resend list with one in kept.
InResendWindow(kept, next) == \A n \in kept : next - n <= TrackerBits

\* append has marked a packet as resent by the time it is written again.
Outgoing(missing, next) ==
  LET Resent(n) == [n |-> n, resent |-> TRUE]
      Fresh(n)  == [n |-> n, resent |-> FALSE]
  IN  [i \in 1 .. Cardinality(missing) |-> Resent(Ordered(missing)[i])] \o
      [i \in 1 .. next - nextSend |-> Fresh(nextSend + i - 1)]

\* sendData: release what the permit shows as seen, resend what is missing
\* (all of it, or what was sent udpResendDelay ago), add new packets.
SendData ==
  /\ permit # NoPermit
  /\ permit' = NoPermit
  /\ LET kept == Unseen(permit) IN
     \E missing \in IF udpResendDelay THEN SUBSET kept ELSE {kept},
        next \in nextSend .. MaxSent :
       /\ next = nextSend \/ (/\ next - nextSend + Cardinality(missing) <= MaxPermit
                              /\ InResendWindow(kept, next))
       /\ Len(dataNet) + Cardinality(missing) + next - nextSend <= NetLimit   \* bound
       /\ dataNet' = dataNet \o Outgoing(missing, next)
       /\ nextSend' = next
       /\ resendList' = kept \cup (nextSend .. next - 1)
  /\ UNCHANGED <<tracker, passed, restarts>>

\* receive_data: note the packet, and pass it on unless it is a duplicate.
ReceiveAt(i) ==
  LET hdr == dataNet[i]
      seq == hdr.n % SequenceMod
  IN
  /\ i = 1 \/ ~InOrder
  /\ dataNet' = RemoveAt(dataNet, i)
  /\ tracker' = NoteSeen(tracker, seq, hdr.resent)
  /\ passed' = IF Duplicate(tracker, seq, hdr.resent) \/ passed[hdr.n] = 2
               THEN passed
               ELSE [passed EXCEPT ![hdr.n] = @ + 1]
  /\ UNCHANGED <<nextSend, resendList, permit, restarts>>

Receive(n) == \E i \in DOMAIN dataNet : dataNet[i].n = n /\ ReceiveAt(i)

\* A packet in a queue is lost at its head: nobody sees it earlier.
LoseData ==
  /\ dataNet # <<>>
  /\ dataNet' = Tail(dataNet)
  /\ UNCHANGED <<nextSend, resendList, permit, tracker, passed, restarts>>

\* The sender restarts, after the network has drained: its numbers start again
\* at 0, and the packets it sends from now on are new ones.
RestartSender ==
  /\ restarts < MaxRestarts                                    \* bound
  /\ restarts' = restarts + 1
  /\ nextSend' = 0 /\ resendList' = {}
  /\ dataNet' = <<>> /\ permit' = NoPermit
  /\ passed' = [n \in Packets |-> 0]
  /\ UNCHANGED tracker

Next ==
  \/ GrantPermit
  \/ LosePermit
  \/ SendData
  \/ \E n \in Packets : Receive(n)
  \/ LoseData
  \/ RestartSender

Spec == Init /\ [][Next]_vars

\* The network does not lose every permit or every copy of a packet, and the
\* receiver goes on granting permits: the sender keeps a request alive while
\* it holds unacknowledged packets (UnackedIsRequested of UdpSender).
FairSpec ==
  /\ Spec
  /\ WF_vars(GrantPermit)
  /\ SF_vars(SendData)
  /\ \A n \in Packets : SF_vars(Receive(n))

-----------------------------------------------------------------------------
(* Properties.                                                             *)

\* In the window of sequence numbers that can still be in flight, the tracker
\* says exactly which packets were passed on to the collator: noteSeen and
\* hasSeen agree with history whatever was lost, resent or released (until a
\* restart of the sender leaves the receiver with the tracker of the last one).
TrackerIsExact ==
  \A n \in Packets :
    restarts = 0 /\ n < nextSend /\ nextSend - n <= TrackerBits =>
      (HasSeen(tracker, n % SequenceMod) <=> passed[n] > 0)

\* While it has not, no packet makes the receiver believe that it did: base only
\* moves forwards, and by no more than the size of the bitmap.
TrackerNeverRestarts ==
  [][restarts' = 0 => Delta(tracker'.base, tracker.base) <= TrackerBits]_vars

\* The sender forgets a packet only once the receiver has passed it on.
ForgottenIsPassed ==
  \A n \in Packets : n < nextSend /\ n \notin resendList => passed[n] > 0

\* noteSeen returns "whether we had already seen it" (udpsha.hpp:90): no
\* packet is passed on to the collator twice.
PassedOnce == \A n \in Packets : passed[n] <= 1

\* The resend protocol implements reliable transfer: nothing is forgotten
\* before it is passed on, nothing passed on twice, everything in the end.
Transfer == INSTANCE ReliableTransfer
              WITH sent <- nextSend,
                   forgotten <- (0 .. nextSend - 1) \ resendList
TransferSpec == Transfer!TransferSpec
-----------------------------------------------------------------------------
(* The inductive invariant behind these properties, on a network that keeps *)
(* its order and for numbers that have not wrapped yet.                     *)

NoWrap == MaxSent + 2 * TrackerBits <= SequenceMod

\* What is sent for the first time comes after everything with a lower number
\* and before every other copy: nothing from it on was passed on.
FirstCopyLeads ==
  \A i \in DOMAIN dataNet :
    /\ dataNet[i].n < nextSend
    /\ ~dataNet[i].resent =>
         /\ \A j \in 1 .. i - 1 : dataNet[j].n < dataNet[i].n
         /\ \A m \in Packets : dataNet[i].n <= m => passed[m] = 0

\* The tracker has a packet as seen.
Recorded(n) ==
  n < tracker.base \/ (n < tracker.base + TrackerBits /\ Slot(n) \in tracker.seen)

\* Whatever was passed on is recorded, also after a restart of the sender.
PassedIsRecorded ==
  /\ tracker.base < MaxSent + TrackerBits
  /\ \A n \in Packets : passed[n] > 0 => n < nextSend /\ Recorded(n)

\* Until then the converse holds, base is the first packet missing, and the
\* sender keeps whatever is, within the window.
WindowHolds ==
  /\ tracker.base <= nextSend /\ Slot(tracker.base) \notin tracker.seen
  /\ \A n \in 0 .. tracker.base - 1 : passed[n] > 0
  /\ \A n \in tracker.base .. tracker.base + TrackerBits - 1 :
       Slot(n) \in tracker.seen => n < nextSend /\ passed[n] > 0
  /\ \A n \in resendList : n < nextSend /\ nextSend - n <= TrackerBits
  /\ \A n \in 0 .. nextSend - 1 : passed[n] = 0 => n \in resendList
  /\ permit # NoPermit =>
       \A n \in resendList : HasSeen(permit, n) => passed[n] > 0

WindowInv ==
  /\ TypeOK /\ resendList \subseteq 0 .. nextSend - 1
  /\ FirstCopyLeads /\ PassedIsRecorded /\ PassedOnce
  /\ restarts = 0 => WindowHolds
=============================================================================
