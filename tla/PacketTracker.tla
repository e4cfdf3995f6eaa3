---------------------------- MODULE PacketTracker ----------------------------
(***************************************************************************)
(* PacketTracker (roxie/udplib/udpsha.hpp and udpsha.cpp): which packets a  *)
(* receiver has seen.  base is the first packet it may still miss, hwm the  *)
(* highest one seen, and seen a circular bitmap of TRACKER_BITS slots for   *)
(* the packets from base on.  A sequence number is an unsigned integer of   *)
(* 32 bits; SequenceMod stands for 2^32.                                    *)
(*                                                                          *)
(* The operators take and return a tracker as a record: this module has no  *)
(* state of its own.                                                        *)
(***************************************************************************)
EXTENDS Integers, FiniteSetsExt

CONSTANTS
  SequenceMod,          \* number of values of a sequence_t (2^32 in the code)
  TrackerBits      \* TRACKER_BITS (1024 in the code)

ASSUME TrackerAssumption ==
  /\ TrackerBits \in Nat \ {0}
  /\ SequenceMod \in Nat
  /\ SequenceMod % (2 * TrackerBits) = 0           \* both are powers of two
  /\ SequenceMod >= 4 * TrackerBits

Seq32   == 0 .. SequenceMod - 1

\* Seeded fault: the index into the bitmap is not reduced to its size.
Slot_Unmasked(s) == s

\* The bit of the bitmap for a sequence number.
Slot(s) == s % TrackerBits

Tracker == [base : Seq32, hwm : Seq32, seen : SUBSET (0 .. TrackerBits - 1)]

\* A new tracker has seen nothing; hwm is (sequence_t) -1.
NewTracker == [base |-> 0, hwm |-> SequenceMod - 1, seen |-> {}]

\* The unsigned difference of two sequence numbers.
Delta(a, b) == (a - b) % SequenceMod

\* delta < TRACKER_BITS, and (int)(a - b) > 0.
InWindow(tr, s) == Delta(s, tr.base) < TrackerBits
Newer(a, b)     == Delta(a, b) \in 1 .. (SequenceMod \div 2) - 1

\* How far base moves when the packet it names has arrived: over every slot
\* that is set, clearing it, at most once round the bitmap.
Contiguous(base, seen) ==
  Min({j \in 0 .. TrackerBits : j = TrackerBits \/ Slot(base + j) \notin seen})

\* The tracker after a packet inside the window.
Record(tr, s) ==
  LET marked == tr.seen \cup {Slot(s)}
      run    == IF s = tr.base THEN Contiguous(tr.base, marked) ELSE 0
  IN  [base |-> (tr.base + run) % SequenceMod,
       hwm  |-> IF Newer(s, tr.hwm) THEN s ELSE tr.hwm,
       seen |-> marked \ {Slot(tr.base + j) : j \in 0 .. run - 1}]

\* The tracker after a packet it takes for the first one after a restart.
Restart(s) == [base |-> (s + 1) % SequenceMod, hwm |-> s, seen |-> {}]

\* Seeded fault: a resent packet out of the window also restarts the tracker.
IgnoreResend_Never(tr, resent) == FALSE

\* A resend out of the window was not needed - unless base is 0.
IgnoreResend(tr, resent) == resent /\ tr.base # 0

\* PacketTracker::noteSeen: the new tracker, and whether it had seen s before.
NoteSeen(tr, s, resent) ==
  IF InWindow(tr, s)                THEN Record(tr, s)
  ELSE IF IgnoreResend(tr, resent)  THEN tr
  ELSE                                   Restart(s)

Duplicate(tr, s, resent) ==
  IF InWindow(tr, s) THEN Slot(s) \in tr.seen ELSE IgnoreResend(tr, resent)

\* PacketTracker::hasSeen: packets before base count as seen.
HasSeen(tr, s) ==
  \/ InWindow(tr, s) /\ Slot(s) \in tr.seen
  \/ Delta(s, tr.base) >= SequenceMod \div 2
=============================================================================
