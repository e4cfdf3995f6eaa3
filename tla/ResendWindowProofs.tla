-------------------------- MODULE ResendWindowProofs --------------------------
(* Proofs about ResendWindow, for every size of the tracker, permit and       *)
(* network.  WindowInv is inductive when the network keeps its order and      *)
(* numbers have not wrapped; the properties and the safety part of the        *)
(* refinement follow from it.                                                 *)
EXTENDS ResendWindow, CountingLemmas

-----------------------------------------------------------------------------
(* Numbers modulo SequenceMod and slots of the bitmap.                        *)

\* Two numbers less than m apart have different remainders.
LEMMA DistinctRemainders ==
  ASSUME NEW m \in Nat \ {0}, NEW a \in Nat, NEW b \in Nat, a < b, b < a + m
  PROVE  a % m # b % m
<1>1. /\ a = m * (a \div m) + (a % m) /\ b = m * (b \div m) + (b % m)
      /\ a \div m \in Int /\ b \div m \in Int /\ a % m \in Int /\ b % m \in Int
  OBVIOUS
<1> SUFFICES ASSUME a % m = b % m PROVE FALSE
  OBVIOUS
<1> DEFINE d == (b \div m) - (a \div m)
<1>2. b - a = m * d /\ d \in Int
  <2>1. \A x, y \in Int : m * x - m * y = m * (x - y)
    OBVIOUS
  <2>2. b - a = m * (b \div m) - m * (a \div m)
    BY <1>1
  <2>3. QED
    BY <1>1, <2>1, <2>2
<1> HIDE DEF d
<1>3. \A x \in Int : x <= 0 => m * x <= 0
  OBVIOUS
<1>4. \A x \in Int : x >= 1 => m * x >= m
  OBVIOUS
<1>5. QED
  BY <1>2, <1>3, <1>4

LEMMA DeltaOfSmall ==
  ASSUME NEW a \in Seq32, NEW b \in Seq32
  PROVE  Delta(a, b) = IF b <= a THEN a - b ELSE a - b + SequenceMod
<1> DEFINE m == SequenceMod
           c == a - b
<1>1. m \in Nat \ {0} /\ a \in Int /\ b \in Int /\ 0 <= a /\ a < m /\ 0 <= b /\ b < m
  BY TrackerAssumption DEF Seq32
<1>2. c \in Int /\ c < m /\ -m <= c /\ (b <= a <=> 0 <= c)
  BY <1>1
<1>3. Delta(a, b) = c % m
  BY DEF Delta
<1> HIDE DEF m, c
<1>4. (0 <= c => c % m = c) /\ (c < 0 => c % m = c + m)
  BY <1>1, <1>2, SmallModulo
<1>5. QED
  BY <1>1, <1>2, <1>3, <1>4 DEF m, c

LEMMA SlotType ==
  ASSUME NEW s \in Int
  PROVE  Slot(s) \in 0 .. TrackerBits - 1
BY TrackerAssumption, SmallModulo DEF Slot

\* Two packets less than TRACKER_BITS apart have different slots, and the slot
\* comes round after TRACKER_BITS packets.
LEMMA SlotsDiffer ==
  ASSUME NEW a \in Nat, NEW b \in Nat, a # b, a < b + TrackerBits, b < a + TrackerBits
  PROVE  Slot(a) # Slot(b)
<1>1. a < b \/ b < a
  OBVIOUS
<1>2. QED
  BY <1>1, TrackerAssumption, DistinctRemainders DEF Slot

LEMMA SlotComesRound ==
  ASSUME NEW a \in Nat
  PROVE  Slot(a + TrackerBits) = Slot(a)
<1> DEFINE m == TrackerBits
           b == a + m
<1>1. m \in Nat \ {0} /\ b \in Int
  BY TrackerAssumption
<1>2. /\ a = m * (a \div m) + (a % m) /\ b = m * (b \div m) + (b % m)
      /\ a \div m \in Int /\ b \div m \in Int /\ a % m \in 0 .. m - 1 /\ b % m \in 0 .. m - 1
  <2>1. \A x \in Int : x = m * (x \div m) + (x % m) /\ x \div m \in Int /\ x % m \in 0 .. m - 1
    BY <1>1, SmallModulo
  <2>2. a \in Int
    OBVIOUS
  <2> HIDE DEF b, m
  <2>3. QED
    BY <1>1, <2>1, <2>2
<1> DEFINE d == (b \div m) - (a \div m)
<1>3. d \in Int /\ m = m * d + ((b % m) - (a % m))
  <2>1. \A x, y \in Int : m * x - m * y = m * (x - y)
    BY <1>1
  <2>2. b - a = m /\ a \in Int
    BY <1>1
  <2>3. b - a = (m * (b \div m) - m * (a \div m)) + ((b % m) - (a % m))
    <3> DEFINE x == m * (b \div m)
               y == m * (a \div m)
    <3>1. x \in Int /\ y \in Int
      BY <1>1, <1>2
    <3>2. b = x + (b % m) /\ a = y + (a % m)
      BY <1>2
    <3> HIDE DEF x, y, b, m
    <3>3. b - a = (x - y) + ((b % m) - (a % m))
      BY <1>1, <1>2, <3>1, <3>2
    <3>4. QED
      BY <3>3 DEF x, y
  <2>4. m * (b \div m) - m * (a \div m) = m * d
    BY <1>2, <2>1
  <2> HIDE DEF d, b, m
  <2>5. QED
    BY <1>2, <2>2, <2>3, <2>4 DEF d
<1> DEFINE diff == (b % m) - (a % m)
<1>4. diff \in Int /\ -m < diff /\ diff < m
  BY <1>1, <1>2
<1>5. diff = m - m * d
  <2>1. m * d \in Int
    BY <1>1, <1>3
  <2> HIDE DEF d, m, b
  <2>2. QED
    BY <1>1, <1>3, <1>4, <2>1
<1> HIDE DEF d, diff
<1>6. (\A x \in Int : x <= 0 => m * x <= 0) /\ (\A x \in Int : x >= 2 => m * x >= 2 * m)
      /\ m * 1 = m
  BY <1>1
<1>7. d = 1
  <2> HIDE DEF m
  <2>1. m * d \in Int
    BY <1>1, <1>3
  <2>2. ~ (d <= 0)
    BY <1>1, <1>3, <1>4, <1>5, <1>6, <2>1
  <2>3. ~ (d >= 2)
    BY <1>1, <1>3, <1>4, <1>5, <1>6, <2>1
  <2>4. QED
    BY <1>3, <2>2, <2>3
<1>8. diff = 0
  BY <1>1, <1>5, <1>6, <1>7
<1>9. QED
  BY <1>2, <1>8 DEF diff, Slot

\* base moves over the slots that are set, up to the first that is not.
LEMMA ContiguousRun ==
  ASSUME NEW base \in Nat, NEW seen
  PROVE  /\ Contiguous(base, seen) \in 0 .. TrackerBits
         /\ \A j \in 0 .. Contiguous(base, seen) - 1 : Slot(base + j) \in seen
         /\ Contiguous(base, seen) = TrackerBits \/ Slot(base + Contiguous(base, seen)) \notin seen
<1> DEFINE ends == {j \in 0 .. TrackerBits : j = TrackerBits \/ Slot(base + j) \notin seen}
<1>1. TrackerBits \in Nat
  BY TrackerAssumption
<1>2. ends \in SUBSET Nat /\ ends # {}
  BY <1>1
<1>3. Min(ends) \in ends /\ \A t \in ends : Min(ends) <= t
  BY <1>2, MinNat
<1>4. Contiguous(base, seen) = Min(ends)
  BY DEF Contiguous
<1>5. \A j \in 0 .. Min(ends) - 1 : j \notin ends /\ j \in 0 .. TrackerBits
  BY <1>1, <1>3
<1>6. QED
  BY <1>3, <1>4, <1>5

\* A packet inside the window, when nothing wraps: base moves over packets that
\* are recorded, whatever was recorded stays so, and nothing but s is added.
LEMMA RecordResult ==
  ASSUME NEW tr \in Tracker, NEW s \in Nat, tr.base <= s, s < tr.base + TrackerBits,
         tr.base + TrackerBits < SequenceMod
  PROVE  LET new == Record(tr, s) IN
         /\ new.base \in tr.base .. tr.base + TrackerBits
         /\ new.base = tr.base \/ s = tr.base
         /\ \A n \in tr.base .. new.base - 1 : n = s \/ Slot(n) \in tr.seen
         /\ \A n \in new.base .. tr.base + TrackerBits - 1 :
              n = s \/ Slot(n) \in tr.seen => Slot(n) \in new.seen
         /\ \A n \in new.base .. new.base + TrackerBits - 1 :
              Slot(n) \in new.seen =>
                n < tr.base + TrackerBits /\ (n = s \/ Slot(n) \in tr.seen)
         /\ Slot(tr.base) \notin tr.seen => Slot(new.base) \notin new.seen
<1> DEFINE b == tr.base
           T == TrackerBits
           marked == tr.seen \cup {Slot(s)}
           run == IF s = b THEN Contiguous(b, marked) ELSE 0
           cleared == {Slot(b + j) : j \in 0 .. run - 1}
           new == Record(tr, s)
<1>1. b \in Nat /\ T \in Nat /\ T # 0 /\ tr.seen \subseteq 0 .. T - 1
  BY TrackerAssumption DEF Tracker, Seq32
<1>2. /\ run \in 0 .. T
      /\ \A j \in 0 .. run - 1 : Slot(b + j) \in marked
      /\ s = b => run = T \/ Slot(b + run) \notin marked
      /\ s # b => run = 0
  BY <1>1, ContiguousRun
<1>3. new.base = b + run /\ new.seen = marked \ cleared
  <2>1. (b + run) % SequenceMod = b + run
    <3>1. b + run \in Nat /\ b + run < SequenceMod /\ SequenceMod \in Nat \ {0}
      BY <1>1, <1>2, TrackerAssumption
    <3> HIDE DEF run, b
    <3>2. QED
      BY <3>1, SmallModulo
  <2>2. QED
    BY <2>1 DEF Record
<1> HIDE DEF run, new
\* In the window, a slot stands for one packet only.
<1>4. \A n, k \in b .. b + T - 1 : Slot(n) = Slot(k) => n = k
  BY <1>1, SlotsDiffer
<1>5. s \in b .. b + T - 1
  BY <1>1
<1>6. ASSUME NEW n \in b .. new.base - 1 PROVE n = s \/ Slot(n) \in tr.seen
  <2>1. n - b \in 0 .. run - 1 /\ b + (n - b) = n /\ n \in b .. b + T - 1
    BY <1>1, <1>2, <1>3
  <2>2. Slot(n) \in marked
    BY <1>2, <2>1
  <2>3. QED
    BY <1>4, <1>5, <2>1, <2>2
<1>7. ASSUME NEW n \in new.base .. b + T - 1, n = s \/ Slot(n) \in tr.seen
      PROVE  Slot(n) \in new.seen
  <2>1. ASSUME NEW j \in 0 .. run - 1 PROVE Slot(n) # Slot(b + j)
    <3>1. n \in b .. b + T - 1 /\ b + j \in b .. b + T - 1 /\ n # b + j
      BY <1>1, <1>2, <1>3
    <3>2. QED
      BY <1>4, <3>1
  <2>2. Slot(n) \notin cleared
    BY <2>1
  <2>3. QED
    BY <1>3, <1>7, <2>2
<1>8. ASSUME NEW n \in new.base .. new.base + T - 1, Slot(n) \in new.seen
      PROVE  n < b + T /\ (n = s \/ Slot(n) \in tr.seen)
  <2>1. n \in Nat /\ new.base \in Nat
    BY <1>1, <1>2, <1>3
  <2>2. n < b + T
    <3> SUFFICES ASSUME n >= b + T PROVE FALSE
      BY <1>1, <2>1
    <3> DEFINE j == n - T - b
    <3>1. j \in 0 .. run - 1 /\ n - T \in Nat /\ b + j = n - T /\ (n - T) + T = n
      BY <1>1, <1>2, <1>3, <2>1
    <3>2. Slot(n) = Slot(n - T)
      BY <3>1, SlotComesRound
    <3>3. Slot(b + j) \in cleared
      BY <3>1
    <3>4. QED
      BY <1>3, <1>8, <3>1, <3>2, <3>3
  <2>3. Slot(n) \in marked
    BY <1>3, <1>8
  <2>4. n \in b .. b + T - 1
    BY <1>1, <1>2, <1>3, <2>1, <2>2
  <2>5. QED
    BY <1>4, <1>5, <2>2, <2>3, <2>4
<1>9. ASSUME Slot(b) \notin tr.seen PROVE Slot(new.base) \notin new.seen
  <2>1. CASE s = b /\ run # T
    BY <1>2, <1>3, <2>1
  <2>2. CASE s = b /\ run = T
    <3>1. new.base = b + T /\ Slot(b + T) = Slot(b) /\ 0 \in 0 .. run - 1 /\ b + 0 = b
      BY <1>1, <1>3, <2>2, SlotComesRound
    <3>2. Slot(b) \in cleared
      BY <3>1
    <3>3. QED
      BY <1>3, <3>1, <3>2
  <2>3. CASE s # b
    <3>1. new.base = b /\ b \in b .. b + T - 1
      BY <1>1, <1>2, <1>3, <2>3
    <3>2. Slot(b) # Slot(s)
      BY <1>4, <1>5, <2>3, <3>1
    <3>3. QED
      BY <1>3, <1>9, <3>1, <3>2
  <2>4. QED
    BY <2>1, <2>2, <2>3
<1>10. new.base \in b .. b + T /\ (new.base = b \/ s = b)
  BY <1>1, <1>2, <1>3
<1>11. QED
  BY <1>6, <1>7, <1>8, <1>9, <1>10 DEF new

-----------------------------------------------------------------------------
(* Types.                                                                     *)

LEMMA NoteSeenType ==
  ASSUME NEW tr \in Tracker, NEW s \in Seq32, NEW resent
  PROVE  NoteSeen(tr, s, resent) \in Tracker
<1>1. SequenceMod \in Nat \ {0} /\ tr.base \in Int /\ s \in Int
  BY TrackerAssumption DEF Tracker, Seq32
<1>2. \A a \in Int : a % SequenceMod \in Seq32
  BY <1>1, SmallModulo DEF Seq32
<1>3. Record(tr, s) \in Tracker
  <2> DEFINE marked == tr.seen \cup {Slot(s)}
             run == IF s = tr.base THEN Contiguous(tr.base, marked) ELSE 0
  <2>1. run \in Int
    BY TrackerAssumption, ContiguousRun DEF Tracker, Seq32
  <2>2. (tr.base + run) % SequenceMod \in Seq32
    BY <1>1, <1>2, <2>1
  <2>3. marked \subseteq 0 .. TrackerBits - 1
    BY <1>1, SlotType DEF Tracker
  <2>4. QED
    BY <2>2, <2>3 DEF Record, Tracker
<1>4. Restart(s) \in Tracker
  BY <1>1, <1>2, SMTT(30) DEF Restart, Tracker
<1>5. QED
  BY <1>3, <1>4 DEF NoteSeen

\* A burst: the resent packets, all below nextSend, then the new ones in order.
LEMMA OutgoingIs ==
  ASSUME TypeOK, NEW missing \in SUBSET resendList, NEW next \in nextSend .. MaxSent
  PROVE  LET out == Outgoing(missing, next)
             c   == Cardinality(missing)
         IN
         /\ c \in Nat
         /\ out \in Seq(Header) /\ Len(out) = c + next - nextSend
         /\ \A i \in 1 .. c : out[i].n \in missing /\ out[i].resent
         /\ \A i \in c + 1 .. c + next - nextSend :
              out[i] = [n |-> nextSend + i - c - 1, resent |-> FALSE]
<1> DEFINE c == Cardinality(missing)
           k == next - nextSend
           old == [i \in 1 .. c |-> [n |-> Ordered(missing)[i], resent |-> TRUE]]
           new == [i \in 1 .. k |-> [n |-> nextSend + i - 1, resent |-> FALSE]]
           out == old \o new
<1>1. /\ nextSend \in Nat /\ next \in Nat /\ MaxSent \in Nat /\ k \in Nat /\ next <= MaxSent
      /\ missing \subseteq 0 .. MaxSent - 1
  BY WindowAssumption DEF TypeOK, Packets
<1>2. missing \in SUBSET Nat /\ IsFiniteSet(missing)
  <2>1. IsFiniteSet(0 .. MaxSent - 1)
    BY <1>1, FS_Interval
  <2>2. missing \in SUBSET (0 .. MaxSent - 1) /\ missing \in SUBSET Nat
    BY <1>1
  <2>3. QED
    BY <2>1, <2>2, FS_Subset
<1>3. c \in Nat /\ \A i \in 1 .. c : Ordered(missing)[i] \in missing
  BY <1>2, FS_CardinalityType, OrderedIsAscending
<1> HIDE DEF c
<1>4. old \in Seq(Header) /\ Len(old) = c
  <2>1. \A i \in 1 .. c : [n |-> Ordered(missing)[i], resent |-> TRUE] \in Header
    BY <1>1, <1>3 DEF Header, Packets
  <2>2. old \in [1 .. c -> Header]
    BY <2>1
  <2> HIDE DEF old
  <2>3. QED
    BY <1>3, <2>2
<1>5. new \in Seq(Header) /\ Len(new) = k
  <2>1. \A i \in 1 .. k : [n |-> nextSend + i - 1, resent |-> FALSE] \in Header
    BY <1>1 DEF Header, Packets
  <2>2. new \in [1 .. k -> Header]
    BY <2>1
  <2> HIDE DEF new
  <2>3. QED
    BY <1>1, <2>2
<1>6. Outgoing(missing, next) = out
  BY DEF Outgoing, c
<1>7. \A i \in 1 .. c : old[i].n \in missing /\ old[i].resent
  BY <1>3
<1>8. \A i \in 1 .. k : new[i] = [n |-> nextSend + i - 1, resent |-> FALSE]
  OBVIOUS
<1> HIDE DEF old, new
<1>9. /\ out \in Seq(Header) /\ Len(out) = c + k
      /\ \A i \in 1 .. c : out[i] = old[i]
      /\ \A i \in c + 1 .. c + k : out[i] = new[i - c]
  <2> HIDE DEF k
  <2>1. /\ out \in Seq(Header) /\ Len(out) = c + k
        /\ \A i \in 1 .. c + k : out[i] = IF i <= c THEN old[i] ELSE new[i - c]
    BY <1>4, <1>5, ConcatProperties
  <2>2. \A i \in 1 .. c : i \in 1 .. c + k /\ i <= c
    BY <1>1, <1>3 DEF k
  <2>3. \A i \in c + 1 .. c + k : i \in 1 .. c + k /\ ~ (i <= c)
    BY <1>1, <1>3 DEF k
  <2> HIDE DEF out
  <2>4. QED
    BY <2>1, <2>2, <2>3
<1> HIDE DEF out
<1>10. ASSUME NEW i \in c + 1 .. c + k
       PROVE  out[i] = [n |-> nextSend + i - c - 1, resent |-> FALSE]
  <2>1. i - c \in 1 .. k /\ nextSend + (i - c) - 1 = nextSend + i - c - 1
    BY <1>1, <1>3
  <2>2. QED
    BY <1>8, <1>9, <2>1
<1>11. QED
  BY <1>1, <1>3, <1>6, <1>7, <1>9, <1>10 DEF c

\* The steps of the sender and of the data path, named by what they choose.
LEMMA SendDataChoice ==
  ASSUME TypeOK, SendData
  PROVE  \E missing \in SUBSET Unseen(permit), next \in nextSend .. MaxSent :
           /\ next = nextSend
              \/ (next - nextSend <= MaxPermit /\ InResendWindow(Unseen(permit), next))
           /\ Len(dataNet) + Cardinality(missing) + next - nextSend <= NetLimit
           /\ dataNet' = dataNet \o Outgoing(missing, next)
           /\ nextSend' = next
           /\ resendList' = Unseen(permit) \cup (nextSend .. next - 1)
<1>1. PICK missing \in SUBSET Unseen(permit), next \in nextSend .. MaxSent :
         /\ next = nextSend \/ (/\ next - nextSend + Cardinality(missing) <= MaxPermit
                                /\ InResendWindow(Unseen(permit), next))
         /\ Len(dataNet) + Cardinality(missing) + next - nextSend <= NetLimit
         /\ dataNet' = dataNet \o Outgoing(missing, next)
         /\ nextSend' = next
         /\ resendList' = Unseen(permit) \cup (nextSend .. next - 1)
  BY DEF SendData
<1>2. Cardinality(missing) \in Nat
  BY OutgoingIs DEF Unseen
<1>3. next - nextSend + Cardinality(missing) <= MaxPermit => next - nextSend <= MaxPermit
  BY <1>2, WindowAssumption DEF TypeOK
<1>4. QED
  BY <1>1, <1>3

LEMMA SendDataType ==
  ASSUME TypeOK, SendData
  PROVE  TypeOK'
<1>1. PICK missing \in SUBSET Unseen(permit), next \in nextSend .. MaxSent :
           /\ Len(dataNet) + Cardinality(missing) + next - nextSend <= NetLimit
           /\ dataNet' = dataNet \o Outgoing(missing, next)
           /\ nextSend' = next
           /\ resendList' = Unseen(permit) \cup (nextSend .. next - 1)
  BY SendDataChoice
<1> DEFINE out == Outgoing(missing, next)
<1>2. out \in Seq(Header) /\ Len(out) = Cardinality(missing) + next - nextSend
      /\ Cardinality(missing) \in Nat
  BY OutgoingIs DEF Unseen
<1> HIDE DEF out
<1>3. nextSend \in Nat /\ next \in 0 .. MaxSent /\ MaxSent \in Nat /\ NetLimit \in Nat
  BY WindowAssumption DEF TypeOK
<1>4. dataNet' \in Seq(Header) /\ Len(dataNet') <= NetLimit
  <2>1. dataNet \in Seq(Header) /\ Len(dataNet) \in Nat
    BY DEF TypeOK
  <2>2. dataNet \o out \in Seq(Header) /\ Len(dataNet \o out) = Len(dataNet) + Len(out)
    BY <1>2, <2>1, ConcatProperties
  <2>3. QED
    BY <1>1, <1>2, <1>3, <2>1, <2>2 DEF out
<1>5. resendList' \subseteq Packets
  <2>1. nextSend .. next - 1 \subseteq Packets
    BY <1>3 DEF Packets
  <2>2. QED
    BY <1>1, <2>1 DEF TypeOK, Unseen
<1>6. permit' \in Tracker \cup {NoPermit} /\ UNCHANGED <<tracker, passed, restarts>>
  BY DEF SendData
<1>7. QED
  BY <1>1, <1>3, <1>4, <1>5, <1>6 DEF TypeOK

LEMMA HeadTaken ==
  ASSUME TypeOK, NEW i \in DOMAIN dataNet
  PROVE  /\ RemoveAt(dataNet, i) \in Seq(Header)
         /\ Len(RemoveAt(dataNet, i)) = Len(dataNet) - 1
         /\ i = 1 => RemoveAt(dataNet, i) = Tail(dataNet)
         /\ dataNet[i] \in Header
<1>1. dataNet \in Seq(Header) /\ Len(dataNet) \in Nat /\ i \in 1 .. Len(dataNet)
  BY DEF TypeOK
<1>2. /\ SubSeq(dataNet, 1, i - 1) \in Seq(Header) /\ Len(SubSeq(dataNet, 1, i - 1)) = i - 1
      /\ SubSeq(dataNet, i + 1, Len(dataNet)) \in Seq(Header)
      /\ Len(SubSeq(dataNet, i + 1, Len(dataNet))) = Len(dataNet) - i
  BY <1>1, SubSeqProperties
<1>3. /\ RemoveAt(dataNet, i) \in Seq(Header)
      /\ Len(RemoveAt(dataNet, i)) = (i - 1) + (Len(dataNet) - i)
  BY <1>2, ConcatProperties DEF RemoveAt
<1>4. ASSUME i = 1 PROVE RemoveAt(dataNet, i) = Tail(dataNet)
  <2>1. SubSeq(dataNet, 1, i - 1) = << >>
    BY <1>1, <1>4, SubSeqEmpty
  <2>2. SubSeq(dataNet, i + 1, Len(dataNet)) = Tail(dataNet)
    BY <1>1, <1>4, TailIsSubSeq
  <2>3. RemoveAt(dataNet, i) = << >> \o Tail(dataNet)
    BY <2>1, <2>2 DEF RemoveAt
  <2>4. Tail(dataNet) \in Seq(Header)
    BY <1>1, <1>2, <2>2
  <2>5. QED
    BY <2>3, <2>4, ConcatEmptySeq
<1>5. QED
  BY <1>1, <1>3, <1>4

LEMMA PacketModulo ==
  ASSUME NEW n \in Packets
  PROVE  n % SequenceMod \in Seq32 /\ (NoWrap => n % SequenceMod = n)
<1>1. SequenceMod \in Nat \ {0} /\ n \in Nat /\ n < MaxSent /\ MaxSent \in Nat /\ TrackerBits \in Nat
  BY TrackerAssumption, WindowAssumption DEF Packets
<1>2. n % SequenceMod \in Seq32
  BY <1>1, SmallModulo DEF Seq32
<1>3. ASSUME NoWrap PROVE n % SequenceMod = n
  <2>1. n < SequenceMod /\ 0 <= n /\ n \in Int
    BY <1>1, <1>3 DEF NoWrap
  <2>2. QED
    BY <1>1, <2>1, SmallModulo
<1>4. QED
  BY <1>2, <1>3

LEMMA ReceiveType ==
  ASSUME TypeOK, NEW i \in DOMAIN dataNet, ReceiveAt(i)
  PROVE  TypeOK'
<1>1. dataNet[i].n \in Packets
  BY HeadTaken DEF Header
<1>2. dataNet' \in Seq(Header) /\ Len(dataNet') <= NetLimit
  <2>1. /\ RemoveAt(dataNet, i) \in Seq(Header) /\ Len(RemoveAt(dataNet, i)) = Len(dataNet) - 1
        /\ dataNet' = RemoveAt(dataNet, i) /\ Len(dataNet) \in Nat /\ Len(dataNet) <= NetLimit
    BY HeadTaken DEF TypeOK, ReceiveAt
  <2>2. QED
    BY <2>1, WindowAssumption
<1>3. tracker' \in Tracker
  BY <1>1, PacketModulo, NoteSeenType DEF TypeOK, ReceiveAt
<1>4. passed' \in [Packets -> 0 .. 2]
  <2>1. passed' = passed \/ (passed[dataNet[i].n] # 2
                             /\ passed' = [passed EXCEPT ![dataNet[i].n] = @ + 1])
    BY DEF ReceiveAt
  <2>2. QED
    BY <1>1, <2>1 DEF TypeOK
<1>5. QED
  BY <1>2, <1>3, <1>4 DEF TypeOK, ReceiveAt

LEMMA TypeStep ==
  ASSUME TypeOK, [Next]_vars
  PROVE  TypeOK'
<1>1. CASE GrantPermit \/ LosePermit
  BY <1>1 DEF TypeOK, GrantPermit, LosePermit
<1>2. CASE SendData
  BY <1>2, SendDataType
<1>3. ASSUME NEW n \in Packets, Receive(n) PROVE TypeOK'
  BY <1>3, ReceiveType DEF Receive
<1>4. CASE LoseData
  <2>1. Tail(dataNet) \in Seq(Header) /\ Len(Tail(dataNet)) <= NetLimit
    BY <1>4, WindowAssumption DEF TypeOK, LoseData
  <2>2. QED
    BY <1>4, <2>1 DEF TypeOK, LoseData
<1>5. CASE RestartSender
  <2>1. restarts' \in 0 .. MaxRestarts /\ nextSend' \in 0 .. MaxSent /\ Len(dataNet') <= NetLimit
    BY <1>5, WindowAssumption DEF TypeOK, RestartSender
  <2>2. QED
    BY <1>5, <2>1 DEF TypeOK, RestartSender
<1>6. CASE UNCHANGED vars
  BY <1>6 DEF TypeOK, vars
<1>7. QED
  BY <1>1, <1>2, <1>3, <1>4, <1>5, <1>6 DEF Next

\* The variables have their types in every reachable state, wrapped numbers,
\* reordering and restarts included (udpsha.hpp, PacketTracker; udptrs.cpp,
\* UdpResendList).
THEOREM TypeCorrect == Spec => []TypeOK
<1>1. Init => TypeOK
  <2>1. SequenceMod \in Nat /\ SequenceMod >= 4 /\ MaxSent \in Nat /\ NetLimit \in Nat
        /\ MaxRestarts \in Nat
    BY TrackerAssumption, WindowAssumption
  <2>2. QED
    BY <2>1 DEF Init, TypeOK, NewTracker, Tracker, Seq32
<1>2. QED
  BY <1>1, TypeStep, PTL DEF Spec

-----------------------------------------------------------------------------
(* Nothing is passed on twice, on a network that keeps its order and until    *)
(* numbers wrap.                                                              *)

LEMMA Sizes ==
  ASSUME TypeOK
  PROVE  /\ TrackerBits \in Nat /\ TrackerBits >= 1 /\ MaxSent \in Nat /\ SequenceMod \in Nat
         /\ SequenceMod >= 4 * TrackerBits
         /\ MaxPermit \in Nat /\ MaxPermit <= TrackerBits
         /\ nextSend \in Nat /\ nextSend <= MaxSent
         /\ tracker.base \in Nat /\ tracker.base < SequenceMod
         /\ Packets \subseteq Nat /\ \A n \in Packets : n < MaxSent
         /\ \A n \in Nat : n < MaxSent => n \in Packets
<1>1. TrackerBits \in Nat \ {0} /\ SequenceMod \in Nat
  BY TrackerAssumption
<1>2. tracker.base \in 0 .. SequenceMod - 1
  BY DEF TypeOK, Tracker, Seq32
<1>3. QED
  BY <1>1, <1>2, TrackerAssumption, WindowAssumption DEF TypeOK, Packets

\* While numbers have not wrapped, the window is the TRACKER_BITS numbers from
\* base on.
LEMMA WindowIs ==
  ASSUME TypeOK, NoWrap, tracker.base < MaxSent + TrackerBits, NEW n \in Packets
  PROVE  InWindow(tracker, n) <=> tracker.base <= n /\ n < tracker.base + TrackerBits
<1>1. /\ TrackerBits \in Nat /\ MaxSent \in Nat /\ SequenceMod \in Nat
      /\ tracker.base \in Nat /\ tracker.base < SequenceMod
      /\ n \in Nat /\ n < MaxSent
      /\ MaxSent + 2 * TrackerBits <= SequenceMod
  BY Sizes DEF NoWrap
<1>2. n \in Seq32 /\ tracker.base \in Seq32
  BY <1>1 DEF Seq32
<1>3. Delta(n, tracker.base) = IF tracker.base <= n THEN n - tracker.base
                               ELSE n - tracker.base + SequenceMod
  BY <1>2, DeltaOfSmall
<1>4. QED
  BY <1>1, <1>3 DEF InWindow

\* Taking the first packet from the queue keeps the order of the others; what
\* it changes lies below every first copy behind it.
LEMMA TailLeads ==
  ASSUME TypeOK, TypeOK', FirstCopyLeads, dataNet # <<>>, dataNet' = Tail(dataNet),
         nextSend' = nextSend,
         \A m \in Packets : m # dataNet[1].n => passed'[m] = passed[m]
  PROVE  FirstCopyLeads'
<1>1. /\ dataNet \in Seq(Header) /\ Len(dataNet) \in Nat /\ 1 \in DOMAIN dataNet
      /\ DOMAIN dataNet = 1 .. Len(dataNet)
      /\ DOMAIN dataNet' = 1 .. Len(dataNet) - 1
      /\ \A i \in 1 .. Len(dataNet) - 1 : dataNet'[i] = dataNet[i + 1]
  BY DEF TypeOK
<1>2. \A i \in DOMAIN dataNet : dataNet[i].n \in Nat
  <2>1. \A i \in DOMAIN dataNet : dataNet[i] \in Header
    BY <1>1
  <2>2. QED
    BY <2>1, Sizes DEF Header
<1>3. ASSUME NEW i \in DOMAIN dataNet'
      PROVE  /\ dataNet'[i].n < nextSend'
             /\ ~dataNet'[i].resent =>
                  /\ \A j \in 1 .. i - 1 : dataNet'[j].n < dataNet'[i].n
                  /\ \A m \in Packets : dataNet'[i].n <= m => passed'[m] = 0
  <2>1. i + 1 \in DOMAIN dataNet /\ dataNet'[i] = dataNet[i + 1]
    BY <1>1
  <2>2. dataNet[i + 1].n < nextSend
    BY <2>1 DEF FirstCopyLeads
  <2>3. ASSUME ~dataNet[i + 1].resent
        PROVE  /\ \A j \in 1 .. i : dataNet[j].n < dataNet[i + 1].n
               /\ \A m \in Packets : dataNet[i + 1].n <= m => passed[m] = 0
    <3>1. \A j \in 1 .. (i + 1) - 1 : dataNet[j].n < dataNet[i + 1].n
      BY <2>1, <2>3 DEF FirstCopyLeads
    <3>2. (i + 1) - 1 = i
      BY <1>1
    <3>3. QED
      BY <2>1, <2>3, <3>1, <3>2 DEF FirstCopyLeads
  <2>4. ASSUME ~dataNet[i + 1].resent, NEW j \in 1 .. i - 1
        PROVE  dataNet'[j].n < dataNet[i + 1].n
    <3>1. j \in 1 .. Len(dataNet) - 1 /\ j + 1 \in 1 .. i
      BY <1>1
    <3>2. QED
      BY <1>1, <2>3, <2>4, <3>1
  <2>5. ASSUME ~dataNet[i + 1].resent, NEW m \in Packets, dataNet[i + 1].n <= m
        PROVE  passed'[m] = 0
    <3>1. dataNet[1].n < dataNet[i + 1].n
      BY <1>1, <2>3, <2>5
    <3>2. m # dataNet[1].n
      BY <1>1, <1>2, <2>1, <2>5, <3>1, Sizes
    <3>3. QED
      BY <2>3, <2>5, <3>2
  <2>6. QED
    BY <2>1, <2>2, <2>4, <2>5
<1>4. QED
  BY <1>3 DEF FirstCopyLeads

\* A burst adds first copies with numbers of their own, and resent packets that
\* were sent before.
LEMMA SendDataLeads ==
  ASSUME TypeOK, FirstCopyLeads, PassedIsRecorded, resendList \subseteq 0 .. nextSend - 1,
         SendData
  PROVE  FirstCopyLeads'
<1>1. PICK missing \in SUBSET Unseen(permit), next \in nextSend .. MaxSent :
           /\ dataNet' = dataNet \o Outgoing(missing, next)
           /\ nextSend' = next
  BY SendDataChoice
<1> DEFINE out == Outgoing(missing, next)
           c == Cardinality(missing)
           len == Len(dataNet)
<1>2. /\ c \in Nat
      /\ out \in Seq(Header) /\ Len(out) = c + next - nextSend
      /\ \A i \in 1 .. c : out[i].n \in missing /\ out[i].resent
      /\ \A i \in c + 1 .. c + next - nextSend :
           out[i] = [n |-> nextSend + i - c - 1, resent |-> FALSE]
  BY OutgoingIs DEF Unseen
<1> HIDE DEF out, c
<1>3. /\ dataNet \in Seq(Header) /\ len \in Nat /\ DOMAIN dataNet = 1 .. len
      /\ nextSend \in Nat /\ next \in Nat /\ nextSend <= next
      /\ passed' = passed
  BY Sizes DEF TypeOK, SendData
<1>0. /\ c \in Nat /\ len \in Nat /\ nextSend \in Nat /\ next \in Nat /\ nextSend <= next
      /\ Len(out) = c + next - nextSend
  BY <1>2, <1>3
<1>4. /\ DOMAIN dataNet' = 1 .. len + Len(out)
      /\ \A i \in 1 .. len : dataNet'[i] = dataNet[i]
      /\ \A i \in len + 1 .. len + Len(out) : dataNet'[i] = out[i - len]
  <2>1. dataNet' = dataNet \o out
    BY <1>1 DEF out
  <2> HIDE DEF len
  <2>2. /\ dataNet' \in Seq(Header) /\ Len(dataNet') = len + Len(out)
        /\ \A i \in 1 .. len + Len(out) : dataNet'[i] = IF i <= len THEN dataNet[i] ELSE out[i - len]
    BY <1>2, <1>3, <2>1, ConcatProperties DEF len
  <2>3. Len(out) \in Nat
    BY <1>2
  <2>4. QED
    BY <1>3, <2>2, <2>3
<1> HIDE DEF len
\* Everything that was there, and what is resent, lies below nextSend.
<1>5. ASSUME NEW i \in 1 .. len + c PROVE dataNet'[i].n < nextSend /\ dataNet'[i].n \in Nat
  <2>1. CASE i <= len
    <3>1. i \in 1 .. len /\ dataNet[i] \in Header
      BY <1>2, <1>3, <2>1
    <3>2. dataNet[i].n < nextSend /\ dataNet[i].n \in Nat
      BY <1>3, <3>1, Sizes DEF FirstCopyLeads, Header
    <3>3. QED
      BY <1>4, <3>1, <3>2
  <2>2. CASE i > len
    <3>1. i - len \in 1 .. c /\ i \in len + 1 .. len + Len(out)
      BY <1>0, <2>2
    <3>2. out[i - len].n \in 0 .. nextSend - 1
      BY <1>2, <3>1 DEF Unseen
    <3>3. QED
      BY <1>3, <1>4, <3>1, <3>2
  <2>3. QED
    BY <1>2, <1>3, <2>1, <2>2
<1>6. ASSUME NEW i \in len + c + 1 .. len + Len(out)
      PROVE  dataNet'[i].n = nextSend + (i - len - c) - 1 /\ ~dataNet'[i].resent
  <2> DEFINE k == i - len
  <2>1. /\ k \in c + 1 .. c + next - nextSend /\ i \in len + 1 .. len + Len(out)
        /\ nextSend + k - c - 1 = nextSend + (i - len - c) - 1
    BY <1>0
  <2>2. dataNet'[i] = out[k]
    BY <1>4, <2>1
  <2> HIDE DEF k
  <2>3. out[k] = [n |-> nextSend + k - c - 1, resent |-> FALSE]
    BY <1>2, <2>1
  <2>4. QED
    BY <2>1, <2>2, <2>3
<1>7. \A m \in Packets : nextSend <= m => passed[m] = 0
  <2>1. \A m \in Packets : passed[m] \in Nat
    BY DEF TypeOK
  <2>2. QED
    BY <1>3, <2>1, Sizes, SMTT(30) DEF PassedIsRecorded
<1>8. ASSUME NEW i \in DOMAIN dataNet'
      PROVE  /\ dataNet'[i].n < nextSend'
             /\ ~dataNet'[i].resent =>
                  /\ \A j \in 1 .. i - 1 : dataNet'[j].n < dataNet'[i].n
                  /\ \A m \in Packets : dataNet'[i].n <= m => passed'[m] = 0
  <2>0. i \in Int /\ 1 <= i /\ i <= len + Len(out)
    BY <1>0, <1>4
  <2>1. CASE i <= len
    <3>1. i \in 1 .. len /\ i \in DOMAIN dataNet
      BY <1>2, <1>3, <1>4, <2>1
    <3>2. dataNet'[i] = dataNet[i] /\ \A j \in 1 .. i - 1 : dataNet'[j] = dataNet[j]
      BY <1>3, <1>4, <3>1
    <3>3. dataNet'[i].n < nextSend'
      BY <1>1, <1>2, <1>3, <1>5, <3>1
    <3>4. QED
      BY <1>3, <3>1, <3>2, <3>3 DEF FirstCopyLeads
  <2>2. CASE i > len /\ i <= len + c
    <3>1. i \in 1 .. len + c /\ i - len \in 1 .. c /\ i \in len + 1 .. len + Len(out)
      BY <1>0, <2>0, <2>2
    <3>2. dataNet'[i].resent
      BY <1>2, <1>4, <3>1
    <3>3. dataNet'[i].n < nextSend /\ dataNet'[i].n \in Nat
      BY <1>5, <3>1
    <3>4. QED
      BY <1>0, <1>1, <3>2, <3>3
  <2>3. CASE i > len + c
    <3>1. i \in len + c + 1 .. len + Len(out)
      BY <1>2, <1>3, <1>4, <2>3
    <3>2. dataNet'[i].n = nextSend + (i - len - c) - 1
      BY <1>6, <3>1
    <3>3. dataNet'[i].n < next /\ nextSend <= dataNet'[i].n /\ dataNet'[i].n \in Nat
      BY <1>0, <3>1, <3>2
    <3>4. ASSUME NEW j \in 1 .. i - 1 PROVE dataNet'[j].n < dataNet'[i].n
      <4>1. CASE j <= len + c
        <5>1. j \in 1 .. len + c
          BY <1>0, <4>1
        <5>2. QED
          BY <1>3, <1>5, <3>3, <5>1
      <4>2. CASE j > len + c
        <5>1. j \in len + c + 1 .. len + Len(out)
          BY <1>0, <3>1, <4>2
        <5>2. dataNet'[j].n = nextSend + (j - len - c) - 1
          BY <1>6, <5>1
        <5>3. j < i
          BY <1>0, <3>1
        <5>4. QED
          BY <1>0, <3>1, <3>2, <5>1, <5>2, <5>3
      <4>3. QED
        BY <1>0, <4>1, <4>2
    <3>5. ASSUME NEW m \in Packets, dataNet'[i].n <= m PROVE passed'[m] = 0
      BY <1>3, <1>7, <3>3, <3>5, Sizes
    <3>6. QED
      BY <1>1, <3>3, <3>4, <3>5
  <2>4. QED
    BY <1>2, <1>3, <1>4, <2>1, <2>2, <2>3
<1>9. QED
  BY <1>8 DEF FirstCopyLeads

\* What arrives is inside the window and recorded, or an old copy that is
\* ignored, or the tracker starts again behind everything passed on.
Records(n) ==
  /\ tracker.base <= n /\ n < tracker.base + TrackerBits
  /\ tracker' = Record(tracker, n)
  /\ \/ Slot(n) \in tracker.seen /\ passed' = passed
     \/ Slot(n) \notin tracker.seen /\ passed[n] = 0 /\ passed' = [passed EXCEPT ![n] = 1]

Ignores(n) ==
  /\ n < tracker.base \/ tracker.base + TrackerBits <= n
  /\ tracker' = tracker /\ passed' = passed

StartsAgain(n) ==
  /\ n < tracker.base \/ tracker.base + TrackerBits <= n
  /\ ~dataNet[1].resent \/ tracker.base = 0
  /\ tracker'.base = n + 1 /\ tracker'.seen = {}
  /\ \A m \in Packets : passed[m] > 0 => m < n
  /\ passed[n] = 0 /\ passed' = [passed EXCEPT ![n] = 1]

LEMMA ReceiveResult ==
  ASSUME TypeOK, FirstCopyLeads, PassedIsRecorded, InOrder, NoWrap,
         NEW i \in DOMAIN dataNet, ReceiveAt(i)
  PROVE  LET n == dataNet[1].n IN
         /\ n \in Packets /\ n < nextSend /\ dataNet # <<>> /\ dataNet' = Tail(dataNet)
         /\ Records(n) \/ Ignores(n) \/ StartsAgain(n)
<1> DEFINE n == dataNet[1].n
           resent == dataNet[1].resent
           b == tracker.base
<1>1. i = 1 /\ 1 \in DOMAIN dataNet /\ dataNet # <<>>
  BY DEF ReceiveAt, TypeOK
<1>2. n \in Packets /\ n < nextSend /\ dataNet' = Tail(dataNet)
  BY <1>1, HeadTaken DEF Header, ReceiveAt, FirstCopyLeads
<1>3. n % SequenceMod = n
  BY <1>2, PacketModulo
<1>4. /\ tracker' = NoteSeen(tracker, n, resent)
      /\ passed' = IF Duplicate(tracker, n, resent) \/ passed[n] = 2
                   THEN passed ELSE [passed EXCEPT ![n] = @ + 1]
  BY <1>1, <1>3 DEF ReceiveAt
<1>5. passed[n] \in 0 .. 2
  BY <1>2 DEF TypeOK
<1>6. InWindow(tracker, n) <=> b <= n /\ n < b + TrackerBits
  BY <1>2, WindowIs DEF PassedIsRecorded
<1>7. n \in Nat /\ b \in Nat /\ TrackerBits \in Nat
  BY <1>2, Sizes
<1>8. passed[n] # 0 => n < b \/ (n < b + TrackerBits /\ Slot(n) \in tracker.seen)
  BY <1>2, <1>5 DEF PassedIsRecorded, Recorded
<1>9. ~resent => \A m \in Packets : n <= m => passed[m] = 0
  BY <1>1 DEF FirstCopyLeads
<1> HIDE DEF n, resent, b
<1>10. CASE InWindow(tracker, n)
  <2>1. b <= n /\ n < b + TrackerBits /\ tracker' = Record(tracker, n)
    BY <1>4, <1>6, <1>10 DEF NoteSeen
  <2>2. Duplicate(tracker, n, resent) <=> Slot(n) \in tracker.seen
    BY <1>10 DEF Duplicate
  <2>3. Slot(n) \notin tracker.seen => passed[n] = 0
    BY <1>7, <1>8, <2>1
  <2>4. ASSUME passed[n] = 0
        PROVE  [passed EXCEPT ![n] = @ + 1] = [passed EXCEPT ![n] = 1]
    BY <2>4
  <2>5. CASE Slot(n) \in tracker.seen
    <3>1. passed' = passed
      BY <1>4, <2>2, <2>5
    <3>2. QED
      BY <1>1, <1>2, <2>1, <2>5, <3>1 DEF Records, n, b
  <2>6. CASE Slot(n) \notin tracker.seen
    <3>1. passed[n] = 0 /\ passed' = [passed EXCEPT ![n] = 1]
      BY <1>4, <2>2, <2>3, <2>4, <2>6
    <3>2. QED
      BY <1>1, <1>2, <2>1, <2>6, <3>1 DEF Records, n, b
  <2>7. QED
    BY <2>5, <2>6
<1>11. CASE ~InWindow(tracker, n) /\ IgnoreResend(tracker, resent)
  <2>1. tracker' = tracker /\ passed' = passed
    BY <1>4, <1>11 DEF NoteSeen, Duplicate
  <2>2. n < b \/ b + TrackerBits <= n
    BY <1>6, <1>7, <1>11
  <2>3. QED
    BY <1>1, <1>2, <2>1, <2>2 DEF Ignores, n, b
<1>12. CASE ~InWindow(tracker, n) /\ ~IgnoreResend(tracker, resent)
  <2>1. tracker' = Restart(n) /\ ~Duplicate(tracker, n, resent)
    BY <1>4, <1>12 DEF NoteSeen, Duplicate
  <2>2. n < b \/ b + TrackerBits <= n
    BY <1>6, <1>7, <1>12
  <2>3. ~resent \/ b = 0
    BY <1>12 DEF IgnoreResend, b
  <2>4. tracker'.base = n + 1 /\ tracker'.seen = {}
    <3>1. n + 1 < SequenceMod /\ n + 1 \in Int /\ SequenceMod \in Nat \ {0} /\ 0 <= n + 1
      BY <1>2, <1>7, Sizes DEF NoWrap
    <3>2. (n + 1) % SequenceMod = n + 1
      BY <3>1, SmallModulo
    <3>3. QED
      BY <2>1, <3>2 DEF Restart
  <2>5. ASSUME NEW m \in Packets, passed[m] > 0 PROVE m < n
    <3>1. m \in Nat /\ passed[m] \in Nat
      BY Sizes DEF TypeOK
    <3>2. CASE ~resent
      BY <1>7, <1>9, <2>5, <3>1, <3>2
    <3>3. CASE b = 0
      <4>1. m < b \/ m < b + TrackerBits
        BY <2>5 DEF PassedIsRecorded, Recorded, b
      <4>2. QED
        BY <1>7, <2>2, <3>1, <3>3, <4>1
    <3>4. QED
      BY <2>3, <3>2, <3>3
  <2>6. passed[n] = 0
    BY <1>2, <1>5, <1>7, <2>5
  <2>7. passed' = [passed EXCEPT ![n] = 1]
    BY <1>4, <2>1, <2>6
  <2>8. QED
    BY <1>1, <1>2, <2>2, <2>3, <2>4, <2>5, <2>6, <2>7 DEF StartsAgain, n, b, resent
<1>13. QED
  BY <1>10, <1>11, <1>12

\* Nothing is passed on that is recorded, and whatever is passed on is.
LEMMA ReceiveOnce ==
  ASSUME TypeOK, TypeOK', FirstCopyLeads, PassedIsRecorded, PassedOnce, InOrder, NoWrap,
         NEW i \in DOMAIN dataNet, ReceiveAt(i)
  PROVE  FirstCopyLeads' /\ PassedIsRecorded' /\ PassedOnce'
<1> DEFINE n == dataNet[1].n
           b == tracker.base
<1>1. /\ n \in Packets /\ n < nextSend /\ dataNet # <<>> /\ dataNet' = Tail(dataNet)
      /\ Records(n) \/ Ignores(n) \/ StartsAgain(n)
  BY ReceiveResult
<1>2. nextSend' = nextSend
  BY DEF ReceiveAt
<1>3. passed' = passed \/ (passed[n] = 0 /\ passed' = [passed EXCEPT ![n] = 1])
  BY <1>1 DEF Records, Ignores, StartsAgain
<1>4. passed \in [Packets -> 0 .. 2] /\ passed' \in [Packets -> 0 .. 2]
  BY DEF TypeOK
<1>5. PassedOnce'
  BY <1>1, <1>3, <1>4 DEF PassedOnce
<1>6. \A m \in Packets : m # n => passed'[m] = passed[m]
  BY <1>3, <1>4
<1>7. FirstCopyLeads'
  BY <1>1, <1>2, <1>6, TailLeads
<1>8. /\ b \in Nat /\ TrackerBits \in Nat /\ MaxSent \in Nat /\ SequenceMod \in Nat
      /\ tracker \in Tracker /\ n \in Nat /\ n < MaxSent
      /\ b < MaxSent + TrackerBits /\ MaxSent + 2 * TrackerBits <= SequenceMod
      /\ \A m \in Packets : m \in Nat
  BY <1>1, Sizes DEF TypeOK, PassedIsRecorded, NoWrap
<1>9. \A m \in Packets : passed[m] > 0 =>
        m < nextSend /\ (m < b \/ (m < b + TrackerBits /\ Slot(m) \in tracker.seen))
  BY DEF PassedIsRecorded, Recorded
<1>10. \A m \in Packets : passed'[m] > 0 => passed[m] > 0 \/ m = n
  BY <1>3, <1>4
<1> HIDE DEF n, b
<1>11. CASE Records(n)
  <2> DEFINE nb == tracker'.base
  <2>1. /\ b <= n /\ n < b + TrackerBits /\ tracker' = Record(tracker, n)
    BY <1>11 DEF Records, b
  <2>2. /\ nb \in b .. b + TrackerBits /\ (nb = b \/ n = b)
        /\ \A m \in nb .. b + TrackerBits - 1 :
             m = n \/ Slot(m) \in tracker.seen => Slot(m) \in tracker'.seen
    <3>1. b + TrackerBits < SequenceMod /\ tracker.base = b
      BY <1>8 DEF b
    <3>2. QED
      BY <1>8, <2>1, <3>1, RecordResult
  <2> HIDE DEF nb
  <2>3. nb < MaxSent + TrackerBits
    BY <1>8, <2>2
  <2>4. ASSUME NEW m \in Packets, passed'[m] > 0
        PROVE  m < nextSend /\ (m < nb \/ (m < nb + TrackerBits /\ Slot(m) \in tracker'.seen))
    <3>1. m < nextSend /\ (m < b + TrackerBits) /\ (m < b \/ m = n \/ Slot(m) \in tracker.seen)
      BY <1>1, <1>8, <1>9, <1>10, <2>1, <2>4 DEF n
    <3>2. m < nb \/ m \in nb .. b + TrackerBits - 1
      BY <1>8, <2>2, <3>1
    <3>3. nb <= m => Slot(m) \in tracker'.seen
      BY <1>8, <2>2, <3>1, <3>2
    <3>4. QED
      BY <1>8, <2>2, <3>1, <3>2, <3>3
  <2>5. QED
    BY <1>2, <1>5, <1>7, <2>3, <2>4 DEF PassedIsRecorded, Recorded, nb
<1>12. CASE Ignores(n)
  BY <1>2, <1>5, <1>7, <1>12 DEF Ignores, PassedIsRecorded, Recorded
<1>13. CASE StartsAgain(n)
  <2>1. tracker'.base = n + 1 /\ \A m \in Packets : passed[m] > 0 => m < n
    BY <1>13 DEF StartsAgain
  <2>2. tracker'.base < MaxSent + TrackerBits
    BY <1>8, <2>1, Sizes
  <2>3. ASSUME NEW m \in Packets, passed'[m] > 0
        PROVE  m < nextSend /\ m < tracker'.base
    BY <1>1, <1>8, <1>9, <1>10, <2>1, <2>3 DEF n
  <2>4. QED
    BY <1>2, <1>5, <1>7, <2>2, <2>3 DEF PassedIsRecorded, Recorded
<1>14. QED
  BY <1>1, <1>11, <1>12, <1>13 DEF n

\* What holds across restarts of the sender too.
Once ==
  /\ TypeOK /\ resendList \subseteq 0 .. nextSend - 1
  /\ FirstCopyLeads /\ PassedIsRecorded /\ PassedOnce

LEMMA OnceInit ==
  ASSUME Init
  PROVE  Once
<1>1. TypeOK
  <2>1. SequenceMod \in Nat /\ SequenceMod >= 4 /\ MaxSent \in Nat /\ NetLimit \in Nat
        /\ MaxRestarts \in Nat
    BY TrackerAssumption, WindowAssumption
  <2>2. QED
    BY <2>1 DEF Init, TypeOK, NewTracker, Tracker, Seq32
<1>2. resendList \subseteq 0 .. nextSend - 1 /\ FirstCopyLeads
  BY DEF Init, FirstCopyLeads
<1>3. tracker.base < MaxSent + TrackerBits
  BY <1>1, Sizes DEF Init, NewTracker
<1>4. \A n \in Packets : passed[n] = 0
  BY DEF Init
<1>5. QED
  BY <1>1, <1>2, <1>3, <1>4 DEF Once, PassedIsRecorded, PassedOnce

\* The resend list after a step of the sender: what it kept and what it added.
LEMMA ListStaysSent ==
  ASSUME TypeOK, resendList \subseteq 0 .. nextSend - 1, SendData
  PROVE  resendList' \subseteq 0 .. nextSend' - 1
<1>1. PICK next \in nextSend .. MaxSent :
         nextSend' = next /\ resendList' = Unseen(permit) \cup (nextSend .. next - 1)
  BY SendDataChoice
<1>2. nextSend \in Nat /\ next \in Nat /\ nextSend <= next
  BY <1>1, Sizes
<1>3. \A n \in Unseen(permit) : n \in 0 .. nextSend - 1
  BY DEF Unseen
<1>4. \A n \in nextSend .. next - 1 : n \in 0 .. next - 1
  BY <1>2
<1>5. \A n \in 0 .. nextSend - 1 : n \in 0 .. next - 1
  BY <1>2
<1>6. QED
  BY <1>1, <1>3, <1>4, <1>5

LEMMA OnceStep ==
  ASSUME Once, InOrder, NoWrap, [Next]_vars
  PROVE  Once'
<1>1. TypeOK /\ TypeOK'
  BY TypeStep DEF Once
<1>2. CASE GrantPermit \/ LosePermit \/ UNCHANGED vars
  <2>1. UNCHANGED <<nextSend, resendList, dataNet, tracker, passed, restarts>>
    BY <1>2 DEF GrantPermit, LosePermit, vars
  <2>2. QED
    BY <1>1, <2>1 DEF Once, FirstCopyLeads, PassedIsRecorded, PassedOnce, Recorded
<1>3. CASE SendData
  <2>1. UNCHANGED <<tracker, passed, restarts>>
    BY <1>3 DEF SendData
  <2>2. nextSend' \in Nat /\ nextSend <= nextSend'
    <3>1. nextSend' \in nextSend .. MaxSent
      BY <1>1, <1>3, SendDataChoice
    <3>2. QED
      BY <1>1, <3>1, Sizes
  <2>3. FirstCopyLeads' /\ resendList' \subseteq 0 .. nextSend' - 1
    BY <1>1, <1>3, SendDataLeads, ListStaysSent DEF Once
  <2>4. PassedIsRecorded'
    <3>1. \A n \in Packets : n < nextSend => n < nextSend'
      BY <1>1, <2>2, Sizes
    <3>2. QED
      BY <2>1, <3>1 DEF Once, PassedIsRecorded, Recorded
  <2>5. QED
    BY <1>1, <2>1, <2>3, <2>4 DEF Once, PassedOnce
<1>4. ASSUME NEW n \in Packets, Receive(n) PROVE Once'
  <2>1. PICK i \in DOMAIN dataNet : ReceiveAt(i)
    BY <1>4 DEF Receive
  <2>2. FirstCopyLeads' /\ PassedIsRecorded' /\ PassedOnce'
    BY <1>1, <2>1, ReceiveOnce DEF Once
  <2>3. UNCHANGED <<nextSend, resendList>>
    BY <2>1 DEF ReceiveAt
  <2>4. QED
    BY <1>1, <2>2, <2>3 DEF Once
<1>5. CASE LoseData
  <2>1. /\ dataNet # <<>> /\ dataNet' = Tail(dataNet)
        /\ UNCHANGED <<nextSend, resendList, permit, tracker, passed, restarts>>
    BY <1>5 DEF LoseData
  <2>2. FirstCopyLeads'
    BY <1>1, <2>1, TailLeads DEF Once
  <2>3. QED
    BY <1>1, <2>1, <2>2 DEF Once, PassedIsRecorded, PassedOnce, Recorded
<1>6. CASE RestartSender
  <2>1. /\ nextSend' = 0 /\ resendList' = {} /\ dataNet' = <<>> /\ tracker' = tracker
        /\ passed' = [n \in Packets |-> 0]
    BY <1>6 DEF RestartSender
  <2>2. \A n \in Packets : passed'[n] = 0
    BY <2>1
  <2>3. FirstCopyLeads' /\ PassedOnce'
    BY <2>1, <2>2 DEF FirstCopyLeads, PassedOnce
  <2>4. PassedIsRecorded'
    BY <2>1, <2>2 DEF Once, PassedIsRecorded
  <2>5. QED
    BY <1>1, <2>1, <2>3, <2>4 DEF Once
<1>7. QED
  BY <1>2, <1>3, <1>4, <1>5, <1>6 DEF Next

\* noteSeen returns "whether we had already seen it" (udpsha.hpp:90): on a
\* network that keeps its order, and until numbers wrap, no packet reaches the
\* collator twice, whatever is lost and resent and however often the sender
\* restarts.
THEOREM NothingTwice ==
  ASSUME InOrder, NoWrap
  PROVE  Spec => []PassedOnce
<1>1. Init => Once
  BY OnceInit
<1>2. Once /\ [Next]_vars => Once'
  BY OnceStep
<1>3. Once => PassedOnce
  BY DEF Once
<1>4. QED
  BY <1>1, <1>2, <1>3, PTL DEF Spec

-----------------------------------------------------------------------------
(* The window: until the sender restarts, the tracker and the resend list     *)
(* agree with what was passed on.                                             *)

\* Near base, the tracker's answer is what it has recorded.
LEMMA HasSeenIs ==
  ASSUME TypeOK, NoWrap, tracker.base < MaxSent + TrackerBits, NEW n \in Packets,
         n < tracker.base + TrackerBits, tracker.base <= n + TrackerBits
  PROVE  HasSeen(tracker, n) <=> Recorded(n)
<1> DEFINE b == tracker.base
           half == SequenceMod \div 2
<1>1. /\ TrackerBits \in Nat /\ TrackerBits >= 1 /\ MaxSent \in Nat /\ SequenceMod \in Nat
      /\ SequenceMod >= 4 * TrackerBits
      /\ b \in Nat /\ b < SequenceMod /\ n \in Nat /\ n < MaxSent
      /\ MaxSent + 2 * TrackerBits <= SequenceMod
      /\ n < b + TrackerBits /\ b <= n + TrackerBits
  BY Sizes DEF NoWrap
<1>2. half \in Nat /\ 2 * half <= SequenceMod /\ SequenceMod <= 2 * half + 1
  BY <1>1
<1>3. Delta(n, b) = IF b <= n THEN n - b ELSE n - b + SequenceMod
  BY <1>1, DeltaOfSmall DEF Seq32
<1>4. InWindow(tracker, n) <=> b <= n /\ n < b + TrackerBits
  BY WindowIs
<1>5. HasSeen(tracker, n) <=> \/ InWindow(tracker, n) /\ Slot(n) \in tracker.seen
                              \/ Delta(n, b) >= half
  BY DEF HasSeen
<1>6. Recorded(n) <=> n < b \/ (n < b + TrackerBits /\ Slot(n) \in tracker.seen)
  BY DEF Recorded
<1> HIDE DEF b, half
<1>7. CASE b <= n
  <2>1. Delta(n, b) < half
    BY <1>1, <1>2, <1>3, <1>7
  <2>2. ~(Delta(n, b) >= half) /\ ~(n < b)
    BY <1>1, <1>2, <1>3, <1>7
  <2>3. QED
    BY <1>1, <1>4, <1>5, <1>6, <1>7, <2>2
<1>8. CASE n < b
  BY <1>1, <1>2, <1>3, <1>5, <1>6, <1>8
<1>9. QED
  BY <1>1, <1>7, <1>8

\* The oldest packet missing is in the resend list: base is close to nextSend.
LEMMA NextIsClose ==
  ASSUME TypeOK, PassedIsRecorded, WindowHolds
  PROVE  nextSend <= tracker.base + TrackerBits
<1> DEFINE b == tracker.base
<1>1. nextSend \in Nat /\ b \in Nat /\ TrackerBits \in Nat /\ nextSend <= MaxSent /\ MaxSent \in Nat
  BY Sizes
<1>2. CASE b < nextSend
  <2>1. b \in Packets /\ b \in 0 .. nextSend - 1
    BY <1>1, <1>2, Sizes
  <2>2. ~ Recorded(b)
    BY <1>1 DEF Recorded, WindowHolds
  <2>3. passed[b] = 0
    BY <2>1, <2>2 DEF PassedIsRecorded, TypeOK
  <2>4. b \in resendList
    BY <2>1, <2>3 DEF WindowHolds
  <2>5. nextSend - b <= TrackerBits
    BY <2>4 DEF WindowHolds
  <2>6. QED
    BY <1>1, <2>5
<1>3. QED
  BY <1>1, <1>2

\* What the tracker records was passed on.
LEMMA RecordedIsPassed ==
  ASSUME TypeOK, WindowHolds, NEW n \in Packets, Recorded(n)
  PROVE  passed[n] > 0
<1>1. n \in Nat /\ tracker.base \in Nat /\ TrackerBits \in Nat
  BY Sizes
<1>2. CASE n < tracker.base
  <2>1. n \in 0 .. tracker.base - 1
    BY <1>1, <1>2
  <2>2. QED
    BY <2>1 DEF WindowHolds
<1>3. CASE tracker.base <= n
  <2>1. n \in tracker.base .. tracker.base + TrackerBits - 1 /\ Slot(n) \in tracker.seen
    BY <1>1, <1>3 DEF Recorded
  <2>2. QED
    BY <2>1 DEF WindowHolds
<1>4. QED
  BY <1>1, <1>2, <1>3

\* Inside the window, seen is the same as passed on.
LEMMA SeenIsPassed ==
  ASSUME TypeOK, NoWrap, PassedIsRecorded, WindowHolds, NEW n \in Packets,
         n < nextSend, nextSend - n <= TrackerBits
  PROVE  HasSeen(tracker, n) <=> passed[n] > 0
<1>1. /\ nextSend \in Nat /\ TrackerBits \in Nat /\ n \in Nat /\ tracker.base \in Nat
      /\ nextSend <= tracker.base + TrackerBits /\ tracker.base <= nextSend
  BY Sizes, NextIsClose DEF WindowHolds
<1>2. n < tracker.base + TrackerBits /\ tracker.base <= n + TrackerBits
  BY <1>1
<1>3. HasSeen(tracker, n) <=> Recorded(n)
  BY <1>2, HasSeenIs DEF PassedIsRecorded
<1>4. QED
  BY <1>3, RecordedIsPassed DEF PassedIsRecorded

\* A packet that arrives before the sender has restarted is inside the window or
\* an old copy: the tracker never starts again.
LEMMA NoNewStart ==
  ASSUME TypeOK, FirstCopyLeads, PassedIsRecorded, InOrder, NoWrap, WindowHolds,
         NEW i \in DOMAIN dataNet, ReceiveAt(i)
  PROVE  LET n == dataNet[1].n IN
         n \in Packets /\ n < nextSend /\ (Records(n) \/ Ignores(n))
<1> DEFINE n == dataNet[1].n
<1>1. n \in Packets /\ n < nextSend /\ (Records(n) \/ Ignores(n) \/ StartsAgain(n))
  BY ReceiveResult
<1>2. n \in Nat /\ nextSend \in Nat /\ tracker.base \in Nat /\ TrackerBits \in Nat
      /\ nextSend <= tracker.base + TrackerBits
  BY <1>1, Sizes, NextIsClose
<1> HIDE DEF n
<1>3. ASSUME StartsAgain(n) PROVE FALSE
  <2>1. n < tracker.base /\ passed[n] = 0
    BY <1>1, <1>2, <1>3 DEF StartsAgain
  <2>2. n \in 0 .. tracker.base - 1
    BY <1>2, <2>1
  <2>3. passed[n] > 0
    BY <2>2 DEF WindowHolds
  <2>4. QED
    BY <2>1, <2>3
<1>4. QED
  BY <1>1, <1>3 DEF n

LEMMA ReceiveKeepsWindow ==
  ASSUME TypeOK, TypeOK', FirstCopyLeads, PassedIsRecorded, InOrder, NoWrap, WindowHolds,
         NEW i \in DOMAIN dataNet, ReceiveAt(i)
  PROVE  WindowHolds'
<1> DEFINE n == dataNet[1].n
           b == tracker.base
           nb == tracker'.base
<1>1. n \in Packets /\ n < nextSend /\ (Records(n) \/ Ignores(n))
  BY NoNewStart
<1>2. UNCHANGED <<nextSend, resendList, permit, restarts>>
  BY DEF ReceiveAt
<1>3. /\ b \in Nat /\ TrackerBits \in Nat /\ n \in Nat /\ nextSend \in Nat /\ nextSend <= MaxSent
      /\ MaxSent \in Nat /\ SequenceMod \in Nat
      /\ MaxSent + 2 * TrackerBits <= SequenceMod /\ b < MaxSent + TrackerBits
      /\ tracker \in Tracker
  BY <1>1, Sizes DEF NoWrap, PassedIsRecorded, TypeOK
<1>4. CASE Ignores(n)
  <2>1. UNCHANGED <<nextSend, resendList, permit, tracker, passed>>
    BY <1>2, <1>4 DEF Ignores
  <2>2. QED
    BY <2>1 DEF WindowHolds
<1>5. CASE Records(n)
  <2> HIDE DEF n, b, nb
  <2>1. /\ b <= n /\ n < b + TrackerBits /\ tracker' = Record(tracker, n)
        /\ \/ Slot(n) \in tracker.seen /\ passed' = passed
           \/ passed[n] = 0 /\ passed' = [passed EXCEPT ![n] = 1]
    BY <1>5 DEF Records, b
  <2>2. Slot(b) \notin tracker.seen
    BY DEF WindowHolds, b
  <2>3. /\ nb \in b .. b + TrackerBits
        /\ \A m \in b .. nb - 1 : m = n \/ Slot(m) \in tracker.seen
        /\ \A m \in nb .. nb + TrackerBits - 1 :
             Slot(m) \in tracker'.seen =>
               m < b + TrackerBits /\ (m = n \/ Slot(m) \in tracker.seen)
        /\ Slot(nb) \notin tracker'.seen
    <3>1. b + TrackerBits < SequenceMod /\ tracker.base = b
      BY <1>3 DEF b
    <3>2. LET new == Record(tracker, n) IN
          /\ new.base \in b .. b + TrackerBits
          /\ \A m \in b .. new.base - 1 : m = n \/ Slot(m) \in tracker.seen
          /\ \A m \in new.base .. new.base + TrackerBits - 1 :
               Slot(m) \in new.seen =>
                 m < b + TrackerBits /\ (m = n \/ Slot(m) \in tracker.seen)
          /\ Slot(b) \notin tracker.seen => Slot(new.base) \notin new.seen
      BY <1>3, <2>1, <3>1, RecordResult
    <3>3. QED
      BY <2>1, <2>2, <3>2 DEF nb
  <2>4. passed \in [Packets -> 0 .. 2] /\ passed' \in [Packets -> 0 .. 2]
    BY DEF TypeOK
  \* What was in the window was sent, and was passed on; n is by now.
  <2>5. ASSUME NEW m \in b .. b + TrackerBits - 1, m = n \/ Slot(m) \in tracker.seen
        PROVE  m < nextSend /\ m \in Packets /\ passed'[m] > 0
    <3>1. Slot(m) \in tracker.seen => m < nextSend /\ passed[m] > 0
      BY DEF WindowHolds, b
    <3>2. m < nextSend /\ (passed[m] > 0 \/ m = n)
      BY <1>1, <2>5, <3>1 DEF n
    <3>3. m \in Packets
      BY <1>3, <3>2, Sizes
    <3>4. CASE passed[m] > 0
      BY <2>1, <2>4, <3>2, <3>3, <3>4
    <3>5. CASE m = n
      BY <2>1, <2>4, <3>1, <3>2, <3>3, <3>5
    <3>6. QED
      BY <3>2, <3>3, <3>4, <3>5
  <2>6. \A m \in Packets : passed[m] > 0 => passed'[m] > 0
    BY <1>1, <2>1, <2>4
  <2>7. nb \in Nat /\ nb <= nextSend
    <3>1. CASE nb = b
      BY <1>3, <3>1 DEF WindowHolds, b
    <3>2. CASE nb # b
      <4>1. nb - 1 \in b .. nb - 1 /\ nb - 1 \in b .. b + TrackerBits - 1
        BY <1>3, <2>3, <3>2
      <4>2. nb - 1 < nextSend
        BY <2>3, <2>5, <4>1
      <4>3. QED
        BY <1>3, <2>3, <4>2
    <3>3. QED
      BY <3>1, <3>2
  <2>8. ASSUME NEW m \in 0 .. nb - 1 PROVE passed'[m] > 0
    <3>1. CASE m < b
      <4>1. m \in 0 .. b - 1 /\ m \in Packets
        BY <1>3, <2>7, <3>1, Sizes
      <4>2. passed[m] > 0
        BY <4>1 DEF WindowHolds, b
      <4>3. QED
        BY <2>6, <4>1, <4>2
    <3>2. CASE b <= m
      <4>1. m \in b .. nb - 1 /\ m \in b .. b + TrackerBits - 1
        BY <1>3, <2>3, <3>2
      <4>2. QED
        BY <2>3, <2>5, <4>1
    <3>3. QED
      BY <1>3, <3>1, <3>2
  <2>9. ASSUME NEW m \in nb .. nb + TrackerBits - 1, Slot(m) \in tracker'.seen
        PROVE  m < nextSend /\ passed'[m] > 0
    <3>1. m < b + TrackerBits /\ (m = n \/ Slot(m) \in tracker.seen)
      BY <2>3, <2>9
    <3>2. m \in b .. b + TrackerBits - 1
      BY <1>3, <2>3, <3>1
    <3>3. QED
      BY <2>5, <3>1, <3>2
  <2>10. \A m \in 0 .. nextSend - 1 : passed'[m] = 0 => m \in resendList
    <3>1. ASSUME NEW m \in 0 .. nextSend - 1, passed'[m] = 0 PROVE passed[m] = 0
      <4>1. m \in Packets
        BY <1>3, Sizes
      <4>2. passed[m] \in Nat
        BY <2>4, <4>1
      <4>3. QED
        BY <2>6, <3>1, <4>1, <4>2
    <3>2. QED
      BY <3>1 DEF WindowHolds
  <2>11. \A m \in resendList : m \in Packets
    BY DEF TypeOK
  <2>12. /\ \A m \in resendList : m < nextSend /\ nextSend - m <= TrackerBits
         /\ permit # NoPermit => \A m \in resendList : HasSeen(permit, m) => passed'[m] > 0
    BY <2>6, <2>11 DEF WindowHolds
  <2>13. QED
    BY <1>2, <2>3, <2>7, <2>8, <2>9, <2>10, <2>12 DEF WindowHolds, nb
<1>6. QED
  BY <1>1, <1>4, <1>5

LEMMA SendKeepsWindow ==
  ASSUME TypeOK, TypeOK', NoWrap, WindowHolds, SendData
  PROVE  WindowHolds'
<1>1. PICK next \in nextSend .. MaxSent :
        /\ next = nextSend
           \/ (next - nextSend <= MaxPermit /\ InResendWindow(Unseen(permit), next))
        /\ nextSend' = next
        /\ resendList' = Unseen(permit) \cup (nextSend .. next - 1)
  BY SendDataChoice
<1>2. permit # NoPermit /\ permit' = NoPermit /\ UNCHANGED <<tracker, passed, restarts>>
  BY DEF SendData
<1>3. /\ nextSend \in Nat /\ next \in Nat /\ nextSend <= next /\ next <= MaxSent
      /\ MaxPermit \in Nat /\ TrackerBits \in Nat /\ MaxPermit <= TrackerBits
      /\ MaxSent \in Nat /\ tracker.base \in Nat /\ Packets \subseteq Nat
  BY <1>1, Sizes
<1>4. resendList \subseteq Packets
  BY DEF TypeOK
<1>5. tracker.base <= next
  <2>1. tracker.base <= nextSend
    BY DEF WindowHolds
  <2>2. QED
    BY <1>3, <2>1
<1>6. ASSUME NEW m \in tracker.base .. tracker.base + TrackerBits - 1, Slot(m) \in tracker.seen
      PROVE  m < next /\ passed[m] > 0
  <2>1. m < nextSend /\ passed[m] > 0
    BY <1>6 DEF WindowHolds
  <2>2. QED
    BY <1>3, <2>1
<1>7. ASSUME NEW m \in resendList' PROVE m < next /\ next - m <= TrackerBits
  <2>1. CASE m \in Unseen(permit)
    <3>1. m \in resendList /\ m \in Nat
      BY <1>3, <1>4, <2>1 DEF Unseen
    <3>2. m < nextSend /\ nextSend - m <= TrackerBits
      BY <3>1 DEF WindowHolds
    <3>3. next = nextSend \/ next - m <= TrackerBits
      BY <1>1, <2>1 DEF InResendWindow
    <3>4. QED
      BY <1>3, <3>1, <3>2, <3>3
  <2>2. CASE m \in nextSend .. next - 1
    <3>1. next # nextSend => next - nextSend <= MaxPermit
      BY <1>1
    <3>2. QED
      BY <1>3, <2>2, <3>1
  <2>3. QED
    BY <1>1, <2>1, <2>2
<1>8. ASSUME NEW m \in 0 .. next - 1, passed[m] = 0 PROVE m \in resendList'
  <2>1. CASE m < nextSend
    <3>1. m \in 0 .. nextSend - 1 /\ m \in Packets
      BY <1>3, <2>1, Sizes
    <3>2. m \in resendList
      BY <1>8, <3>1 DEF WindowHolds
    <3>3. ~ HasSeen(permit, m)
      BY <1>2, <1>8, <3>2 DEF WindowHolds
    <3>4. m % SequenceMod = m
      BY <3>1, PacketModulo
    <3>5. m \in Unseen(permit)
      BY <3>2, <3>3, <3>4 DEF Unseen
    <3>6. QED
      BY <1>1, <3>5
  <2>2. CASE nextSend <= m
    <3>1. m \in nextSend .. next - 1
      BY <1>3, <2>2
    <3>2. QED
      BY <1>1, <3>1
  <2>3. QED
    BY <1>3, <2>1, <2>2
<1>9. QED
  BY <1>1, <1>2, <1>5, <1>6, <1>7, <1>8 DEF WindowHolds

LEMMA WindowStep ==
  ASSUME WindowInv, InOrder, NoWrap, [Next]_vars
  PROVE  WindowInv'
<1>1. Once'
  BY OnceStep DEF WindowInv, Once
<1>2. TypeOK /\ TypeOK'
  BY <1>1 DEF WindowInv, Once
<1>3. restarts \in Nat
  BY <1>2, WindowAssumption DEF TypeOK
<1>4. ASSUME restarts' = 0 PROVE WindowHolds'
  <2>1. ~RestartSender
    BY <1>3, <1>4 DEF RestartSender
  <2>2. CASE GrantPermit
    <3>1. permit' = tracker /\ UNCHANGED <<nextSend, resendList, tracker, passed, restarts>>
      BY <2>2 DEF GrantPermit
    <3>2. WindowHolds
      BY <1>4, <3>1 DEF WindowInv
    <3>3. ASSUME NEW n \in resendList, HasSeen(tracker, n) PROVE passed[n] > 0
      <4>1. n \in Packets
        BY <1>2 DEF TypeOK
      <4>2. n < nextSend /\ nextSend - n <= TrackerBits
        BY <3>2 DEF WindowHolds
      <4>3. QED
        BY <1>2, <3>2, <3>3, <4>1, <4>2, SeenIsPassed DEF WindowInv
    <3>4. QED
      BY <3>1, <3>2, <3>3 DEF WindowHolds
  <2>3. CASE LosePermit
    <3>1. permit' = NoPermit /\ UNCHANGED <<nextSend, resendList, tracker, passed, restarts>>
      BY <2>3 DEF LosePermit
    <3>2. WindowHolds
      BY <1>4, <3>1 DEF WindowInv
    <3>3. QED
      BY <3>1, <3>2 DEF WindowHolds
  <2>4. CASE SendData
    <3>1. restarts' = restarts
      BY <2>4 DEF SendData
    <3>2. QED
      BY <1>2, <1>4, <2>4, <3>1, SendKeepsWindow DEF WindowInv
  <2>5. ASSUME NEW n \in Packets, Receive(n) PROVE WindowHolds'
    <3>1. PICK i \in DOMAIN dataNet : ReceiveAt(i)
      BY <2>5 DEF Receive
    <3>2. restarts' = restarts
      BY <3>1 DEF ReceiveAt
    <3>3. QED
      BY <1>2, <1>4, <3>1, <3>2, ReceiveKeepsWindow DEF WindowInv
  <2>6. CASE LoseData \/ UNCHANGED vars
    <3>1. UNCHANGED <<nextSend, resendList, permit, tracker, passed, restarts>>
      BY <2>6 DEF LoseData, vars
    <3>2. WindowHolds
      BY <1>4, <3>1 DEF WindowInv
    <3>3. QED
      BY <3>1, <3>2 DEF WindowHolds
  <2>7. QED
    BY <2>1, <2>2, <2>3, <2>4, <2>5, <2>6 DEF Next
<1>5. QED
  BY <1>1, <1>4 DEF WindowInv, Once

LEMMA WindowInit ==
  ASSUME Init
  PROVE  WindowInv
<1>1. Once
  BY OnceInit
<1>2. tracker.base = 0 /\ tracker.seen = {} /\ nextSend = 0 /\ resendList = {}
      /\ permit = NoPermit
  BY DEF Init, NewTracker
<1>3. WindowHolds
  BY <1>2 DEF WindowHolds
<1>4. QED
  BY <1>1, <1>3 DEF WindowInv, Once

\* WindowInv is an invariant on a network that keeps its order, until numbers
\* wrap (PacketTracker::noteSeen and UdpResendList together).
THEOREM WindowInvariant ==
  ASSUME InOrder, NoWrap
  PROVE  Spec => []WindowInv
BY WindowInit, WindowStep, PTL DEF Spec

\* Until the sender restarts, noteSeen and hasSeen (udpsha.cpp) agree with
\* history on every packet that can still be in flight.
THEOREM TrackerAgrees ==
  ASSUME InOrder, NoWrap
  PROVE  Spec => []TrackerIsExact
<1>1. ASSUME WindowInv PROVE TrackerIsExact
  <2> SUFFICES ASSUME NEW n \in Packets, restarts = 0, n < nextSend, nextSend - n <= TrackerBits
               PROVE  HasSeen(tracker, n % SequenceMod) <=> passed[n] > 0
    BY DEF TrackerIsExact
  <2>1. n % SequenceMod = n
    BY PacketModulo
  <2>2. HasSeen(tracker, n) <=> passed[n] > 0
    BY <1>1, SeenIsPassed DEF WindowInv
  <2>3. QED
    BY <2>1, <2>2
<1>2. QED
  BY <1>1, WindowInvariant, PTL

\* Until then base only moves forwards, and by no more than the bitmap holds:
\* no packet is taken for the first of a new sender (udpsha.cpp, noteSeen).
THEOREM NoFalseRestart ==
  ASSUME InOrder, NoWrap
  PROVE  Spec => TrackerNeverRestarts
<1> DEFINE Forward == restarts' = 0 => Delta(tracker'.base, tracker.base) <= TrackerBits
<1>1. ASSUME WindowInv, WindowInv', [Next]_vars, restarts' = 0
      PROVE  Delta(tracker'.base, tracker.base) <= TrackerBits
  <2>0. TypeOK /\ TypeOK'
    BY <1>1 DEF WindowInv
  <2>1. /\ tracker.base \in Seq32 /\ tracker'.base \in Seq32
        /\ tracker.base \in Nat /\ tracker'.base \in Nat /\ TrackerBits \in Nat
    BY <2>0, Sizes DEF TypeOK, Tracker, Seq32
  <2>2. tracker'.base \in tracker.base .. tracker.base + TrackerBits
    <3>1. CASE UNCHANGED tracker
      BY <2>1, <3>1
    <3>2. ASSUME NEW n \in Packets, Receive(n)
          PROVE  tracker'.base \in tracker.base .. tracker.base + TrackerBits
      <4>1. PICK i \in DOMAIN dataNet : ReceiveAt(i)
        BY <3>2 DEF Receive
      <4>2. WindowHolds
        BY <1>1, <4>1 DEF ReceiveAt, WindowInv
      <4>3. dataNet[1].n \in Packets /\ (Records(dataNet[1].n) \/ Ignores(dataNet[1].n))
        BY <1>1, <4>1, <4>2, NoNewStart DEF WindowInv
      <4>4. CASE Ignores(dataNet[1].n)
        BY <2>1, <4>4 DEF Ignores
      <4>5. CASE Records(dataNet[1].n)
        <5> DEFINE s == dataNet[1].n
        <5>1. /\ s \in Nat /\ tracker.base <= s /\ s < tracker.base + TrackerBits
              /\ tracker' = Record(tracker, s)
          BY <2>0, <4>3, <4>5, Sizes DEF Records
        <5>2. tracker \in Tracker /\ tracker.base + TrackerBits < SequenceMod
          <6>1. tracker.base < MaxSent + TrackerBits /\ MaxSent + 2 * TrackerBits <= SequenceMod
            BY <1>1 DEF WindowInv, PassedIsRecorded, NoWrap
          <6>2. TrackerBits \in Nat /\ TrackerBits >= 1 /\ MaxSent \in Nat /\ SequenceMod \in Nat
            BY <2>0, Sizes
          <6>3. tracker.base + TrackerBits < SequenceMod
            BY <2>1, <6>1, <6>2
          <6>4. QED
            BY <2>0, <6>3 DEF TypeOK
        <5> HIDE DEF s
        <5>3. QED
          BY <5>1, <5>2, RecordResult
      <4>6. QED
        BY <4>3, <4>4, <4>5
    <3>3. Next => UNCHANGED tracker \/ \E n \in Packets : Receive(n)
      BY DEF Next, GrantPermit, LosePermit, SendData, LoseData, RestartSender
    <3>4. QED
      BY <1>1, <3>1, <3>2, <3>3 DEF vars
  <2>3. Delta(tracker'.base, tracker.base) = tracker'.base - tracker.base
    BY <2>1, <2>2, DeltaOfSmall
  <2>4. QED
    BY <2>1, <2>2, <2>3
<1>2. WindowInv /\ WindowInv' /\ [Next]_vars => [Forward]_vars
  BY <1>1
<1>3. Spec => [][Forward]_vars
  BY <1>2, WindowInvariant, PTL DEF Spec
<1>4. QED
  BY <1>3 DEF TrackerNeverRestarts

\* The sender forgets a packet only once the receiver has passed it on, as long
\* as it does not restart (UdpResendList, noteRead, udptrs.cpp).
THEOREM NothingForgotten ==
  ASSUME InOrder, NoWrap
  PROVE  Spec => [](restarts = 0 => ForgottenIsPassed)
<1>1. ASSUME WindowInv, restarts = 0 PROVE ForgottenIsPassed
  <2> SUFFICES ASSUME NEW n \in Packets, n < nextSend, n \notin resendList PROVE passed[n] > 0
    BY DEF ForgottenIsPassed
  <2>1. n \in 0 .. nextSend - 1 /\ passed[n] \in Nat
    BY <1>1, Sizes DEF TypeOK, WindowInv
  <2>2. passed[n] # 0
    BY <1>1, <2>1 DEF WindowHolds, WindowInv
  <2>3. QED
    BY <2>1, <2>2
<1>2. QED
  BY <1>1, WindowInvariant, PTL

\* The sender forgets a packet only once it has been passed on, and it is passed
\* on once: without restarts, every step of the protocol is a step of reliable
\* transfer, or none (the liveness part, Delivery, is left to the model checker).
THEOREM TransferIsSafe ==
  ASSUME InOrder, NoWrap, MaxRestarts = 0
  PROVE  Spec => Transfer!TransferInit /\ [][Transfer!TransferNext]_(Transfer!transferVars)
<1>1. ASSUME WindowInv PROVE WindowHolds /\ restarts = 0 /\ TypeOK
  BY <1>1 DEF WindowInv, TypeOK
<1>2. ASSUME WindowInv', restarts' = 0,
             NEW n, n \in 0 .. nextSend' - 1, n \notin resendList'
      PROVE  passed'[n] = 1
  <2>1. TypeOK' /\ WindowHolds' /\ PassedOnce'
    BY <1>2 DEF WindowInv
  <2>2. n \in Packets /\ n < nextSend'
    <3>1. nextSend' \in Nat /\ nextSend' <= MaxSent /\ MaxSent \in Nat
      BY <2>1, WindowAssumption DEF TypeOK
    <3>2. \A k \in Nat : k <= MaxSent => \A m \in 0 .. k - 1 : m \in Packets /\ m < k
      BY <3>1 DEF Packets
    <3>3. QED
      BY <1>2, <3>1, <3>2
  <2>3. passed'[n] \in Nat /\ passed'[n] <= 1
    BY <2>1, <2>2 DEF TypeOK, PassedOnce
  <2>4. passed'[n] # 0
    BY <1>2, <2>1 DEF WindowHolds
  <2>5. QED
    BY <2>3, <2>4
<1>3. WindowInv' => restarts' = 0
  BY DEF WindowInv, TypeOK
<1>4. Init => Transfer!TransferInit
  BY DEF Init, Transfer!TransferInit, Transfer!Packets, Packets
<1>5. ASSUME WindowInv, WindowInv', [Next]_vars
      PROVE  [Transfer!TransferNext]_(Transfer!transferVars)
  <2>1. CASE UNCHANGED <<nextSend, resendList, passed>>
    BY <2>1 DEF Transfer!transferVars
  <2>2. CASE SendData
    <3>1. PICK next \in nextSend .. MaxSent :
             nextSend' = next /\ resendList' = Unseen(permit) \cup (nextSend .. next - 1)
      BY <1>1, <1>5, <2>2, SendDataChoice
    <3>2. (0 .. nextSend - 1) \ resendList \subseteq (0 .. next - 1) \ resendList'
      <4>1. nextSend \in Nat /\ next \in Nat /\ nextSend <= next
        BY <1>1, <1>5, <3>1, Sizes
      <4>2. Unseen(permit) \subseteq resendList
        BY DEF Unseen
      <4>3. ASSUME NEW n \in 0 .. nextSend - 1, n \notin resendList
            PROVE  n \in 0 .. next - 1 /\ n \notin resendList'
        BY <3>1, <4>1, <4>2, <4>3
      <4>4. QED
        BY <4>3
    <3>3. \A n \in (0 .. nextSend' - 1) \ resendList' : passed'[n] = 1
      BY <1>2, <1>3, <1>5
    <3>4. passed' = passed
      BY <2>2 DEF SendData
    <3>5. Transfer!Send
      BY <3>1, <3>2, <3>3, <3>4 DEF Transfer!Send
    <3>6. QED
      BY <3>5 DEF Transfer!TransferNext
  <2>3. ASSUME NEW m \in Packets, Receive(m)
        PROVE  [Transfer!TransferNext]_(Transfer!transferVars)
    <3>1. PICK i \in DOMAIN dataNet : ReceiveAt(i)
      BY <2>3 DEF Receive
    <3> DEFINE n == dataNet[1].n
    <3>2. n \in Packets /\ n < nextSend /\ (Records(n) \/ Ignores(n))
      BY <1>1, <1>5, <3>1, NoNewStart DEF WindowInv
    <3>3. UNCHANGED <<nextSend, resendList>>
      BY <3>1 DEF ReceiveAt
    <3> HIDE DEF n
    <3>4. CASE passed' = passed
      BY <3>3, <3>4 DEF Transfer!transferVars
    <3>5. CASE passed[n] = 0 /\ passed' = [passed EXCEPT ![n] = 1]
      <4>1. Transfer!PassOn(n)
        BY <3>2, <3>3, <3>5 DEF Transfer!PassOn
      <4>2. n \in Transfer!Packets
        BY <3>2 DEF Transfer!Packets, Packets
      <4>3. QED
        BY <4>1, <4>2 DEF Transfer!TransferNext
    <3>6. QED
      BY <3>2, <3>4, <3>5 DEF Records, Ignores
  <2>4. ~RestartSender
    BY <1>1, <1>5 DEF RestartSender
  <2>5. QED
    BY <1>5, <2>1, <2>2, <2>3, <2>4 DEF Next, vars, GrantPermit, LosePermit, LoseData
<1>6. QED
  BY <1>4, <1>5, WindowInvariant, PTL DEF Spec
=============================================================================
