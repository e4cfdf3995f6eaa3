--------------------------- MODULE MessageCollator ---------------------------
(***************************************************************************)
(* A message on its way from the worker that packs it to the query that    *)
(* reads it: CMessagePacker cuts it into packets, the transport delivers   *)
(* these in any order and sometimes twice, and the CMessageCollator of     *)
(* roxie/udplib/udpmsgpk.cpp puts them together in a PackageSequencer per  *)
(* message and queues the complete messages for getNextResult.             *)
(*                                                                         *)
(* Packing is over before a packet arrives: the collator sees nothing of   *)
(* the packer but its packets.                                             *)
(***************************************************************************)
EXTENDS MessagePacking, FiniteSets, FiniteSetsExt

CONSTANTS
  Messages,        \* messages to one collator, from any number of workers
  OutOfBand,       \* those whose header carries OUTOFBAND_SEQUENCE
  RowKinds,        \* rows a worker may write: [variable, max, length]
  MetaSizes,       \* lengths of metadata a worker may send
  MaxRows,         \* bound of the model: rows in all
  MaxDuplicates    \* bound of the model: packets that arrive twice

ASSUME CollatorAssumption ==
  /\ \A kind \in RowKinds :
       /\ kind.variable \in BOOLEAN /\ kind.max \in Nat
       /\ kind.length \in 0 .. kind.max          \* asserted by putBuffer
  /\ MetaSizes \subseteq Nat /\ MaxRows \in Nat /\ MaxDuplicates \in Nat

VARIABLES
  packer,          \* per message: its CMessagePacker
  rows,            \* per message: the rows written
  flushed,         \* messages whose packer has been flushed
  arrived,         \* per message: sequence numbers that have arrived
  duplicates,      \* packets that have arrived again
  mapping,         \* of messages, to their incomplete PackageSequencer
  queue,           \* complete messages: records of the message and its packets
  memLimitExceeded,
  results          \* per message: what getNextResult has returned of it

packVars == <<packer, rows, flushed>>
vars == <<packVars, arrived, duplicates, mapping, queue, memLimitExceeded, results>>

Packets(m) == packer[m].packets

Init ==
  /\ packer = [m \in Messages |-> NewPacker]
  /\ rows = [m \in Messages |-> <<>>]
  /\ flushed = {}
  /\ arrived = [m \in Messages |-> {}]
  /\ duplicates = 0
  /\ mapping = <<>>
  /\ queue = <<>>
  /\ memLimitExceeded = FALSE
  /\ results = [m \in Messages |-> <<>>]

-----------------------------------------------------------------------------
(* The workers.                                                            *)

RowsWritten == MapThenSumSet(LAMBDA m : Len(rows[m]), Messages)

WriteRow(m) ==
  /\ m \notin flushed /\ packer[m].meta = <<>>
  /\ RowsWritten < MaxRows                                    \* bound
  /\ \E kind \in RowKinds :
       LET row == Row(Len(rows[m]) + 1, kind.variable, kind.max, kind.length)
       IN  /\ packer' = [packer EXCEPT ![m] = PutBuffer(GetBuffer(@, row), row)]
           /\ rows' = [rows EXCEPT ![m] = Append(@, row)]
  /\ UNCHANGED <<flushed, arrived, duplicates, mapping, queue, memLimitExceeded, results>>

\* Room is asked for, then the row is filtered out.
SkipRow(m) ==
  /\ m \notin flushed /\ packer[m].meta = <<>>
  /\ RowsWritten < MaxRows                                    \* bound
  /\ \E kind \in RowKinds :
       packer' = [packer EXCEPT ![m] =
         GetBuffer(@, Row(0, kind.variable, kind.max, kind.length))]
  /\ UNCHANGED <<rows, flushed, arrived, duplicates, mapping, queue,
                 memLimitExceeded, results>>

Finish(m) ==
  /\ m \notin flushed
  /\ \E n \in MetaSizes :
       packer' = [packer EXCEPT ![m] = FlushLast(SendMetaInfo(@, MetaBytes(0, n)))]
  /\ flushed' = flushed \cup {m}
  /\ UNCHANGED <<rows, arrived, duplicates, mapping, queue, memLimitExceeded, results>>

-----------------------------------------------------------------------------
(* PackageSequencer: the chain of packets in order, the number of them that *)
(* follow each other from 0 (lastContiguousPacket), the metadata of these,  *)
(* and the packet in tail.                                                 *)

EmptySequencer == [chain |-> <<>>, last |-> 0, tail |-> -1, meta |-> <<>>]

Appends(s, p) == s.tail # -1 /\ p.seq > s.tail

IsDuplicate(s, p) == ~Appends(s, p) /\ \E i \in DOMAIN s.chain : s.chain[i].seq = p.seq

\* Seeded fault: the packet that fills a gap at the front becomes the tail.
TailAfter_Front(s, p, prev) == IF Appends(s, p) \/ prev = 0 THEN p.seq ELSE s.tail

TailAfter(s, p, prev) == IF Appends(s, p) \/ s.tail = -1 THEN p.seq ELSE s.tail

\* Seeded fault: packets behind a gap that is closed are not looked at.
RunFrom_One(chain, last) ==
  IF last < Len(chain) /\ chain[last + 1].seq = last THEN last + 1 ELSE last

\* The packets that follow each other, given that the first last ones do.
RunFrom(chain, last) ==
  Max({k \in last .. Len(chain) : \A i \in last + 1 .. k : chain[i].seq = i - 1})

\* insert, of a packet that is not in the chain yet.
Insert(s, p) ==
  LET prev  == IF Appends(s, p)
               THEN CHOOSE i \in DOMAIN s.chain : s.chain[i].seq = s.tail
               ELSE Cardinality({i \in DOMAIN s.chain : s.chain[i].seq < p.seq})
      chain == InsertAt(s.chain, prev + 1, p)
      last  == IF prev = s.last THEN RunFrom(chain, s.last) ELSE s.last
  IN  [chain |-> chain, last |-> last, tail |-> TailAfter(s, p, prev),
       meta  |-> s.meta \o FlattenSeq([i \in 1 .. last - s.last |-> chain[s.last + i].meta])]

\* Whether the insertion that led from s to t completed the message.
Completes(s, t) == \E i \in s.last + 1 .. t.last : t.chain[i].complete

-----------------------------------------------------------------------------
(* CMessageCollator.                                                       *)

Enqueued(m, s) ==
  LET entry == [message |-> m, chain |-> s.chain, meta |-> s.meta]
  IN  IF m \in OutOfBand THEN <<entry>> \o queue ELSE Append(queue, entry)

\* Seeded fault: any first packet is taken for a message of one packet.
SinglePacket_First(p) == p.seq = 0

SinglePacket(p) == p.seq = 0 /\ p.complete

Entered(m, s) == [n \in DOMAIN mapping \cup {m} |-> IF n = m THEN s ELSE mapping[n]]
Removed(m) == [n \in DOMAIN mapping \ {m} |-> mapping[n]]

\* collate.
Collate(m, p) ==
  LET s == IF m \notin DOMAIN mapping \/ SinglePacket(p) THEN EmptySequencer ELSE mapping[m]
      t == Insert(s, p)
  IN  IF IsDuplicate(s, p) THEN UNCHANGED <<mapping, queue>>
      ELSE IF Completes(s, t)
      THEN /\ queue' = Enqueued(m, t)
           /\ mapping' = IF SinglePacket(p) THEN mapping ELSE Removed(m)
      ELSE /\ mapping' = Entered(m, t)
           /\ UNCHANGED queue

\* attach_databuffer, when the packet fits in memory.  A packet arrives again
\* only when the transport has lost track of what it passed on (a restart).
Attach(m) ==
  /\ flushed = Messages /\ ~memLimitExceeded
  /\ \E p \in Range(Packets(m)) :
       /\ IF p.seq \in arrived[m]
          THEN duplicates < MaxDuplicates /\ duplicates' = duplicates + 1   \* bound
          ELSE UNCHANGED duplicates
       /\ arrived' = [arrived EXCEPT ![m] = @ \cup {p.seq}]
       /\ Collate(m, p)
  /\ UNCHANGED <<packVars, memLimitExceeded, results>>

\* attach_databuffer, when attachToRowMgr fails: the packet is released and the
\* collator takes no more.
AttachFails(m) ==
  /\ flushed = Messages /\ ~memLimitExceeded
  /\ arrived[m] # {p.seq : p \in Range(Packets(m))}
  /\ memLimitExceeded' = TRUE
  /\ UNCHANGED <<packVars, arrived, duplicates, mapping, queue, results>>

\* getNextResult and the reading of the result to its end.
GetNextResult ==
  /\ queue # <<>> /\ ~memLimitExceeded
  /\ LET m    == queue[1].message
         read == ReadRows(queue[1].chain, NewCursor(queue[1].chain), rows[m])
     IN  results' = [results EXCEPT ![m] = Append(@,
           [rows |-> read.rows, ok |-> read.ok /\ AtEOF(read.cursor), meta |-> queue[1].meta])]
  /\ queue' = Tail(queue)
  /\ UNCHANGED <<packVars, arrived, duplicates, mapping, memLimitExceeded>>

Next ==
  \/ \E m \in Messages : WriteRow(m) \/ SkipRow(m) \/ Finish(m)
  \/ \E m \in Messages : Attach(m) \/ AttachFails(m)
  \/ GetNextResult

Spec == Init /\ [][Next]_vars

-----------------------------------------------------------------------------
(* Properties.                                                             *)

\* What the packer promises and the buffers rely on: no packet is larger than a
\* buffer, packets are numbered from 0 and only the last is marked complete
\* (flush, put_package; the assertions of putBuffer).
PacketsFit ==
  \A m \in Messages :
    /\ Used(packer[m]) <= BufferSize
    /\ \A i \in DOMAIN Packets(m) :
         LET p == Packets(m)[i]
         IN  /\ p.seq = i - 1
             /\ Len(p.data) + Len(p.meta) \in 0 .. BufferSize
             /\ p.complete <=> m \in flushed /\ i = Len(Packets(m))

\* A chain is strictly ascending, tail is its last packet, and last counts
\* exactly the packets that follow each other from 0 (insert).
ChainInOrder ==
  \A m \in DOMAIN mapping :
    LET s == mapping[m]
    IN  /\ \A i \in 1 .. Len(s.chain) - 1 : s.chain[i].seq < s.chain[i + 1].seq
        /\ s.tail = s.chain[Len(s.chain)].seq
        /\ \A i \in DOMAIN s.chain : i <= s.last <=> s.chain[i].seq = i - 1

\* How often a message has been queued.
Queued(m) == Cardinality({i \in DOMAIN queue : queue[i].message = m})
Times(m) == Len(results[m]) + Queued(m)

AllArrived(m) == m \in flushed /\ arrived[m] = {p.seq : p \in Range(Packets(m))}

\* A message is queued once all its packets have arrived, whatever their order,
\* never before, and more often only if packets came twice.
QueuedWhenComplete ==
  \A m \in Messages :
    /\ Times(m) > 0 <=> AllArrived(m)
    /\ duplicates = 0 => Times(m) <= 1

\* Places of bytes in a list of pieces, in the order in which they are read.
Places(pieces) == UNION {{i} \X DOMAIN pieces[i] : i \in DOMAIN pieces}
At(pieces, x) == pieces[x[1]][x[2]]
Before(x, y) == x[1] < y[1] \/ (x[1] = y[1] /\ x[2] < y[2])

\* b comes after a in what a worker has written: rows one after the other, the
\* length before the row.
After(a, b) ==
  \/ a[2] < b[2]
  \/ a[2] = b[2] /\ (a[1] = "length" \/ (a[1] = "row" /\ b[1] = "row" /\ a[3] < b[3]))

InOrder(pieces, places) ==
  \A x, y \in places : Before(x, y) => After(At(pieces, x), At(pieces, y))

HeaderPlaces == {1} \X (1 .. HeaderSize)

\* The pieces start with the header and hold the bytes of these rows behind it,
\* each once and in order, and no length is cut in two.
CarryRows(pieces, list) ==
  LET body == Places(pieces) \ HeaderPlaces
  IN  /\ \A k \in 1 .. HeaderSize :
           <<1, k>> \in Places(pieces) /\ At(pieces, <<1, k>>) = <<"header", k, 0>>
      /\ \A x \in body : \E j \in DOMAIN list :
           At(pieces, x) \in Range(Prefix(list[j])) \cup Range(Content(list[j]))
      /\ InOrder(pieces, body)
      /\ \A j \in DOMAIN list :
           /\ \A b \in Range(Content(list[j])) : \E x \in body : At(pieces, x) = b
           /\ list[j].variable => \E x \in body :
                {y \in body : At(pieces, y)[1] = "length" /\ At(pieces, y)[2] = list[j].id} =
                  {x[1]} \X (x[2] .. x[2] + LengthSize - 1)

\* The pieces hold these bytes of metadata, each once and in order.
CarryMeta(pieces, meta) ==
  /\ {At(pieces, x) : x \in Places(pieces)} = Range(meta)
  /\ InOrder(pieces, Places(pieces))

\* The packets of a message that is queued carry what its worker has written,
\* whatever buffers it fell into and in whatever order they arrived: the header,
\* every byte of every row once and in order, every length in one packet, and
\* all the metadata (getBuffer, putBuffer, flush against collate, insert).
QueuedCarriesWritten ==
  \A i \in DOMAIN queue :
    LET m     == queue[i].message
        chain == queue[i].chain
    IN  /\ CarryRows([k \in DOMAIN chain |-> chain[k].data], rows[m])
        /\ CarryMeta([k \in DOMAIN chain |-> chain[k].meta], packer[m].meta)

\* What a query reads is what the worker wrote: the same rows in the same order,
\* the end reported with the last row and not before, and the same metadata --
\* for every way the rows fall across packets (getBuffer, putBuffer, flush
\* against getNext, getNextLength, insert).
ReadIsWritten ==
  \A m \in Messages : \A k \in DOMAIN results[m] :
    LET r == results[m][k]
    IN  /\ r.ok
        /\ r.rows = [i \in DOMAIN rows[m] |->
             [bytes |-> Content(rows[m][i]), isLast |-> i = Len(rows[m])]]
        /\ r.meta = packer[m].meta

-----------------------------------------------------------------------------
(* The inductive invariant behind the first three properties.              *)

Rows == [id : Nat, variable : BOOLEAN, max : Nat, length : Nat]

TypeOK ==
  /\ packer \in [Messages -> Packers] /\ rows \in [Messages -> Seq(Rows)]
  /\ flushed \subseteq Messages
  /\ arrived \in [Messages -> SUBSET Nat] /\ duplicates \in Nat
  /\ DOMAIN mapping \subseteq Messages
  /\ queue \in Seq(Range(queue)) /\ \A i \in DOMAIN queue : queue[i].message \in Messages
  /\ memLimitExceeded \in BOOLEAN
  /\ DOMAIN results = Messages /\ \A m \in Messages : results[m] \in Seq(Range(results[m]))

\* Numbers grow along a chain at least as fast as positions.
Spread(chain) ==
  \A i \in DOMAIN chain : /\ chain[i].seq >= i - 1
                          /\ \A j \in i + 1 .. Len(chain) : chain[j].seq - chain[i].seq >= j - i

\* A sequencer of these packets: in order, tail and last as they should be, and
\* the last packet of the message not among those that follow each other.
Sequencing(s, packets) ==
  /\ s.chain \in Seq(packets) /\ Spread(s.chain) /\ s.last \in 0 .. Len(s.chain)
  /\ s.tail = IF s.chain = <<>> THEN -1 ELSE s.chain[Len(s.chain)].seq
  /\ \A i \in DOMAIN s.chain : i <= s.last <=> s.chain[i].seq = i - 1
  /\ \A i \in 1 .. s.last : ~s.chain[i].complete

Numbers(chain) == {chain[i].seq : i \in DOMAIN chain}

\* Until a message has been queued, what arrived of it is in its sequencer.
ArrivedInv ==
  \A m \in Messages :
    /\ arrived[m] \subseteq {p.seq : p \in Range(Packets(m))}
    /\ arrived[m] # {} => flushed = Messages
    /\ m \in DOMAIN mapping =>
         /\ mapping[m].chain # <<>> /\ Sequencing(mapping[m], Range(Packets(m)))
         /\ Numbers(mapping[m].chain) \subseteq arrived[m]
    /\ Times(m) = 0 =>
         arrived[m] = IF m \in DOMAIN mapping THEN Numbers(mapping[m].chain) ELSE {}
    /\ Times(m) > 0 => AllArrived(m)
    /\ duplicates = 0 => Times(m) <= 1

\* The parts together: until a message has been queued, its sequencer holds
\* exactly the packets that have arrived of it, in order and not all of them;
\* once it has, nothing of it is missing (collate, insert).
CollatorInv ==
  /\ TypeOK /\ PacketsFit /\ ArrivedInv
  /\ \A m \in flushed : Packets(m) # <<>>
=============================================================================
