--------------------------- MODULE MessagePacking ---------------------------
(***************************************************************************)
(* CMessagePacker of roxie/udplib/udppack.cpp and CMessageUnpackCursor of  *)
(* roxie/udplib/udpmsgpk.cpp: rows and metadata are cut into packets of    *)
(* BufferSize bytes, and read back from the packets of a message.  The     *)
(* operators of this module are the calls of the two classes.              *)
(*                                                                         *)
(* A byte is a value that names where it comes from.  LengthSize bytes     *)
(* stand before a row of variable length; the first of them holds the      *)
(* length, and a reader must find all of them in one packet.               *)
(***************************************************************************)
EXTENDS Integers, Sequences, SequencesExt

CONSTANTS
  BufferSize,      \* data_buffer_size
  HeaderSize,      \* bytes of the message header and of its length
  LengthSize,      \* sizeof(RecordLengthType)
  NoBuffer         \* null pointer

ASSUME PackingAssumption ==
  /\ BufferSize \in Nat /\ LengthSize \in Nat \ {0}
  /\ LengthSize <= BufferSize
  /\ HeaderSize \in 1 .. BufferSize          \* asserted by the constructor
  /\ NoBuffer \notin Seq({"header", "length", "row", "meta"} \X Nat \X Nat)

\* A row: variable or fixed length, the length asked for in getBuffer, the
\* length given to putBuffer, and an identity.
Row(id, variable, max, length) ==
  [id |-> id, variable |-> variable, max |-> max, length |-> length]

Prefix(row) ==
  IF row.variable THEN [k \in 1 .. LengthSize |-> <<"length", row.id, row.length>>]
                  ELSE <<>>
Content(row) == [k \in 1 .. row.length |-> <<"row", row.id, k>>]
MetaBytes(from, n) == [k \in 1 .. n |-> <<"meta", from + k, 0>>]

-----------------------------------------------------------------------------
(* The packer.                                                             *)

\* A packer holds the part_buffer, the packets written, and whether the last
\* getBuffer returned room in the part_buffer.
NewPacker ==
  [part |-> [k \in 1 .. HeaderSize |-> <<"header", k, 0>>],
   packets |-> <<>>, packed_request |-> FALSE, meta |-> <<>>]

Used(pk) == IF pk.part = NoBuffer THEN 0 ELSE Len(pk.part)
Room(pk) == BufferSize - Used(pk)

Packet(seq, data, meta, complete) ==
  [seq |-> seq, data |-> data, meta |-> meta, complete |-> complete]

Byte == {"header", "length", "row", "meta"} \X Nat \X Nat
SomePacket == [seq : Nat, data : Seq(Byte), meta : Seq(Byte), complete : BOOLEAN]
Packers == [part : Seq(Byte) \cup {NoBuffer}, packets : Seq(SomePacket),
            packed_request : BOOLEAN, meta : Seq(Byte)]

PutPackage(pk, data, meta, complete) ==
  [pk EXCEPT !.packets = Append(@, Packet(Len(@), data, meta, complete))]

\* Seeded fault: part_buffer is put but not given up.
FlushPart_Keeps(pk) == IF Used(pk) = 0 THEN pk ELSE PutPackage(pk, pk.part, <<>>, FALSE)

\* flush(false)
FlushPart(pk) ==
  IF Used(pk) = 0 THEN [pk EXCEPT !.part = NoBuffer]
  ELSE [PutPackage(pk, pk.part, <<>>, FALSE) EXCEPT !.part = NoBuffer]

\* part_buffer, allocated if there is none.
Allocated(pk) == IF pk.part = NoBuffer THEN [pk EXCEPT !.part = <<>>] ELSE pk

\* Seeded fault: the room left in part_buffer is not looked at.
GetBuffer_NoRoom(pk, row) ==
  IF BufferSize < row.max + Len(Prefix(row)) THEN [pk EXCEPT !.packed_request = FALSE]
  ELSE [Allocated(pk) EXCEPT !.packed_request = TRUE]

GetBuffer(pk, row) ==
  LET n == row.max + Len(Prefix(row))
  IN  IF BufferSize < n THEN [pk EXCEPT !.packed_request = FALSE]
      ELSE [Allocated(IF pk.part # NoBuffer /\ Room(pk) < n THEN FlushPart(pk) ELSE pk)
              EXCEPT !.packed_request = TRUE]

\* What comes into the i-th of the buffers that the bytes fill one after another.
Piece(bytes, i) ==
  SubSeq(bytes, (i - 1) * BufferSize + 1, Min({i * BufferSize, Len(bytes)}))
FullBuffers(bytes) == IF bytes = <<>> THEN 0 ELSE (Len(bytes) - 1) \div BufferSize

\* The copy loop of putBuffer: a buffer that is full is flushed if more follows.
PutChunks(pk, bytes) ==
  LET stream == Allocated(pk).part \o bytes
      full   == FullBuffers(stream)
  IN  IF bytes = <<>> THEN pk
      ELSE [pk EXCEPT
              !.packets = @ \o [i \in 1 .. full |->
                                  Packet(Len(@) + i - 1, Piece(stream, i), <<>>, FALSE)],
              !.part = Piece(stream, full + 1)]

\* Seeded fault: a length may be cut in two.
PutBuffer_SplitsLength(pk, row) ==
  LET bytes == Prefix(row) \o Content(row)
  IN  IF pk.packed_request THEN [pk EXCEPT !.part = @ \o bytes]
      ELSE PutChunks(pk, bytes)

PutBuffer(pk, row) ==
  LET bytes == Prefix(row) \o Content(row)
  IN  IF pk.packed_request THEN [pk EXCEPT !.part = @ \o bytes]
      ELSE PutChunks(IF row.variable /\ Room(pk) < LengthSize THEN FlushPart(pk) ELSE pk,
                     bytes)

SendMetaInfo(pk, bytes) == [pk EXCEPT !.meta = @ \o bytes]

\* The metadata that does not fit behind the last rows goes into packets of its
\* own; the last packet is marked complete.
FlushMeta(pk, meta) ==
  LET stream  == pk.part \o meta
      full    == FullBuffers(stream)
      Data(i) == IF i = 1 THEN pk.part ELSE <<>>
      Meta(i) == IF i = 1 THEN SubSeq(Piece(stream, 1), Used(pk) + 1, Len(Piece(stream, 1)))
                 ELSE Piece(stream, i)
  IN  [pk EXCEPT
         !.packets = @ \o [i \in 1 .. full + 1 |->
                             Packet(Len(@) + i - 1, Data(i), Meta(i), i = full + 1)],
         !.part = NoBuffer]

\* flush(true)
FlushLast(pk) == FlushMeta(Allocated(pk), pk.meta)

-----------------------------------------------------------------------------
(* The cursor: the packet it is at (0 = no more) and the bytes of it read.  *)

\* PackageSequencer::next, on the packets linked in the sequencer.
NextPacket(chain, i) ==
  IF (i > 0 /\ chain[i].complete) \/ i = Len(chain) THEN 0 ELSE i + 1

\* while (current_pos >= packetDataLimit): packets without data are passed.
SkipRead(chain, c) ==
  LET more == {j \in c.packet + 1 .. Len(chain) :
                 chain[j].data # <<>> /\ \A k \in c.packet .. j - 1 : ~chain[k].complete}
  IN  IF c.packet = 0 \/ c.pos < Len(chain[c.packet].data) THEN c
      ELSE [packet |-> IF more = {} THEN 0 ELSE Min(more), pos |-> 0]

NewCursor(chain) == SkipRead(chain, [packet |-> NextPacket(chain, 0), pos |-> HeaderSize])

AtEOF(c) == c.packet = 0

\* getNext: n bytes, from as many packets as hold them.
CopyNext(chain, c, n) ==
  LET copy[at \in [packet : 0 .. Len(chain), pos : 0 .. BufferSize], left \in 0 .. n] ==
        IF left = 0 \/ AtEOF(at) THEN [bytes |-> <<>>, cursor |-> at]
        ELSE LET data == chain[at.packet].data
                 m    == Min({left, Len(data) - at.pos})
                 rest == copy[SkipRead(chain, [at EXCEPT !.pos = @ + m]), left - m]
             IN  [rest EXCEPT !.bytes = SubSeq(data, at.pos + 1, at.pos + m) \o @]
  IN  copy[c, n]

\* getRow: the next row, read as the consumer does, who knows which rows are of
\* fixed length and how long these are.  A length that is cut in two fails an
\* assertion; a row that is not there is read as nothing.
ReadRow(chain, got, row) ==
  LET c     == got.cursor
      data  == chain[c.packet].data
      whole == Len(data) - c.pos >= LengthSize
      n     == IF row.variable THEN data[c.pos + 1][3] ELSE row.length
      at    == IF row.variable THEN SkipRead(chain, [c EXCEPT !.pos = @ + LengthSize]) ELSE c
      copy  == CopyNext(chain, at, n)
  IN  IF ~got.ok \/ AtEOF(c) \/ (row.variable /\ ~whole) THEN [got EXCEPT !.ok = FALSE]
      ELSE [rows |-> Append(got.rows, [bytes |-> copy.bytes, isLast |-> AtEOF(copy.cursor)]),
            cursor |-> copy.cursor, ok |-> TRUE]

ReadRows(chain, c, rows) ==
  FoldLeft(LAMBDA got, row : ReadRow(chain, got, row),
           [rows |-> <<>>, cursor |-> c, ok |-> TRUE], rows)
=============================================================================
