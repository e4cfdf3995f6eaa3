------------------------ MODULE MessageCollatorProofs ------------------------
(* Proofs about MessagePacking and MessageCollator, for any rows, metadata, *)
(* sizes, messages and orders in which packets arrive: packets fit their    *)
(* buffers, chains are in order, a message is queued when it is complete,   *)
(* not before, and once unless packets came twice, and what is queued       *)
(* carries every byte that was written.                                     *)
EXTENDS MessageCollator, CountingLemmas

-----------------------------------------------------------------------------
(* The packer.                                                             *)

LEMMA SizesAre ==
  /\ BufferSize \in Nat \ {0} /\ LengthSize \in Nat \ {0} /\ HeaderSize \in 1 .. BufferSize
  /\ NoBuffer \notin Seq(Byte)
BY PackingAssumption DEF Byte

LEMMA MinIs ==
  ASSUME NEW a \in Int, NEW b \in Int
  PROVE  Min({a, b}) = IF a <= b THEN a ELSE b
<1>1. Min({a, b}) \in {a, b} /\ \A y \in {a, b} : Min({a, b}) <= y
  <2>1. \E x \in {a, b} : \A y \in {a, b} : x <= y
    OBVIOUS
  <2>2. QED
    BY <2>1 DEF Min
<1>2. QED
  BY <1>1

LEMMA QuotientIs ==
  ASSUME NEW a \in Nat, NEW b \in Nat \ {0}
  PROVE  a \div b \in Nat
OBVIOUS

\* Slices of bytes.
LEMMA SliceIs ==
  ASSUME NEW T, NEW bytes \in Seq(T), NEW a \in Nat \ {0}, NEW b \in Int, b <= Len(bytes)
  PROVE  /\ SubSeq(bytes, a, b) \in Seq(T)
         /\ Len(SubSeq(bytes, a, b)) = IF a <= b THEN b - a + 1 ELSE 0
OBVIOUS

LEMMA PieceIs ==
  ASSUME NEW bytes \in Seq(Byte), NEW i \in Nat \ {0}
  PROVE  Piece(bytes, i) \in Seq(Byte) /\ Len(Piece(bytes, i)) <= BufferSize
<1> DEFINE a == (i - 1) * BufferSize + 1
           b == Min({i * BufferSize, Len(bytes)})
<1>1. (i - 1) * BufferSize \in Nat /\ i * BufferSize = (i - 1) * BufferSize + BufferSize
      /\ BufferSize \in Nat /\ Len(bytes) \in Nat
  BY SizesAre
<1>2. b = IF i * BufferSize <= Len(bytes) THEN i * BufferSize ELSE Len(bytes)
  BY <1>1, MinIs
<1>3. /\ a \in Nat \ {0} /\ b \in Int /\ b <= Len(bytes) /\ b - a + 1 <= BufferSize
  BY <1>1, <1>2
<1> HIDE DEF a, b
<1>4. SubSeq(bytes, a, b) \in Seq(Byte) /\ Len(SubSeq(bytes, a, b)) <= BufferSize
  <2>1. /\ SubSeq(bytes, a, b) \in Seq(Byte)
        /\ Len(SubSeq(bytes, a, b)) = IF a <= b THEN b - a + 1 ELSE 0
    BY <1>3, SliceIs
  <2>2. QED
    BY <1>1, <1>3, <2>1
<1>5. QED
  BY <1>4 DEF Piece, a, b

LEMMA FullBuffersType == ASSUME NEW bytes \in Seq(Byte) PROVE FullBuffers(bytes) \in Nat
<1>1. bytes # <<>> => Len(bytes) - 1 \in Nat
  OBVIOUS
<1>2. QED
  BY <1>1, SizesAre, QuotientIs DEF FullBuffers

\* The packets of a packer that has not been flushed, and its part_buffer.
Packing(pk) ==
  /\ pk \in Packers /\ Used(pk) <= BufferSize
  /\ \A i \in DOMAIN pk.packets :
       /\ pk.packets[i].seq = i - 1 /\ ~pk.packets[i].complete
       /\ Len(pk.packets[i].data) + Len(pk.packets[i].meta) <= BufferSize

LEMMA PackingIs ==
  ASSUME NEW pk, Packing(pk)
  PROVE  /\ pk.packets \in Seq(SomePacket) /\ pk.part \in Seq(Byte) \cup {NoBuffer}
         /\ pk.meta \in Seq(Byte) /\ pk.packed_request \in BOOLEAN
         /\ Used(pk) \in 0 .. BufferSize
         /\ DOMAIN pk.packets = 1 .. Len(pk.packets) /\ Len(pk.packets) \in Nat
<1>1. pk \in Packers
  BY DEF Packing
<1>2. pk.part \in Seq(Byte) \cup {NoBuffer} /\ pk.packets \in Seq(SomePacket)
      /\ pk.meta \in Seq(Byte) /\ pk.packed_request \in BOOLEAN
  BY <1>1 DEF Packers
<1>3. Used(pk) \in 0 .. BufferSize
  BY <1>2, SizesAre DEF Used, Packing
<1>4. QED
  BY <1>2, <1>3

LEMMA AllocatedKeeps ==
  ASSUME NEW pk, Packing(pk)
  PROVE  /\ Packing(Allocated(pk)) /\ Allocated(pk).part \in Seq(Byte)
         /\ Used(Allocated(pk)) = Used(pk) /\ Allocated(pk).packets = pk.packets
         /\ Allocated(pk).meta = pk.meta /\ Allocated(pk).packed_request = pk.packed_request
<1>1. CASE pk.part = NoBuffer
  <2> DEFINE new == [pk EXCEPT !.part = <<>>]
  <2>1. new \in Packers /\ new.part = <<>> /\ new.packets = pk.packets /\ new.meta = pk.meta
        /\ new.packed_request = pk.packed_request
    <3>1. pk \in Packers
      BY DEF Packing
    <3> DEFINE none == <<>>
    <3>2. none \in Seq(Byte)
      OBVIOUS
    <3> HIDE DEF none
    <3>3. [pk EXCEPT !.part = none] \in Packers /\ [pk EXCEPT !.part = none].part = none
          /\ [pk EXCEPT !.part = none].packets = pk.packets
          /\ [pk EXCEPT !.part = none].meta = pk.meta
          /\ [pk EXCEPT !.part = none].packed_request = pk.packed_request
      BY <3>1, <3>2 DEF Packers
    <3>4. QED
      BY <3>3 DEF none
  <2>2. Allocated(pk) = new
    BY <1>1 DEF Allocated
  <2> HIDE DEF new
  <2>3. <<>> \in Seq(Byte) /\ Len(<<>>) = 0
    OBVIOUS
  <2>4. Used(new) = 0 /\ Used(pk) = 0
    BY <1>1, <2>1, <2>3 DEF Used
  <2>5. QED
    BY <2>1, <2>2, <2>3, <2>4, SizesAre DEF Packing
<1>2. CASE pk.part # NoBuffer
  BY <1>2, PackingIs DEF Allocated
<1>3. QED
  BY <1>1, <1>2

\* A packet at the end.
LEMMA PutPackageIs ==
  ASSUME NEW pk, Packing(pk), NEW data \in Seq(Byte), NEW meta \in Seq(Byte),
         Len(data) + Len(meta) <= BufferSize
  PROVE  Packing(PutPackage(pk, data, meta, FALSE))
<1> DEFINE n == Len(pk.packets)
           p == Packet(n, data, meta, FALSE)
           more == Append(pk.packets, p)
<1>1. pk \in Packers /\ pk.packets \in Seq(SomePacket) /\ n \in Nat /\ n = Len(pk.packets)
      /\ DOMAIN pk.packets = 1 .. n
  BY PackingIs DEF Packing
<1>2. p \in SomePacket /\ p.seq = n /\ p.data = data /\ p.meta = meta /\ ~p.complete
  BY <1>1 DEF Packet, SomePacket
<1>3. PutPackage(pk, data, meta, FALSE) = [pk EXCEPT !.packets = more]
  BY <1>1 DEF PutPackage, Packers
<1> HIDE DEF p, n
<1>4. /\ more \in Seq(SomePacket) /\ DOMAIN more = 1 .. n + 1 /\ more[n + 1] = p
      /\ \A i \in 1 .. n : more[i] = pk.packets[i]
  BY <1>1, <1>2, AppendProperties
<1> HIDE DEF more
<1> DEFINE new == [pk EXCEPT !.packets = more]
<1>5. new \in Packers /\ new.packets = more /\ new.part = pk.part
  BY <1>1, <1>4 DEF Packers
<1> HIDE DEF new
<1>6. Used(new) <= BufferSize
  BY <1>5 DEF Packing, Used
<1>7. \A i \in 1 .. n + 1 : /\ more[i].seq = i - 1 /\ ~more[i].complete
                           /\ Len(more[i].data) + Len(more[i].meta) <= BufferSize
  <2>1. \A i \in 1 .. n : /\ more[i].seq = i - 1 /\ ~more[i].complete
                          /\ Len(more[i].data) + Len(more[i].meta) <= BufferSize
    BY <1>1, <1>4 DEF Packing
  <2>2. more[n + 1].seq = n /\ ~more[n + 1].complete
        /\ Len(more[n + 1].data) + Len(more[n + 1].meta) <= BufferSize
    BY <1>2, <1>4
  <2>3. \A i \in 1 .. n + 1 : i \in 1 .. n \/ i = n + 1
    BY <1>1
  <2>4. ASSUME NEW i \in 1 .. n + 1, i = n + 1
        PROVE  /\ more[i].seq = i - 1 /\ ~more[i].complete
               /\ Len(more[i].data) + Len(more[i].meta) <= BufferSize
    <3>1. i - 1 = n
      BY <1>1, <2>4
    <3>2. QED
      BY <2>2, <2>4, <3>1
  <2>5. QED
    BY <2>1, <2>3, <2>4
<1>8. QED
  BY <1>3, <1>4, <1>5, <1>6, <1>7 DEF Packing, new

\* Packets of this size, numbered on, after those there are.
LEMMA PacketsAdded ==
  ASSUME NEW pk, Packing(pk), NEW k \in Nat, NEW f \in [1 .. k -> SomePacket],
         \A i \in 1 .. k : /\ f[i].seq = Len(pk.packets) + i - 1
                           /\ Len(f[i].data) + Len(f[i].meta) <= BufferSize
  PROVE  /\ pk.packets \o f \in Seq(SomePacket)
         /\ Len(pk.packets \o f) = Len(pk.packets) + k
         /\ \A i \in 1 .. Len(pk.packets) + k :
              /\ (pk.packets \o f)[i].seq = i - 1
              /\ Len((pk.packets \o f)[i].data) + Len((pk.packets \o f)[i].meta) <= BufferSize
              /\ i <= Len(pk.packets) => ~(pk.packets \o f)[i].complete
              /\ i > Len(pk.packets) => (pk.packets \o f)[i] = f[i - Len(pk.packets)]
<1> DEFINE n == Len(pk.packets)
           old == pk.packets
           more == pk.packets \o f
<1>1. old \in Seq(SomePacket) /\ n \in Nat /\ DOMAIN old = 1 .. n /\ Len(old) = n
  BY PackingIs
<1>2. f \in Seq(SomePacket) /\ Len(f) = k
  OBVIOUS
<1>3. /\ more \in Seq(SomePacket) /\ Len(more) = n + k
      /\ \A i \in 1 .. n + k : more[i] = IF i <= n THEN old[i] ELSE f[i - n]
  <2>1. more = old \o f
    OBVIOUS
  <2> HIDE DEF more, old, n
  <2>2. QED
    BY <1>1, <1>2, <2>1, ConcatProperties
<1>4. \A i \in 1 .. n : /\ old[i].seq = i - 1 /\ ~old[i].complete
                        /\ Len(old[i].data) + Len(old[i].meta) <= BufferSize
  BY <1>1 DEF Packing
<1>5. \A i \in 1 .. k : /\ f[i].seq = n + i - 1
                        /\ Len(f[i].data) + Len(f[i].meta) <= BufferSize
  OBVIOUS
<1>6. n = Len(pk.packets) /\ more = pk.packets \o f
  OBVIOUS
<1> HIDE DEF more, old, n
<1>7. ASSUME NEW i \in 1 .. n + k
      PROVE  /\ more[i].seq = i - 1
             /\ Len(more[i].data) + Len(more[i].meta) <= BufferSize
             /\ i <= n => ~more[i].complete
             /\ i > n => more[i] = f[i - n]
  <2>1. CASE i <= n
    <3>1. i \in 1 .. n /\ more[i] = old[i]
      BY <1>1, <1>3, <2>1
    <3>2. /\ old[i].seq = i - 1 /\ ~old[i].complete
          /\ Len(old[i].data) + Len(old[i].meta) <= BufferSize
      BY <1>4, <3>1
    <3>3. ~(i > n)
      BY <1>1, <2>1
    <3>4. QED
      BY <3>1, <3>2, <3>3
  <2>2. CASE ~(i <= n)
    <3>1. i - n \in 1 .. k /\ more[i] = f[i - n] /\ n + (i - n) - 1 = i - 1
      BY <1>1, <1>3, <2>2
    <3>2. QED
      BY <1>5, <2>2, <3>1
  <2>3. QED
    BY <2>1, <2>2
<1>8. QED
  BY <1>3, <1>6, <1>7

\* The same packer with another part_buffer and more packets.
Repacked(pk, more, part) == [pk EXCEPT !.packets = more, !.part = part]

LEMMA RepackedIs ==
  ASSUME NEW pk, Packing(pk), NEW more \in Seq(SomePacket), NEW part \in Seq(Byte) \cup {NoBuffer}
  PROVE  /\ Repacked(pk, more, part) \in Packers
         /\ Repacked(pk, more, part).packets = more
         /\ Repacked(pk, more, part).part = part
         /\ Repacked(pk, more, part).meta = pk.meta
BY DEF Packing, Packers, Repacked

\* flush(false)
LEMMA FlushPartKeeps ==
  ASSUME NEW pk, Packing(pk)
  PROVE  /\ Packing(FlushPart(pk)) /\ FlushPart(pk).part = NoBuffer
         /\ FlushPart(pk).meta = pk.meta
<1>1. ASSUME NEW k, Packing(k)
      PROVE  /\ Packing([k EXCEPT !.part = NoBuffer])
             /\ [k EXCEPT !.part = NoBuffer].part = NoBuffer
             /\ [k EXCEPT !.part = NoBuffer].meta = k.meta
  <2>1. /\ [k EXCEPT !.part = NoBuffer] \in Packers
        /\ [k EXCEPT !.part = NoBuffer].part = NoBuffer
        /\ [k EXCEPT !.part = NoBuffer].meta = k.meta
        /\ [k EXCEPT !.part = NoBuffer].packets = k.packets
    BY <1>1 DEF Packing, Packers
  <2> DEFINE new == [k EXCEPT !.part = NoBuffer]
  <2>2. new \in Packers /\ new.part = NoBuffer /\ new.meta = k.meta /\ new.packets = k.packets
    BY <2>1
  <2> HIDE DEF new
  <2>3. Used(new) <= BufferSize
    BY <2>2, SizesAre DEF Used
  <2>4. Packing(new)
    BY <1>1, <2>2, <2>3 DEF Packing
  <2>5. QED
    BY <2>2, <2>4 DEF new
<1>2. CASE Used(pk) = 0
  BY <1>1, <1>2 DEF FlushPart
<1>3. CASE Used(pk) # 0
  <2>1. pk.part \in Seq(Byte) /\ Len(pk.part) + 0 <= BufferSize
    <3>1. pk.part \in Seq(Byte)
      BY <1>3, PackingIs DEF Used
    <3>2. Used(pk) = Len(pk.part) /\ Used(pk) <= BufferSize /\ Len(pk.part) \in Nat
      BY <3>1, SizesAre DEF Used, Packing
    <3>3. QED
      BY <3>1, <3>2
  <2>2. <<>> \in Seq(Byte) /\ Len(<<>>) = 0
    OBVIOUS
  <2>3. Packing(PutPackage(pk, pk.part, <<>>, FALSE))
    BY <2>1, <2>2, PutPackageIs
  <2>4. PutPackage(pk, pk.part, <<>>, FALSE).meta = pk.meta
    BY DEF PutPackage, Packing, Packers
  <2>5. QED
    BY <1>1, <1>3, <2>3, <2>4 DEF FlushPart
<1>4. QED
  BY <1>2, <1>3

LEMMA RowIs ==
  ASSUME NEW row \in Rows
  PROVE  /\ Prefix(row) \in Seq(Byte) /\ Content(row) \in Seq(Byte)
         /\ Prefix(row) \o Content(row) \in Seq(Byte)
         /\ Len(Prefix(row)) \in Nat /\ Len(Content(row)) = row.length
         /\ Len(Prefix(row) \o Content(row)) = Len(Prefix(row)) + row.length
<1>1. Prefix(row) \in Seq(Byte) /\ Len(Prefix(row)) \in Nat
  <2>1. [k \in 1 .. LengthSize |-> <<"length", row.id, row.length>>] \in [1 .. LengthSize -> Byte]
    BY DEF Rows, Byte
  <2>2. QED
    BY <2>1, SizesAre DEF Prefix
<1>2. Content(row) \in Seq(Byte) /\ Len(Content(row)) = row.length
  <2>1. [k \in 1 .. row.length |-> <<"row", row.id, k>>] \in [1 .. row.length -> Byte]
    BY DEF Rows, Byte
  <2>2. row.length \in Nat
    BY DEF Rows
  <2> DEFINE c == [k \in 1 .. row.length |-> <<"row", row.id, k>>]
  <2>3. c \in [1 .. row.length -> Byte]
    BY <2>1
  <2> HIDE DEF c
  <2>4. c \in Seq(Byte) /\ Len(c) = row.length
    BY <2>2, <2>3
  <2>5. QED
    BY <2>4 DEF Content, c
<1>3. QED
  BY <1>1, <1>2, ConcatProperties, SMTT(30)

\* getBuffer: what it returns has room for what was asked for.
LEMMA GetBufferKeeps ==
  ASSUME NEW pk, Packing(pk), NEW row \in Rows
  PROVE  /\ Packing(GetBuffer(pk, row)) /\ GetBuffer(pk, row).meta = pk.meta
         /\ GetBuffer(pk, row).packed_request =>
              /\ GetBuffer(pk, row).part \in Seq(Byte)
              /\ Len(GetBuffer(pk, row).part) + row.max + Len(Prefix(row)) <= BufferSize
<1> DEFINE n == row.max + Len(Prefix(row))
<1>1. ASSUME NEW k, Packing(k), NEW b \in BOOLEAN
      PROVE  /\ Packing([k EXCEPT !.packed_request = b])
             /\ [k EXCEPT !.packed_request = b].packed_request = b
             /\ [k EXCEPT !.packed_request = b].meta = k.meta
             /\ [k EXCEPT !.packed_request = b].part = k.part
  <2>1. /\ [k EXCEPT !.packed_request = b] \in Packers
        /\ [k EXCEPT !.packed_request = b].packed_request = b
        /\ [k EXCEPT !.packed_request = b].part = k.part
        /\ [k EXCEPT !.packed_request = b].meta = k.meta
        /\ [k EXCEPT !.packed_request = b].packets = k.packets
    BY <1>1 DEF Packing, Packers
  <2>2. QED
    BY <1>1, <2>1 DEF Packing, Used
<1>2. n \in Nat /\ n = row.max + Len(Prefix(row)) /\ row.max \in Nat /\ Len(Prefix(row)) \in Nat
  BY RowIs DEF Rows
<1> HIDE DEF n
<1>3. CASE BufferSize < n
  BY <1>1, <1>2, <1>3 DEF GetBuffer
<1>4. CASE ~(BufferSize < n)
  <2> DEFINE k == IF pk.part # NoBuffer /\ Room(pk) < n THEN FlushPart(pk) ELSE pk
  <2>1. Packing(k) /\ k.meta = pk.meta /\ Used(k) + n <= BufferSize
    <3>1. CASE pk.part # NoBuffer /\ Room(pk) < n
      BY <1>2, <1>4, <3>1, SizesAre, FlushPartKeeps DEF Used
    <3>2. CASE pk.part = NoBuffer
      BY <1>2, <1>4, <3>2, SizesAre DEF Used
    <3>3. CASE pk.part # NoBuffer /\ ~(Room(pk) < n)
      BY <1>2, <3>3, SizesAre, PackingIs DEF Room
    <3>4. QED
      BY <3>1, <3>2, <3>3
  <2>2. GetBuffer(pk, row) = [Allocated(k) EXCEPT !.packed_request = TRUE]
    BY <1>2, <1>4 DEF GetBuffer
  <2> HIDE DEF k
  <2>3. /\ Packing(Allocated(k)) /\ Allocated(k).part \in Seq(Byte) /\ Allocated(k).meta = pk.meta
        /\ Used(Allocated(k)) = Used(k)
    BY <2>1, AllocatedKeeps
  <2>4. Len(Allocated(k).part) = Used(k)
    BY <2>3, SizesAre DEF Used
  <2>5. Used(k) \in Nat
    BY <2>1, PackingIs
  <2> DEFINE new == [Allocated(k) EXCEPT !.packed_request = TRUE]
  <2>6. Packing(new) /\ new.meta = Allocated(k).meta /\ new.part = Allocated(k).part
    BY <1>1, <2>3
  <2>7. GetBuffer(pk, row) = new
    BY <2>2
  <2> HIDE DEF new
  <2>8. new.part \in Seq(Byte) /\ Len(new.part) = Used(k) /\ new.meta = pk.meta
    BY <2>3, <2>4, <2>6
  <2>9. Len(new.part) + row.max + Len(Prefix(row)) <= BufferSize
    BY <1>2, <2>1, <2>5, <2>8
  <2>10. QED
    BY <2>6, <2>7, <2>8, <2>9
<1>5. QED
  BY <1>3, <1>4

\* The loop of putBuffer.
LEMMA PutChunksKeeps ==
  ASSUME NEW pk, Packing(pk), NEW bytes \in Seq(Byte)
  PROVE  Packing(PutChunks(pk, bytes)) /\ PutChunks(pk, bytes).meta = pk.meta
<1> DEFINE stream == Allocated(pk).part \o bytes
           full == FullBuffers(stream)
           f == [i \in 1 .. full |->
                   Packet(Len(pk.packets) + i - 1, Piece(stream, i), <<>>, FALSE)]
           part == Piece(stream, full + 1)
           more == pk.packets \o f
<1>1. stream \in Seq(Byte)
  BY AllocatedKeeps, ConcatProperties
<1>2. full \in Nat
  <2> HIDE DEF stream
  <2>1. QED
    BY <1>1, FullBuffersType
<1>3. PutChunks(pk, bytes) = IF bytes = <<>> THEN pk
                             ELSE [pk EXCEPT !.packets = more, !.part = part]
  BY DEF PutChunks
<1> HIDE DEF stream, full
<1>4. \A i \in 1 .. full : /\ f[i] \in SomePacket /\ f[i].seq = Len(pk.packets) + i - 1
                           /\ Len(f[i].data) + Len(f[i].meta) <= BufferSize /\ ~f[i].complete
  <2> SUFFICES ASSUME NEW i \in 1 .. full
               PROVE  /\ f[i] \in SomePacket /\ f[i].seq = Len(pk.packets) + i - 1
                      /\ Len(f[i].data) + Len(f[i].meta) <= BufferSize /\ ~f[i].complete
    OBVIOUS
  <2>1. Piece(stream, i) \in Seq(Byte) /\ Len(Piece(stream, i)) <= BufferSize
    BY <1>1, <1>2, PieceIs
  <2> DEFINE data == Piece(stream, i)
             none == <<>>
             p == Packet(Len(pk.packets) + i - 1, data, none, FALSE)
  <2>2. f[i] = p
    OBVIOUS
  <2>3. none \in Seq(Byte) /\ Len(none) = 0
    OBVIOUS
  <2>4. Len(pk.packets) + i - 1 \in Nat
    BY PackingIs
  <2>5. data \in Seq(Byte) /\ Len(data) + 0 <= BufferSize
    BY <2>1, SizesAre
  <2> HIDE DEF data, none
  <2>6. /\ p \in SomePacket /\ p.seq = Len(pk.packets) + i - 1 /\ p.data = data /\ p.meta = none
        /\ ~p.complete
    BY <2>3, <2>4, <2>5 DEF Packet, SomePacket
  <2> HIDE DEF p, f
  <2>7. QED
    BY <2>2, <2>3, <2>5, <2>6
<1>5. f \in [1 .. full -> SomePacket]
  BY <1>4
<1>6. part \in Seq(Byte) /\ Len(part) <= BufferSize
  BY <1>1, <1>2, PieceIs
<1>7. more = pk.packets \o f /\ DOMAIN pk.packets = 1 .. Len(pk.packets) /\ Len(pk.packets) \in Nat
  BY PackingIs
<1> HIDE DEF f, part, more
<1>8. /\ more \in Seq(SomePacket) /\ Len(more) = Len(pk.packets) + full
      /\ \A i \in 1 .. Len(pk.packets) + full :
           /\ more[i].seq = i - 1
           /\ Len(more[i].data) + Len(more[i].meta) <= BufferSize
           /\ i <= Len(pk.packets) => ~more[i].complete
           /\ i > Len(pk.packets) => more[i] = f[i - Len(pk.packets)]
  <2>1. \A i \in 1 .. full : /\ f[i].seq = Len(pk.packets) + i - 1
                             /\ Len(f[i].data) + Len(f[i].meta) <= BufferSize
    BY <1>4
  <2>2. QED
    BY <1>2, <1>5, <1>7, <2>1, PacketsAdded
<1> DEFINE new == Repacked(pk, more, part)
<1>9. new \in Packers /\ new.packets = more /\ new.part = part /\ new.meta = pk.meta
  <2>1. more \in Seq(SomePacket)
    BY <1>8
  <2>2. QED
    BY <1>6, <2>1, RepackedIs
<1> HIDE DEF new
<1>10. Used(new) <= BufferSize
  BY <1>6, <1>9, SizesAre DEF Used
<1>11. ASSUME NEW i \in DOMAIN more PROVE ~more[i].complete
  <2>1. i \in 1 .. Len(pk.packets) + full
    BY <1>8
  <2>2. CASE i <= Len(pk.packets)
    BY <1>8, <2>1, <2>2
  <2>3. CASE ~(i <= Len(pk.packets))
    <3>1. i - Len(pk.packets) \in 1 .. full /\ more[i] = f[i - Len(pk.packets)]
      BY <1>2, <1>7, <1>8, <2>1, <2>3
    <3>2. QED
      BY <1>4, <3>1
  <2>4. QED
    BY <2>2, <2>3
<1>12. DOMAIN more = 1 .. Len(pk.packets) + full
  BY <1>8
<1>13. Packing(new)
  BY <1>8, <1>9, <1>10, <1>11, <1>12 DEF Packing
<1>14. QED
  BY <1>3, <1>9, <1>13 DEF new, Repacked

\* putBuffer, of a row for which getBuffer has found room or not.
LEMMA PutBufferKeeps ==
  ASSUME NEW pk, Packing(pk), NEW row \in Rows, row.length <= row.max,
         pk.packed_request =>
           pk.part \in Seq(Byte) /\ Len(pk.part) + row.max + Len(Prefix(row)) <= BufferSize
  PROVE  Packing(PutBuffer(pk, row)) /\ PutBuffer(pk, row).meta = pk.meta
<1> DEFINE bytes == Prefix(row) \o Content(row)
<1>1. bytes \in Seq(Byte) /\ Len(bytes) = Len(Prefix(row)) + row.length
      /\ Len(Prefix(row)) \in Nat /\ row.length \in Nat /\ row.max \in Nat
  BY RowIs DEF Rows
<1>2. CASE pk.packed_request
  <2> DEFINE part == pk.part \o bytes
             new == [pk EXCEPT !.part = part]
  <2>1. PutBuffer(pk, row) = new
    BY <1>2 DEF PutBuffer
  <2> HIDE DEF bytes
  <2>2. part \in Seq(Byte) /\ Len(part) = Len(pk.part) + Len(bytes) /\ Len(pk.part) \in Nat
    <3>1. pk.part \in Seq(Byte) /\ bytes \in Seq(Byte)
      BY <1>1, <1>2
    <3>2. QED
      BY <3>1, ConcatProperties
  <2>3. Len(part) <= BufferSize
    BY <1>1, <1>2, <2>2, SizesAre, SMTT(30)
  <2> HIDE DEF part
  <2>4. new \in Packers /\ new.part = part /\ new.meta = pk.meta /\ new.packets = pk.packets
    BY <2>2 DEF Packing, Packers
  <2> HIDE DEF new
  <2>5. Used(new) <= BufferSize
    BY <2>2, <2>3, <2>4, SizesAre DEF Used
  <2>6. Packing(new)
    BY <2>4, <2>5 DEF Packing
  <2>7. QED
    BY <2>1, <2>4, <2>6
<1>3. CASE ~pk.packed_request
  <2> DEFINE k == IF row.variable /\ Room(pk) < LengthSize THEN FlushPart(pk) ELSE pk
  <2>1. PutBuffer(pk, row) = PutChunks(k, bytes)
    BY <1>3 DEF PutBuffer
  <2>2. Packing(k) /\ k.meta = pk.meta
    BY FlushPartKeeps
  <2> HIDE DEF k, bytes
  <2>3. QED
    BY <1>1, <2>1, <2>2, PutChunksKeeps
<1>4. QED
  BY <1>2, <1>3

\* The packets of a packer that has been flushed.
Packed(pk) ==
  /\ pk \in Packers /\ pk.part = NoBuffer /\ pk.packets # <<>>
  /\ \A i \in DOMAIN pk.packets :
       /\ pk.packets[i].seq = i - 1 /\ (pk.packets[i].complete <=> i = Len(pk.packets))
       /\ Len(pk.packets[i].data) + Len(pk.packets[i].meta) <= BufferSize

\* flush(true)
LEMMA FlushMetaIs ==
  ASSUME NEW pk, Packing(pk), pk.part \in Seq(Byte), NEW meta \in Seq(Byte)
  PROVE  Packed(FlushMeta(pk, meta))
<1> DEFINE stream == pk.part \o meta
           full == FullBuffers(stream)
           Data(i) == IF i = 1 THEN pk.part ELSE <<>>
           Rest == SubSeq(Piece(stream, 1), Used(pk) + 1, Len(Piece(stream, 1)))
           Meta(i) == IF i = 1 THEN Rest ELSE Piece(stream, i)
           f == [i \in 1 .. full + 1 |->
                   Packet(Len(pk.packets) + i - 1, Data(i), Meta(i), i = full + 1)]
           more == pk.packets \o f
<1>1. stream \in Seq(Byte)
  BY ConcatProperties
<1>2. full \in Nat
  <2> HIDE DEF stream
  <2>1. QED
    BY <1>1, FullBuffersType
<1>3. FlushMeta(pk, meta) = [pk EXCEPT !.packets = more, !.part = NoBuffer]
  BY DEF FlushMeta
<1> HIDE DEF stream, full
<1>4. Used(pk) = Len(pk.part) /\ Used(pk) \in 0 .. BufferSize /\ BufferSize \in Nat
  BY SizesAre, PackingIs DEF Used
<1>5. Rest \in Seq(Byte) /\ Len(pk.part) + Len(Rest) <= BufferSize /\ Len(Rest) \in Nat
  <2> DEFINE first == Piece(stream, 1)
             a == Used(pk) + 1
             b == Len(Piece(stream, 1))
  <2>1. first \in Seq(Byte) /\ Len(first) <= BufferSize /\ Len(first) \in Nat /\ b = Len(first)
    BY <1>1, PieceIs
  <2>2. a \in Nat \ {0} /\ a = Len(pk.part) + 1 /\ Rest = SubSeq(first, a, b)
    BY <1>4
  <2>5. Len(first) \in Int /\ Len(pk.part) \in Nat
    BY <1>4, <2>1
  <2> HIDE DEF first, a, b, Rest
  <2>3. Rest \in Seq(Byte) /\ Len(Rest) = IF a <= b THEN b - a + 1 ELSE 0
    <3>1. b \in Int /\ b <= Len(first)
      BY <2>1
    <3>2. /\ SubSeq(first, a, b) \in Seq(Byte)
          /\ Len(SubSeq(first, a, b)) = IF a <= b THEN b - a + 1 ELSE 0
      <4>1. first \in Seq(Byte)
        BY <2>1
      <4>2. a \in Nat \ {0}
        BY <2>2
      <4>3. QED
        BY <3>1, <4>1, <4>2, SliceIs, Zenon
    <3>3. QED
      BY <2>2, <3>2
  <2>4. Len(pk.part) + Len(Rest) <= BufferSize /\ Len(Rest) \in Nat
    <3> DEFINE l == Len(Rest)
               u == Len(pk.part)
    <3>1. u \in 0 .. BufferSize /\ BufferSize \in Nat /\ a = u + 1
      BY <1>4, <2>2
    <3>2. b \in Nat /\ b <= BufferSize
      BY <2>1
    <3>3. l = IF a <= b THEN b - a + 1 ELSE 0
      BY <2>3
    <3> HIDE DEF l, u
    <3>4. u + l <= BufferSize /\ l \in Nat
      BY <3>1, <3>2, <3>3
    <3>5. QED
      BY <3>4 DEF l, u
  <2>6. QED
    BY <2>3, <2>4
<1> HIDE DEF Rest
<1>6. ASSUME NEW i \in 1 .. full + 1
      PROVE  /\ Data(i) \in Seq(Byte) /\ Meta(i) \in Seq(Byte)
             /\ Len(Data(i)) + Len(Meta(i)) <= BufferSize
  <2>1. CASE i = 1
    BY <1>5, <2>1
  <2>2. CASE i # 1
    <3>1. Piece(stream, i) \in Seq(Byte) /\ Len(Piece(stream, i)) <= BufferSize
          /\ Len(Piece(stream, i)) \in Nat
      BY <1>1, <1>2, PieceIs
    <3>2. Data(i) = <<>> /\ Meta(i) = Piece(stream, i)
      BY <2>2
    <3>3. Data(i) \in Seq(Byte) /\ Len(Data(i)) = 0
      BY <3>2
    <3>4. QED
      BY <3>1, <3>2, <3>3
  <2>3. QED
    BY <2>1, <2>2
<1> HIDE DEF Data, Meta
<1>7. ASSUME NEW i \in 1 .. full + 1
      PROVE  /\ f[i] \in SomePacket /\ f[i].seq = Len(pk.packets) + i - 1
             /\ Len(f[i].data) + Len(f[i].meta) <= BufferSize
             /\ f[i].complete <=> i = full + 1
  <2> DEFINE p == Packet(Len(pk.packets) + i - 1, Data(i), Meta(i), i = full + 1)
  <2>1. f[i] = p
    OBVIOUS
  <2>2. Len(pk.packets) + i - 1 \in Nat
    BY PackingIs
  <2>3. /\ p \in SomePacket /\ p.seq = Len(pk.packets) + i - 1 /\ p.data = Data(i)
        /\ p.meta = Meta(i) /\ (p.complete <=> i = full + 1)
    BY <1>6, <2>2 DEF Packet, SomePacket
  <2> HIDE DEF p, f
  <2>4. QED
    BY <1>6, <2>1, <2>3
<1>8. f \in [1 .. full + 1 -> SomePacket]
  BY <1>7
<1>9. more = pk.packets \o f /\ DOMAIN pk.packets = 1 .. Len(pk.packets) /\ Len(pk.packets) \in Nat
  BY PackingIs
<1> HIDE DEF f, more
<1> DEFINE n == Len(pk.packets)
<1>10. /\ more \in Seq(SomePacket) /\ Len(more) = n + full + 1
       /\ \A i \in 1 .. n + full + 1 :
            /\ more[i].seq = i - 1
            /\ Len(more[i].data) + Len(more[i].meta) <= BufferSize
            /\ i <= n => ~more[i].complete
            /\ i > n => more[i] = f[i - n]
  <2>0. n \in Nat
    BY <1>9
  <2>1. full + 1 \in Nat /\ n + full + 1 = n + (full + 1)
    <3> HIDE DEF n
    <3>1. QED
      BY <1>2, <2>0
  <2>2. /\ more \in Seq(SomePacket) /\ Len(more) = n + (full + 1)
        /\ \A i \in 1 .. n + (full + 1) :
             /\ more[i].seq = i - 1
             /\ Len(more[i].data) + Len(more[i].meta) <= BufferSize
             /\ i <= n => ~more[i].complete
             /\ i > n => more[i] = f[i - n]
    <3>1. \A i \in 1 .. full + 1 : /\ f[i].seq = Len(pk.packets) + i - 1
                                   /\ Len(f[i].data) + Len(f[i].meta) <= BufferSize
      BY <1>7
    <3>2. QED
      BY <1>8, <1>9, <2>1, <3>1, PacketsAdded
  <2> HIDE DEF n
  <2>3. QED
    BY <2>1, <2>2
<1> DEFINE new == Repacked(pk, more, NoBuffer)
<1>11. new \in Packers /\ new.packets = more /\ new.part = NoBuffer
  <2>1. more \in Seq(SomePacket)
    BY <1>10
  <2>2. QED
    BY <2>1, RepackedIs
<1> HIDE DEF new
<1>12. ASSUME NEW i \in DOMAIN more PROVE more[i].complete <=> i = Len(more)
  <2>1. i \in 1 .. n + full + 1 /\ Len(more) = n + full + 1
    BY <1>10
  <2> DEFINE all == Len(more)
  <2>4. n \in Nat /\ full \in Nat /\ all = n + full + 1 /\ i \in 1 .. n + full + 1
    BY <1>2, <1>9, <2>1
  <2>5. (i <= n => ~more[i].complete) /\ (i > n => more[i] = f[i - n])
    BY <1>10, <2>1
  <2> HIDE DEF n, all
  <2>2. CASE i <= n
    <3>1. ~more[i].complete
      BY <2>2, <2>5
    <3>2. i # all
      BY <2>2, <2>4
    <3>3. QED
      BY <3>1, <3>2 DEF all
  <2>3. CASE ~(i <= n)
    <3>1. i - n \in 1 .. full + 1 /\ i > n /\ (i - n = full + 1 <=> i = all)
      BY <2>3, <2>4
    <3>3. more[i] = f[i - n]
      BY <2>5, <3>1
    <3>4. f[i - n].complete <=> i - n = full + 1
      BY <1>7, <3>1
    <3>5. QED
      BY <3>1, <3>3, <3>4 DEF all
  <2>6. i <= n \/ ~(i <= n)
    OBVIOUS
  <2>7. QED
    BY <2>2, <2>3, <2>6
<1>13. DOMAIN more = 1 .. n + full + 1 /\ more # <<>>
  BY <1>2, <1>9, <1>10
<1>14. Packed(new)
  BY <1>10, <1>11, <1>12, <1>13 DEF Packed
<1>15. QED
  BY <1>3, <1>14 DEF new, Repacked

LEMMA FlushLastIs ==
  ASSUME NEW pk, Packing(pk)
  PROVE  Packed(FlushLast(pk))
<1>1. Packing(Allocated(pk)) /\ Allocated(pk).part \in Seq(Byte) /\ pk.meta \in Seq(Byte)
  BY AllocatedKeeps, PackingIs
<1>2. QED
  BY <1>1, FlushMetaIs DEF FlushLast

-----------------------------------------------------------------------------
(* The workers: every packer is as it should be.                            *)

PackersInv ==
  /\ packer \in [Messages -> Packers] /\ rows \in [Messages -> Seq(Rows)]
  /\ flushed \subseteq Messages
  /\ \A m \in Messages : /\ m \notin flushed => Packing(packer[m])
                         /\ m \in flushed => Packed(packer[m])

LEMMA NewPackerIs == Packing(NewPacker)
<1> DEFINE header == [k \in 1 .. HeaderSize |-> <<"header", k, 0>>]
           none == <<>>
           new == [part |-> header, packets |-> none, packed_request |-> FALSE, meta |-> none]
<1>1. header \in Seq(Byte) /\ Len(header) = HeaderSize
  <2>1. header \in [1 .. HeaderSize -> Byte] /\ HeaderSize \in Nat
    BY SizesAre DEF Byte
  <2> HIDE DEF header
  <2>2. QED
    BY <2>1
<1>2. none \in Seq(SomePacket) /\ none \in Seq(Byte) /\ DOMAIN none = {}
  OBVIOUS
<1>3. NewPacker = new
  BY DEF NewPacker
<1> HIDE DEF header, none
<1>4. new \in Packers /\ new.part = header /\ new.packets = none
  BY <1>1, <1>2 DEF Packers
<1> HIDE DEF new
<1>5. Used(new) <= BufferSize
  BY <1>1, <1>4, SizesAre DEF Used
<1>6. QED
  BY <1>2, <1>3, <1>4, <1>5 DEF Packing

LEMMA KindIs ==
  ASSUME NEW kind \in RowKinds, NEW id \in Nat
  PROVE  LET row == Row(id, kind.variable, kind.max, kind.length)
         IN  row \in Rows /\ row.length <= row.max
BY CollatorAssumption DEF Row, Rows

LEMMA PackersStart == Init => PackersInv
<1> SUFFICES ASSUME Init PROVE PackersInv
  OBVIOUS
<1> DEFINE none == <<>>
<1>1. none \in Seq(Rows)
  OBVIOUS
<1>2. rows = [m \in Messages |-> none] /\ flushed = {}
  BY DEF Init
<1> HIDE DEF none
<1>3. rows \in [Messages -> Seq(Rows)] /\ flushed \subseteq Messages
  BY <1>1, <1>2
<1>4. packer = [m \in Messages |-> NewPacker]
  BY DEF Init
<1>5. NewPacker \in Packers
  BY NewPackerIs DEF Packing
<1>6. packer \in [Messages -> Packers]
  BY <1>4, <1>5
<1>7. \A m \in Messages : Packing(packer[m])
  BY <1>4, NewPackerIs
<1>8. QED
  BY <1>2, <1>3, <1>6, <1>7 DEF PackersInv

\* One packer changes, of a message that has not been flushed.
LEMMA PackerChanged ==
  ASSUME PackersInv, NEW m \in Messages, NEW pk, packer' = [packer EXCEPT ![m] = pk],
         rows' \in [Messages -> Seq(Rows)],
         \/ Packing(pk) /\ m \notin flushed /\ flushed' = flushed
         \/ Packed(pk) /\ flushed' = flushed \cup {m}
  PROVE  PackersInv'
<1>1. pk \in Packers
  BY DEF Packing, Packed
<1>2. packer' \in [Messages -> Packers] /\ flushed' \subseteq Messages
  BY <1>1 DEF PackersInv
<1>3. ASSUME NEW n \in Messages
      PROVE  /\ n \notin flushed' => Packing(packer'[n])
             /\ n \in flushed' => Packed(packer'[n])
  <2>1. CASE n = m
    <3>1. packer'[n] = pk
      BY <2>1 DEF PackersInv
    <3>2. QED
      BY <2>1, <3>1
  <2>2. CASE n # m
    <3>1. packer'[n] = packer[n] /\ (n \in flushed' <=> n \in flushed)
      BY <2>2 DEF PackersInv
    <3>2. QED
      BY <3>1 DEF PackersInv
  <2>3. QED
    BY <2>1, <2>2
<1>4. QED
  BY <1>2, <1>3 DEF PackersInv

LEMMA MetaSent ==
  ASSUME NEW pk, Packing(pk), NEW n \in MetaSizes
  PROVE  Packing(SendMetaInfo(pk, MetaBytes(0, n)))
<1> DEFINE bytes == MetaBytes(0, n)
           more == pk.meta \o bytes
           new == [pk EXCEPT !.meta = more]
<1>1. bytes \in Seq(Byte)
  <2>1. [k \in 1 .. n |-> <<"meta", 0 + k, 0>>] \in [1 .. n -> Byte] /\ n \in Nat
    BY CollatorAssumption DEF Byte
  <2>2. QED
    BY <2>1 DEF MetaBytes
<1>2. SendMetaInfo(pk, bytes) = new
  BY DEF SendMetaInfo
<1> HIDE DEF bytes
<1>3. more \in Seq(Byte)
  BY <1>1, PackingIs, ConcatProperties
<1> HIDE DEF more
<1>4. new \in Packers /\ new.part = pk.part /\ new.packets = pk.packets
  BY <1>3 DEF Packing, Packers
<1> HIDE DEF new
<1>5. Used(new) = Used(pk)
  BY <1>4 DEF Used
<1>6. QED
  BY <1>2, <1>4, <1>5 DEF Packing, bytes

LEMMA WriteRowKeeps ==
  ASSUME PackersInv, NEW m \in Messages, WriteRow(m)
  PROVE  PackersInv'
<1>1. PICK kind \in RowKinds :
        LET row == Row(Len(rows[m]) + 1, kind.variable, kind.max, kind.length)
        IN  /\ packer' = [packer EXCEPT ![m] = PutBuffer(GetBuffer(@, row), row)]
            /\ rows' = [rows EXCEPT ![m] = Append(@, row)]
  BY DEF WriteRow
<1> DEFINE row == Row(Len(rows[m]) + 1, kind.variable, kind.max, kind.length)
           got == GetBuffer(packer[m], row)
<1>2. row \in Rows /\ row.length <= row.max /\ rows[m] \in Seq(Rows)
  <2>1. rows[m] \in Seq(Rows) /\ Len(rows[m]) + 1 \in Nat
    BY DEF PackersInv
  <2>2. QED
    BY <2>1, KindIs
<1>3. /\ packer' = [packer EXCEPT ![m] = PutBuffer(got, row)]
      /\ rows' = [rows EXCEPT ![m] = Append(rows[m], row)]
  BY <1>1 DEF PackersInv
<1>4. m \notin flushed /\ flushed' = flushed /\ Packing(packer[m])
  BY DEF WriteRow, PackersInv
<1> HIDE DEF row
<1>5. /\ Packing(got)
      /\ got.packed_request =>
           got.part \in Seq(Byte) /\ Len(got.part) + row.max + Len(Prefix(row)) <= BufferSize
  BY <1>2, <1>4, GetBufferKeeps
<1> HIDE DEF got
<1>6. Packing(PutBuffer(got, row))
  BY <1>2, <1>5, PutBufferKeeps
<1>7. Append(rows[m], row) \in Seq(Rows)
  BY <1>2, AppendProperties
<1>8. rows' \in [Messages -> Seq(Rows)]
  BY <1>3, <1>7 DEF PackersInv
<1>9. QED
  BY <1>3, <1>4, <1>6, <1>8, PackerChanged

LEMMA SkipRowKeeps ==
  ASSUME PackersInv, NEW m \in Messages, SkipRow(m)
  PROVE  PackersInv'
<1>1. PICK kind \in RowKinds :
        packer' = [packer EXCEPT ![m] =
          GetBuffer(@, Row(0, kind.variable, kind.max, kind.length))]
  BY DEF SkipRow
<1> DEFINE row == Row(0, kind.variable, kind.max, kind.length)
           got == GetBuffer(packer[m], row)
<1>2. row \in Rows
  BY KindIs
<1>3. packer' = [packer EXCEPT ![m] = got] /\ rows' \in [Messages -> Seq(Rows)]
  BY <1>1 DEF SkipRow, PackersInv
<1>4. m \notin flushed /\ flushed' = flushed /\ Packing(packer[m])
  BY DEF SkipRow, PackersInv
<1> HIDE DEF row
<1>5. Packing(got)
  BY <1>2, <1>4, GetBufferKeeps
<1> HIDE DEF got
<1>6. QED
  BY <1>3, <1>4, <1>5, PackerChanged

LEMMA FinishKeeps ==
  ASSUME PackersInv, NEW m \in Messages, Finish(m)
  PROVE  PackersInv'
<1>1. PICK n \in MetaSizes :
        packer' = [packer EXCEPT ![m] = FlushLast(SendMetaInfo(@, MetaBytes(0, n)))]
  BY DEF Finish
<1> DEFINE pk == FlushLast(SendMetaInfo(packer[m], MetaBytes(0, n)))
<1>2. Packing(packer[m]) /\ rows' \in [Messages -> Seq(Rows)] /\ flushed' = flushed \cup {m}
  BY DEF Finish, PackersInv
<1>3. Packed(pk)
  BY <1>2, MetaSent, FlushLastIs
<1>4. packer' = [packer EXCEPT ![m] = pk]
  BY <1>1 DEF PackersInv
<1> HIDE DEF pk
<1>5. QED
  BY <1>2, <1>3, <1>4, PackerChanged

LEMMA PackersUnchanged ==
  ASSUME PackersInv, UNCHANGED packVars
  PROVE  PackersInv'
BY DEF PackersInv, packVars

LEMMA PackersStep == PackersInv /\ [Next]_vars => PackersInv'
<1> SUFFICES ASSUME PackersInv, [Next]_vars PROVE PackersInv'
  OBVIOUS
<1>1. ASSUME NEW m \in Messages, WriteRow(m) \/ SkipRow(m) \/ Finish(m) PROVE PackersInv'
  BY <1>1, WriteRowKeeps, SkipRowKeeps, FinishKeeps
<1>2. ASSUME NEW m \in Messages, Attach(m) \/ AttachFails(m) PROVE PackersInv'
  BY <1>2, PackersUnchanged DEF Attach, AttachFails
<1>3. CASE GetNextResult
  BY <1>3, PackersUnchanged DEF GetNextResult
<1>4. CASE UNCHANGED vars
  BY <1>4, PackersUnchanged DEF vars
<1>5. QED
  BY <1>1, <1>2, <1>3, <1>4 DEF Next

LEMMA PackersFit == PackersInv => PacketsFit
<1> SUFFICES ASSUME PackersInv, NEW m \in Messages
             PROVE  /\ Used(packer[m]) <= BufferSize
                    /\ \A i \in DOMAIN Packets(m) :
                         LET p == Packets(m)[i]
                         IN  /\ p.seq = i - 1
                             /\ Len(p.data) + Len(p.meta) \in 0 .. BufferSize
                             /\ p.complete <=> m \in flushed /\ i = Len(Packets(m))
  BY DEF PacketsFit
<1>1. packer[m] \in Packers /\ Packets(m) \in Seq(SomePacket)
  BY DEF PackersInv, Packers, Packets
<1>2. ASSUME NEW i \in DOMAIN Packets(m),
             Len(Packets(m)[i].data) + Len(Packets(m)[i].meta) <= BufferSize
      PROVE  Len(Packets(m)[i].data) + Len(Packets(m)[i].meta) \in 0 .. BufferSize
  <2>1. Packets(m)[i] \in SomePacket
    BY <1>1
  <2>2. Packets(m)[i].data \in Seq(Byte) /\ Packets(m)[i].meta \in Seq(Byte)
    BY <2>1 DEF SomePacket
  <2> DEFINE d == Len(Packets(m)[i].data)
             e == Len(Packets(m)[i].meta)
  <2>3. d \in Nat /\ e \in Nat /\ d + e <= BufferSize
    <3>1. d \in Nat
      BY <2>2, LenProperties
    <3>2. e \in Nat
      BY <2>2, LenProperties
    <3>3. d + e <= BufferSize
      BY <1>2, Zenon
    <3>4. QED
      BY <3>1, <3>2, <3>3, Zenon
  <2> HIDE DEF d, e
  <2>4. d + e \in 0 .. BufferSize
    BY <2>3, SizesAre
  <2>5. QED
    BY <2>4 DEF d, e
<1>3. CASE m \notin flushed
  BY <1>2, <1>3 DEF PackersInv, Packing, Packets
<1>4. CASE m \in flushed
  <2>1. Packed(packer[m])
    BY <1>4 DEF PackersInv
  <2>2. Used(packer[m]) <= BufferSize
    BY <2>1, SizesAre DEF Packed, Used
  <2>3. QED
    BY <1>2, <1>4, <2>1, <2>2 DEF Packed, Packets
<1>5. QED
  BY <1>3, <1>4

\* No packet is larger than a buffer, packets are numbered from 0 and only the
\* last is marked complete, whatever rows and metadata a worker sends and
\* whatever the sizes (getBuffer, putBuffer and flush of CMessagePacker).
THEOREM PacketsAlwaysFit == Spec => []PacketsFit
<1>1. PackersInv => PacketsFit
  BY PackersFit
<1>2. QED
  BY <1>1, PackersStart, PackersStep, PTL DEF Spec

-----------------------------------------------------------------------------
(* Numbers that are inserted into an ascending list of numbers.              *)

\* n numbers that grow at least as fast as their positions.
Spaced(n, f) ==
  \A i \in 1 .. n : f[i] >= i - 1 /\ \A j \in i + 1 .. n : f[j] - f[i] >= j - i

\* g is f with x behind the first k numbers.
With(n, f, k, x, g) ==
  /\ n \in Nat /\ f \in [1 .. n -> Nat] /\ k \in 0 .. n /\ x \in Nat
  /\ g \in [1 .. n + 1 -> Nat]
  /\ \A i \in 1 .. k : f[i] < x
  /\ \A i \in k + 1 .. n : f[i] > x
  /\ \A j \in 1 .. k : g[j] = f[j]
  /\ g[k + 1] = x
  /\ \A j \in k + 2 .. n + 1 : g[j] = f[j - 1]

LEMMA SpacedWith ==
  ASSUME NEW n, NEW f, NEW k, NEW x, NEW g, With(n, f, k, x, g), Spaced(n, f)
  PROVE  Spaced(n + 1, g)
<1>1. ASSUME NEW j \in 1 .. k PROVE x - f[j] >= k + 1 - j
  <2>1. CASE j = k
    BY <2>1 DEF With
  <2>2. CASE j < k
    <3>1. f[k] - f[j] >= k - j
      BY <2>2 DEF With, Spaced
    <3>2. f[k] < x /\ f[k] \in Nat /\ f[j] \in Nat /\ x \in Nat /\ k \in Nat
      BY <2>2 DEF With
    <3>3. QED
      BY <3>1, <3>2
  <2>3. QED
    BY <2>1, <2>2 DEF With
<1>2. ASSUME NEW j \in k + 1 .. n PROVE f[j] - x >= j - k
  <2>1. CASE j = k + 1
    BY <2>1 DEF With
  <2>2. CASE j > k + 1
    <3>1. f[j] - f[k + 1] >= j - (k + 1)
      BY <2>2 DEF With, Spaced
    <3>2. f[k + 1] > x /\ f[k + 1] \in Nat /\ f[j] \in Nat /\ x \in Nat /\ k \in Nat
      BY <2>2 DEF With
    <3>3. QED
      BY <3>1, <3>2
  <2>3. QED
    BY <2>1, <2>2 DEF With
<1>3. x >= k
  <2>1. CASE k = 0
    BY <2>1 DEF With
  <2>2. CASE k # 0
    BY <2>2, <1>1 DEF With, Spaced
  <2>3. QED
    BY <2>1, <2>2
<1>4. ASSUME NEW i \in 1 .. n + 1 PROVE g[i] >= i - 1
  <2>1. CASE i <= k
    BY <2>1 DEF With, Spaced
  <2>2. CASE i = k + 1
    BY <2>2, <1>3 DEF With
  <2>3. CASE i > k + 1
    <3>1. i - 1 \in k + 1 .. n /\ i \in k + 2 .. n + 1
      BY <2>3 DEF With
    <3>2. f[i - 1] - x >= (i - 1) - k /\ g[i] = f[i - 1] /\ f[i - 1] \in Nat
      BY <1>2, <3>1 DEF With
    <3>3. QED
      BY <1>3, <3>2 DEF With
  <2>4. QED
    BY <2>1, <2>2, <2>3 DEF With
<1>5. ASSUME NEW i \in 1 .. n + 1, NEW j \in i + 1 .. n + 1 PROVE g[j] - g[i] >= j - i
  <2>1. CASE j <= k
    <3>1. i \in 1 .. n /\ j \in i + 1 .. n /\ g[i] = f[i] /\ g[j] = f[j]
      BY <2>1 DEF With
    <3>2. QED
      BY <3>1 DEF Spaced
  <2>2. CASE j = k + 1
    BY <1>1, <2>2 DEF With
  <2>3. CASE j > k + 1
    <3>1. j - 1 \in k + 1 .. n /\ j \in k + 2 .. n + 1 /\ g[j] = f[j - 1] /\ f[j - 1] \in Nat
          /\ x \in Nat /\ k \in Nat
      BY <2>3 DEF With
    <3>2. f[j - 1] - x >= (j - 1) - k
      BY <1>2, <3>1
    <3>3. CASE i <= k
      <4>1. x - f[i] >= k + 1 - i /\ g[i] = f[i] /\ f[i] \in Nat
        BY <1>1, <3>3 DEF With
      <4>2. QED
        BY <3>1, <3>2, <4>1
    <3>4. CASE i = k + 1
      BY <3>1, <3>2, <3>4 DEF With
    <3>5. CASE i > k + 1
      <4>1. g[i] = f[i - 1] /\ i - 1 \in 1 .. n /\ j - 1 \in (i - 1) + 1 .. n
        BY <3>5 DEF With
      <4>2. f[j - 1] - f[i - 1] >= (j - 1) - (i - 1)
        BY <4>1 DEF Spaced
      <4>3. QED
        BY <3>1, <4>1, <4>2
    <3>6. QED
      BY <3>1, <3>3, <3>4, <3>5
  <2>4. QED
    BY <2>1, <2>2, <2>3 DEF With
<1>6. QED
  BY <1>4, <1>5 DEF Spaced

\* The numbers that follow each other from 0 are the first l of f.
Contiguous(n, f, l) == l \in 0 .. n /\ \A i \in 1 .. n : i <= l <=> f[i] = i - 1

\* x does not come in among these, ...
LEMMA BehindContiguous ==
  ASSUME NEW n, NEW f, NEW k, NEW x, NEW g, With(n, f, k, x, g), NEW l, Contiguous(n, f, l)
  PROVE  l <= k
<1> SUFFICES ASSUME l > k PROVE FALSE
  BY DEF With, Contiguous
<1>1. k + 1 \in 1 .. n /\ f[k + 1] = k /\ f[k + 1] > x /\ x \in Nat /\ k \in Nat
  BY DEF With, Contiguous
<1>2. CASE k = 0
  BY <1>1, <1>2
<1>3. CASE k # 0
  <2>1. f[k] = k - 1 /\ f[k] < x
    BY <1>1, <1>3 DEF With, Contiguous
  <2>2. QED
    BY <1>1, <2>1
<1>4. QED
  BY <1>2, <1>3

\* ... leaves them as they are if it comes further behind, ...
LEMMA ContiguousKept ==
  ASSUME NEW n, NEW f, NEW k, NEW x, NEW g, With(n, f, k, x, g), Spaced(n, f),
         NEW l, Contiguous(n, f, l), k # l
  PROVE  Contiguous(n + 1, g, l)
<1>1. l < k /\ l \in Nat /\ k \in 1 .. n /\ n \in Nat /\ x \in Nat
  BY BehindContiguous DEF With, Contiguous
<1>2. Spaced(n + 1, g)
  BY SpacedWith
<1>3. f[k] >= k /\ f[k] < x /\ f[k] \in Nat
  <2>1. f[k] # k - 1 /\ f[k] >= k - 1 /\ f[k] < x /\ f[k] \in Nat
    BY <1>1 DEF With, Contiguous, Spaced
  <2>2. QED
    BY <1>1, <2>1
<1>4. g[k + 1] >= k + 1 /\ g[k + 1] \in Nat
  BY <1>1, <1>3 DEF With
<1>5. ASSUME NEW i \in 1 .. n + 1 PROVE i <= l <=> g[i] = i - 1
  <2>1. CASE i <= k
    BY <1>1, <2>1 DEF With, Contiguous
  <2>2. CASE i = k + 1
    BY <1>1, <1>4, <2>2
  <2>3. CASE i > k + 1
    <3>0. k + 1 \in 1 .. n + 1 /\ i \in (k + 1) + 1 .. n + 1
      BY <1>1, <2>3
    <3>1. g[i] - g[k + 1] >= i - (k + 1) /\ g[i] \in Nat
      BY <1>2, <3>0 DEF Spaced, With
    <3>2. QED
      BY <1>1, <1>4, <2>3, <3>1
  <2>4. QED
    BY <1>1, <2>1, <2>2, <2>3
<1>6. QED
  BY <1>1, <1>5 DEF Contiguous

\* ... and otherwise makes them as many more as follow each other now.
LEMMA ContiguousGrows ==
  ASSUME NEW n, NEW f, NEW k, NEW x, NEW g, With(n, f, k, x, g), Spaced(n, f),
         Contiguous(n, f, k)
  PROVE  LET more == {q \in k .. n + 1 : \A i \in k + 1 .. q : g[i] = i - 1}
         IN  Max(more) \in k .. n + 1 /\ Contiguous(n + 1, g, Max(more))
<1> DEFINE more == {q \in k .. n + 1 : \A i \in k + 1 .. q : g[i] = i - 1}
           l == Max(more)
<1>1. k \in 0 .. n /\ n \in Nat
  BY DEF With
<1>2. more \in SUBSET (0 .. n + 1) /\ k \in more /\ n + 1 \in Nat
  BY <1>1
<1>3. l \in more /\ \A t \in more : t <= l
  <2>1. more # {}
    BY <1>2
  <2> HIDE DEF more
  <2>2. QED
    BY <1>2, <2>1, MaxNat
<1> HIDE DEF l
<1>4. l \in k .. n + 1 /\ \A i \in k + 1 .. l : g[i] = i - 1
  BY <1>3
<1>5. l < n + 1 => g[l + 1] # l
  <2> SUFFICES ASSUME l < n + 1, g[l + 1] = l PROVE FALSE
    OBVIOUS
  <2>1. l + 1 \in k .. n + 1 /\ \A i \in k + 1 .. l + 1 : i \in k + 1 .. l \/ i = l + 1
    BY <1>1, <1>4
  <2>2. \A i \in k + 1 .. l + 1 : g[i] = i - 1
    BY <1>1, <1>4, <2>1
  <2>3. l + 1 \in more
    BY <2>1, <2>2
  <2>4. l + 1 <= l
    BY <1>3, <2>3
  <2>5. QED
    BY <1>1, <1>4, <2>4
<1> HIDE DEF more
<1>6. Spaced(n + 1, g)
  BY SpacedWith
<1>7. ASSUME NEW i \in 1 .. n + 1 PROVE i <= l <=> g[i] = i - 1
  <2>1. CASE i <= k
    BY <1>1, <1>4, <2>1 DEF With, Contiguous
  <2>2. CASE i > k /\ i <= l
    BY <1>1, <1>4, <2>2
  <2>3. CASE i = l + 1
    BY <1>1, <1>4, <1>5, <2>3
  <2>4. CASE i > l + 1
    <3>1. l + 1 \in 1 .. n + 1 /\ g[l + 1] \in Nat /\ g[i] \in Nat /\ l \in Nat
      BY <1>1, <1>4, <2>4 DEF With
    <3>2. g[l + 1] >= l /\ g[l + 1] # l
      <4>1. l < n + 1
        BY <1>1, <2>4, <3>1
      <4>2. g[l + 1] >= (l + 1) - 1
        BY <1>6, <3>1 DEF Spaced
      <4>3. QED
        BY <1>5, <3>1, <4>1, <4>2
    <3>3. g[i] - g[l + 1] >= i - (l + 1)
      BY <1>6, <2>4, <3>1 DEF Spaced
    <3>4. QED
      BY <2>4, <3>1, <3>2, <3>3
  <2>5. QED
    BY <1>1, <1>4, <2>1, <2>2, <2>3, <2>4
<1>8. l \in 0 .. n + 1
  BY <1>1, <1>4
<1>9. QED
  BY <1>4, <1>7, <1>8 DEF Contiguous, l, more

-----------------------------------------------------------------------------
(* PackageSequencer::insert.                                                *)

\* The packets of a message of n packets.
Whole(packets, n) ==
  /\ n \in Nat \ {0}
  /\ \A p \in packets : p.seq \in 0 .. n - 1 /\ (p.complete <=> p.seq = n - 1)
  /\ \A k \in 0 .. n - 1 : \E p \in packets : p.seq = k

Seqs(chain) == [i \in 1 .. Len(chain) |-> chain[i].seq]

LEMMA SequencingIs ==
  ASSUME NEW packets, NEW n, Whole(packets, n), NEW s, Sequencing(s, packets)
  PROVE  /\ s.chain \in Seq(packets) /\ Len(s.chain) \in Nat /\ DOMAIN s.chain = 1 .. Len(s.chain)
         /\ Seqs(s.chain) \in [1 .. Len(s.chain) -> Nat]
         /\ \A i \in 1 .. Len(s.chain) : /\ s.chain[i] \in packets
                                         /\ s.chain[i].seq \in Nat
                                         /\ Seqs(s.chain)[i] = s.chain[i].seq
         /\ Spaced(Len(s.chain), Seqs(s.chain))
         /\ Contiguous(Len(s.chain), Seqs(s.chain), s.last)
<1>1. s.chain \in Seq(packets) /\ Len(s.chain) \in Nat /\ DOMAIN s.chain = 1 .. Len(s.chain)
  BY DEF Sequencing
<1>2. \A i \in 1 .. Len(s.chain) : s.chain[i] \in packets
  BY <1>1
<1>3. \A i \in 1 .. Len(s.chain) : s.chain[i].seq \in Nat
  BY <1>2 DEF Whole
<1>4. Seqs(s.chain) \in [1 .. Len(s.chain) -> Nat]
  BY <1>3 DEF Seqs
<1>5. \A i \in 1 .. Len(s.chain) : Seqs(s.chain)[i] = s.chain[i].seq
  BY DEF Seqs
<1>6. Spaced(Len(s.chain), Seqs(s.chain))
  <2>1. \A i \in 1 .. Len(s.chain), j \in 1 .. Len(s.chain) :
          /\ s.chain[i].seq >= i - 1
          /\ j \in i + 1 .. Len(s.chain) => s.chain[j].seq - s.chain[i].seq >= j - i
    BY <1>1 DEF Sequencing, Spread
  <2>2. \A i \in 1 .. Len(s.chain) : i + 1 .. Len(s.chain) \subseteq 1 .. Len(s.chain)
    BY <1>1
  <2>3. ASSUME NEW i \in 1 .. Len(s.chain)
        PROVE  /\ Seqs(s.chain)[i] >= i - 1
               /\ \A j \in i + 1 .. Len(s.chain) : Seqs(s.chain)[j] - Seqs(s.chain)[i] >= j - i
    BY <1>5, <2>1, <2>2
  <2>4. QED
    BY <2>3 DEF Spaced
<1>7. Contiguous(Len(s.chain), Seqs(s.chain), s.last)
  BY <1>1, <1>5 DEF Sequencing, Contiguous
<1>8. QED
  BY <1>1, <1>2, <1>3, <1>4, <1>5, <1>6, <1>7

\* The packet behind which insert puts the new one: those up to it are smaller,
\* those behind it greater.
Place(s, p) ==
  IF Appends(s, p)
  THEN CHOOSE i \in DOMAIN s.chain : s.chain[i].seq = s.tail
  ELSE Cardinality({i \in DOMAIN s.chain : s.chain[i].seq < p.seq})

LEMMA PlaceIs ==
  ASSUME NEW packets, NEW n, Whole(packets, n), NEW s, Sequencing(s, packets),
         NEW p \in packets, ~IsDuplicate(s, p)
  PROVE  /\ Place(s, p) \in 0 .. Len(s.chain)
         /\ \A i \in 1 .. Place(s, p) : Seqs(s.chain)[i] < p.seq
         /\ \A i \in Place(s, p) + 1 .. Len(s.chain) : Seqs(s.chain)[i] > p.seq
         /\ Appends(s, p) => Place(s, p) = Len(s.chain)
<1> DEFINE f == Seqs(s.chain)
           l == Len(s.chain)
           x == p.seq
<1>1. /\ l \in Nat /\ f \in [1 .. l -> Nat] /\ x \in Nat /\ DOMAIN s.chain = 1 .. l
      /\ \A i \in 1 .. l : s.chain[i].seq = f[i]
      /\ \A i \in 1 .. l, j \in 1 .. l : i < j => f[i] < f[j]
  <2>1. /\ l \in Nat /\ f \in [1 .. l -> Nat] /\ Spaced(l, f) /\ DOMAIN s.chain = 1 .. l
        /\ \A i \in 1 .. l : s.chain[i].seq = f[i]
    BY SequencingIs
  <2>2. x \in Nat
    BY DEF Whole
  <2> HIDE DEF f, l, x
  <2>3. ASSUME NEW i \in 1 .. l, NEW j \in 1 .. l, i < j PROVE f[i] < f[j]
    <3>1. j \in i + 1 .. l /\ f[i] \in Nat /\ f[j] \in Nat
      BY <2>1, <2>3
    <3>2. f[j] - f[i] >= j - i
      BY <2>1, <3>1 DEF Spaced
    <3>3. QED
      BY <2>3, <3>1, <3>2
  <2>4. QED
    BY <2>1, <2>2, <2>3
<1>2. CASE Appends(s, p)
  <2>1. s.tail # -1 /\ x > s.tail /\ s.tail = IF s.chain = <<>> THEN -1 ELSE s.chain[l].seq
    BY <1>2 DEF Appends, Sequencing
  <2>2. s.chain # <<>> /\ l # 0
    BY <1>1, <2>1
  <2>3. l \in 1 .. l /\ s.tail = f[l] /\ x > f[l]
    BY <1>1, <2>1, <2>2
  <2>4. Place(s, p) = CHOOSE i \in 1 .. l : s.chain[i].seq = s.tail
    BY <1>1, <1>2 DEF Place
  <2> HIDE DEF f, l, x
  <2>5. \A i \in 1 .. l : s.chain[i].seq = s.tail => i = l
    <3>1. ASSUME NEW i \in 1 .. l, s.chain[i].seq = s.tail, i # l PROVE FALSE
      <4>1. i < l
        BY <1>1, <3>1
      <4>2. f[i] < f[l]
        BY <1>1, <2>3, <4>1
      <4>3. f[i] = f[l] /\ f[i] \in Nat
        BY <1>1, <2>3, <3>1
      <4>4. QED
        BY <4>2, <4>3
    <3>2. QED
      BY <3>1
  <2>6. s.chain[l].seq = s.tail
    BY <1>1, <2>3
  <2>7. Place(s, p) = l
    BY <2>3, <2>4, <2>5, <2>6, Zenon
  <2>8. \A i \in 1 .. l : f[i] < x
    <3>1. ASSUME NEW i \in 1 .. l PROVE f[i] < x
      <4>1. i = l \/ i < l
        BY <1>1
      <4>2. i < l => f[i] < f[l]
        BY <1>1, <2>3
      <4>3. f[i] \in Nat /\ f[l] \in Nat
        BY <1>1, <2>3
      <4>4. QED
        BY <1>1, <2>3, <4>1, <4>2, <4>3
    <3>2. QED
      BY <3>1
  <2>9. l \in 0 .. l /\ l + 1 .. l = {}
    BY <1>1
  <2>10. QED
    BY <2>7, <2>8, <2>9 DEF l, f, x
<1>3. CASE ~Appends(s, p)
  <2>1. \A i \in 1 .. l : f[i] # x
    BY <1>1, <1>3 DEF IsDuplicate
  <2> DEFINE B == {i \in 1 .. l : f[i] < x}
  <2>2. Place(s, p) = Cardinality(B)
    <3>1. {i \in DOMAIN s.chain : s.chain[i].seq < p.seq} = B
      BY <1>1
    <3>2. QED
      BY <1>3, <3>1 DEF Place
  <2> DEFINE k == Max(B \cup {0})
  <2> HIDE DEF f, l, x
  <2>3. k \in B \cup {0} /\ \A t \in B \cup {0} : t <= k
    <3>1. B \cup {0} \in SUBSET (0 .. l) /\ B \cup {0} # {}
      BY <1>1
    <3> HIDE DEF B
    <3>2. QED
      BY <1>1, <3>1, MaxNat
  <2> HIDE DEF k
  <2>4. k \in 0 .. l
    BY <1>1, <2>3
  <2>5. ASSUME NEW i \in 1 .. k PROVE f[i] < x
    <3>1. k \in B /\ i \in 1 .. l /\ k \in 1 .. l /\ (i < k \/ i = k)
      BY <1>1, <2>3, <2>4
    <3>2. f[k] < x /\ f[i] \in Nat /\ f[k] \in Nat /\ (i < k => f[i] < f[k])
      BY <1>1, <3>1
    <3>3. QED
      BY <1>1, <3>1, <3>2
  <2>6. ASSUME NEW i \in k + 1 .. l PROVE f[i] > x
    <3>1. i \in 1 .. l /\ ~(i <= k)
      BY <1>1, <2>4
    <3>2. i \notin B
      BY <2>3, <3>1
    <3>3. ~(f[i] < x) /\ f[i] # x /\ f[i] \in Nat
      BY <1>1, <2>1, <3>1, <3>2
    <3>4. QED
      BY <1>1, <3>3
  <2>7. B = 1 .. k
    <3>1. ASSUME NEW i \in B PROVE i \in 1 .. k
      BY <2>3, <2>4
    <3>2. ASSUME NEW i \in 1 .. k PROVE i \in B
      BY <1>1, <2>4, <2>5
    <3>3. QED
      BY <3>1, <3>2
  <2>8. Cardinality(1 .. k) = k
    BY <2>4, FS_Interval
  <2>9. Place(s, p) = k
    BY <2>2, <2>7, <2>8
  <2>10. QED
    BY <1>3, <2>4, <2>5, <2>6, <2>9 DEF l, f, x
<1>4. QED
  BY <1>2, <1>3

LEMMA NumbersOfWith ==
  ASSUME NEW n, NEW f, NEW k, NEW x, NEW g, With(n, f, k, x, g)
  PROVE  {g[j] : j \in 1 .. n + 1} = {f[i] : i \in 1 .. n} \cup {x}
<1>1. ASSUME NEW j \in 1 .. n + 1 PROVE g[j] \in {f[i] : i \in 1 .. n} \cup {x}
  <2>1. \/ j \in 1 .. k \/ j = k + 1 \/ j \in k + 2 .. n + 1
    BY DEF With
  <2>2. CASE j \in 1 .. k
    <3>1. g[j] = f[j] /\ j \in 1 .. n
      BY <2>2 DEF With
    <3>2. QED
      BY <3>1
  <2>3. CASE j = k + 1
    BY <2>3 DEF With
  <2>4. CASE j \in k + 2 .. n + 1
    <3>1. g[j] = f[j - 1] /\ j - 1 \in 1 .. n
      BY <2>4 DEF With
    <3>2. QED
      BY <3>1
  <2>5. QED
    BY <2>1, <2>2, <2>3, <2>4
<1>2. ASSUME NEW i \in 1 .. n PROVE f[i] \in {g[j] : j \in 1 .. n + 1}
  <2>1. CASE i <= k
    <3>1. g[i] = f[i] /\ i \in 1 .. n + 1
      BY <2>1 DEF With
    <3>2. QED
      BY <3>1
  <2>2. CASE i > k
    <3>1. i + 1 \in k + 2 .. n + 1 /\ i + 1 \in 1 .. n + 1 /\ (i + 1) - 1 = i
      BY <2>2 DEF With
    <3>2. g[i + 1] = f[i]
      BY <3>1 DEF With
    <3>3. QED
      BY <3>1, <3>2
  <2>3. QED
    BY <2>1, <2>2 DEF With
<1>3. x \in {g[j] : j \in 1 .. n + 1}
  <2>1. g[k + 1] = x /\ k + 1 \in 1 .. n + 1
    BY DEF With
  <2>2. QED
    BY <2>1
<1>4. QED
  BY <1>1, <1>2, <1>3

LEMMA InsertIs ==
  ASSUME NEW packets, NEW n, Whole(packets, n), NEW s, Sequencing(s, packets),
         NEW p \in packets, ~IsDuplicate(s, p)
  PROVE  LET t == Insert(s, p)
         IN  /\ t.chain \in Seq(packets) /\ t.chain # <<>> /\ Spread(t.chain)
             /\ s.last \in Nat /\ t.last \in s.last .. Len(t.chain)
             /\ t.tail = t.chain[Len(t.chain)].seq
             /\ \A i \in DOMAIN t.chain : i <= t.last <=> t.chain[i].seq = i - 1
             /\ Numbers(t.chain) = Numbers(s.chain) \cup {p.seq}
<1> DEFINE t == Insert(s, p)
           l == Len(s.chain)
           f == Seqs(s.chain)
           x == p.seq
           k == Place(s, p)
           c == InsertAt(s.chain, k + 1, p)
           g == Seqs(c)
           last == IF k = s.last THEN RunFrom(c, s.last) ELSE s.last
<1>1. t.chain = c /\ t.last = last /\ t.tail = TailAfter(s, p, k)
  BY DEF Insert, Place
<1>2. /\ s.chain \in Seq(packets) /\ l \in Nat /\ DOMAIN s.chain = 1 .. l /\ f \in [1 .. l -> Nat]
      /\ \A i \in 1 .. l : s.chain[i].seq = f[i]
      /\ Spaced(l, f) /\ Contiguous(l, f, s.last)
  BY SequencingIs
<1>3. /\ k \in 0 .. l
      /\ \A i \in 1 .. k : f[i] < x
      /\ \A i \in k + 1 .. l : f[i] > x
      /\ Appends(s, p) => k = l
  BY PlaceIs
<1>4. x \in Nat /\ s.tail = IF s.chain = <<>> THEN -1 ELSE s.chain[l].seq
  BY DEF Whole, Sequencing
<1>5. k + 1 \in 1 .. l + 1
  BY <1>2, <1>3
<1> HIDE DEF k
<1>6. /\ c \in Seq(packets) /\ Len(c) = l + 1
      /\ \A j \in 1 .. l + 1 : c[j] = IF j < k + 1 THEN s.chain[j]
                                      ELSE IF j = k + 1 THEN p ELSE s.chain[j - 1]
  <2> DEFINE at == k + 1
             list == s.chain
  <2>1. list \in Seq(packets)
    BY <1>2
  <2>2. at \in 1 .. Len(list) + 1
    BY <1>5
  <2>3. p \in packets
    OBVIOUS
  <2> HIDE DEF at, list
  <2>4. InsertAt(list, at, p) \in Seq(packets)
    BY <2>1, <2>2, <2>3, InsertAtType
  <2>5. /\ Len(InsertAt(list, at, p)) = Len(list) + 1
        /\ \A j \in 1 .. Len(list) + 1 :
             InsertAt(list, at, p)[j] = IF j < at THEN list[j]
                                        ELSE IF j = at THEN p ELSE list[j - 1]
    BY <2>1, <2>2, <2>3, InsertAtElements
  <2>6. QED
    BY <2>4, <2>5 DEF at, list
<1> HIDE DEF c, f, l, x
<1>7. /\ g \in [1 .. l + 1 -> Nat] /\ DOMAIN c = 1 .. l + 1
      /\ \A j \in 1 .. l + 1 : g[j] = c[j].seq /\ c[j] \in packets
  <2>1. DOMAIN c = 1 .. l + 1 /\ \A j \in 1 .. l + 1 : c[j] \in packets
    BY <1>6
  <2>2. \A q \in packets : q.seq \in Nat
    BY DEF Whole
  <2>3. g = [j \in 1 .. l + 1 |-> c[j].seq]
    BY <1>6 DEF Seqs
  <2> HIDE DEF g
  <2>4. QED
    BY <2>1, <2>2, <2>3
<1> HIDE DEF g
<1>8. With(l, f, k, x, g)
  <2>1. ASSUME NEW j \in 1 .. k PROVE g[j] = f[j]
    <3>1. j \in 1 .. l + 1 /\ j \in 1 .. l /\ j < k + 1
      BY <1>2, <1>3
    <3>2. QED
      BY <1>2, <1>6, <1>7, <3>1
  <2>2. g[k + 1] = x
    <3>1. k + 1 \in 1 .. l + 1 /\ ~(k + 1 < k + 1)
      BY <1>2, <1>3
    <3>2. QED
      BY <1>6, <1>7, <3>1 DEF x
  <2>3. ASSUME NEW j \in k + 2 .. l + 1 PROVE g[j] = f[j - 1]
    <3>1. j \in 1 .. l + 1 /\ j - 1 \in 1 .. l /\ ~(j < k + 1) /\ j # k + 1
      BY <1>2, <1>3
    <3>2. c[j] = s.chain[j - 1]
      BY <1>6, <3>1
    <3>3. g[j] = c[j].seq /\ s.chain[j - 1].seq = f[j - 1]
      BY <1>2, <1>7, <3>1
    <3>4. QED
      BY <3>2, <3>3
  <2>4. QED
    BY <1>2, <1>3, <1>4, <1>7, <2>1, <2>2, <2>3 DEF With
<1>9. Spaced(l + 1, g)
  BY <1>2, <1>8, SpacedWith
<1>10. Spread(c)
  <2>1. ASSUME NEW i \in DOMAIN c
        PROVE  /\ c[i].seq >= i - 1
               /\ \A j \in i + 1 .. Len(c) : c[j].seq - c[i].seq >= j - i
    <3>1. i \in 1 .. l + 1 /\ g[i] = c[i].seq
      BY <1>7
    <3>2. \A j \in i + 1 .. Len(c) : j \in i + 1 .. l + 1 /\ j \in 1 .. l + 1
      BY <1>2, <1>6, <3>1
    <3>3. g[i] >= i - 1 /\ \A j \in i + 1 .. l + 1 : g[j] - g[i] >= j - i
      BY <1>9, <3>1 DEF Spaced
    <3>4. QED
      BY <1>7, <3>1, <3>2, <3>3
  <2>2. QED
    BY <2>1 DEF Spread
<1>11. s.last \in Nat /\ last \in s.last .. l + 1 /\ Contiguous(l + 1, g, last)
  <2>0. s.last \in 0 .. l
    BY <1>2 DEF Contiguous
  <2>1. CASE k = s.last
    <3> DEFINE more == {q \in k .. l + 1 : \A i \in k + 1 .. q : g[i] = i - 1}
    <3>1. more = {q \in s.last .. Len(c) : \A i \in s.last + 1 .. q : c[i].seq = i - 1}
      <4>1. ASSUME NEW q \in k .. l + 1
            PROVE  (\A i \in k + 1 .. q : g[i] = i - 1) <=> (\A i \in k + 1 .. q : c[i].seq = i - 1)
        <5>1. \A i \in k + 1 .. q : i \in 1 .. l + 1
          BY <1>2, <1>3
        <5>2. QED
          BY <1>7, <5>1
      <4>2. QED
        BY <1>6, <2>1, <4>1
    <3>2. last = Max(more)
      BY <2>1, <3>1 DEF RunFrom
    <3>3. Max(more) \in k .. l + 1 /\ Contiguous(l + 1, g, Max(more))
      <4>1. Spaced(l, f) /\ Contiguous(l, f, k)
        BY <1>2, <2>1
      <4>2. QED
        BY <1>8, <4>1, ContiguousGrows
    <3> HIDE DEF more
    <3>4. QED
      BY <2>0, <2>1, <3>2, <3>3
  <2>2. CASE k # s.last
    <3>1. last = s.last
      BY <2>2
    <3>2. Contiguous(l + 1, g, s.last)
      BY <1>2, <1>8, <2>2, ContiguousKept
    <3>3. QED
      BY <1>2, <2>0, <3>1, <3>2
  <2>3. QED
    BY <2>1, <2>2
<1> HIDE DEF last
<1>12. TailAfter(s, p, k) = g[l + 1]
  <2>1. CASE k = l
    <3>1. g[l + 1] = x
      BY <1>8, <2>1 DEF With
    <3>2. s.tail # -1 => Appends(s, p)
      <4>1. CASE s.chain = <<>>
        BY <1>4, <4>1
      <4>2. CASE s.chain # <<>>
        <5>1. l \in 1 .. l
          BY <1>2, <4>2 DEF l
        <5>2. s.tail = f[l] /\ f[l] < x
          BY <1>2, <1>3, <1>4, <2>1, <4>2, <5>1
        <5>3. f[l] \in Nat
          BY <1>2, <5>1
        <5>4. QED
          BY <1>4, <5>2, <5>3 DEF Appends, x
      <4>3. QED
        BY <4>1, <4>2
    <3>3. QED
      BY <3>1, <3>2 DEF TailAfter, x
  <2>2. CASE k # l
    <3>1. ~Appends(s, p)
      BY <1>3, <2>2
    <3>2. l \in 1 .. l /\ l \in k + 1 .. l /\ l + 1 \in k + 2 .. l + 1 /\ (l + 1) - 1 = l
      BY <1>2, <1>3, <2>2
    <3>3. s.chain # <<>>
      BY <3>2 DEF l
    <3>4. s.tail = f[l] /\ f[l] \in Nat
      BY <1>2, <1>4, <3>2, <3>3
    <3>5. s.tail # -1
      BY <3>4
    <3>6. g[l + 1] = f[l]
      BY <1>8, <3>2 DEF With
    <3>7. QED
      BY <3>1, <3>4, <3>5, <3>6 DEF TailAfter
  <2>3. QED
    BY <2>1, <2>2
<1>13. Numbers(c) = Numbers(s.chain) \cup {p.seq}
  <2>1. Numbers(c) = {g[j] : j \in 1 .. l + 1}
    BY <1>7 DEF Numbers
  <2>2. Numbers(s.chain) = {f[i] : i \in 1 .. l}
    BY <1>2 DEF Numbers
  <2>3. QED
    BY <1>8, <2>1, <2>2, NumbersOfWith DEF x
<1>14. \A i \in DOMAIN c : i <= last <=> c[i].seq = i - 1
  BY <1>7, <1>11 DEF Contiguous
<1>15. c # <<>> /\ g[l + 1] = c[Len(c)].seq
  <2>1. l + 1 \in 1 .. l + 1
    BY <1>2
  <2>2. QED
    BY <1>6, <1>7, <2>1
<1>16. last \in s.last .. Len(c)
  BY <1>6, <1>11
<1> HIDE DEF t
<1>17. QED
  BY <1>1, <1>6, <1>10, <1>11, <1>12, <1>13, <1>14, <1>15, <1>16 DEF t

LEMMA InsertNumbers ==
  ASSUME NEW packets, NEW n, Whole(packets, n), NEW s, Sequencing(s, packets),
         NEW p \in packets, ~IsDuplicate(s, p)
  PROVE  Numbers(Insert(s, p).chain) = Numbers(s.chain) \cup {p.seq}
BY InsertIs

-----------------------------------------------------------------------------
(* The queue of complete messages.                                          *)

Count(list, m) == Cardinality({i \in DOMAIN list : list[i].message = m})
One(e, m) == IF e.message = m THEN 1 ELSE 0

LEMMA CountType ==
  ASSUME NEW T, NEW list \in Seq(T), NEW m
  PROVE  IsFiniteSet({i \in DOMAIN list : list[i].message = m}) /\ Count(list, m) \in Nat
<1>1. IsFiniteSet(1 .. Len(list)) /\ DOMAIN list = 1 .. Len(list)
  BY FS_Interval
<1>2. IsFiniteSet({i \in DOMAIN list : list[i].message = m})
  BY <1>1, FS_Subset
<1>3. QED
  BY <1>2, FS_CardinalityType DEF Count

LEMMA CountAppend ==
  ASSUME NEW T, NEW list \in Seq(T), NEW e \in T, NEW m
  PROVE  Count(Append(list, e), m) = Count(list, m) + One(e, m)
<1> DEFINE n == Len(list)
           more == Append(list, e)
           old == {i \in DOMAIN list : list[i].message = m}
           new == {i \in DOMAIN more : more[i].message = m}
<1>1. n \in Nat /\ DOMAIN list = 1 .. n /\ DOMAIN more = 1 .. n + 1
      /\ (\A i \in 1 .. n : more[i] = list[i]) /\ more[n + 1] = e
  BY AppendProperties
<1>2. IsFiniteSet(old) /\ Cardinality(old) \in Nat
  BY CountType DEF Count
<1> HIDE DEF n, more
<1>3. 1 .. n + 1 = (1 .. n) \cup {n + 1} /\ n + 1 \notin 1 .. n
  BY <1>1
<1>4. n + 1 \notin old
  BY <1>1, <1>3
<1>5. CASE e.message = m
  <2>1. new = old \cup {n + 1}
    BY <1>1, <1>3, <1>5
  <2> HIDE DEF old, new
  <2>2. Cardinality(new) = Cardinality(old) + 1
    BY <1>2, <1>4, <2>1, FS_AddElement
  <2>3. QED
    BY <1>5, <2>2 DEF Count, One, old, new, more
<1>6. CASE e.message # m
  <2>1. new = old
    BY <1>1, <1>3, <1>6
  <2> HIDE DEF old, new
  <2>2. Cardinality(new) = Cardinality(old) + 0
    BY <1>2, <2>1
  <2>3. QED
    BY <1>6, <2>2 DEF Count, One, old, new, more
<1>7. QED
  BY <1>5, <1>6

LEMMA CountTail ==
  ASSUME NEW T, NEW list \in Seq(T), list # <<>>, NEW m
  PROVE  Count(list, m) = Count(Tail(list), m) + One(list[1], m)
<1> DEFINE n == Len(list)
           rest == Tail(list)
           all == {i \in DOMAIN list : list[i].message = m}
           old == {i \in DOMAIN rest : rest[i].message = m}
           behind == {i \in all : i > 1}
           move == [i \in old |-> i + 1]
<1>1. n \in Nat \ {0} /\ DOMAIN list = 1 .. n /\ DOMAIN rest = 1 .. n - 1
      /\ (\A i \in 1 .. n - 1 : rest[i] = list[i + 1]) /\ rest \in Seq(T)
  BY HeadTailProperties
<1>2. IsFiniteSet(old) /\ Cardinality(old) \in Nat
  BY <1>1, CountType DEF Count
<1> HIDE DEF n, rest
<1>3. move \in Bijection(old, behind)
  <2>1. ASSUME NEW i \in old PROVE i + 1 \in behind /\ i \in Nat
    BY <1>1
  <2>2. ASSUME NEW j \in behind PROVE \E i \in old : i + 1 = j
    <3>1. j - 1 \in 1 .. n - 1 /\ (j - 1) + 1 = j /\ list[j].message = m
      BY <1>1
    <3>2. j - 1 \in old
      BY <1>1, <3>1
    <3>3. QED
      BY <3>1, <3>2
  <2> HIDE DEF old, behind
  <2>3. move \in [old -> behind]
    BY <2>1
  <2>4. \A i, j \in old : move[i] = move[j] => i = j
    BY <2>1
  <2>5. \A j \in behind : \E i \in old : move[i] = j
    BY <2>2
  <2> HIDE DEF move
  <2>6. QED
    BY <2>3, <2>4, <2>5 DEF Bijection, Injection, Surjection, IsInjective
<1>4. IsFiniteSet(behind) /\ Cardinality(behind) = Cardinality(old)
  <2>1. ExistsBijection(old, behind)
    BY <1>3 DEF ExistsBijection
  <2> HIDE DEF old, behind
  <2>2. QED
    BY <1>2, <2>1, FS_Bijection
<1>5. CASE list[1].message = m
  <2>1. all = behind \cup {1} /\ 1 \notin behind
    BY <1>1, <1>5
  <2> HIDE DEF all, behind, old
  <2>2. Cardinality(all) = Cardinality(old) + 1
    BY <1>4, <2>1, FS_AddElement
  <2>3. QED
    BY <1>5, <2>2 DEF Count, One, all, old, rest
<1>6. CASE list[1].message # m
  <2>1. all = behind
    BY <1>1, <1>6
  <2> HIDE DEF all, behind, old
  <2>2. Cardinality(all) = Cardinality(old) + 0
    BY <1>2, <1>4, <2>1
  <2>3. QED
    BY <1>6, <2>2 DEF Count, One, all, old, rest
<1>7. QED
  BY <1>5, <1>6

\* An entry comes in at either end of the queue.
LEMMA EntersQueue ==
  ASSUME NEW T, NEW list \in Seq(T), NEW e, NEW more,
         more = <<e>> \o list \/ more = Append(list, e), NEW m
  PROVE  /\ more \in Seq(Range(more))
         /\ \A i \in DOMAIN more : more[i] = e \/ \E j \in DOMAIN list : more[i] = list[j]
         /\ Count(more, m) = Count(list, m) + One(e, m)
<1> DEFINE U == T \cup {e}
           one == <<e>>
           n == Len(list)
<1>1. list \in Seq(U) /\ e \in U /\ one \in Seq(U) /\ Len(one) = 1 /\ one[1] = e
      /\ n \in Nat /\ DOMAIN list = 1 .. n
  <2>1. list \in Seq(U)
    BY SeqMonotonic
  <2>2. QED
    BY <2>1
<1> HIDE DEF U
<1>2. CASE more = one \o list
  <2> HIDE DEF one, n
  <2>1. /\ more \in Seq(U) /\ Len(more) = 1 + n /\ DOMAIN more = 1 .. 1 + n
        /\ \A i \in 1 .. 1 + n : more[i] = IF i <= 1 THEN one[i] ELSE list[i - 1]
    <3>1. /\ one \o list \in Seq(U) /\ Len(one \o list) = Len(one) + Len(list)
          /\ \A i \in 1 .. Len(one) + Len(list) :
               (one \o list)[i] = IF i <= Len(one) THEN one[i] ELSE list[i - Len(one)]
      BY <1>1, ConcatProperties
    <3>2. more \in Seq(U) /\ DOMAIN more = 1 .. Len(more)
      BY <1>2, <3>1
    <3>3. QED
      BY <1>1, <1>2, <3>1, <3>2 DEF n
  <2>2. more # <<>> /\ more[1] = e
    BY <1>1, <2>1
  <2>3. Tail(more) = list
    <3>1. /\ Tail(more) \in Seq(U) /\ Len(Tail(more)) = n
          /\ \A i \in 1 .. n : Tail(more)[i] = more[i + 1]
      <4>1. /\ Tail(more) \in Seq(U) /\ Len(Tail(more)) = Len(more) - 1
            /\ \A i \in 1 .. Len(Tail(more)) : Tail(more)[i] = more[i + 1]
        BY <2>1, <2>2, HeadTailProperties
      <4>2. QED
        BY <1>1, <2>1, <4>1
    <3>2. \A i \in 1 .. n : Tail(more)[i] = list[i]
      <4>1. \A i \in 1 .. n : i + 1 \in 1 .. 1 + n /\ ~(i + 1 <= 1) /\ (i + 1) - 1 = i
        BY <1>1
      <4>2. QED
        BY <2>1, <3>1, <4>1
    <3>3. QED
      BY <1>1, <3>1, <3>2, SeqEqual DEF n
  <2>4. Count(more, m) = Count(list, m) + One(e, m)
    BY <2>1, <2>2, <2>3, CountTail
  <2>5. ASSUME NEW i \in DOMAIN more PROVE more[i] = e \/ \E j \in DOMAIN list : more[i] = list[j]
    <3>1. i = 1 \/ (i - 1 \in 1 .. n /\ ~(i <= 1))
      BY <1>1, <2>1
    <3>2. QED
      BY <1>1, <2>1, <2>2, <3>1
  <2>6. more \in Seq(Range(more))
    BY <2>1, SeqOfRange
  <2>7. QED
    BY <2>4, <2>5, <2>6
<1>3. CASE more = Append(list, e)
  <2>1. /\ more \in Seq(U) /\ DOMAIN more = 1 .. n + 1 /\ more[n + 1] = e
        /\ \A i \in 1 .. n : more[i] = list[i]
    BY <1>1, <1>3, AppendProperties
  <2>2. Count(more, m) = Count(list, m) + One(e, m)
    BY <1>1, <1>3, CountAppend
  <2> HIDE DEF n
  <2>3. ASSUME NEW i \in DOMAIN more PROVE more[i] = e \/ \E j \in DOMAIN list : more[i] = list[j]
    <3>1. i \in 1 .. n \/ i = n + 1
      BY <1>1, <2>1
    <3>2. QED
      BY <1>1, <2>1, <3>1
  <2>4. more \in Seq(Range(more))
    BY <2>1, SeqOfRange
  <2>5. QED
    BY <2>2, <2>3, <2>4
<1>4. QED
  BY <1>2, <1>3

-----------------------------------------------------------------------------
(* CMessageCollator::collate.                                               *)

LEMMA EmptyIs ==
  ASSUME NEW packets
  PROVE  Sequencing(EmptySequencer, packets) /\ Numbers(EmptySequencer.chain) = {}
<1> DEFINE none == <<>>
<1>1. none \in Seq(packets) /\ DOMAIN none = {} /\ Len(none) = 0
  OBVIOUS
<1>2. /\ EmptySequencer.chain = none /\ EmptySequencer.last = 0 /\ EmptySequencer.tail = -1
  BY DEF EmptySequencer
<1>3. Spread(none) /\ Numbers(none) = {}
  BY <1>1 DEF Spread, Numbers
<1>4. 0 \in 0 .. Len(none) /\ 1 .. 0 = {}
  BY <1>1
<1>5. EmptySequencer.chain = <<>>
  BY <1>2
<1> HIDE DEF none
<1>6. QED
  BY <1>1, <1>2, <1>3, <1>4, <1>5 DEF Sequencing

\* A sequencer that is kept lacks a packet of its message.
LEMMA KeptIsIncomplete ==
  ASSUME NEW packets, NEW n, Whole(packets, n), NEW s, Sequencing(s, packets)
  PROVE  ~(0 .. n - 1 \subseteq Numbers(s.chain))
<1> SUFFICES ASSUME 0 .. n - 1 \subseteq Numbers(s.chain) PROVE FALSE
  OBVIOUS
<1> DEFINE l == Len(s.chain)
           f == Seqs(s.chain)
<1>1. /\ l \in Nat /\ DOMAIN s.chain = 1 .. l /\ f \in [1 .. l -> Nat]
      /\ \A i \in 1 .. l : s.chain[i].seq = f[i] /\ s.chain[i] \in packets
      /\ Spaced(l, f) /\ Contiguous(l, f, s.last)
  BY SequencingIs
<1>2. n \in Nat \ {0} /\ \A i \in 1 .. s.last : ~s.chain[i].complete
  BY DEF Whole, Sequencing
<1>3. s.last \in 0 .. l
  BY <1>1 DEF Contiguous
<1>4. s.last >= n
  <2> SUFFICES ASSUME s.last < n PROVE FALSE
    BY <1>1, <1>2, <1>3
  <2>1. s.last \in 0 .. n - 1
    BY <1>1, <1>2, <1>3
  <2>2. PICK j \in 1 .. l : s.chain[j].seq = s.last
    BY <1>1, <2>1 DEF Numbers
  <2> HIDE DEF f, l
  <2>3. f[j] = s.last /\ f[j] >= j - 1
    BY <1>1, <2>2 DEF Spaced
  <2>4. j <= s.last <=> f[j] = j - 1
    BY <1>1 DEF Contiguous
  <2>5. QED
    BY <1>1, <1>3, <2>3, <2>4
<1> HIDE DEF f, l
<1>5. n \in 1 .. l /\ n \in 1 .. s.last /\ n <= s.last
  BY <1>1, <1>2, <1>3, <1>4
<1>6. s.chain[n].seq = n - 1 /\ s.chain[n] \in packets
  BY <1>1, <1>5 DEF Contiguous
<1>7. s.chain[n].complete
  BY <1>6 DEF Whole
<1>8. QED
  BY <1>2, <1>5, <1>7

\* A message that is completed has all its packets, ...
LEMMA CompletedHasAll ==
  ASSUME NEW packets, NEW n, Whole(packets, n), NEW s, Sequencing(s, packets),
         NEW p \in packets, ~IsDuplicate(s, p), Completes(s, Insert(s, p))
  PROVE  0 .. n - 1 \subseteq Numbers(Insert(s, p).chain)
<1> DEFINE t == Insert(s, p)
<1>1. /\ t.chain \in Seq(packets) /\ s.last \in Nat /\ t.last \in s.last .. Len(t.chain)
      /\ \A i \in DOMAIN t.chain : i <= t.last <=> t.chain[i].seq = i - 1
  BY InsertIs
<1>2. PICK i \in s.last + 1 .. t.last : t.chain[i].complete
  BY DEF Completes
<1> HIDE DEF t
<1>3. Len(t.chain) \in Nat /\ DOMAIN t.chain = 1 .. Len(t.chain)
  BY <1>1
<1>4. i \in 1 .. Len(t.chain) /\ i <= t.last /\ i \in Nat /\ t.last \in Nat
  BY <1>1, <1>2, <1>3
<1>5. t.chain[i] \in packets /\ t.chain[i].seq = i - 1
  BY <1>1, <1>3, <1>4
<1>6. i - 1 = n - 1 /\ n \in Nat
  BY <1>2, <1>5 DEF Whole
<1>7. ASSUME NEW k \in 0 .. n - 1 PROVE k \in Numbers(t.chain)
  <2>1. k + 1 \in 1 .. Len(t.chain) /\ k + 1 <= t.last /\ (k + 1) - 1 = k
    BY <1>1, <1>3, <1>4, <1>6
  <2>2. t.chain[k + 1].seq = k
    BY <1>1, <1>3, <2>1
  <2>3. QED
    BY <1>3, <2>1, <2>2 DEF Numbers
<1>8. QED
  BY <1>7 DEF t

\* ... any other is in order, ...
LEMMA NotCompletedInOrder ==
  ASSUME NEW packets, NEW n, Whole(packets, n), NEW s, Sequencing(s, packets),
         NEW p \in packets, ~IsDuplicate(s, p), ~Completes(s, Insert(s, p))
  PROVE  Sequencing(Insert(s, p), packets)
<1> DEFINE t == Insert(s, p)
<1>1. /\ t.chain \in Seq(packets) /\ t.chain # <<>> /\ Spread(t.chain)
      /\ s.last \in Nat /\ t.last \in s.last .. Len(t.chain)
      /\ t.tail = t.chain[Len(t.chain)].seq
      /\ \A i \in DOMAIN t.chain : i <= t.last <=> t.chain[i].seq = i - 1
  BY InsertIs
<1>2. \A i \in s.last + 1 .. t.last : ~t.chain[i].complete
  BY DEF Completes
<1> HIDE DEF t
<1>3. Len(t.chain) \in Nat /\ DOMAIN t.chain = 1 .. Len(t.chain) /\ t.last \in 0 .. Len(t.chain)
  BY <1>1
<1>4. /\ DOMAIN s.chain = 1 .. Len(s.chain) /\ Len(s.chain) \in Nat
      /\ s.last \in 0 .. Len(s.chain)
      /\ \A i \in 1 .. Len(s.chain) : s.chain[i] \in packets
      /\ \A i \in DOMAIN s.chain : i <= s.last <=> s.chain[i].seq = i - 1
      /\ \A i \in 1 .. s.last : ~s.chain[i].complete
  BY SequencingIs DEF Sequencing
<1>5. ASSUME NEW i \in 1 .. t.last PROVE ~t.chain[i].complete
  <2>1. CASE i <= s.last
    <3>1. i \in 1 .. Len(s.chain) /\ i \in 1 .. s.last /\ i \in 1 .. Len(t.chain) /\ i <= t.last
      BY <1>1, <1>3, <1>4, <2>1
    <3>2. s.chain[i].seq = i - 1 /\ t.chain[i].seq = i - 1 /\ ~s.chain[i].complete
      BY <1>1, <1>3, <1>4, <2>1, <3>1
    <3>3. s.chain[i] \in packets /\ t.chain[i] \in packets
      BY <1>1, <1>3, <1>4, <3>1
    <3>4. i - 1 # n - 1
      BY <3>2, <3>3 DEF Whole
    <3>5. QED
      BY <3>2, <3>3, <3>4 DEF Whole
  <2>2. CASE ~(i <= s.last)
    <3>1. i \in s.last + 1 .. t.last
      BY <1>1, <1>3, <2>2
    <3>2. QED
      BY <1>2, <3>1
  <2>3. QED
    BY <2>1, <2>2
<1>6. QED
  BY <1>1, <1>3, <1>5 DEF Sequencing, t

\* ... and a message of one packet is completed by it.
LEMMA SingleCompletes ==
  ASSUME NEW packets, NEW n, Whole(packets, n), NEW p \in packets, SinglePacket(p),
         NEW s, s = EmptySequencer
  PROVE  ~IsDuplicate(s, p) /\ Completes(s, Insert(s, p))
<1> DEFINE t == Insert(s, p)
<1>1. Sequencing(s, packets) /\ Numbers(s.chain) = {} /\ s.last = 0
  BY EmptyIs DEF EmptySequencer
<1>0. ~IsDuplicate(s, p)
  <2>1. s.chain = <<>>
    BY DEF EmptySequencer
  <2>2. DOMAIN s.chain = {}
    BY <2>1
  <2>3. QED
    BY <2>2 DEF IsDuplicate
<1>2. /\ t.chain \in Seq(packets) /\ t.chain # <<>> /\ t.last \in s.last .. Len(t.chain)
      /\ \A i \in DOMAIN t.chain : i <= t.last <=> t.chain[i].seq = i - 1
  BY <1>0, <1>1, InsertIs
<1>8. Numbers(t.chain) = Numbers(s.chain) \cup {p.seq}
  BY <1>0, <1>1, InsertNumbers
<1> HIDE DEF t
<1>3. 1 \in DOMAIN t.chain /\ t.chain[1] \in packets
  BY <1>2
<1>4. t.chain[1].seq = 0
  BY <1>1, <1>3, <1>8 DEF Numbers, SinglePacket
<1>5. 1 <= t.last /\ 1 \in s.last + 1 .. t.last
  <2>1. 1 <= t.last
    BY <1>2, <1>3, <1>4
  <2>2. t.last \in Int
    BY <1>1, <1>2
  <2>3. QED
    BY <1>1, <2>1, <2>2
<1>6. t.chain[1].complete
  BY <1>3, <1>4 DEF Whole, SinglePacket
<1>7. QED
  BY <1>0, <1>5, <1>6 DEF Completes, t

-----------------------------------------------------------------------------
(* What has arrived of a message is in its sequencer until it is complete.  *)

CollatorTypes ==
  /\ arrived \in [Messages -> SUBSET Nat] /\ duplicates \in Nat
  /\ DOMAIN mapping \subseteq Messages
  /\ queue \in Seq(Range(queue)) /\ \A i \in DOMAIN queue : queue[i].message \in Messages
  /\ memLimitExceeded \in BOOLEAN
  /\ DOMAIN results = Messages /\ \A m \in Messages : results[m] \in Seq(Range(results[m]))

\* ArrivedInv, of one message.
ArrivedOf(m) ==
  /\ arrived[m] \subseteq {p.seq : p \in Range(Packets(m))}
  /\ arrived[m] # {} => flushed = Messages
  /\ m \in DOMAIN mapping =>
       /\ mapping[m].chain # <<>> /\ Sequencing(mapping[m], Range(Packets(m)))
       /\ Numbers(mapping[m].chain) \subseteq arrived[m]
  /\ Times(m) = 0 =>
       arrived[m] = IF m \in DOMAIN mapping THEN Numbers(mapping[m].chain) ELSE {}
  /\ Times(m) > 0 => AllArrived(m)
  /\ duplicates = 0 => Times(m) <= 1

LEMMA ArrivedIs == ArrivedInv <=> \A m \in Messages : ArrivedOf(m)
BY DEF ArrivedInv, ArrivedOf

Inv == PackersInv /\ CollatorTypes /\ \A m \in Messages : ArrivedOf(m)

LEMMA TimesType ==
  ASSUME CollatorTypes, NEW m \in Messages
  PROVE  /\ Times(m) \in Nat /\ Len(results[m]) \in Nat /\ Count(queue, m) \in Nat
         /\ Times(m) = Len(results[m]) + Count(queue, m)
<1>1. Len(results[m]) \in Nat
  <2>1. results[m] \in Seq(Range(results[m]))
    BY DEF CollatorTypes
  <2>2. QED
    BY <2>1, LenProperties
<1>2. Count(queue, m) \in Nat
  BY CountType DEF CollatorTypes
<1>3. Times(m) = Len(results[m]) + Count(queue, m)
  BY DEF Times, Queued, Count
<1>4. QED
  BY <1>1, <1>2, <1>3

LEMMA WholeIs ==
  ASSUME PackersInv, NEW m \in Messages, m \in flushed
  PROVE  /\ Whole(Range(Packets(m)), Len(Packets(m)))
         /\ {p.seq : p \in Range(Packets(m))} = 0 .. Len(Packets(m)) - 1
<1> DEFINE list == Packets(m)
           n == Len(list)
<1>1. Packed(packer[m])
  BY DEF PackersInv
<1>2. /\ list \in Seq(SomePacket) /\ list # <<>>
      /\ \A i \in DOMAIN list : list[i].seq = i - 1 /\ (list[i].complete <=> i = n)
  BY <1>1 DEF Packed, Packets, Packers
<1> HIDE DEF list
<1>3. n \in Nat \ {0} /\ DOMAIN list = 1 .. n
  BY <1>2
<1> HIDE DEF n
<1>4. ASSUME NEW p \in Range(list) PROVE p.seq \in 0 .. n - 1 /\ (p.complete <=> p.seq = n - 1)
  <2>1. PICK i \in DOMAIN list : p = list[i]
    BY DEF Range
  <2>2. p.seq = i - 1 /\ (p.complete <=> i = n) /\ i \in 1 .. n
    BY <1>2, <1>3, <2>1
  <2>3. i - 1 \in 0 .. n - 1 /\ (i = n <=> i - 1 = n - 1)
    BY <1>3, <2>2
  <2>4. QED
    BY <2>2, <2>3
<1>5. ASSUME NEW k \in 0 .. n - 1 PROVE \E p \in Range(list) : p.seq = k
  <2>1. k + 1 \in DOMAIN list /\ (k + 1) - 1 = k
    BY <1>3
  <2>2. list[k + 1].seq = k /\ list[k + 1] \in Range(list)
    BY <1>2, <2>1 DEF Range
  <2>3. QED
    BY <2>2
<1>6. Whole(Range(list), n)
  BY <1>3, <1>4, <1>5 DEF Whole
<1>7. {p.seq : p \in Range(list)} = 0 .. n - 1
  BY <1>4, <1>5
<1>8. QED
  BY <1>6, <1>7 DEF list, n

\* A message that nothing happens to ...
LEMMA OtherMessage ==
  ASSUME NEW m \in Messages, ArrivedOf(m), UNCHANGED <<packer, flushed>>,
         arrived'[m] = arrived[m], Times(m)' = Times(m), duplicates' = 0 => duplicates = 0,
         m \in DOMAIN mapping' <=> m \in DOMAIN mapping,
         m \in DOMAIN mapping => mapping'[m] = mapping[m]
  PROVE  ArrivedOf(m)'
BY DEF ArrivedOf, AllArrived, Packets

\* ... or of which nothing has arrived.
LEMMA NothingArrived ==
  ASSUME Inv, NEW m \in Messages, arrived[m] = {}
  PROVE  m \notin DOMAIN mapping /\ Times(m) = 0
<1>1. ArrivedOf(m)
  BY DEF Inv
<1>2. m \notin DOMAIN mapping
  <2> SUFFICES ASSUME m \in DOMAIN mapping PROVE FALSE
    OBVIOUS
  <2> DEFINE chain == mapping[m].chain
  <2>1. chain # <<>> /\ Numbers(chain) = {} /\ chain \in Seq(Range(Packets(m)))
    BY <1>1 DEF ArrivedOf, Sequencing
  <2> HIDE DEF chain
  <2>2. 1 \in DOMAIN chain
    BY <2>1
  <2>3. QED
    BY <2>1, <2>2 DEF Numbers
<1>3. Times(m) = 0
  <2> SUFFICES ASSUME Times(m) # 0 PROVE FALSE
    OBVIOUS
  <2>1. Times(m) > 0
    BY TimesType DEF Inv
  <2>2. m \in flushed /\ {p.seq : p \in Range(Packets(m))} = {}
    BY <1>1, <2>1 DEF ArrivedOf, AllArrived
  <2>3. 0 .. Len(Packets(m)) - 1 = {} /\ Len(Packets(m)) \in Nat \ {0}
    BY <2>2, WholeIs DEF Inv, Whole
  <2>4. 0 \in 0 .. Len(Packets(m)) - 1
    BY <2>3
  <2>5. QED
    BY <2>3, <2>4
<1>4. QED
  BY <1>2, <1>3

LEMMA StillNothing ==
  ASSUME Inv, NEW m \in Messages, arrived[m] = {}, UNCHANGED <<arrived, mapping, queue, results>>
  PROVE  ArrivedOf(m)'
<1>1. m \notin DOMAIN mapping /\ Times(m) = 0
  BY NothingArrived
<1>2. Times(m)' = 0
  BY <1>1 DEF Times, Queued
<1>3. arrived'[m] = {} /\ m \notin DOMAIN mapping'
  BY <1>1
<1>4. QED
  BY <1>2, <1>3 DEF ArrivedOf

LEMMA CollatorStarts == Init => Inv
<1> SUFFICES ASSUME Init PROVE Inv
  OBVIOUS
<1>1. PackersInv
  BY PackersStart
<1> DEFINE none == <<>>
<1>2. none \in Seq(Range(none)) /\ DOMAIN none = {} /\ Len(none) = 0
  <2>1. none \in Seq({})
    OBVIOUS
  <2> HIDE DEF none
  <2>2. none \in Seq(Range(none))
    BY <2>1, SeqOfRange
  <2>3. QED
    BY <2>1, <2>2 DEF none
<1>3. /\ arrived = [m \in Messages |-> {}] /\ duplicates = 0 /\ mapping = none /\ queue = none
      /\ memLimitExceeded = FALSE /\ results = [m \in Messages |-> none]
  BY DEF Init
<1> HIDE DEF none
<1>4. CollatorTypes
  BY <1>2, <1>3 DEF CollatorTypes
<1>5. ASSUME NEW m \in Messages PROVE ArrivedOf(m)
  <2>1. Count(queue, m) = 0
    <3>1. {i \in DOMAIN queue : queue[i].message = m} = {}
      BY <1>2, <1>3
    <3>2. QED
      BY <3>1, FS_EmptySet DEF Count
  <2>2. Times(m) = 0
    BY <1>2, <1>3, <1>4, <2>1, TimesType
  <2>3. arrived[m] = {} /\ m \notin DOMAIN mapping
    BY <1>2, <1>3
  <2>4. QED
    BY <2>2, <2>3 DEF ArrivedOf
<1>6. QED
  BY <1>1, <1>4, <1>5 DEF Inv

\* A worker packs before anything has arrived.
LEMMA WorkerStep ==
  ASSUME Inv, NEW m \in Messages, WriteRow(m) \/ SkipRow(m) \/ Finish(m)
  PROVE  CollatorTypes' /\ \A k \in Messages : ArrivedOf(k)'
<1>1. m \notin flushed
      /\ UNCHANGED <<arrived, duplicates, mapping, queue, memLimitExceeded, results>>
  BY DEF WriteRow, SkipRow, Finish
<1>2. CollatorTypes'
  BY <1>1 DEF Inv, CollatorTypes
<1>3. ASSUME NEW k \in Messages PROVE ArrivedOf(k)'
  <2>1. ArrivedOf(k) /\ flushed # Messages
    BY <1>1 DEF Inv
  <2>2. arrived[k] = {}
    BY <2>1 DEF ArrivedOf
  <2>3. QED
    BY <1>1, <2>2, StillNothing
<1>4. QED
  BY <1>2, <1>3

LEMMA SequencerIs ==
  ASSUME Inv, NEW m \in Messages, flushed = Messages, NEW p, NEW s,
         s = IF m \notin DOMAIN mapping \/ SinglePacket(p) THEN EmptySequencer ELSE mapping[m]
  PROVE  /\ Sequencing(s, Range(Packets(m))) /\ Numbers(s.chain) \subseteq arrived[m]
         /\ Times(m) = 0 /\ ~SinglePacket(p) => arrived[m] = Numbers(s.chain)
<1>1. ArrivedOf(m)
  BY DEF Inv
<1>2. CASE m \notin DOMAIN mapping \/ SinglePacket(p)
  <2>1. s = EmptySequencer
    BY <1>2
  <2>2. Sequencing(s, Range(Packets(m))) /\ Numbers(s.chain) = {}
    BY <2>1, EmptyIs
  <2>3. QED
    BY <1>1, <1>2, <2>2 DEF ArrivedOf
<1>3. CASE ~(m \notin DOMAIN mapping \/ SinglePacket(p))
  <2>1. s = mapping[m]
    BY <1>3
  <2>2. QED
    BY <1>1, <1>3, <2>1 DEF ArrivedOf
<1>4. QED
  BY <1>2, <1>3

LEMMA CollateKeeps ==
  ASSUME Inv, NEW m \in Messages, flushed = Messages, NEW p \in Range(Packets(m)),
         Collate(m, p), UNCHANGED <<packVars, memLimitExceeded, results>>,
         arrived' = [arrived EXCEPT ![m] = @ \cup {p.seq}],
         duplicates' \in Nat, duplicates' = 0 => duplicates = 0 /\ p.seq \notin arrived[m]
  PROVE  CollatorTypes' /\ \A k \in Messages : ArrivedOf(k)'
<1> DEFINE P == Range(Packets(m))
           n == Len(Packets(m))
           s == IF m \notin DOMAIN mapping \/ SinglePacket(p) THEN EmptySequencer ELSE mapping[m]
           t == Insert(s, p)
<1>1. Whole(P, n) /\ {q.seq : q \in P} = 0 .. n - 1 /\ p \in P
  BY WholeIs DEF Inv
<1>2. /\ Sequencing(s, P) /\ Numbers(s.chain) \subseteq arrived[m]
      /\ Times(m) = 0 /\ ~SinglePacket(p) => arrived[m] = Numbers(s.chain)
  BY SequencerIs
<1>3. /\ IsDuplicate(s, p) => UNCHANGED <<mapping, queue>>
      /\ ~IsDuplicate(s, p) /\ Completes(s, t) =>
           /\ queue' = Enqueued(m, t)
           /\ mapping' = IF SinglePacket(p) THEN mapping ELSE Removed(m)
      /\ ~IsDuplicate(s, p) /\ ~Completes(s, t) => mapping' = Entered(m, t) /\ UNCHANGED queue
  BY DEF Collate
<1>4. SinglePacket(p) => s = EmptySequencer
  OBVIOUS
<1>5. P = Range(Packets(m)) /\ n = Len(Packets(m))
  OBVIOUS
<1> HIDE DEF P, n, s
<1>6. /\ \A k \in Messages : ArrivedOf(k) /\ Times(k) \in Nat
      /\ arrived \in [Messages -> SUBSET Nat] /\ DOMAIN mapping \subseteq Messages
      /\ packer' = packer /\ flushed' = flushed /\ results' = results
  BY TimesType DEF Inv, CollatorTypes, packVars
<1>7. p.seq \in 0 .. n - 1 /\ n \in Nat \ {0}
  BY <1>1 DEF Whole
<1>8. /\ arrived' \in [Messages -> SUBSET Nat] /\ arrived'[m] = arrived[m] \cup {p.seq}
      /\ \A k \in Messages : k # m => arrived'[k] = arrived[k]
  BY <1>6, <1>7
<1>9. arrived[m] \subseteq 0 .. n - 1 /\ arrived'[m] \subseteq 0 .. n - 1
  BY <1>1, <1>5, <1>6, <1>7, <1>8 DEF ArrivedOf
<1>10. Packets(m)' = Packets(m)
  BY <1>6 DEF Packets
<1>11. CASE IsDuplicate(s, p)
  <2>1. p.seq \in Numbers(s.chain)
    BY <1>11 DEF IsDuplicate, Numbers
  <2>2. UNCHANGED <<mapping, queue>> /\ arrived' = arrived
    BY <1>2, <1>3, <1>6, <1>8, <1>11, <2>1
  <2>3. CollatorTypes'
    BY <1>6, <2>2 DEF Inv, CollatorTypes
  <2>4. ASSUME NEW k \in Messages PROVE ArrivedOf(k)'
    <3>1. Times(k)' = Times(k)
      BY <1>6, <2>2 DEF Times, Queued
    <3>2. QED
      BY <1>6, <2>2, <3>1, OtherMessage
  <2>5. QED
    BY <2>3, <2>4
<1>12. CASE ~IsDuplicate(s, p) /\ Completes(s, t)
  <2> DEFINE entry == [message |-> m, chain |-> t.chain, meta |-> t.meta]
  <2>1. queue' = <<entry>> \o queue \/ queue' = Append(queue, entry)
    BY <1>3, <1>12 DEF Enqueued
  <2>2. mapping' = mapping \/ mapping' = Removed(m)
    BY <1>3, <1>12
  <2>3. entry.message = m
    OBVIOUS
  <2>4. 0 .. n - 1 \subseteq Numbers(s.chain) \cup {p.seq}
    <3>1. 0 .. n - 1 \subseteq Numbers(t.chain)
      BY <1>1, <1>2, <1>12, CompletedHasAll
    <3>2. Numbers(t.chain) = Numbers(s.chain) \cup {p.seq}
      BY <1>1, <1>2, <1>12, InsertNumbers
    <3>3. QED
      BY <3>1, <3>2
  <2> HIDE DEF entry, t
  <2>5. arrived'[m] = 0 .. n - 1
    BY <1>2, <1>8, <1>9, <2>4
  <2>6. /\ queue' \in Seq(Range(queue'))
        /\ \A i \in DOMAIN queue' :
             queue'[i] = entry \/ \E j \in DOMAIN queue : queue'[i] = queue[j]
        /\ \A k : Count(queue', k) = Count(queue, k) + One(entry, k)
    <3>1. queue \in Seq(Range(queue))
      BY DEF Inv, CollatorTypes
    <3>2. QED
      BY <2>1, <3>1, EntersQueue
  <2>7. /\ DOMAIN mapping' \subseteq DOMAIN mapping
        /\ \A k \in DOMAIN mapping' : mapping'[k] = mapping[k]
        /\ \A k : k # m => (k \in DOMAIN mapping' <=> k \in DOMAIN mapping)
    BY <2>2 DEF Removed
  <2>8. CollatorTypes'
    <3>1. \A i \in DOMAIN queue' : queue'[i].message \in Messages
      BY <2>3, <2>6 DEF Inv, CollatorTypes
    <3>2. DOMAIN mapping' \subseteq Messages
      BY <1>6, <2>7
    <3>3. QED
      BY <1>8, <2>6, <3>1, <3>2 DEF Inv, CollatorTypes
  <2>9. ASSUME NEW k \in Messages PROVE Times(k)' = Times(k) + One(entry, k)
    <3>1. Times(k) = Len(results[k]) + Count(queue, k) /\ Len(results[k]) \in Nat
          /\ Count(queue, k) \in Nat
      BY TimesType DEF Inv
    <3>2. Times(k)' = Len(results[k]) + Count(queue', k)
      BY <1>6 DEF Times, Queued, Count
    <3>3. One(entry, k) \in Nat
      BY DEF One
    <3>4. QED
      BY <2>6, <3>1, <3>2, <3>3
  <2>10. ASSUME NEW k \in Messages, k # m PROVE ArrivedOf(k)'
    <3>1. Times(k)' = Times(k)
      BY <1>6, <2>3, <2>9, <2>10 DEF One
    <3>2. /\ arrived'[k] = arrived[k] /\ (k \in DOMAIN mapping' <=> k \in DOMAIN mapping)
          /\ k \in DOMAIN mapping => mapping'[k] = mapping[k]
      BY <1>8, <2>7, <2>10
    <3>3. QED
      BY <1>6, <3>1, <3>2, OtherMessage
  <2>11. ArrivedOf(m)'
    <3>1. Times(m)' = Times(m) + 1 /\ Times(m) \in Nat
      BY <1>6, <2>3, <2>9 DEF One
    <3>2. AllArrived(m)'
      <4>1. m \in flushed' /\ arrived'[m] = {q.seq : q \in Range(Packets(m)')}
        BY <1>1, <1>5, <1>6, <1>10, <2>5
      <4>2. QED
        BY <4>1 DEF AllArrived
    <3>3. duplicates' = 0 => Times(m) = 0
      <4> SUFFICES ASSUME duplicates' = 0, Times(m) > 0 PROVE FALSE
        BY <3>1
      <4>1. AllArrived(m)
        BY <1>6 DEF ArrivedOf
      <4>2. arrived[m] = 0 .. n - 1
        BY <1>1, <1>5, <4>1 DEF AllArrived
      <4>3. QED
        BY <1>7, <4>2
    <3>4. m \in DOMAIN mapping' =>
            /\ mapping'[m].chain # <<>> /\ Sequencing(mapping'[m], Range(Packets(m)'))
            /\ Numbers(mapping'[m].chain) \subseteq arrived'[m]
      <4> SUFFICES ASSUME m \in DOMAIN mapping'
                   PROVE  /\ mapping'[m].chain # <<>>
                          /\ Sequencing(mapping'[m], Range(Packets(m)'))
                          /\ Numbers(mapping'[m].chain) \subseteq arrived'[m]
        OBVIOUS
      <4>1. m \in DOMAIN mapping /\ mapping'[m] = mapping[m]
        BY <2>7
      <4>2. /\ mapping[m].chain # <<>> /\ Sequencing(mapping[m], Range(Packets(m)))
            /\ Numbers(mapping[m].chain) \subseteq arrived[m]
        BY <1>6, <4>1 DEF ArrivedOf
      <4>3. QED
        BY <1>8, <1>10, <4>1, <4>2
    <3>5. arrived'[m] \subseteq {q.seq : q \in Range(Packets(m)')} /\ flushed' = Messages
      BY <1>1, <1>5, <1>6, <1>10, <2>5
    <3>6. Times(m)' # 0 /\ (duplicates' = 0 => Times(m)' <= 1)
      BY <3>1, <3>3
    <3>7. QED
      BY <3>2, <3>4, <3>5, <3>6 DEF ArrivedOf
  <2>12. QED
    BY <2>8, <2>10, <2>11
<1>13. CASE ~IsDuplicate(s, p) /\ ~Completes(s, t)
  <2>1. mapping' = Entered(m, t) /\ queue' = queue
    BY <1>3, <1>13
  <2>2. ~SinglePacket(p)
    BY <1>1, <1>4, <1>13, SingleCompletes
  <2>3. Sequencing(t, P) /\ t.chain # <<>>
    <3>1. Sequencing(t, P)
      BY <1>1, <1>2, <1>13, NotCompletedInOrder
    <3>2. t.chain # <<>>
      BY <1>1, <1>2, <1>13, InsertIs
    <3>3. QED
      BY <3>1, <3>2
  <2>4. Numbers(t.chain) = Numbers(s.chain) \cup {p.seq}
    BY <1>1, <1>2, <1>13, InsertNumbers
  <2> HIDE DEF t
  <2>5. /\ DOMAIN mapping' = DOMAIN mapping \cup {m} /\ mapping'[m] = t
        /\ \A k \in DOMAIN mapping : k # m => mapping'[k] = mapping[k]
    BY <2>1 DEF Entered
  <2>6. CollatorTypes'
    BY <1>6, <1>8, <2>1, <2>5 DEF Inv, CollatorTypes
  <2>7. ASSUME NEW k \in Messages PROVE Times(k)' = Times(k)
    BY <1>6, <2>1 DEF Times, Queued
  <2>8. ASSUME NEW k \in Messages, k # m PROVE ArrivedOf(k)'
    <3>1. /\ arrived'[k] = arrived[k] /\ (k \in DOMAIN mapping' <=> k \in DOMAIN mapping)
          /\ k \in DOMAIN mapping => mapping'[k] = mapping[k]
      BY <1>8, <2>5, <2>8
    <3>2. QED
      BY <1>6, <2>7, <3>1, OtherMessage
  <2>9. ArrivedOf(m)'
    <3>1. Numbers(mapping'[m].chain) \subseteq arrived'[m]
      BY <1>2, <1>8, <2>4, <2>5
    <3>2. Times(m)' = 0 => arrived'[m] = Numbers(mapping'[m].chain)
      BY <1>2, <1>8, <2>2, <2>4, <2>5, <2>7
    <3>3. Times(m)' > 0 => AllArrived(m)'
      <4> SUFFICES ASSUME Times(m) > 0 PROVE AllArrived(m)'
        BY <2>7
      <4>1. AllArrived(m)
        BY <1>6 DEF ArrivedOf
      <4>2. arrived[m] = 0 .. n - 1
        BY <1>1, <1>5, <4>1 DEF AllArrived
      <4>3. m \in flushed' /\ arrived'[m] = {q.seq : q \in Range(Packets(m)')}
        BY <1>1, <1>5, <1>6, <1>8, <1>9, <1>10, <4>2
      <4>4. QED
        BY <4>3 DEF AllArrived
    <3>4. arrived'[m] \subseteq {q.seq : q \in Range(Packets(m)')} /\ flushed' = Messages
      BY <1>1, <1>5, <1>6, <1>9, <1>10
    <3>5. mapping'[m].chain # <<>> /\ Sequencing(mapping'[m], Range(Packets(m)'))
      BY <1>5, <1>10, <2>3, <2>5
    <3>6. duplicates' = 0 => Times(m)' <= 1
      <4>1. duplicates = 0 => Times(m) <= 1
        BY <1>6 DEF ArrivedOf
      <4>2. QED
        BY <2>7, <4>1
    <3>7. m \in DOMAIN mapping'
      BY <2>5
    <3>8. QED
      BY <3>1, <3>2, <3>3, <3>4, <3>5, <3>6, <3>7 DEF ArrivedOf
  <2>10. QED
    BY <2>6, <2>8, <2>9
<1>14. QED
  BY <1>11, <1>12, <1>13

LEMMA AttachStep ==
  ASSUME Inv, NEW m \in Messages, Attach(m)
  PROVE  CollatorTypes' /\ \A k \in Messages : ArrivedOf(k)'
<1>1. PICK p \in Range(Packets(m)) :
        /\ IF p.seq \in arrived[m]
           THEN duplicates < MaxDuplicates /\ duplicates' = duplicates + 1
           ELSE UNCHANGED duplicates
        /\ arrived' = [arrived EXCEPT ![m] = @ \cup {p.seq}]
        /\ Collate(m, p)
  BY DEF Attach
<1>2. flushed = Messages /\ UNCHANGED <<packVars, memLimitExceeded, results>>
  BY DEF Attach
<1>3. duplicates' \in Nat /\ (duplicates' = 0 => duplicates = 0 /\ p.seq \notin arrived[m])
  BY <1>1 DEF Inv, CollatorTypes
<1>4. QED
  BY <1>1, <1>2, <1>3, CollateKeeps

LEMMA NoChange ==
  ASSUME Inv, UNCHANGED <<packVars, arrived, duplicates, mapping, queue, results>>,
         memLimitExceeded' \in BOOLEAN
  PROVE  CollatorTypes' /\ \A k \in Messages : ArrivedOf(k)'
<1>1. CollatorTypes'
  BY DEF Inv, CollatorTypes
<1>2. ASSUME NEW k \in Messages PROVE ArrivedOf(k)'
  <2>1. Times(k)' = Times(k)
    BY DEF Times, Queued
  <2>2. ArrivedOf(k) /\ UNCHANGED <<packer, flushed>>
    BY DEF Inv, packVars
  <2>3. QED
    BY <2>1, <2>2, OtherMessage
<1>3. QED
  BY <1>1, <1>2

\* A result that is read was queued and is not any more.
LEMMA ResultStep ==
  ASSUME Inv, GetNextResult
  PROVE  CollatorTypes' /\ \A k \in Messages : ArrivedOf(k)'
<1> DEFINE m == queue[1].message
           read == ReadRows(queue[1].chain, NewCursor(queue[1].chain), rows[m])
           result == [rows |-> read.rows, ok |-> read.ok /\ AtEOF(read.cursor),
                      meta |-> queue[1].meta]
<1>1. /\ queue # <<>> /\ queue' = Tail(queue)
      /\ results' = [results EXCEPT ![m] = Append(@, result)]
      /\ UNCHANGED <<packVars, arrived, duplicates, mapping, memLimitExceeded>>
  BY DEF GetNextResult
<1> HIDE DEF result
<1>2. queue \in Seq(Range(queue)) /\ \A i \in DOMAIN queue : queue[i].message \in Messages
  BY DEF Inv, CollatorTypes
<1>3. m \in Messages /\ 1 \in DOMAIN queue
  <2>1. 1 \in DOMAIN queue
    BY <1>1, <1>2
  <2>2. QED
    BY <1>2, <2>1
<1>4. /\ queue' \in Seq(Range(queue)) /\ Len(queue') = Len(queue) - 1
      /\ \A i \in 1 .. Len(queue') : queue'[i] = queue[i + 1]
  BY <1>1, <1>2, HeadTailProperties
<1>5. /\ queue' \in Seq(Range(queue'))
      /\ \A i \in DOMAIN queue' : queue'[i].message \in Messages
  <2>1. queue' \in Seq(Range(queue'))
    BY <1>4, SeqOfRange
  <2>2. \A i \in DOMAIN queue' : i \in 1 .. Len(queue') /\ i + 1 \in DOMAIN queue
    BY <1>2, <1>4
  <2>3. QED
    BY <1>2, <1>4, <2>1, <2>2
<1>6. /\ DOMAIN results' = Messages
      /\ \A k \in Messages : k # m => results'[k] = results[k]
      /\ results'[m] = Append(results[m], result)
  BY <1>1, <1>3 DEF Inv, CollatorTypes
<1>7. results'[m] \in Seq(Range(results'[m])) /\ Len(results'[m]) = Len(results[m]) + 1
      /\ Len(results[m]) \in Nat
  <2> DEFINE U == Range(results[m]) \cup {result}
             before == results[m]
  <2>1. before \in Seq(U)
    <3>1. results[m] \in Seq(Range(results[m]))
      BY <1>3 DEF Inv, CollatorTypes
    <3>2. Range(results[m]) \subseteq U
      OBVIOUS
    <3>3. QED
      BY <3>1, <3>2, SeqMonotonic
  <2>2. result \in U
    OBVIOUS
  <2>3. results'[m] = Append(before, result)
    BY <1>6
  <2> HIDE DEF U, before
  <2>4. results'[m] \in Seq(U) /\ Len(results'[m]) = Len(before) + 1 /\ Len(before) \in Nat
    BY <2>1, <2>2, <2>3, AppendProperties
  <2>5. results'[m] \in Seq(Range(results'[m]))
    BY <2>4, SeqOfRange
  <2>6. QED
    BY <2>4, <2>5 DEF before
<1> HIDE DEF m
<1>8. CollatorTypes'
  <2>1. \A k \in Messages : results'[k] \in Seq(Range(results'[k]))
    BY <1>6, <1>7 DEF Inv, CollatorTypes
  <2>2. QED
    BY <1>1, <1>5, <1>6, <2>1 DEF Inv, CollatorTypes
<1>9. ASSUME NEW k \in Messages PROVE Times(k)' = Times(k)
  <2>1. /\ Times(k) = Len(results[k]) + Count(queue, k) /\ Len(results[k]) \in Nat
        /\ Count(queue, k) \in Nat
    BY TimesType DEF Inv
  <2>2. Times(k)' = Len(results'[k]) + Count(queue', k)
    BY DEF Times, Queued, Count
  <2>3. Count(queue, k) = Count(queue', k) + One(queue[1], k)
    BY <1>1, <1>2, CountTail
  <2>4. Count(queue', k) \in Nat
    BY <1>4, CountType
  <2>5. Len(results'[k]) = Len(results[k]) + One(queue[1], k)
    <3>1. CASE k = m
      <4>1. One(queue[1], k) = 1
        BY <3>1 DEF One, m
      <4>2. QED
        BY <1>7, <3>1, <4>1
    <3>2. CASE k # m
      <4>1. One(queue[1], k) = 0
        BY <3>2 DEF One, m
      <4>2. QED
        BY <1>6, <2>1, <3>2, <4>1
    <3>3. QED
      BY <3>1, <3>2
  <2>6. One(queue[1], k) \in Nat
    BY DEF One
  <2>7. QED
    BY <2>1, <2>2, <2>3, <2>4, <2>5, <2>6
<1>10. ASSUME NEW k \in Messages PROVE ArrivedOf(k)'
  <2>1. ArrivedOf(k) /\ UNCHANGED <<packer, flushed>>
    BY <1>1 DEF Inv, packVars
  <2>2. QED
    BY <1>1, <1>9, <2>1, OtherMessage
<1>11. QED
  BY <1>8, <1>10

LEMMA CollatorStep == Inv /\ [Next]_vars => Inv'
<1> SUFFICES ASSUME Inv, [Next]_vars PROVE Inv'
  OBVIOUS
<1>1. PackersInv'
  BY PackersStep DEF Inv
<1>2. ASSUME NEW m \in Messages, WriteRow(m) \/ SkipRow(m) \/ Finish(m)
      PROVE  CollatorTypes' /\ \A k \in Messages : ArrivedOf(k)'
  BY <1>2, WorkerStep
<1>3. ASSUME NEW m \in Messages, Attach(m)
      PROVE  CollatorTypes' /\ \A k \in Messages : ArrivedOf(k)'
  BY <1>3, AttachStep
<1>4. ASSUME NEW m \in Messages, AttachFails(m)
      PROVE  CollatorTypes' /\ \A k \in Messages : ArrivedOf(k)'
  <2>1. UNCHANGED <<packVars, arrived, duplicates, mapping, queue, results>>
        /\ memLimitExceeded' \in BOOLEAN
    BY <1>4 DEF AttachFails
  <2>2. QED
    BY <2>1, NoChange
<1>5. ASSUME GetNextResult
      PROVE  CollatorTypes' /\ \A k \in Messages : ArrivedOf(k)'
  BY <1>5, ResultStep
<1>6. ASSUME UNCHANGED vars
      PROVE  CollatorTypes' /\ \A k \in Messages : ArrivedOf(k)'
  <2>1. UNCHANGED <<packVars, arrived, duplicates, mapping, queue, results>>
        /\ memLimitExceeded' \in BOOLEAN
    BY <1>6 DEF vars, Inv, CollatorTypes
  <2>2. QED
    BY <2>1, NoChange
<1>7. CollatorTypes' /\ \A k \in Messages : ArrivedOf(k)'
  BY <1>2, <1>3, <1>4, <1>5, <1>6 DEF Next
<1>8. QED
  BY <1>1, <1>7 DEF Inv

\* What the two properties of the collator take from the invariant.
LEMMA InvOrdersChains == Inv => ChainInOrder
<1> SUFFICES ASSUME Inv, NEW m \in DOMAIN mapping
             PROVE  LET s == mapping[m]
                    IN  /\ \A i \in 1 .. Len(s.chain) - 1 : s.chain[i].seq < s.chain[i + 1].seq
                        /\ s.tail = s.chain[Len(s.chain)].seq
                        /\ \A i \in DOMAIN s.chain : i <= s.last <=> s.chain[i].seq = i - 1
  BY DEF ChainInOrder
<1> DEFINE s == mapping[m]
           P == Range(Packets(m))
<1>1. m \in Messages
  BY DEF Inv, CollatorTypes
<1>2. s.chain # <<>> /\ Sequencing(s, P)
  BY <1>1 DEF Inv, ArrivedOf
<1>3. m \in flushed
  <2>1. 1 \in DOMAIN s.chain
    BY <1>2 DEF Sequencing
  <2>2. s.chain[1].seq \in Numbers(s.chain)
    BY <2>1 DEF Numbers
  <2>3. arrived[m] # {}
    BY <1>1, <2>2 DEF Inv, ArrivedOf
  <2>4. QED
    BY <1>1, <2>3 DEF Inv, ArrivedOf
<1>4. Whole(P, Len(Packets(m)))
  BY <1>1, <1>3, WholeIs DEF Inv
<1> HIDE DEF s, P
<1>5. /\ Len(s.chain) \in Nat /\ DOMAIN s.chain = 1 .. Len(s.chain)
      /\ \A i \in 1 .. Len(s.chain) : s.chain[i].seq \in Nat
  BY <1>2, <1>4, SequencingIs
<1>6. ASSUME NEW i \in 1 .. Len(s.chain) - 1 PROVE s.chain[i].seq < s.chain[i + 1].seq
  <2>1. i \in DOMAIN s.chain /\ i + 1 \in i + 1 .. Len(s.chain) /\ i + 1 \in 1 .. Len(s.chain)
        /\ i \in 1 .. Len(s.chain)
    BY <1>5
  <2>2. s.chain[i + 1].seq - s.chain[i].seq >= (i + 1) - i
    BY <1>2, <2>1 DEF Sequencing, Spread
  <2>3. s.chain[i].seq \in Nat /\ s.chain[i + 1].seq \in Nat
    BY <1>5, <2>1
  <2> DEFINE a == s.chain[i].seq
             b == s.chain[i + 1].seq
  <2>4. a \in Nat /\ b \in Nat /\ b - a >= (i + 1) - i
    BY <2>2, <2>3
  <2> HIDE DEF a, b
  <2>5. a < b
    BY <2>4
  <2>6. QED
    BY <2>5 DEF a, b
<1>7. s.tail = s.chain[Len(s.chain)].seq
      /\ \A i \in DOMAIN s.chain : i <= s.last <=> s.chain[i].seq = i - 1
  BY <1>2 DEF Sequencing
<1>8. QED
  BY <1>6, <1>7 DEF s

LEMMA InvQueuesComplete == Inv => QueuedWhenComplete
<1> SUFFICES ASSUME Inv, NEW m \in Messages
             PROVE  /\ Times(m) > 0 <=> AllArrived(m)
                    /\ duplicates = 0 => Times(m) <= 1
  BY DEF QueuedWhenComplete
<1>1. ArrivedOf(m) /\ Times(m) \in Nat
  BY TimesType DEF Inv
<1>2. ASSUME AllArrived(m), Times(m) = 0 PROVE FALSE
  <2> DEFINE P == Range(Packets(m))
             n == Len(Packets(m))
  <2>1. Whole(P, n) /\ {p.seq : p \in P} = 0 .. n - 1
    BY <1>2, WholeIs DEF Inv, AllArrived
  <2>2. arrived[m] = 0 .. n - 1
    BY <1>2, <2>1 DEF AllArrived
  <2>3. 0 \in arrived[m]
    BY <2>1, <2>2 DEF Whole
  <2>4. m \in DOMAIN mapping /\ arrived[m] = Numbers(mapping[m].chain)
    BY <1>1, <1>2, <2>3 DEF ArrivedOf
  <2>5. Sequencing(mapping[m], P)
    BY <1>1, <2>4 DEF ArrivedOf
  <2> HIDE DEF P, n
  <2>6. 0 .. n - 1 \subseteq Numbers(mapping[m].chain)
    BY <2>2, <2>4
  <2>7. Whole(P, n)
    BY <2>1
  <2>8. QED
    BY <2>5, <2>6, <2>7, KeptIsIncomplete
<1>3. QED
  BY <1>1, <1>2 DEF ArrivedOf

\* In whatever order packets arrive and whether they come twice or not, the
\* sequencer of a message not queued yet holds exactly what has arrived of it, in
\* order and not all of it; one that has been queued lacks nothing (collate).
THEOREM CollatorInvariant == Spec => []CollatorInv
<1>1. Inv => CollatorInv
  <2> SUFFICES ASSUME Inv PROVE CollatorInv
    OBVIOUS
  <2>1. PacketsFit
    BY PackersFit DEF Inv
  <2>2. TypeOK
    BY DEF Inv, PackersInv, CollatorTypes, TypeOK
  <2>3. ArrivedInv
    BY ArrivedIs DEF Inv
  <2>4. \A m \in flushed : Packets(m) # <<>>
    BY DEF Inv, PackersInv, Packed, Packets
  <2>5. QED
    BY <2>1, <2>2, <2>3, <2>4 DEF CollatorInv
<1>2. QED
  BY <1>1, CollatorStarts, CollatorStep, PTL DEF Spec

\* A chain is strictly ascending, its tail is its last packet, and the count of
\* packets that follow each other is exact, in whatever order packets arrive and
\* whether they come twice or not (insert of PackageSequencer).
THEOREM ChainsInOrder == Spec => []ChainInOrder
BY CollatorStarts, CollatorStep, InvOrdersChains, PTL DEF Spec

\* A message is queued when the last of its packets arrives, whatever the order,
\* never before, and only once unless packets come twice (attach_databuffer and
\* collate of CMessageCollator).
THEOREM QueuedOnceComplete == Spec => []QueuedWhenComplete
BY CollatorStarts, CollatorStep, InvQueuesComplete, PTL DEF Spec

-----------------------------------------------------------------------------
(* The places of bytes and the bytes of a row.                              *)

\* The places of pieces are pairs of numbers.
LEMMA PlacesAre ==
  ASSUME NEW pieces \in Seq(Seq(Byte))
  PROVE  /\ Places(pieces) \subseteq Nat \X Nat
         /\ \A i, k : <<i, k>> \in Places(pieces) <=>
                        i \in 1 .. Len(pieces) /\ k \in 1 .. Len(pieces[i])
         /\ \A x \in Places(pieces) : /\ x = <<x[1], x[2]>> /\ x[1] \in 1 .. Len(pieces)
                                      /\ x[2] \in 1 .. Len(pieces[x[1]])
                                      /\ At(pieces, x) \in Byte
<1>1. DOMAIN pieces = 1 .. Len(pieces) /\ Len(pieces) \in Nat
  OBVIOUS
<1>2. \A i \in 1 .. Len(pieces) :
        /\ pieces[i] \in Seq(Byte) /\ Len(pieces[i]) \in Nat
        /\ DOMAIN pieces[i] = 1 .. Len(pieces[i])
  OBVIOUS
<1>3. \A i, k : <<i, k>> \in Places(pieces) <=>
                  i \in 1 .. Len(pieces) /\ k \in 1 .. Len(pieces[i])
  BY <1>1, <1>2 DEF Places
<1>4. ASSUME NEW x \in Places(pieces)
      PROVE  /\ x = <<x[1], x[2]>> /\ x[1] \in 1 .. Len(pieces) /\ x[2] \in 1 .. Len(pieces[x[1]])
             /\ x \in Nat \X Nat /\ At(pieces, x) \in Byte
  <2>1. PICK i \in DOMAIN pieces : x \in {i} \X DOMAIN pieces[i]
    BY DEF Places
  <2>2. x = <<x[1], x[2]>> /\ x[1] = i /\ x[2] \in DOMAIN pieces[i]
    BY <2>1
  <2>3. x[1] \in 1 .. Len(pieces) /\ x[2] \in 1 .. Len(pieces[x[1]])
    BY <1>1, <1>2, <2>1, <2>2
  <2>4. x[1] \in Nat /\ x[2] \in Nat
    BY <1>1, <1>2, <2>3
  <2>5. At(pieces, x) \in Byte
    <3>1. pieces[x[1]] \in Seq(Byte)
      BY <1>2, <2>3
    <3>2. QED
      BY <2>3, <3>1 DEF At
  <2>6. QED
    BY <2>2, <2>3, <2>4, <2>5
<1>5. QED
  BY <1>3, <1>4

\* The bytes of a row: its length, if it has one, and what it holds.
LEMMA RowBytesAre ==
  ASSUME NEW row \in Rows
  PROVE  LET bytes == Prefix(row) \o Content(row)
             l     == Len(Prefix(row))
         IN  /\ l = IF row.variable THEN LengthSize ELSE 0
             /\ Len(bytes) = l + row.length
             /\ \A p \in 1 .. Len(bytes) :
                  bytes[p] = IF p <= l THEN <<"length", row.id, row.length>>
                                       ELSE <<"row", row.id, p - l>>
<1> DEFINE pre == Prefix(row)
           con == Content(row)
           bytes == pre \o con
           l == Len(pre)
<1>1. /\ pre \in Seq(Byte) /\ con \in Seq(Byte) /\ l \in Nat /\ Len(con) = row.length
      /\ row.length \in Nat
  BY RowIs DEF Rows
<1>2. /\ l = IF row.variable THEN LengthSize ELSE 0
      /\ \A p \in 1 .. l : pre[p] = <<"length", row.id, row.length>>
  <2>1. CASE row.variable
    <3>1. pre = [k \in 1 .. LengthSize |-> <<"length", row.id, row.length>>]
      BY <2>1 DEF Prefix
    <3>2. DOMAIN pre = 1 .. LengthSize /\ LengthSize \in Nat
      BY <3>1, SizesAre
    <3> HIDE DEF pre
    <3>3. l = LengthSize
      BY <1>1, <3>2
    <3>4. QED
      BY <2>1, <3>1, <3>3
  <2>2. CASE ~row.variable
    <3>1. pre = <<>>
      BY <2>2 DEF Prefix
    <3> HIDE DEF pre
    <3>2. l = 0
      BY <3>1
    <3>3. QED
      BY <2>2, <3>2
  <2>3. QED
    BY <2>1, <2>2 DEF Rows
<1>3. \A k \in 1 .. row.length : con[k] = <<"row", row.id, k>>
  BY DEF Content
<1> HIDE DEF pre, con
<1>4. /\ Len(bytes) = l + row.length
      /\ \A p \in 1 .. l + row.length : bytes[p] = IF p <= l THEN pre[p] ELSE con[p - l]
  BY <1>1, ConcatProperties
<1> HIDE DEF bytes, l
<1>5. ASSUME NEW p \in 1 .. Len(bytes)
      PROVE  bytes[p] = IF p <= l THEN <<"length", row.id, row.length>>
                                  ELSE <<"row", row.id, p - l>>
  <2>1. CASE p <= l
    <3>1. p \in 1 .. l /\ bytes[p] = pre[p]
      BY <1>1, <1>4, <2>1
    <3>2. QED
      BY <1>2, <2>1, <3>1
  <2>2. CASE ~(p <= l)
    <3>1. p - l \in 1 .. row.length /\ bytes[p] = con[p - l]
      BY <1>1, <1>4, <2>2
    <3>2. QED
      BY <1>3, <2>2, <3>1
  <2>3. QED
    BY <2>1, <2>2
<1>6. QED
  BY <1>2, <1>4, <1>5 DEF bytes, l, pre, con

\* ... in order, each of them once.
LEMMA RowBytesInOrder ==
  ASSUME NEW row \in Rows
  PROVE  LET bytes == Prefix(row) \o Content(row)
         IN  /\ \A p \in 1 .. Len(bytes) :
                  /\ bytes[p] \in Range(Prefix(row)) \cup Range(Content(row))
                  /\ bytes[p][2] = row.id
                  /\ bytes[p][1] = "length" <=> row.variable /\ p \in 1 .. LengthSize
             /\ \A p, q \in 1 .. Len(bytes) : p < q => After(bytes[p], bytes[q])
             /\ \A b \in Range(Content(row)) : \E p \in 1 .. Len(bytes) : bytes[p] = b
             /\ \A b \in Range(Prefix(row)) \cup Range(Content(row)) : b[2] = row.id
             /\ row.variable => LengthSize <= Len(bytes)
<1> DEFINE pre == Prefix(row)
           con == Content(row)
           bytes == pre \o con
           l == Len(pre)
<1>1. /\ l = IF row.variable THEN LengthSize ELSE 0
      /\ Len(bytes) = l + row.length
      /\ \A p \in 1 .. Len(bytes) : bytes[p] = IF p <= l THEN <<"length", row.id, row.length>>
                                                         ELSE <<"row", row.id, p - l>>
  BY RowBytesAre
<1>2. l \in Nat /\ row.length \in Nat /\ row.id \in Nat /\ LengthSize \in Nat \ {0}
  BY RowIs, SizesAre DEF Rows
<1>3. row.variable => pre = [k \in 1 .. LengthSize |-> <<"length", row.id, row.length>>]
  BY DEF Prefix
<1>4. ~row.variable => pre = <<>>
  BY DEF Prefix
<1>5. con = [k \in 1 .. row.length |-> <<"row", row.id, k>>]
  BY DEF Content
<1>6. row.variable \in BOOLEAN
  BY DEF Rows
<1>12. Range(pre) = IF row.variable THEN {<<"length", row.id, row.length>>} ELSE {}
  <2>1. CASE row.variable
    <3> HIDE DEF pre
    <3>1. 1 \in 1 .. LengthSize
      BY <1>2
    <3>2. QED
      BY <1>3, <2>1, <3>1 DEF Range
  <2>2. CASE ~row.variable
    <3> HIDE DEF pre
    <3>1. DOMAIN pre = {}
      BY <1>4, <2>2
    <3>2. QED
      BY <2>2, <3>1 DEF Range
  <2>3. QED
    BY <1>6, <2>1, <2>2
<1>13. Range(con) = {<<"row", row.id, k>> : k \in 1 .. row.length}
  <2> HIDE DEF con
  <2>1. QED
    BY <1>5 DEF Range
<1> HIDE DEF bytes, l, pre, con
<1>7. ASSUME NEW p \in 1 .. Len(bytes)
      PROVE  /\ bytes[p] \in Range(pre) \cup Range(con) /\ bytes[p][2] = row.id
             /\ bytes[p][1] = "length" <=> row.variable /\ p \in 1 .. LengthSize
  <2>1. CASE p <= l
    <3>1. bytes[p] = <<"length", row.id, row.length>> /\ row.variable /\ p \in 1 .. LengthSize
      BY <1>1, <1>2, <2>1
    <3>2. QED
      BY <1>12, <3>1
  <2>2. CASE ~(p <= l)
    <3>1. bytes[p] = <<"row", row.id, p - l>> /\ p - l \in 1 .. row.length
          /\ ~(row.variable /\ p \in 1 .. LengthSize)
      BY <1>1, <1>2, <2>2
    <3>2. bytes[p][1] = "row" /\ bytes[p][2] = row.id /\ "row" # "length"
      BY <3>1
    <3>3. bytes[p] \in Range(con)
      BY <1>13, <3>1
    <3>4. QED
      BY <3>1, <3>2, <3>3
  <2>3. QED
    BY <2>1, <2>2
<1>8. ASSUME NEW p \in 1 .. Len(bytes), NEW q \in 1 .. Len(bytes), p < q
      PROVE  After(bytes[p], bytes[q])
  <2>1. bytes[p][2] = bytes[q][2]
    BY <1>7
  <2>2. CASE p <= l
    <3>1. bytes[p][1] = "length"
      BY <1>1, <2>2
    <3>2. QED
      BY <2>1, <3>1 DEF After
  <2>3. CASE ~(p <= l)
    <3>1. ~(q <= l) /\ p - l < q - l
      BY <1>1, <1>2, <1>8, <2>3
    <3>2. bytes[p] = <<"row", row.id, p - l>> /\ bytes[q] = <<"row", row.id, q - l>>
      BY <1>1, <2>3, <3>1
    <3>3. QED
      BY <2>1, <3>1, <3>2 DEF After
  <2>4. QED
    BY <2>2, <2>3
<1>9. ASSUME NEW b \in Range(con) PROVE \E p \in 1 .. Len(bytes) : bytes[p] = b
  <2>1. PICK k \in 1 .. row.length : b = <<"row", row.id, k>>
    BY <1>13
  <2>2. l + k \in 1 .. Len(bytes) /\ ~(l + k <= l) /\ (l + k) - l = k
    BY <1>1, <1>2
  <2>3. bytes[l + k] = <<"row", row.id, (l + k) - l>>
    BY <1>1, <2>2
  <2>4. QED
    BY <2>1, <2>2, <2>3
<1>10. \A b \in Range(pre) \cup Range(con) : b[2] = row.id
  BY <1>12, <1>13
<1>11. row.variable => LengthSize <= Len(bytes)
  BY <1>1, <1>2
<1>14. QED
  BY <1>7, <1>8, <1>9, <1>10, <1>11 DEF bytes, pre, con

-----------------------------------------------------------------------------
(* Pieces that carry rows, and pieces that carry one row more.              *)

\* The pieces as they are carried on when bytes are moved, but not their order.
LEMMA CarrySame ==
  ASSUME NEW old, NEW new, NEW list, CarryRows(old, list), Places(new) = Places(old),
         \A x \in Places(old) : At(new, x) = At(old, x)
  PROVE  CarryRows(new, list)
<1> DEFINE body == Places(old) \ HeaderPlaces
<1>1. /\ \A k \in 1 .. HeaderSize :
           <<1, k>> \in Places(old) /\ At(old, <<1, k>>) = <<"header", k, 0>>
      /\ \A x \in body : \E j \in DOMAIN list :
           At(old, x) \in Range(Prefix(list[j])) \cup Range(Content(list[j]))
      /\ InOrder(old, body)
      /\ \A j \in DOMAIN list :
           /\ \A b \in Range(Content(list[j])) : \E x \in body : At(old, x) = b
           /\ list[j].variable => \E x \in body :
                {y \in body : At(old, y)[1] = "length" /\ At(old, y)[2] = list[j].id} =
                  {x[1]} \X (x[2] .. x[2] + LengthSize - 1)
  BY DEF CarryRows
<1>2. \A x \in body : At(new, x) = At(old, x)
  OBVIOUS
<1>3. body = Places(new) \ HeaderPlaces
  OBVIOUS
<1> HIDE DEF body
<1>4. InOrder(new, body)
  BY <1>1, <1>2 DEF InOrder
<1>5. ASSUME NEW j \in DOMAIN list
      PROVE  /\ \A b \in Range(Content(list[j])) : \E x \in body : At(new, x) = b
             /\ list[j].variable => \E x \in body :
                  {y \in body : At(new, y)[1] = "length" /\ At(new, y)[2] = list[j].id} =
                    {x[1]} \X (x[2] .. x[2] + LengthSize - 1)
  <2>1. {y \in body : At(new, y)[1] = "length" /\ At(new, y)[2] = list[j].id} =
        {y \in body : At(old, y)[1] = "length" /\ At(old, y)[2] = list[j].id}
    BY <1>2
  <2>2. \A b \in Range(Content(list[j])) : \E x \in body : At(new, x) = b
    BY <1>1, <1>2
  <2>3. list[j].variable => \E x \in body :
          {y \in body : At(old, y)[1] = "length" /\ At(old, y)[2] = list[j].id} =
            {x[1]} \X (x[2] .. x[2] + LengthSize - 1)
    BY <1>1
  <2>4. QED
    BY <2>1, <2>2, <2>3
<1>6. \A x \in body : \E j \in DOMAIN list :
        At(new, x) \in Range(Prefix(list[j])) \cup Range(Content(list[j]))
  BY <1>1, <1>2
<1>7. \A k \in 1 .. HeaderSize :
        <<1, k>> \in Places(new) /\ At(new, <<1, k>>) = <<"header", k, 0>>
  BY <1>1
<1>8. QED
  BY <1>3, <1>4, <1>5, <1>6, <1>7 DEF CarryRows

\* The new pieces hold what the old ones do and behind it, in order, the bytes
\* of a row, whose length is not cut.
AddsRow(old, new, row) ==
  LET bytes == Prefix(row) \o Content(row)
      fresh == Places(new) \ Places(old)
  IN  /\ Places(old) \subseteq Places(new) /\ \A x \in Places(old) : At(new, x) = At(old, x)
      /\ \A x \in Places(old), y \in fresh : ~Before(y, x)
      /\ \E off \in [fresh -> 1 .. Len(bytes)] :
           /\ \A x \in fresh : At(new, x) = bytes[off[x]]
           /\ \A x, y \in fresh : Before(x, y) => off[x] < off[y]
           /\ \A p \in 1 .. Len(bytes) : \E x \in fresh : off[x] = p
           /\ row.variable => \E x \in fresh :
                {y \in fresh : off[y] \in 1 .. LengthSize} =
                  {x[1]} \X (x[2] .. x[2] + LengthSize - 1)

LEMMA CarryMore ==
  ASSUME NEW old, NEW new, NEW list \in Seq(Rows), NEW row \in Rows,
         \A j \in DOMAIN list : list[j].id = j, row.id = Len(list) + 1,
         CarryRows(old, list), AddsRow(old, new, row)
  PROVE  CarryRows(new, Append(list, row))
<1> DEFINE bytes == Prefix(row) \o Content(row)
           fresh == Places(new) \ Places(old)
<1>30. Places(old) \subseteq Places(new) /\ \A x \in Places(old) : At(new, x) = At(old, x)
  BY DEF AddsRow
<1>31. \A x \in Places(old), y \in fresh : ~Before(y, x)
  BY DEF AddsRow
<1>32. PICK off \in [fresh -> 1 .. Len(bytes)] :
         /\ \A x \in fresh : At(new, x) = bytes[off[x]]
         /\ \A x, y \in fresh : Before(x, y) => off[x] < off[y]
         /\ \A p \in 1 .. Len(bytes) : \E x \in fresh : off[x] = p
         /\ row.variable => \E x \in fresh :
              {y \in fresh : off[y] \in 1 .. LengthSize} =
                {x[1]} \X (x[2] .. x[2] + LengthSize - 1)
  BY DEF AddsRow
<1>33. bytes = Prefix(row) \o Content(row) /\ fresh = Places(new) \ Places(old)
  OBVIOUS
<1> HIDE DEF bytes, fresh
<1> DEFINE n == Len(list)
           more == Append(list, row)
           was == Places(old) \ HeaderPlaces
           body == Places(new) \ HeaderPlaces
           OfRow(r) == Range(Prefix(r)) \cup Range(Content(r))
<1>1. /\ \A k \in 1 .. HeaderSize :
           <<1, k>> \in Places(old) /\ At(old, <<1, k>>) = <<"header", k, 0>>
      /\ \A x \in was : \E j \in DOMAIN list : At(old, x) \in OfRow(list[j])
      /\ InOrder(old, was)
      /\ \A j \in DOMAIN list :
           /\ \A b \in Range(Content(list[j])) : \E x \in was : At(old, x) = b
           /\ list[j].variable => \E x \in was :
                {y \in was : At(old, y)[1] = "length" /\ At(old, y)[2] = list[j].id} =
                  {x[1]} \X (x[2] .. x[2] + LengthSize - 1)
  BY DEF CarryRows
<1>2. HeaderPlaces \subseteq Places(old)
  <2>1. ASSUME NEW x \in HeaderPlaces PROVE x \in Places(old)
    <3>1. PICK k \in 1 .. HeaderSize : x = <<1, k>>
      BY DEF HeaderPlaces
    <3>2. QED
      BY <1>1, <3>1
  <2>2. QED
    BY <2>1
<1>3. body = was \cup fresh /\ was \subseteq Places(old) /\ fresh \cap Places(old) = {}
  BY <1>2, <1>30, <1>33
<1>4. \A x \in was : At(new, x) = At(old, x)
  BY <1>30
<1>5. \A k \in 1 .. HeaderSize :
        <<1, k>> \in Places(new) /\ At(new, <<1, k>>) = <<"header", k, 0>>
  BY <1>1, <1>30
<1>6. /\ n \in Nat /\ DOMAIN list = 1 .. n /\ DOMAIN more = 1 .. n + 1 /\ more[n + 1] = row
      /\ \A j \in 1 .. n : more[j] = list[j] /\ list[j] \in Rows /\ list[j].id = j
      /\ row.id = n + 1
  BY AppendProperties
<1>7. /\ \A p \in 1 .. Len(bytes) :
           /\ bytes[p] \in OfRow(row) /\ bytes[p][2] = row.id
           /\ bytes[p][1] = "length" <=> row.variable /\ p \in 1 .. LengthSize
      /\ \A p, q \in 1 .. Len(bytes) : p < q => After(bytes[p], bytes[q])
      /\ \A b \in Range(Content(row)) : \E p \in 1 .. Len(bytes) : bytes[p] = b
      /\ row.variable => LengthSize <= Len(bytes)
  BY <1>33, RowBytesInOrder
<1>8. \A j \in 1 .. n : \A b \in OfRow(list[j]) : b[2] = j
  <2> SUFFICES ASSUME NEW j \in 1 .. n PROVE \A b \in OfRow(list[j]) : b[2] = j
    OBVIOUS
  <2>1. list[j] \in Rows /\ list[j].id = j
    BY <1>6
  <2>2. \A r \in Rows : \A b \in OfRow(r) : b[2] = r.id
    BY ONLY RowBytesInOrder
  <2>3. QED
    BY ONLY <2>1, <2>2
<1>9. body = Places(new) \ HeaderPlaces
  OBVIOUS
<1>20. more = Append(list, row)
  OBVIOUS
<1> HIDE DEF n, more, was, body
<1>10. \A x \in fresh : /\ off[x] \in 1 .. Len(bytes) /\ At(new, x) \in OfRow(row)
                        /\ At(new, x)[2] = n + 1
                        /\ At(new, x)[1] = "length" <=> row.variable /\ off[x] \in 1 .. LengthSize
  BY <1>6, <1>7, <1>32
<1>11. \A x \in was : At(new, x)[2] \in 1 .. n
  <2> SUFFICES ASSUME NEW x \in was PROVE At(new, x)[2] \in 1 .. n
    OBVIOUS
  <2>1. PICK j \in DOMAIN list : At(old, x) \in OfRow(list[j])
    BY <1>1
  <2>2. j \in 1 .. n
    BY <1>6
  <2>3. At(old, x)[2] = j
    BY <1>8, <2>1, <2>2
  <2>4. QED
    BY <1>4, <2>2, <2>3
<1>12. ASSUME NEW x \in body PROVE \E j \in DOMAIN more : At(new, x) \in OfRow(more[j])
  <2>1. CASE x \in was
    <3>1. PICK j \in DOMAIN list : At(old, x) \in OfRow(list[j])
      BY <1>1, <2>1
    <3>2. j \in DOMAIN more /\ more[j] = list[j]
      BY <1>6
    <3>3. QED
      BY <1>4, <2>1, <3>1, <3>2
  <2>2. CASE x \in fresh
    <3>1. n + 1 \in DOMAIN more
      BY <1>6
    <3>2. QED
      BY <1>6, <1>10, <2>2, <3>1
  <2>3. QED
    BY <1>3, <2>1, <2>2
<1>13. InOrder(new, body)
  <2> SUFFICES ASSUME NEW x \in body, NEW y \in body, Before(x, y)
               PROVE  After(At(new, x), At(new, y))
    BY DEF InOrder
  <2>1. CASE x \in was /\ y \in was
    BY <1>1, <1>4, <2>1 DEF InOrder
  <2>2. CASE x \in was /\ y \in fresh
    <3>1. At(new, x)[2] \in 1 .. n /\ At(new, y)[2] = n + 1
      BY <1>10, <1>11, <2>2
    <3>2. QED
      BY <1>6, <3>1 DEF After
  <2>3. CASE x \in fresh /\ y \in was
    BY <1>3, <1>31, <2>3
  <2>4. CASE x \in fresh /\ y \in fresh
    <3>1. off[x] < off[y]
      BY <1>32, <2>4
    <3>2. off[x] \in 1 .. Len(bytes) /\ off[y] \in 1 .. Len(bytes)
      BY <1>10, <2>4
    <3>3. After(bytes[off[x]], bytes[off[y]])
      BY <1>7, <3>1, <3>2
    <3>4. At(new, x) = bytes[off[x]] /\ At(new, y) = bytes[off[y]]
      BY <1>32, <2>4
    <3>5. QED
      BY <3>3, <3>4
  <2>5. QED
    BY <1>3, <2>1, <2>2, <2>3, <2>4
<1>14. ASSUME NEW j \in DOMAIN more
       PROVE  /\ \A b \in Range(Content(more[j])) : \E x \in body : At(new, x) = b
              /\ more[j].variable => \E x \in body :
                   {y \in body : At(new, y)[1] = "length" /\ At(new, y)[2] = more[j].id} =
                     {x[1]} \X (x[2] .. x[2] + LengthSize - 1)
  <2> DEFINE Of(i) == {y \in body : At(new, y)[1] = "length" /\ At(new, y)[2] = i}
  <2>1. CASE j \in 1 .. n
    <3>1. more[j] = list[j] /\ list[j].id = j /\ j \in DOMAIN list /\ j # n + 1
      BY <1>6, <2>1
    <3>2. Of(j) = {y \in was : At(old, y)[1] = "length" /\ At(old, y)[2] = list[j].id}
      BY <1>3, <1>4, <1>10, <3>1
    <3>3. /\ \A b \in Range(Content(list[j])) : \E x \in was : At(old, x) = b
          /\ list[j].variable => \E x \in was :
               {y \in was : At(old, y)[1] = "length" /\ At(old, y)[2] = list[j].id} =
                 {x[1]} \X (x[2] .. x[2] + LengthSize - 1)
      BY <1>1, <3>1
    <3>4. ASSUME more[j].variable
          PROVE  \E x \in body : Of(j) = {x[1]} \X (x[2] .. x[2] + LengthSize - 1)
      <4>1. PICK x \in was :
              {y \in was : At(old, y)[1] = "length" /\ At(old, y)[2] = list[j].id} =
                {x[1]} \X (x[2] .. x[2] + LengthSize - 1)
        BY <3>1, <3>3, <3>4
      <4>2. x \in body
        BY <1>3
      <4> HIDE DEF Of
      <4>3. QED
        BY <3>2, <4>1, <4>2
    <3>5. ASSUME NEW b \in Range(Content(more[j])) PROVE \E x \in body : At(new, x) = b
      BY <1>3, <1>4, <3>1, <3>3
    <3>6. QED
      BY <3>1, <3>4, <3>5
  <2>2. CASE j = n + 1
    <3>1. more[j] = row /\ row.id = n + 1
      BY <1>6, <2>2
    <3>2. row.variable => Of(n + 1) = {y \in fresh : off[y] \in 1 .. LengthSize}
      <4>1. \A y \in was : At(new, y)[2] # n + 1
        BY <1>6, <1>11
      <4>2. QED
        BY <1>3, <1>10, <4>1
    <3>3. ASSUME row.variable
          PROVE  \E x \in body : Of(n + 1) = {x[1]} \X (x[2] .. x[2] + LengthSize - 1)
      <4>1. PICK x \in fresh :
              {y \in fresh : off[y] \in 1 .. LengthSize} =
                {x[1]} \X (x[2] .. x[2] + LengthSize - 1)
        BY <1>32, <3>3
      <4>2. x \in body
        BY <1>3
      <4> HIDE DEF Of
      <4>3. QED
        BY <3>2, <3>3, <4>1, <4>2
    <3>4. ASSUME NEW b \in Range(Content(row)) PROVE \E x \in body : At(new, x) = b
      <4>1. PICK p \in 1 .. Len(bytes) : bytes[p] = b
        BY <1>7
      <4>2. PICK x \in fresh : off[x] = p
        BY <1>32
      <4>3. QED
        BY <1>3, <1>32, <4>1, <4>2
    <3>5. QED
      BY <3>1, <3>3, <3>4
  <2>3. j \in 1 .. n \/ j = n + 1
    BY <1>6
  <2>4. QED
    BY <2>1, <2>2, <2>3
<1>15. CarryRows(new, more)
  BY <1>5, <1>9, <1>12, <1>13, <1>14, Zenon DEF CarryRows
<1>16. QED
  BY <1>15, <1>20

-----------------------------------------------------------------------------
(* Bytes cut into buffers.                                                  *)

\* Products of numbers.
LEMMA ProductGrows ==
  ASSUME NEW a \in Nat, NEW b \in Nat, NEW c \in Nat, a <= b
  PROVE  a * c <= b * c /\ a * c \in Nat
<1>1. b - a \in Nat /\ (b - a) * c >= 0
  OBVIOUS
<1>2. (b - a) * c = b * c - a * c
  OBVIOUS
<1>3. QED
  BY <1>1, <1>2

LEMMA DivisionIs ==
  ASSUME NEW a \in Nat, NEW b \in Nat \ {0}
  PROVE  a \div b \in Nat /\ (a \div b) * b <= a /\ a < (a \div b) * b + b
OBVIOUS

\* Where the k-th byte of the i-th buffer stands in what is cut.
Pos(i, k) == (i - 1) * BufferSize + k

\* Buffers that are filled one after another hold the bytes in order.
LEMMA Cut ==
  ASSUME NEW bytes \in Seq(Byte)
  PROVE  LET full == FullBuffers(bytes)
         IN  /\ full \in Nat
             /\ \A i \in 1 .. full + 1 :
                  /\ Len(Piece(bytes, i)) \in 0 .. BufferSize
                  /\ i <= full => Len(Piece(bytes, i)) = BufferSize
                  /\ i = full + 1 => full * BufferSize + Len(Piece(bytes, i)) = Len(bytes)
                  /\ \A k \in 1 .. Len(Piece(bytes, i)) :
                       Pos(i, k) \in 1 .. Len(bytes) /\ Piece(bytes, i)[k] = bytes[Pos(i, k)]
             /\ \A p \in 1 .. Len(bytes) : \E i \in 1 .. full + 1 :
                  \E k \in 1 .. Len(Piece(bytes, i)) : Pos(i, k) = p
<1> DEFINE full == FullBuffers(bytes)
           B == BufferSize
           L == Len(bytes)
<1>1. B \in Nat \ {0} /\ L \in Nat /\ full \in Nat
  BY SizesAre, FullBuffersType
<1>2. full * B <= L /\ (L > 0 => full * B < L) /\ L <= full * B + B
  <2>1. CASE bytes = <<>>
    <3>1. full = 0 /\ L = 0
      BY <2>1 DEF FullBuffers
    <3> HIDE DEF full, L, B
    <3>2. QED
      BY <1>1, <3>1
  <2>2. CASE bytes # <<>>
    <3>1. L - 1 \in Nat /\ full = (L - 1) \div B
      BY <1>1, <2>2 DEF FullBuffers
    <3> HIDE DEF full, L, B
    <3>2. full * B <= L - 1 /\ L - 1 < full * B + B
      BY <1>1, <3>1, DivisionIs
    <3> DEFINE q == full * B
    <3>3. q \in Int /\ q <= L - 1 /\ L - 1 < q + B
      BY <1>1, <3>2
    <3> HIDE DEF q
    <3>4. q <= L /\ q < L /\ L <= q + B
      BY <1>1, <3>3
    <3>5. QED
      BY <3>4 DEF q
  <2>3. QED
    BY <2>1, <2>2
<1> HIDE DEF full
<1>3. ASSUME NEW i \in 1 .. full + 1
      PROVE  /\ Len(Piece(bytes, i)) \in 0 .. B
             /\ i <= full => Len(Piece(bytes, i)) = B
             /\ i = full + 1 => full * B + Len(Piece(bytes, i)) = L
             /\ \A k \in 1 .. Len(Piece(bytes, i)) :
                  Pos(i, k) \in 1 .. L /\ Piece(bytes, i)[k] = bytes[Pos(i, k)]
  <2> DEFINE a == (i - 1) * B
             b == Min({i * B, L})
  <2>1. i \in Nat \ {0} /\ i - 1 \in Nat /\ i - 1 <= full
    BY <1>1
  <2>2. a \in Nat /\ a <= full * B /\ i * B = a + B
    <3>1. a \in Nat /\ a <= full * B
      <4> HIDE DEF B
      <4>1. QED
        BY <1>1, <2>1, ProductGrows
    <3>2. QED
      BY <1>1, <2>1, <3>1
  <2>3. i <= full => i * B <= full * B
    <3> HIDE DEF B
    <3>1. QED
      BY <1>1, <2>1, ProductGrows
  <2>4. b = IF i * B <= L THEN i * B ELSE L
    <3>1. i * B \in Int /\ L \in Int
      BY <1>1, <2>1, <2>2
    <3> HIDE DEF B, L
    <3>2. QED
      BY <3>1, MinIs
  <2>5. /\ a <= b /\ b \in Nat /\ b <= L /\ b - a \in 0 .. B
        /\ i <= full => b = a + B
        /\ i = full + 1 => b = L
    <3> DEFINE ib == i * B
               fb == full * B
    <3>1. /\ ib = a + B /\ a <= fb /\ a \in Nat /\ (i <= full => ib <= fb)
          /\ b = IF ib <= L THEN ib ELSE L
      BY <2>2, <2>3, <2>4
    <3>2. i = full + 1 => a = fb
      BY <1>1
    <3>3. fb <= L /\ (L > 0 => fb < L) /\ L <= fb + B /\ fb \in Nat
      BY <1>1, <1>2
    <3> HIDE DEF ib, fb, a, b, B, L
    <3>4. QED
      BY <1>1, <2>1, <3>1, <3>2, <3>3
  <2>6. Piece(bytes, i) = SubSeq(bytes, a + 1, b)
    BY DEF Piece
  <2> HIDE DEF b, a
  <2>7. /\ Len(SubSeq(bytes, a + 1, b)) = b - a
        /\ \A k \in 1 .. b - a : SubSeq(bytes, a + 1, b)[k] = bytes[a + k]
    <3>1. a \in Nat /\ b \in Nat /\ a <= b /\ b <= Len(bytes)
      BY <2>2, <2>5
    <3>2. Len(SubSeq(bytes, a + 1, b)) = b - a
      BY <3>1
    <3>3. ASSUME NEW k \in 1 .. b - a PROVE SubSeq(bytes, a + 1, b)[k] = bytes[a + k]
      BY <3>1
    <3>4. QED
      BY <3>2, <3>3
  <2>8. \A k \in 1 .. b - a : a + k \in 1 .. L /\ Pos(i, k) = a + k
    BY <1>1, <2>2, <2>5 DEF Pos, a
  <2>9. i = full + 1 => full * B + (b - a) = L
    <3> SUFFICES ASSUME i = full + 1 PROVE full * B + (b - a) = L
      OBVIOUS
    <3>1. a = full * B /\ b = L
      BY <1>1, <2>5 DEF a
    <3>2. QED
      BY <1>1, <2>2, <3>1
  <2>10. i <= full => b - a = B
    BY <1>1, <2>2, <2>5
  <2> HIDE DEF B, L
  <2>11. QED
    BY <2>5, <2>6, <2>7, <2>8, <2>9, <2>10
<1>4. ASSUME NEW p \in 1 .. L
      PROVE  \E i \in 1 .. full + 1 : \E k \in 1 .. Len(Piece(bytes, i)) : Pos(i, k) = p
  <2> DEFINE q == (p - 1) \div B
             r == (p - 1) - q * B
  <2>0. p - 1 \in Nat /\ q \in Nat /\ q * B <= p - 1 /\ p - 1 < q * B + B
    BY <1>1, DivisionIs
  <2> HIDE DEF q
  <2>2. q * B \in Int
    BY <1>1, <2>0
  <2>1. p - 1 \in Nat /\ q \in Nat /\ r \in 0 .. B - 1 /\ p - 1 = q * B + r
    <3> DEFINE qb == q * B
    <3>1. qb \in Int /\ qb <= p - 1 /\ p - 1 < qb + B /\ r = (p - 1) - qb
      BY <2>0, <2>2
    <3> HIDE DEF qb, r
    <3>2. r \in 0 .. B - 1 /\ p - 1 = qb + r
      BY <1>1, <2>0, <3>1
    <3>3. QED
      BY <2>0, <3>2 DEF qb
  <2> HIDE DEF q, r
  <2>3. q <= full
    <3> SUFFICES ASSUME full + 1 <= q PROVE FALSE
      BY <1>1, <2>1
    <3>1. (full + 1) * B <= q * B
      <4> HIDE DEF B
      <4>1. QED
        BY <1>1, <2>1, ProductGrows
    <3>2. (full + 1) * B = full * B + B
      BY <1>1
    <3> DEFINE fb == full * B
               qb == q * B
    <3>3. fb + B <= qb /\ p - 1 = qb + r /\ L <= fb + B /\ fb \in Nat /\ qb \in Int
      BY <1>1, <1>2, <2>1, <2>2, <3>1, <3>2
    <3> HIDE DEF fb, qb, B, L
    <3>4. QED
      BY <1>1, <2>1, <3>3
  <2>4. q + 1 \in 1 .. full + 1 /\ Pos(q + 1, r + 1) = p
    <3>1. (q + 1) - 1 = q
      BY <2>1
    <3> DEFINE qb == q * B
    <3>2. p - 1 = qb + r /\ qb \in Int /\ Pos(q + 1, r + 1) = qb + (r + 1)
      BY <2>1, <2>2, <3>1 DEF Pos
    <3> HIDE DEF qb
    <3>3. Pos(q + 1, r + 1) = p
      BY <1>1, <2>1, <3>2
    <3>4. QED
      BY <1>1, <2>1, <2>3, <3>3
  <2>5. r + 1 \in 1 .. Len(Piece(bytes, q + 1))
    <3>1. CASE q + 1 <= full
      <4>1. Len(Piece(bytes, q + 1)) = B
        BY <1>3, <2>4, <3>1
      <4>2. QED
        BY <1>1, <2>1, <4>1
    <3>2. CASE ~(q + 1 <= full)
      <4>1. q = full
        BY <1>1, <2>1, <2>3, <3>2
      <4> DEFINE l == Len(Piece(bytes, q + 1))
                 qb == q * B
      <4>2. qb + l = L /\ l \in 0 .. B /\ qb \in Int /\ p - 1 = qb + r
        <5>1. q + 1 = full + 1 /\ q + 1 \in 1 .. full + 1
          BY <2>4, <4>1
        <5>2. full * B + l = L /\ l \in 0 .. B
          BY <1>3, <5>1
        <5>3. QED
          BY <2>1, <2>2, <4>1, <5>2
      <4> HIDE DEF l, qb, B, L
      <4>3. r + 1 \in 1 .. l
        BY <1>1, <2>1, <4>2
      <4>4. QED
        BY <4>3 DEF l
    <3>3. QED
      BY <3>1, <3>2
  <2>6. QED
    BY <2>4, <2>5
<1>5. QED
  BY <1>1, <1>3, <1>4 DEF full

\* ... in the order of the buffers.
LEMMA CutInOrder ==
  ASSUME NEW i \in Nat \ {0}, NEW j \in Nat \ {0}, NEW k \in 1 .. BufferSize,
         NEW h \in 1 .. BufferSize, i < j \/ (i = j /\ k < h)
  PROVE  Pos(i, k) < Pos(j, h)
<1> DEFINE B == BufferSize
<1>1. B \in Nat
  BY SizesAre
<1>2. CASE i = j
  BY <1>1, <1>2 DEF Pos
<1>3. CASE i < j
  <2>1. i \in Nat /\ j - 1 \in Nat /\ i <= j - 1 /\ i - 1 \in Nat
    BY <1>3
  <2> DEFINE ib == i * B
             jb == (j - 1) * B
             b == (i - 1) * B
  <2>2. ib <= jb
    <3> HIDE DEF B
    <3>1. QED
      BY <1>1, <2>1, ProductGrows
  <2>3. ib = b + B /\ b \in Int /\ jb \in Int /\ Pos(i, k) = b + k /\ Pos(j, h) = jb + h
    BY <1>1, <2>1 DEF Pos
  <2> HIDE DEF ib, jb, b
  <2>4. QED
    BY <1>1, <2>2, <2>3
<1>4. QED
  BY <1>2, <1>3

\* What fits a buffer is not cut.
LEMMA NotCut ==
  ASSUME NEW bytes \in Seq(Byte), Len(bytes) <= BufferSize
  PROVE  FullBuffers(bytes) = 0 /\ Piece(bytes, 1) = bytes
<1> DEFINE full == FullBuffers(bytes)
           B == BufferSize
           L == Len(bytes)
           first == Piece(bytes, 1)
<1>1. B \in Nat \ {0} /\ L \in Nat /\ L <= B
  BY SizesAre
<1>2. full = 0
  <2>1. CASE bytes = <<>>
    BY <2>1 DEF FullBuffers
  <2>2. CASE bytes # <<>>
    <3>1. L - 1 \in Nat /\ full = (L - 1) \div B
      BY <1>1, <2>2 DEF FullBuffers
    <3> HIDE DEF full, L, B
    <3>2. L - 1 < B
      BY <1>1, <3>1
    <3>3. QED
      BY <1>1, <3>1, <3>2
  <2>3. QED
    BY <2>1, <2>2
<1>3. /\ 0 * B + Len(first) = L
      /\ \A k \in 1 .. Len(first) : first[k] = bytes[Pos(1, k)]
  <2>1. 1 \in 1 .. full + 1 /\ 1 = full + 1 /\ full * B = 0 * B
    BY <1>2
  <2>2. full * B + Len(first) = L /\ \A k \in 1 .. Len(first) : first[k] = bytes[Pos(1, k)]
    BY <2>1, Cut
  <2>3. QED
    BY <2>1, <2>2
<1>4. first \in Seq(Byte) /\ Len(first) \in Nat
  BY PieceIs
<1> HIDE DEF first
<1>5. Len(first) = L
  BY <1>1, <1>3, <1>4
<1>6. \A k \in 1 .. L : first[k] = bytes[k]
  <2>1. \A k \in 1 .. L : Pos(1, k) = k
    BY <1>1 DEF Pos
  <2>2. QED
    BY <1>3, <1>5, <2>1
<1>7. first = bytes
  BY <1>4, <1>5, <1>6, SeqEqual
<1>8. QED
  BY <1>2, <1>7 DEF first

\* The last of the pieces is filled with a row and cut where buffers are full.
LEMMA Recut ==
  ASSUME NEW n \in Nat \ {0}, NEW old \in Seq(Seq(Byte)), Len(old) = n, Len(old[n]) <= BufferSize,
         NEW list \in Seq(Rows), NEW row \in Rows, \A j \in DOMAIN list : list[j].id = j,
         row.id = Len(list) + 1, CarryRows(old, list),
         NEW stream, stream = old[n] \o (Prefix(row) \o Content(row)),
         NEW new \in Seq(Seq(Byte)), Len(new) = n + FullBuffers(stream),
         \A i \in 1 .. n - 1 : new[i] = old[i],
         \A i \in 1 .. FullBuffers(stream) + 1 : new[n + i - 1] = Piece(stream, i),
         row.variable => Len(old[n]) + LengthSize <= BufferSize
  PROVE  CarryRows(new, Append(list, row))
<1> DEFINE l == Len(old[n])
           B == BufferSize
           bytes == Prefix(row) \o Content(row)
           full == FullBuffers(stream)
           fresh == Places(new) \ Places(old)
           P(x) == Pos(x[1] - n + 1, x[2])
<1>1. old[n] \in Seq(Byte) /\ l \in 0 .. B /\ B \in Nat \ {0} /\ LengthSize \in Nat \ {0}
      /\ n \in 1 .. Len(old)
  <2>1. n \in 1 .. Len(old)
    OBVIOUS
  <2>2. old[n] \in Seq(Byte)
    BY <2>1
  <2>3. QED
    BY <2>1, <2>2, SizesAre
<1>2. bytes \in Seq(Byte) /\ (row.variable => LengthSize <= Len(bytes))
  BY RowIs, RowBytesInOrder
<1>30. stream = old[n] \o bytes
  OBVIOUS
<1> HIDE DEF bytes
<1>3. /\ stream \in Seq(Byte) /\ Len(stream) = l + Len(bytes) /\ Len(bytes) \in Nat
      /\ \A p \in 1 .. l : stream[p] = old[n][p]
      /\ \A p \in 1 .. Len(bytes) : stream[l + p] = bytes[p]
  <2>1. /\ stream \in Seq(Byte) /\ Len(stream) = l + Len(bytes) /\ Len(bytes) \in Nat
        /\ \A p \in 1 .. l + Len(bytes) : stream[p] = IF p <= l THEN old[n][p] ELSE bytes[p - l]
    BY <1>1, <1>2, <1>30, ConcatProperties
  <2> HIDE DEF l
  <2>2. \A p \in 1 .. l : p \in 1 .. l + Len(bytes) /\ p <= l
    BY <1>1, <2>1
  <2>3. ASSUME NEW p \in 1 .. Len(bytes) PROVE stream[l + p] = bytes[p]
    <3>1. l + p \in 1 .. l + Len(bytes) /\ ~(l + p <= l) /\ (l + p) - l = p
      BY <1>1, <2>1
    <3>2. stream[l + p] = bytes[(l + p) - l]
      BY <2>1, <3>1
    <3>3. QED
      BY <3>1, <3>2
  <2>4. \A p \in 1 .. l : stream[p] = old[n][p]
    BY <2>1, <2>2
  <2>5. QED
    BY <2>1, <2>3, <2>4
<1>25. /\ full \in Nat
       /\ \A i \in 1 .. full + 1 :
            /\ Len(Piece(stream, i)) \in 0 .. B
            /\ i <= full => Len(Piece(stream, i)) = B
            /\ i = full + 1 => full * B + Len(Piece(stream, i)) = Len(stream)
            /\ \A k \in 1 .. Len(Piece(stream, i)) :
                 Pos(i, k) \in 1 .. Len(stream) /\ Piece(stream, i)[k] = stream[Pos(i, k)]
       /\ \A p \in 1 .. Len(stream) : \E i \in 1 .. full + 1 :
            \E k \in 1 .. Len(Piece(stream, i)) : Pos(i, k) = p
  <2>1. stream \in Seq(Byte)
    BY <1>3
  <2>2. QED
    BY ONLY <2>1, Cut
<1>29. Len(new) = n + full /\ \A i \in 1 .. full + 1 : new[n + i - 1] = Piece(stream, i)
  OBVIOUS
<1> HIDE DEF full
<1>4. full \in Nat /\ n \in Nat \ {0} /\ n \in 1 .. n + full /\ n \in n .. n + full /\ n - n + 1 = 1
      /\ 1 \in 1 .. full + 1
  <2>1. full \in Nat
    BY <1>25
  <2>2. QED
    BY <2>1
<1>26. \A i \in 1 .. full + 1 : /\ Len(Piece(stream, i)) \in 0 .. B
                                /\ i <= full => Len(Piece(stream, i)) = B
  BY ONLY <1>25
<1>27. \A i \in 1 .. full + 1 : \A k \in 1 .. Len(Piece(stream, i)) :
         Pos(i, k) \in 1 .. Len(stream) /\ Piece(stream, i)[k] = stream[Pos(i, k)]
  BY ONLY <1>25
<1>28. \A p \in 1 .. Len(stream) : \E i \in 1 .. full + 1 :
         \E k \in 1 .. Len(Piece(stream, i)) : Pos(i, k) = p
  BY ONLY <1>25
<1>5. \A i \in n .. n + full : i - n + 1 \in 1 .. full + 1 /\ new[i] = Piece(stream, i - n + 1)
  <2>1. \A i \in n .. n + full : i - n + 1 \in 1 .. full + 1 /\ n + (i - n + 1) - 1 = i
    BY ONLY <1>4
  <2>2. QED
    BY ONLY <1>29, <2>1
<1>6. \A k \in Int : Pos(1, k) = k
  BY <1>1 DEF Pos
<1>7. Len(new[n]) = (IF full = 0 THEN Len(stream) ELSE B) /\ Len(new[n]) \in 0 .. B
      /\ new[n] = Piece(stream, 1)
  <2>1. new[n] = Piece(stream, 1) /\ 1 \in 1 .. full + 1
    <3>1. new[n] = Piece(stream, n - n + 1)
      BY ONLY <1>4, <1>5
    <3>2. QED
      BY ONLY <1>4, <3>1
  <2>2. Len(Piece(stream, 1)) \in 0 .. B
    BY ONLY <1>4, <1>26, <2>1
  <2>3. full = 0 => Len(Piece(stream, 1)) = Len(stream)
    <3> SUFFICES ASSUME full = 0 PROVE Len(Piece(stream, 1)) = Len(stream)
      OBVIOUS
    <3>1. 1 = full + 1 /\ full * B = 0
      BY <1>1
    <3>2. full * B + Len(Piece(stream, 1)) = Len(stream)
      BY ONLY <1>25, <2>1, <3>1
    <3>3. QED
      BY <1>1, <2>2, <3>1, <3>2
  <2>4. full # 0 => Len(Piece(stream, 1)) = B
    <3> SUFFICES ASSUME full # 0 PROVE Len(Piece(stream, 1)) = B
      OBVIOUS
    <3>1. 1 <= full
      BY ONLY <1>4, full # 0
    <3>2. QED
      BY ONLY <1>1, <1>4, <1>26, <2>1, <3>1
  <2>5. QED
    BY <2>1, <2>2, <2>3, <2>4
<1>8. /\ \A i, k : <<i, k>> \in Places(old) <=> i \in 1 .. n /\ k \in 1 .. Len(old[i])
      /\ \A i, k : <<i, k>> \in Places(new) <=> i \in 1 .. n + full /\ k \in 1 .. Len(new[i])
      /\ \A x \in Places(old) : /\ x = <<x[1], x[2]>> /\ x[1] \in 1 .. n
                                /\ x[2] \in 1 .. Len(old[x[1]])
      /\ \A x \in Places(new) : /\ x = <<x[1], x[2]>> /\ x[1] \in 1 .. n + full
                                /\ x[2] \in 1 .. Len(new[x[1]])
  <2>1. old \in Seq(Seq(Byte)) /\ new \in Seq(Seq(Byte)) /\ Len(old) = n
    OBVIOUS
  <2>2. /\ \A i, k : <<i, k>> \in Places(old) <=> i \in 1 .. n /\ k \in 1 .. Len(old[i])
        /\ \A x \in Places(old) : /\ x = <<x[1], x[2]>> /\ x[1] \in 1 .. n
                                  /\ x[2] \in 1 .. Len(old[x[1]])
    BY ONLY <2>1, PlacesAre
  <2>3. /\ \A i, k : <<i, k>> \in Places(new) <=> i \in 1 .. n + full /\ k \in 1 .. Len(new[i])
        /\ \A x \in Places(new) : /\ x = <<x[1], x[2]>> /\ x[1] \in 1 .. n + full
                                  /\ x[2] \in 1 .. Len(new[x[1]])
    BY ONLY <1>29, <2>1, PlacesAre
  <2>4. QED
    BY <2>2, <2>3
<1>9. /\ l <= Len(new[n]) /\ Len(new[n]) \in 0 .. B
      /\ \A k \in 1 .. l : new[n][k] = old[n][k]
  <2>1. l <= Len(new[n]) /\ Len(new[n]) \in 0 .. B
    BY <1>1, <1>3, <1>7
  <2>2. ASSUME NEW k \in 1 .. l PROVE new[n][k] = old[n][k]
    <3>1. k \in 1 .. Len(Piece(stream, 1)) /\ k \in Int
      <4> HIDE DEF l, B
      <4>1. QED
        BY <1>1, <1>7, <2>1
    <3>2. Piece(stream, 1)[k] = stream[Pos(1, k)]
      BY <1>4, <1>27, <3>1
    <3>3. Pos(1, k) = k
      BY <1>6, <3>1
    <3>4. QED
      BY <1>3, <1>7, <3>2, <3>3
  <2>3. QED
    BY <2>1, <2>2
<1>10. /\ Places(old) \subseteq Places(new)
       /\ \A x \in Places(old) : At(new, x) = At(old, x)
  <2> SUFFICES ASSUME NEW x \in Places(old)
               PROVE  x \in Places(new) /\ At(new, x) = At(old, x)
    OBVIOUS
  <2>1. x = <<x[1], x[2]>> /\ x[1] \in 1 .. n /\ x[2] \in 1 .. Len(old[x[1]])
    BY <1>8
  <2>2. CASE x[1] = n
    <3>1. x[2] \in 1 .. l /\ x[2] \in 1 .. Len(new[n]) /\ n \in 1 .. n + full
      BY <1>1, <1>4, <1>9, <2>1, <2>2, SMTT(30)
    <3>2. <<x[1], x[2]>> \in Places(new)
      BY <1>8, <2>2, <3>1
    <3>3. new[n][x[2]] = old[n][x[2]]
      BY <1>9, <3>1
    <3>4. QED
      BY <2>1, <2>2, <3>2, <3>3 DEF At
  <2>3. CASE x[1] # n
    <3>1. x[1] \in 1 .. n - 1 /\ x[1] \in 1 .. n + full
      BY <1>4, <2>1, <2>3, SMTT(30)
    <3>2. new[x[1]] = old[x[1]]
      BY <3>1
    <3>3. <<x[1], x[2]>> \in Places(new)
      BY <1>8, <2>1, <3>1, <3>2
    <3>4. QED
      BY <2>1, <3>2, <3>3 DEF At
  <2>4. QED
    BY <2>2, <2>3
<1>11. ASSUME NEW x \in fresh
       PROVE  /\ x = <<x[1], x[2]>> /\ x[1] \in n .. n + full /\ x[2] \in 1 .. Len(new[x[1]])
              /\ x[1] = n => x[2] > l
              /\ x[1] - n + 1 \in 1 .. full + 1 /\ x[2] \in 1 .. B
  <2>1. x = <<x[1], x[2]>> /\ x[1] \in 1 .. n + full /\ x[2] \in 1 .. Len(new[x[1]])
    BY <1>8
  <2>2. x[1] \in n .. n + full
    <3> SUFFICES ASSUME x[1] < n PROVE FALSE
      BY <1>4, <2>1
    <3>1. x[1] \in 1 .. n - 1 /\ x[1] \in 1 .. n
      BY <2>1, SMTT(30)
    <3>2. new[x[1]] = old[x[1]]
      BY <3>1
    <3>3. <<x[1], x[2]>> \in Places(old)
      BY <1>8, <2>1, <3>1, <3>2
    <3>4. QED
      BY <2>1, <3>3
  <2>3. ASSUME x[1] = n PROVE x[2] > l
    <3> SUFFICES ASSUME x[2] <= l PROVE FALSE
      BY <1>1, <1>9, <2>1, <2>3
    <3>1. x[2] \in 1 .. Len(old[n])
      BY <1>1, <1>9, <2>1, <2>3
    <3>2. <<n, x[2]>> \in Places(old)
      BY <1>1, <1>8, <3>1
    <3>3. QED
      BY <2>1, <2>3, <3>2
  <2>4. x[1] - n + 1 \in 1 .. full + 1 /\ x[2] \in 1 .. B
    <3>1. x[1] - n + 1 \in 1 .. full + 1 /\ new[x[1]] = Piece(stream, x[1] - n + 1)
      BY <1>5, <2>2
    <3>2. Len(new[x[1]]) \in 0 .. B
      BY ONLY <1>1, <1>4, <1>26, <3>1
    <3>3. QED
      BY <1>1, <2>1, <3>1, <3>2, SMTT(30)
  <2>5. QED
    BY <2>1, <2>2, <2>3, <2>4
<1>12. \A i \in n .. n + full : \A k \in 1 .. Len(new[i]) :
         i > n \/ k > l => <<i, k>> \in fresh
  <2> SUFFICES ASSUME NEW i \in n .. n + full, NEW k \in 1 .. Len(new[i]), i > n \/ k > l
               PROVE  <<i, k>> \in fresh
    OBVIOUS
  <2>1. <<i, k>> \in Places(new)
    <3>1. i \in 1 .. n + full
      OBVIOUS
    <3>2. QED
      BY <1>8, <3>1
  <2>2. <<i, k>> \notin Places(old)
    <3> SUFFICES ASSUME <<i, k>> \in Places(old) PROVE FALSE
      OBVIOUS
    <3>1. i \in 1 .. n /\ k \in 1 .. Len(old[i])
      BY <1>8
    <3>2. i = n /\ k \in 1 .. l
      BY <3>1
    <3>3. QED
      BY <1>1, <3>2
  <2>3. QED
    BY <2>1, <2>2
<1> HIDE DEF fresh, l, B
<1>13. ASSUME NEW x \in fresh
       PROVE  /\ P(x) \in 1 .. Len(stream) /\ P(x) - l \in 1 .. Len(bytes)
               /\ At(new, x) = bytes[P(x) - l]
              /\ x[1] = n => P(x) = x[2]
              /\ x[1] # n => P(x) > B
  <2>1. /\ x[1] \in n .. n + full /\ x[2] \in 1 .. Len(new[x[1]])
        /\ x[1] = n => x[2] > l
        /\ x[1] - n + 1 \in 1 .. full + 1 /\ x[2] \in 1 .. B
    BY <1>11
  <2>2. /\ P(x) \in 1 .. Len(stream) /\ new[x[1]] = Piece(stream, x[1] - n + 1)
        /\ new[x[1]][x[2]] = stream[P(x)]
    <3>1. new[x[1]] = Piece(stream, x[1] - n + 1)
      BY <1>5, <2>1
    <3>2. QED
      BY ONLY <1>27, <2>1, <3>1
  <2>3. x[1] = n => P(x) = x[2]
    <3> SUFFICES ASSUME x[1] = n PROVE P(x) = x[2]
      OBVIOUS
    <3>1. x[1] - n + 1 = 1 /\ x[2] \in Int
      BY <2>1
    <3>2. QED
      BY <1>6, <3>1
  <2>4. x[1] # n => P(x) > B
    <3> SUFFICES ASSUME x[1] # n PROVE P(x) > B
      OBVIOUS
    <3> DEFINE i == x[1] - n + 1
    <3>0. x[1] \in n .. n + full /\ x[1] # n
      BY <2>1
    <3>1. 1 < i /\ i \in Nat \ {0} /\ 1 \in Nat \ {0} /\ B \in 1 .. B
      <4>1. x[1] \in Int /\ x[1] > n
        BY ONLY <1>1, <1>4, <3>0
      <4>2. 1 < i /\ i \in Nat \ {0}
        BY ONLY <1>4, <4>1
      <4>3. B \in 1 .. B
        BY ONLY <1>1
      <4>4. QED
        BY ONLY <4>2, <4>3
    <3>5. x[2] \in 1 .. B /\ P(x) = Pos(i, x[2])
      BY <2>1
    <3> HIDE DEF i, P
    <3>2. Pos(1, B) < Pos(i, x[2])
      <4> DEFINE k == x[2]
                 b == BufferSize
      <4>1. 1 < i /\ i \in Nat \ {0} /\ 1 \in Nat \ {0} /\ b \in 1 .. BufferSize /\ k \in 1 .. BufferSize
        BY ONLY <3>1, <3>5 DEF B
      <4> HIDE DEF k, b
      <4>2. Pos(1, b) < Pos(i, k)
        BY ONLY <4>1, CutInOrder
      <4>3. QED
        BY <4>2 DEF b, k, B
    <3>3. Pos(1, B) = B
      BY <1>1, <1>6
    <3>6. P(x) \in Int
      BY <2>2
    <3>4. QED
      BY ONLY <3>2, <3>3, <3>5
  <2>5. P(x) > l
    <3> DEFINE p == P(x)
    <3>1. p \in Int /\ (x[1] = n => p = x[2] /\ x[2] > l) /\ (x[1] # n => p > B)
      BY <2>1, <2>2, <2>3, <2>4
    <3> HIDE DEF p
    <3>2. p > l
      BY ONLY <1>1, <3>1
    <3>3. QED
      BY <3>2 DEF p
  <2> DEFINE p == P(x)
  <2>6. p \in 1 .. Len(stream) /\ p > l
    BY <2>2, <2>5
  <2> HIDE DEF p
  <2>7. p - l \in 1 .. Len(bytes) /\ l + (p - l) = p
    BY <1>1, <1>3, <2>6
  <2>8. stream[p] = bytes[p - l]
    BY <1>3, <2>7
  <2>9. QED
    BY <2>2, <2>3, <2>4, <2>7, <2>8 DEF p, At
<1>14. ASSUME NEW x \in fresh, NEW y \in fresh, Before(x, y) PROVE P(x) < P(y)
  <2> DEFINE i == x[1] - n + 1
             j == y[1] - n + 1
  <2>1. /\ x[1] \in n .. n + full /\ x[2] \in 1 .. B
        /\ y[1] \in n .. n + full /\ y[2] \in 1 .. B
    BY <1>11
  <2>2. i \in Nat \ {0} /\ j \in Nat \ {0} /\ (i < j <=> x[1] < y[1]) /\ (i = j <=> x[1] = y[1])
    <3> DEFINE a == x[1]
               b == y[1]
    <3>1. a \in n .. n + full /\ b \in n .. n + full /\ i = a - n + 1 /\ j = b - n + 1
      BY <2>1
    <3> HIDE DEF a, b, i, j
    <3>2. i \in Nat \ {0} /\ j \in Nat \ {0} /\ (i < j <=> a < b) /\ (i = j <=> a = b)
      BY ONLY <1>4, <3>1
    <3>3. QED
      BY ONLY <3>2 DEF a, b
  <2>3. P(x) = Pos(i, x[2]) /\ P(y) = Pos(j, y[2])
    OBVIOUS
  <2> HIDE DEF i, j, P
  <2>4. i < j \/ (i = j /\ x[2] < y[2])
    <3>1. x[1] < y[1] \/ (x[1] = y[1] /\ x[2] < y[2])
      BY ONLY <1>14 DEF Before
    <3>2. QED
      BY ONLY <2>2, <3>1
  <2>5. Pos(i, x[2]) < Pos(j, y[2])
    <3> DEFINE k == x[2]
               h == y[2]
    <3>1. /\ i \in Nat \ {0} /\ j \in Nat \ {0} /\ k \in 1 .. BufferSize /\ h \in 1 .. BufferSize
          /\ i < j \/ (i = j /\ k < h)
      BY ONLY <2>1, <2>2, <2>4 DEF B
    <3> HIDE DEF k, h
    <3>2. Pos(i, k) < Pos(j, h)
      BY ONLY <3>1, CutInOrder
    <3>3. QED
      BY ONLY <3>2 DEF k, h
  <2>6. QED
    BY <2>3, <2>5
<1>15. ASSUME NEW p \in 1 .. Len(bytes) PROVE \E x \in fresh : P(x) - l = p
  <2>1. l + p \in 1 .. Len(stream)
    BY <1>1, <1>3
  <2>2. PICK i \in 1 .. full + 1 : \E k \in 1 .. Len(Piece(stream, i)) : Pos(i, k) = l + p
    BY <1>28, <2>1
  <2>3. PICK k \in 1 .. Len(Piece(stream, i)) : Pos(i, k) = l + p
    BY <2>2
  <2> DEFINE h == n + i - 1
  <2>4. h \in n .. n + full /\ h - n + 1 = i /\ (i # 1 => h > n) /\ (h = n => i = 1)
    BY <1>4
  <2>5. new[h] = Piece(stream, i)
    BY <1>29
  <2>6. h > n \/ k > l
    <3>1. CASE i = 1
      <4>1. k \in Int
        OBVIOUS
      <4>2. k = l + p
        BY <1>6, <2>3, <3>1, <4>1
      <4>3. QED
        BY <1>1, <4>2
    <3>2. QED
      BY <2>4, <3>1
  <2> HIDE DEF h
  <2>7. <<h, k>> \in fresh
    BY <1>12, <2>4, <2>5, <2>6
  <2>8. P(<<h, k>>) - l = p
    <3>1. P(<<h, k>>) = l + p
      BY <2>3, <2>4
    <3>2. QED
      BY <1>1, <3>1
  <2>9. QED
    BY <2>7, <2>8
<1>16. ASSUME row.variable
       PROVE  \E x \in fresh : {y \in fresh : P(y) - l \in 1 .. LengthSize} =
                               {x[1]} \X (x[2] .. x[2] + LengthSize - 1)
  <2>1. l + LengthSize <= B /\ l + LengthSize <= Len(new[n]) /\ Len(new[n]) \in 0 .. B
    BY <1>1, <1>2, <1>3, <1>7, <1>9, <1>16 DEF l, B
  <2>2. ASSUME NEW k \in l + 1 .. l + LengthSize PROVE <<n, k>> \in fresh /\ P(<<n, k>>) = k
    <3>0. k \in l + 1 .. l + LengthSize
      OBVIOUS
    <3>1. n \in n .. n + full /\ k \in 1 .. Len(new[n]) /\ k > l /\ k \in Int
      BY ONLY <1>1, <1>4, <2>1, <3>0
    <3>2. <<n, k>> \in fresh
      BY <1>12, <3>1
    <3>3. P(<<n, k>>) = k
      <4>1. <<n, k>>[1] = n /\ <<n, k>>[2] = k
        OBVIOUS
      <4>2. QED
        BY <1>13, <3>2, <4>1
    <3>4. QED
      BY <3>2, <3>3
  <2>3. ASSUME NEW y \in fresh, P(y) - l \in 1 .. LengthSize
        PROVE  y[1] = n /\ y[2] \in l + 1 .. l + LengthSize /\ y = <<y[1], y[2]>>
    <3> DEFINE p == P(y)
    <3>1. /\ p - l \in 1 .. Len(bytes) /\ p - l \in 1 .. LengthSize
          /\ y[1] = n => p = y[2]
          /\ y[1] # n => p > B
      BY <1>13, <2>3
    <3>2. y[2] \in Nat /\ y = <<y[1], y[2]>> /\ y[1] \in n .. n + full
      <4>1. y[2] \in 1 .. B /\ y = <<y[1], y[2]>> /\ y[1] \in n .. n + full
        BY <1>11
      <4>2. QED
        BY <1>1, <4>1
    <3>4. p \in Int
      <4>1. P(y) \in 1 .. Len(stream)
        BY <1>13
      <4>2. QED
        BY <4>1
    <3> HIDE DEF p
    <3>5. p <= B
      BY <1>1, <2>1, <3>1, <3>4
    <3>6. y[1] = n /\ p = y[2]
      BY <1>1, <3>1, <3>4, <3>5
    <3>7. p \in l + 1 .. l + LengthSize
      BY <1>1, <3>1, <3>4
    <3>8. QED
      BY <3>2, <3>6, <3>7
  <2> DEFINE S == {y \in fresh : P(y) - l \in 1 .. LengthSize}
  <2>4. \A y \in S : y \in {n} \X (l + 1 .. l + LengthSize)
    BY <2>3
  <2>5. \A y \in {n} \X (l + 1 .. l + LengthSize) : y \in S
    <3> SUFFICES ASSUME NEW k \in l + 1 .. l + LengthSize PROVE <<n, k>> \in S
      OBVIOUS
    <3>1. <<n, k>> \in fresh /\ P(<<n, k>>) = k
      BY <2>2
    <3>2. k - l \in 1 .. LengthSize
      BY <1>1
    <3>3. QED
      BY <3>1, <3>2
  <2>6. S = {n} \X (l + 1 .. l + LengthSize)
    BY <2>4, <2>5
  <2> DEFINE x == <<n, l + 1>>
  <2>7. x \in fresh /\ x[1] = n /\ x[2] = l + 1
    <3>1. l + 1 \in l + 1 .. l + LengthSize
      BY <1>1
    <3>2. QED
      BY <2>2, <3>1
  <2>8. l + 1 + LengthSize - 1 = l + LengthSize
    BY <1>1
  <2>9. S = {x[1]} \X (x[2] .. x[2] + LengthSize - 1)
    BY <2>6, <2>7, <2>8
  <2> HIDE DEF x, S
  <2>10. \E z \in fresh : S = {z[1]} \X (z[2] .. z[2] + LengthSize - 1)
    BY <2>7, <2>9
  <2>11. QED
    BY <2>10 DEF S
<1>17. \A x \in Places(old), y \in fresh : ~Before(y, x)
  <2> SUFFICES ASSUME NEW x \in Places(old), NEW y \in fresh, Before(y, x) PROVE FALSE
    OBVIOUS
  <2>1. x[1] \in 1 .. n /\ x[2] \in 1 .. Len(old[x[1]])
    BY <1>8
  <2>2. y[1] \in n .. n + full /\ (y[1] = n => y[2] > l) /\ y[2] \in 1 .. B
    BY <1>11
  <2>6. Before(y, x)
    OBVIOUS
  <2>3. x[1] = n /\ y[1] = n /\ y[2] < x[2]
    BY ONLY <1>4, <2>1, <2>2, <2>6, n \in Nat \ {0} DEF Before
  <2>4. x[2] \in 1 .. l
    BY <2>1, <2>3 DEF l
  <2>5. QED
    BY <1>1, <2>2, <2>3, <2>4
<1> DEFINE off == [x \in fresh |-> P(x) - l]
<1>18. off \in [fresh -> 1 .. Len(bytes)] /\ \A x \in fresh : off[x] = P(x) - l
  BY <1>13
<1>19. \A x, y \in fresh : Before(x, y) => off[x] < off[y]
  <2> SUFFICES ASSUME NEW x \in fresh, NEW y \in fresh, Before(x, y) PROVE off[x] < off[y]
    OBVIOUS
  <2> DEFINE a == P(x)
             b == P(y)
  <2>1. a < b /\ a \in Int /\ b \in Int /\ off[x] = a - l /\ off[y] = b - l
    <3>1. a \in 1 .. Len(stream) /\ b \in 1 .. Len(stream)
      BY <1>13
    <3>2. QED
      BY <1>14, <1>18, <3>1
  <2> HIDE DEF a, b, off
  <2>2. QED
    BY <1>1, <2>1
<1>20. \A x \in fresh : At(new, x) = bytes[off[x]]
  BY <1>13
<1>21. \A p \in 1 .. Len(bytes) : \E x \in fresh : off[x] = p
  BY <1>15
<1>22. row.variable => \E x \in fresh :
         {y \in fresh : off[y] \in 1 .. LengthSize} = {x[1]} \X (x[2] .. x[2] + LengthSize - 1)
  <2>1. {y \in fresh : off[y] \in 1 .. LengthSize} = {y \in fresh : P(y) - l \in 1 .. LengthSize}
    OBVIOUS
  <2> HIDE DEF off
  <2>2. QED
    BY <1>16, <2>1
<1>23. AddsRow(old, new, row)
  <2> HIDE DEF off, P, fresh
  <2>1. \E f \in [fresh -> 1 .. Len(bytes)] :
          /\ \A x \in fresh : At(new, x) = bytes[f[x]]
          /\ \A x, y \in fresh : Before(x, y) => f[x] < f[y]
          /\ \A p \in 1 .. Len(bytes) : \E x \in fresh : f[x] = p
          /\ row.variable => \E x \in fresh :
               {y \in fresh : f[y] \in 1 .. LengthSize} =
                 {x[1]} \X (x[2] .. x[2] + LengthSize - 1)
    BY ONLY <1>18, <1>19, <1>20, <1>21, <1>22
  <2>2. QED
    BY ONLY <1>10, <1>17, <2>1, Zenon DEF AddsRow, fresh, bytes
<1>24. QED
  BY <1>23, CarryMore

\* What is cut behind the bytes there are: metadata.
LEMMA MetaCut ==
  ASSUME NEW part \in Seq(Byte), Len(part) <= BufferSize, NEW m \in Nat,
         NEW meta \in Seq(Byte), meta = MetaBytes(0, m),
         NEW stream, stream = part \o meta, NEW n \in Nat,
         NEW q \in Seq(Seq(Byte)), Len(q) = n + FullBuffers(stream) + 1,
         \A i \in 1 .. n : q[i] = <<>>,
         q[n + 1] = SubSeq(Piece(stream, 1), Len(part) + 1, Len(Piece(stream, 1))),
         \A i \in 2 .. FullBuffers(stream) + 1 : q[n + i] = Piece(stream, i)
  PROVE  CarryMeta(q, meta)
<1> DEFINE u == Len(part)
           B == BufferSize
           full == FullBuffers(stream)
           first == Piece(stream, 1)
           l(i) == Len(Piece(stream, i))
           s(i) == IF i = 1 THEN u ELSE 0
<1>1. u \in 0 .. B /\ B \in Nat \ {0} /\ n \in Nat
  BY SizesAre
<1>2. Len(meta) = m /\ m \in Nat /\ \A p \in 1 .. m : meta[p] = <<"meta", p, 0>>
  <2> DEFINE g == [k \in 1 .. m |-> <<"meta", 0 + k, 0>>]
  <2>1. meta = g
    BY DEF MetaBytes
  <2>2. DOMAIN g = 1 .. m
    OBVIOUS
  <2>3. \A p \in 1 .. m : g[p] = <<"meta", p, 0>>
    <3>1. \A p \in 1 .. m : 0 + p = p
      OBVIOUS
    <3>2. QED
      BY <3>1
  <2> HIDE DEF g
  <2>4. DOMAIN meta = 1 .. m /\ \A p \in 1 .. m : meta[p] = <<"meta", p, 0>>
    BY <2>1, <2>2, <2>3
  <2>5. QED
    BY <2>4
<1>3. /\ stream \in Seq(Byte) /\ Len(stream) = u + m
      /\ \A p \in 1 .. m : stream[u + p] = meta[p]
  <2>1. /\ stream \in Seq(Byte) /\ Len(stream) = u + Len(meta)
        /\ \A p \in 1 .. u + Len(meta) : stream[p] = IF p <= u THEN part[p] ELSE meta[p - u]
    BY ConcatProperties
  <2> HIDE DEF u
  <2>2. ASSUME NEW p \in 1 .. m PROVE stream[u + p] = meta[p]
    <3>1. u + p \in 1 .. u + Len(meta) /\ ~(u + p <= u) /\ (u + p) - u = p
      BY <1>1, <1>2
    <3>2. stream[u + p] = meta[(u + p) - u]
      BY <2>1, <3>1
    <3>3. QED
      BY <3>1, <3>2
  <2>3. QED
    BY <1>2, <2>1, <2>2
<1>4. /\ full \in Nat
      /\ \A i \in 1 .. full + 1 :
           /\ l(i) \in 0 .. B
           /\ i <= full => l(i) = B
           /\ i = full + 1 => full * B + l(i) = Len(stream)
           /\ \A k \in 1 .. l(i) :
                Pos(i, k) \in 1 .. Len(stream) /\ Piece(stream, i)[k] = stream[Pos(i, k)]
      /\ \A p \in 1 .. Len(stream) : \E i \in 1 .. full + 1 : \E k \in 1 .. l(i) : Pos(i, k) = p
  <2>1. stream \in Seq(Byte)
    BY <1>3
  <2>2. QED
    BY ONLY <2>1, Cut
<1>5. full \in Nat /\ 1 \in 1 .. full + 1 /\ full + 1 \in Nat
  <2>1. full \in Nat
    BY <1>4
  <2> HIDE DEF full
  <2>2. QED
    BY <2>1
<1>6. /\ Len(q) = n + full + 1 /\ (\A i \in 1 .. n : q[i] = <<>>)
      /\ q[n + 1] = SubSeq(first, u + 1, l(1))
      /\ \A i \in 2 .. full + 1 : q[n + i] = Piece(stream, i)
  OBVIOUS
<1>20. first \in Seq(Byte) /\ l(1) = Len(first)
  <2>1. stream \in Seq(Byte) /\ 1 \in Nat \ {0}
    BY <1>3
  <2>2. Piece(stream, 1) \in Seq(Byte)
    BY ONLY <2>1, PieceIs
  <2>3. QED
    BY <2>2
<1>40. meta \in Seq(Byte) /\ q \in Seq(Seq(Byte))
  OBVIOUS
<1> HIDE DEF u, B, full
<1>7. l(1) \in u .. B
  <2>1. l(1) \in 0 .. B
    BY ONLY <1>4, <1>5
  <2>2. CASE full = 0
    <3>1. 1 = full + 1 /\ full * B = 0
      BY ONLY <1>1, <2>2
    <3>2. full * B + l(1) = Len(stream)
      BY ONLY <1>4, <1>5, <3>1
    <3> DEFINE d == l(1)
    <3>3. 0 + d = u + m /\ d \in 0 .. B
      BY ONLY <1>3, <2>1, <3>1, <3>2
    <3> HIDE DEF d
    <3>4. d \in u .. B
      BY ONLY <1>1, <1>2, <3>3
    <3>5. QED
      BY <3>4 DEF d
  <2>3. CASE full # 0
    <3>1. 1 <= full
      BY ONLY <1>5, <2>3
    <3>2. l(1) = B
      BY ONLY <1>4, <1>5, <3>1
    <3>3. QED
      BY ONLY <1>1, <3>2
  <2>4. QED
    BY <2>2, <2>3
<1>8. Len(q[n + 1]) = l(1) - u /\ \A k \in 1 .. l(1) - u : q[n + 1][k] = first[u + k]
  <2> DEFINE d == l(1)
  <2>1. d \in Nat /\ u \in Nat /\ u <= d /\ d = Len(first) /\ first \in Seq(Byte)
        /\ q[n + 1] = SubSeq(first, u + 1, d)
    BY ONLY <1>1, <1>6, <1>7, <1>20
  <2> HIDE DEF d, first
  <2>2. Len(SubSeq(first, u + 1, d)) = d - u
    BY ONLY <2>1
  <2>3. ASSUME NEW k \in 1 .. d - u PROVE SubSeq(first, u + 1, d)[k] = first[u + k]
    BY ONLY <2>1, k \in 1 .. d - u
  <2>4. Len(q[n + 1]) = d - u /\ \A k \in 1 .. d - u : q[n + 1][k] = first[u + k]
    BY ONLY <2>1, <2>2, <2>3
  <2>5. QED
    BY <2>4 DEF d
\* The places of q, and where their bytes stand in the stream.
<1>9. ASSUME NEW i \in 1 .. full + 1
      PROVE  /\ Len(q[n + i]) = l(i) - s(i) /\ s(i) \in 0 .. u /\ l(i) \in s(i) .. B
             /\ \A k \in 1 .. l(i) - s(i) : q[n + i][k] = Piece(stream, i)[s(i) + k]
  <2>1. CASE i = 1
    BY ONLY <1>1, <1>7, <1>8, <2>1 DEF first
  <2>2. CASE i # 1
    <3>1. i \in 2 .. full + 1
      BY ONLY <1>5, <2>2, i \in 1 .. full + 1
    <3>2. q[n + i] = Piece(stream, i) /\ s(i) = 0
      BY ONLY <1>6, <2>2, <3>1
    <3>3. l(i) \in 0 .. B
      BY ONLY <1>4, <3>1, i \in 1 .. full + 1
    <3>4. \A k \in 1 .. l(i) - 0 : 0 + k = k
      BY ONLY <1>1, <3>3
    <3> DEFINE d == l(i)
               c == Piece(stream, i)
    <3>5. d \in 0 .. B /\ Len(q[n + i]) = d /\ q[n + i] = c /\ s(i) = 0
      BY ONLY <3>2, <3>3
    <3> HIDE DEF d, c, s
    <3>6. /\ Len(q[n + i]) = d - s(i) /\ s(i) \in 0 .. u /\ d \in s(i) .. B
          /\ \A k \in 1 .. d - s(i) : q[n + i][k] = c[s(i) + k]
      BY ONLY <1>1, <3>5
    <3>7. QED
      BY ONLY <3>6 DEF d, c
  <2>3. QED
    BY <2>1, <2>2
<1>10. ASSUME NEW x \in Places(q)
       PROVE  /\ x[1] - n \in 1 .. full + 1 /\ x[2] \in 1 .. l(x[1] - n) - s(x[1] - n)
              /\ x[1] = n + (x[1] - n)
  <2>1. x[1] \in 1 .. Len(q) /\ x[2] \in 1 .. Len(q[x[1]])
    BY ONLY <1>40, PlacesAre, x \in Places(q)
  <2>2. x[1] \in 1 .. n + full + 1
    BY ONLY <1>6, <2>1
  <2> DEFINE a == x[1]
             i == a - n
  <2>3. a > n
    <3> SUFFICES ASSUME ~(a > n) PROVE FALSE
      OBVIOUS
    <3>1. a \in 1 .. n
      BY ONLY <1>1, <1>5, <2>2, ~(a > n)
    <3>2. q[a] = <<>> /\ x[2] \in 1 .. Len(q[a])
      BY ONLY <1>6, <2>1, <3>1
    <3>3. x[2] \in 1 .. 0
      BY ONLY <3>2
    <3>4. QED
      BY ONLY <3>3
  <2>4. a \in 1 .. n + full + 1
    BY <2>2
  <2>5. x[2] \in 1 .. Len(q[a])
    BY <2>1
  <2> HIDE DEF a
  <2>6. i \in 1 .. full + 1 /\ n + i = a
    BY ONLY <1>1, <1>5, <2>3, <2>4
  <2>7. Len(q[n + i]) = l(i) - s(i)
    BY ONLY <1>9, <2>6
  <2>8. x[2] \in 1 .. l(i) - s(i)
    BY ONLY <2>5, <2>6, <2>7
  <2>9. QED
    BY ONLY <2>6, <2>8 DEF a
<1> DEFINE S(x) == Pos(x[1] - n, s(x[1] - n) + x[2])
<1>11. ASSUME NEW x \in Places(q)
       PROVE  S(x) - u \in 1 .. m /\ At(q, x) = meta[S(x) - u] /\ S(x) \in Int
  <2> DEFINE i == x[1] - n
             k == s(i) + x[2]
             p == S(x)
             d == l(i)
  <2>1. i \in 1 .. full + 1 /\ x[2] \in 1 .. d - s(i) /\ x[1] = n + i
    BY <1>10
  <2>2. /\ s(i) \in 0 .. u /\ d \in s(i) .. B
        /\ \A j \in 1 .. d - s(i) : q[n + i][j] = Piece(stream, i)[s(i) + j]
    <3> HIDE DEF i
    <3>1. QED
      BY ONLY <1>9, <2>1
  <2>3. k \in 1 .. d /\ k \in 1 .. B /\ q[x[1]][x[2]] = Piece(stream, i)[k]
    <3> DEFINE z == s(i)
               y == x[2]
    <3>1. z \in 0 .. u /\ d \in z .. B /\ y \in 1 .. d - z /\ k = z + y
      BY ONLY <2>1, <2>2
    <3> HIDE DEF z, y, d, k
    <3>2. k \in 1 .. d /\ k \in 1 .. B
      BY ONLY <1>1, <3>1
    <3>3. QED
      BY ONLY <2>1, <2>2, <3>2 DEF k
  <2> HIDE DEF i, d, k
  <2>4. p = Pos(i, k)
    BY DEF i, k
  <2>5. p \in 1 .. Len(stream) /\ Piece(stream, i)[k] = stream[p]
    BY ONLY <1>4, <2>1, <2>3, <2>4 DEF d
  <2> HIDE DEF p
  <2>6. p > u
    <3>1. CASE i = 1
      <4>1. k = u + x[2]
        BY <3>1 DEF k
      <4>2. p = 0 * B + k
        BY ONLY <2>4, <3>1 DEF Pos, B
      <4>3. x[2] \in 1 .. d - s(i) /\ k \in 1 .. B
        BY <2>1, <2>3
      <4>5. s(i) = u /\ d \in u .. B
        BY <2>2, <3>1
      <4> DEFINE y == x[2]
      <4>4. p = k /\ k = u + y /\ y \in 1 .. d - u /\ d \in u .. B
        BY ONLY <1>1, <4>1, <4>2, <4>3, <4>5
      <4> HIDE DEF y
      <4>6. QED
        BY ONLY <1>1, <4>4
    <3>2. CASE i # 1
      <4>1. 1 < i /\ i \in Nat \ {0} /\ 1 \in Nat \ {0} /\ B \in 1 .. B
        BY ONLY <1>1, <1>5, <2>1, <3>2
      <4>2. Pos(1, B) < Pos(i, k)
        BY ONLY <2>3, <4>1, CutInOrder DEF B
      <4>3. Pos(1, B) = B
        BY ONLY <1>1 DEF Pos, B
      <4>4. QED
        BY ONLY <1>1, <2>4, <2>5, <4>2, <4>3
    <3>3. QED
      BY <3>1, <3>2
  <2>7. p - u \in 1 .. m /\ u + (p - u) = p /\ p \in Int
    BY ONLY <1>1, <1>2, <1>3, <2>5, <2>6
  <2>8. stream[p] = meta[p - u]
    BY ONLY <1>3, <2>7
  <2>9. At(q, x) = meta[p - u]
    BY ONLY <2>3, <2>5, <2>8 DEF At
  <2>10. QED
    BY ONLY <2>7, <2>9 DEF p
<1>12. ASSUME NEW x \in Places(q), NEW y \in Places(q), Before(x, y)
       PROVE  S(x) < S(y)
  <2> DEFINE i == x[1] - n
             j == y[1] - n
             k == s(i) + x[2]
             h == s(j) + y[2]
  <2>1. /\ i \in 1 .. full + 1 /\ x[2] \in 1 .. l(i) - s(i) /\ x[1] = n + i
        /\ j \in 1 .. full + 1 /\ y[2] \in 1 .. l(j) - s(j) /\ y[1] = n + j
    BY <1>10
  <2>2. x[1] < y[1] \/ (x[1] = y[1] /\ x[2] < y[2])
    BY ONLY <1>12 DEF Before
  <2>3. S(x) = Pos(i, k) /\ S(y) = Pos(j, h)
    OBVIOUS
  <2>9. k = s(i) + x[2] /\ h = s(j) + y[2]
    OBVIOUS
  <2> HIDE DEF i, j, S, k, h
  <2>4. /\ s(i) \in 0 .. u /\ l(i) \in s(i) .. B /\ s(j) \in 0 .. u /\ l(j) \in s(j) .. B
    BY ONLY <1>9, <2>1
  <2>5. i \in Nat \ {0} /\ j \in Nat \ {0} /\ (x[1] < y[1] <=> i < j) /\ (x[1] = y[1] <=> i = j)
    BY ONLY <1>1, <1>5, <2>1
  <2>6. k \in 1 .. BufferSize /\ h \in 1 .. BufferSize /\ (i = j /\ x[2] < y[2] => k < h)
    <3> DEFINE a == x[2]
               b == y[2]
               e == l(i)
               f == l(j)
               z == s(i)
               w == s(j)
    <3>1. /\ z \in 0 .. u /\ e \in z .. B /\ w \in 0 .. u /\ f \in w .. B
          /\ a \in 1 .. e - z /\ b \in 1 .. f - w /\ k = z + a /\ h = w + b /\ (i = j => z = w)
      BY ONLY <2>1, <2>4, <2>9
    <3> HIDE DEF a, b, e, f, z, w
    <3>2. k \in 1 .. B /\ h \in 1 .. B /\ (i = j /\ a < b => k < h)
      BY ONLY <1>1, <3>1
    <3>3. QED
      BY ONLY <3>2 DEF a, b, B
  <2>7. i < j \/ (i = j /\ k < h)
    BY ONLY <2>2, <2>5, <2>6
  <2>8. Pos(i, k) < Pos(j, h)
    BY ONLY <2>5, <2>6, <2>7, CutInOrder
  <2>10. QED
    BY ONLY <2>3, <2>8
<1>13. ASSUME NEW p \in 1 .. m PROVE \E x \in Places(q) : S(x) - u = p
  <2>1. u + p \in 1 .. Len(stream)
    BY ONLY <1>1, <1>2, <1>3, p \in 1 .. m
  <2>2. PICK i \in 1 .. full + 1 : \E k \in 1 .. l(i) : Pos(i, k) = u + p
    BY ONLY <1>4, <2>1
  <2>3. PICK k \in 1 .. l(i) : Pos(i, k) = u + p
    BY <2>2
  <2>4. Len(q[n + i]) = l(i) - s(i) /\ s(i) \in 0 .. u /\ l(i) \in s(i) .. B
    BY ONLY <1>9, <2>2
  <2>5. s(i) < k
    <3>1. CASE i = 1
      <4>1. k = u + p
        <5>1. (1 - 1) * BufferSize + k = u + p
          BY ONLY <2>3, <3>1 DEF Pos
        <5>2. k \in Int /\ BufferSize \in Nat
          BY <1>1 DEF B
        <5>3. QED
          BY ONLY <1>1, <5>1, <5>2, p \in 1 .. m
      <4>2. s(i) = u
        BY ONLY <3>1
      <4>3. QED
        BY ONLY <1>1, <4>1, <4>2, p \in 1 .. m
    <3>2. CASE i # 1
      BY ONLY <3>2, k \in 1 .. l(i)
    <3>3. QED
      BY <3>1, <3>2
  <2> DEFINE y == k - s(i)
             x == <<n + i, y>>
             d == l(i)
             z == s(i)
  <2>6. y \in 1 .. d - z /\ z + y = k /\ n + i - n = i /\ n + i \in 1 .. n + full + 1
    <3>1. z \in 0 .. u /\ d \in z .. B /\ z < k /\ k \in 1 .. d /\ y = k - z
      BY <2>4, <2>5
    <3>2. n + i - n = i /\ n + i \in 1 .. n + full + 1
      BY ONLY <1>1, <1>5, i \in 1 .. full + 1
    <3> HIDE DEF y, d, z
    <3>3. y \in 1 .. d - z /\ z + y = k
      BY ONLY <1>1, <3>1
    <3>4. QED
      BY <3>2, <3>3
  <2>7. x \in Places(q)
    <3>1. n + i \in 1 .. Len(q) /\ y \in 1 .. Len(q[n + i])
      BY ONLY <1>6, <2>4, <2>6
    <3> HIDE DEF y
    <3>2. QED
      BY ONLY <1>40, <3>1, PlacesAre
  <2>8. S(x) = u + p
    <3>1. x[1] - n = i /\ x[2] = y
      BY ONLY <2>6
    <3>2. S(x) = Pos(i, z + y)
      BY ONLY <3>1
    <3>3. QED
      BY ONLY <2>3, <2>6, <3>2
  <2>9. (u + p) - u = p
    BY ONLY <1>1, p \in 1 .. m
  <2> HIDE DEF x, S
  <2>10. QED
    BY ONLY <2>7, <2>8, <2>9
<1> HIDE DEF S
<1>14. {At(q, x) : x \in Places(q)} = Range(meta)
  <2>1. DOMAIN meta = 1 .. m
    BY ONLY <1>2, <1>40
  <2>2. Range(meta) = {meta[p] : p \in 1 .. m}
    BY ONLY <2>1 DEF Range
  <2>3. ASSUME NEW x \in Places(q) PROVE At(q, x) \in {meta[p] : p \in 1 .. m}
    BY ONLY <1>11, <2>3
  <2>4. ASSUME NEW p \in 1 .. m PROVE meta[p] \in {At(q, x) : x \in Places(q)}
    <3>1. PICK x \in Places(q) : S(x) - u = p
      BY ONLY <1>13, p \in 1 .. m
    <3>2. At(q, x) = meta[S(x) - u]
      BY ONLY <1>11, <3>1
    <3>3. QED
      BY ONLY <3>1, <3>2
  <2>5. QED
    BY ONLY <2>2, <2>3, <2>4
<1>15. InOrder(q, Places(q))
  <2> SUFFICES ASSUME NEW x \in Places(q), NEW y \in Places(q), Before(x, y)
               PROVE  After(At(q, x), At(q, y))
    BY DEF InOrder
  <2> DEFINE a == S(x) - u
             b == S(y) - u
  <2>1. a \in 1 .. m /\ b \in 1 .. m /\ At(q, x) = meta[a] /\ At(q, y) = meta[b]
    BY <1>11
  <2>2. a < b
    <3>1. S(x) < S(y) /\ S(x) \in Int /\ S(y) \in Int
      BY <1>11, <1>12
    <3>2. QED
      BY ONLY <1>1, <3>1
  <2> HIDE DEF a, b
  <2>3. At(q, x) = <<"meta", a, 0>> /\ At(q, y) = <<"meta", b, 0>>
    BY ONLY <1>2, <2>1
  <2>4. QED
    BY ONLY <2>2, <2>3 DEF After
<1>16. QED
  BY ONLY <1>14, <1>15 DEF CarryMeta

-----------------------------------------------------------------------------
(* What a packer carries.                                                   *)

\* Empty pieces behind the others carry nothing.
LEMMA CarryEmpty ==
  ASSUME NEW old \in Seq(Seq(Byte)), NEW new \in Seq(Seq(Byte)), NEW list,
         CarryRows(old, list), Len(old) <= Len(new),
         \A i \in 1 .. Len(old) : new[i] = old[i],
         \A i \in Len(old) + 1 .. Len(new) : new[i] = <<>>
  PROVE  CarryRows(new, list)
<1>1. /\ \A x \in Places(old) : /\ x = <<x[1], x[2]>> /\ x[1] \in 1 .. Len(old)
                                /\ x[2] \in 1 .. Len(old[x[1]])
      /\ \A x \in Places(new) : /\ x = <<x[1], x[2]>> /\ x[1] \in 1 .. Len(new)
                                /\ x[2] \in 1 .. Len(new[x[1]])
      /\ \A i, k : <<i, k>> \in Places(old) <=> i \in 1 .. Len(old) /\ k \in 1 .. Len(old[i])
      /\ \A i, k : <<i, k>> \in Places(new) <=> i \in 1 .. Len(new) /\ k \in 1 .. Len(new[i])
  BY PlacesAre
<1>2. Len(old) \in Nat /\ Len(new) \in Nat
  OBVIOUS
<1>3. ASSUME NEW x \in Places(old) PROVE x \in Places(new) /\ At(new, x) = At(old, x)
  <2> DEFINE i == x[1]
             k == x[2]
  <2>1. x = <<i, k>> /\ i \in 1 .. Len(old) /\ k \in 1 .. Len(old[i])
    BY <1>1
  <2>2. new[i] = old[i]
    BY <2>1
  <2>3. At(new, x) = At(old, x)
    BY <2>2 DEF At
  <2> HIDE DEF i, k
  <2>4. i \in 1 .. Len(new) /\ k \in 1 .. Len(new[i])
    BY <1>2, <2>1, <2>2
  <2>5. QED
    BY <1>1, <2>1, <2>3, <2>4
<1>4. ASSUME NEW x \in Places(new) PROVE x \in Places(old)
  <2> DEFINE i == x[1]
             k == x[2]
  <2>1. x = <<i, k>> /\ i \in 1 .. Len(new) /\ k \in 1 .. Len(new[i])
    BY <1>1
  <2> HIDE DEF i, k
  <2>2. i \in 1 .. Len(old)
    <3>1. CASE i \in Len(old) + 1 .. Len(new)
      <4>1. new[i] = <<>>
        BY <3>1
      <4>2. k \in 1 .. 0
        BY <2>1, <4>1
      <4>3. QED
        BY <4>2
    <3>2. CASE ~(i \in Len(old) + 1 .. Len(new))
      BY <1>2, <2>1, <3>2
    <3>3. QED
      BY <3>1, <3>2
  <2>3. new[i] = old[i]
    BY <2>2
  <2>4. QED
    BY <1>1, <2>1, <2>2, <2>3
<1>5. Places(new) = Places(old)
  BY <1>3, <1>4
<1>6. QED
  BY <1>3, <1>5, CarrySame

\* What a packer holds: the data of its packets and behind it part_buffer.
Pieces(pk) ==
  [i \in 1 .. Len(pk.packets) + 1 |->
     IF i <= Len(pk.packets) THEN pk.packets[i].data ELSE Allocated(pk).part]

LEMMA PiecesAre ==
  ASSUME NEW pk, Packing(pk)
  PROVE  LET n == Len(pk.packets)
         IN  /\ Pieces(pk) \in Seq(Seq(Byte)) /\ Len(Pieces(pk)) = n + 1 /\ n \in Nat
             /\ n + 1 \in Nat \ {0}
             /\ \A i \in 1 .. n : Pieces(pk)[i] = pk.packets[i].data
             /\ Pieces(pk)[n + 1] = Allocated(pk).part
             /\ Allocated(pk).part \in Seq(Byte)
             /\ Len(Allocated(pk).part) = Used(pk) /\ Used(pk) \in 0 .. BufferSize
<1> DEFINE n == Len(pk.packets)
           part == Allocated(pk).part
           f == [i \in 1 .. n + 1 |-> IF i <= n THEN pk.packets[i].data ELSE part]
<1>1. n \in Nat /\ pk.packets \in Seq(SomePacket) /\ Used(pk) \in 0 .. BufferSize
  BY PackingIs
<1>2. part \in Seq(Byte) /\ Used(Allocated(pk)) = Used(pk)
  BY AllocatedKeeps
<1>3. Len(part) = Used(pk)
  BY <1>2, SizesAre DEF Used
<1>4. \A i \in 1 .. n : pk.packets[i].data \in Seq(Byte)
  <2>1. \A i \in 1 .. n : pk.packets[i] \in SomePacket
    BY <1>1
  <2>2. QED
    BY <2>1 DEF SomePacket
<1>5. Pieces(pk) = f
  BY DEF Pieces
<1> HIDE DEF part
<1>6. f \in [1 .. n + 1 -> Seq(Byte)]
  <2> HIDE DEF n
  <2>1. \A i \in 1 .. n + 1 : i <= n => i \in 1 .. n
    BY <1>1
  <2>2. QED
    BY <1>2, <1>4, <2>1
<1>7. /\ \A i \in 1 .. n : f[i] = pk.packets[i].data
      /\ f[n + 1] = part /\ n + 1 \in Nat \ {0}
  <2>1. /\ \A i \in 1 .. n : i \in 1 .. n + 1 /\ i <= n
        /\ n + 1 \in 1 .. n + 1 /\ ~(n + 1 <= n) /\ n + 1 \in Nat \ {0}
    <3> HIDE DEF n
    <3>1. QED
      BY <1>1
  <2> HIDE DEF n
  <2>2. QED
    BY <2>1
<1> HIDE DEF f
<1>8. f \in Seq(Seq(Byte)) /\ Len(f) = n + 1
  <2> HIDE DEF n
  <2>1. QED
    BY <1>1, <1>6, <1>7
<1>9. QED
  BY <1>1, <1>2, <1>3, <1>5, <1>7, <1>8 DEF part

\* A packer that has been given these rows.
Carrying(pk, list) ==
  /\ Packing(pk) /\ CarryRows(Pieces(pk), list)
  /\ \A i \in DOMAIN pk.packets : pk.packets[i].meta = <<>>

LEMMA SameCarrying ==
  ASSUME NEW pk, NEW list, Carrying(pk, list), NEW new, Packing(new),
         new.packets = pk.packets, Allocated(new).part = Allocated(pk).part
  PROVE  Carrying(new, list)
<1>1. Pieces(new) = Pieces(pk)
  BY DEF Pieces
<1>2. QED
  BY <1>1 DEF Carrying

LEMMA AllocatedCarries ==
  ASSUME NEW pk, NEW list, Carrying(pk, list)
  PROVE  Carrying(Allocated(pk), list)
<1>1. Packing(pk)
  BY DEF Carrying
<1> DEFINE new == Allocated(pk)
<1>2. Packing(new) /\ new.part \in Seq(Byte) /\ new.packets = pk.packets
  BY <1>1, AllocatedKeeps
<1>3. Allocated(new).part = new.part
  <2> HIDE DEF new
  <2>1. new.part # NoBuffer
    BY <1>2, SizesAre
  <2>2. QED
    BY <2>1 DEF Allocated
<1> HIDE DEF new
<1>4. new = Allocated(pk)
  BY DEF new
<1>5. Carrying(new, list)
  BY <1>2, <1>3, <1>4, SameCarrying
<1>6. QED
  BY <1>4, <1>5

\* flush(false)
LEMMA FlushPartCarries ==
  ASSUME NEW pk, NEW list, Carrying(pk, list)
  PROVE  Carrying(FlushPart(pk), list)
<1> DEFINE n == Len(pk.packets)
           new == FlushPart(pk)
           none == <<>>
<1>1. /\ Packing(pk) /\ CarryRows(Pieces(pk), list) /\ Packing(new) /\ new.part = NoBuffer
      /\ \A i \in DOMAIN pk.packets : pk.packets[i].meta = none
  BY FlushPartKeeps DEF Carrying
<1>2. /\ pk \in Packers /\ pk.packets \in Seq(SomePacket) /\ n \in Nat
      /\ DOMAIN pk.packets = 1 .. n /\ pk.part \in Seq(Byte) \cup {NoBuffer}
  BY <1>1, PackingIs DEF Packing
<1>3. /\ Pieces(pk) \in Seq(Seq(Byte)) /\ Len(Pieces(pk)) = n + 1
      /\ \A i \in 1 .. n : Pieces(pk)[i] = pk.packets[i].data
      /\ Pieces(pk)[n + 1] = Allocated(pk).part /\ Len(Allocated(pk).part) = Used(pk)
      /\ Allocated(pk).part \in Seq(Byte)
  BY <1>1, PiecesAre
<1>4. Allocated(new).part = none
  <2>1. new \in Packers /\ new.part = NoBuffer
    BY <1>1 DEF Packing
  <2> HIDE DEF new
  <2>2. QED
    BY <2>1 DEF Allocated, Packers
<1>5. CASE Used(pk) = 0
  <2>1. new.packets = pk.packets
    BY <1>2, <1>5 DEF FlushPart, Packers
  <2>2. Allocated(pk).part = none
    BY <1>3, <1>5
  <2> HIDE DEF new
  <2>3. Allocated(new).part = Allocated(pk).part
    BY <1>4, <2>2
  <2>4. Carrying(new, list)
    BY <1>1, <2>1, <2>3, SameCarrying
  <2>5. QED
    BY <2>4 DEF new
<1>6. CASE Used(pk) # 0
  <2> DEFINE p == Packet(n, pk.part, <<>>, FALSE)
  <2>1. p \in SomePacket /\ p.data = pk.part /\ p.meta = none /\ pk.part \in Seq(Byte)
        /\ Allocated(pk).part = pk.part
    <3>1. pk.part \in Seq(Byte)
      BY <1>2, <1>6 DEF Used
    <3>2. <<>> \in Seq(Byte)
      OBVIOUS
    <3>3. p \in SomePacket /\ p.data = pk.part /\ p.meta = none
      BY <1>2, <3>1, <3>2 DEF Packet, SomePacket
    <3>4. pk.part # NoBuffer
      BY <3>1, SizesAre
    <3>5. Allocated(pk).part = pk.part
      BY <3>4 DEF Allocated
    <3>6. QED
      BY <3>1, <3>3, <3>5
  <2>2. new.packets = Append(pk.packets, p)
    BY <1>2, <1>6 DEF FlushPart, PutPackage, Packers
  <2> HIDE DEF p, n, new
  <2>3. /\ Len(new.packets) = n + 1 /\ DOMAIN new.packets = 1 .. n + 1
        /\ new.packets[n + 1] = p /\ \A i \in 1 .. n : new.packets[i] = pk.packets[i]
    BY <1>2, <2>1, <2>2, AppendProperties DEF n
  <2>4. /\ Pieces(new) \in Seq(Seq(Byte)) /\ Len(Pieces(new)) = Len(new.packets) + 1
        /\ \A i \in 1 .. Len(new.packets) : Pieces(new)[i] = new.packets[i].data
        /\ Pieces(new)[Len(new.packets) + 1] = Allocated(new).part
    BY <1>1, PiecesAre
  <2>5. /\ Len(Pieces(new)) = n + 2
        /\ \A i \in 1 .. n + 1 : Pieces(new)[i] = new.packets[i].data
        /\ Pieces(new)[n + 2] = none
    <3>1. Len(new.packets) + 1 = n + 2
      BY <1>2, <2>3
    <3>2. QED
      BY <1>4, <2>3, <2>4, <3>1
  <2>6. ASSUME NEW i \in 1 .. n + 1 PROVE Pieces(new)[i] = Pieces(pk)[i]
    <3>1. CASE i = n + 1
      BY <1>3, <2>1, <2>3, <2>5, <3>1
    <3>2. CASE i # n + 1
      <4>1. i \in 1 .. n
        BY <1>2, <3>2
      <4>2. QED
        BY <1>3, <2>3, <2>5, <4>1
    <3>3. QED
      BY <3>1, <3>2
  <2>7. CarryRows(Pieces(new), list)
    <3> DEFINE a == Pieces(pk)
               b == Pieces(new)
    <3>1. /\ a \in Seq(Seq(Byte)) /\ b \in Seq(Seq(Byte)) /\ CarryRows(a, list)
          /\ Len(a) = n + 1 /\ Len(b) = n + 2 /\ (\A i \in 1 .. n + 1 : b[i] = a[i])
          /\ b[n + 2] = <<>>
      BY <1>1, <1>3, <2>4, <2>5, <2>6
    <3> HIDE DEF a, b
    <3>2. /\ Len(a) <= Len(b) /\ \A i \in 1 .. Len(a) : b[i] = a[i]
          /\ \A i \in Len(a) + 1 .. Len(b) : b[i] = <<>>
      <4>1. \A i \in n + 2 .. n + 2 : i = n + 2
        BY <1>2
      <4>2. n + 1 <= n + 2 /\ n + 1 + 1 = n + 2
        BY <1>2
      <4>3. QED
        BY <3>1, <4>1, <4>2
    <3>3. CarryRows(b, list)
      BY <3>1, <3>2, CarryEmpty
    <3>4. QED
      BY <3>3 DEF b
  <2>8. ASSUME NEW i \in DOMAIN new.packets PROVE new.packets[i].meta = none
    <3>1. i \in 1 .. n \/ i = n + 1
      BY <1>2, <2>3
    <3>2. CASE i \in 1 .. n
      BY <1>1, <1>2, <2>3, <3>2
    <3>3. CASE i = n + 1
      BY <2>1, <2>3, <3>3
    <3>4. QED
      BY <3>1, <3>2, <3>3
  <2>9. QED
    BY <1>1, <2>7, <2>8 DEF Carrying, new
<1>7. QED
  BY <1>5, <1>6

\* getBuffer
LEMMA GetBufferCarries ==
  ASSUME NEW pk, NEW list, Carrying(pk, list), NEW row \in Rows
  PROVE  Carrying(GetBuffer(pk, row), list)
<1> DEFINE n == row.max + Len(Prefix(row))
           k == IF pk.part # NoBuffer /\ Room(pk) < n THEN FlushPart(pk) ELSE pk
<1>1. ASSUME NEW h, Carrying(h, list), NEW b \in BOOLEAN
      PROVE  Carrying([h EXCEPT !.packed_request = b], list)
  <2> DEFINE new == [h EXCEPT !.packed_request = b]
  <2>1. Packing(h) /\ h \in Packers
    BY <1>1 DEF Carrying, Packing
  <2>2. new \in Packers /\ new.part = h.part /\ new.packets = h.packets
    BY <2>1 DEF Packers
  <2>3. Packing(new)
    <3> HIDE DEF new
    <3>1. QED
      BY <2>1, <2>2 DEF Packing, Used
  <2>4. Allocated(new).part = Allocated(h).part
    <3>1. CASE h.part = NoBuffer
      <4>1. Allocated(h).part = <<>>
        BY <2>1, <3>1 DEF Allocated, Packers
      <4> HIDE DEF new
      <4>2. Allocated(new).part = <<>>
        BY <2>2, <3>1 DEF Allocated, Packers
      <4>3. QED
        BY <4>1, <4>2
    <3>2. CASE h.part # NoBuffer
      <4> HIDE DEF new
      <4>1. QED
        BY <2>2, <3>2 DEF Allocated
    <3>3. QED
      BY <3>1, <3>2
  <2> HIDE DEF new
  <2>5. Carrying(new, list)
    BY <1>1, <2>2, <2>3, <2>4, SameCarrying
  <2>6. QED
    BY <2>5 DEF new
<1>2. GetBuffer(pk, row) = IF BufferSize < n THEN [pk EXCEPT !.packed_request = FALSE]
                           ELSE [Allocated(k) EXCEPT !.packed_request = TRUE]
  BY DEF GetBuffer
<1>3. Carrying(k, list)
  <2>1. Carrying(FlushPart(pk), list)
    BY FlushPartCarries
  <2> HIDE DEF n
  <2>2. QED
    BY <2>1
<1> HIDE DEF k, n
<1>4. Carrying(Allocated(k), list)
  BY <1>3, AllocatedCarries
<1>5. QED
  BY <1>1, <1>2, <1>4

\* Rows written are numbered from 1.
Numbered(list) == list \in Seq(Rows) /\ \A j \in DOMAIN list : list[j].id = j

\* putBuffer: row by row, the buffers that come after part_buffer.
LEMMA PiecesRecut ==
  ASSUME NEW pk, NEW list, Carrying(pk, list), Numbered(list), NEW row \in Rows,
         row.id = Len(list) + 1, row.variable => Used(pk) + LengthSize <= BufferSize,
         NEW new, Packing(new),
         NEW stream, stream = Allocated(pk).part \o (Prefix(row) \o Content(row)),
         Len(new.packets) = Len(pk.packets) + FullBuffers(stream),
         \A i \in 1 .. Len(pk.packets) : new.packets[i] = pk.packets[i],
         \A i \in 1 .. FullBuffers(stream) :
           /\ new.packets[Len(pk.packets) + i].data = Piece(stream, i)
           /\ new.packets[Len(pk.packets) + i].meta = <<>>,
         Allocated(new).part = Piece(stream, FullBuffers(stream) + 1)
  PROVE  Carrying(new, Append(list, row))
<1> DEFINE n == Len(pk.packets)
           full == FullBuffers(stream)
           a == Pieces(pk)
           b == Pieces(new)
           none == <<>>
<1>1. /\ Packing(pk) /\ CarryRows(a, list)
      /\ \A i \in DOMAIN pk.packets : pk.packets[i].meta = none
  BY DEF Carrying
<1>2. /\ a \in Seq(Seq(Byte)) /\ Len(a) = n + 1 /\ n \in Nat /\ n + 1 \in Nat \ {0}
      /\ \A i \in 1 .. n : a[i] = pk.packets[i].data
      /\ a[n + 1] = Allocated(pk).part /\ Len(a[n + 1]) = Used(pk) /\ Used(pk) \in 0 .. BufferSize
      /\ DOMAIN pk.packets = 1 .. n /\ Allocated(pk).part \in Seq(Byte)
  BY <1>1, PiecesAre, PackingIs
<1>3. full \in Nat
  <2> DEFINE bytes == Prefix(row) \o Content(row)
             part == Allocated(pk).part
  <2>1. bytes \in Seq(Byte) /\ part \in Seq(Byte) /\ stream = part \o bytes
    BY <1>2, RowIs
  <2> HIDE DEF bytes, part
  <2>2. stream \in Seq(Byte)
    BY <2>1, ConcatProperties
  <2>3. QED
    BY <2>2, FullBuffersType
<1>4. /\ b \in Seq(Seq(Byte)) /\ Len(b) = Len(new.packets) + 1
      /\ \A i \in 1 .. Len(new.packets) : b[i] = new.packets[i].data
      /\ b[Len(new.packets) + 1] = Allocated(new).part /\ DOMAIN new.packets = 1 .. Len(new.packets)
  BY PiecesAre, PackingIs
<1>5. /\ Len(new.packets) = n + full
      /\ \A i \in 1 .. n : new.packets[i] = pk.packets[i]
      /\ \A i \in 1 .. full : /\ new.packets[n + i].data = Piece(stream, i)
                              /\ new.packets[n + i].meta = none
      /\ Allocated(new).part = Piece(stream, full + 1)
      /\ stream = a[n + 1] \o (Prefix(row) \o Content(row))
  BY <1>2
<1> HIDE DEF n, a, b, full
<1>6. Len(b) = (n + 1) + full
  BY <1>2, <1>3, <1>4, <1>5
<1>7. \A i \in 1 .. (n + 1) - 1 : b[i] = a[i]
  <2> SUFFICES ASSUME NEW i \in 1 .. (n + 1) - 1 PROVE b[i] = a[i]
    OBVIOUS
  <2>1. i \in 1 .. n /\ i \in 1 .. n + full
    BY <1>2, <1>3
  <2>2. b[i] = new.packets[i].data
    BY ONLY <1>4, <1>5, <2>1
  <2>3. new.packets[i] = pk.packets[i] /\ a[i] = pk.packets[i].data
    BY ONLY <1>2, <1>5, <2>1
  <2>4. QED
    BY ONLY <2>2, <2>3
<1>8. \A i \in 1 .. full + 1 : b[(n + 1) + i - 1] = Piece(stream, i)
  <2> SUFFICES ASSUME NEW i \in 1 .. full + 1 PROVE b[(n + 1) + i - 1] = Piece(stream, i)
    OBVIOUS
  <2>1. (n + 1) + i - 1 = n + i
    BY <1>2, <1>3
  <2>2. CASE i \in 1 .. full
    <3>1. n + i \in 1 .. n + full
      BY <1>2, <1>3, <2>2
    <3>2. b[n + i] = new.packets[n + i].data
      BY <1>4, <1>5, <3>1
    <3>3. QED
      BY <1>5, <2>1, <2>2, <3>2
  <2>3. CASE i = full + 1
    <3>1. n + i = Len(new.packets) + 1
      BY <1>2, <1>3, <1>5, <2>3
    <3>2. QED
      BY <1>4, <1>5, <2>1, <2>3, <3>1
  <2>4. QED
    BY <1>3, <2>2, <2>3
<1>9. /\ list \in Seq(Rows) /\ \A j \in DOMAIN list : list[j].id = j
      /\ Len(a[n + 1]) <= BufferSize
      /\ row.variable => Len(a[n + 1]) + LengthSize <= BufferSize
  BY <1>2, SizesAre DEF Numbered
<1>10. CarryRows(b, Append(list, row))
  <2> DEFINE z == n + 1
  <2>1. /\ z \in Nat \ {0} /\ Len(a) = z /\ Len(a[z]) <= BufferSize
        /\ stream = a[z] \o (Prefix(row) \o Content(row)) /\ Len(b) = z + FullBuffers(stream)
        /\ (\A i \in 1 .. z - 1 : b[i] = a[i])
        /\ (\A i \in 1 .. FullBuffers(stream) + 1 : b[z + i - 1] = Piece(stream, i))
        /\ (row.variable => Len(a[z]) + LengthSize <= BufferSize)
    BY <1>2, <1>5, <1>6, <1>7, <1>8, <1>9 DEF full
  <2>2. a \in Seq(Seq(Byte)) /\ b \in Seq(Seq(Byte)) /\ CarryRows(a, list)
    BY <1>1, <1>2, <1>4
  <2>3. row \in Rows /\ row.id = Len(list) + 1
    OBVIOUS
  <2> HIDE DEF z
  <2>4. QED
    BY ONLY <1>9, <2>1, <2>2, <2>3, Recut
<1>11. ASSUME NEW i \in DOMAIN new.packets PROVE new.packets[i].meta = none
  <2>1. i \in 1 .. n + full
    BY <1>4, <1>5
  <2>2. CASE i \in 1 .. n
    BY <1>1, <1>2, <1>5, <2>2
  <2>3. CASE ~(i \in 1 .. n)
    <3>1. i - n \in 1 .. full /\ n + (i - n) = i
      BY <1>2, <1>3, <2>1, <2>3
    <3>2. QED
      BY <1>5, <3>1
  <2>4. QED
    BY <2>2, <2>3
<1>12. QED
  BY <1>10, <1>11 DEF Carrying, b

\* The loop of putBuffer.
LEMMA PutChunksCarries ==
  ASSUME NEW pk, NEW list, Carrying(pk, list), Numbered(list), NEW row \in Rows,
         row.id = Len(list) + 1, row.variable => Used(pk) + LengthSize <= BufferSize
  PROVE  Carrying(PutChunks(pk, Prefix(row) \o Content(row)), Append(list, row))
<1> DEFINE bytes == Prefix(row) \o Content(row)
           n == Len(pk.packets)
           stream == Allocated(pk).part \o bytes
           full == FullBuffers(stream)
           f == [i \in 1 .. full |-> Packet(n + i - 1, Piece(stream, i), <<>>, FALSE)]
           part == Piece(stream, full + 1)
           more == pk.packets \o f
           new == PutChunks(pk, bytes)
<1>1. bytes \in Seq(Byte) /\ Packing(pk) /\ pk \in Packers
  BY RowIs DEF Carrying, Packing
<1>2. /\ pk.packets \in Seq(SomePacket) /\ n \in Nat /\ DOMAIN pk.packets = 1 .. n
      /\ Allocated(pk).part \in Seq(Byte) /\ Len(Allocated(pk).part) <= BufferSize
  BY <1>1, PiecesAre, PackingIs, SizesAre
<1>3. Packing(new)
  BY <1>1, PutChunksKeeps
<1>4. new = IF bytes = <<>> THEN pk ELSE [pk EXCEPT !.packets = more, !.part = part]
  BY DEF PutChunks
<1>5. stream = Allocated(pk).part \o bytes
  OBVIOUS
<1>17. bytes = Prefix(row) \o Content(row)
  OBVIOUS
<1> HIDE DEF bytes, new
<1>6. stream \in Seq(Byte) /\ full \in Nat
  <2>1. stream \in Seq(Byte)
    BY <1>1, <1>2, ConcatProperties
  <2> HIDE DEF stream
  <2>2. QED
    BY <2>1, FullBuffersType
<1>7. full = FullBuffers(stream)
  OBVIOUS
<1> HIDE DEF stream, n
<1>8. CASE bytes = <<>>
  <2> DEFINE p == Allocated(pk).part
  <2>1. p \in Seq(Byte) /\ Len(p) <= BufferSize /\ stream = p \o <<>>
    BY <1>2, <1>5, <1>8
  <2> HIDE DEF p
  <2>2. stream = p
    BY <2>1
  <2>3. full = 0 /\ Piece(stream, 1) = stream
    BY <1>6, <2>1, <2>2, NotCut
  <2>4. new = pk /\ Piece(stream, full + 1) = p
    BY <1>4, <1>8, <2>2, <2>3
  <2> HIDE DEF full
  <2>5. /\ Len(new.packets) = n + full
        /\ (\A i \in 1 .. n : new.packets[i] = pk.packets[i])
        /\ (\A i \in 1 .. full : /\ new.packets[n + i].data = Piece(stream, i)
                                 /\ new.packets[n + i].meta = <<>>)
        /\ Allocated(new).part = Piece(stream, full + 1)
    BY <1>2, <2>3, <2>4 DEF n, p
  <2>6. Carrying(new, Append(list, row))
    <3>1. stream = Allocated(pk).part \o (Prefix(row) \o Content(row))
      BY ONLY <1>5, <1>17
    <3>2. /\ Len(new.packets) = Len(pk.packets) + FullBuffers(stream)
          /\ \A i \in 1 .. Len(pk.packets) : new.packets[i] = pk.packets[i]
          /\ \A i \in 1 .. FullBuffers(stream) :
               /\ new.packets[Len(pk.packets) + i].data = Piece(stream, i)
               /\ new.packets[Len(pk.packets) + i].meta = <<>>
          /\ Allocated(new).part = Piece(stream, FullBuffers(stream) + 1)
      BY ONLY <1>7, <2>5 DEF n
    <3>3. /\ Carrying(pk, list) /\ Numbered(list) /\ row \in Rows /\ row.id = Len(list) + 1
          /\ row.variable => Used(pk) + LengthSize <= BufferSize
      OBVIOUS
    <3>4. QED
      BY ONLY <1>3, <3>1, <3>2, <3>3, PiecesRecut
  <2>7. QED
    BY <2>6 DEF new, bytes
<1>9. CASE bytes # <<>>
  <2>1. new = [pk EXCEPT !.packets = more, !.part = part]
    BY <1>4, <1>9
  <2>2. \A i \in 1 .. full : f[i] \in SomePacket /\ f[i].data = Piece(stream, i) /\ f[i].meta = <<>>
    <3> HIDE DEF full
    <3> SUFFICES ASSUME NEW i \in 1 .. full
                 PROVE  f[i] \in SomePacket /\ f[i].data = Piece(stream, i) /\ f[i].meta = <<>>
      OBVIOUS
    <3> DEFINE data == Piece(stream, i)
               none == <<>>
    <3>1. data \in Seq(Byte) /\ none \in Seq(Byte) /\ n + i - 1 \in Nat
      BY <1>2, <1>6, PieceIs
    <3>2. f[i] = Packet(n + i - 1, data, none, FALSE)
      OBVIOUS
    <3> HIDE DEF data, none, f
    <3>3. f[i] \in SomePacket /\ f[i].data = data /\ f[i].meta = none
      BY <3>1, <3>2 DEF Packet, SomePacket
    <3>4. QED
      BY <3>3 DEF data, none
  <2>3. f \in Seq(SomePacket) /\ Len(f) = full
    <3> HIDE DEF full
    <3>1. f \in [1 .. full -> SomePacket]
      BY <2>2
    <3> HIDE DEF f
    <3>2. QED
      BY <1>6, <3>1
  <2>9. more = pk.packets \o f
    OBVIOUS
  <2> HIDE DEF f, more
  <2>4. /\ Len(more) = n + full
        /\ \A i \in 1 .. n + full : more[i] = IF i <= n THEN pk.packets[i] ELSE f[i - n]
    BY <1>2, <2>3, <2>9, ConcatProperties DEF n
  <2>5. new.packets = more /\ new.part = part
    BY <1>1, <2>1 DEF Packers
  <2>6. Allocated(new).part = part
    <3>1. part \in Seq(Byte)
      BY <1>6, PieceIs
    <3> HIDE DEF part
    <3>2. part # NoBuffer
      BY <3>1, SizesAre
    <3>3. QED
      BY <2>5, <3>2 DEF Allocated
  <2>10. part = Piece(stream, full + 1)
    OBVIOUS
  <2> HIDE DEF full, part
  <2>7. /\ Len(new.packets) = n + full
        /\ \A i \in 1 .. n : new.packets[i] = pk.packets[i]
        /\ \A i \in 1 .. full : /\ new.packets[n + i].data = Piece(stream, i)
                                /\ new.packets[n + i].meta = <<>>
        /\ Allocated(new).part = Piece(stream, full + 1)
    <3>1. \A i \in 1 .. n : i \in 1 .. n + full /\ i <= n
      BY <1>2, <1>6
    <3>2. ASSUME NEW i \in 1 .. full PROVE more[n + i] = f[i]
      <4>1. n + i \in 1 .. n + full /\ ~(n + i <= n) /\ (n + i) - n = i
        BY <1>2, <1>6
      <4>2. more[n + i] = f[(n + i) - n]
        BY <2>4, <4>1
      <4>3. QED
        BY <4>1, <4>2
    <3>3. \A i \in 1 .. n : more[i] = pk.packets[i]
      BY <2>4, <3>1
    <3>4. QED
      BY <2>2, <2>4, <2>5, <2>6, <2>10, <3>2, <3>3
  <2>8. Carrying(new, Append(list, row))
    <3>1. stream = Allocated(pk).part \o (Prefix(row) \o Content(row))
      BY ONLY <1>5, <1>17
    <3>2. /\ Len(new.packets) = Len(pk.packets) + FullBuffers(stream)
          /\ \A i \in 1 .. Len(pk.packets) : new.packets[i] = pk.packets[i]
          /\ \A i \in 1 .. FullBuffers(stream) :
               /\ new.packets[Len(pk.packets) + i].data = Piece(stream, i)
               /\ new.packets[Len(pk.packets) + i].meta = <<>>
          /\ Allocated(new).part = Piece(stream, FullBuffers(stream) + 1)
      BY ONLY <1>7, <2>7 DEF n
    <3>3. /\ Carrying(pk, list) /\ Numbered(list) /\ row \in Rows /\ row.id = Len(list) + 1
          /\ row.variable => Used(pk) + LengthSize <= BufferSize
      OBVIOUS
    <3>4. QED
      BY ONLY <1>3, <3>1, <3>2, <3>3, PiecesRecut
  <2>11. QED
    BY <2>8 DEF new, bytes
<1>10. QED
  BY <1>8, <1>9

\* putBuffer
LEMMA PutBufferCarries ==
  ASSUME NEW pk, NEW list, Carrying(pk, list), Numbered(list), NEW row \in Rows,
         row.id = Len(list) + 1, row.length <= row.max,
         pk.packed_request =>
           pk.part \in Seq(Byte) /\ Len(pk.part) + row.max + Len(Prefix(row)) <= BufferSize
  PROVE  Carrying(PutBuffer(pk, row), Append(list, row))
<1> DEFINE bytes == Prefix(row) \o Content(row)
           new == PutBuffer(pk, row)
<1>1. /\ bytes \in Seq(Byte) /\ Len(bytes) = Len(Prefix(row)) + row.length
      /\ Len(Prefix(row)) \in Nat /\ row.length \in Nat /\ row.max \in Nat
      /\ Len(Prefix(row)) = IF row.variable THEN LengthSize ELSE 0
  BY RowIs, RowBytesAre DEF Rows
<1>2. Packing(pk) /\ pk \in Packers /\ Used(pk) \in 0 .. BufferSize
      /\ BufferSize \in Nat /\ LengthSize \in Nat \ {0} /\ LengthSize <= BufferSize
  BY PackingIs, SizesAre, PackingAssumption DEF Carrying, Packing
<1>3. CASE pk.packed_request
  <2> DEFINE part == pk.part \o bytes
  <2>1. new = [pk EXCEPT !.part = part]
    BY <1>3 DEF PutBuffer
  <2>2. Packing(new)
    BY <1>2, <1>3, PutBufferKeeps
  <2>3. pk.part \in Seq(Byte) /\ Len(pk.part) = Used(pk) /\ pk.part # NoBuffer
    BY <1>3, SizesAre DEF Used
  <2>10. part = pk.part \o bytes /\ bytes = Prefix(row) \o Content(row)
    OBVIOUS
  <2> HIDE DEF bytes, new, part
  <2>4. /\ part \in Seq(Byte) /\ Len(part) = Len(pk.part) + Len(bytes)
    BY <1>1, <2>3, <2>10, ConcatProperties
  <2>5. Len(part) <= BufferSize
    <3> DEFINE u == Len(pk.part)
               l == Len(Prefix(row))
               g == Len(bytes)
               h == Len(part)
    <3>1. /\ u + row.max + l <= BufferSize /\ h = u + g /\ g = l + row.length /\ u \in Nat
      BY <1>1, <1>2, <1>3, <2>3, <2>4
    <3> HIDE DEF u, l, g, h
    <3>3. l \in Nat
      BY <1>1 DEF l
    <3>4. h <= BufferSize
      BY <1>1, <1>2, <3>1, <3>3, SMTT(30)
    <3>2. QED
      BY <3>4 DEF h
  <2>6. FullBuffers(part) = 0 /\ Piece(part, 1) = part
    BY <2>4, <2>5, NotCut
  <2>7. new.packets = pk.packets /\ new.part = part /\ part # NoBuffer
    BY <1>2, <2>1, <2>4, SizesAre DEF Packers
  <2>8. Allocated(pk).part = pk.part /\ Allocated(new).part = part
    BY <2>3, <2>7 DEF Allocated
  <2>9. row.variable => Used(pk) + LengthSize <= BufferSize
    <3> SUFFICES ASSUME row.variable PROVE Used(pk) + LengthSize <= BufferSize
      OBVIOUS
    <3> DEFINE u == Used(pk)
    <3>1. u + row.max + LengthSize <= BufferSize /\ u \in Nat
      BY <1>1, <1>2, <1>3, <2>3
    <3> HIDE DEF u
    <3>2. u + LengthSize <= BufferSize
      BY <1>1, <1>2, <3>1
    <3>3. QED
      BY <3>2 DEF u
  <2>11. /\ part = Allocated(pk).part \o (Prefix(row) \o Content(row))
         /\ Len(new.packets) = Len(pk.packets) + FullBuffers(part)
         /\ (\A i \in 1 .. Len(pk.packets) : new.packets[i] = pk.packets[i])
         /\ (\A i \in 1 .. FullBuffers(part) :
              /\ new.packets[Len(pk.packets) + i].data = Piece(part, i)
              /\ new.packets[Len(pk.packets) + i].meta = <<>>)
         /\ Allocated(new).part = Piece(part, FullBuffers(part) + 1)
    <3>1. Len(pk.packets) \in Nat
      BY <1>2, PackingIs
    <3>2. 1 .. FullBuffers(part) = {} /\ FullBuffers(part) + 1 = 1
      BY ONLY <2>6
    <3>3. Len(new.packets) = Len(pk.packets) + FullBuffers(part)
      BY ONLY <2>6, <2>7, <3>1
    <3>4. QED
      BY ONLY <2>6, <2>7, <2>8, <2>10, <3>2, <3>3
  <2>12. Carrying(new, Append(list, row))
    BY <2>2, <2>9, <2>11, PiecesRecut
  <2>13. QED
    BY <2>12 DEF new
<1>4. CASE ~pk.packed_request
  <2> DEFINE k == IF row.variable /\ Room(pk) < LengthSize THEN FlushPart(pk) ELSE pk
  <2>1. new = PutChunks(k, bytes)
    BY <1>4 DEF PutBuffer
  <2>2. Carrying(k, list)
    <3>1. Carrying(FlushPart(pk), list)
      BY FlushPartCarries
    <3>2. QED
      BY <3>1
  <2>3. row.variable => Used(k) + LengthSize <= BufferSize
    <3>1. Used(FlushPart(pk)) = 0
      BY <1>2, FlushPartKeeps DEF Used
    <3>2. CASE Room(pk) < LengthSize
      BY <1>2, <3>1, <3>2
    <3>3. CASE ~(Room(pk) < LengthSize)
      BY <1>2, <3>3 DEF Room
    <3>4. QED
      BY <3>2, <3>3
  <2> HIDE DEF k, new
  <2>4. Carrying(new, Append(list, row))
    BY <2>1, <2>2, <2>3, PutChunksCarries
  <2>5. QED
    BY <2>4 DEF new
<1>5. QED
  BY <1>3, <1>4

LEMMA NumberedNext ==
  ASSUME NEW list, Numbered(list), NEW row \in Rows, row.id = Len(list) + 1
  PROVE  Numbered(Append(list, row))
<1>1. list \in Seq(Rows) /\ Len(list) \in Nat /\ DOMAIN list = 1 .. Len(list)
      /\ \A j \in DOMAIN list : list[j].id = j
  BY DEF Numbered
<1> DEFINE more == Append(list, row)
<1>2. /\ more \in Seq(Rows) /\ DOMAIN more = 1 .. Len(list) + 1 /\ more[Len(list) + 1] = row
      /\ \A j \in 1 .. Len(list) : more[j] = list[j]
  BY <1>1, AppendProperties
<1> HIDE DEF more
<1>3. ASSUME NEW j \in DOMAIN more PROVE more[j].id = j
  <2>1. j \in 1 .. Len(list) \/ j = Len(list) + 1
    BY <1>1, <1>2
  <2>2. QED
    BY <1>1, <1>2, <2>1
<1>4. QED
  BY <1>2, <1>3 DEF Numbered, more

\* The header alone.
LEMMA NewPackerCarries == Carrying(NewPacker, <<>>)
<1> DEFINE part == [k \in 1 .. HeaderSize |-> <<"header", k, 0>>]
           a == Pieces(NewPacker)
           none == <<>>
<1>1. Packing(NewPacker) /\ NewPacker.packets = none /\ NewPacker.part = part
  BY NewPackerIs DEF NewPacker
<1>2. Len(none) = 0 /\ DOMAIN none = {}
  OBVIOUS
<1>3. part \in Seq(Byte) /\ DOMAIN part = 1 .. HeaderSize
      /\ \A k \in 1 .. HeaderSize : part[k] = <<"header", k, 0>>
  <2>1. part \in [1 .. HeaderSize -> Byte] /\ HeaderSize \in Nat
    BY SizesAre DEF Byte
  <2>2. \A k \in 1 .. HeaderSize : part[k] = <<"header", k, 0>>
    OBVIOUS
  <2> HIDE DEF part
  <2>3. QED
    BY <2>1, <2>2
<1> HIDE DEF part
<1>4. Allocated(NewPacker).part = part
  BY <1>1, <1>3, SizesAre DEF Allocated
<1>5. a \in Seq(Seq(Byte)) /\ Len(a) = 1 /\ a[1] = part
  <2>1. /\ a \in Seq(Seq(Byte)) /\ Len(a) = Len(NewPacker.packets) + 1
        /\ a[Len(NewPacker.packets) + 1] = Allocated(NewPacker).part
    BY <1>1, PiecesAre
  <2>2. Len(NewPacker.packets) = 0 /\ 0 + 1 = 1
    BY <1>1, <1>2
  <2> HIDE DEF a
  <2>3. QED
    BY ONLY <1>4, <2>1, <2>2
<1>6. Len(part) = HeaderSize
  BY <1>3, SizesAre
<1>9. a = Pieces(NewPacker)
  OBVIOUS
<1> HIDE DEF a
<1>7. Places(a) = HeaderPlaces
  <2>1. DOMAIN a = {1}
    BY <1>5
  <2>2. Places(a) = {1} \X DOMAIN a[1]
    BY <2>1 DEF Places
  <2>3. QED
    BY <1>3, <1>5, <2>2 DEF HeaderPlaces
<1>8. CarryRows(a, none)
  <2>1. Places(a) \ HeaderPlaces = {}
    BY <1>7
  <2>2. ASSUME NEW k \in 1 .. HeaderSize
        PROVE  <<1, k>> \in Places(a) /\ At(a, <<1, k>>) = <<"header", k, 0>>
    BY <1>3, <1>5, <1>7 DEF HeaderPlaces, At
  <2> HIDE DEF none
  <2>3. QED
    BY <1>2, <2>1, <2>2 DEF CarryRows, InOrder
<1>10. QED
  BY <1>1, <1>2, <1>8, <1>9 DEF Carrying

\* flush(true): the packets of new are those of pk, then the data of part_buffer
\* and what stream has behind it.
FlushedInto(pk, stream, new) ==
  LET n    == Len(pk.packets)
      full == FullBuffers(stream)
      p    == new.packets
  IN  /\ new.meta = pk.meta
      /\ Len(p) = n + full + 1
      /\ \A i \in 1 .. n : p[i] = pk.packets[i]
      /\ p[n + 1].data = pk.part
      /\ p[n + 1].meta = SubSeq(Piece(stream, 1), Len(pk.part) + 1, Len(Piece(stream, 1)))
      /\ \A i \in 2 .. full + 1 : p[n + i].data = <<>> /\ p[n + i].meta = Piece(stream, i)

LEMMA FlushMetaHas ==
  ASSUME NEW pk, Packing(pk), pk.part \in Seq(Byte), NEW meta \in Seq(Byte)
  PROVE  FlushedInto(pk, pk.part \o meta, FlushMeta(pk, meta))
<1> DEFINE stream == pk.part \o meta
           n == Len(pk.packets)
           full == FullBuffers(stream)
           none == <<>>
           Data(i) == IF i = 1 THEN pk.part ELSE none
           Rest == SubSeq(Piece(stream, 1), Used(pk) + 1, Len(Piece(stream, 1)))
           Meta(i) == IF i = 1 THEN Rest ELSE Piece(stream, i)
           f == [i \in 1 .. full + 1 |-> Packet(n + i - 1, Data(i), Meta(i), i = full + 1)]
           more == pk.packets \o f
           new == FlushMeta(pk, meta)
<1>1. /\ pk \in Packers /\ pk.packets \in Seq(SomePacket) /\ n \in Nat /\ Used(pk) = Len(pk.part)
      /\ none = <<>>
  BY PackingIs, SizesAre DEF Packing, Used
<1>2. stream \in Seq(Byte)
  BY ConcatProperties
<1>3. full \in Nat
  <2> HIDE DEF stream
  <2>1. QED
    BY <1>2, FullBuffersType
<1>4. new = [pk EXCEPT !.packets = more, !.part = NoBuffer]
  BY DEF FlushMeta
<1>20. stream = pk.part \o meta
  OBVIOUS
<1>5. new.packets = more /\ new.meta = pk.meta
  <2> HIDE DEF more, new
  <2>1. QED
    BY <1>1, <1>4 DEF Packers
<1>6. Rest = SubSeq(Piece(stream, 1), Len(pk.part) + 1, Len(Piece(stream, 1)))
  BY <1>1
<1>7. n = Len(pk.packets) /\ full = FullBuffers(stream) /\ new = FlushMeta(pk, meta)
  OBVIOUS
<1>15. \A i : Data(i) = (IF i = 1 THEN pk.part ELSE none)
              /\ Meta(i) = (IF i = 1 THEN Rest ELSE Piece(stream, i))
  OBVIOUS
<1> HIDE DEF n, full, new, Rest, none, stream
<1>8. \A i \in 1 .. full + 1 : Data(i) \in Seq(Byte) /\ Meta(i) \in Seq(Byte)
  <2>1. /\ none \in Seq(Byte) /\ pk.part \in Seq(Byte)
    BY <1>1
  <2>2. Rest \in Seq(Byte)
    <3> DEFINE first == Piece(stream, 1)
               d == Len(first)
    <3>1. first \in Seq(Byte)
      <4>1. 1 \in Nat \ {0}
        OBVIOUS
      <4>2. Piece(stream, 1) \in Seq(Byte)
        BY ONLY <1>2, <4>1, PieceIs
      <4>3. QED
        BY <4>2
    <3>2. d \in Nat /\ d <= Len(first)
      BY <3>1
    <3>3. Used(pk) + 1 \in Nat \ {0}
      BY <1>1
    <3>4. Rest = SubSeq(first, Used(pk) + 1, d)
      BY DEF Rest
    <3> HIDE DEF first, d
    <3>5. d \in Int
      BY <3>2
    <3>6. QED
      BY ONLY <3>1, <3>2, <3>3, <3>4, <3>5, SliceIs
  <2>3. \A i \in 1 .. full + 1 : Piece(stream, i) \in Seq(Byte)
    <3>1. \A i \in 1 .. full + 1 : i \in Nat \ {0}
      BY <1>3
    <3>2. QED
      BY <1>2, <3>1, PieceIs
  <2>4. QED
    BY <2>1, <2>2, <2>3
<1>14. \A i \in 1 .. full + 1 : n + i - 1 \in Nat
  BY <1>1, <1>3
<1> HIDE DEF Data, Meta
<1>9. \A i \in 1 .. full + 1 : f[i] \in SomePacket /\ f[i].data = Data(i) /\ f[i].meta = Meta(i)
  <2> SUFFICES ASSUME NEW i \in 1 .. full + 1
               PROVE  f[i] \in SomePacket /\ f[i].data = Data(i) /\ f[i].meta = Meta(i)
    OBVIOUS
  <2>1. f[i] = Packet(n + i - 1, Data(i), Meta(i), i = full + 1)
    OBVIOUS
  <2>2. Data(i) \in Seq(Byte) /\ Meta(i) \in Seq(Byte) /\ n + i - 1 \in Nat
    BY <1>8, <1>14
  <2> HIDE DEF f
  <2>3. QED
    BY <2>1, <2>2 DEF Packet, SomePacket
<1>10. f \in Seq(SomePacket) /\ Len(f) = full + 1
  <2>1. f \in [1 .. full + 1 -> SomePacket]
    BY <1>9
  <2> HIDE DEF f
  <2>2. QED
    BY <1>3, <2>1
<1>11. more = pk.packets \o f
  OBVIOUS
<1> HIDE DEF f, more
<1>12. /\ Len(more) = n + (full + 1)
       /\ \A i \in 1 .. n + (full + 1) : more[i] = IF i <= n THEN pk.packets[i] ELSE f[i - n]
  <2> DEFINE old == pk.packets
             l == Len(f)
  <2>1. old \in Seq(SomePacket) /\ f \in Seq(SomePacket) /\ more = old \o f
        /\ Len(old) = n /\ l = full + 1 /\ l = Len(f)
    BY <1>1, <1>7, <1>10, <1>11
  <2> HIDE DEF old, l
  <2>2. /\ Len(more) = n + l
        /\ \A i \in 1 .. n + l : more[i] = IF i <= n THEN old[i] ELSE f[i - n]
    BY ONLY <2>1, ConcatProperties
  <2>3. QED
    BY ONLY <2>1, <2>2 DEF old
<1>13. /\ \A i \in 1 .. n : more[i] = pk.packets[i]
       /\ \A i \in 1 .. full + 1 : more[n + i] = f[i]
  <2>1. \A i \in 1 .. n : i \in 1 .. n + (full + 1) /\ i <= n
    BY <1>1, <1>3
  <2>2. ASSUME NEW i \in 1 .. full + 1 PROVE more[n + i] = f[i]
    <3>1. n + i \in 1 .. n + (full + 1) /\ ~(n + i <= n) /\ (n + i) - n = i
      BY <1>1, <1>3
    <3>2. more[n + i] = f[(n + i) - n]
      BY <1>12, <3>1
    <3>3. QED
      BY <3>1, <3>2
  <2>3. QED
    BY <1>12, <2>1, <2>2
<1>16. Len(more) = n + full + 1
  BY <1>1, <1>3, <1>12
<1>17. more[n + 1].data = pk.part /\ more[n + 1].meta = Rest
  <2>1. 1 \in 1 .. full + 1
    BY <1>3
  <2>2. QED
    BY <1>9, <1>13, <1>15, <2>1
<1>18. \A i \in 2 .. full + 1 : more[n + i].data = none /\ more[n + i].meta = Piece(stream, i)
  <2>1. \A i \in 2 .. full + 1 : i \in 1 .. full + 1 /\ i # 1
    BY <1>3
  <2>2. QED
    BY <1>9, <1>13, <1>15, <2>1
<1>21. FlushedInto(pk, stream, new)
  BY <1>1, <1>5, <1>6, <1>7, <1>13, <1>16, <1>17, <1>18 DEF FlushedInto
<1>19. QED
  BY <1>21 DEF stream, new

\* The packets of a message carry these rows and this metadata.
CarryAll(packets, list, meta) ==
  /\ CarryRows([i \in DOMAIN packets |-> packets[i].data], list)
  /\ CarryMeta([i \in DOMAIN packets |-> packets[i].meta], meta)

LEMMA FlushLastCarries ==
  ASSUME NEW pk, NEW list, Carrying(pk, list), NEW m \in Nat, pk.meta = MetaBytes(0, m)
  PROVE  /\ FlushLast(pk).meta = pk.meta
         /\ CarryAll(FlushLast(pk).packets, list, pk.meta)
<1> DEFINE k == Allocated(pk)
           n == Len(pk.packets)
           meta == pk.meta
           part == k.part
           stream == part \o meta
           full == FullBuffers(stream)
           p == FlushLast(pk).packets
           d == [i \in DOMAIN p |-> p[i].data]
           q == [i \in DOMAIN p |-> p[i].meta]
           none == <<>>
<1>1. /\ Packing(pk) /\ Packing(k) /\ k.packets = pk.packets /\ k.meta = pk.meta
      /\ part \in Seq(Byte) /\ meta \in Seq(Byte) /\ n \in Nat
  BY AllocatedKeeps, PackingIs DEF Carrying
<1>2. FlushLast(pk) = FlushMeta(k, meta)
  BY DEF FlushLast
<1>3. /\ FlushLast(pk).meta = pk.meta
      /\ Len(p) = n + full + 1
      /\ \A i \in 1 .. n : p[i] = pk.packets[i]
      /\ p[n + 1].data = part
      /\ p[n + 1].meta = SubSeq(Piece(stream, 1), Len(part) + 1, Len(Piece(stream, 1)))
      /\ \A i \in 2 .. full + 1 : p[n + i].data = none /\ p[n + i].meta = Piece(stream, i)
  <2> DEFINE new == FlushLast(pk)
  <2>1. stream = k.part \o meta /\ k.part \in Seq(Byte) /\ Packing(k) /\ meta \in Seq(Byte)
    BY <1>1
  <2>2. new.packets = p /\ n = Len(k.packets)
    BY <1>1
  <2> HIDE DEF k, meta, stream
  <2>3. FlushedInto(k, stream, new)
    BY ONLY <1>2, <2>1, FlushMetaHas
  <2> HIDE DEF n, p
  <2>4. QED
    BY ONLY <1>1, <2>2, <2>3 DEF FlushedInto
<1>4. p \in Seq(SomePacket)
  BY FlushLastIs, <1>1 DEF Packed, Packers
<1>5. full \in Nat
  <2> HIDE DEF part, meta
  <2>1. stream \in Seq(Byte)
    BY <1>1, ConcatProperties
  <2> HIDE DEF stream
  <2>2. QED
    BY <2>1, FullBuffersType
<1>6. stream = part \o meta /\ full = FullBuffers(stream) /\ meta = MetaBytes(0, m)
  OBVIOUS
<1>7. /\ Pieces(pk) \in Seq(Seq(Byte)) /\ Len(Pieces(pk)) = n + 1
      /\ (\A i \in 1 .. n : Pieces(pk)[i] = pk.packets[i].data)
      /\ Pieces(pk)[n + 1] = part /\ Len(part) <= BufferSize /\ CarryRows(Pieces(pk), list)
      /\ \A i \in 1 .. n : pk.packets[i].meta = none
  <2>1. /\ Pieces(pk) \in Seq(Seq(Byte)) /\ Len(Pieces(pk)) = n + 1
        /\ (\A i \in 1 .. n : Pieces(pk)[i] = pk.packets[i].data)
        /\ Pieces(pk)[n + 1] = part /\ Len(part) = Used(pk) /\ Used(pk) \in 0 .. BufferSize
    BY <1>1, PiecesAre
  <2>2. DOMAIN pk.packets = 1 .. n
    BY <1>1, PackingIs
  <2>3. Len(part) <= BufferSize
    BY <2>1, SizesAre
  <2>4. QED
    BY <2>1, <2>2, <2>3 DEF Carrying
<1>8. DOMAIN p = 1 .. n + full + 1
  BY <1>3, <1>4
<1>9. /\ d = [i \in 1 .. n + full + 1 |-> p[i].data]
      /\ q = [i \in 1 .. n + full + 1 |-> p[i].meta]
  BY <1>8
<1>10. d = [i \in DOMAIN p |-> p[i].data] /\ q = [i \in DOMAIN p |-> p[i].meta]
  OBVIOUS
<1> HIDE DEF n, part, meta, stream, full, p, d, q, k
<1>11. n + full + 1 \in Nat
  BY <1>1, <1>5
<1>12. /\ d \in Seq(Seq(Byte)) /\ Len(d) = n + full + 1
       /\ q \in Seq(Seq(Byte)) /\ Len(q) = n + full + 1
       /\ \A i \in 1 .. n + full + 1 : d[i] = p[i].data /\ q[i] = p[i].meta
  <2>1. \A i \in 1 .. n + full + 1 : p[i].data \in Seq(Byte) /\ p[i].meta \in Seq(Byte)
    <3>1. \A i \in 1 .. n + full + 1 : p[i] \in SomePacket
      <4>1. \A i \in DOMAIN p : p[i] \in SomePacket
        BY ONLY <1>4
      <4>2. QED
        BY ONLY <1>8, <4>1
    <3>2. QED
      BY <3>1 DEF SomePacket
  <2> DEFINE l == n + full + 1
  <2>2. /\ d \in [1 .. l -> Seq(Byte)] /\ q \in [1 .. l -> Seq(Byte)]
        /\ (\A i \in 1 .. l : d[i] = p[i].data /\ q[i] = p[i].meta) /\ l \in Nat
    BY <1>9, <1>11, <2>1
  <2> HIDE DEF l
  <2>3. d \in Seq(Seq(Byte)) /\ Len(d) = l /\ q \in Seq(Seq(Byte)) /\ Len(q) = l
    BY ONLY <2>2
  <2>4. QED
    BY <2>2, <2>3 DEF l
<1>13. CarryRows(d, list)
  <2> DEFINE a == Pieces(pk)
  <2>1. a \in Seq(Seq(Byte)) /\ CarryRows(a, list) /\ Len(a) = n + 1
    BY <1>7
  <2>2. ASSUME NEW i \in 1 .. n + 1 PROVE d[i] = a[i]
    <3>1. i \in 1 .. n + full + 1
      BY <1>1, <1>5
    <3>2. d[i] = p[i].data
      BY <1>12, <3>1
    <3>3. i \in 1 .. n \/ i = n + 1
      BY <1>1
    <3>4. QED
      BY <1>3, <1>7, <3>2, <3>3
  <2>3. ASSUME NEW i \in n + 2 .. n + full + 1 PROVE d[i] = none
    <3>1. i \in 1 .. n + full + 1 /\ i - n \in 2 .. full + 1 /\ n + (i - n) = i
      BY <1>1, <1>5
    <3>2. d[i] = p[i].data /\ p[n + (i - n)].data = none
      BY <1>3, <1>12, <3>1
    <3>3. QED
      BY <3>1, <3>2
  <2> HIDE DEF a
  <2>4. Len(a) <= Len(d) /\ Len(a) + 1 = n + 2
    <3>1. n + 1 <= n + full + 1 /\ (n + 1) + 1 = n + 2
      BY ONLY <1>1, <1>5
    <3>2. QED
      BY ONLY <1>12, <2>1, <3>1
  <2>5. /\ \A i \in 1 .. Len(a) : d[i] = a[i]
        /\ \A i \in Len(a) + 1 .. Len(d) : d[i] = <<>>
    BY <1>12, <2>1, <2>2, <2>3, <2>4
  <2>6. QED
    BY ONLY <1>12, <2>1, <2>4, <2>5, CarryEmpty
<1>14. CarryMeta(q, meta)
  <2>1. \A i \in 1 .. n : q[i] = <<>>
    <3>1. \A i \in 1 .. n : i \in 1 .. n + full + 1
      BY <1>1, <1>5
    <3>2. \A i \in 1 .. n : q[i] = p[i].meta
      BY ONLY <1>12, <3>1
    <3>3. \A i \in 1 .. n : p[i].meta = <<>>
      BY ONLY <1>3, <1>7
    <3>4. QED
      BY ONLY <3>2, <3>3
  <2>2. q[n + 1] = SubSeq(Piece(stream, 1), Len(part) + 1, Len(Piece(stream, 1)))
    <3>1. n + 1 \in 1 .. n + full + 1
      BY <1>1, <1>5
    <3>2. QED
      BY <1>3, <1>12, <3>1
  <2>3. \A i \in 2 .. full + 1 : q[n + i] = Piece(stream, i)
    <3>1. \A i \in 2 .. full + 1 : n + i \in 1 .. n + full + 1
      BY <1>1, <1>5
    <3>2. QED
      BY <1>3, <1>12, <3>1
  <2>4. /\ part \in Seq(Byte) /\ Len(part) <= BufferSize /\ m \in Nat /\ meta \in Seq(Byte)
        /\ meta = MetaBytes(0, m) /\ stream = part \o meta /\ n \in Nat /\ q \in Seq(Seq(Byte))
        /\ Len(q) = n + FullBuffers(stream) + 1
        /\ (\A i \in 2 .. FullBuffers(stream) + 1 : q[n + i] = Piece(stream, i))
    BY <1>1, <1>6, <1>7, <1>12, <2>3
  <2>5. QED
    BY ONLY <2>1, <2>2, <2>4, MetaCut
<1>15. QED
  BY <1>3, <1>10, <1>13, <1>14 DEF CarryAll, p, meta

-----------------------------------------------------------------------------
(* From what is written to what is queued.                                  *)

\* What the worker of a message has written is in its packer, and then in its
\* packets.
CarriedOf(m) ==
  /\ Numbered(rows[m])
  /\ m \notin flushed => Carrying(packer[m], rows[m]) /\ packer[m].meta = <<>>
  /\ m \in flushed => CarryAll(Packets(m), rows[m], packer[m].meta)

\* What is queued are the packets of the message, all of them and in order.
QueueHolds ==
  \A i \in DOMAIN queue :
    flushed = Messages /\ queue[i].chain = Packets(queue[i].message)

CarryInv == Inv /\ (\A m \in Messages : CarriedOf(m)) /\ QueueHolds

LEMMA CarryStarts == Init => CarryInv
<1> SUFFICES ASSUME Init PROVE CarryInv
  OBVIOUS
<1>1. Inv
  BY CollatorStarts
<1>2. ASSUME NEW m \in Messages PROVE CarriedOf(m)
  <2> DEFINE none == <<>>
  <2>1. none \in Seq(Rows) /\ DOMAIN none = {}
    OBVIOUS
  <2>2. rows[m] = none /\ packer[m] = NewPacker /\ m \notin flushed
    BY DEF Init
  <2>3. Carrying(NewPacker, none) /\ NewPacker.meta = none
    BY NewPackerCarries DEF NewPacker
  <2>4. none = <<>>
    OBVIOUS
  <2> HIDE DEF none
  <2>5. QED
    BY <2>1, <2>2, <2>3, <2>4 DEF CarriedOf, Numbered
<1>3. QueueHolds
  BY DEF Init, QueueHolds
<1>4. QED
  BY <1>1, <1>2, <1>3 DEF CarryInv

LEMMA OtherCarried ==
  ASSUME PackersInv, NEW m \in Messages, NEW k \in Messages, k # m, CarriedOf(k),
         NEW pk, packer' = [packer EXCEPT ![m] = pk], rows'[k] = rows[k],
         flushed' = flushed \/ flushed' = flushed \cup {m}
  PROVE  CarriedOf(k)'
<1>1. packer'[k] = packer[k] /\ (k \in flushed' <=> k \in flushed)
  BY DEF PackersInv
<1>2. QED
  BY <1>1 DEF CarriedOf, Packets

LEMMA WriteRowCarries ==
  ASSUME CarryInv, NEW m \in Messages, WriteRow(m)
  PROVE  \A k \in Messages : CarriedOf(k)'
<1>1. PICK kind \in RowKinds :
        LET row == Row(Len(rows[m]) + 1, kind.variable, kind.max, kind.length)
        IN  /\ packer' = [packer EXCEPT ![m] = PutBuffer(GetBuffer(@, row), row)]
            /\ rows' = [rows EXCEPT ![m] = Append(@, row)]
  BY DEF WriteRow
<1> DEFINE row == Row(Len(rows[m]) + 1, kind.variable, kind.max, kind.length)
           got == GetBuffer(packer[m], row)
           put == PutBuffer(got, row)
<1>2. /\ PackersInv /\ m \notin flushed /\ flushed' = flushed
      /\ Numbered(rows[m]) /\ Carrying(packer[m], rows[m]) /\ packer[m].meta = <<>>
  BY DEF WriteRow, CarryInv, CarriedOf, Inv
<1>3. row \in Rows /\ row.length <= row.max /\ row.id = Len(rows[m]) + 1
  <2>1. rows[m] \in Seq(Rows) /\ Len(rows[m]) + 1 \in Nat
    BY <1>2 DEF Numbered
  <2>2. QED
    BY <2>1, KindIs DEF Row
<1>4. /\ packer' = [packer EXCEPT ![m] = put]
      /\ rows' = [rows EXCEPT ![m] = Append(rows[m], row)]
  BY <1>1, <1>2 DEF PackersInv
<1> HIDE DEF row
<1>5. /\ Packing(packer[m]) /\ Packing(got) /\ got.meta = packer[m].meta
      /\ got.packed_request =>
           got.part \in Seq(Byte) /\ Len(got.part) + row.max + Len(Prefix(row)) <= BufferSize
  BY <1>2, <1>3, GetBufferKeeps DEF Carrying
<1>6. Carrying(got, rows[m])
  BY <1>2, <1>3, GetBufferCarries
<1>9. put = PutBuffer(got, row)
  OBVIOUS
<1> HIDE DEF got, put
<1>7. Carrying(put, Append(rows[m], row)) /\ put.meta = <<>>
  <2>1. Carrying(put, Append(rows[m], row))
    BY <1>2, <1>3, <1>5, <1>6, <1>9, PutBufferCarries
  <2>2. put.meta = got.meta
    BY <1>3, <1>5, <1>9, PutBufferKeeps
  <2>3. QED
    BY <1>2, <1>5, <2>1, <2>2
<1>8. Numbered(Append(rows[m], row))
  BY <1>2, <1>3, NumberedNext
<1>10. ASSUME NEW k \in Messages PROVE CarriedOf(k)'
  <2>1. CASE k = m
    <3>1. packer'[m] = put /\ rows'[m] = Append(rows[m], row) /\ m \notin flushed'
      BY <1>2, <1>4 DEF PackersInv
    <3>2. QED
      BY <1>7, <1>8, <2>1, <3>1 DEF CarriedOf
  <2>2. CASE k # m
    <3>1. rows'[k] = rows[k] /\ CarriedOf(k)
      BY <1>2, <1>4, <2>2 DEF PackersInv, CarryInv
    <3>2. QED
      BY <1>2, <1>4, <2>2, <3>1, OtherCarried
  <2>3. QED
    BY <2>1, <2>2
<1>11. QED
  BY <1>10

LEMMA SkipRowCarries ==
  ASSUME CarryInv, NEW m \in Messages, SkipRow(m)
  PROVE  \A k \in Messages : CarriedOf(k)'
<1>1. PICK kind \in RowKinds :
        packer' = [packer EXCEPT ![m] =
          GetBuffer(@, Row(0, kind.variable, kind.max, kind.length))]
  BY DEF SkipRow
<1> DEFINE row == Row(0, kind.variable, kind.max, kind.length)
           got == GetBuffer(packer[m], row)
<1>2. /\ PackersInv /\ m \notin flushed /\ flushed' = flushed /\ rows' = rows
      /\ Numbered(rows[m]) /\ Carrying(packer[m], rows[m]) /\ packer[m].meta = <<>>
  BY DEF SkipRow, CarryInv, CarriedOf, Inv
<1>3. row \in Rows
  BY KindIs
<1>4. packer' = [packer EXCEPT ![m] = got]
  BY <1>1, <1>2 DEF PackersInv
<1> HIDE DEF row
<1>5. Packing(packer[m]) /\ got.meta = packer[m].meta
  BY <1>2, <1>3, GetBufferKeeps DEF Carrying
<1>6. Carrying(got, rows[m])
  BY <1>2, <1>3, GetBufferCarries
<1> HIDE DEF got
<1>7. ASSUME NEW k \in Messages PROVE CarriedOf(k)'
  <2>1. CASE k = m
    <3>1. packer'[m] = got /\ m \notin flushed'
      BY <1>2, <1>4 DEF PackersInv
    <3>2. QED
      BY <1>2, <1>5, <1>6, <2>1, <3>1 DEF CarriedOf
  <2>2. CASE k # m
    <3>1. CarriedOf(k)
      BY DEF CarryInv
    <3>2. QED
      BY <1>2, <1>4, <2>2, <3>1, OtherCarried
  <2>3. QED
    BY <2>1, <2>2
<1>8. QED
  BY <1>7

LEMMA FinishCarries ==
  ASSUME CarryInv, NEW m \in Messages, Finish(m)
  PROVE  \A k \in Messages : CarriedOf(k)'
<1>1. PICK n \in MetaSizes :
        packer' = [packer EXCEPT ![m] = FlushLast(SendMetaInfo(@, MetaBytes(0, n)))]
  BY DEF Finish
<1> DEFINE sent == SendMetaInfo(packer[m], MetaBytes(0, n))
           pk == FlushLast(sent)
<1>2. /\ PackersInv /\ m \notin flushed /\ flushed' = flushed \cup {m} /\ rows' = rows
      /\ Numbered(rows[m]) /\ Carrying(packer[m], rows[m]) /\ packer[m].meta = <<>>
  BY DEF Finish, CarryInv, CarriedOf, Inv
<1>3. packer' = [packer EXCEPT ![m] = pk] /\ n \in Nat
  BY <1>1, <1>2, CollatorAssumption DEF PackersInv
<1>4. Packing(packer[m]) /\ packer[m] \in Packers
  BY <1>2 DEF Carrying, Packing
<1>5. Packing(sent)
  BY <1>4, MetaSent
<1>6. /\ sent.meta = MetaBytes(0, n) /\ sent.packets = packer[m].packets
      /\ sent.part = packer[m].part
  <2> DEFINE bytes == MetaBytes(0, n)
             more == packer[m].meta \o bytes
  <2>1. bytes \in Seq(Byte)
    <3>1. [k \in 1 .. n |-> <<"meta", 0 + k, 0>>] \in [1 .. n -> Byte]
      BY <1>3 DEF Byte
    <3>2. QED
      BY <1>3, <3>1 DEF MetaBytes
  <2>2. sent = [packer[m] EXCEPT !.meta = more]
    BY DEF SendMetaInfo
  <2> HIDE DEF bytes, sent
  <2>3. more = bytes
    BY <1>2, <2>1
  <2>4. QED
    BY <1>4, <2>2, <2>3 DEF Packers, bytes
<1> HIDE DEF sent
<1>7. Carrying(sent, rows[m])
  <2>1. Allocated(sent).part = Allocated(packer[m]).part
    <3>1. CASE sent.part = NoBuffer
      BY <1>4, <1>5, <1>6, <3>1 DEF Allocated, Packers, Packing
    <3>2. CASE sent.part # NoBuffer
      BY <1>6, <3>2 DEF Allocated
    <3>3. QED
      BY <3>1, <3>2
  <2>2. QED
    BY <1>2, <1>5, <1>6, <2>1, SameCarrying
<1>8. pk.meta = sent.meta /\ CarryAll(pk.packets, rows[m], sent.meta)
  BY <1>3, <1>6, <1>7, FlushLastCarries
<1> HIDE DEF pk
<1>9. ASSUME NEW k \in Messages PROVE CarriedOf(k)'
  <2>1. CASE k = m
    <3>1. packer'[m] = pk /\ m \in flushed'
      BY <1>2, <1>3 DEF PackersInv
    <3>2. QED
      BY <1>2, <1>8, <2>1, <3>1 DEF CarriedOf, Packets
  <2>2. CASE k # m
    <3>1. CarriedOf(k)
      BY DEF CarryInv
    <3>2. QED
      BY <1>2, <1>3, <2>2, <3>1, OtherCarried
  <2>3. QED
    BY <2>1, <2>2
<1>10. QED
  BY <1>9

\* A message that is completed has its packets in order and nothing else.
LEMMA CompletedIsWhole ==
  ASSUME NEW list, NEW n, Whole(Range(list), n), list \in Seq(Range(list)), Len(list) = n,
         \A i \in DOMAIN list : list[i].seq = i - 1,
         NEW s, Sequencing(s, Range(list)), NEW p \in Range(list),
         ~IsDuplicate(s, p), Completes(s, Insert(s, p))
  PROVE  Insert(s, p).chain = list
<1> DEFINE t == Insert(s, p)
           P == Range(list)
           c == t.chain
<1>1. /\ c \in Seq(P) /\ s.last \in Nat /\ t.last \in s.last .. Len(c) /\ Spread(c)
      /\ \A i \in DOMAIN c : i <= t.last <=> c[i].seq = i - 1
  BY InsertIs
<1>2. PICK i \in s.last + 1 .. t.last : c[i].complete
  BY DEF Completes
<1>8. /\ n \in Nat \ {0} /\ DOMAIN list = 1 .. n
      /\ \A q \in P : q.seq \in 0 .. n - 1 /\ (q.complete <=> q.seq = n - 1)
      /\ \A q \in P : \E k \in 1 .. n : q = list[k]
  <2>1. DOMAIN list = 1 .. n
    OBVIOUS
  <2>2. \A q \in P : \E k \in 1 .. n : q = list[k]
    BY <2>1 DEF Range
  <2>3. QED
    BY <2>1, <2>2 DEF Whole
<1> HIDE DEF t, c, P
<1>3. Len(c) \in Nat /\ DOMAIN c = 1 .. Len(c) /\ \A k \in 1 .. Len(c) : c[k] \in P
  BY <1>1
<1>4. i \in 1 .. Len(c) /\ i <= t.last /\ t.last \in Nat
  BY <1>1, <1>2, <1>3
<1>5. i = n
  <2>1. c[i].seq = i - 1 /\ c[i] \in P
    BY <1>1, <1>3, <1>4
  <2>2. i - 1 = n - 1
    BY <1>2, <1>8, <2>1
  <2>3. QED
    BY <1>4, <1>8, <2>2
<1>6. Len(c) = n
  <2> SUFFICES ASSUME Len(c) > n PROVE FALSE
    BY <1>3, <1>4, <1>5
  <2>1. n + 1 \in 1 .. Len(c)
    BY <1>3, <1>8
  <2>2. c[n + 1].seq >= (n + 1) - 1 /\ c[n + 1] \in P
    BY <1>1, <1>3, <2>1 DEF Spread
  <2>3. c[n + 1].seq \in 0 .. n - 1
    BY <1>8, <2>2
  <2>4. QED
    BY <1>8, <2>2, <2>3
<1>7. ASSUME NEW k \in 1 .. n PROVE c[k] = list[k]
  <2>1. k \in 1 .. Len(c) /\ k <= t.last
    BY <1>4, <1>5, <1>6, <1>8
  <2>2. c[k].seq = k - 1 /\ c[k] \in P
    BY <1>1, <1>3, <2>1
  <2>3. PICK j \in 1 .. n : c[k] = list[j]
    BY <1>8, <2>2
  <2>4. j - 1 = k - 1
    BY <1>8, <2>2, <2>3
  <2>5. j = k
    BY <1>8, <2>4
  <2>6. QED
    BY <2>3, <2>5
<1>9. c = list
  <2>1. list \in Seq(P)
    BY DEF P
  <2>2. QED
    BY <1>1, <1>6, <1>7, <2>1, SeqEqual
<1>10. QED
  BY <1>9 DEF c, t

LEMMA NothingWritten ==
  ASSUME \A m \in Messages : CarriedOf(m), UNCHANGED packVars
  PROVE  \A m \in Messages : CarriedOf(m)'
BY DEF CarriedOf, Packets, packVars

\* The packets of a message are those between which a sequencer is found.
LEMMA PacketsInOrder ==
  ASSUME PackersInv, NEW m \in Messages, m \in flushed
  PROVE  /\ Packets(m) \in Seq(Range(Packets(m)))
         /\ \A i \in DOMAIN Packets(m) : Packets(m)[i].seq = i - 1
<1>1. Packed(packer[m])
  BY DEF PackersInv
<1>2. Packets(m) \in Seq(SomePacket)
  BY <1>1 DEF Packed, Packets, Packers
<1>3. Packets(m) \in Seq(Range(Packets(m)))
  BY <1>2, SeqOfRange
<1>4. QED
  BY <1>1, <1>3 DEF Packed, Packets

LEMMA AttachQueues ==
  ASSUME CarryInv, NEW m \in Messages, Attach(m)
  PROVE  QueueHolds'
<1>1. PICK p \in Range(Packets(m)) : Collate(m, p)
  BY DEF Attach
<1> DEFINE list == Packets(m)
           n == Len(list)
           s == IF m \notin DOMAIN mapping \/ SinglePacket(p) THEN EmptySequencer ELSE mapping[m]
           t == Insert(s, p)
<1>2. /\ Inv /\ PackersInv /\ QueueHolds /\ flushed = Messages
      /\ packer' = packer /\ flushed' = flushed
  BY DEF CarryInv, Inv, Attach, packVars
<1>3. Whole(Range(list), n) /\ p \in Range(list) /\ list \in Seq(Range(list))
      /\ \A i \in DOMAIN list : list[i].seq = i - 1
  BY <1>2, WholeIs, PacketsInOrder
<1>4. Sequencing(s, Range(list))
  BY <1>2, SequencerIs
<1>5. /\ IsDuplicate(s, p) => UNCHANGED queue
      /\ ~IsDuplicate(s, p) /\ Completes(s, t) => queue' = Enqueued(m, t)
      /\ ~IsDuplicate(s, p) /\ ~Completes(s, t) => UNCHANGED queue
  BY <1>1 DEF Collate
<1>6. \A k : Packets(k)' = Packets(k)
  BY <1>2 DEF Packets
<1>7. n = Len(list)
  OBVIOUS
<1>8. list = Packets(m) /\ t = Insert(s, p)
  OBVIOUS
<1> HIDE DEF list, s, n, t
<1>9. CASE queue' = queue
  BY <1>2, <1>6, <1>9 DEF QueueHolds
<1>10. CASE ~IsDuplicate(s, p) /\ Completes(s, t)
  <2> DEFINE entry == [message |-> m, chain |-> t.chain, meta |-> t.meta]
  <2>1. t.chain = list
    BY <1>3, <1>4, <1>7, <1>8, <1>10, CompletedIsWhole
  <2>2. queue' = <<entry>> \o queue \/ queue' = Append(queue, entry)
    BY <1>5, <1>10 DEF Enqueued
  <2>3. entry.message = m /\ entry.chain = Packets(m)
    BY <1>8, <2>1
  <2> HIDE DEF entry
  <2>4. \A i \in DOMAIN queue' : queue'[i] = entry \/ \E j \in DOMAIN queue : queue'[i] = queue[j]
    <3>1. queue \in Seq(Range(queue))
      BY <1>2 DEF Inv, CollatorTypes
    <3>2. \A k : Count(queue', k) = Count(queue, k) + One(entry, k)
               /\ \A i \in DOMAIN queue' :
                    queue'[i] = entry \/ \E j \in DOMAIN queue : queue'[i] = queue[j]
      BY <2>2, <3>1, EntersQueue
    <3>3. QED
      BY <3>2
  <2>5. QED
    BY <1>2, <1>6, <2>3, <2>4 DEF QueueHolds
<1>11. QED
  BY <1>5, <1>9, <1>10

LEMMA ResultQueues ==
  ASSUME CarryInv, GetNextResult
  PROVE  QueueHolds'
<1>1. /\ queue # <<>> /\ queue' = Tail(queue) /\ packer' = packer /\ flushed' = flushed
      /\ QueueHolds /\ queue \in Seq(Range(queue))
  BY DEF GetNextResult, packVars, CarryInv, Inv, CollatorTypes
<1>2. /\ queue' \in Seq(Range(queue)) /\ Len(queue') = Len(queue) - 1
      /\ \A i \in 1 .. Len(queue') : queue'[i] = queue[i + 1]
  BY <1>1, HeadTailProperties
<1>3. \A i \in DOMAIN queue' : i + 1 \in DOMAIN queue /\ queue'[i] = queue[i + 1]
  BY <1>1, <1>2
<1>4. \A k : Packets(k)' = Packets(k)
  BY <1>1 DEF Packets
<1>5. QED
  BY <1>1, <1>3, <1>4 DEF QueueHolds

LEMMA CarryStep == CarryInv /\ [Next]_vars => CarryInv'
<1> SUFFICES ASSUME CarryInv, [Next]_vars PROVE CarryInv'
  OBVIOUS
<1>1. Inv' /\ (\A m \in Messages : CarriedOf(m)) /\ QueueHolds
  BY CollatorStep DEF CarryInv
<1>2. ASSUME NEW m \in Messages, WriteRow(m) \/ SkipRow(m) \/ Finish(m)
      PROVE  (\A k \in Messages : CarriedOf(k)') /\ QueueHolds'
  <2>1. \A k \in Messages : CarriedOf(k)'
    BY <1>2, WriteRowCarries, SkipRowCarries, FinishCarries
  <2>2. m \notin flushed /\ queue' = queue
    BY <1>2 DEF WriteRow, SkipRow, Finish
  <2>3. DOMAIN queue = {}
    BY <1>1, <2>2 DEF QueueHolds
  <2>4. QED
    BY <2>1, <2>2, <2>3 DEF QueueHolds
<1>3. ASSUME NEW m \in Messages, Attach(m)
      PROVE  (\A k \in Messages : CarriedOf(k)') /\ QueueHolds'
  <2>1. UNCHANGED packVars
    BY <1>3 DEF Attach
  <2>2. QED
    BY <1>1, <1>3, <2>1, NothingWritten, AttachQueues
<1>4. ASSUME GetNextResult
      PROVE  (\A k \in Messages : CarriedOf(k)') /\ QueueHolds'
  <2>1. UNCHANGED packVars
    BY <1>4 DEF GetNextResult
  <2>2. QED
    BY <1>1, <1>4, <2>1, NothingWritten, ResultQueues
<1>5. ASSUME UNCHANGED <<packVars, queue>>
      PROVE  (\A k \in Messages : CarriedOf(k)') /\ QueueHolds'
  <2>1. QueueHolds'
    BY <1>1, <1>5 DEF QueueHolds, Packets, packVars
  <2>2. QED
    BY <1>1, <1>5, <2>1, NothingWritten
<1>6. ASSUME NEW m \in Messages, AttachFails(m)
      PROVE  (\A k \in Messages : CarriedOf(k)') /\ QueueHolds'
  BY <1>5, <1>6 DEF AttachFails
<1>7. ASSUME UNCHANGED vars
      PROVE  (\A k \in Messages : CarriedOf(k)') /\ QueueHolds'
  BY <1>5, <1>7 DEF vars
<1>8. (\A k \in Messages : CarriedOf(k)') /\ QueueHolds'
  BY <1>2, <1>3, <1>4, <1>6, <1>7 DEF Next
<1>9. QED
  BY <1>1, <1>8 DEF CarryInv

LEMMA CarryInvCarries == CarryInv => QueuedCarriesWritten
<1> SUFFICES ASSUME CarryInv, NEW i \in DOMAIN queue
             PROVE  LET m     == queue[i].message
                        chain == queue[i].chain
                    IN  /\ CarryRows([k \in DOMAIN chain |-> chain[k].data], rows[m])
                        /\ CarryMeta([k \in DOMAIN chain |-> chain[k].meta], packer[m].meta)
  BY DEF QueuedCarriesWritten
<1> DEFINE m == queue[i].message
<1>1. m \in Messages /\ m \in flushed /\ queue[i].chain = Packets(m)
  BY DEF CarryInv, Inv, CollatorTypes, QueueHolds
<1>2. CarryAll(Packets(m), rows[m], packer[m].meta)
  BY <1>1 DEF CarryInv, CarriedOf
<1>3. QED
  BY <1>1, <1>2 DEF CarryAll

\* For all rows, metadata and sizes, wherever a row falls across buffers and in
\* whatever order the packets arrive, a queued message carries what its worker
\* has written: every byte of every row once and in order, no length cut in two,
\* and all the metadata (getBuffer, putBuffer and flush of CMessagePacker,
\* collate of CMessageCollator and insert of PackageSequencer).
THEOREM QueuedCarriesAll == Spec => []QueuedCarriesWritten
BY CarryStarts, CarryStep, CarryInvCarries, PTL DEF Spec
=============================================================================
