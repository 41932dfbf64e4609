--------------------------------- MODULE Ebml ---------------------------------
(***************************************************************************)
(* The EBML reader and writer (ebml_reader.c, ebml_writer.c) on sequences  *)
(* of bytes.  A position is the number of bytes in front of it, as offsets *)
(* in the code.  An element is an ID, a size and that many bytes of data;  *)
(* ID and size tell their own length by the leading zeros of their first   *)
(* byte.                                                                   *)
(***************************************************************************)
EXTENDS Integers, Sequences


Byte  == 0 .. 255
Int16 == {n \in Int : -32768 <= n /\ n < 32768}

\* The bit of the first byte that says that an ID or a size has n bytes, and what the
\* bytes of a number count, the last one first. Numbers have up to 4 bytes, as TLC has
\* integers of 32 bits.
Marker == <<128, 64, 32, 16, 8, 4, 2, 1>>
Place  == <<1, 256, 65536, 16777216>>

MKV_EBML        == 440786851   \* 0x1A45DFA3
MKV_Segment     == 408125543   \* 0x18538067
MKV_Tracks      == 374648427   \* 0x1654AE6B
MKV_Cluster     == 524531317   \* 0x1F43B675
MKV_Timecode    == 231         \* 0xE7
MKV_SimpleBlock == 163         \* 0xA3

\* A data size of all ones. It is the largest 64 bit value, and sums with it wrap
\* to what they are with -1.
Unknown == -1

-----------------------------------------------------------------------------
(* Reader *)

BigEndian(bytes) ==
  LET value[i \in 0 .. Len(bytes)] == IF i = 0 THEN 0 ELSE 256 * value[i - 1] + bytes[i]
  IN value[Len(bytes)]

\* Leading zeros of a byte that is not 0, plus 1.
OctetCount(b) == CHOOSE n \in 1 .. 8 : Marker[n] <= b /\ b < 2 * Marker[n]

\* The bytes of the ID or size at pos, none when the buffer ends before them.
Octets(buf, pos) ==
  IF pos < Len(buf) /\ pos + OctetCount(buf[pos + 1]) <= Len(buf)
  THEN SubSeq(buf, pos + 1, pos + OctetCount(buf[pos + 1]))
  ELSE <<>>

\* Both readers return 0 and do not move when the bytes are not all there. An ID
\* has 32 bits: of longer ones the end is left.
ReadElementId(buf, pos) ==
  LET Read(octets, n) ==
        [value |-> BigEndian(SubSeq(octets, IF n > 4 THEN n - 3 ELSE 1, n)), pos |-> pos + n]
      ReadAll(octets) == Read(octets, Len(octets))
  IN ReadAll(Octets(buf, pos))

ReadDataSize(buf, pos) ==
  LET Read(octets, n, first) ==
        [value |-> IF n = 0 THEN 0
                   ELSE IF first = Marker[n] - 1 /\ \A i \in 2 .. n : octets[i] = 255 THEN Unknown
                   ELSE BigEndian(<<first>> \o Tail(octets)),
         pos   |-> pos + n]
      ReadAll(octets) == Read(octets, Len(octets), octets[1] % Marker[Len(octets)])
  IN ReadAll(Octets(buf, pos))

ElementHeader == [id : Int, data_size : Int, header_size : Int, pos : Int]

\* The ID 0 is the only sign of an incomplete header. When the size is cut off the
\* position has moved behind the ID already, and the size counts as 0.
ReadElementHeader(buf, pos) ==
  LET Read(id, size) ==
        IF id.pos = pos
        THEN [id |-> 0, data_size |-> 0, header_size |-> 0, pos |-> pos]
        ELSE [id |-> id.value, data_size |-> size.value, header_size |-> size.pos - pos,
              pos |-> size.pos]
      ReadBoth(id) == Read(id, ReadDataSize(buf, id.pos))
  IN ReadBoth(ReadElementId(buf, pos))

\* The position is behind the header when its size is added once more.
ReadElement(buf, pos) ==
  LET Complete(e) ==
        IF e.id # 0 /\ e.pos + e.header_size + e.data_size <= Len(buf)
        THEN [e EXCEPT !.pos = @ + e.data_size]
        ELSE [e EXCEPT !.id = 0]
  IN Complete(ReadElementHeader(buf, pos))

\* ebml_read_uint and ebml_read_int.
ReadUint(bytes) == BigEndian(bytes)
ReadInt(bytes) ==
  IF bytes[1] < 128 THEN BigEndian(bytes) ELSE BigEndian(bytes) - Place[Len(bytes) + 1]

-----------------------------------------------------------------------------
(* Writer *)

\* The last n bytes of a value, the highest one first.
Bytes(value, n) == [i \in 1 .. n |-> (value \div Place[n + 1 - i]) % 256]

\* IDs are written without their leading zero bytes.
ElementId(id) == Bytes(id, CHOOSE n \in 1 .. 4 : id \div Place[n] \in 1 .. 255)

\* ebml_encoded_uint_required_bytes.
EncodedRequiredBytes(value) ==
  CHOOSE n \in 1 .. 4 :
    /\ value < Marker[n] * Place[n]
    /\ n > 1 => value >= Marker[n - 1] * Place[n - 1]

\* ebml_write_data_size of a value that fits into that many bytes, 0 for as few as
\* possible: one more when all bits would be ones.
DataSize(value, bytes) ==
  LET fit == IF bytes = 0 THEN EncodedRequiredBytes(value) ELSE bytes
      n   == IF value = Marker[fit] * Place[fit] - 1 THEN fit + 1 ELSE fit
  IN Bytes(value + Marker[n] * Place[n], n)

\* ebml_unencoded_uint_required_bytes. Of 0 __builtin_clzll is not defined; as the
\* Makefile builds it (without optimisation) bsr finds 0 in its target and leaves
\* it there, which makes 1 byte.
UnencodedRequiredBytes(value) ==
  CHOOSE n \in 1 .. 4 : value \div Place[n] \in (IF n = 1 THEN 0 ELSE 1) .. 255

\* ebml_element_uint
ElementUint(id, value) ==
  LET n == UnencodedRequiredBytes(value)
  IN ElementId(id) \o DataSize(n, 0) \o Bytes(value, n)

\* What is left of ebml_element_start, the data, and ebml_element_end, which fills
\* in the size.
Element(id, data) == ElementId(id) \o DataSize(Len(data), 4) \o data

=============================================================================
