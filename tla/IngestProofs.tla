---------------------------- MODULE IngestProofs ----------------------------
(***************************************************************************)
(* What comes of the bytes of any sources, however they are cut.           *)
(***************************************************************************)
EXTENDS Ingest, EbmlProofs, SpliceProofs

-----------------------------------------------------------------------------
(* What sources send *)

\* A number that a size of n bytes has room for.
Fits(v, n) == v <= IF n = 1 THEN 126 ELSE 16382

\* Sizes of elements are read as they are.
LEMMA MuxSizeLong ==
  ASSUME NEW n \in 2 .. 8, NEW v \in Nat, Fits(v, n)
  PROVE  IsSize(MuxSize(v, n), v, n)
<1> DEFINE o == MuxSize(v, n)
           high == v \div 256
           low == v % 256
           m == Marker[n]
           t == <<o[1] % m>> \o Tail(o)
<1>1. high \in 0 .. 63 /\ low \in 0 .. 255 /\ v = 256 * high + low
  <2>1. v \div 256 \in 0 .. 63
    BY SMT DEF Fits
  <2>2. v % 256 \in 0 .. 255
    BY SMT
  <2>3. v = 256 * (v \div 256) + (v % 256)
    BY Split
  <2> QED
    BY <2>1, <2>2, <2>3
<1>2. /\ n = 2 => m = 64
      /\ n # 2 => m \in 1 .. 32
  <2>1. n = 2 \/ n = 3 \/ n = 4 \/ n = 5 \/ n = 6 \/ n = 7 \/ n = 8
    OBVIOUS
  <2> QED
    BY <2>1, Tables
<1>3. o = [i \in 1 .. n |-> (IF i = 1 THEN m ELSE 0)
                              + CASE i = n -> low [] i = n - 1 -> high [] OTHER -> 0]
  BY DEF MuxSize
<1> HIDE DEF o, high, low, m
<1>4. /\ \A i \in 2 .. n : o[i] = IF i = n THEN low ELSE IF i = n - 1 THEN high ELSE 0
      /\ o[1] = m + (IF n = 2 THEN high ELSE 0)
  <2>1. \A i \in 1 .. n :
          o[i] = (IF i = 1 THEN m ELSE 0) + CASE i = n -> low [] i = n - 1 -> high [] OTHER -> 0
    BY <1>3
  <2>2. m \in Nat /\ high \in Nat /\ low \in Nat
    BY <1>1, <1>2
  <2>3. ASSUME NEW i \in 2 .. n
        PROVE  o[i] = IF i = n THEN low ELSE IF i = n - 1 THEN high ELSE 0
    <3>1. i \in 1 .. n /\ i # 1
      OBVIOUS
    <3>2. o[i] = 0 + CASE i = n -> low [] i = n - 1 -> high [] OTHER -> 0
      BY <2>1, <3>1
    <3>3. CASE i = n
      BY <2>2, <3>2, <3>3
    <3>4. CASE i # n /\ i = n - 1
      BY <2>2, <3>2, <3>4
    <3>5. CASE i # n /\ i # n - 1
      BY <3>2, <3>5
    <3> QED
      BY <3>3, <3>4, <3>5
  <2>4. o[1] = m + CASE 1 = n -> low [] 1 = n - 1 -> high [] OTHER -> 0
    BY <2>1
  <2>5. o[1] = m + (IF n = 2 THEN high ELSE 0)
    <3>1. CASE n = 2
      BY <2>4, <3>1
    <3>2. CASE n # 2
      <4>1. 1 # n /\ 1 # n - 1
        BY <3>2
      <4> QED
        BY <2>4, <3>2, <4>1
    <3> QED
      BY <3>1, <3>2
  <2> QED
    BY <2>3, <2>5
<1>5. \A i \in 1 .. n : o[i] \in Byte
  <2> SUFFICES ASSUME NEW i \in 1 .. n PROVE o[i] \in 0 .. 255
    BY DEF Byte
  <2>1. i = 1 \/ i \in 2 .. n
    OBVIOUS
  <2> QED
    BY <1>1, <1>2, <1>4, <2>1
<1>6. o \in Seq(Byte) /\ Len(o) = n
  <2>1. o \in [1 .. n -> Byte]
    BY <1>3, <1>5
  <2> QED
    BY <2>1
<1>7. IsOctets(o)
  <2>1. o[1] \in Nat /\ m <= o[1] /\ o[1] < 2 * m /\ o[1] # 0
    BY <1>1, <1>2, <1>4
  <2>2. OctetCount(o[1]) = n
    BY <2>1, OctetCountIs DEF m
  <2>3. o # <<>>
    <3>1. Len(o) = n /\ Len(<<>>) = 0
      BY <1>6
    <3> QED
      BY <3>1
  <2> QED
    BY <1>6, <2>1, <2>2, <2>3 DEF IsOctets
<1> DEFINE first == o[1] % m
<1>8. first = IF n = 2 THEN high ELSE 0
  <2>1. CASE n = 2
    BY <1>1, <1>2, <1>4, <2>1
  <2>2. CASE n # 2
    BY <1>2, <1>4, <2>2
  <2> QED
    BY <2>1, <2>2
<1>9. t = <<first>> \o Tail(o)
  OBVIOUS
<1> HIDE DEF t, first
<1>10. t \in Seq(Byte) /\ Len(t) = n /\ t[1] = first /\ \A i \in 2 .. n : t[i] = o[i]
  <2>1. first \in Byte /\ Len(o) >= 1
    BY <1>1, <1>6, <1>8 DEF Byte
  <2>2. <<first>> \o Tail(o) \in Seq(Byte) /\ Len(<<first>> \o Tail(o)) = Len(o)
        /\ (<<first>> \o Tail(o))[1] = first
        /\ \A i \in 2 .. Len(o) : (<<first>> \o Tail(o))[i] = o[i]
    <3>1. o \in Seq(Byte) /\ Len(o) >= 1 /\ first \in Byte
      BY <1>6, <2>1
    <3> QED
      BY <3>1, FirstReplaced
  <2> QED
    BY <1>6, <1>9, <2>2, Zenon
<1>11. BigEndian(t) = v
  <2> DEFINE f == [i \in 0 .. n |-> IF i = n THEN v ELSE IF i = n - 1 THEN high ELSE 0]
  <2>1. f[0] = 0 /\ f[n] = v /\ f[n - 1] = high /\ \A i \in 0 .. n - 2 : f[i] = 0
    OBVIOUS
  <2> HIDE DEF f
  <2>2. ASSUME NEW i \in 1 .. n PROVE f[i] = 256 * f[i - 1] + t[i]
    <3>1. CASE i = n
      <4>1. t[n] = low
        BY <1>4, <1>10
      <4> QED
        BY <1>1, <2>1, <3>1, <4>1
    <3>2. CASE i = n - 1
      <4>1. t[i] = high
        <5>1. CASE n = 2
          BY <1>8, <1>10, <3>2, <5>1
        <5>2. CASE n # 2
          BY <1>4, <1>10, <3>2, <5>2
        <5> QED
          BY <5>1, <5>2
      <4>2. f[i - 1] = 0 /\ f[i] = high
        BY <2>1, <3>2
      <4> QED
        BY <1>1, <4>1, <4>2
    <3>3. CASE i \in 1 .. n - 2
      <4>1. f[i] = 0 /\ f[i - 1] = 0
        BY <2>1, <3>3
      <4>2. t[i] = 0
        <5>1. CASE i = 1
          BY <1>8, <1>10, <3>3, <5>1
        <5>2. CASE i # 1
          BY <1>4, <1>10, <3>3, <5>2
        <5> QED
          BY <5>1, <5>2
      <4> QED
        BY <4>1, <4>2
    <3> QED
      BY <3>1, <3>2, <3>3
  <2> QED
    BY <1>10, <2>1, <2>2, BigEndianUnique
<1>12. ~(o[1] % m = m - 1 /\ \A i \in 2 .. n : o[i] = 255)
  <2> SUFFICES ASSUME first = m - 1, \A i \in 2 .. n : o[i] = 255 PROVE FALSE
    BY DEF first
  <2>1. low = 255
    BY <1>4
  <2>2. CASE n = 2
    <3>1. v # 256 * 63 + 255
      BY <2>2, SMT DEF Fits
    <3> QED
      BY <1>1, <1>2, <1>8, <2>1, <2>2, <3>1
  <2>3. CASE n # 2
    <3>1. n - 1 \in 2 .. n /\ o[n - 1] = high
      BY <1>4, <2>3
    <3> QED
      BY <1>1, <3>1
  <2> QED
    BY <2>2, <2>3
<1>13. SizeOf(o) = BigEndian(t)
  <2>1. SizeOf(o) = BigEndian(<<o[1] % Marker[n]>> \o Tail(o))
    <3>1. ~(o[1] % Marker[n] = Marker[n] - 1 /\ \A i \in 2 .. n : o[i] = 255)
      BY <1>12, Zenon DEF m
    <3>2. IsOctets(o) /\ n = Len(o)
      BY <1>6, <1>7
    <3> QED
      BY <3>1, <3>2, SizeIs
  <2> QED
    BY <1>9, <2>1, Zenon DEF first, m
<1> QED
  BY <1>6, <1>7, <1>11, <1>13 DEF IsSize, o

\* Sizes of 7 bits in 1 byte.
LEMMA MuxSizeShort ==
  ASSUME NEW v \in Nat, Fits(v, 1)
  PROVE  IsSize(MuxSize(v, 1), v, 1)
<1> DEFINE o == MuxSize(v, 1)
<1>0. v \in 0 .. 126
  BY SMT DEF Fits
<1>1. v % 256 = v /\ Marker[1] = 128
  BY <1>0, Tables, SMT
<1>2. o = [i \in 1 .. 1 |-> 128 + v]
  BY <1>1 DEF MuxSize
<1> HIDE DEF o
<1>3. o \in Seq(Byte) /\ Len(o) = 1 /\ o[1] = 128 + v
  <2>1. 128 + v \in Byte
    BY <1>0 DEF Byte
  <2>2. o \in [1 .. 1 -> Byte]
    BY <1>2, <2>1
  <2> QED
    BY <1>2, <2>2
<1> QED
  BY <1>0, <1>3, SizeOf1 DEF o

\* The sizes that sources write are read as they were.
LEMMA MuxSizeIs ==
  ASSUME NEW n \in 1 .. 8, NEW v \in Nat, Fits(v, n)
  PROVE  IsSize(MuxSize(v, n), v, n)
<1>1. CASE n = 1
  BY <1>1, MuxSizeShort
<1>2. CASE n # 1
  <2>1. n \in 2 .. 8
    BY <1>2
  <2> QED
    BY <2>1, MuxSizeLong, Zenon
<1> QED
  BY <1>1, <1>2

-----------------------------------------------------------------------------
(* The header *)

\* The elements of a header, and the size of its Segment.
EBMLElement   == [id |-> ElementId(MKV_EBML), size |-> MuxSize(0, 1), data |-> <<>>]
TracksElement == [id |-> ElementId(MKV_Tracks), size |-> MuxSize(1, 1), data |-> <<0>>]

SegmentSize(u, unknown) ==
  IF unknown THEN MuxUnknownSize(u.segment) ELSE MuxSize(100, u.segment)

\* Two elements and between them the beginning of the Segment.
LEMMA HeaderElements ==
  /\ IsElement(EBMLElement) /\ BigEndian(EBMLElement.id) = MKV_EBML
  /\ Len(EBMLElement.id) = 4 /\ Len(EBMLElement.size) = 1 /\ EBMLElement.data = <<>>
  /\ IsElement(TracksElement) /\ BigEndian(TracksElement.id) = MKV_Tracks
  /\ Len(TracksElement.id) = 4 /\ Len(TracksElement.size) = 1 /\ Len(TracksElement.data) = 1
<1>1. /\ IsId(ElementId(MKV_EBML), MKV_EBML, 4)
      /\ IsId(ElementId(MKV_Tracks), MKV_Tracks, 4)
  BY Ids
<1>2. IsSize(MuxSize(0, 1), 0, 1) /\ IsSize(MuxSize(1, 1), 1, 1)
  <2>1. Fits(0, 1) /\ Fits(1, 1)
    BY SMT DEF Fits
  <2> QED
    BY <2>1, MuxSizeIs
<1>3. <<>> \in Seq(Byte) /\ Len(<<>>) = 0 /\ <<0>> \in Seq(Byte) /\ Len(<<0>>) = 1
  BY DEF Byte
<1>4. /\ EBMLElement.id = ElementId(MKV_EBML) /\ EBMLElement.size = MuxSize(0, 1)
      /\ EBMLElement.data = <<>>
      /\ TracksElement.id = ElementId(MKV_Tracks) /\ TracksElement.size = MuxSize(1, 1)
      /\ TracksElement.data = <<0>>
  BY Zenon DEF EBMLElement, TracksElement
<1>5. 4 <= 4
  OBVIOUS
<1>6. IsElement(EBMLElement)
  BY <1>1, <1>2, <1>3, <1>4, <1>5, Zenon DEF IsElement, IsId, IsSize
<1>7. IsElement(TracksElement)
  BY <1>1, <1>2, <1>3, <1>4, <1>5, Zenon DEF IsElement, IsId, IsSize
<1> QED
  BY <1>1, <1>2, <1>3, <1>4, <1>6, <1>7, Zenon DEF IsId, IsSize

\* A size of all ones has the length of any other.
LEMMA UnknownSizeIs ==
  ASSUME NEW n \in 1 .. 8
  PROVE  IsOctets(MuxUnknownSize(n)) /\ Len(MuxUnknownSize(n)) = n /\ UnknownSize(n) = MuxUnknownSize(n)
<1> DEFINE m == Marker[n]
           o == MuxUnknownSize(n)
<1>1. m \in 1 .. 128
  <2>1. n = 1 \/ n = 2 \/ n = 3 \/ n = 4 \/ n = 5 \/ n = 6 \/ n = 7 \/ n = 8
    OBVIOUS
  <2> QED
    BY <2>1, Tables
<1>2. o = [i \in 1 .. n |-> IF i = 1 THEN 2 * m - 1 ELSE 255] /\ UnknownSize(n) = o
  BY DEF MuxUnknownSize, UnknownSize
<1> HIDE DEF o, m
<1>3. o[1] = 2 * m - 1 /\ \A i \in 1 .. n : o[i] \in Byte
  BY <1>1, <1>2 DEF Byte
<1>4. o \in Seq(Byte) /\ Len(o) = n
  <2>1. o \in [1 .. n -> Byte]
    BY <1>2, <1>3
  <2> QED
    BY <2>1
<1>5. o[1] \in Nat /\ m <= o[1] /\ o[1] < 2 * m /\ o[1] # 0
  BY <1>1, <1>3
<1>6. OctetCount(o[1]) = n
  BY <1>5, OctetCountIs DEF m
<1>7. o # <<>>
  <2>1. Len(o) = n /\ Len(<<>>) = 0
    BY <1>4
  <2> QED
    BY <2>1
<1> QED
  BY <1>2, <1>4, <1>5, <1>6, <1>7 DEF IsOctets, o

\* The size of the Segment is one, and when unknown what the code overwrites it with.
LEMMA SegmentSizeIs ==
  ASSUME NEW u \in Upload, NEW unknown \in BOOLEAN
  PROVE  /\ IsOctets(SegmentSize(u, unknown)) /\ Len(SegmentSize(u, unknown)) = u.segment
         /\ u.segment \in 1 .. 8
         /\ SegmentSize(u, TRUE) = UnknownSize(u.segment)
<1>1. u.segment \in 1 .. 8
  BY IngestAssumption
<1>2. Fits(100, u.segment)
  BY SMT DEF Fits
<1>3. IsSize(MuxSize(100, u.segment), 100, u.segment)
  BY <1>1, <1>2, MuxSizeIs
<1>4. /\ IsOctets(MuxUnknownSize(u.segment)) /\ Len(MuxUnknownSize(u.segment)) = u.segment
      /\ UnknownSize(u.segment) = MuxUnknownSize(u.segment)
  BY <1>1, UnknownSizeIs
<1> QED
  BY <1>1, <1>3, <1>4, Zenon DEF IsSize, SegmentSize

\* A header and what follows it.
LEMMA HeaderPieces ==
  ASSUME NEW u \in Upload, NEW unknown \in BOOLEAN, NEW M \in Seq(Byte), NEW w
  PROVE  LET a  == Whole(EBMLElement)
             id == ElementId(MKV_Segment)
             z  == SegmentSize(u, unknown)
             t  == Whole(TracksElement)
             n  == u.segment
         IN /\ a \in Seq(Byte) /\ id \in Seq(Byte) /\ z \in Seq(Byte) /\ t \in Seq(Byte)
            /\ Len(a) = 5 /\ Len(a \o id) = 9 /\ Len((a \o id) \o z) = 9 + n
            /\ a \o id \in Seq(Byte) /\ (a \o id) \o z \in Seq(Byte)
            /\ MuxHeader(u, unknown) \in Seq(Byte) /\ Len(MuxHeader(u, unknown)) = 15 + n
            /\ IsCut(MuxHeader(u, unknown), M, w) =>
                 /\ IsPart(w, <<>>, a, id \o (z \o (t \o M)))
                 /\ IsPart(w, a, id, z \o (t \o M))
                 /\ IsPart(w, (a \o id) \o z, t, M)
            /\ IsCut(MuxHeader(u, unknown), M, w) <=> IsPart(w, a \o id, z, t \o M)
<1> DEFINE A == ElementId(MKV_EBML)
           B == MuxSize(0, 1)
           D == ElementId(MKV_Tracks)
           E == MuxSize(1, 1)
           F == <<0>>
           a == Whole(EBMLElement)
           id == ElementId(MKV_Segment)
           z == SegmentSize(u, unknown)
           t == Whole(TracksElement)
           n == u.segment
           x == (a \o id) \o z
           header_ == MuxHeader(u, unknown)
<1>1. /\ A \in Seq(Byte) /\ B \in Seq(Byte) /\ D \in Seq(Byte) /\ E \in Seq(Byte) /\ F \in Seq(Byte)
      /\ a \in Seq(Byte) /\ Len(a) = 5 /\ t \in Seq(Byte) /\ Len(t) = 6
  <2>1. IsElement(EBMLElement) /\ IsElement(TracksElement)
    BY HeaderElements
  <2>2. /\ EBMLElement.id \in Seq(Byte) /\ EBMLElement.size \in Seq(Byte)
        /\ Whole(EBMLElement) \in Seq(Byte)
        /\ Len(Whole(EBMLElement)) = Len(EBMLElement.id) + Len(EBMLElement.size) + Len(EBMLElement.data)
    BY <2>1, WholeIs
  <2>3. /\ TracksElement.id \in Seq(Byte) /\ TracksElement.size \in Seq(Byte)
        /\ TracksElement.data \in Seq(Byte) /\ Whole(TracksElement) \in Seq(Byte)
        /\ Len(Whole(TracksElement))
             = Len(TracksElement.id) + Len(TracksElement.size) + Len(TracksElement.data)
    BY <2>1, WholeIs
  <2>4. Len(<<>>) = 0
    OBVIOUS
  <2>5. a \in Seq(Byte) /\ Len(a) = 5 /\ t \in Seq(Byte) /\ Len(t) = 6
    BY <2>2, <2>3, <2>4, HeaderElements
  <2> QED
    BY <2>2, <2>3, <2>5, Zenon DEF EBMLElement, TracksElement
<1>2. id \in Seq(Byte) /\ Len(id) = 4
  BY Ids DEF IsId, IsOctets
<1>3. z \in Seq(Byte) /\ Len(z) = n /\ n \in 1 .. 8
  BY SegmentSizeIs DEF IsOctets
<1>4. a = A \o B
  <2>1. a = (A \o B) \o <<>>
    BY Zenon DEF Whole, EBMLElement
  <2>2. A \o B \in Seq(Byte)
    BY <1>1, Concatenated
  <2> HIDE DEF A, B, a
  <2>3. (A \o B) \o <<>> = A \o B
    BY <2>2, EmptyConcat
  <2> QED
    BY <2>1, <2>3, Zenon
<1>5. t = (D \o E) \o F
  BY Zenon DEF Whole, TracksElement
<1>6. header_ = ((((((A \o B) \o id) \o z) \o D) \o E) \o F)
  BY Zenon DEF MuxHeader, SegmentSize
<1> HIDE DEF A, B, D, E, F, a, id, z, t, n, x, header_
<1>7. /\ a \o id \in Seq(Byte) /\ Len(a \o id) = 9
      /\ x \in Seq(Byte) /\ Len(x) = 9 + n
      /\ x \o t \in Seq(Byte) /\ Len(x \o t) = 15 + n
  <2>1. a \o id \in Seq(Byte) /\ Len(a \o id) = 9
    <3>1. a \in Seq(Byte) /\ id \in Seq(Byte)
      BY <1>1, <1>2
    <3>2. a \o id \in Seq(Byte) /\ Len(a \o id) = Len(a) + Len(id)
      BY <3>1, Concatenated
    <3> QED
      BY <1>1, <1>2, <3>2
  <2>2. x \in Seq(Byte) /\ Len(x) = 9 + n
    <3> DEFINE y == a \o id
    <3>1. y \in Seq(Byte) /\ Len(y) = 9 /\ x = y \o z
      BY <2>1, Zenon DEF x
    <3>2. z \in Seq(Byte)
      BY <1>3
    <3> HIDE DEF y
    <3>3. y \o z \in Seq(Byte) /\ Len(y \o z) = Len(y) + Len(z)
      <4>1. y \in Seq(Byte)
        BY <3>1
      <4> QED
        BY <3>2, <4>1, Concatenated
    <3>4. Len(y) + Len(z) = 9 + n
      BY <1>3, <3>1
    <3> QED
      BY <3>1, <3>3, <3>4, Zenon
  <2>3. x \o t \in Seq(Byte) /\ Len(x \o t) = (9 + n) + 6
    <3>1. x \in Seq(Byte) /\ t \in Seq(Byte)
      BY <1>1, <2>2
    <3>2. x \o t \in Seq(Byte) /\ Len(x \o t) = Len(x) + Len(t)
      BY <3>1, Concatenated
    <3> QED
      BY <1>1, <2>2, <3>2
  <2> QED
    BY <1>3, <2>1, <2>2, <2>3
<1>8. header_ = x \o t
  <2>1. header_ = ((x \o D) \o E) \o F
    BY <1>4, <1>6, Zenon DEF x
  <2>2. D \o E \in Seq(Byte)
    BY <1>1, Concatenated
  <2>0. x \in Seq(Byte) /\ D \in Seq(Byte) /\ E \in Seq(Byte) /\ F \in Seq(Byte)
    BY <1>1, <1>7
  <2>3. (x \o D) \o E = x \o (D \o E)
    <3>1. Regroups(x, D, E)
      BY <2>0, Regroup
    <3> QED
      BY <3>1, Zenon DEF Regroups
  <2>4. (x \o (D \o E)) \o F = x \o ((D \o E) \o F)
    <3> DEFINE y == D \o E
    <3>1. y \in Seq(Byte)
      BY <2>2
    <3> HIDE DEF y
    <3>2. Regroups(x, y, F)
      BY <2>0, <3>1, Regroup
    <3> QED
      BY <3>2, Zenon DEF Regroups, y
  <2> QED
    BY <1>5, <2>1, <2>3, <2>4, Zenon
<1> DEFINE y == a \o id
           r == t \o M
           q == z \o r
           s == id \o q
<1>9. r \in Seq(Byte) /\ q \in Seq(Byte)
  <2>1. r \in Seq(Byte)
    BY <1>1, Concatenated
  <2> HIDE DEF r
  <2> QED
    BY <1>3, <2>1, Concatenated
<1>10. y \in Seq(Byte)
  BY <1>7
<1> HIDE DEF r, q, s, y
<1>11. /\ IsPart(w, x, t, M) <=> IsCut(x \o t, M, w)
       /\ IsPart(w, x, t, M) <=> IsCut(x, t \o M, w)
  BY <1>1, <1>7, PartCut
<1>12. /\ IsPart(w, y, z, r) <=> IsCut(y \o z, r, w)
       /\ IsPart(w, y, z, r) <=> IsCut(y, z \o r, w)
  BY <1>3, <1>9, <1>10, PartCut
<1>13. /\ IsPart(w, a, id, q) <=> IsCut(a \o id, q, w)
       /\ IsPart(w, a, id, q) <=> IsCut(a, id \o q, w)
  BY <1>1, <1>2, <1>9, PartCut
<1>14. s \in Seq(Byte)
  BY <1>2, <1>9, Concatenated DEF s
<1>15. IsPart(w, <<>>, a, s) <=> IsCut(a, s, w)
  BY <1>1, <1>14, PartCut
<1>16. /\ IsCut(header_, M, w) => IsPart(w, <<>>, a, s) /\ IsPart(w, a, id, q) /\ IsPart(w, x, t, M)
       /\ IsCut(header_, M, w) <=> IsPart(w, y, z, r)
  BY <1>8, <1>11, <1>12, <1>13, <1>15, Zenon DEF r, q, s, y, x
<1>17. header_ \in Seq(Byte) /\ Len(header_) = 15 + n
  BY <1>7, <1>8, Zenon
<1> QED
  BY <1>1, <1>2, <1>3, <1>7, <1>16, <1>17, Zenon DEF a, id, z, t, n, x, header_, r, q, s, y

\* What the readers make of a header, there or cut off.
HeaderRead(b, p, id, size, i, j) ==
  /\ ReadElementId(b, p) = [value |-> id, pos |-> p + i]
  /\ ReadDataSize(b, p + i) = [value |-> size, pos |-> p + i + j]

\* There is no whole ID and size at p.
HeaderMissing(b, p) ==
  \/ ReadElementId(b, p).pos = p
  \/ ReadDataSize(b, ReadElementId(b, p).pos).pos = ReadElementId(b, p).pos

\* As much of a number as the buffer has.
Seen(b, p, x) ==
  /\ p + Len(x) <= Len(b) => At(b, p, x)
  /\ p + Len(x) > Len(b) => CutAt(b, p, x)

\* An ID and a size of which the buffer has a part are read, or seen to be missing.
LEMMA ReadOrMissing ==
  ASSUME NEW b \in Seq(Byte), NEW p \in Nat, NEW x, IsOctets(x), NEW y, IsOctets(y), Len(x) <= 4,
         Seen(b, p, x), Seen(b, p + Len(x), y)
  PROVE  /\ p + Len(x) + Len(y) <= Len(b) => HeaderRead(b, p, BigEndian(x), SizeOf(y), Len(x), Len(y))
         /\ p + Len(x) + Len(y) > Len(b) => HeaderMissing(b, p)
<1> DEFINE i == Len(x)
           j == Len(y)
           n == Len(b)
<1>0. i \in 1 .. 8 /\ j \in 1 .. 8 /\ n \in Nat
  BY OctetsLength
<1>1. i <= 4
  OBVIOUS
<1>5. /\ p + i <= n => At(b, p, x)
      /\ p + i > n => CutAt(b, p, x)
      /\ (p + i) + j <= n => At(b, p + i, y)
      /\ (p + i) + j > n => CutAt(b, p + i, y)
  BY Zenon DEF Seen
<1>6. p + i \in Nat
  BY <1>0
<1> SUFFICES /\ p + i + j <= n => HeaderRead(b, p, BigEndian(x), SizeOf(y), i, j)
             /\ p + i + j > n => HeaderMissing(b, p)
  BY Zenon
<1>7. i = Len(x) /\ j = Len(y)
  OBVIOUS
<1> HIDE DEF i, j, n
<1>2. CASE p + i > n
  <2>1. ReadElementId(b, p).pos = p
    BY <1>2, <1>5, IdCut
  <2>2. ~(p + i + j <= n)
    BY <1>0, <1>2
  <2> QED
    BY <2>1, <2>2 DEF HeaderMissing
<1>3. CASE p + i <= n
  <2>1. ReadElementId(b, p) = [value |-> BigEndian(x), pos |-> p + i]
    BY <1>1, <1>3, <1>5, <1>7, IdAt
  <2>2. CASE p + i + j > n
    <3>1. ReadDataSize(b, p + i) = [value |-> 0, pos |-> p + i]
      BY <1>5, <1>6, <2>2, SizeCut
    <3>2. ~(p + i + j <= n)
      BY <1>0, <2>2
    <3>3. HeaderMissing(b, p)
      BY <2>1, <3>1 DEF HeaderMissing
    <3> QED
      BY <3>2, <3>3
  <2>3. CASE p + i + j <= n
    <3>1. ReadDataSize(b, p + i) = [value |-> SizeOf(y), pos |-> (p + i) + j]
      BY <1>5, <1>6, <1>7, <2>3, SizeAt
    <3>2. ~(p + i + j > n)
      BY <1>0, <2>3
    <3>3. HeaderRead(b, p, BigEndian(x), SizeOf(y), i, j)
      BY <2>1, <3>1 DEF HeaderRead
    <3> QED
      BY <3>2, <3>3
  <2>4. p + i + j > n \/ p + i + j <= n
    BY <1>0
  <2> QED
    BY <2>2, <2>3, <2>4
<1>4. p + i > n \/ p + i <= n
  BY <1>0
<1> QED
  BY <1>2, <1>3, <1>4

\* A part of a buffer is written over.
LEMMA OverwriteIs ==
  ASSUME NEW b \in Seq(Byte), NEW rest \in Seq(Byte), NEW pre \in Seq(Byte), NEW y \in Seq(Byte),
         NEW y2 \in Seq(Byte), Len(y2) = Len(y), NEW post \in Seq(Byte),
         NEW w, IsCut(b, rest, w), IsPart(w, pre, y, post), Len(pre) + Len(y) <= Len(b)
  PROVE  LET x == Overwrite(b, Len(pre), y2) IN
         /\ x \in Seq(Byte) /\ Len(x) = Len(b)
         /\ IsPart(x \o rest, pre, y2, post)
<1> DEFINE a == pre \o y
           a2 == pre \o y2
           c == y \o post
           p == Len(pre)
           z == SubSeq(b, Len(a) + 1, Len(b))
           x == Overwrite(b, p, y2)
<1>1. /\ a \in Seq(Byte) /\ Len(a) = p + Len(y) /\ p \in Nat /\ Len(y) \in Nat /\ Len(b) \in Nat
  <2>1. a \in Seq(Byte) /\ Len(a) = p + Len(y)
    BY Concatenated
  <2> HIDE DEF a
  <2> QED
    BY <2>1
<1>2. a2 \in Seq(Byte) /\ Len(a2) = p + Len(y)
  <2>1. a2 \in Seq(Byte) /\ Len(a2) = p + Len(y2)
    BY Concatenated
  <2> HIDE DEF a2
  <2> QED
    BY <2>1
<1>3. c \in Seq(Byte)
  BY Concatenated
<1>4. IsCut(a, post, w) /\ IsCut(pre, c, w)
  BY PartCut
<1>5. Len(a) <= Len(b) /\ p <= Len(b)
  BY <1>1
<1> HIDE DEF a, a2, c
<1>6. z \in Seq(Byte) /\ Len(z) = Len(b) - Len(a) /\ IsCut(z, rest, post)
  <2>1. a \in Seq(Byte) /\ IsCut(a, post, w) /\ Len(a) <= Len(b)
    BY <1>1, <1>4, <1>5
  <2> QED
    BY <2>1, Removed
<1>7. SubSeq(b, 1, p) = pre
  <2>1. IsCut(pre, c, w) /\ Len(pre) <= Len(b)
    BY <1>4, <1>5
  <2>2. Begins(b, pre)
    BY <1>3, <2>1, Removed
  <2> QED
    BY <2>2, Zenon DEF Begins
<1>8. x = a2 \o z
  <2>1. p + Len(y2) + 1 = Len(a) + 1
    BY <1>1
  <2>2. x = (pre \o y2) \o SubSeq(b, p + Len(y2) + 1, Len(b))
    BY <1>7, Zenon DEF Overwrite
  <2> QED
    BY <2>1, <2>2, Zenon DEF a2
<1> HIDE DEF z, x
<1>9. a2 \o z \in Seq(Byte) /\ Len(a2 \o z) = Len(a2) + Len(z)
  BY <1>2, <1>6, Concatenated
<1>10. Len(a2) + Len(z) = Len(b)
  BY <1>1, <1>2, <1>6
<1>11. Regroups(a2, z, rest)
  BY <1>2, <1>6, Regroup
<1>12. x \o rest = a2 \o post
  BY <1>6, <1>8, <1>11, Zenon DEF Regroups, IsCut
<1>13. IsPart(x \o rest, pre, y2, post)
  BY <1>12, Zenon DEF IsPart, a2
<1> QED
  BY <1>8, <1>9, <1>10, <1>13, Zenon DEF x, p

\* A part of a sequence is seen as far as the sequence has arrived.
LEMMA PartSeen ==
  ASSUME NEW b \in Seq(Byte), NEW rest \in Seq(Byte), NEW pre \in Seq(Byte), NEW o \in Seq(Byte),
         NEW post \in Seq(Byte), NEW w, IsCut(b, rest, w), IsPart(w, pre, o, post)
  PROVE  Seen(b, Len(pre), o)
<1>1. IsPart(b \o rest, pre, o, post)
  BY Zenon DEF IsCut
<1> QED
  BY <1>1, PartAt DEF Seen

\* The beginning of an element of a buffer that may be cut off.
LEMMA ElementSeen ==
  ASSUME NEW b \in Seq(Byte), NEW rest \in Seq(Byte), NEW pre \in Seq(Byte), NEW post \in Seq(Byte),
         NEW w, IsCut(b, rest, w), NEW e, IsElement(e), IsPart(w, pre, Whole(e), post)
  PROVE  LET p == Len(pre)
             i == Len(e.id)
             j == Len(e.size)
         IN /\ p + i + j <= Len(b) => HeaderRead(b, p, BigEndian(e.id), Len(e.data), i, j)
            /\ p + i + j > Len(b) => HeaderMissing(b, p)
<1> DEFINE p == Len(pre)
           x == e.id
           y == e.size
<1>1. IsPart(b \o rest, pre, Whole(e), post)
  BY Zenon DEF IsCut
<1>2. /\ p + Len(x) <= Len(b) => At(b, p, x)
      /\ p + Len(x) > Len(b) => CutAt(b, p, x)
      /\ (p + Len(x)) + Len(y) <= Len(b) => At(b, p + Len(x), y)
      /\ (p + Len(x)) + Len(y) > Len(b) => CutAt(b, p + Len(x), y)
  BY <1>1, ElementParts
<1>3. Seen(b, p, x) /\ Seen(b, p + Len(x), y)
  BY <1>2, Zenon DEF Seen
<1>4. IsOctets(x) /\ IsOctets(y) /\ Len(x) <= 4 /\ p \in Nat /\ SizeOf(y) = Len(e.data)
  BY DEF IsElement
<1> HIDE DEF p, x, y
<1>5. /\ p + Len(x) + Len(y) <= Len(b) => HeaderRead(b, p, BigEndian(x), SizeOf(y), Len(x), Len(y))
      /\ p + Len(x) + Len(y) > Len(b) => HeaderMissing(b, p)
  BY <1>3, <1>4, ReadOrMissing
<1> QED
  BY <1>4, <1>5, Zenon DEF p, x, y

\* What is read of a header of which the beginning is there.
LEMMA HeaderSeen ==
  ASSUME NEW u \in Upload, NEW unknown \in BOOLEAN, NEW M \in Seq(Byte),
         NEW b \in Seq(Byte), NEW rest \in Seq(Byte), NEW w, IsCut(b, rest, w),
         IsCut(MuxHeader(u, unknown), M, w)
  PROVE  LET n == u.segment
             size == SizeOf(SegmentSize(u, unknown))
         IN /\ 5 <= Len(b) => HeaderRead(b, 0, MKV_EBML, 0, 4, 1)
            /\ 5 > Len(b) => HeaderMissing(b, 0)
            /\ 9 + n <= Len(b) => HeaderRead(b, 5, MKV_Segment, size, 4, n)
            /\ 9 + n > Len(b) => HeaderMissing(b, 5)
            /\ 14 + n <= Len(b) => HeaderRead(b, 9 + n, MKV_Tracks, 1, 4, 1)
            /\ 14 + n > Len(b) => HeaderMissing(b, 9 + n)
<1> DEFINE a == Whole(EBMLElement)
           id == ElementId(MKV_Segment)
           z == SegmentSize(u, unknown)
           t == Whole(TracksElement)
           n == u.segment
           y == a \o id
           x == y \o z
           r == t \o M
           q == z \o r
           s == id \o q
           L == Len(b)
<1>1. /\ a \in Seq(Byte) /\ id \in Seq(Byte) /\ z \in Seq(Byte) /\ t \in Seq(Byte)
      /\ Len(a) = 5 /\ Len(y) = 9 /\ Len(x) = 9 + n
      /\ y \in Seq(Byte) /\ x \in Seq(Byte)
      /\ IsPart(w, <<>>, a, s) /\ IsPart(w, a, id, q) /\ IsPart(w, x, t, M) /\ IsPart(w, y, z, r)
  BY HeaderPieces, Zenon
<1>2. IsElement(EBMLElement) /\ IsElement(TracksElement)
  BY HeaderElements
<1>3. IsOctets(z) /\ Len(z) = n /\ n \in 1 .. 8
  BY SegmentSizeIs
<1>4. IsOctets(id) /\ Len(id) = 4 /\ BigEndian(id) = MKV_Segment
  BY Ids DEF IsId
<1>5. L \in Nat
  OBVIOUS
<1> HIDE DEF a, id, z, t, n, y, x, r, q, s, L
<1>6. r \in Seq(Byte) /\ q \in Seq(Byte) /\ s \in Seq(Byte) /\ <<>> \in Seq(Byte)
  <2>1. r \in Seq(Byte)
    BY <1>1, Concatenated DEF r
  <2>2. q \in Seq(Byte)
    BY <1>1, <2>1, Concatenated DEF q
  <2>3. s \in Seq(Byte)
    BY <1>1, <2>2, Concatenated DEF s
  <2> QED
    BY <2>1, <2>2, <2>3, EmptyConcat
<1>7. /\ 5 <= L => HeaderRead(b, 0, MKV_EBML, 0, 4, 1)
      /\ 5 > L => HeaderMissing(b, 0)
  <2> DEFINE i == Len(EBMLElement.id)
             j == Len(EBMLElement.size)
             k == Len(EBMLElement.data)
             d == BigEndian(EBMLElement.id)
             p == Len(<<>>)
  <2>1. i = 4 /\ j = 1 /\ k = 0 /\ d = MKV_EBML /\ p = 0
    <3>1. Len(<<>>) = 0
      OBVIOUS
    <3> QED
      BY <3>1, HeaderElements
  <2>2. IsPart(w, <<>>, Whole(EBMLElement), s)
    BY <1>1 DEF a
  <2>3. /\ p + i + j <= Len(b) => HeaderRead(b, p, d, k, i, j)
        /\ p + i + j > Len(b) => HeaderMissing(b, p)
    BY <1>2, <1>6, <2>2, ElementSeen
  <2> HIDE DEF i, j, k, d, p
  <2>4. p + i + j = 5
    BY <2>1
  <2> QED
    BY <2>1, <2>3, <2>4, Zenon DEF L
<1>8. /\ 14 + n <= L => HeaderRead(b, 9 + n, MKV_Tracks, 1, 4, 1)
      /\ 14 + n > L => HeaderMissing(b, 9 + n)
  <2> DEFINE i == Len(TracksElement.id)
             j == Len(TracksElement.size)
             k == Len(TracksElement.data)
             d == BigEndian(TracksElement.id)
             p == Len(x)
  <2>1. i = 4 /\ j = 1 /\ k = 1 /\ d = MKV_Tracks /\ p = 9 + n
    BY <1>1, HeaderElements
  <2>2. IsPart(w, x, Whole(TracksElement), M)
    BY <1>1 DEF t
  <2>3. /\ p + i + j <= Len(b) => HeaderRead(b, p, d, k, i, j)
        /\ p + i + j > Len(b) => HeaderMissing(b, p)
    BY <1>1, <1>2, <2>2, ElementSeen
  <2> HIDE DEF i, j, k, d, p
  <2>4. p + i + j = 14 + n
    BY <1>3, <2>1
  <2> QED
    BY <2>1, <2>3, <2>4, Zenon DEF L
<1>9. /\ 9 + n <= L => HeaderRead(b, 5, MKV_Segment, SizeOf(z), 4, n)
      /\ 9 + n > L => HeaderMissing(b, 5)
  <2>1. Seen(b, Len(a), id) /\ Seen(b, Len(y), z)
    BY <1>1, <1>6, PartSeen
  <2>2. Len(a) = 5 /\ Len(y) = 5 + Len(id) /\ 5 \in Nat /\ Len(id) <= 4
    BY <1>1, <1>4
  <2>3. Seen(b, 5, id) /\ Seen(b, 5 + Len(id), z)
    BY <2>1, <2>2, Zenon
  <2>4. /\ 5 + Len(id) + Len(z) <= Len(b)
             => HeaderRead(b, 5, BigEndian(id), SizeOf(z), Len(id), Len(z))
        /\ 5 + Len(id) + Len(z) > Len(b) => HeaderMissing(b, 5)
    BY <1>3, <1>4, <2>2, <2>3, ReadOrMissing
  <2>5. 5 + Len(id) + Len(z) = 9 + n
    BY <1>3, <1>4
  <2> QED
    BY <1>3, <1>4, <2>4, <2>5, Zenon DEF L
<1> QED
  BY <1>7, <1>8, <1>9, Zenon DEF n, z, L

\* One round of ExtractHeader in a buffer of n bytes.
Looks(p, size, b) == [pos |-> p, size |-> size, buffer |-> b]

Look(n, s) ==
  LET id   == ReadElementId(s.buffer, s.pos)
      size == ReadDataSize(s.buffer, id.pos)
      end  == size.pos + size.value
  IN IF s.size # 0 THEN s
     ELSE IF id.pos = s.pos \/ size.pos = id.pos THEN [s EXCEPT !.size = -1]
     ELSE IF id.value = MKV_Segment
       THEN [s EXCEPT !.pos = size.pos,
                      !.buffer = Overwrite(@, id.pos, UnknownSize(size.pos - id.pos))]
     ELSE IF end > n THEN [s EXCEPT !.size = -1]
     ELSE IF id.value = MKV_Tracks THEN [s EXCEPT !.size = end]
     ELSE [s EXCEPT !.pos = end]

\* It ends where an ID or a size is missing.
LEMMA LookMissing ==
  ASSUME NEW n, NEW p, NEW b, HeaderMissing(b, p)
  PROVE  Look(n, Looks(p, 0, b)) = Looks(p, -1, b)
<1> DEFINE id == ReadElementId(b, p)
           size == ReadDataSize(b, id.pos)
           s == Looks(p, 0, b)
<1>1. id.pos = p \/ size.pos = id.pos
  BY DEF HeaderMissing
<1>2. s.pos = p /\ s.size = 0 /\ s.buffer = b
  BY DEF Looks
<1>3. Look(n, s) = [s EXCEPT !.size = -1]
  BY <1>1, <1>2 DEF Look
<1> QED
  BY <1>3 DEF Looks

\* What a round makes of an element with ID d and size v, i and j bytes long.
Looked(n, p, b, d, v, i, j) ==
  LET s == Looks(p, 0, b) IN
  /\ d = MKV_Segment =>
       Look(n, s) = Looks(p + i + j, 0, Overwrite(b, p + i, UnknownSize(j)))
  /\ d # MKV_Segment /\ p + i + j + v > n => Look(n, s) = Looks(p, -1, b)
  /\ d = MKV_Tracks /\ p + i + j + v <= n => Look(n, s) = Looks(p, p + i + j + v, b)
  /\ d = MKV_EBML /\ p + i + j + v <= n => Look(n, s) = Looks(p + i + j + v, 0, b)

\* A round does that when it reads such an element.
LEMMA LookRead ==
  ASSUME NEW n \in Nat, NEW p \in Nat, NEW b, NEW d, NEW v \in Int, NEW i \in 1 .. 8, NEW j \in 1 .. 8,
         HeaderRead(b, p, d, v, i, j)
  PROVE  Looked(n, p, b, d, v, i, j)
<1> DEFINE id == ReadElementId(b, p)
           size == ReadDataSize(b, id.pos)
           s == Looks(p, 0, b)
<1>1. id = [value |-> d, pos |-> p + i]
  BY DEF HeaderRead
<1>2. size = [value |-> v, pos |-> p + i + j]
  BY <1>1 DEF HeaderRead
<1>3. s = [pos |-> p, size |-> 0, buffer |-> b]
  BY DEF Looks
<1>4. p + i # p /\ p + i + j # p + i /\ (p + i + j) - (p + i) = j
  OBVIOUS
<1>5. Look(n, s) =
        IF d = MKV_Segment
          THEN [s EXCEPT !.pos = p + i + j, !.buffer = Overwrite(b, p + i, UnknownSize(j))]
        ELSE IF p + i + j + v > n THEN [s EXCEPT !.size = -1]
        ELSE IF d = MKV_Tracks THEN [s EXCEPT !.size = p + i + j + v]
        ELSE [s EXCEPT !.pos = p + i + j + v]
  <2> HIDE DEF s, id, size
  <2>1. s.size = 0 /\ s.pos = p /\ s.buffer = b
    BY <1>3
  <2>2. id.pos = p + i /\ id.value = d /\ size.pos = p + i + j /\ size.value = v
    BY <1>1, <1>2
  <2>3. ReadElementId(s.buffer, s.pos) = id /\ ReadDataSize(s.buffer, id.pos) = size
    BY <2>1 DEF id, size
  <2> QED
    BY <1>4, <2>1, <2>2, <2>3 DEF Look
<1>6. d = MKV_Tracks \/ d = MKV_EBML => d # MKV_Segment
  BY IdsDiffer
<1>7. d = MKV_EBML => d # MKV_Tracks
  BY IdsDiffer
<1>8. p + i + j + v > n <=> ~(p + i + j + v <= n)
  OBVIOUS
<1> DEFINE o == Overwrite(b, p + i, UnknownSize(j))
           e == p + i + j + v
           f == p + i + j
<1> HIDE DEF o, e, f, s
<1>9. Look(n, s) =
        IF d = MKV_Segment THEN [s EXCEPT !.pos = f, !.buffer = o]
        ELSE IF e > n THEN [s EXCEPT !.size = -1]
        ELSE IF d = MKV_Tracks THEN [s EXCEPT !.size = e]
        ELSE [s EXCEPT !.pos = e]
  BY <1>5 DEF o, e, f
<1>10. /\ [s EXCEPT !.pos = f, !.buffer = o] = Looks(f, 0, o)
       /\ [s EXCEPT !.size = -1] = Looks(p, -1, b)
       /\ [s EXCEPT !.size = e] = Looks(p, e, b)
       /\ [s EXCEPT !.pos = e] = Looks(e, 0, b)
  <2>1. [s EXCEPT !.pos = f, !.buffer = o] = Looks(f, 0, o)
    <3> DEFINE t == [s EXCEPT !.pos = f, !.buffer = o]
    <3>1. t = [s EXCEPT !.pos = f, !.buffer = o]
      OBVIOUS
    <3> HIDE DEF t
    <3>2. t = [pos |-> f, size |-> 0, buffer |-> o]
      BY <1>3, <3>1
    <3> QED
      BY <3>2 DEF t, Looks
  <2>2. [s EXCEPT !.size = -1] = Looks(p, -1, b)
    BY <1>3 DEF Looks
  <2>3. [s EXCEPT !.size = e] = Looks(p, e, b)
    BY <1>3 DEF Looks
  <2>4. [s EXCEPT !.pos = e] = Looks(e, 0, b)
    BY <1>3 DEF Looks
  <2> QED
    BY <2>1, <2>2, <2>3, <2>4
<1>11. e > n <=> ~(e <= n)
  BY <1>8 DEF e
<1> QED
  BY <1>6, <1>7, <1>9, <1>10, <1>11, Zenon DEF Looked, s, o, e, f

\* A loop that is done after a round.
LEMMA IterateDone ==
  ASSUME NEW step, NEW a, NEW c, step[a] = c, step[c] = c, NEW n \in Nat, n > 0
  PROVE  Iterate(step, a, n) = c
<1>1. n - 1 \in Nat
  OBVIOUS
<1>2. Iterate(step, a, n) = Iterate(step, c, n - 1)
  BY IterateFirst
<1>3. Iterate(step, c, n - 1) = c
  BY <1>1, IterateStays
<1> QED
  BY <1>2, <1>3

\* What ExtractHeader makes of the beginning of what a source sends: all of the header
\* once it is there, with a Segment of unknown size; until then some of it, of which it
\* may have been the size of the Segment already.
LEMMA ExtractHeaderIs ==
  ASSUME NEW u \in Upload, NEW unknown \in BOOLEAN, NEW M \in Seq(Byte),
         NEW b \in Seq(Byte), b # <<>>, NEW rest \in Seq(Byte), NEW w, IsCut(b, rest, w),
         IsCut(MuxHeader(u, unknown), M, w)
  PROVE  LET x == ExtractHeader(b)
             n == u.segment
         IN /\ x.buffer \in Seq(Byte) /\ Len(x.buffer) = Len(b)
            /\ 15 + n <= Len(b) => x.size = 15 + n /\ IsCut(MuxHeader(u, TRUE), M, x.buffer \o rest)
            /\ 15 + n > Len(b) =>
                 /\ x.size = -1
                 /\ \/ IsCut(MuxHeader(u, TRUE), M, x.buffer \o rest)
                    \/ IsCut(MuxHeader(u, unknown), M, x.buffer \o rest)
<1> DEFINE n == u.segment
           L == Len(b)
           S == [pos : Nat, size : Int, buffer : Seq(Byte)]
           step == [s \in S |-> Look(L, s)]
           b2 == Overwrite(b, 9, UnknownSize(n))
           size == SizeOf(SegmentSize(u, unknown))
           s0 == Looks(0, 0, b)
           s1 == Looks(5, 0, b)
           s2 == Looks(9 + n, 0, b2)
           x == ExtractHeader(b)
<1>1. x = Iterate(step, s0, L)
  BY Zenon DEF ExtractHeader, Look, Looks
<1>2. n \in 1 .. 8 /\ L \in Nat /\ L > 0
  <2>1. L \in Nat /\ L # 0
    <3>1. b \in Seq(Byte) /\ b # <<>>
      OBVIOUS
    <3> QED
      BY <3>1 DEF L
  <2> QED
    BY <2>1, IngestAssumption
<1>3. size \in Int
  <2>1. IsOctets(SegmentSize(u, unknown))
    BY SegmentSizeIs
  <2> QED
    BY <2>1, SizeType
<1>4. ASSUME 9 + n <= L
      PROVE  b2 \in Seq(Byte) /\ Len(b2) = L /\ IsCut(MuxHeader(u, TRUE), M, b2 \o rest)
  <2> DEFINE y == Whole(EBMLElement) \o ElementId(MKV_Segment)
             z == SegmentSize(u, unknown)
             z2 == SegmentSize(u, TRUE)
             r == Whole(TracksElement) \o M
             c == Overwrite(b, Len(y), z2)
  <2>1. y \in Seq(Byte) /\ z \in Seq(Byte) /\ Len(y) = 9 /\ IsPart(w, y, z, r)
        /\ Whole(TracksElement) \in Seq(Byte)
    BY HeaderPieces, Zenon
  <2>2. z2 \in Seq(Byte) /\ Len(z2) = Len(z) /\ Len(z) = n /\ z2 = UnknownSize(n)
    BY SegmentSizeIs DEF IsOctets
  <2>3. r \in Seq(Byte)
    BY <2>1, Concatenated
  <2>4. IsCut(MuxHeader(u, TRUE), M, c \o rest) <=> IsPart(c \o rest, y, z2, r)
    BY HeaderPieces, Zenon
  <2> HIDE DEF y, z, z2, r, c
  <2>5. c \in Seq(Byte) /\ Len(c) = Len(b) /\ IsPart(c \o rest, y, z2, r)
    <3>1. Len(y) + Len(z) <= Len(b)
      BY <1>4, <2>1, <2>2
    <3>2. y \in Seq(Byte) /\ z \in Seq(Byte) /\ z2 \in Seq(Byte) /\ r \in Seq(Byte)
          /\ Len(z2) = Len(z) /\ IsPart(w, y, z, r)
      BY <2>1, <2>2, <2>3
    <3> QED
      BY <3>1, <3>2, OverwriteIs, Zenon DEF c
  <2>6. c = b2
    BY <2>1, <2>2, Zenon DEF c
  <2> QED
    BY <2>4, <2>5, <2>6, Zenon
<1> HIDE DEF L, S, step, b2, size, s0, s1, s2, x, n
<1>5. /\ 5 <= L => HeaderRead(b, 0, MKV_EBML, 0, 4, 1)
      /\ 5 > L => HeaderMissing(b, 0)
      /\ 9 + n <= L => HeaderRead(b, 5, MKV_Segment, size, 4, n)
      /\ 9 + n > L => HeaderMissing(b, 5)
  BY HeaderSeen, Zenon DEF n, L, size
<1>6. ASSUME 9 + n <= L
      PROVE  /\ 14 + n <= L => HeaderRead(b2, 9 + n, MKV_Tracks, 1, 4, 1)
             /\ 14 + n > L => HeaderMissing(b2, 9 + n)
  <2>1. IsCut(b2, rest, b2 \o rest)
    BY CutConcat
  <2>2. b2 \in Seq(Byte) /\ IsCut(MuxHeader(u, TRUE), M, b2 \o rest) /\ TRUE \in BOOLEAN
    BY <1>4, <1>6
  <2>3. /\ 14 + n <= Len(b2) => HeaderRead(b2, 9 + n, MKV_Tracks, 1, 4, 1)
        /\ 14 + n > Len(b2) => HeaderMissing(b2, 9 + n)
    BY <2>1, <2>2, HeaderSeen, Zenon DEF n
  <2> QED
    BY <1>4, <1>6, <2>3, Zenon
<1>7. \A p \in Nat, z \in Int, y \in Seq(Byte) :
        /\ step[Looks(p, z, y)] = Look(L, Looks(p, z, y))
        /\ z # 0 => step[Looks(p, z, y)] = Looks(p, z, y)
  <2> SUFFICES ASSUME NEW p \in Nat, NEW z \in Int, NEW y \in Seq(Byte)
               PROVE  /\ step[Looks(p, z, y)] = Look(L, Looks(p, z, y))
                      /\ z # 0 => step[Looks(p, z, y)] = Looks(p, z, y)
    OBVIOUS
  <2>1. Looks(p, z, y) \in S
    BY DEF S, Looks
  <2>2. step[Looks(p, z, y)] = Look(L, Looks(p, z, y))
    BY <2>1, Zenon DEF step
  <2>3. z # 0 => Look(L, Looks(p, z, y)) = Looks(p, z, y)
    <3>1. Looks(p, z, y).size = z
      BY DEF Looks
    <3> QED
      BY <3>1, Zenon DEF Look
  <2> QED
    BY <2>2, <2>3
<1>8. \A p \in Nat, y \in Seq(Byte), i \in 0 .. L :
        i > 0 /\ Look(L, Looks(p, 0, y)) = Looks(p, -1, y)
          => Iterate(step, Looks(p, 0, y), i) = Looks(p, -1, y)
  <2> SUFFICES ASSUME NEW p \in Nat, NEW y \in Seq(Byte), NEW i \in 0 .. L, i > 0,
                      Look(L, Looks(p, 0, y)) = Looks(p, -1, y)
               PROVE  Iterate(step, Looks(p, 0, y), i) = Looks(p, -1, y)
    OBVIOUS
  <2>1. i \in Nat /\ 0 \in Int /\ -1 \in Int /\ -1 # 0
    BY <1>2
  <2>2. step[Looks(p, 0, y)] = Looks(p, -1, y) /\ step[Looks(p, -1, y)] = Looks(p, -1, y)
    BY <1>7, <2>1
  <2> QED
    BY <2>1, <2>2, IterateDone
<1> SUFFICES /\ x.buffer \in Seq(Byte) /\ Len(x.buffer) = L
             /\ 15 + n <= L => x.size = 15 + n /\ IsCut(MuxHeader(u, TRUE), M, x.buffer \o rest)
             /\ 15 + n > L =>
                  /\ x.size = -1
                  /\ \/ IsCut(MuxHeader(u, TRUE), M, x.buffer \o rest)
                     \/ IsCut(MuxHeader(u, unknown), M, x.buffer \o rest)
  BY Zenon DEF x, n, L
<1>9. IsCut(MuxHeader(u, unknown), M, b \o rest)
  BY Zenon DEF IsCut
<1>10. \A p, z, y : Looks(p, z, y).size = z /\ Looks(p, z, y).buffer = y
  BY DEF Looks
<1>11. CASE 5 > L
  <2>1. Look(L, s0) = Looks(0, -1, b)
    BY <1>5, <1>11, LookMissing DEF s0
  <2>2. x = Looks(0, -1, b)
    <3>1. 0 \in Nat /\ b \in Seq(Byte) /\ L \in 0 .. L
      BY <1>2
    <3> QED
      BY <1>1, <1>2, <1>8, <2>1, <3>1 DEF s0
  <2>3. ~(15 + n <= L)
    BY <1>2, <1>11
  <2>4. Len(b) = L
    BY DEF L
  <2>5. x.size = -1 /\ x.buffer = b
    BY <1>10, <2>2
  <2> QED
    BY <1>9, <2>3, <2>4, <2>5, Zenon
<1>12. ASSUME 5 <= L
       PROVE  x = Iterate(step, s1, L - 1)
  <2>1. Look(L, s0) = s1
    <3> DEFINE v == 0
               i == 4
               j == 1
               e == v + i + j + v
    <3>1. HeaderRead(b, v, MKV_EBML, v, i, j)
      BY <1>5, <1>12
    <3>2. v \in Nat /\ v \in Int /\ i \in 1 .. 8 /\ j \in 1 .. 8 /\ L \in Nat
      BY <1>2
    <3>3. e = 5
      OBVIOUS
    <3> HIDE DEF v, i, j
    <3>4. Looked(L, v, b, MKV_EBML, v, i, j)
      BY <3>1, <3>2, LookRead
    <3>5. v + i + j + v <= L => Look(L, Looks(v, 0, b)) = Looks(e, 0, b)
      BY <3>4, Zenon DEF Looked
    <3> QED
      BY <1>12, <3>3, <3>5, Zenon DEF v, s0, s1
  <2>2. step[s0] = s1
    <3>1. 0 \in Nat /\ b \in Seq(Byte) /\ 0 \in Int
      OBVIOUS
    <3> QED
      BY <1>7, <2>1, <3>1, Zenon DEF s0
  <2> QED
    BY <1>1, <1>2, <2>2, IterateFirst
<1>13. CASE 5 <= L /\ 9 + n > L
  <2>1. Look(L, s1) = Looks(5, -1, b)
    BY <1>5, <1>13, LookMissing DEF s1
  <2>2. x = Looks(5, -1, b)
    <3>1. 5 \in Nat /\ b \in Seq(Byte) /\ L - 1 \in 0 .. L /\ L - 1 > 0
      BY <1>2, <1>13
    <3> QED
      BY <1>8, <1>12, <1>13, <2>1, <3>1 DEF s1
  <2>3. ~(15 + n <= L)
    BY <1>2, <1>13
  <2>4. Len(b) = L
    BY DEF L
  <2>5. x.size = -1 /\ x.buffer = b
    BY <1>10, <2>2
  <2> QED
    BY <1>9, <2>3, <2>4, <2>5, Zenon
<1>14. ASSUME 9 + n <= L
       PROVE  x = Iterate(step, s2, L - 2)
  <2>0. 5 <= L /\ L - 1 \in Nat /\ L - 1 > 0 /\ (L - 1) - 1 = L - 2 /\ L - 2 \in Nat
    BY <1>2, <1>14
  <2>1. Look(L, s1) = s2
    <3> DEFINE p == 5
               i == 4
               e == p + i + n
               f == p + i
    <3>1. HeaderRead(b, p, MKV_Segment, size, i, n)
      BY <1>5, <1>14
    <3>2. p \in Nat /\ i \in 1 .. 8 /\ n \in 1 .. 8 /\ L \in Nat /\ size \in Int
      BY <1>2, <1>3
    <3>3. e = 9 + n /\ f = 9
      BY <1>2
    <3> HIDE DEF p, i
    <3>4. Looked(L, p, b, MKV_Segment, size, i, n)
      BY <3>1, <3>2, LookRead
    <3>5. Look(L, Looks(p, 0, b)) = Looks(e, 0, Overwrite(b, f, UnknownSize(n)))
      BY <3>4, Zenon DEF Looked
    <3> QED
      BY <3>3, <3>5, Zenon DEF p, s1, s2, b2
  <2>2. step[s1] = s2
    <3>1. 5 \in Nat /\ b \in Seq(Byte) /\ 0 \in Int
      OBVIOUS
    <3> QED
      BY <1>7, <2>1, <3>1, Zenon DEF s1
  <2>3. Iterate(step, s1, L - 1) = Iterate(step, s2, L - 2)
    BY <2>0, <2>2, IterateFirst
  <2> QED
    BY <1>12, <2>0, <2>3
<1>15. CASE 9 + n <= L /\ 15 + n > L
  <2>0. 9 + n \in Nat /\ L - 2 \in 0 .. L /\ L - 2 > 0 /\ ~(15 + n <= L)
    BY <1>2, <1>15
  <2>1. Look(L, s2) = Looks(9 + n, -1, b2)
    <3>1. CASE 14 + n > L
      BY <1>6, <1>15, <3>1, LookMissing DEF s2
    <3>2. CASE 14 + n <= L
      <4> DEFINE p == 9 + n
                 v == 1
                 i == 4
                 e == p + i + v + v
      <4>1. HeaderRead(b2, p, MKV_Tracks, v, i, v)
        BY <1>6, <1>15, <3>2
      <4>2. p \in Nat /\ v \in Int /\ i \in 1 .. 8 /\ v \in 1 .. 8 /\ L \in Nat
        BY <1>2, <2>0
      <4>3. e > L
        BY <1>2, <1>15
      <4> HIDE DEF p, i, v
      <4>4. Looked(L, p, b2, MKV_Tracks, v, i, v)
        BY <4>1, <4>2, LookRead
      <4>5. MKV_Tracks # MKV_Segment
        BY IdsDiffer
      <4>6. Look(L, Looks(p, 0, b2)) = Looks(p, -1, b2)
        BY <4>3, <4>4, <4>5, Zenon DEF Looked
      <4> QED
        BY <4>6, Zenon DEF p, s2
    <3> QED
      BY <1>2, <3>1, <3>2
  <2>2. x = Looks(9 + n, -1, b2)
    BY <1>4, <1>8, <1>14, <1>15, <2>0, <2>1 DEF s2
  <2>3. x.size = -1 /\ x.buffer = b2
    BY <1>10, <2>2
  <2> QED
    BY <1>4, <1>15, <2>0, <2>3, Zenon
<1>16. CASE 15 + n <= L
  <2>0. 9 + n <= L /\ 14 + n <= L /\ 9 + n \in Nat /\ 15 + n \in Int /\ 15 + n # 0
        /\ L - 2 \in Nat /\ L - 2 > 0 /\ ~(15 + n > L) /\ 0 \in Int
    BY <1>2, <1>16
  <2>1. Look(L, s2) = Looks(9 + n, 15 + n, b2)
    <3> DEFINE p == 9 + n
               v == 1
               i == 4
               e == p + i + v + v
    <3>1. HeaderRead(b2, p, MKV_Tracks, v, i, v)
      BY <1>6, <2>0
    <3>2. p \in Nat /\ v \in Int /\ i \in 1 .. 8 /\ v \in 1 .. 8 /\ L \in Nat
      BY <1>2, <2>0
    <3>3. e = 15 + n
      BY <1>2
    <3> HIDE DEF p, i, v
    <3>4. Looked(L, p, b2, MKV_Tracks, v, i, v)
      BY <3>1, <3>2, LookRead
    <3>5. p + i + v + v <= L => Look(L, Looks(p, 0, b2)) = Looks(p, e, b2)
      BY <3>4, Zenon DEF Looked
    <3> QED
      BY <1>16, <3>3, <3>5, Zenon DEF p, s2
  <2> DEFINE s3 == Looks(9 + n, 15 + n, b2)
  <2>2. b2 \in Seq(Byte)
    BY <1>4, <2>0
  <2>3. step[s2] = s3 /\ step[s3] = s3
    <3>1. step[s2] = Look(L, s2)
      BY <1>7, <2>0, <2>2, Zenon DEF s2
    <3>2. step[s3] = s3
      BY <1>7, <2>0, <2>2, Zenon
    <3> QED
      BY <2>1, <3>1, <3>2, Zenon
  <2> HIDE DEF s3
  <2>4. Iterate(step, s2, L - 2) = s3
    BY <2>0, <2>3, IterateDone
  <2>5. x = s3
    BY <1>14, <2>0, <2>4, Zenon
  <2>6. x.size = 15 + n /\ x.buffer = b2
    BY <1>10, <2>5 DEF s3
  <2> QED
    BY <1>4, <2>0, <2>6, Zenon
<1>17. 5 > L \/ (5 <= L /\ 9 + n > L) \/ (9 + n <= L /\ 15 + n > L) \/ 15 + n <= L
  BY <1>2
<1> QED
  BY <1>11, <1>13, <1>15, <1>16, <1>17, Zenon

\* A size has as many bytes as it is given.
LEMMA MuxSizeLength ==
  ASSUME NEW v, NEW n \in Nat
  PROVE  Len(MuxSize(v, n)) = n
BY DEF MuxSize

-----------------------------------------------------------------------------
(* The clusters *)

\* The elements of a cluster.
TimecodeElement(t) == [id |-> ElementId(MKV_Timecode), size |-> MuxSize(1, 1), data |-> <<t>>]
PositionElement    == [id |-> ElementId(PositionId), size |-> MuxSize(1, 1), data |-> <<0>>]
BlockData(b) ==
  <<128 + b.track, (b.time \div 256) % 256, b.time % 256, IF b.key THEN 128 ELSE 0>>
BlockElement(b) ==
  [id |-> ElementId(MKV_SimpleBlock), size |-> MuxSize(4, 1), data |-> BlockData(b)]

\* An element of a cluster, and its bytes.
Child(c, i) ==
  IF i = 1 THEN TimecodeElement(c.timecode) ELSE IF i = 2 THEN PositionElement
  ELSE BlockElement(c.blocks[i - 2])

\* A cluster and its blocks have the values that the bytes have room for.
Sendable(c) == c \in Cluster /\ Muxable(c)

\* An ID and data of at most 126 bytes make an element.
LEMMA SmallElement ==
  ASSUME NEW id, NEW v, IsId(id, v, 1), NEW data \in Seq(Byte), NEW n \in 0 .. 126, Len(data) = n
  PROVE  LET e == [id |-> id, size |-> MuxSize(n, 1), data |-> data] IN
         /\ IsElement(e) /\ BigEndian(e.id) = v /\ Len(Whole(e)) = 2 + n
         /\ Whole(e) \in Seq(Byte) /\ Whole(e) = id \o MuxSize(n, 1) \o data
<1> DEFINE size == MuxSize(n, 1)
           e == [id |-> id, size |-> size, data |-> data]
<1>1. IsSize(size, n, 1)
  <2>1. n \in Nat /\ Fits(n, 1)
    BY SMT DEF Fits
  <2> QED
    BY <2>1, MuxSizeIs
<1>2. e.id = id /\ e.size = size /\ e.data = data
  OBVIOUS
<1> HIDE DEF size, e
<1>3. IsOctets(id) /\ Len(id) = 1 /\ Len(id) <= 4 /\ BigEndian(id) = v
  BY DEF IsId
<1>4. IsElement(e)
  BY <1>1, <1>2, <1>3 DEF IsElement, IsSize
<1>5. Whole(e) \in Seq(Byte) /\ Len(Whole(e)) = Len(e.id) + Len(e.size) + Len(e.data)
  BY <1>4, WholeIs
<1>8. Len(size) = 1
  BY <1>1 DEF IsSize
<1>6. Len(e.id) + Len(e.size) + Len(e.data) = 2 + n
  BY <1>2, <1>3, <1>8
<1>7. Whole(e) = id \o size \o data
  BY <1>2, Zenon DEF Whole
<1> QED
  BY <1>2, <1>3, <1>4, <1>5, <1>6, <1>7, Zenon DEF e, size

\* The ID of the position is one.
LEMMA PositionIs == IsId(ElementId(PositionId), PositionId, 1)
BY Ids, SMT DEF PositionId

\* What a block is written as.
LEMMA BlockBytes ==
  ASSUME NEW track \in 0 .. 126, NEW time \in Int, NEW flags \in {0, 128}
  PROVE  LET d == <<128 + track, (time \div 256) % 256, time % 256, flags>> IN
         d \in Seq(Byte) /\ Len(d) = 4
<1> DEFINE x == 128 + track
           y == (time \div 256) % 256
           z == time % 256
<1>1. x \in Byte /\ flags \in Byte
  BY DEF Byte
<1>2. y \in Byte /\ z \in Byte
  BY DEF Byte
<1> HIDE DEF x, y, z
<1>3. <<x, y, z, flags>> \in Seq(Byte) /\ Len(<<x, y, z, flags>>) = 4
  BY <1>1, <1>2
<1> QED
  BY <1>3 DEF x, y, z

\* What the blocks of a cluster have room for.
LEMMA BlockFits ==
  ASSUME NEW c, Sendable(c), NEW i \in 1 .. Len(c.blocks)
  PROVE  /\ c.blocks[i] \in Block
         /\ c.blocks[i].track \in 0 .. 126 /\ c.blocks[i].time \in Int16
         /\ c.blocks[i].time \in Int /\ c.blocks[i].key \in BOOLEAN
<1>1. c \in Cluster /\ Muxable(c)
  BY DEF Sendable
<1>2. c.blocks[i].track \in 0 .. 126 /\ c.blocks[i].time \in Int16
  BY <1>1, Zenon DEF Muxable
<1>3. c.blocks \in Seq(Block)
  BY <1>1 DEF Cluster
<1>4. c.blocks[i] \in Block
  BY <1>3
<1>5. c.blocks[i].key \in BOOLEAN /\ c.blocks[i].time \in Int
  BY <1>4 DEF Block
<1> QED
  BY <1>2, <1>4, <1>5

\* So is the data of a block.
LEMMA BlockDataIs ==
  ASSUME NEW b, b.track \in 0 .. 126, b.time \in Int
  PROVE  BlockData(b) \in Seq(Byte) /\ Len(BlockData(b)) = 4
<1> DEFINE f == IF b.key THEN 128 ELSE 0
<1>1. f \in {0, 128}
  BY Zenon
<1> HIDE DEF f
<1>2. LET d == <<128 + b.track, (b.time \div 256) % 256, b.time % 256, f>> IN
      d \in Seq(Byte) /\ Len(d) = 4
  BY <1>1, BlockBytes
<1> QED
  BY <1>2, Zenon DEF BlockData, f

\* What a cluster is made of.
LEMMA ChildIs ==
  ASSUME NEW c, Sendable(c), NEW i \in 1 .. 2 + Len(c.blocks)
  PROVE  LET e == Child(c, i) IN
         /\ IsElement(e) /\ Whole(e) \in Seq(Byte)
         /\ Len(Whole(e)) = IF i <= 2 THEN 3 ELSE 6
         /\ Len(e.id) = 1 /\ Len(e.size) = 1
         /\ BigEndian(e.id) = IF i = 1 THEN MKV_Timecode ELSE IF i = 2 THEN PositionId ELSE MKV_SimpleBlock
<1> DEFINE e == Child(c, i)
<1>1. /\ IsId(ElementId(MKV_Timecode), MKV_Timecode, 1)
      /\ IsId(ElementId(MKV_SimpleBlock), MKV_SimpleBlock, 1)
  BY Ids
<1>9. IsId(ElementId(PositionId), PositionId, 1)
  BY PositionIs
<1>2. \A x \in Byte : <<x>> \in Seq(Byte) /\ Len(<<x>>) = 1
  OBVIOUS
<1>3. 1 \in 0 .. 126 /\ 4 \in 0 .. 126 /\ 0 \in Byte
  BY DEF Byte
<1>5. CASE i = 1
  <2>1. c.timecode \in Byte
    BY DEF Sendable, Muxable
  <2> DEFINE t == TimecodeElement(c.timecode)
  <2>2. <<c.timecode>> \in Seq(Byte) /\ Len(<<c.timecode>>) = 1
    BY <1>2, <2>1
  <2>3. IsElement(t) /\ BigEndian(t.id) = MKV_Timecode /\ Len(Whole(t)) = 2 + 1 /\ Whole(t) \in Seq(Byte)
    BY <1>1, <1>3, <2>2, SmallElement, ZenonT(30) DEF TimecodeElement
  <2>4. t.id = ElementId(MKV_Timecode) /\ t.size = MuxSize(1, 1)
    BY Zenon DEF TimecodeElement
  <2>5. e = t
    BY <1>5, Zenon DEF Child
  <2>6. Len(t.id) = 1
    BY <1>1, <2>4 DEF IsId
  <2>7. Len(t.size) = 1
    BY <2>4, MuxSizeLength
  <2> HIDE DEF e, t
  <2>8. Len(Whole(t)) = 3
    BY <2>3
  <2> QED
    BY <1>5, <2>3, <2>5, <2>6, <2>7, <2>8 DEF e
<1>6. CASE i = 2
  <2> DEFINE t == PositionElement
  <2>2. <<0>> \in Seq(Byte) /\ Len(<<0>>) = 1
    BY <1>2, <1>3
  <2>3. IsElement(t) /\ BigEndian(t.id) = PositionId /\ Len(Whole(t)) = 2 + 1 /\ Whole(t) \in Seq(Byte)
    BY <1>3, <1>9, <2>2, SmallElement, ZenonT(30) DEF PositionElement
  <2>4. t.id = ElementId(PositionId) /\ t.size = MuxSize(1, 1)
    BY Zenon DEF PositionElement
  <2>5. e = t
    BY <1>6 DEF Child
  <2>6. Len(t.id) = 1
    BY <1>9, <2>4 DEF IsId
  <2>7. Len(t.size) = 1
    BY <2>4, MuxSizeLength
  <2> HIDE DEF e, t
  <2>8. Len(Whole(t)) = 3
    BY <2>3
  <2> QED
    BY <1>6, <2>3, <2>5, <2>6, <2>7, <2>8 DEF e
<1>7. CASE i > 2
  <2> DEFINE b == c.blocks[i - 2]
             t == BlockElement(b)
  <2>0. i - 2 \in 1 .. Len(c.blocks) /\ c.blocks \in Seq(Block)
    BY <1>7 DEF Sendable, Cluster
  <2>1. b.track \in 0 .. 126 /\ b.time \in Int
    BY <2>0, BlockFits, Zenon
  <2>2. BlockData(b) \in Seq(Byte) /\ Len(BlockData(b)) = 4
    BY <2>1, BlockDataIs
  <2>3. IsElement(t) /\ BigEndian(t.id) = MKV_SimpleBlock /\ Len(Whole(t)) = 2 + 4 /\ Whole(t) \in Seq(Byte)
    BY <1>1, <1>3, <2>2, SmallElement, ZenonT(30) DEF BlockElement
  <2>4. t.id = ElementId(MKV_SimpleBlock) /\ t.size = MuxSize(4, 1)
    BY Zenon DEF BlockElement
  <2>5. e = t
    <3>1. i # 1 /\ i # 2
      BY <1>7
    <3> QED
      BY <3>1, Zenon DEF Child
  <2>6. Len(t.id) = 1
    BY <1>1, <2>4 DEF IsId
  <2>7. Len(t.size) = 1
    BY <2>4, MuxSizeLength
  <2> HIDE DEF e, t, b
  <2>8. Len(Whole(t)) = 6
    BY <2>3
  <2>9. i # 1 /\ i # 2 /\ ~(i <= 2)
    BY <1>7
  <2> QED
    BY <2>3, <2>5, <2>6, <2>7, <2>8, <2>9, Zenon DEF e
<1>8. i = 1 \/ i = 2 \/ i > 2
  OBVIOUS
<1> QED
  BY <1>5, <1>6, <1>7, <1>8

\* MuxElements writes these.
LEMMA MuxElementsAre ==
  ASSUME NEW c, Sendable(c)
  PROVE  /\ MuxElements(c) \in Seq(Seq(Byte)) /\ Len(MuxElements(c)) = 2 + Len(c.blocks)
         /\ Len(c.blocks) \in Nat
         /\ \A i \in 1 .. 2 + Len(c.blocks) : MuxElements(c)[i] = Whole(Child(c, i))
<1> DEFINE n == Len(c.blocks)
           a == Whole(TimecodeElement(c.timecode))
           b == Whole(PositionElement)
           d == [i \in 1 .. n |-> Whole(BlockElement(c.blocks[i]))]
           m == MuxElements(c)
<1>1. n \in Nat
  BY DEF Sendable, Cluster
<1>2. m = <<a, b>> \o d
  <2>1. a = ElementId(MKV_Timecode) \o MuxSize(1, 1) \o <<c.timecode>>
    BY Zenon DEF Whole, TimecodeElement
  <2>2. b = ElementId(PositionId) \o MuxSize(1, 1) \o <<0>>
    BY Zenon DEF Whole, PositionElement
  <2>3. d = [i \in 1 .. n |-> MuxBlock(c.blocks[i])]
    BY ZenonT(30) DEF Whole, BlockElement, BlockData, MuxBlock
  <2> HIDE DEF a, b, d
  <2> QED
    BY <2>1, <2>2, <2>3, Zenon DEF MuxElements
<1>3. \A i \in 1 .. 2 + n : Whole(Child(c, i)) \in Seq(Byte)
  BY ChildIs
<1>4. a = Whole(Child(c, 1)) /\ b = Whole(Child(c, 2))
      /\ \A i \in 1 .. n : d[i] = Whole(Child(c, i + 2))
  <2>1. Child(c, 1) = TimecodeElement(c.timecode) /\ Child(c, 2) = PositionElement
    BY DEF Child
  <2>2. ASSUME NEW i \in 1 .. n PROVE d[i] = Whole(Child(c, i + 2))
    <3>1. i + 2 # 1 /\ i + 2 # 2 /\ (i + 2) - 2 = i
      BY <1>1
    <3>2. Child(c, i + 2) = BlockElement(c.blocks[i])
      BY <3>1, Zenon DEF Child
    <3> QED
      BY <3>2
  <2> QED
    BY <2>1, <2>2
<1>5. a \in Seq(Byte) /\ b \in Seq(Byte) /\ \A i \in 1 .. n : d[i] \in Seq(Byte)
  <2>1. 1 \in 1 .. 2 + n /\ 2 \in 1 .. 2 + n /\ \A i \in 1 .. n : i + 2 \in 1 .. 2 + n
    BY <1>1
  <2> QED
    BY <1>3, <1>4, <2>1, Zenon
<1>6. d \in Seq(Seq(Byte)) /\ Len(d) = n
  <2> DEFINE S == Seq(Byte)
  <2>1. d \in [1 .. n -> S]
    BY <1>5
  <2> HIDE DEF S, d
  <2>3. d \in Seq(S)
    BY <1>1, <2>1
  <2>4. Len(d) = n
    BY <1>1, <2>1
  <2> QED
    BY <2>3, <2>4 DEF S
<1> HIDE DEF a, b, d, m, n
<1>7. m \in Seq(Seq(Byte)) /\ Len(m) = 2 + n /\ m[1] = a /\ m[2] = b
      /\ \A i \in 1 .. n : m[2 + i] = d[i]
  <2> DEFINE S == Seq(Byte)
             x == <<a, b>>
  <2>1. a \in S /\ b \in S /\ d \in Seq(S) /\ Len(d) = n /\ m = x \o d
    BY <1>2, <1>5, <1>6
  <2> HIDE DEF S
  <2>2. x \in Seq(S) /\ Len(x) = 2 /\ x[1] = a /\ x[2] = b
    BY <2>1
  <2> HIDE DEF x
  <2>3. /\ x \o d \in Seq(S) /\ Len(x \o d) = Len(x) + Len(d)
        /\ \A i \in 1 .. Len(x) : (x \o d)[i] = x[i]
        /\ \A i \in 1 .. Len(d) : (x \o d)[Len(x) + i] = d[i]
    <3>1. x \in Seq(S) /\ d \in Seq(S)
      BY <2>1, <2>2
    <3> QED
      BY <3>1, Concatenated
  <2>4. m \in Seq(S) /\ Len(m) = 2 + n /\ \A i \in 1 .. n : m[2 + i] = d[i]
    BY <1>1, <2>1, <2>2, <2>3
  <2>5. 1 \in 1 .. Len(x) /\ 2 \in 1 .. Len(x)
    BY <2>2
  <2>6. m[1] = a /\ m[2] = b
    BY <2>1, <2>2, <2>3, <2>5
  <2> QED
    BY <2>4, <2>6 DEF S
<1>8. ASSUME NEW i \in 1 .. 2 + n PROVE m[i] = Whole(Child(c, i))
  <2>1. CASE i = 1
    BY <1>4, <1>7, <2>1
  <2>2. CASE i = 2
    BY <1>4, <1>7, <2>2
  <2>3. CASE i > 2
    <3>1. i - 2 \in 1 .. n /\ 2 + (i - 2) = i /\ (i - 2) + 2 = i
      BY <1>1, <2>3
    <3> QED
      BY <1>4, <1>7, <3>1, Zenon
  <2>4. i = 1 \/ i = 2 \/ i > 2
    BY <1>1
  <2> QED
    BY <2>1, <2>2, <2>3, <2>4
<1> QED
  BY <1>1, <1>7, <1>8, Zenon DEF m, n

\* The bytes of the elements of a cluster.
ChildBytes(c) == FlattenSeq(MuxElements(c))

\* Three bytes for the timecode and the position each, and six for a block.
LEMMA ChildBytesAre ==
  ASSUME NEW c, Sendable(c)
  PROVE  ChildBytes(c) \in Seq(Byte) /\ Len(ChildBytes(c)) = 6 + 6 * Len(c.blocks)
<1> DEFINE m == MuxElements(c)
           n == Len(c.blocks)
           N == 2 + n
<1>1. m \in Seq(Seq(Byte)) /\ Len(m) = N /\ n \in Nat
  BY MuxElementsAre
<1>2. \A i \in 1 .. N : m[i] \in Seq(Byte) /\ Len(m[i]) = IF i <= 2 THEN 3 ELSE 6
  <2> SUFFICES ASSUME NEW i \in 1 .. N
               PROVE  m[i] \in Seq(Byte) /\ Len(m[i]) = IF i <= 2 THEN 3 ELSE 6
    OBVIOUS
  <2>1. m[i] = Whole(Child(c, i))
    BY MuxElementsAre
  <2>2. Whole(Child(c, i)) \in Seq(Byte) /\ Len(Whole(Child(c, i))) = IF i <= 2 THEN 3 ELSE 6
    BY ChildIs
  <2> QED
    BY <2>1, <2>2, Zenon
<1> HIDE DEF m
<1>3. PICK f \in [0 .. Len(m) -> Seq(Byte)] : Concatenates(f, m) /\ FlattenSeq(m) = f[Len(m)]
  BY <1>1, FlattenIs
<1> DEFINE D == {i \in Nat : i <= N => Len(f[i]) = IF i <= 2 THEN 3 * i ELSE 6 * i - 6}
<1>4. 0 \in D
  BY <1>3 DEF Concatenates
<1>5. ASSUME NEW i \in Nat, i \in D PROVE i + 1 \in D
  <2> SUFFICES ASSUME i + 1 <= N
               PROVE  Len(f[i + 1]) = IF i + 1 <= 2 THEN 3 * (i + 1) ELSE 6 * (i + 1) - 6
    OBVIOUS
  <2>1. i + 1 \in 1 .. N /\ (i + 1) - 1 = i /\ i \in 0 .. N /\ Len(f[i]) = IF i <= 2 THEN 3 * i ELSE 6 * i - 6
    BY <1>1, <1>5
  <2> DEFINE x == f[i]
             y == m[i + 1]
  <2>2. x \in Seq(Byte) /\ y \in Seq(Byte) /\ f[i + 1] = x \o y
    BY <1>1, <1>2, <1>3, <2>1 DEF Concatenates
  <2>3. Len(x) = (IF i <= 2 THEN 3 * i ELSE 6 * i - 6) /\ Len(y) = IF i + 1 <= 2 THEN 3 ELSE 6
    BY <1>2, <2>1
  <2> HIDE DEF x, y
  <2>4. Len(x \o y) = Len(x) + Len(y)
    BY <2>2, Concatenated
  <2>5. Len(x) + Len(y) = IF i + 1 <= 2 THEN 3 * (i + 1) ELSE 6 * (i + 1) - 6
    BY <2>3
  <2> QED
    BY <2>2, <2>4, <2>5
<1>6. Nat \subseteq D
  <2> HIDE DEF D
  <2> QED
    BY <1>4, <1>5, SetInduction
<1>7. N \in D /\ N >= 2 /\ N \in 0 .. N
  BY <1>1, <1>6
<1>8. Len(f[N]) = 6 + 6 * n
  <2>1. Len(f[N]) = IF N <= 2 THEN 3 * N ELSE 6 * N - 6
    BY <1>7
  <2> QED
    BY <1>1, <2>1
<1>9. FlattenSeq(m) \in Seq(Byte) /\ FlattenSeq(m) = f[N]
  BY <1>1, <1>3, <1>7
<1> QED
  BY <1>8, <1>9, Zenon DEF ChildBytes, m, n

\* A cluster as an element.
ClusterElement(c) ==
  [id |-> ElementId(MKV_Cluster), size |-> MuxSize(Len(ChildBytes(c)), SizeOctets), data |-> ChildBytes(c)]

\* A cluster is an element.
LEMMA MuxClusterIs ==
  ASSUME NEW c, Sendable(c)
  PROVE  LET e == ClusterElement(c) IN
         /\ IsElement(e) /\ BigEndian(e.id) = MKV_Cluster /\ Len(e.id) = 4 /\ Len(e.size) = SizeOctets
         /\ Whole(e) = MuxCluster(c) /\ MuxCluster(c) \in Seq(Byte)
         /\ Len(MuxCluster(c)) = 4 + SizeOctets + Len(ChildBytes(c))
<1> DEFINE e == ClusterElement(c)
           n == Len(ChildBytes(c))
<1>1. ChildBytes(c) \in Seq(Byte) /\ n = 6 + 6 * Len(c.blocks)
  BY ChildBytesAre
<1>2. n \in Nat /\ SizeOctets \in 1 .. 8
  BY <1>1, IngestAssumption
<1>3. Fits(n, SizeOctets)
  <2>1. n <= Room
    BY <1>1, Zenon DEF Sendable, Muxable
  <2> QED
    BY <2>1 DEF Fits, Room
<1>4. IsSize(MuxSize(n, SizeOctets), n, SizeOctets)
  BY <1>2, <1>3, MuxSizeIs
<1>5. IsId(ElementId(MKV_Cluster), MKV_Cluster, 4)
  BY Ids
<1>6. e.id = ElementId(MKV_Cluster) /\ e.size = MuxSize(n, SizeOctets) /\ e.data = ChildBytes(c)
  BY Zenon DEF ClusterElement
<1>7. Whole(e) = MuxCluster(c)
  BY <1>6, Zenon DEF Whole, MuxCluster, ChildBytes
<1> HIDE DEF e
<1>8. Len(e.id) = 4 /\ Len(e.id) <= 4 /\ IsOctets(e.id) /\ BigEndian(e.id) = MKV_Cluster
  <2>1. e.id = ElementId(MKV_Cluster) /\ 4 <= 4
    BY <1>6
  <2> QED
    BY <1>5, <2>1, Zenon DEF IsId
<1>9. IsOctets(e.size) /\ SizeOf(e.size) = n /\ Len(e.size) = SizeOctets
  BY <1>4, <1>6 DEF IsSize
<1>10. IsElement(e)
  BY <1>1, <1>6, <1>8, <1>9 DEF IsElement
<1>11. Whole(e) \in Seq(Byte) /\ Len(Whole(e)) = Len(e.id) + Len(e.size) + Len(e.data)
  BY <1>10, WholeIs
<1> QED
  BY <1>6, <1>7, <1>8, <1>9, <1>10, <1>11, Zenon DEF e

\* Where the first cluster of a buffer ends, when there is enough behind it.
LEMMA ClusterSizeIs ==
  ASSUME NEW c, Sendable(c), SizeOctets <= 4,
         NEW b \in Seq(Byte), NEW rest \in Seq(Byte), NEW post \in Seq(Byte),
         NEW w, IsCut(b, rest, w), IsCut(MuxCluster(c), post, w)
  PROVE  LET n == Len(MuxCluster(c)) IN
         /\ n + 4 + SizeOctets <= Len(b) => ClusterSize(b) = n
         /\ n + 4 + SizeOctets > Len(b) => ClusterSize(b) = -1
<1> DEFINE C == MuxCluster(c)
           e == ClusterElement(c)
           n == Len(C)
           r == ReadElement(b, 0)
           look == [x \in ElementHeader |->
                      IF x.id \in {0, MKV_Cluster} THEN x ELSE ReadElement(b, x.pos)]
<1>1. /\ IsElement(e) /\ BigEndian(e.id) = MKV_Cluster /\ Len(e.id) = 4 /\ Len(e.size) = SizeOctets
      /\ Whole(e) = C /\ C \in Seq(Byte)
  BY MuxClusterIs, Zenon
<1>2. n \in Nat /\ Len(b) \in Nat /\ SizeOctets \in 1 .. 8
  BY <1>1, IngestAssumption
<1> HIDE DEF C, e, n, r
<1>3. r \in ElementHeader /\ (n + 4 + SizeOctets <= Len(b) => r.id = MKV_Cluster /\ r.pos = n)
      /\ (n + 4 + SizeOctets > Len(b) => r.id = 0)
  <2>1. IsPart(b \o rest, <<>>, Whole(e), post)
    <3>1. IsCut(Whole(e), post, b \o rest)
      BY <1>1, Zenon DEF IsCut, C
    <3>2. Whole(e) \in Seq(Byte) /\ <<>> \in Seq(Byte)
      BY <1>1, EmptyConcat
    <3> QED
      BY <3>1, <3>2, PartCut
  <2>2. BigEndian(e.id) # 0 /\ Len(e.size) <= Len(e.id)
    BY <1>1, <1>2, IdsDiffer
  <2>3. LET q == ReadElement(b, 0)
            m == Len(Whole(e)) + Len(e.id) + Len(e.size)
        IN /\ q \in ElementHeader
           /\ m <= Len(b) => q.id = BigEndian(e.id) /\ q.pos = Len(Whole(e))
           /\ m > Len(b) => q.id = 0
    BY <1>1, <2>1, <2>2, ReadElementIs
  <2> QED
    BY <1>1, <2>3, Zenon DEF r, n
<1>4. \A x \in ElementHeader : x.id \in {0, MKV_Cluster} => look[x] = x
  BY Zenon
<1>5. ClusterSize(b) = LET x == Iterate(look, r, Len(b))
                       IN IF x.id = MKV_Cluster THEN x.pos ELSE -1
  BY Zenon DEF ClusterSize, r
<1> HIDE DEF look
<1>6. CASE n + 4 + SizeOctets <= Len(b)
  <2>1. look[r] = r /\ r.id = MKV_Cluster /\ r.pos = n
    BY <1>3, <1>4, <1>6, Zenon
  <2>2. Iterate(look, r, Len(b)) = r
    BY <1>2, <2>1, IterateStays
  <2>3. ~(n + 4 + SizeOctets > Len(b))
    BY <1>2, <1>6
  <2>4. ClusterSize(b) = n
    BY <1>5, <2>1, <2>2, Zenon
  <2> QED
    BY <2>3, <2>4, Zenon DEF n, C
<1>7. CASE n + 4 + SizeOctets > Len(b)
  <2>1. look[r] = r /\ r.id = 0
    BY <1>3, <1>4, <1>7, Zenon
  <2>2. Iterate(look, r, Len(b)) = r
    BY <1>2, <2>1, IterateStays
  <2>3. ~(n + 4 + SizeOctets <= Len(b))
    BY <1>2, <1>7
  <2>4. 0 # MKV_Cluster
    BY IdsDiffer
  <2>5. ClusterSize(b) = -1
    BY <1>5, <2>1, <2>2, <2>4, Zenon
  <2> QED
    BY <2>3, <2>5, Zenon DEF n, C
<1>8. n + 4 + SizeOctets <= Len(b) \/ n + 4 + SizeOctets > Len(b)
  BY <1>2
<1> QED
  BY <1>6, <1>7, <1>8

\* There is no cluster in an empty buffer.
LEMMA ClusterSizeEmpty == ClusterSize(<<>>) = -1
<1> DEFINE b == <<>>
           r == ReadElement(b, 0)
           look == [x \in ElementHeader |->
                      IF x.id \in {0, MKV_Cluster} THEN x ELSE ReadElement(b, x.pos)]
<1>1. Octets(b, 0) = <<>>
  BY DEF Octets
<1>2. ReadElementId(b, 0).pos = 0
  BY <1>1 DEF ReadElementId
<1>3. ReadElementHeader(b, 0) = [id |-> 0, data_size |-> 0, header_size |-> 0, pos |-> 0]
  BY <1>2 DEF ReadElementHeader
<1>4. r = [id |-> 0, data_size |-> 0, header_size |-> 0, pos |-> 0]
  BY <1>3 DEF ReadElement
<1>5. r \in ElementHeader /\ r.id = 0
  BY <1>4 DEF ElementHeader
<1>6. ClusterSize(b) = LET x == Iterate(look, r, Len(b))
                       IN IF x.id = MKV_Cluster THEN x.pos ELSE -1
  BY Zenon DEF ClusterSize
<1> HIDE DEF r
<1>7. look[r] = r
  BY <1>5, Zenon
<1>8. Len(b) \in Nat
  OBVIOUS
<1> HIDE DEF look, b
<1>9. Iterate(look, r, Len(b)) = r
  BY <1>7, <1>8, IterateStays
<1>10. 0 # MKV_Cluster
  BY IdsDiffer
<1> QED
  BY <1>5, <1>6, <1>9, <1>10, Zenon DEF b

\* The clusters that a source sends, one by one, and its bytes after the first k.
Sent(u) == [i \in 1 .. Len(u.clusters) |-> MuxCluster(u.clusters[i])]
Rest(u, k) == Between(Sent(u), k, Len(u.clusters))

\* The clusters of a source are bytes, as many as it sends clusters.
LEMMA SentIs ==
  ASSUME NEW u \in Upload
  PROVE  /\ u.clusters \in Videos /\ u.clusters \in Seq(Cluster) /\ Len(u.clusters) \in Nat
         /\ Sent(u) \in Seq(Seq(Byte)) /\ Len(Sent(u)) = Len(u.clusters)
         /\ \A i \in 1 .. Len(u.clusters) :
              Sendable(u.clusters[i]) /\ Sent(u)[i] = MuxCluster(u.clusters[i])
         /\ \A k \in 0 .. Len(u.clusters) : MuxClusters(u, k) = Between(Sent(u), 0, k)
<1> DEFINE v == u.clusters
           N == Len(v)
           T == Seq(Byte)
           s == Sent(u)
<1>1. v \in Videos /\ v \in Seq(Cluster) /\ N \in Nat /\ \A i \in 1 .. N : Muxable(v[i])
  <2>1. v \in Videos /\ \A i \in 1 .. N : Muxable(v[i])
    BY IngestAssumption
  <2>2. v \in Seq(Cluster)
    BY <2>1, IngestAssumption, Zenon DEF SendClusters
  <2> HIDE DEF v
  <2>3. N \in Nat
    BY <2>2
  <2> QED
    BY <2>1, <2>2, <2>3
<1>2. \A i \in 1 .. N : v[i] \in Cluster
  <2> HIDE DEF v
  <2> QED
    BY <1>1
<1>3. \A i \in 1 .. N : Sendable(v[i])
  BY <1>1, <1>2, Zenon DEF Sendable
<1>4. s = [i \in 1 .. N |-> MuxCluster(v[i])]
  BY Zenon DEF Sent
<1>5. \A i \in 1 .. N : MuxCluster(v[i]) \in T
  BY <1>3, MuxClusterIs
<1> HIDE DEF v, N, T, s
<1>6. s \in [1 .. N -> T]
  BY <1>4, <1>5
<1>7. s \in Seq(T) /\ Len(s) = N
  <2>1. N \in Nat
    BY <1>1
  <2> QED
    BY <1>6, <2>1
<1>8. \A i \in 1 .. N : s[i] = MuxCluster(v[i])
  BY <1>4, Zenon
<1>9. ASSUME NEW k \in 0 .. N PROVE MuxClusters(u, k) = Between(s, 0, k)
  <2> DEFINE a == SubSeq(s, 0 + 1, k)
             b == [i \in 1 .. k |-> MuxCluster(v[i])]
  <2>1. a = [i \in 1 .. k |-> s[i]]
    <3>1. s \in Seq(T) /\ Len(s) = N /\ N \in Nat
      BY <1>1, <1>7
    <3>2. a \in Seq(T) /\ Len(a) = k /\ \A i \in 1 .. k : a[i] = s[i]
      BY <3>1
    <3> HIDE DEF a
    <3>3. a = [i \in 1 .. k |-> a[i]]
      BY <3>2
    <3> QED
      BY <3>2, <3>3
  <2>2. \A i \in 1 .. k : s[i] = MuxCluster(v[i])
    <3>1. \A i \in 1 .. k : i \in 1 .. N
      BY <1>1
    <3> QED
      BY <1>8, <3>1, Zenon
  <2>3. a = b
    <3> HIDE DEF a
    <3> QED
      BY <2>1, <2>2, Zenon
  <2>4. MuxClusters(u, k) = FlattenSeq(b)
    BY Zenon DEF MuxClusters, v
  <2> QED
    BY <2>3, <2>4, Zenon DEF Between
<1> QED
  BY <1>1, <1>3, <1>7, <1>8, <1>9, Zenon DEF v, N, T, s

\* The bytes after the first k clusters are the next cluster and what follows it.
LEMMA RestIs ==
  ASSUME NEW u \in Upload
  PROVE  /\ \A k \in 0 .. Len(u.clusters) : Rest(u, k) \in Seq(Byte)
         /\ \A k \in Nat : k < Len(u.clusters) => IsCut(Sent(u)[k + 1], Rest(u, k + 1), Rest(u, k))
         /\ Rest(u, Len(u.clusters)) = <<>>
         /\ Rest(u, 0) = MuxClusters(u, Len(u.clusters))
<1> DEFINE s == Sent(u)
           N == Len(u.clusters)
<1>1. s \in Seq(Seq(Byte)) /\ Len(s) = N /\ N \in Nat
  BY SentIs
<1>2. MuxClusters(u, N) = Between(s, 0, N)
  BY <1>1, SentIs
<1> HIDE DEF s, N
<1>3. ASSUME NEW k \in 0 .. N PROVE Between(s, k, N) \in Seq(Byte)
  <2>1. k \in Nat /\ k <= N /\ N <= Len(s)
    BY <1>1
  <2> QED
    BY <1>1, <2>1, FlattenSplit
<1>4. ASSUME NEW k \in Nat, k < N PROVE IsCut(s[k + 1], Between(s, k + 1, N), Between(s, k, N))
  <2>1. k + 1 \in Nat /\ k <= k + 1 /\ k + 1 <= N /\ N <= Len(s) /\ k + 1 <= Len(s)
    BY <1>1, <1>4
  <2>2. IsCut(Between(s, k, k + 1), Between(s, k + 1, N), Between(s, k, N))
    BY <1>1, <2>1, FlattenSplit
  <2>3. Between(s, k, k + 1) = s[k + 1]
    BY <1>1, <2>1, FlattenOne
  <2> QED
    BY <2>2, <2>3
<1>5. Between(s, N, N) = <<>>
  BY <1>1, FlattenNone
<1> QED
  BY <1>2, <1>3, <1>4, <1>5, Zenon DEF Rest, s, N

\* A part of a sequence.
LEMMA SubSeqIs ==
  ASSUME NEW S, NEW s \in Seq(S), NEW i \in Nat, NEW y \in Nat, i <= y, y <= Len(s)
  PROVE  LET a == SubSeq(s, i + 1, y) IN
         a \in Seq(S) /\ Len(a) = y - i /\ \A j \in 1 .. y - i : a[j] = s[i + j]
OBVIOUS

\* A part of a sequence and the next of its elements.
LEMMA SubSeqAppend ==
  ASSUME NEW S, NEW s \in Seq(S), NEW i \in Nat, NEW k \in Nat, i <= k, k + 1 <= Len(s)
  PROVE  Append(SubSeq(s, i + 1, k), s[k + 1]) = SubSeq(s, i + 1, k + 1)
<1> DEFINE a == SubSeq(s, i + 1, k)
           x == s[k + 1]
           b == SubSeq(s, i + 1, k + 1)
           c == Append(a, x)
<1>1. /\ a \in Seq(S) /\ Len(a) = k - i /\ \A j \in 1 .. k - i : a[j] = s[i + j]
      /\ b \in Seq(S) /\ Len(b) = k + 1 - i /\ \A j \in 1 .. k + 1 - i : b[j] = s[i + j]
      /\ x \in S
  <2> HIDE DEF a, b, x, c
  <2>2. k + 1 \in Nat /\ i <= k + 1 /\ k <= Len(s) /\ k + 1 \in 1 .. Len(s)
    OBVIOUS
  <2>3. a \in Seq(S) /\ Len(a) = k - i /\ \A j \in 1 .. k - i : a[j] = s[i + j]
    BY <2>2, SubSeqIs, Zenon DEF a
  <2>4. b \in Seq(S) /\ Len(b) = k + 1 - i /\ \A j \in 1 .. k + 1 - i : b[j] = s[i + j]
    <3> DEFINE y == k + 1
    <3>1. y \in Nat /\ i <= y /\ y <= Len(s)
      BY <2>2
    <3> HIDE DEF y
    <3>2. b \in Seq(S) /\ Len(b) = y - i /\ \A j \in 1 .. y - i : b[j] = s[i + j]
      <4>1. b = SubSeq(s, i + 1, y)
        BY Zenon DEF b, y
      <4> DEFINE z == SubSeq(s, i + 1, y)
      <4>2. z \in Seq(S) /\ Len(z) = y - i /\ \A j \in 1 .. y - i : z[j] = s[i + j]
        BY <3>1, SubSeqIs
      <4> HIDE DEF z
      <4>3. b = z
        BY <4>1 DEF z
      <4> QED
        BY <4>2, <4>3
    <3> QED
      BY <3>2 DEF y
  <2>5. x \in S
    BY <2>2 DEF x
  <2> QED
    BY <2>3, <2>4, <2>5, Zenon
<1>2. x = s[i + (k + 1 - i)]
  OBVIOUS
<1> HIDE DEF a, b, x
<1>3. /\ c \in Seq(S) /\ Len(c) = k + 1 - i
      /\ \A j \in 1 .. k - i : c[j] = a[j]
      /\ c[k + 1 - i] = x
  BY <1>1
<1> HIDE DEF c
<1>4. ASSUME NEW j \in 1 .. k + 1 - i PROVE c[j] = b[j]
  <2>1. CASE j \in 1 .. k - i
    BY <1>1, <1>3, <2>1
  <2>2. CASE j = k + 1 - i
    BY <1>1, <1>2, <1>3, <2>2
  <2> QED
    BY <2>1, <2>2
<1>5. c = b
  BY <1>1, <1>3, <1>4
<1> QED
  BY <1>5 DEF a, b, c, x

\* The next cluster cannot be told to be complete.
Held(u, k, buf) == k = Len(u.clusters) \/ Len(buf) < Len(Sent(u)[k + 1]) + 4 + SizeOctets

\* The code finds the next cluster, whole, or none.
LEMMA NextCluster ==
  ASSUME SizeOctets <= 4, NEW u \in Upload, NEW k \in 0 .. Len(u.clusters),
         NEW left \in Seq(Byte), NEW rest \in Seq(Byte), IsCut(left, rest, Rest(u, k))
  PROVE  \/ ClusterSize(left) = -1 /\ Held(u, k, left)
         \/ /\ k < Len(u.clusters) /\ Sent(u)[k + 1] \in Seq(Byte)
            /\ ClusterSize(left) = Len(Sent(u)[k + 1])
            /\ Len(Sent(u)[k + 1]) \in 1 .. Len(left)
<1> DEFINE N == Len(u.clusters)
           C == Sent(u)[k + 1]
           c == u.clusters[k + 1]
           post == Rest(u, k + 1)
<1>1. N \in Nat
  BY SentIs
<1>2. CASE k = N
  <2>1. IsCut(left, rest, <<>>)
    BY <1>2, RestIs, Zenon DEF N
  <2>2. Len(<<>>) = Len(left) + Len(rest) /\ Len(left) \in Nat /\ Len(rest) \in Nat
    BY <2>1, CutIs, SMTT(20)
  <2>3. left = <<>>
    <3>1. Len(left) = 0
      BY <2>2
    <3> QED
      BY <3>1
  <2> QED
    BY <1>2, <2>3, ClusterSizeEmpty, Zenon DEF Held, N
<1>3. CASE k # N
  <2>1. k < N /\ k + 1 \in 1 .. N /\ k \in Nat /\ k + 1 \in 0 .. N
    BY <1>1, <1>3
  <2>2. Sendable(c) /\ C = MuxCluster(c)
    BY <2>1, SentIs, Zenon
  <2>3. IsCut(C, post, Rest(u, k)) /\ post \in Seq(Byte)
    BY <2>1, RestIs, Zenon
  <2> HIDE DEF C, c, post, N
  <2>4. C \in Seq(Byte) /\ Len(C) = 4 + SizeOctets + Len(ChildBytes(c)) /\ Len(ChildBytes(c)) \in Nat
    <3>1. ChildBytes(c) \in Seq(Byte)
      BY <2>2, ChildBytesAre
    <3> QED
      BY <2>2, <3>1, MuxClusterIs
  <2>5. SizeOctets \in 1 .. 8
    BY IngestAssumption
  <2>6. /\ Len(C) + 4 + SizeOctets <= Len(left) => ClusterSize(left) = Len(C)
        /\ Len(C) + 4 + SizeOctets > Len(left) => ClusterSize(left) = -1
    BY <2>2, <2>3, ClusterSizeIs
  <2>7. CASE Len(C) + 4 + SizeOctets <= Len(left)
    <3>1. Len(C) \in 1 .. Len(left)
      BY <2>4, <2>5, <2>7
    <3> QED
      BY <2>1, <2>4, <2>6, <2>7, <3>1, Zenon DEF C, N
  <2>8. CASE Len(C) + 4 + SizeOctets > Len(left)
    <3>1. Len(left) < Len(C) + 4 + SizeOctets
      BY <2>4, <2>5, <2>8
    <3> QED
      BY <2>6, <2>8, <3>1, Zenon DEF C, Held
  <2>9. Len(C) + 4 + SizeOctets <= Len(left) \/ Len(C) + 4 + SizeOctets > Len(left)
    BY <2>4, <2>5
  <2> QED
    BY <2>7, <2>8, <2>9
<1> QED
  BY <1>2, <1>3

\* What is left of a buffer when its beginning is taken out.
Remains(b, a, rest, c) ==
  LET z == SubSeq(b, Len(a) + 1, Len(b)) IN
  z \in Seq(Byte) /\ Len(z) = Len(b) - Len(a) /\ Begins(b, a) /\ IsCut(z, rest, c)

\* What is left when a sequence was taken out of the front of a buffer.
LEMMA RemainsIs ==
  ASSUME NEW b \in Seq(Byte), NEW a \in Seq(Byte), NEW rest \in Seq(Byte), NEW c \in Seq(Byte),
         NEW w, IsCut(b, rest, w), IsCut(a, c, w), Len(a) <= Len(b)
  PROVE  Remains(b, a, rest, c)
BY Removed DEF Remains

\* The clusters that are taken out of a receive buffer, and what is left of it.
LEMMA ClustersAre ==
  ASSUME SizeOctets <= 4, NEW u \in Upload, NEW k \in 0 .. Len(u.clusters),
         NEW b \in Seq(Byte), NEW rest \in Seq(Byte), IsCut(b, rest, Rest(u, k))
  PROVE  \E j \in 0 .. Len(u.clusters) - k :
           LET t == Clusters(b) IN
           /\ t.found = SubSeq(Sent(u), k + 1, k + j)
           /\ t.left \in Seq(Byte) /\ IsCut(t.left, rest, Rest(u, k + j))
           /\ Held(u, k + j, t.left)
<1> DEFINE N == Len(u.clusters)
           S == [found : Seq(Seq(Byte)), left : Seq(Byte), size : Int]
           s == Sent(u)
           Found(j) == SubSeq(s, k + 1, k + j)
           At_(t, j) == /\ t.found = Found(j) /\ IsCut(t.left, rest, Rest(u, k + j))
                        /\ t.size = ClusterSize(t.left)
           I == {t \in S : \E j \in 0 .. N - k : At_(t, j)}
           take == [t \in S |->
                      LET left == SubSeq(t.left, t.size + 1, Len(t.left))
                      IN IF t.size = -1 THEN t
                         ELSE [found |-> Append(t.found, SubSeq(t.left, 1, t.size)),
                               left  |-> left,
                               size  |-> ClusterSize(left)]]
           start == [found |-> <<>>, left |-> b, size |-> ClusterSize(b)]
           measure == [t \in I |-> Len(t.left)]
<1>1. s \in Seq(Seq(Byte)) /\ Len(s) = N /\ N \in Nat
  BY SentIs
<1>2. Clusters(b) = Iterate(take, start, Len(b))
  BY Zenon DEF Clusters
<1>3. ASSUME NEW t \in S, NEW j \in 0 .. N - k, At_(t, j)
      PROVE  \/ t.size = -1 /\ Held(u, k + j, t.left) /\ take[t] = t
             \/ /\ take[t] \in S /\ At_(take[t], j + 1) /\ j + 1 \in 0 .. N - k
                /\ Len(take[t].left) < Len(t.left)
  <2> DEFINE left == t.left
             size == ClusterSize(left)
             q == k + j
             C == s[q + 1]
             z == SubSeq(left, Len(C) + 1, Len(left))
  <2>1. left \in Seq(Byte) /\ t.found \in Seq(Seq(Byte)) /\ t.size = size /\ t.found = Found(j)
        /\ IsCut(left, rest, Rest(u, q)) /\ q \in 0 .. N
    <3>1. left \in Seq(Byte) /\ t.found \in Seq(Seq(Byte))
      OBVIOUS
    <3>2. q \in 0 .. N
      BY <1>1
    <3> QED
      BY <1>3, <3>1, <3>2, Zenon
  <2> HIDE DEF left, size, q, C, z, s, N, Found
  <2>2. \/ size = -1 /\ Held(u, q, left)
        \/ q < N /\ C \in Seq(Byte) /\ size = Len(C) /\ Len(C) \in 1 .. Len(left)
    BY <2>1, NextCluster, Zenon DEF N, C, s, size
  <2>3. take[t] = IF t.size = -1 THEN t
                  ELSE [found |-> Append(t.found, SubSeq(left, 1, t.size)),
                        left  |-> SubSeq(left, t.size + 1, Len(left)),
                        size  |-> ClusterSize(SubSeq(left, t.size + 1, Len(left)))]
    BY Zenon DEF left
  <2> HIDE DEF take, I, S, At_
  <2>4. CASE size = -1 /\ Held(u, q, left)
    <3>1. take[t] = t
      BY <2>1, <2>3, <2>4, Zenon
    <3> QED
      BY <2>1, <2>4, <3>1, Zenon DEF q, left
  <2>5. CASE q < N /\ C \in Seq(Byte) /\ size = Len(C) /\ Len(C) \in 1 .. Len(left)
    <3>1. q \in Nat /\ q + 1 \in 0 .. N /\ j + 1 \in 0 .. N - k /\ q + 1 = k + (j + 1)
      BY <1>1, <2>1, <2>5 DEF q
    <3>2. IsCut(C, Rest(u, q + 1), Rest(u, q)) /\ Rest(u, q + 1) \in Seq(Byte)
      BY <2>5, <3>1, RestIs, Zenon DEF C, s, N
    <3>3. z \in Seq(Byte) /\ Len(z) = Len(left) - Len(C) /\ Begins(left, C) /\ IsCut(z, rest, Rest(u, q + 1))
      <4> DEFINE w == Rest(u, q)
                 post == Rest(u, q + 1)
      <4>1. left \in Seq(Byte) /\ C \in Seq(Byte) /\ post \in Seq(Byte)
            /\ IsCut(left, rest, w) /\ IsCut(C, post, w) /\ Len(C) <= Len(left)
        BY <2>1, <2>5, <3>2
      <4> HIDE DEF w, post
      <4>2. z \in Seq(Byte) /\ Len(z) = Len(left) - Len(C) /\ Begins(left, C) /\ IsCut(z, rest, post)
        <5>1. Remains(left, C, rest, post)
          BY <4>1, RemainsIs
        <5> QED
          BY <5>1, Zenon DEF Remains, z
      <4> QED
        BY <4>2 DEF post
    <3>4. SubSeq(left, 1, t.size) = C /\ t.size # -1
      <4>1. t.size = Len(C)
        BY <2>1, <2>5
      <4>2. Len(C) # -1
        BY <2>5
      <4> QED
        BY <3>3, <4>1, <4>2, Zenon DEF Begins
    <3>5. take[t] = [found |-> Append(Found(j), C), left |-> z, size |-> ClusterSize(z)]
      BY <2>1, <2>3, <2>5, <3>4, Zenon DEF z
    <3>6. Append(Found(j), C) = Found(j + 1)
      <4>1. q \in Nat /\ q + 1 <= Len(s) /\ k \in Nat /\ k <= q
        BY <1>1, <3>1 DEF q
      <4>2. Append(SubSeq(s, k + 1, q), s[q + 1]) = SubSeq(s, k + 1, q + 1)
        BY <1>1, <4>1, SubSeqAppend
      <4> QED
        BY <3>1, <4>2, Zenon DEF Found, q, C
    <3>7. ClusterSize(z) \in Int
      <4>1. \/ ClusterSize(z) = -1
            \/ ClusterSize(z) = Len(Sent(u)[q + 1 + 1]) /\ Len(Sent(u)[q + 1 + 1]) \in 1 .. Len(z)
        BY <3>1, <3>3, NextCluster, Zenon DEF N
      <4> QED
        BY <4>1
    <3> DEFINE t2 == take[t]
    <3>8. t2.found = Found(j + 1) /\ t2.left = z /\ t2.size = ClusterSize(z)
      BY <3>5, <3>6
    <3>9. Found(j + 1) \in Seq(Seq(Byte))
      <4> DEFINE T == Seq(Byte)
      <4>1. t.found \in Seq(T) /\ C \in T
        BY <2>1, <2>5
      <4> HIDE DEF T
      <4>2. Append(t.found, C) \in Seq(T)
        BY <4>1
      <4> QED
        BY <2>1, <3>6, <4>2 DEF T
    <3>10. t2 \in S
      BY <3>3, <3>5, <3>6, <3>7, <3>9 DEF S
    <3> HIDE DEF t2
    <3>11. At_(t2, j + 1)
      BY <3>1, <3>3, <3>8, Zenon DEF At_
    <3>12. Len(t2.left) < Len(left)
      BY <2>1, <2>5, <3>3, <3>8
    <3> QED
      BY <3>1, <3>10, <3>11, <3>12, Zenon DEF t2, left
  <2> QED
    BY <2>2, <2>4, <2>5
<1>4. start \in I /\ Len(b) \in Nat /\ measure \in [I -> Nat] /\ measure[start] <= Len(b)
  <2>1. ClusterSize(b) \in Int
    <3>1. \/ ClusterSize(b) = -1
          \/ ClusterSize(b) = Len(Sent(u)[k + 1]) /\ Len(Sent(u)[k + 1]) \in 1 .. Len(b)
      BY NextCluster, Zenon
    <3> QED
      BY <3>1
  <2>2. <<>> \in Seq(Seq(Byte))
    OBVIOUS
  <2>3. start \in S
    BY <2>1, <2>2
  <2>4. At_(start, 0) /\ 0 \in 0 .. N - k
    <3>1. Found(0) = <<>> /\ k + 0 = k /\ 0 \in 0 .. N - k
      BY <1>1
    <3>2. start.found = <<>> /\ start.left = b /\ start.size = ClusterSize(b)
      OBVIOUS
    <3> HIDE DEF Found, start
    <3>3. At_(start, 0)
      BY <3>1, <3>2, Zenon
    <3> QED
      BY <3>1, <3>3
  <2>5. start \in I
    <3> HIDE DEF S, start, At_
    <3> QED
      BY <2>3, <2>4
  <2>6. \A t \in I : Len(t.left) \in Nat
    <3>1. \A t \in S : Len(t.left) \in Nat
      OBVIOUS
    <3>2. I \subseteq S
      OBVIOUS
    <3> QED
      BY <3>1, <3>2
  <2>7. start.left = b /\ Len(b) \in Nat
    OBVIOUS
  <2> HIDE DEF I, start
  <2>8. measure \in [I -> Nat]
    BY <2>6
  <2>9. measure[start] <= Len(b)
    BY <2>5, <2>7
  <2> QED
    BY <2>5, <2>7, <2>8, <2>9
<1>9. \A t \in I : measure[t] = Len(t.left)
  <2> HIDE DEF I
  <2> QED
    OBVIOUS
<1> HIDE DEF s, N, S, I, take, start, measure, Found, At_
<1>5. ASSUME NEW t \in I PROVE take[t] \in I /\ (take[t] = t \/ measure[take[t]] < measure[t])
  <2>1. PICK j \in 0 .. N - k : At_(t, j) /\ t \in S
    BY DEF I
  <2>2. CASE take[t] = t
    BY <2>2
  <2>3. CASE /\ take[t] \in S /\ At_(take[t], j + 1) /\ j + 1 \in 0 .. N - k
             /\ Len(take[t].left) < Len(t.left)
    <3>1. take[t] \in I
      BY <2>3, Zenon DEF I
    <3>2. measure[take[t]] = Len(take[t].left) /\ measure[t] = Len(t.left)
      BY <1>9, <3>1, Zenon
    <3> QED
      BY <2>3, <3>1, <3>2, Zenon
  <2> QED
    BY <1>3, <2>1, <2>2, <2>3, Zenon
<1> DEFINE end == Clusters(b)
<1>6. end \in I /\ take[end] = end
  <2> DEFINE n == Len(b)
             e == Iterate(take, start, n)
  <2>1. \A t \in I : take[t] \in I /\ (take[t] = t \/ measure[take[t]] < measure[t])
    BY <1>5
  <2>2. start \in I /\ n \in Nat /\ measure \in [I -> Nat] /\ measure[start] <= n
    BY <1>4
  <2> HIDE DEF n
  <2>3. e \in I /\ take[e] = e
    BY <2>1, <2>2, IterateEnds, ZenonT(30)
  <2> QED
    BY <1>2, <2>3, Zenon DEF n
<1> HIDE DEF end
<1>7. PICK j \in 0 .. N - k : At_(end, j) /\ end \in S
  BY <1>6 DEF I
<1>8. Held(u, k + j, end.left)
  <2>1. CASE /\ take[end] \in S /\ At_(take[end], j + 1) /\ j + 1 \in 0 .. N - k
             /\ Len(take[end].left) < Len(end.left)
    <3>1. Len(end.left) < Len(end.left)
      BY <1>6, <2>1, Zenon
    <3>2. Len(end.left) \in Nat
      BY <1>7 DEF S
    <3> QED
      BY <3>1, <3>2
  <2> QED
    BY <1>3, <1>7, <2>1, Zenon
<1>10. end.left \in Seq(Byte)
  BY <1>7 DEF S
<1> QED
  BY <1>7, <1>8, <1>10, Zenon DEF end, N, Found, At_, s

-----------------------------------------------------------------------------
(* Reception *)

\* What was read and what was not yet are together what the source sends: all of it as
\* long as its header is not complete, and from the next cluster on after that, unless
\* the sizes of clusters are longer than their IDs (ReadElement then takes them out
\* before they are complete).
FromCluster(u, n, buf, rest) ==
  n \in 0 .. Len(u.clusters) /\ buf \in Seq(Byte) /\ IsCut(buf, rest, Rest(u, n))

\* The receive buffer and what the source has still to send: of the header, or after the
\* first n clusters.
Receiving(st, u, n, h, buf, rest) ==
  \/ /\ st = "receive_stream_header" /\ n = 0 /\ buf \in Seq(Byte)
     /\ \E f \in BOOLEAN : IsCut(MuxHeader(u, f), Rest(u, 0), buf \o rest)
  \/ /\ st = "receive_stream" /\ h = MuxHeader(u, TRUE)
     /\ SizeOctets <= 4 => FromCluster(u, n, buf, rest) /\ Held(u, n, buf)

\* Between two calls of the handlers: the invariant of the extraction.
Reception ==
  /\ upload \in Upload /\ video = upload.clusters /\ unread \in Seq(Byte)
  /\ \/ state = "none" /\ taken = 0
     \/ Receiving(state, upload, taken, header, buffer, unread)

\* A sequence is what was taken of it, and what is left of it.
LEMMA CutAnywhere ==
  ASSUME NEW S, NEW s \in Seq(S), NEW n \in 0 .. Len(s)
  PROVE  LET a == SubSeq(s, 1, n)
             b == SubSeq(s, n + 1, Len(s))
         IN a \in Seq(S) /\ Len(a) = n /\ b \in Seq(S) /\ IsCut(a, b, s)
<1> DEFINE m == Len(s)
           a == SubSeq(s, 1, n)
           b == SubSeq(s, n + 1, m)
           i == 0
<1>1. m \in Nat /\ i \in Nat /\ n \in Nat /\ i <= n /\ n <= m /\ m <= Len(s)
  OBVIOUS
<1>2. i + 1 = 1 /\ m = Len(s)
  OBVIOUS
<1>3. SubSeq(s, 1, m) = s /\ Len(a) = n
  OBVIOUS
<1> HIDE DEF i, m
<1>4. /\ SubSeq(s, i + 1, n) \in Seq(S) /\ SubSeq(s, n + 1, m) \in Seq(S)
      /\ SubSeq(s, i + 1, m) = SubSeq(s, i + 1, n) \o SubSeq(s, n + 1, m)
  BY <1>1, SubSeqSplit
<1> QED
  BY <1>2, <1>3, <1>4, Zenon DEF IsCut

\* What receive_stream_buffer_filled leaves behind.
LEMMA BufferFilledReceives ==
  ASSUME NEW u \in Upload, NEW h, h = MuxHeader(u, TRUE), NEW b, NEW rest \in Seq(Byte),
         SizeOctets <= 4 => FromCluster(u, taken, b, rest), BufferFilled(h, b)
  PROVE  Receiving(state', u, taken', header', buffer', rest) /\ state' = "receive_stream"
<1> DEFINE t == Clusters(b)
           N == Len(u.clusters)
           s == Sent(u)
<1>1. state' = "receive_stream" /\ buffer' = t.left /\ header' = h /\ taken' = taken + Len(t.found)
  BY Zenon DEF BufferFilled
<1> HIDE DEF t, N, s
<1>2. ASSUME SizeOctets <= 4
      PROVE  FromCluster(u, taken', buffer', rest) /\ Held(u, taken', buffer')
  <2>0. taken \in 0 .. N /\ b \in Seq(Byte) /\ IsCut(b, rest, Rest(u, taken))
    BY <1>2, Zenon DEF FromCluster, N
  <2>1. PICK j \in 0 .. N - taken :
          /\ t.found = SubSeq(s, taken + 1, taken + j)
          /\ t.left \in Seq(Byte) /\ IsCut(t.left, rest, Rest(u, taken + j))
          /\ Held(u, taken + j, t.left)
    BY <1>2, <2>0, ClustersAre DEF t, N, s
  <2>2. s \in Seq(Seq(Byte)) /\ Len(s) = N /\ N \in Nat
    BY SentIs DEF s, N
  <2>3. taken \in Nat /\ j \in Nat /\ taken + j <= Len(s) /\ taken + j \in 0 .. N
    BY <2>0, <2>2
  <2>4. Len(SubSeq(s, taken + 1, taken + j)) = j
    <3> DEFINE T == Seq(Byte)
    <3>1. s \in Seq(T)
      BY <2>2
    <3> HIDE DEF T
    <3> QED
      BY <2>3, <3>1
  <2>5. taken' = taken + j
    BY <1>1, <2>1, <2>4
  <2> QED
    BY <1>1, <2>1, <2>3, <2>5, Zenon DEF FromCluster, N
<1> QED
  BY <1>1, <1>2, Zenon DEF Receiving

\* What receive_stream_header_buffer_filled leaves behind.
LEMMA HeaderBufferFilledReceives ==
  ASSUME NEW u \in Upload, taken = 0, NEW f \in BOOLEAN,
         NEW b \in Seq(Byte), b # <<>>, NEW rest \in Seq(Byte),
         IsCut(MuxHeader(u, f), Rest(u, 0), b \o rest), HeaderBufferFilled(b)
  PROVE  /\ Receiving(state', u, taken', header', buffer', rest)
         /\ state' \in {"receive_stream_header", "receive_stream"}
<1> DEFINE x == ExtractHeader(b)
           n == 15 + u.segment
           M == Rest(u, 0)
           H == MuxHeader(u, TRUE)
           w == x.buffer \o rest
           z == SubSeq(x.buffer, x.size + 1, Len(x.buffer))
<1>1. M \in Seq(Byte) /\ 0 \in 0 .. Len(u.clusters)
  <2>1. 0 \in 0 .. Len(u.clusters)
    BY SentIs
  <2> QED
    BY <2>1, RestIs
<1>2. IsCut(b, rest, b \o rest)
  BY CutConcat
<1>3. /\ x.buffer \in Seq(Byte) /\ Len(x.buffer) = Len(b)
      /\ n <= Len(b) => x.size = n /\ IsCut(H, M, w)
      /\ n > Len(b) => x.size = -1 /\ (IsCut(H, M, w) \/ IsCut(MuxHeader(u, f), M, w))
  BY <1>1, <1>2, ExtractHeaderIs, Zenon
<1>4. n \in Nat /\ n > 0 /\ Len(b) \in Nat
  <2>1. u.segment \in 1 .. 8
    BY IngestAssumption, Zenon
  <2>2. Len(b) \in Nat
    OBVIOUS
  <2> QED
    BY <2>1, <2>2, SMTT(20)
<1>5. H \in Seq(Byte) /\ Len(H) = n
  <2>1. TRUE \in BOOLEAN
    OBVIOUS
  <2> QED
    BY <1>1, <2>1, HeaderPieces, Zenon
<1>6. \/ /\ x.size > 0
         /\ BufferFilled(SubSeq(x.buffer, 1, x.size), z)
      \/ /\ x.size <= 0 /\ state' = "receive_stream_header" /\ buffer' = x.buffer /\ taken' = taken
  BY Zenon DEF HeaderBufferFilled
<1> HIDE DEF x, n, M, H, w, z
<1>7. CASE n <= Len(b)
  <2>1. x.size = n /\ IsCut(H, M, w) /\ ~(x.size <= 0) /\ Len(H) <= Len(x.buffer)
    BY <1>3, <1>4, <1>5, <1>7
  <2>2. IsCut(x.buffer, rest, w)
    BY CutConcat DEF w
  <2>3. Remains(x.buffer, H, rest, M)
    BY <1>1, <1>3, <1>5, <2>1, <2>2, RemainsIs
  <2>4. SubSeq(x.buffer, 1, x.size) = H /\ z \in Seq(Byte) /\ IsCut(z, rest, M)
    BY <1>5, <2>1, <2>3, Zenon DEF Remains, Begins, z
  <2>5. BufferFilled(H, z)
    BY <1>6, <2>1, <2>4, Zenon
  <2>6. FromCluster(u, taken, z, rest)
    BY <1>1, <2>4, Zenon DEF M, FromCluster
  <2>7. H = MuxHeader(u, TRUE)
    BY DEF H
  <2> QED
    BY <2>4, <2>5, <2>6, <2>7, BufferFilledReceives, Zenon
<1>8. CASE n > Len(b)
  <2>1. x.size = -1 /\ (IsCut(H, M, w) \/ IsCut(MuxHeader(u, f), M, w))
    BY <1>3, <1>8, Zenon
  <2>2. ~(x.size > 0)
    BY <2>1
  <2>3. state' = "receive_stream_header" /\ buffer' = x.buffer /\ taken' = 0
    BY <1>6, <2>2, Zenon
  <2>4. \E g \in BOOLEAN : IsCut(MuxHeader(u, g), M, w)
    BY <2>1, Zenon DEF H
  <2> QED
    BY <1>3, <2>3, <2>4, Zenon DEF Receiving, M, w
<1>9. n <= Len(b) \/ n > Len(b)
  BY <1>4
<1> QED
  BY <1>7, <1>8, <1>9

\* A source sends its header, and then its clusters.
LEMMA MuxIs ==
  ASSUME NEW u \in Upload
  PROVE  /\ Mux(u) \in Seq(Byte) /\ u.unknown \in BOOLEAN
         /\ IsCut(MuxHeader(u, u.unknown), Rest(u, 0), Mux(u))
<1> DEFINE H == MuxHeader(u, u.unknown)
           M == Rest(u, 0)
<1>1. u.unknown \in BOOLEAN
  BY IngestAssumption
<1>2. M \in Seq(Byte) /\ M = MuxClusters(u, Len(u.clusters))
  <2>1. 0 \in 0 .. Len(u.clusters)
    BY SentIs
  <2> QED
    BY <2>1, RestIs
<1>3. H \in Seq(Byte)
  BY <1>1, <1>2, HeaderPieces, Zenon
<1>4. Mux(u) = H \o M
  BY <1>2, Zenon DEF Mux
<1> HIDE DEF H, M
<1>5. H \o M \in Seq(Byte)
  BY <1>2, <1>3, Concatenated
<1> QED
  BY <1>1, <1>4, <1>5, Zenon DEF IsCut, H, M

\* The invariant holds when a source has come,
LEMMA EnterReceives ==
  ASSUME Reception, EnterReceiveStream
  PROVE  Reception'
<1>1. PICK u \in Upload :
        /\ upload' = u /\ video' = u.clusters
        /\ \E n \in 0 .. Len(Mux(u)) :
             /\ unread' = SubSeq(Mux(u), n + 1, Len(Mux(u)))
             /\ \/ n > 0 /\ HeaderBufferFilled(SubSeq(Mux(u), 1, n))
                \/ n = 0 /\ state' = "receive_stream_header" /\ buffer' = <<>> /\ taken' = taken
  BY Zenon DEF EnterReceiveStream
<1>2. PICK n \in 0 .. Len(Mux(u)) :
        /\ unread' = SubSeq(Mux(u), n + 1, Len(Mux(u)))
        /\ \/ n > 0 /\ HeaderBufferFilled(SubSeq(Mux(u), 1, n))
           \/ n = 0 /\ state' = "receive_stream_header" /\ buffer' = <<>> /\ taken' = taken
  BY <1>1
<1>3. taken = 0
  <2>1. state = "none"
    BY DEF EnterReceiveStream
  <2> QED
    BY <2>1 DEF Reception, Receiving
<1> DEFINE m == Mux(u)
           b == SubSeq(m, 1, n)
           rest == SubSeq(m, n + 1, Len(m))
           f == u.unknown
<1>4. m \in Seq(Byte) /\ f \in BOOLEAN /\ IsCut(MuxHeader(u, f), Rest(u, 0), m)
  BY MuxIs
<1>5. b \in Seq(Byte) /\ Len(b) = n /\ rest \in Seq(Byte) /\ IsCut(b, rest, m)
  BY <1>4, CutAnywhere
<1>6. /\ unread' = rest
      /\ \/ n > 0 /\ HeaderBufferFilled(b)
         \/ n = 0 /\ state' = "receive_stream_header" /\ buffer' = <<>> /\ taken' = taken
  BY <1>2
<1> HIDE DEF m, b, rest, f
<1>7. IsCut(MuxHeader(u, f), Rest(u, 0), b \o rest)
  BY <1>4, <1>5, Zenon DEF IsCut
<1>8. Receiving(state', u, taken', header', buffer', rest)
  <2>1. CASE n > 0 /\ HeaderBufferFilled(b)
    <3>1. b # <<>>
      <4>1. Len(b) > 0 /\ Len(<<>>) = 0
        BY <1>5, <2>1
      <4> QED
        BY <4>1
    <3> QED
      BY <1>3, <1>4, <1>5, <1>7, <2>1, <3>1, HeaderBufferFilledReceives, Zenon
  <2>2. CASE n = 0 /\ state' = "receive_stream_header" /\ buffer' = <<>> /\ taken' = taken
    <3>1. b = <<>>
      <4>1. b \in Seq(Byte) /\ Len(b) = 0
        BY <1>5, <2>2
      <4> QED
        BY <4>1
    <3>2. buffer' \in Seq(Byte) /\ buffer' = b
      BY <1>5, <2>2, <3>1, Zenon
    <3> QED
      BY <1>3, <1>4, <1>7, <2>2, <3>2, Zenon DEF Receiving
  <2> QED
    BY <1>6, <2>1, <2>2, Zenon
<1> QED
  BY <1>1, <1>5, <1>6, <1>8, Zenon DEF Reception

\* More is read.
LEMMA ReadIs ==
  ASSUME unread \in Seq(Byte), buffer \in Seq(Byte), NEW n \in 1 .. Len(unread), Read(n)
  PROVE  LET p == SubSeq(unread, 1, n) IN
         /\ p \in Seq(Byte) /\ buffer \o p \in Seq(Byte) /\ buffer \o p # <<>>
         /\ unread' \in Seq(Byte) /\ IsCut(p, unread', unread)
         /\ (buffer \o p) \o unread' = buffer \o unread
<1> DEFINE p == SubSeq(unread, 1, n)
           q == SubSeq(unread, n + 1, Len(unread))
<1>1. unread' = q
  BY DEF Read
<1>2. p \in Seq(Byte) /\ Len(p) = n /\ q \in Seq(Byte) /\ IsCut(p, q, unread)
  <2>1. n \in 0 .. Len(unread)
    OBVIOUS
  <2> QED
    BY <2>1, CutAnywhere
<1> HIDE DEF p, q
<1>3. buffer \o p \in Seq(Byte) /\ Len(buffer \o p) = Len(buffer) + Len(p)
  BY <1>2, Concatenated
<1>4. buffer \o p # <<>>
  <2> DEFINE b == buffer \o p
  <2>1. b \in Seq(Byte) /\ Len(b) = Len(buffer) + n /\ Len(buffer) \in Nat
    BY <1>2, <1>3
  <2> HIDE DEF b
  <2>2. Len(b) > 0 /\ Len(<<>>) = 0
    BY <2>1
  <2>3. b # <<>>
    BY <2>2
  <2> QED
    BY <2>3 DEF b
<1>5. Regroups(buffer, p, q)
  BY <1>2, Regroup
<1> QED
  BY <1>1, <1>2, <1>3, <1>4, <1>5, Zenon DEF Regroups, IsCut, p

\* when it has sent more of the header,
LEMMA HeaderReceives ==
  ASSUME Reception, ReceiveStreamHeader
  PROVE  Reception'
<1>1. PICK n \in 1 .. Len(unread) : Read(n) /\ HeaderBufferFilled(buffer \o SubSeq(unread, 1, n))
  BY Zenon DEF ReceiveStreamHeader
<1> DEFINE b == buffer \o SubSeq(unread, 1, n)
<1>2. /\ upload \in Upload /\ video = upload.clusters
      /\ unread \in Seq(Byte) /\ buffer \in Seq(Byte)
  <2>1. state = "receive_stream_header"
    BY DEF ReceiveStreamHeader
  <2>2. state # "none" /\ state # "receive_stream"
    BY <2>1
  <2> QED
    BY <2>2, Zenon DEF Reception, Receiving
<1>3. b \in Seq(Byte) /\ b # <<>> /\ unread' \in Seq(Byte) /\ b \o unread' = buffer \o unread
  BY <1>1, <1>2, ReadIs, Zenon
<1> HIDE DEF b
<1>4. PICK f \in BOOLEAN : IsCut(MuxHeader(upload, f), Rest(upload, 0), buffer \o unread) /\ taken = 0
  <2>1. state = "receive_stream_header"
    BY DEF ReceiveStreamHeader
  <2>2. state # "none" /\ state # "receive_stream"
    BY <2>1
  <2> QED
    BY <2>2, Zenon DEF Reception, Receiving
<1>5. Receiving(state', upload, taken', header', buffer', unread')
  <2>1. HeaderBufferFilled(b)
    BY <1>1 DEF b
  <2>2. IsCut(MuxHeader(upload, f), Rest(upload, 0), b \o unread')
    BY <1>3, <1>4, Zenon
  <2> QED
    BY <1>2, <1>3, <1>4, <2>1, <2>2, HeaderBufferFilledReceives, Zenon
<1>6. upload' = upload /\ video' = video
  BY <1>1 DEF Read
<1> QED
  BY <1>2, <1>3, <1>5, <1>6, Zenon DEF Reception

\* when it has sent more of the clusters.
LEMMA StreamReceives ==
  ASSUME Reception, ReceiveStream
  PROVE  Reception'
<1>1. PICK n \in 1 .. Len(unread) : Read(n) /\ BufferFilled(header, buffer \o SubSeq(unread, 1, n))
  BY Zenon DEF ReceiveStream
<1> DEFINE p == SubSeq(unread, 1, n)
           b == buffer \o p
<1>2. upload \in Upload /\ video = upload.clusters /\ unread \in Seq(Byte)
  BY DEF Reception
<1>3. /\ header = MuxHeader(upload, TRUE)
      /\ SizeOctets <= 4 => FromCluster(upload, taken, buffer, unread)
  <2>1. state = "receive_stream"
    BY DEF ReceiveStream
  <2>2. state # "none" /\ state # "receive_stream_header"
    BY <2>1
  <2> QED
    BY <2>2, Zenon DEF Reception, Receiving
<1>4. p \in Seq(Byte) /\ unread' \in Seq(Byte) /\ IsCut(p, unread', unread)
  <2>1. n \in 0 .. Len(unread)
    OBVIOUS
  <2>2. unread' = SubSeq(unread, n + 1, Len(unread))
    BY <1>1 DEF Read
  <2> QED
    BY <1>2, <2>1, <2>2, CutAnywhere, Zenon
<1> HIDE DEF p
<1>5. ASSUME SizeOctets <= 4 PROVE FromCluster(upload, taken, b, unread')
  <2>1. taken \in 0 .. Len(upload.clusters) /\ buffer \in Seq(Byte) /\ IsCut(buffer, unread, Rest(upload, taken))
    BY <1>3, <1>5, Zenon DEF FromCluster
  <2>2. b \in Seq(Byte)
    BY <1>4, <2>1, Concatenated
  <2>3. IsCut(b, unread', Rest(upload, taken))
    BY <1>4, <2>1, CutCut2
  <2> QED
    BY <2>1, <2>2, <2>3, Zenon DEF FromCluster
<1> HIDE DEF b
<1>6. Receiving(state', upload, taken', header', buffer', unread')
  <2>1. BufferFilled(header, b)
    BY <1>1 DEF b, p
  <2> QED
    BY <1>2, <1>3, <1>4, <1>5, <2>1, BufferFilledReceives, Zenon
<1>7. upload' = upload /\ video' = video
  BY <1>1 DEF Read
<1> QED
  BY <1>2, <1>4, <1>6, <1>7, Zenon DEF Reception

\* What has been received is the beginning of what the source sends, always.
LEMMA NextReception ==
  ASSUME Reception, [Next]_vars
  PROVE  Reception'
<1>1. CASE LeaveReceiveStream
  <2>1. <<>> \in Seq(Byte)
    OBVIOUS
  <2> QED
    BY <1>1, <2>1, Zenon DEF LeaveReceiveStream, Reception
<1>2. CASE UNCHANGED vars
  <2>1. /\ state' = state /\ unread' = unread /\ buffer' = buffer /\ header' = header
        /\ upload' = upload /\ video' = video /\ taken' = taken
    BY <1>2 DEF vars, spliceVars
  <2> QED
    BY <2>1, Zenon DEF Reception
<1>3. CASE EnterReceiveStream
  BY <1>3, EnterReceives
<1>4. CASE ReceiveStreamHeader
  BY <1>4, HeaderReceives
<1>5. CASE ReceiveStream
  BY <1>5, StreamReceives
<1>6. CASE SourceGone
  BY <1>1, <1>6 DEF SourceGone
<1>7. CASE HeaderTooLarge
  BY <1>1, <1>7 DEF HeaderTooLarge
<1> QED
  BY <1>2, <1>3, <1>4, <1>5, <1>6, <1>7 DEF Next

\* In the beginning there is no source.
LEMMA InitReception ==
  ASSUME Init
  PROVE  Reception
<1>1. upload \in Upload
  BY IngestAssumption, Zenon DEF Init
<1>2. <<>> \in Seq(Byte)
  OBVIOUS
<1> QED
  BY <1>1, <1>2, Zenon DEF Init, SpliceInit, Reception

\* The header of the stream is the one of the source that sends, whole and with a
\* Segment of unknown size, however its bytes were cut.
THEOREM HeaderCorrect == Spec => []HeaderOfSource
<1>1. Reception => HeaderOfSource
  <2> SUFFICES ASSUME Reception, state = "receive_stream" PROVE header = MuxHeader(upload, TRUE)
    BY DEF HeaderOfSource
  <2>1. state # "none" /\ state # "receive_stream_header"
    OBVIOUS
  <2> QED
    BY <2>1, Zenon DEF Reception, Receiving
<1>2. Init => Reception
  BY InitReception
<1>3. Reception /\ [Next]_vars => Reception'
  BY NextReception
<1> QED
  BY <1>1, <1>2, <1>3, PTL DEF Spec

\* How long the first clusters are.
LEMMA Lengths ==
  ASSUME NEW u \in Upload
  PROVE  LET N == Len(u.clusters)
             L(k) == Len(MuxClusters(u, k))
         IN /\ N \in Nat
            /\ \A k \in 0 .. N : L(k) \in Nat /\ Len(Rest(u, k)) \in Nat /\ L(N) = L(k) + Len(Rest(u, k))
            /\ \A k \in 0 .. N : \A i \in 0 .. k : L(i) <= L(k)
            /\ \A k \in Nat : k < N => L(k + 1) = L(k) + Len(Sent(u)[k + 1]) /\ Len(Sent(u)[k + 1]) \in Nat
            /\ Len(Mux(u)) = Len(MuxHeader(u, TRUE)) + L(N) /\ Len(MuxHeader(u, TRUE)) \in Nat
<1> DEFINE s == Sent(u)
           N == Len(u.clusters)
           L(k) == Len(MuxClusters(u, k))
           B(i, k) == Between(s, i, k)
<1>1. s \in Seq(Seq(Byte)) /\ Len(s) = N /\ N \in Nat /\ \A k \in 0 .. N : MuxClusters(u, k) = B(0, k)
  BY SentIs
<1>2. \A k \in 0 .. N : Rest(u, k) = B(k, N)
  BY DEF Rest
<1> HIDE DEF s, N, B
<1>3. ASSUME NEW i \in Nat, NEW k \in Nat, NEW m \in Nat, i <= k, k <= m, m <= N
      PROVE  /\ B(i, k) \in Seq(Byte) /\ B(k, m) \in Seq(Byte) /\ IsCut(B(i, k), B(k, m), B(i, m))
             /\ Len(B(i, k)) \in Nat /\ Len(B(k, m)) \in Nat /\ Len(B(i, m)) = Len(B(i, k)) + Len(B(k, m))
  <2> DEFINE x == B(i, k)
             y == B(k, m)
             z == B(i, m)
  <2>1. x \in Seq(Byte) /\ y \in Seq(Byte) /\ IsCut(x, y, z)
    <3>1. i \in Nat /\ k \in Nat /\ m \in Nat /\ i <= k /\ k <= m /\ m <= Len(s) /\ s \in Seq(Seq(Byte))
      BY <1>1, <1>3, Zenon
    <3>2. /\ Between(s, i, k) \in Seq(Byte) /\ Between(s, k, m) \in Seq(Byte)
          /\ IsCut(Between(s, i, k), Between(s, k, m), Between(s, i, m))
      BY <3>1, FlattenSplit, Zenon
    <3> QED
      BY <3>2, Zenon DEF B
  <2> HIDE DEF x, y, z
  <2>2. Len(z) = Len(x) + Len(y) /\ Len(x) \in Nat /\ Len(y) \in Nat
    BY <2>1, CutIs
  <2> QED
    BY <2>1, <2>2, Zenon DEF x, y, z
<1>4. ASSUME NEW k \in 0 .. N
      PROVE  L(k) \in Nat /\ Len(Rest(u, k)) \in Nat /\ L(N) = L(k) + Len(Rest(u, k))
  <2>1. 0 \in Nat /\ k \in Nat /\ N \in Nat /\ 0 <= k /\ k <= N /\ N <= N /\ N \in 0 .. N
    BY <1>1
  <2>2. Len(B(0, k)) \in Nat /\ Len(B(k, N)) \in Nat /\ Len(B(0, N)) = Len(B(0, k)) + Len(B(k, N))
    BY <1>3, <2>1, ZenonT(30)
  <2>3. MuxClusters(u, k) = B(0, k) /\ MuxClusters(u, N) = B(0, N) /\ Rest(u, k) = B(k, N)
    BY <1>1, <1>2, <2>1, Zenon
  <2> QED
    BY <2>2, <2>3, Zenon
<1>5. ASSUME NEW k \in 0 .. N, NEW i \in 0 .. k
      PROVE  L(i) <= L(k)
  <2>1. 0 \in Nat /\ k \in Nat /\ i \in Nat /\ 0 <= i /\ i <= k /\ k <= N /\ i \in 0 .. N
    BY <1>1
  <2>2. Len(B(0, i)) \in Nat /\ Len(B(i, k)) \in Nat /\ Len(B(0, k)) = Len(B(0, i)) + Len(B(i, k))
    BY <1>3, <2>1, ZenonT(30)
  <2>3. MuxClusters(u, k) = B(0, k) /\ MuxClusters(u, i) = B(0, i)
    BY <1>1, <2>1, Zenon
  <2>4. Len(B(0, i)) <= Len(B(0, k))
    BY <2>2
  <2> QED
    BY <2>3, <2>4, Zenon
<1>6. ASSUME NEW k \in Nat, k < N
      PROVE  L(k + 1) = L(k) + Len(s[k + 1]) /\ Len(s[k + 1]) \in Nat
  <2>1. 0 \in Nat /\ k + 1 \in Nat /\ 0 <= k /\ k <= k + 1 /\ k + 1 <= N /\ k \in 0 .. N /\ k + 1 \in 0 .. N
    BY <1>1, <1>6
  <2>2. Len(B(0, k + 1)) = Len(B(0, k)) + Len(B(k, k + 1)) /\ Len(B(k, k + 1)) \in Nat
    BY <1>3, <2>1, ZenonT(30)
  <2>3. MuxClusters(u, k) = B(0, k) /\ MuxClusters(u, k + 1) = B(0, k + 1)
    BY <1>1, <2>1, Zenon
  <2>4. B(k, k + 1) = s[k + 1]
    <3>1. k + 1 <= Len(s)
      BY <1>1, <2>1
    <3> QED
      BY <1>1, <3>1, FlattenOne DEF B
  <2> QED
    BY <2>2, <2>3, <2>4, Zenon
<1>7. Len(Mux(u)) = Len(MuxHeader(u, TRUE)) + L(N) /\ Len(MuxHeader(u, TRUE)) \in Nat
  <2> DEFINE H == MuxHeader(u, u.unknown)
             M == Rest(u, 0)
             m == Mux(u)
             h == MuxHeader(u, TRUE)
  <2>1. m \in Seq(Byte) /\ u.unknown \in BOOLEAN /\ IsCut(H, M, m)
    BY MuxIs
  <2>2. M \in Seq(Byte) /\ M = MuxClusters(u, N)
    <3>1. 0 \in 0 .. N
      BY <1>1
    <3> QED
      BY <3>1, RestIs DEF N
  <2>3. H \in Seq(Byte) /\ Len(H) = 15 + u.segment /\ Len(h) = 15 + u.segment
    <3>1. TRUE \in BOOLEAN
      OBVIOUS
    <3> QED
      BY <2>1, <2>2, <3>1, HeaderPieces, Zenon
  <2> HIDE DEF H, M, m, h
  <2>4. Len(m) = Len(H) + Len(M)
    BY <2>1, <2>2, <2>3, CutIs
  <2>5. 15 + u.segment \in Nat
    BY IngestAssumption
  <2> QED
    BY <2>2, <2>3, <2>4, <2>5, Zenon DEF m, h
<1> QED
  BY <1>1, <1>4, <1>5, <1>6, <1>7, Zenon DEF s, N

\* Bytes received are those of the header, of the clusters that were taken, and of the
\* receive buffer.
LEMMA ReceivedIs ==
  ASSUME SizeOctets <= 4, Reception, state = "receive_stream"
  PROVE  /\ taken \in 0 .. Len(video) /\ upload \in Upload /\ video = upload.clusters
         /\ Len(buffer) \in Nat /\ Held(upload, taken, buffer)
         /\ Received = Len(MuxHeader(upload, TRUE)) + Len(MuxClusters(upload, taken)) + Len(buffer)
<1>1. state # "none" /\ state # "receive_stream_header"
  OBVIOUS
<1>2. /\ upload \in Upload /\ video = upload.clusters /\ unread \in Seq(Byte)
      /\ FromCluster(upload, taken, buffer, unread) /\ Held(upload, taken, buffer)
  BY <1>1, Zenon DEF Reception, Receiving
<1> DEFINE N == Len(upload.clusters)
           h == Len(MuxHeader(upload, TRUE))
           L(k) == Len(MuxClusters(upload, k))
           R == Rest(upload, taken)
<1>3. taken \in 0 .. N /\ buffer \in Seq(Byte) /\ IsCut(buffer, unread, R)
  BY <1>2, Zenon DEF FromCluster
<1>4. Len(R) = Len(buffer) + Len(unread) /\ Len(buffer) \in Nat /\ Len(unread) \in Nat
  <2> HIDE DEF R
  <2> QED
    BY <1>2, <1>3, CutIs
<1>5. L(taken) \in Nat /\ L(N) = L(taken) + Len(R) /\ Len(Mux(upload)) = h + L(N) /\ h \in Nat
  BY <1>2, <1>3, Lengths, Zenon
<1> HIDE DEF R, N, h, L
<1>6. Len(Mux(upload)) - Len(unread) = h + L(taken) + Len(buffer)
  BY <1>4, <1>5
<1> QED
  BY <1>2, <1>3, <1>4, <1>6, Zenon DEF Received, N, h, L

\* The run complete_cluster_held shows a complete cluster that is held back in the receive
\* buffer. It is held back by no more than its header, whose length ebml_reader.c:74 adds
\* twice: it is taken when as many bytes follow it as its header has, at the latest.
THEOREM ClustersInTime == ASSUME SizeOctets <= 4 PROVE Spec => []HeldBackByAHeader
<1>1. Reception => HeldBackByAHeader
  <2> SUFFICES ASSUME Reception, state = "receive_stream", NEW k \in 1 .. Len(video),
                      End(k) + 4 + SizeOctets <= Received
               PROVE  k <= taken
    BY DEF HeldBackByAHeader
  <2> DEFINE N == Len(upload.clusters)
             h == Len(MuxHeader(upload, TRUE))
             L(i) == Len(MuxClusters(upload, i))
             c == Len(Sent(upload)[taken + 1])
             b == Len(buffer)
  <2>1. /\ taken \in 0 .. N /\ upload \in Upload /\ k \in 1 .. N
        /\ b \in Nat /\ Held(upload, taken, buffer)
        /\ Received = h + L(taken) + b /\ End(k) = h + L(k)
    BY ReceivedIs, Zenon DEF End
  <2>2. SizeOctets \in 1 .. 8
    BY IngestAssumption
  <2>3. N \in Nat /\ h \in Nat /\ L(taken) \in Nat /\ taken \in Nat
    <3>1. N \in Nat /\ h \in Nat /\ L(taken) \in Nat
      BY <2>1, Lengths, Zenon
    <3> HIDE DEF N, h, L
    <3> QED
      BY <2>1, <3>1
  <2> SUFFICES ASSUME k > taken PROVE FALSE
    BY <2>1, <2>3
  <2>4. taken < N /\ k \in 0 .. N /\ taken + 1 \in 0 .. k /\ taken # N
    BY <2>1, <2>3
  <2>5. L(taken + 1) <= L(k) /\ L(taken + 1) = L(taken) + c /\ c \in Nat /\ L(k) \in Nat
    BY <2>1, <2>3, <2>4, Lengths, Zenon
  <2>6. b < c + 4 + SizeOctets
    BY <2>1, <2>4, Zenon DEF Held
  <2>7. h + L(k) + 4 + SizeOctets <= h + L(taken) + b
    BY <2>1, Zenon
  <2> HIDE DEF N, h, L, c, b
  <2> QED
    BY <2>1, <2>2, <2>3, <2>5, <2>6, <2>7, SMTT(20)
<1>2. Init => Reception
  BY InitReception
<1>3. Reception /\ [Next]_vars => Reception'
  BY NextReception
<1> QED
  BY <1>1, <1>2, <1>3, PTL DEF Spec

\* No cluster is taken out of the receive buffer before all of it is there, if its size
\* is not longer than its ID. (Longer ones are the violation that TLC finds.)
THEOREM ClustersWhole == ASSUME SizeOctets <= 4 PROVE Spec => []OnlyWholeClusters
<1>1. Reception => OnlyWholeClusters
  <2> SUFFICES ASSUME Reception, state = "receive_stream", NEW k \in 1 .. Len(video), k <= taken
               PROVE  End(k) <= Received
    BY DEF OnlyWholeClusters
  <2> DEFINE N == Len(upload.clusters)
             h == Len(MuxHeader(upload, TRUE))
             L(i) == Len(MuxClusters(upload, i))
             b == Len(buffer)
  <2>1. /\ taken \in 0 .. N /\ upload \in Upload /\ b \in Nat
        /\ Received = h + L(taken) + b /\ End(k) = h + L(k)
    BY ReceivedIs, Zenon DEF End
  <2>2. N \in Nat /\ h \in Nat /\ L(taken) \in Nat
    BY <2>1, Lengths
  <2>3. k \in 0 .. taken /\ k \in 0 .. N
    BY <2>1, <2>2
  <2>4. L(k) <= L(taken) /\ L(k) \in Nat
    BY <2>1, <2>3, Lengths, Zenon
  <2> HIDE DEF N, h, L, b
  <2>5. h + L(k) <= h + L(taken) + b
    BY <2>1, <2>2, <2>4
  <2> QED
    BY <2>1, <2>5, Zenon
<1>2. Init => Reception
  BY InitReception
<1>3. Reception /\ [Next]_vars => Reception'
  BY NextReception
<1> QED
  BY <1>1, <1>2, <1>3, PTL DEF Spec

-----------------------------------------------------------------------------
(* The elements of a cluster, read *)

\* The lengths of both sides of a cut add up.
LengthsAdd(a, b, w) == Len(w) = Len(a) + Len(b) /\ Len(a) \in Nat /\ Len(b) \in Nat

\* They do.
LEMMA CutLength ==
  ASSUME NEW S, NEW w, NEW a \in Seq(S), NEW b \in Seq(S), IsCut(a, b, w)
  PROVE  LengthsAdd(a, b, w)
BY CutIs DEF LengthsAdd

\* Parts without elements add none.
LEMMA FlattenEmpties ==
  ASSUME NEW S, NEW parts \in Seq(Seq(S)), \A i \in 1 .. Len(parts) : parts[i] = <<>>
  PROVE  FlattenSeq(parts) = <<>>
<1> DEFINE f == [i \in 0 .. Len(parts) |-> <<>>]
<1>1. Len(parts) \in Nat
  OBVIOUS
<1>2. f[0] = <<>> /\ f[Len(parts)] = <<>> /\ \A i \in 1 .. Len(parts) : f[i] = <<>> /\ f[i - 1] = <<>>
  BY <1>1
<1> HIDE DEF f
<1>3. <<>> = <<>> \o <<>>
  OBVIOUS
<1>4. Concatenates(f, parts)
  BY <1>2, <1>3, Zenon DEF Concatenates
<1>5. FlattenSeq(parts) = f[Len(parts)]
  BY <1>4, FlattenUnique, Zenon
<1> QED
  BY <1>2, <1>5

\* So do some of them.
LEMMA BetweenEmpties ==
  ASSUME NEW S, NEW parts \in Seq(Seq(S)), NEW i \in Nat, NEW k \in Nat, i <= k, k <= Len(parts),
         \A j \in i + 1 .. k : parts[j] = <<>>
  PROVE  Between(parts, i, k) = <<>>
<1> DEFINE T == Seq(S)
           s == SubSeq(parts, i + 1, k)
<1>1. s \in Seq(T) /\ Len(s) = k - i /\ \A j \in 1 .. k - i : s[j] = parts[i + j] /\ i + j \in i + 1 .. k
  <2>1. parts \in Seq(T)
    OBVIOUS
  <2> HIDE DEF T
  <2> QED
    BY <2>1
<1> HIDE DEF s
<1>2. \A j \in 1 .. Len(s) : s[j] = <<>>
  BY <1>1
<1>3. FlattenSeq(s) = <<>>
  BY <1>1, <1>2, FlattenEmpties, Zenon DEF T
<1> QED
  BY <1>3, Zenon DEF Between, s

\* Parts of one element each.
LEMMA FlattenSingles ==
  ASSUME NEW S, NEW x \in Seq(S), NEW parts \in Seq(Seq(S)), Len(parts) = Len(x),
         \A i \in 1 .. Len(x) : parts[i] = <<x[i]>>
  PROVE  FlattenSeq(parts) = x
<1> DEFINE f == [i \in 0 .. Len(x) |-> SubSeq(x, 1, i)]
<1>1. Len(x) \in Nat
  OBVIOUS
<1>2. /\ f[0] = SubSeq(x, 1, 0) /\ f[Len(x)] = SubSeq(x, 1, Len(x))
      /\ \A i \in 1 .. Len(x) : f[i] = SubSeq(x, 1, i) /\ f[i - 1] = SubSeq(x, 1, i - 1)
  BY <1>1, SMTT(20)
<1>3. SubSeq(x, 1, 0) = <<>> /\ SubSeq(x, 1, Len(x)) = x
  OBVIOUS
<1>4. ASSUME NEW i \in 1 .. Len(x) PROVE SubSeq(x, 1, i) = SubSeq(x, 1, i - 1) \o <<x[i]>>
  OBVIOUS
<1> HIDE DEF f
<1>5. Concatenates(f, parts)
  BY <1>2, <1>3, <1>4, Zenon DEF Concatenates
<1>6. FlattenSeq(parts) = f[Len(parts)]
  BY <1>5, FlattenUnique, Zenon
<1> QED
  BY <1>2, <1>3, <1>6, Zenon

\* The bytes of elements.
Made(ws, es) == \A i \in 1 .. Len(ws) : IsElement(es[i]) /\ ws[i] = Whole(es[i])

\* The headers cs of the elements es in a buffer.
Walked(buf, cs, es) ==
  /\ cs \in Seq(ElementHeader)
  /\ \A i \in 1 .. Len(cs) :
       /\ cs[i].id = BigEndian(es[i].id)
       /\ Data(buf, cs[i]) = es[i].data /\ Raw(buf, cs[i]) = Whole(es[i])

\* An element e from p to q in a buffer is read as the header h.
Reads(buf, p, q, e, h) ==
  /\ p \in Nat /\ q \in Nat /\ p < q /\ q <= Len(buf)
  /\ ReadElementHeader(buf, p) = h /\ h \in ElementHeader /\ h.pos + h.data_size = q
  /\ h.id = BigEndian(e.id)
  /\ Data(buf, h) = e.data /\ Raw(buf, h) = Whole(e)

\* One element of several, where it is.
LEMMA ElementAmong ==
  ASSUME NEW ws \in Seq(Seq(Byte)), NEW es, Made(ws, es),
         NEW pre \in Seq(Byte), NEW buf \in Seq(Byte), IsCut(pre, FlattenSeq(ws), buf),
         NEW i \in Nat, i < Len(ws)
  PROVE  LET p == Len(pre) + Len(Between(ws, 0, i))
             q == Len(pre) + Len(Between(ws, 0, i + 1))
         IN Reads(buf, p, q, es[i + 1], HeaderOf(es[i + 1], p))
<1> DEFINE N == Len(ws)
           e == es[i + 1]
           a == Between(ws, 0, i)
           b == ws[i + 1]
           c == Between(ws, i + 1, N)
           m == Between(ws, i, N)
           n == Between(ws, 0, i + 1)
           all == Between(ws, 0, N)
           x == pre \o a
<1>1. N \in Nat /\ i + 1 \in Nat /\ i + 1 <= N /\ i <= N /\ 0 <= i /\ i <= i + 1 /\ 0 <= i + 1 /\ N <= N
      /\ 0 \in Nat /\ i + 1 \in 1 .. N
  OBVIOUS
<1>2. IsElement(e) /\ b = Whole(e)
  BY <1>1, Zenon DEF Made
<1>3. all = FlattenSeq(ws)
  <2>1. SubSeq(ws, 0 + 1, N) = ws
    <3> DEFINE T == Seq(Byte)
    <3>1. ws \in Seq(T)
      OBVIOUS
    <3> HIDE DEF T
    <3>2. SubSeq(ws, 1, Len(ws)) = ws
      BY <3>1
    <3> QED
      BY <3>2
  <2> QED
    BY <2>1, Zenon DEF Between
<1>4. a \in Seq(Byte) /\ m \in Seq(Byte) /\ IsCut(a, m, all)
  BY <1>1, FlattenSplit, Zenon
<1>5. c \in Seq(Byte) /\ IsCut(Between(ws, i, i + 1), c, m) /\ n \in Seq(Byte)
      /\ IsCut(a, Between(ws, i, i + 1), n)
  BY <1>1, FlattenSplit, Zenon
<1>6. Between(ws, i, i + 1) = b /\ b \in Seq(Byte)
  BY <1>1, FlattenOne, Zenon
<1>7. IsCut(b, c, m) /\ IsCut(a, b, n)
  BY <1>5, <1>6, Zenon
<1>8. IsCut(pre, all, buf)
  BY <1>3, Zenon
<1> HIDE DEF N, e, a, b, c, m, n, all
<1>9. x \in Seq(Byte) /\ Len(x) = Len(pre) + Len(a)
  BY <1>4, Concatenated
<1>10. IsPart(buf, x, b, c)
  <2>1. IsCut(x, m, buf)
    BY <1>4, <1>8, CutCut2
  <2>2. IsCut(x \o b, c, buf)
    <3> HIDE DEF x
    <3> QED
      BY <1>5, <1>6, <1>7, <1>9, <2>1, CutCut2
  <2> HIDE DEF x
  <2> QED
    BY <1>5, <1>6, <1>9, <2>2, PartCut
<1> HIDE DEF x
<1>11. LET h == HeaderOf(e, Len(x)) IN
         /\ ReadElementHeader(buf, Len(x)) = h /\ h \in ElementHeader
         /\ h.pos + h.data_size = Len(x) + Len(Whole(e))
         /\ Len(x) + Len(Whole(e)) <= Len(buf) /\ Len(Whole(e)) >= 2
         /\ SubSeq(buf, h.pos + 1, h.pos + h.data_size) = e.data
         /\ SubSeq(buf, h.pos - h.header_size + 1, h.pos + h.data_size) = Whole(e)
  <2>1. IsPart(buf, x, Whole(e), c)
    BY <1>2, <1>10, Zenon
  <2>2. c \in Seq(Byte) /\ x \in Seq(Byte) /\ IsElement(e)
    BY <1>2, <1>5, <1>9
  <2> QED
    BY <2>1, <2>2, ElementAt
<1>12. Len(n) = Len(a) + Len(b) /\ Len(a) \in Nat /\ Len(b) \in Nat /\ Len(pre) \in Nat
  <2>1. Len(n) = Len(a) + Len(b) /\ Len(a) \in Nat /\ Len(b) \in Nat
    <3>1. a \in Seq(Byte) /\ b \in Seq(Byte) /\ IsCut(a, b, n)
      BY <1>4, <1>6, <1>7
    <3>2. LengthsAdd(a, b, n)
      BY <3>1, CutLength, Zenon
    <3> QED
      BY <3>2, Zenon DEF LengthsAdd
  <2> QED
    BY <2>1
<1> DEFINE p == Len(pre) + Len(a)
           q == Len(pre) + Len(n)
           h == HeaderOf(e, p)
<1>13. /\ ReadElementHeader(buf, p) = h /\ h \in ElementHeader
       /\ h.pos + h.data_size = p + Len(b)
       /\ p + Len(b) <= Len(buf) /\ Len(b) >= 2
       /\ Data(buf, h) = e.data /\ Raw(buf, h) = Whole(e)
  BY <1>2, <1>9, <1>11, Zenon DEF Data, Raw
<1>14. h.id = BigEndian(e.id)
  BY DEF HeaderOf
<1> HIDE DEF h
<1>15. p + Len(b) = q /\ p \in Nat /\ q \in Nat
  BY <1>12
<1>16. p < q /\ q <= Len(buf)
  BY <1>12, <1>13, <1>15
<1> QED
  BY <1>13, <1>14, <1>15, <1>16, Zenon DEF Reads, h, e, a, n

\* The reader walks from one element to the next, to the end of the buffer.
LEMMA ChildrenAre ==
  ASSUME NEW ws \in Seq(Seq(Byte)), NEW es, Made(ws, es),
         NEW pre \in Seq(Byte), NEW buf \in Seq(Byte), IsCut(pre, FlattenSeq(ws), buf)
  PROVE  LET cs == Children(buf, Len(pre)) IN
         Walked(buf, cs, es) /\ Len(cs) = Len(ws)
<1> DEFINE N == Len(ws)
           P(i) == Len(pre) + Len(Between(ws, 0, i))
           H(i) == HeaderOf(es[i], P(i - 1))
           E(i) == [k \in 1 .. i |-> H(k)]
           S == [pos : Nat, elements : Seq(ElementHeader)]
           A(i) == [pos |-> P(i), elements |-> E(i)]
           I == {A(i) : i \in 0 .. N}
           walk == [s \in S |->
                      LET e == ReadElementHeader(buf, s.pos)
                      IN IF s.pos >= Len(buf) THEN s
                         ELSE [pos |-> e.pos + e.data_size, elements |-> Append(s.elements, e)]]
           start == [pos |-> Len(pre), elements |-> <<>>]
           measure == [s \in I |-> Len(buf) - s.pos]
           cs == Children(buf, Len(pre))
<1>1. N \in Nat /\ Len(buf) \in Nat /\ Len(pre) \in Nat
  OBVIOUS
<1>2. cs = Iterate(walk, start, Len(buf)).elements
  BY Zenon DEF Children
<1>3. ASSUME NEW i \in Nat, i < N
      PROVE  /\ P(i) \in Nat /\ P(i + 1) \in Nat /\ P(i) < P(i + 1) /\ P(i + 1) <= Len(buf)
             /\ ReadElementHeader(buf, P(i)) = H(i + 1) /\ H(i + 1) \in ElementHeader
             /\ H(i + 1).pos + H(i + 1).data_size = P(i + 1)
             /\ H(i + 1).id = BigEndian(es[i + 1].id)
             /\ Data(buf, H(i + 1)) = es[i + 1].data /\ Raw(buf, H(i + 1)) = Whole(es[i + 1])
  <2>1. (i + 1) - 1 = i
    OBVIOUS
  <2>2. H(i + 1) = HeaderOf(es[i + 1], P(i))
    BY <2>1
  <2>3. Reads(buf, P(i), P(i + 1), es[i + 1], HeaderOf(es[i + 1], P(i)))
    BY <1>3, ElementAmong, Zenon
  <2> HIDE DEF H, P
  <2> QED
    BY <2>2, <2>3, Zenon DEF Reads
<1>4. P(0) = Len(pre) /\ P(N) = Len(buf)
  <2>1. Between(ws, 0, 0) = <<>>
    BY FlattenNone
  <2>2. Between(ws, 0, N) = FlattenSeq(ws)
    <3> DEFINE T == Seq(Byte)
    <3>1. ws \in Seq(T)
      OBVIOUS
    <3> HIDE DEF T
    <3>2. SubSeq(ws, 0 + 1, Len(ws)) = ws
      BY <3>1
    <3> QED
      BY <3>2, Zenon DEF Between
  <2>3. LengthsAdd(pre, FlattenSeq(ws), buf)
    <3>1. FlattenSeq(ws) \in Seq(Byte)
      BY FlattenType
    <3> QED
      BY <3>1, CutLength, Zenon
  <2>4. Len(buf) = Len(pre) + Len(FlattenSeq(ws))
    BY <2>3, Zenon DEF LengthsAdd
  <2>5. P(0) = Len(pre) + Len(<<>>)
    BY <2>1, Zenon
  <2>6. P(N) = Len(pre) + Len(FlattenSeq(ws))
    BY <2>2, Zenon
  <2> QED
    BY <1>1, <2>4, <2>5, <2>6
<1> HIDE DEF P, H, N, cs, walk, start
<1>5. ASSUME NEW i \in 0 .. N
      PROVE  E(i) \in Seq(ElementHeader) /\ Len(E(i)) = i /\ P(i) \in Nat /\ P(i) <= Len(buf)
             /\ A(i) \in S
  <2>1. \A k \in 1 .. i : H(k) \in ElementHeader
    <3> SUFFICES ASSUME NEW k \in 1 .. i PROVE H(k) \in ElementHeader
      OBVIOUS
    <3>1. k - 1 \in Nat /\ k - 1 < N /\ (k - 1) + 1 = k
      BY <1>1
    <3> QED
      BY <1>3, <3>1
  <2>2. E(i) \in Seq(ElementHeader) /\ Len(E(i)) = i
    BY <1>1, <2>1
  <2>3. P(i) \in Nat /\ P(i) <= Len(buf)
    <3>1. CASE i = N
      BY <1>1, <1>4, <3>1
    <3>2. CASE i # N
      <4>1. i \in Nat /\ i < N
        BY <1>1, <3>2
      <4> QED
        BY <1>1, <1>3, <4>1
    <3> QED
      BY <3>1, <3>2
  <2> HIDE DEF E
  <2> QED
    BY <2>2, <2>3
<1>6. ASSUME NEW i \in Nat, i < N
      PROVE  walk[A(i)] = A(i + 1) /\ i \in 0 .. N /\ i + 1 \in 0 .. N
  <2> DEFINE a == A(i)
             e == ReadElementHeader(buf, a.pos)
  <2>1. i \in 0 .. N /\ i + 1 \in 0 .. N
    BY <1>1, <1>6
  <2>2. a \in S /\ a.pos = P(i) /\ a.elements = E(i)
    BY <1>5, <2>1
  <2>3. Append(E(i), H(i + 1)) = E(i + 1)
    <3>1. E(i) \in Seq(ElementHeader) /\ E(i + 1) \in Seq(ElementHeader)
          /\ Len(E(i)) = i /\ Len(E(i + 1)) = i + 1 /\ H(i + 1) \in ElementHeader
      BY <1>3, <1>5, <1>6, <2>1
    <3>2. /\ \A k \in 1 .. i + 1 : E(i + 1)[k] = H(k)
          /\ \A k \in 1 .. i : E(i)[k] = H(k)
      OBVIOUS
    <3> HIDE DEF E
    <3> QED
      BY <3>1, <3>2
  <2>4. ~(P(i) >= Len(buf))
    BY <1>1, <1>3, <1>6
  <2>5. e = H(i + 1)
    BY <1>3, <1>6, <2>2, Zenon
  <2> HIDE DEF a, e, E, S
  <2>6. walk[a] = IF a.pos >= Len(buf) THEN a
                  ELSE [pos |-> e.pos + e.data_size, elements |-> Append(a.elements, e)]
    BY <2>2, Zenon DEF walk, e
  <2>7. walk[a] = [pos |-> e.pos + e.data_size, elements |-> Append(E(i), H(i + 1))]
    BY <2>2, <2>4, <2>5, <2>6, Zenon
  <2>8. e.pos + e.data_size = P(i + 1)
    BY <1>3, <1>6, <2>5, Zenon
  <2> QED
    BY <2>1, <2>3, <2>7, <2>8, Zenon DEF a
<1>7. walk[A(N)] = A(N)
  <2> DEFINE a == A(N)
             e == ReadElementHeader(buf, a.pos)
  <2>1. N \in 0 .. N
    BY <1>1
  <2>2. a \in S /\ a.pos = P(N)
    BY <1>5, <2>1
  <2>3. P(N) >= Len(buf)
    BY <1>1, <1>4
  <2> HIDE DEF a, S
  <2>6. walk[a] = IF a.pos >= Len(buf) THEN a
                  ELSE [pos |-> e.pos + e.data_size, elements |-> Append(a.elements, e)]
    BY <2>2, Zenon DEF walk
  <2> QED
    BY <2>2, <2>3, <2>6, Zenon DEF a
<1>8. start = A(0) /\ 0 \in 0 .. N
  <2>1. E(0) = <<>>
    OBVIOUS
  <2> HIDE DEF E
  <2> QED
    BY <1>1, <1>4, <2>1 DEF start
<1>9. measure \in [I -> Nat] /\ measure[start] <= Len(buf)
  <2>1. ASSUME NEW s \in I PROVE Len(buf) - s.pos \in Nat
    <3>1. PICK i \in 0 .. N : s = A(i)
      OBVIOUS
    <3>2. s.pos = P(i)
      BY <3>1
    <3> QED
      BY <1>1, <1>5, <3>2
  <2>2. start \in I /\ start.pos = Len(pre)
    BY <1>4, <1>8
  <2> HIDE DEF I
  <2> QED
    BY <1>1, <2>1, <2>2
<1>10. ASSUME NEW s \in I
       PROVE  walk[s] \in I /\ (walk[s] = s \/ measure[walk[s]] < measure[s])
  <2>1. PICK i \in 0 .. N : s = A(i)
    OBVIOUS
  <2>2. CASE i = N
    BY <1>7, <2>1, <2>2
  <2>3. CASE i # N
    <3>1. i \in Nat /\ i < N
      BY <1>1, <2>3
    <3>2. walk[s] = A(i + 1) /\ i + 1 \in 0 .. N
      BY <1>6, <2>1, <3>1
    <3>3. walk[s] \in I
      BY <3>2
    <3>4. measure[s] = Len(buf) - P(i) /\ measure[walk[s]] = Len(buf) - P(i + 1)
      <4>1. s.pos = P(i) /\ walk[s].pos = P(i + 1)
        BY <2>1, <3>2
      <4> HIDE DEF I, A
      <4> QED
        BY <3>3, <4>1
    <3>5. P(i) < P(i + 1) /\ P(i) \in Nat /\ P(i + 1) \in Nat
      BY <1>3, <3>1
    <3> HIDE DEF I, A, measure
    <3> QED
      BY <1>1, <3>3, <3>4, <3>5
  <2> QED
    BY <2>2, <2>3
<1> DEFINE end == Iterate(walk, start, Len(buf))
<1>11. end \in I /\ walk[end] = end
  <2> DEFINE n == Len(buf)
             e == Iterate(walk, start, n)
  <2>1. \A s \in I : walk[s] \in I /\ (walk[s] = s \/ measure[walk[s]] < measure[s])
    BY <1>10
  <2>2. start \in I /\ n \in Nat /\ measure \in [I -> Nat] /\ measure[start] <= n
    BY <1>1, <1>8, <1>9
  <2> HIDE DEF I, measure, n
  <2>3. e \in I /\ walk[e] = e
    BY <2>1, <2>2, IterateEnds, ZenonT(30)
  <2> QED
    BY <2>3, Zenon DEF n
<1> HIDE DEF end
<1>12. end = A(N)
  <2>1. PICK i \in 0 .. N : end = A(i)
    BY <1>11
  <2>2. CASE i # N
    <3>1. i \in Nat /\ i < N
      BY <1>1, <2>2
    <3>2. A(i) = A(i + 1)
      BY <1>6, <1>11, <2>1, <3>1
    <3>3. P(i) = P(i + 1)
      <4>1. A(i).pos = P(i) /\ A(i + 1).pos = P(i + 1)
        OBVIOUS
      <4> HIDE DEF A
      <4> QED
        BY <3>2, <4>1
    <3> QED
      BY <1>3, <3>1, <3>3
  <2> QED
    BY <2>1, <2>2
<1>13. cs = E(N)
  BY <1>2, <1>12 DEF end
<1>14. cs \in Seq(ElementHeader) /\ Len(cs) = N /\ \A i \in 1 .. N : cs[i] = H(i)
  BY <1>1, <1>5, <1>13, SMTT(20)
<1>15. ASSUME NEW i \in 1 .. N
       PROVE  /\ cs[i].id = BigEndian(es[i].id)
              /\ Data(buf, cs[i]) = es[i].data /\ Raw(buf, cs[i]) = Whole(es[i])
  <2>1. i - 1 \in Nat /\ i - 1 < N /\ (i - 1) + 1 = i
    BY <1>1
  <2> QED
    BY <1>3, <1>14, <2>1
<1> QED
  BY <1>14, <1>15, Zenon DEF Walked, cs, N

\* Parts without elements in front of others.
LEMMA FlattenSkips ==
  ASSUME NEW S, NEW parts \in Seq(Seq(S)), NEW tail \in Seq(Seq(S)), NEW m \in Nat,
         Len(parts) = m + Len(tail), \A i \in 1 .. m : parts[i] = <<>>,
         \A i \in 1 .. Len(tail) : parts[m + i] = tail[i]
  PROVE  FlattenSeq(parts) = FlattenSeq(tail)
<1> DEFINE T == Seq(S)
           N == Len(parts)
           s == SubSeq(parts, m + 1, N)
<1>1. parts \in Seq(T) /\ tail \in Seq(T) /\ N \in Nat /\ Len(tail) \in Nat /\ N = m + Len(tail) /\ 0 \in Nat
      /\ 0 <= m /\ m <= N /\ N <= N
  OBVIOUS
<1>2. s = tail /\ SubSeq(parts, 0 + 1, N) = parts
  <2> HIDE DEF T
  <2>1. s \in Seq(T) /\ Len(s) = Len(tail) /\ \A i \in 1 .. Len(tail) : s[i] = parts[m + i]
    BY <1>1
  <2> HIDE DEF s
  <2>2. \A i \in 1 .. Len(tail) : s[i] = tail[i]
    BY <2>1
  <2>3. s = tail
    <3>1. \A i \in 1 .. Len(s) : s[i] = tail[i]
      BY <2>1, <2>2
    <3> QED
      BY <1>1, <2>1, <3>1, SameSeq, Zenon
  <2>4. SubSeq(parts, 0 + 1, N) = parts
    BY <1>1
  <2> QED
    BY <2>3, <2>4
<1>3. Between(parts, 0, m) = <<>>
  <2>1. \A j \in 0 + 1 .. m : parts[j] = <<>>
    OBVIOUS
  <2> HIDE DEF T, N, s
  <2> QED
    BY <1>1, <2>1, BetweenEmpties, Zenon DEF N
<1>4. Between(parts, m, N) = FlattenSeq(tail) /\ Between(parts, 0, N) = FlattenSeq(parts)
  BY <1>2, Zenon DEF Between
<1>5. Between(parts, m, N) \in Seq(S) /\ IsCut(Between(parts, 0, m), Between(parts, m, N), Between(parts, 0, N))
  BY <1>1, FlattenSplit, Zenon
<1>6. FlattenSeq(parts) = <<>> \o FlattenSeq(tail) /\ FlattenSeq(tail) \in Seq(S)
  BY <1>3, <1>4, <1>5, Zenon DEF IsCut
<1>7. <<>> \o FlattenSeq(tail) = FlattenSeq(tail)
  BY <1>6, EmptyConcat, Zenon
<1> QED
  BY <1>6, <1>7, Zenon

\* The first part, and the others.
LEMMA FlattenFirst ==
  ASSUME NEW S, NEW parts \in Seq(Seq(S)), Len(parts) >= 1
  PROVE  LET s == SubSeq(parts, 2, Len(parts)) IN
         /\ s \in Seq(Seq(S)) /\ Len(s) = Len(parts) - 1
         /\ \A i \in 1 .. Len(parts) - 1 : s[i] = parts[i + 1]
         /\ FlattenSeq(parts) = parts[1] \o FlattenSeq(s)
<1> DEFINE T == Seq(S)
           N == Len(parts)
           s == SubSeq(parts, 2, N)
<1>1. parts \in Seq(T) /\ N \in Nat /\ 0 \in Nat /\ 1 \in Nat /\ 0 <= 1 /\ 1 <= N /\ N <= N
      /\ 0 + 1 = 1 /\ 1 + 1 = 2 /\ N = Len(parts)
  OBVIOUS
<1>2. s \in Seq(T) /\ Len(s) = N - 1 /\ (\A i \in 1 .. N - 1 : s[i] = parts[i + 1])
      /\ SubSeq(parts, 1, N) = parts
  <2> HIDE DEF T, N
  <2>1. s \in Seq(T) /\ Len(s) = N - 1
    BY <1>1
  <2>2. \A i \in 1 .. N - 1 : s[i] = parts[i + 1]
    BY <1>1
  <2>3. SubSeq(parts, 1, N) = parts
    BY <1>1
  <2> QED
    BY <2>1, <2>2, <2>3
<1> HIDE DEF s, N
<1>3. IsCut(Between(parts, 0, 1), Between(parts, 1, N), Between(parts, 0, N))
  BY <1>1, FlattenSplit, Zenon DEF N
<1>4. Between(parts, 0, 1) = parts[1]
  <2>1. 0 + 1 <= Len(parts)
    OBVIOUS
  <2>2. Between(parts, 0, 0 + 1) = parts[0 + 1]
    BY <1>1, <2>1, FlattenOne, Zenon
  <2> QED
    BY <1>1, <2>2, Zenon
<1>5. Between(parts, 1, N) = FlattenSeq(s) /\ Between(parts, 0, N) = FlattenSeq(parts)
  BY <1>1, <1>2, Zenon DEF Between, s
<1>6. FlattenSeq(parts) = parts[1] \o FlattenSeq(s)
  BY <1>3, <1>4, <1>5, Zenon DEF IsCut
<1> QED
  BY <1>2, <1>6, Zenon DEF s, N, T

\* A size of one byte in the front of a buffer.
LEMMA SizeInFront ==
  ASSUME NEW d \in Seq(Byte), NEW o \in Seq(Byte), NEW v, IsSize(o, v, 1), Len(d) >= 1, d[1] = o[1]
  PROVE  ReadDataSize(d, 0).value = v /\ ReadDataSize(d, 0).pos = 1
<1>1. IsOctets(o) /\ SizeOf(o) = v /\ Len(o) = 1
  BY Zenon DEF IsSize
<1>2. At(d, 0, o)
  BY <1>1 DEF At
<1>3. ReadDataSize(d, 0) = [value |-> SizeOf(o), pos |-> 0 + Len(o)]
  BY <1>1, <1>2, SizeAt
<1> QED
  BY <1>1, <1>3

\* The bytes of a block, and what they are read as.
BlockOctets(track, time, flags) == <<128 + track, (time \div 256) % 256, time % 256, flags>>

BlockReads(track, time, flags) ==
  ReadBlock(BlockOctets(track, time, flags)) = [track |-> track, time |-> time, key |-> flags >= 128]
BlockFlags == {0, 128}

\* The data of a block, read.
LEMMA BlockRead ==
  ASSUME NEW track \in 0 .. 126, NEW time \in Int16, NEW flags \in BlockFlags
  PROVE  BlockReads(track, time, flags)
<1> DEFINE x == 128 + track
           y == (time \div 256) % 256
           z == time % 256
           o == <<x>>
           d == <<x, y, z, flags>>
           s == SubSeq(d, 2, 3)
<1>1. x \in Byte /\ flags \in Byte
  BY SMT DEF Byte, BlockFlags
<1>2. <<y, z>> \in Seq(Byte) /\ ReadInt(<<y, z>>) = time
  BY TimeRead
<1>3. y \in Byte /\ z \in Byte
  <2>1. time \in Int
    BY TimesWhole
  <2> QED
    BY <2>1, SMT DEF Byte
<1> HIDE DEF y, z
<1>4. d \in Seq(Byte) /\ Len(d) = 4 /\ d[1] = x /\ d[4] = flags /\ s = <<y, z>>
      /\ o \in Seq(Byte) /\ Len(o) = 1 /\ o[1] = x
  <2> HIDE DEF x
  <2>1. d \in Seq(Byte) /\ Len(d) = 4 /\ d[1] = x /\ d[2] = y /\ d[3] = z /\ d[4] = flags
    BY <1>1, <1>3
  <2>2. o \in Seq(Byte) /\ Len(o) = 1 /\ o[1] = x
    BY <1>1
  <2>3. s = <<y, z>>
    <3> HIDE DEF d
    <3>1. s \in Seq(Byte) /\ Len(s) = 2 /\ s[1] = y /\ s[2] = z
      BY <2>1
    <3> HIDE DEF s
    <3> QED
      BY <3>1
  <2> QED
    BY <2>1, <2>2, <2>3
<1>5. IsSize(o, track, 1)
  <2> HIDE DEF o
  <2> QED
    BY <1>4, SizeOf1 DEF x
<1> HIDE DEF d, o, s
<1>7. ReadDataSize(d, 0).value = track /\ ReadDataSize(d, 0).pos = 1
  <2>1. d \in Seq(Byte) /\ o \in Seq(Byte) /\ Len(d) >= 1 /\ d[1] = o[1]
    BY <1>4
  <2> QED
    BY <1>5, <2>1, SizeInFront, Zenon
<1>8. 1 + 1 = 2 /\ 1 + 2 = 3 /\ 1 + 3 = 4
  OBVIOUS
<1>9. ReadBlock(d) = [track |-> track, time |-> ReadInt(s), key |-> flags >= 128]
  BY <1>4, <1>7, <1>8, Zenon DEF ReadBlock, s
<1> QED
  BY <1>2, <1>4, <1>9, ZenonT(30) DEF BlockReads, BlockOctets, d, x, y, z

\* A block that fits its bytes.
Fitting(b) == b \in Block /\ b.track \in 0 .. 126 /\ b.time \in Int16

\* A block is read as it was sent.
LEMMA BlockReadBack ==
  ASSUME NEW b, Fitting(b)
  PROVE  ReadBlock(BlockData(b)) = b
<1> DEFINE f == IF b.key THEN 128 ELSE 0
<1>1. b = [track |-> b.track, time |-> b.time, key |-> b.key] /\ b.key \in BOOLEAN
  BY DEF Fitting, Block
<1>2. f \in {0, 128} /\ (f >= 128) = b.key
  BY <1>1
<1>3. b.track \in 0 .. 126 /\ b.time \in Int16
  BY Zenon DEF Fitting
<1> HIDE DEF f
<1>4. ReadBlock(BlockOctets(b.track, b.time, f)) = [track |-> b.track, time |-> b.time, key |-> f >= 128]
  <2> DEFINE x == b.track
             t == b.time
  <2>1. x \in 0 .. 126 /\ t \in Int16 /\ f \in BlockFlags
    BY <1>2, <1>3 DEF BlockFlags
  <2> HIDE DEF x, t
  <2>2. BlockReads(x, t, f)
    BY <2>1, BlockRead
  <2> QED
    BY <2>2, Zenon DEF BlockReads, x, t
<1>5. BlockData(b) = BlockOctets(b.track, b.time, f)
  BY Zenon DEF BlockData, BlockOctets, f
<1> QED
  BY <1>1, <1>2, <1>4, <1>5, Zenon

-----------------------------------------------------------------------------
(* What a viewer reads *)

\* An element that gives the timecode t.
IsStamp(e, t) == IsElement(e) /\ BigEndian(e.id) = MKV_Timecode /\ ReadUint(e.data) = t

\* A patched timecode as an element.
StampElement(t) ==
  LET n == UnencodedRequiredBytes(t)
  IN [id |-> ElementId(MKV_Timecode), size |-> DataSize(n, 0), data |-> Bytes(t, n)]

\* It gives the timecode that was written.
LEMMA StampIs ==
  ASSUME NEW t \in Nat, t < 256 * Place[4]
  PROVE  /\ IsStamp(StampElement(t), t) /\ Whole(StampElement(t)) = ElementUint(MKV_Timecode, t)
         /\ Whole(StampElement(t)) \in Seq(Byte) /\ Len(Whole(StampElement(t))) <= 6
<1> DEFINE n == UnencodedRequiredBytes(t)
           e == StampElement(t)
<1>1. n \in 1 .. 4 /\ Bytes(t, n) \in Seq(Byte) /\ Len(Bytes(t, n)) = n /\ ReadUint(Bytes(t, n)) = t
  BY UintIs
<1>2. IsId(ElementId(MKV_Timecode), MKV_Timecode, 1)
  BY Ids
<1>3. IsSize(DataSize(n, 0), n, 1)
  BY <1>1, SmallDataSize
<1>4. e.id = ElementId(MKV_Timecode) /\ e.size = DataSize(n, 0) /\ e.data = Bytes(t, n)
  BY DEF StampElement
<1> HIDE DEF e, n
<1>5. /\ IsOctets(e.id) /\ Len(e.id) = 1 /\ BigEndian(e.id) = MKV_Timecode
      /\ IsOctets(e.size) /\ Len(e.size) = 1 /\ SizeOf(e.size) = n
  BY <1>2, <1>3, <1>4, Zenon DEF IsId, IsSize
<1>6. e.data \in Seq(Byte) /\ Len(e.data) = n /\ Len(e.id) <= 4
  BY <1>1, <1>4, <1>5
<1>7. IsElement(e)
  BY <1>5, <1>6, Zenon DEF IsElement
<1>8. IsStamp(e, t)
  BY <1>1, <1>4, <1>5, <1>7, Zenon DEF IsStamp
<1>9. Whole(e) = ElementUint(MKV_Timecode, t)
  BY <1>4, Zenon DEF Whole, ElementUint, n
<1>10. Whole(e) \in Seq(Byte) /\ Len(Whole(e)) = Len(e.id) + Len(e.size) + Len(e.data)
  BY <1>7, WholeIs
<1>11. Len(Whole(e)) <= 6
  BY <1>1, <1>5, <1>6, <1>10
<1> QED
  BY <1>8, <1>9, <1>10, <1>11, Zenon DEF e

\* How much data a size of 4 bytes has room for.
Small(data) == data \in Seq(Byte) /\ Len(data) < Marker[4] * Place[4] - 1

\* A cluster that the code writes, as an element.
WrittenCluster(data) ==
  [id |-> ElementId(MKV_Cluster), size |-> DataSize(Len(data), 4), data |-> data]

\* It is one.
LEMMA WrittenIs ==
  ASSUME NEW data, Small(data)
  PROVE  /\ IsElement(WrittenCluster(data)) /\ Whole(WrittenCluster(data)) = Element(MKV_Cluster, data)
         /\ WrittenCluster(data).data = data /\ Element(MKV_Cluster, data) \in Seq(Byte)
<1> DEFINE n == Len(data)
           e == WrittenCluster(data)
<1>1. data \in Seq(Byte) /\ n \in Nat /\ n < Marker[4] * Place[4] - 1
  BY DEF Small
<1>2. IsId(ElementId(MKV_Cluster), MKV_Cluster, 4)
  BY Ids
<1>3. IsSize(DataSize(n, 4), n, 4)
  <2> HIDE DEF n
  <2> QED
    BY <1>1, DataSizeIs
<1>4. e.id = ElementId(MKV_Cluster) /\ e.size = DataSize(n, 4) /\ e.data = data
  BY DEF WrittenCluster
<1> HIDE DEF e, n
<1>5. /\ IsOctets(e.id) /\ Len(e.id) = 4 /\ IsOctets(e.size) /\ SizeOf(e.size) = n
  BY <1>2, <1>3, <1>4, Zenon DEF IsId, IsSize
<1>6. Len(e.id) <= 4
  BY <1>5
<1>7. IsElement(e)
  BY <1>1, <1>4, <1>5, <1>6, Zenon DEF IsElement, n
<1>8. Whole(e) = Element(MKV_Cluster, data)
  BY <1>4, Zenon DEF Whole, Element, n
<1>9. Whole(e) \in Seq(Byte)
  BY <1>7, WholeIs
<1> QED
  BY <1>4, <1>7, <1>8, <1>9, Zenon DEF e

\* The elements es with the bytes ws are those of a cluster with the timecode t and the
\* blocks bs: the first one is the timecode, there may be a position, and the blocks
\* are behind the first m.
Content(ws, es, m, t, bs) ==
  /\ ws \in Seq(Seq(Byte)) /\ Made(ws, es)
  /\ bs \in Seq(Block) /\ m \in {1, 2} /\ Len(ws) = m + Len(bs)
  /\ IsStamp(es[1], t)
  /\ m = 2 => BigEndian(es[2].id) = PositionId
  /\ \A i \in 1 .. Len(bs) : Fitting(bs[i]) /\ es[m + i] = BlockElement(bs[i])

\* What the headers of such elements are.
Kinds(buf, cs, es, m, t, bs) ==
  /\ Len(cs) = m + Len(bs) /\ Len(bs) \in Nat /\ m \in {1, 2} /\ 1 \in 1 .. Len(cs)
  /\ {i \in 1 .. Len(cs) : cs[i].id = MKV_Timecode} = {1}
  /\ {i \in 1 .. Len(cs) : cs[i].id = MKV_SimpleBlock} = m + 1 .. Len(cs)
  /\ ReadUint(Data(buf, cs[1])) = t
  /\ \A i \in 1 .. Len(bs) : ReadBlock(Data(buf, cs[m + i])) = bs[i]
  /\ \A i \in 1 .. Len(cs) : Raw(buf, cs[i]) = Whole(es[i])

\* The headers tell the timecode, and the blocks as they were sent.
LEMMA KindsAre ==
  ASSUME NEW ws, NEW es, NEW m, NEW t, NEW bs, Content(ws, es, m, t, bs),
         NEW buf, NEW cs, Walked(buf, cs, es), Len(cs) = Len(ws)
  PROVE  Kinds(buf, cs, es, m, t, bs)
<1> DEFINE n == Len(bs)
           N == Len(cs)
<1>1. /\ ws \in Seq(Seq(Byte)) /\ Made(ws, es)
      /\ bs \in Seq(Block) /\ m \in {1, 2} /\ N = m + n
      /\ IsStamp(es[1], t)
      /\ m = 2 => BigEndian(es[2].id) = PositionId
      /\ \A i \in 1 .. n : Fitting(bs[i]) /\ es[m + i] = BlockElement(bs[i])
  BY Zenon DEF Content
<1>2. n \in Nat /\ m \in Nat /\ N \in Nat /\ 1 \in 1 .. N /\ \A i \in 1 .. n : m + i \in 1 .. N
  <2>1. n \in Nat
    BY <1>1
  <2> HIDE DEF n, N
  <2> QED
    BY <1>1, <2>1
<1>3. \A i \in 1 .. N : /\ cs[i].id = BigEndian(es[i].id)
                        /\ Data(buf, cs[i]) = es[i].data /\ Raw(buf, cs[i]) = Whole(es[i])
  BY Zenon DEF Walked
<1>4. cs[1].id = MKV_Timecode /\ ReadUint(Data(buf, cs[1])) = t
  BY <1>1, <1>2, <1>3, Zenon DEF IsStamp
<1>5. IsId(ElementId(MKV_SimpleBlock), MKV_SimpleBlock, 1)
  BY Ids
<1>6. ASSUME NEW i \in 1 .. n
      PROVE  cs[m + i].id = MKV_SimpleBlock /\ ReadBlock(Data(buf, cs[m + i])) = bs[i]
  <2>1. es[m + i] = BlockElement(bs[i]) /\ Fitting(bs[i]) /\ m + i \in 1 .. N
    BY <1>1, <1>2, <1>6
  <2>2. BlockElement(bs[i]).id = ElementId(MKV_SimpleBlock) /\ BlockElement(bs[i]).data = BlockData(bs[i])
    BY DEF BlockElement
  <2>3. cs[m + i].id = BigEndian(ElementId(MKV_SimpleBlock)) /\ Data(buf, cs[m + i]) = BlockData(bs[i])
    BY <1>3, <2>1, <2>2, Zenon
  <2>4. ReadBlock(BlockData(bs[i])) = bs[i]
    BY <2>1, BlockReadBack, Zenon
  <2> QED
    BY <1>5, <2>3, <2>4, Zenon DEF IsId
<1>7. m = 2 => 2 \in 1 .. N /\ cs[2].id = PositionId
  <2> SUFFICES ASSUME m = 2 PROVE 2 \in 1 .. N /\ cs[2].id = PositionId
    OBVIOUS
  <2>1. 2 \in 1 .. N
    <3> HIDE DEF n, N
    <3> QED
      BY <1>1, <1>2
  <2> QED
    BY <1>1, <1>3, <2>1, Zenon
<1>8. PositionId # MKV_Timecode /\ PositionId # MKV_SimpleBlock /\ MKV_Timecode # MKV_SimpleBlock
  BY IdsDiffer, Zenon DEF PositionId
<1>9. ASSUME NEW i \in 1 .. N
      PROVE  \/ i = 1 \/ (i = 2 /\ m = 2)
             \/ i \in m + 1 .. N /\ i - m \in 1 .. n /\ m + (i - m) = i
  <2> HIDE DEF n, N
  <2> QED
    BY <1>1, <1>2
<1>10. \A i \in m + 1 .. N : i \in 1 .. N /\ cs[i].id = MKV_SimpleBlock /\ i - m \in 1 .. n
  <2> SUFFICES ASSUME NEW i \in m + 1 .. N
               PROVE  i \in 1 .. N /\ cs[i].id = MKV_SimpleBlock /\ i - m \in 1 .. n
    OBVIOUS
  <2>1. i \in 1 .. N /\ i - m \in 1 .. n /\ m + (i - m) = i
    <3> HIDE DEF n, N
    <3> QED
      BY <1>1, <1>2
  <2>2. cs[m + (i - m)].id = MKV_SimpleBlock
    BY <1>6, <2>1
  <2> QED
    BY <2>1, <2>2
<1>11. 1 \notin m + 1 .. N /\ (m = 2 => 2 \notin m + 1 .. N)
  <2> HIDE DEF n, N
  <2> QED
    BY <1>1, <1>2
<1> HIDE DEF n, N
<1>12. {i \in 1 .. N : cs[i].id = MKV_Timecode} = {1}
  BY <1>2, <1>4, <1>7, <1>8, <1>9, <1>10, Zenon
<1>13. {i \in 1 .. N : cs[i].id = MKV_SimpleBlock} = m + 1 .. N
  BY <1>2, <1>4, <1>7, <1>8, <1>9, <1>10, <1>11, Zenon
<1> QED
  BY <1>1, <1>2, <1>3, <1>4, <1>6, <1>12, <1>13, Zenon DEF Kinds, n, N

\* Demux, given the headers of the elements.
DemuxOf(cluster, children) ==
  LET Of(id) == {i \in 1 .. Len(children) : children[i].id = id}
      BlockAt(i) == IF i \in Of(MKV_SimpleBlock)
                    THEN <<ReadBlock(Data(cluster, children[i]))>> ELSE <<>>
  IN [timecode |-> IF Of(MKV_Timecode) = {} THEN 0
                   ELSE ReadUint(Data(cluster, children[Min(Of(MKV_Timecode))])),
      blocks   |-> FlattenSeq([i \in 1 .. Len(children) |-> BlockAt(i)])]

\* It gives the timecode and the blocks.
LEMMA DemuxOfIs ==
  ASSUME NEW buf, NEW cs, NEW es, NEW m, NEW t, NEW bs \in Seq(Block), Kinds(buf, cs, es, m, t, bs)
  PROVE  DemuxOf(buf, cs) = [timecode |-> t, blocks |-> bs]
<1> DEFINE n == Len(bs)
           N == Len(cs)
           T == {i \in 1 .. N : cs[i].id = MKV_Timecode}
           B == {i \in 1 .. N : cs[i].id = MKV_SimpleBlock}
           parts == [i \in 1 .. N |-> IF i \in B THEN <<ReadBlock(Data(buf, cs[i]))>> ELSE <<>>]
<1>1. /\ N = m + n /\ n \in Nat /\ m \in {1, 2} /\ 1 \in 1 .. N
      /\ T = {1} /\ B = m + 1 .. N
      /\ ReadUint(Data(buf, cs[1])) = t
      /\ \A i \in 1 .. n : ReadBlock(Data(buf, cs[m + i])) = bs[i]
  BY Zenon DEF Kinds
<1>2. DemuxOf(buf, cs) = [timecode |-> IF T = {} THEN 0 ELSE ReadUint(Data(buf, cs[Min(T)])),
                          blocks |-> FlattenSeq(parts)]
  BY Zenon DEF DemuxOf
<1> HIDE DEF T, B, n, N
<1>3. Min(T) = 1 /\ T # {}
  BY <1>1 DEF Min
<1>4. N \in Nat /\ m \in Nat
  BY <1>1
<1>5. /\ \A i \in 1 .. m : i \in 1 .. N /\ i \notin B
      /\ \A i \in 1 .. n : m + i \in 1 .. N /\ m + i \in B
  BY <1>1, <1>4
<1>6. /\ \A i \in 1 .. m : parts[i] = <<>>
      /\ \A i \in 1 .. n : parts[m + i] = <<bs[i]>>
      /\ \A i \in 1 .. N : parts[i] = IF i \in B THEN <<ReadBlock(Data(buf, cs[i]))>> ELSE <<>>
  BY <1>1, <1>5, Zenon
<1> DEFINE tail == [i \in 1 .. n |-> <<bs[i]>>]
<1>7. ASSUME NEW i \in 1 .. n PROVE bs[i] \in Block /\ <<bs[i]>> \in Seq(Block) /\ tail[i] = <<bs[i]>>
  <2>1. bs[i] \in Block
    BY <1>7 DEF n
  <2>2. \A b \in Block : <<b>> \in Seq(Block)
    <3> HIDE DEF tail
    <3> SUFFICES ASSUME NEW S, NEW b \in S PROVE <<b>> \in Seq(S)
      OBVIOUS
    <3> QED
      OBVIOUS
  <2> QED
    BY <2>1, <2>2
<1>8. <<>> \in Seq(Block) /\ \A i \in 1 .. N : i \in 1 .. m \/ (i - m \in 1 .. n /\ m + (i - m) = i)
  BY <1>1, <1>4
<1>9. \A i \in 1 .. N : parts[i] \in Seq(Block)
  <2> HIDE DEF parts, tail
  <2> SUFFICES ASSUME NEW i \in 1 .. N PROVE parts[i] \in Seq(Block)
    OBVIOUS
  <2>1. CASE i \in 1 .. m
    BY <1>6, <1>8, <2>1, Zenon
  <2>2. CASE i - m \in 1 .. n /\ m + (i - m) = i
    <3>1. parts[m + (i - m)] = <<bs[i - m]>> /\ <<bs[i - m]>> \in Seq(Block)
      BY <1>6, <1>7, <2>2, Zenon
    <3> QED
      BY <2>2, <3>1, Zenon
  <2> QED
    BY <1>8, <2>1, <2>2, Zenon
<1>10. parts \in Seq(Seq(Block)) /\ Len(parts) = N /\ tail \in Seq(Seq(Block)) /\ Len(tail) = n
  <2> DEFINE U == Seq(Block)
             P(i) == parts[i]
             Q(i) == tail[i]
  <2>1. parts = [i \in 1 .. N |-> P(i)] /\ \A i \in 1 .. N : P(i) \in U
    BY <1>9, Zenon
  <2>2. tail = [i \in 1 .. n |-> Q(i)] /\ \A i \in 1 .. n : Q(i) \in U
    BY <1>7, Zenon
  <2> HIDE DEF U, P, Q, parts, tail
  <2>3. parts \in [1 .. N -> U] /\ tail \in [1 .. n -> U]
    BY <2>1, <2>2
  <2>4. parts \in Seq(U) /\ Len(parts) = N /\ tail \in Seq(U) /\ Len(tail) = n
    BY <1>1, <1>4, <2>3
  <2> QED
    BY <2>4 DEF U
<1> HIDE DEF parts, tail
<1>11. FlattenSeq(parts) = FlattenSeq(tail)
  <2>1. Len(parts) = m + Len(tail) /\ \A i \in 1 .. Len(tail) : parts[m + i] = tail[i]
    BY <1>1, <1>6, <1>7, <1>10, Zenon
  <2> QED
    BY <1>4, <1>6, <1>10, <2>1, FlattenSkips, ZenonT(30)
<1>12. FlattenSeq(tail) = bs
  <2>1. Len(tail) = Len(bs) /\ \A i \in 1 .. Len(bs) : tail[i] = <<bs[i]>>
    BY <1>7, <1>10, Zenon DEF n
  <2> QED
    BY <1>10, <2>1, FlattenSingles, Zenon
<1> QED
  BY <1>1, <1>2, <1>3, <1>11, <1>12, Zenon

\* What is read at the end of pre is the header of e.
IsReadAt(buf, p, e) == ReadElementHeader(buf, p) = HeaderOf(e, p)

\* An element is read where it is.
LEMMA ElementReadAt ==
  ASSUME NEW buf \in Seq(Byte), NEW pre \in Seq(Byte), NEW post \in Seq(Byte),
         NEW e, IsElement(e), IsPart(buf, pre, Whole(e), post)
  PROVE  IsReadAt(buf, Len(pre), e)
BY ElementAt DEF IsReadAt

\* The data of an element begin behind its ID and its size.
LEMMA DataBegin ==
  ASSUME NEW e, IsElement(e)
  PROVE  ReadElementHeader(Whole(e), 0).pos = Len(e.id) + Len(e.size)
<1>1. Whole(e) \in Seq(Byte) /\ Len(e.id) \in 1 .. 4 /\ Len(e.size) \in 1 .. 8
  BY WholeIs, Zenon
<1>2. IsPart(Whole(e), <<>>, Whole(e), <<>>) /\ <<>> \in Seq(Byte)
  <2>1. <<>> \o Whole(e) = Whole(e) /\ Whole(e) \o <<>> = Whole(e) /\ <<>> \in Seq(Byte)
    BY <1>1, EmptyConcat, Zenon
  <2> QED
    BY <2>1, Zenon DEF IsPart
<1>3. IsReadAt(Whole(e), Len(<<>>), e)
  BY <1>1, <1>2, ElementReadAt, Zenon
<1>4. Len(<<>>) = 0
  OBVIOUS
<1>5. ReadElementHeader(Whole(e), 0) = HeaderOf(e, 0)
  BY <1>3, <1>4, Zenon DEF IsReadAt
<1>6. HeaderOf(e, 0).pos = 0 + Len(e.id) + Len(e.size)
  BY Zenon DEF HeaderOf
<1>7. ReadElementHeader(Whole(e), 0).pos = 0 + Len(e.id) + Len(e.size)
  BY <1>5, <1>6, Zenon
<1>8. Len(e.id) \in Nat /\ Len(e.size) \in Nat
  BY <1>1
<1>9. 0 + Len(e.id) + Len(e.size) = Len(e.id) + Len(e.size)
  BY <1>8
<1> QED
  BY <1>7, <1>9, Zenon

\* What is read of a cluster.
DemuxesTo(buf, cs, c) == DemuxOf(buf, cs) = c

\* It is the timecode and the blocks.
LEMMA DemuxesContent ==
  ASSUME NEW buf, NEW cs, NEW es, NEW m, NEW t, NEW bs \in Seq(Block), Kinds(buf, cs, es, m, t, bs)
  PROVE  DemuxesTo(buf, cs, [timecode |-> t, blocks |-> bs])
BY DemuxOfIs DEF DemuxesTo

\* A viewer reads the cluster c from the bytes w.
ReadsAs(w, c) == Demux(w) = c

\* From an element with such a content it reads the timecode and the blocks.
LEMMA DemuxIs ==
  ASSUME NEW ws, NEW es, NEW m, NEW t, NEW bs, Content(ws, es, m, t, bs),
         NEW e, IsElement(e), e.data = FlattenSeq(ws)
  PROVE  /\ ReadsAs(Whole(e), [timecode |-> t, blocks |-> bs])
         /\ Kinds(Whole(e), Children(Whole(e), ReadElementHeader(Whole(e), 0).pos), es, m, t, bs)
         /\ Children(Whole(e), ReadElementHeader(Whole(e), 0).pos) \in Seq(ElementHeader)
<1> DEFINE w == Whole(e)
           pre == e.id \o e.size
           start == ReadElementHeader(w, 0).pos
           cs == Children(w, start)
<1>1. ws \in Seq(Seq(Byte)) /\ Made(ws, es) /\ bs \in Seq(Block)
  BY Zenon DEF Content
<1>2. e.id \in Seq(Byte) /\ e.size \in Seq(Byte) /\ e.data \in Seq(Byte) /\ w \in Seq(Byte)
  <2> HIDE DEF pre, start, cs, w
  <2>1. e.id \in Seq(Byte) /\ e.size \in Seq(Byte) /\ e.data \in Seq(Byte) /\ Whole(e) \in Seq(Byte)
    BY WholeIs
  <2> QED
    BY <2>1, Zenon DEF w
<1>3. pre \in Seq(Byte) /\ Len(pre) = Len(e.id) + Len(e.size)
  <2> DEFINE a == e.id
             b == e.size
  <2>1. a \in Seq(Byte) /\ b \in Seq(Byte) /\ pre = a \o b
    BY <1>2
  <2> HIDE DEF a, b, pre, start, cs, w
  <2>2. a \o b \in Seq(Byte) /\ Len(a \o b) = Len(a) + Len(b)
    BY <2>1, Concatenated
  <2> QED
    BY <2>1, <2>2, Zenon DEF a, b
<1>4. IsCut(pre, FlattenSeq(ws), w)
  BY Zenon DEF Whole, IsCut
<1>5. start = Len(pre)
  BY <1>3, DataBegin, Zenon
<1> HIDE DEF start, w, pre
<1>6. Walked(w, cs, es) /\ Len(cs) = Len(ws)
  BY <1>1, <1>2, <1>3, <1>4, <1>5, ChildrenAre, Zenon
<1>7. Kinds(w, cs, es, m, t, bs) /\ cs \in Seq(ElementHeader)
  <2> HIDE DEF cs
  <2>1. Kinds(w, cs, es, m, t, bs)
    BY <1>6, KindsAre, Zenon
  <2> QED
    BY <1>6, <2>1, Zenon DEF Walked
<1>8. Demux(w) = DemuxOf(w, cs)
  BY <1>7, Zenon DEF Demux, DemuxOf, start
<1>9. DemuxOf(w, cs) = [timecode |-> t, blocks |-> bs]
  <2> HIDE DEF cs
  <2>1. DemuxesTo(w, cs, [timecode |-> t, blocks |-> bs])
    BY <1>1, <1>7, DemuxesContent, Zenon
  <2> QED
    BY <2>1, Zenon DEF DemuxesTo
<1> QED
  BY <1>7, <1>8, <1>9, Zenon DEF w, cs, start, ReadsAs

-----------------------------------------------------------------------------
(* What inspection writes *)

\* A block is written as an element of 6 bytes.
LEMMA BlockElementIs ==
  ASSUME NEW b, Fitting(b)
  PROVE  /\ IsElement(BlockElement(b)) /\ BigEndian(BlockElement(b).id) = MKV_SimpleBlock
         /\ Whole(BlockElement(b)) \in Seq(Byte) /\ Len(Whole(BlockElement(b))) <= 6
<1> DEFINE t == BlockElement(b)
<1>1. IsId(ElementId(MKV_SimpleBlock), MKV_SimpleBlock, 1)
  BY Ids
<1>2. b.track \in 0 .. 126 /\ b.time \in Int
  <2>1. b.track \in 0 .. 126 /\ b.time \in Int16
    BY Zenon DEF Fitting
  <2> QED
    BY <2>1, TimesWhole
<1>3. BlockData(b) \in Seq(Byte) /\ Len(BlockData(b)) = 4 /\ 4 \in 0 .. 126
  BY <1>2, BlockDataIs
<1>4. IsElement(t) /\ BigEndian(t.id) = MKV_SimpleBlock /\ Len(Whole(t)) = 2 + 4 /\ Whole(t) \in Seq(Byte)
  BY <1>1, <1>3, SmallElement, ZenonT(30) DEF BlockElement
<1> HIDE DEF t
<1>5. Len(Whole(t)) <= 6
  BY <1>4
<1> QED
  BY <1>4, <1>5, Zenon DEF t

\* So is the position.
LEMMA PositionElementIs ==
  /\ IsElement(PositionElement) /\ BigEndian(PositionElement.id) = PositionId
  /\ Whole(PositionElement) \in Seq(Byte) /\ Len(Whole(PositionElement)) <= 6
<1> DEFINE t == PositionElement
<1>1. IsId(ElementId(PositionId), PositionId, 1) /\ 1 \in 0 .. 126
  BY PositionIs
<1>2. <<0>> \in Seq(Byte) /\ Len(<<0>>) = 1
  <2>1. 0 \in Byte
    BY DEF Byte
  <2> QED
    BY <2>1
<1>3. IsElement(t) /\ BigEndian(t.id) = PositionId /\ Len(Whole(t)) = 2 + 1 /\ Whole(t) \in Seq(Byte)
  BY <1>1, <1>2, SmallElement, ZenonT(30) DEF PositionElement
<1> HIDE DEF t
<1>4. Len(Whole(t)) <= 6
  BY <1>3
<1> QED
  BY <1>3, <1>4, Zenon DEF t

\* Small parts make few bytes.
LEMMA FlattenLength ==
  ASSUME NEW S, NEW parts \in Seq(Seq(S)), \A i \in 1 .. Len(parts) : Len(parts[i]) <= 6
  PROVE  Len(FlattenSeq(parts)) <= 6 * Len(parts)
<1> DEFINE N == Len(parts)
<1>1. N \in Nat
  OBVIOUS
<1>2. PICK f \in [0 .. N -> Seq(S)] : Concatenates(f, parts) /\ FlattenSeq(parts) = f[N]
  BY FlattenIs, Zenon
<1> DEFINE D == {i \in Nat : i <= N => Len(f[i]) <= 6 * i}
<1>3. 0 \in D
  <2>1. f[0] = <<>> /\ Len(<<>>) = 0
    BY <1>2 DEF Concatenates
  <2> QED
    BY <2>1
<1>4. ASSUME NEW i \in Nat, i \in D PROVE i + 1 \in D
  <2> SUFFICES ASSUME i + 1 <= N PROVE Len(f[i + 1]) <= 6 * (i + 1)
    OBVIOUS
  <2> DEFINE x == f[i]
             y == parts[i + 1]
  <2>1. i + 1 \in 1 .. N /\ (i + 1) - 1 = i /\ i \in 0 .. N /\ Len(x) <= 6 * i
    BY <1>1, <1>4
  <2>2. x \in Seq(S)
    BY <1>2, <2>1
  <2>3. y \in Seq(S) /\ Len(y) <= 6
    BY <2>1
  <2>4. f[i + 1] = x \o y
    BY <1>2, <2>1, Zenon DEF Concatenates
  <2> HIDE DEF x, y
  <2>5. Len(x \o y) = Len(x) + Len(y) /\ Len(x) \in Nat /\ Len(y) \in Nat
    BY <2>2, <2>3, Concatenated
  <2> QED
    BY <2>1, <2>3, <2>4, <2>5
<1>5. Nat \subseteq D
  <2> HIDE DEF D
  <2> QED
    BY <1>3, <1>4, SetInduction
<1>6. Len(f[N]) <= 6 * N
  <2>1. N \in D
    BY <1>1, <1>5
  <2> QED
    BY <1>1, <2>1
<1> QED
  BY <1>2, <1>6, Zenon

\* Blocks as sources send them, and their bytes one by one.
Fittings(bs)   == bs \in Seq(Block) /\ \A i \in 1 .. Len(bs) : Fitting(bs[i])
BlockParts(bs) == [i \in 1 .. Len(bs) |-> Whole(BlockElement(bs[i]))]

\* The elements of a cluster, with the position (m = 2) or without it (m = 1), and
\* their bytes.
Written(m, t, bs) ==
  [i \in 1 .. m + Len(bs) |->
     IF i = 1 THEN StampElement(t) ELSE IF i <= m THEN PositionElement ELSE BlockElement(bs[i - m])]
Parts(m, t, bs) == [i \in 1 .. m + Len(bs) |-> Whole(Written(m, t, bs)[i])]

\* A function on the first numbers is a sequence.
LEMMA AsSequence ==
  ASSUME NEW T, NEW n \in Nat, NEW f \in [1 .. n -> T]
  PROVE  f \in Seq(T) /\ Len(f) = n
OBVIOUS

\* The bytes of blocks.
LEMMA BlockPartsAre ==
  ASSUME NEW bs, Fittings(bs)
  PROVE  BlockParts(bs) \in Seq(Seq(Byte)) /\ Len(BlockParts(bs)) = Len(bs) /\ Len(bs) \in Nat
<1>1. Len(bs) \in Nat
  BY DEF Fittings
<1>2. \A i \in 1 .. Len(bs) : Whole(BlockElement(bs[i])) \in Seq(Byte)
  BY BlockElementIs, Zenon DEF Fittings
<1> DEFINE T == Seq(Byte)
<1>3. BlockParts(bs) \in [1 .. Len(bs) -> T]
  BY <1>2 DEF BlockParts
<1> HIDE DEF T
<1>4. BlockParts(bs) \in Seq(T) /\ Len(BlockParts(bs)) = Len(bs)
  BY <1>1, <1>3, AsSequence, Zenon
<1> QED
  BY <1>1, <1>4, Zenon DEF T

\* es are a stamp, a position when m is 2, and elements of blocks.
Each(es, m, t, bs) ==
  /\ es[1] = StampElement(t) /\ 1 \in 1 .. m + Len(bs)
  /\ m = 2 => es[2] = PositionElement /\ 2 \in 1 .. m + Len(bs)
  /\ \A i \in 1 .. Len(bs) : es[m + i] = BlockElement(bs[i]) /\ m + i \in 1 .. m + Len(bs)
  /\ \A i \in 1 .. m + Len(bs) :
       IsElement(es[i]) /\ Whole(es[i]) \in Seq(Byte) /\ Len(Whole(es[i])) <= 6

\* Each of the elements of a cluster.
LEMMA WrittenEach ==
  ASSUME NEW m \in {1, 2}, NEW t \in Nat, t < 256 * Place[4], NEW bs, Fittings(bs)
  PROVE  Each(Written(m, t, bs), m, t, bs)
<1> DEFINE n == Len(bs)
           es == Written(m, t, bs)
<1>1. n \in Nat /\ m \in Nat
  BY DEF Fittings
<1>2. /\ IsElement(StampElement(t)) /\ Whole(StampElement(t)) \in Seq(Byte)
      /\ Len(Whole(StampElement(t))) <= 6
  BY StampIs, Zenon DEF IsStamp
<1>3. \A i \in 1 .. m + n : es[i] = IF i = 1 THEN StampElement(t) ELSE IF i <= m THEN PositionElement
                                    ELSE BlockElement(bs[i - m])
  BY DEF Written
<1> HIDE DEF es, n
<1>4. 1 \in 1 .. m + n /\ (m = 2 => 2 \in 1 .. m + n /\ 2 # 1 /\ 2 <= m)
  BY <1>1
<1>5. \A i \in 1 .. n : m + i \in 1 .. m + n /\ m + i # 1 /\ ~(m + i <= m) /\ (m + i) - m = i
  BY <1>1
<1>6. es[1] = StampElement(t) /\ (m = 2 => es[2] = PositionElement)
  BY <1>3, <1>4, Zenon
<1>7. \A i \in 1 .. n : es[m + i] = BlockElement(bs[i])
  BY <1>3, <1>5, Zenon
<1>8. ASSUME NEW i \in 1 .. m + n
      PROVE  IsElement(es[i]) /\ Whole(es[i]) \in Seq(Byte) /\ Len(Whole(es[i])) <= 6
  <2>1. i = 1 \/ (i # 1 /\ i <= m) \/ (i # 1 /\ ~(i <= m) /\ i - m \in 1 .. n)
    BY <1>1
  <2>2. CASE i = 1
    BY <1>2, <1>6, <2>2, Zenon
  <2>3. CASE i # 1 /\ i <= m
    BY <1>3, <1>8, <2>3, PositionElementIs, Zenon
  <2>4. CASE i # 1 /\ ~(i <= m) /\ i - m \in 1 .. n
    <3>1. Fitting(bs[i - m])
      BY <2>4, Zenon DEF Fittings, n
    <3>2. es[i] = BlockElement(bs[i - m])
      BY <1>3, <1>8, <2>4, Zenon
    <3> QED
      BY <3>1, <3>2, BlockElementIs, Zenon
  <2> QED
    BY <2>1, <2>2, <2>3, <2>4, Zenon
<1> QED
  BY <1>4, <1>5, <1>6, <1>7, <1>8, Zenon DEF es, n, Each

\* What makes them the elements of a cluster with the timecode t and the blocks bs.
PartsMade(m, t, bs) ==
  /\ Content(Parts(m, t, bs), Written(m, t, bs), m, t, bs)
  /\ Len(FlattenSeq(Parts(m, t, bs))) <= 6 * (m + Len(bs))
  /\ Parts(m, t, bs) \in Seq(Seq(Byte)) /\ Len(Parts(m, t, bs)) = m + Len(bs)

\* They are such elements.
LEMMA PartsAre ==
  ASSUME NEW m \in {1, 2}, NEW t \in Nat, t < 256 * Place[4], NEW bs, Fittings(bs)
  PROVE  PartsMade(m, t, bs)
<1> DEFINE n == Len(bs)
           es == Written(m, t, bs)
           ws == Parts(m, t, bs)
           T == Seq(Byte)
<1>1. n \in Nat /\ m \in Nat /\ m + n \in Nat
  BY DEF Fittings
<1> HIDE DEF es, T, n
<1>13. Each(es, m, t, bs)
  BY WrittenEach, Zenon DEF es
<1>2. \A i \in 1 .. m + n :
        IsElement(es[i]) /\ Whole(es[i]) \in T /\ Len(Whole(es[i])) <= 6
  BY <1>13, Zenon DEF Each, n, T
<1>8. /\ es[1] = StampElement(t) /\ (m = 2 => es[2] = PositionElement)
      /\ \A i \in 1 .. Len(bs) : es[m + i] = BlockElement(bs[i])
  BY <1>13, Zenon DEF Each
<1>3. ws = [i \in 1 .. m + n |-> Whole(es[i])]
  BY Zenon DEF Parts, es, n
<1> HIDE DEF ws
<1>4. ws \in [1 .. m + n -> T] /\ \A i \in 1 .. m + n : ws[i] = Whole(es[i])
  BY <1>2, <1>3
<1>5. ws \in Seq(T) /\ Len(ws) = m + n
  BY <1>1, <1>4, AsSequence, Zenon
<1>6. Made(ws, es)
  BY <1>2, <1>4, <1>5, Zenon DEF Made
<1>7. Len(FlattenSeq(ws)) <= 6 * (m + n)
  <2>1. \A i \in 1 .. Len(ws) : Len(ws[i]) <= 6
    BY <1>2, <1>4, <1>5, Zenon
  <2>2. Len(FlattenSeq(ws)) <= 6 * Len(ws)
    BY <1>5, <2>1, FlattenLength, Zenon DEF T
  <2> QED
    BY <1>5, <2>2, Zenon
<1>9. IsStamp(es[1], t)
  BY <1>8, StampIs, Zenon
<1>10. m = 2 => BigEndian(es[2].id) = PositionId
  BY <1>8, PositionElementIs, Zenon
<1>11. bs \in Seq(Block) /\ \A i \in 1 .. Len(bs) : Fitting(bs[i])
  BY Zenon DEF Fittings
<1>12. Content(ws, es, m, t, bs)
  BY <1>5, <1>6, <1>8, <1>9, <1>10, <1>11, Zenon DEF Content, T, n
<1> QED
  BY <1>5, <1>7, <1>12, Zenon DEF es, ws, n, T, PartsMade

-----------------------------------------------------------------------------
(* What a viewer reads of it *)

\* The bytes w are an element that a viewer reads as the cluster c.
IsWritten(w, c) ==
  \E e : IsElement(e) /\ w = Whole(e) /\ w \in Seq(Byte) /\ c \in Cluster /\ Demux(w) = c

\* Blocks that fit into a cluster.
MostRoom == 16382
Few(bs)  == Fittings(bs) /\ 6 + 6 * Len(bs) <= MostRoom

\* A cluster of the elements that streamer_inspect_cluster writes, with or without a
\* position, is a cluster for a viewer, who reads its timecode and blocks from it.
THEOREM PartsRead ==
  ASSUME NEW m \in {1, 2}, NEW t \in Nat, t < 256 * Place[4], NEW bs, Few(bs)
  PROVE  IsWritten(Element(MKV_Cluster, FlattenSeq(Parts(m, t, bs))), [timecode |-> t, blocks |-> bs])
<1> DEFINE n == Len(bs)
           ws == Parts(m, t, bs)
           es == Written(m, t, bs)
           d == FlattenSeq(ws)
           e == WrittenCluster(d)
           w == Element(MKV_Cluster, d)
           c == [timecode |-> t, blocks |-> bs]
<1>1. Fittings(bs) /\ bs \in Seq(Block) /\ n \in Nat
  BY DEF Few, Fittings
<1>8. 6 * (m + n) <= 16400
  BY <1>1 DEF Few, MostRoom
<1> HIDE DEF n, e, w
<1> HIDE DEF ws, es, d, c
<1>2. Content(ws, es, m, t, bs) /\ Len(d) <= 6 * (m + n) /\ ws \in Seq(Seq(Byte))
  <2>1. PartsMade(m, t, bs)
    BY <1>1, PartsAre, Zenon
  <2> QED
    BY <2>1, Zenon DEF PartsMade, n, d, ws, es
<1>3. d \in Seq(Byte)
  BY <1>2, FlattenType, Zenon DEF d
<1>4. Small(d)
  <2>1. Marker[4] * Place[4] - 1 > 16400
    BY Tables
  <2>2. Len(d) \in Nat
    BY <1>3
  <2>3. Len(d) < Marker[4] * Place[4] - 1
    <3> DEFINE x == Marker[4] * Place[4] - 1
    <3>1. x \in Int
      BY Tables
    <3> HIDE DEF x
    <3>2. x > 16400
      BY <2>1 DEF x
    <3>3. m + n \in Nat
      BY <1>1
    <3>4. Len(d) < x
      BY <1>1, <1>8, <1>2, <2>2, <3>1, <3>2, <3>3
    <3> QED
      BY <3>4 DEF x
  <2> QED
    BY <1>3, <2>3, Zenon DEF Small
<1>5. IsElement(e) /\ Whole(e) = w /\ e.data = d /\ w \in Seq(Byte)
  BY <1>4, WrittenIs, Zenon DEF e, w
<1>6. Demux(Whole(e)) = c
  <2>1. e.data = FlattenSeq(ws)
    BY <1>5, Zenon DEF d
  <2>2. ReadsAs(Whole(e), c)
    BY <1>2, <1>5, <2>1, DemuxIs, Zenon DEF c
  <2> QED
    BY <2>2, Zenon DEF ReadsAs
<1>7. c \in Cluster
  BY <1>1 DEF Cluster, c
<1> QED
  BY <1>5, <1>6, <1>7, Zenon DEF IsWritten, w, d, ws, c

-----------------------------------------------------------------------------
(* What inspection reads *)

\* The elements in a cluster of a source.
ChildrenOf(c) == [i \in 1 .. 2 + Len(c.blocks) |-> Child(c, i)]

\* The blocks of a source fit.
LEMMA SentFew ==
  ASSUME NEW c, Sendable(c)
  PROVE  Few(c.blocks) /\ c.timecode \in Byte /\ c.timecode \in Nat /\ c \in Cluster
<1>1. c \in Cluster /\ c.timecode \in Byte /\ 6 + 6 * Len(c.blocks) <= Room
  BY Zenon DEF Sendable, Muxable
<1>2. c.blocks \in Seq(Block) /\ Len(c.blocks) \in Nat
  BY <1>1 DEF Cluster
<1>3. \A i \in 1 .. Len(c.blocks) : Fitting(c.blocks[i])
  BY BlockFits, Zenon DEF Fitting
<1>4. Room <= MostRoom /\ Room \in Nat /\ MostRoom \in Nat
  BY DEF Room, MostRoom
<1>5. 6 + 6 * Len(c.blocks) <= MostRoom
  <2> DEFINE n == Len(c.blocks)
  <2>1. n \in Nat /\ 6 + 6 * n <= Room
    BY <1>1, <1>2, Zenon
  <2> HIDE DEF n
  <2>2. 6 + 6 * n <= MostRoom
    BY <1>4, <2>1
  <2> QED
    BY <2>2 DEF n
<1>6. c.timecode \in Nat
  <2>1. c.timecode \in Byte
    BY <1>1, Zenon
  <2> QED
    BY <2>1 DEF Byte
<1> QED
  BY <1>1, <1>2, <1>3, <1>5, <1>6, Zenon DEF Few, Fittings

\* They are a timecode, a position and blocks.
LEMMA SentContent ==
  ASSUME NEW c, Sendable(c)
  PROVE  Content(MuxElements(c), ChildrenOf(c), 2, c.timecode, c.blocks)
<1> DEFINE n == Len(c.blocks)
           ws == MuxElements(c)
           es == ChildrenOf(c)
<1>1. ws \in Seq(Seq(Byte)) /\ Len(ws) = 2 + n /\ n \in Nat
      /\ \A i \in 1 .. 2 + n : ws[i] = Whole(Child(c, i))
  BY MuxElementsAre, Zenon
<1>2. \A i \in 1 .. 2 + n : es[i] = Child(c, i)
  BY DEF ChildrenOf
<1> HIDE DEF n, ws, es
<1>3. Made(ws, es)
  <2>1. \A i \in 1 .. 2 + n : IsElement(Child(c, i))
    BY ChildIs, Zenon DEF n
  <2> QED
    BY <1>1, <1>2, <2>1, Zenon DEF Made
<1>4. 1 \in 1 .. 2 + n /\ 2 \in 1 .. 2 + n /\ 2 # 1
      /\ \A i \in 1 .. n : 2 + i \in 1 .. 2 + n /\ 2 + i # 1 /\ 2 + i # 2 /\ (2 + i) - 2 = i
  BY <1>1
<1>5. es[1] = TimecodeElement(c.timecode) /\ es[2] = PositionElement
  BY <1>2, <1>4, Zenon DEF Child
<1>6. \A i \in 1 .. n : es[2 + i] = BlockElement(c.blocks[i])
  BY <1>2, <1>4, Zenon DEF Child
<1>7. IsStamp(es[1], c.timecode)
  <2>1. IsElement(Child(c, 1)) /\ BigEndian(Child(c, 1).id) = MKV_Timecode
    BY <1>4, ChildIs, Zenon DEF n
  <2>2. es[1] = Child(c, 1)
    BY <1>2, <1>4, Zenon
  <2>3. es[1].data = <<c.timecode>>
    BY <1>5 DEF TimecodeElement
  <2>4. ReadUint(<<c.timecode>>) = c.timecode
    <3> DEFINE x == c.timecode
               s == <<x>>
    <3>1. x \in Byte
      BY SentFew, Zenon
    <3> HIDE DEF x
    <3>2. s \in Seq(Byte) /\ Len(s) = 1 /\ s[1] = x
      BY <3>1
    <3> HIDE DEF s
    <3>3. BigEndian(s) = x
      BY <3>2, BigEndian1, Zenon
    <3> QED
      BY <3>3, Zenon DEF ReadUint, s, x
  <2> QED
    BY <2>1, <2>2, <2>3, <2>4, Zenon DEF IsStamp
<1>8. BigEndian(es[2].id) = PositionId
  BY <1>5, PositionElementIs
<1>9. c.blocks \in Seq(Block) /\ \A i \in 1 .. n : Fitting(c.blocks[i])
  BY SentFew, Zenon DEF Few, Fittings, n
<1>10. 2 \in {1, 2}
  OBVIOUS
<1> QED
  BY <1>1, <1>3, <1>6, <1>7, <1>8, <1>9, <1>10, Zenon DEF Content, n, ws, es

\* The headers of elements that inspection finds in a cluster of a source.
SentChildren(c) == Children(MuxCluster(c), ReadElementHeader(MuxCluster(c), 0).pos)

\* They are the ones that the source has written.
LEMMA SentRead ==
  ASSUME NEW c, Sendable(c)
  PROVE  /\ Kinds(MuxCluster(c), SentChildren(c), ChildrenOf(c), 2, c.timecode, c.blocks)
         /\ SentChildren(c) \in Seq(ElementHeader)
         /\ ChildrenOf(c)[2] = PositionElement
         /\ \A i \in 1 .. Len(c.blocks) : ChildrenOf(c)[2 + i] = BlockElement(c.blocks[i])
<1> DEFINE e == ClusterElement(c)
<1>1. IsElement(e) /\ Whole(e) = MuxCluster(c)
  BY MuxClusterIs, Zenon
<1>2. e.data = FlattenSeq(MuxElements(c))
  BY DEF ClusterElement, ChildBytes
<1> HIDE DEF e
<1>3. Content(MuxElements(c), ChildrenOf(c), 2, c.timecode, c.blocks)
  BY SentContent, Zenon
<1>4. /\ Kinds(MuxCluster(c), SentChildren(c), ChildrenOf(c), 2, c.timecode, c.blocks)
      /\ SentChildren(c) \in Seq(ElementHeader)
  BY <1>1, <1>2, <1>3, DemuxIs, Zenon DEF SentChildren
<1>5. ChildrenOf(c)[2] = PositionElement
  <2>1. Len(c.blocks) \in Nat
    BY MuxElementsAre, Zenon
  <2>2. ChildrenOf(c)[2] = Child(c, 2)
    BY <2>1 DEF ChildrenOf
  <2> QED
    BY <2>2 DEF Child
<1>6. \A i \in 1 .. Len(c.blocks) : ChildrenOf(c)[2 + i] = BlockElement(c.blocks[i])
  BY <1>3, Zenon DEF Content
<1> QED
  BY <1>4, <1>5, <1>6, Zenon

-----------------------------------------------------------------------------
(* Inspection *)

\* What inspection reads of the elements cs in buf: which are of a kind, the timecode
\* before one, a block, and the one with which the intro starts anew.
OfKind(cs, id) == {i \in 1 .. Len(cs) : cs[i].id = id}
TimecodeAt(buf, cs, i) ==
  LET before == {j \in OfKind(cs, MKV_Timecode) : j <= i}
  IN IF before = {} THEN 0 ELSE ReadUint(Data(buf, cs[Max(before)]))
BlockIn(buf, cs, i) == ReadBlock(Data(buf, cs[i]))
Begin(buf, cs) ==
  Max({0} \cup {i \in OfKind(cs, MKV_SimpleBlock) : Restarts(BlockIn(buf, cs, i))})

\* What it makes of them for the stream, and for the intro.
PatchedParts(s, buf, cs) ==
  [i \in 1 .. Len(cs) |-> IF i \in OfKind(cs, MKV_Timecode) THEN Stamp(s, TimecodeAt(buf, cs, i))
                          ELSE Raw(buf, cs[i])]
KeptPart(s, buf, cs, i) ==
  IF i >= Begin(buf, cs) /\ i \in OfKind(cs, MKV_Timecode) \cup OfKind(cs, MKV_SimpleBlock)
  THEN IF i \in OfKind(cs, MKV_Timecode) THEN Stamp(s, TimecodeAt(buf, cs, i)) ELSE Raw(buf, cs[i])
  ELSE <<>>
KeptParts(s, buf, cs) == [i \in 1 .. Len(cs) |-> KeptPart(s, buf, cs, i)]

\* Inspection in these terms.
LEMMA InspectedIn ==
  ASSUME NEW s, NEW buf, NEW cs
  PROVE  Inspected(s, buf, cs) =
           [s EXCEPT
              !.relayed = Append(@, Demux(Element(MKV_Cluster, FlattenSeq(PatchedParts(s, buf, cs))))),
              !.intro_buffer =
                IF Begin(buf, cs) = 0
                THEN @ \o Element(MKV_Cluster, FlattenSeq(KeptParts(s, buf, cs)))
                ELSE Element(MKV_Cluster, Stamp(s, TimecodeAt(buf, cs, Begin(buf, cs)))
                                            \o FlattenSeq(KeptParts(s, buf, cs))),
              !.last = IF OfKind(cs, MKV_SimpleBlock) = {} THEN @
                       ELSE TimecodeAt(buf, cs, Max(OfKind(cs, MKV_SimpleBlock)))
                              + BlockIn(buf, cs, Max(OfKind(cs, MKV_SimpleBlock))).time]
BY Zenon DEF Inspected, PatchedParts, KeptParts, KeptPart, Begin, BlockIn, TimecodeAt, OfKind

\* The greatest number of a set.
LEMMA MaxIs ==
  ASSUME NEW T, T \subseteq Int, NEW m \in T, \A x \in T : x <= m
  PROVE  Max(T) = m
<1> DEFINE G(x) == x \in T /\ \A y \in T : x >= y
<1>1. G(m)
  OBVIOUS
<1>2. ASSUME NEW x, G(x) PROVE x = m
  BY <1>2
<1>3. Max(T) = CHOOSE x : G(x)
  BY Zenon DEF Max
<1> HIDE DEF G
<1> QED
  BY <1>1, <1>2, <1>3, Zenon

\* The elements of a cluster that is read as the timecode t and the blocks bs: the
\* timecode is the first of them and before all others, and the blocks are the last.
KindsSeen(buf, cs, es, t, bs) ==
  LET n == Len(bs) IN
  /\ n \in Nat /\ Len(cs) = 2 + n
  /\ OfKind(cs, MKV_Timecode) = {1} /\ OfKind(cs, MKV_SimpleBlock) = 3 .. 2 + n
  /\ \A i \in 1 .. 2 + n : TimecodeAt(buf, cs, i) = t
  /\ \A i \in 1 .. n : BlockIn(buf, cs, 2 + i) = bs[i]
  /\ \A i \in 1 .. 2 + n : Raw(buf, cs[i]) = Whole(es[i])

\* That is what inspection reads of the elements of a cluster.
LEMMA KindsRead ==
  ASSUME NEW buf, NEW cs, NEW es, NEW t, NEW bs, Kinds(buf, cs, es, 2, t, bs)
  PROVE  KindsSeen(buf, cs, es, t, bs)
<1> DEFINE n == Len(bs)
<1>1. /\ Len(cs) = 2 + n /\ n \in Nat
      /\ OfKind(cs, MKV_Timecode) = {1} /\ OfKind(cs, MKV_SimpleBlock) = 2 + 1 .. Len(cs)
      /\ ReadUint(Data(buf, cs[1])) = t
      /\ \A i \in 1 .. n : BlockIn(buf, cs, 2 + i) = bs[i]
      /\ \A i \in 1 .. Len(cs) : Raw(buf, cs[i]) = Whole(es[i])
  BY Zenon DEF Kinds, OfKind, BlockIn
<1> HIDE DEF n
<1>2. 2 + 1 .. Len(cs) = 3 .. 2 + n
  BY <1>1
<1>3. ASSUME NEW i \in 1 .. 2 + n PROVE TimecodeAt(buf, cs, i) = t
  <2> DEFINE before == {j \in OfKind(cs, MKV_Timecode) : j <= i}
  <2>1. before = {1}
    BY <1>1
  <2>2. Max({1}) = 1
    BY MaxIs
  <2>3. {1} # {}
    OBVIOUS
  <2>4. TimecodeAt(buf, cs, i) = IF before = {} THEN 0 ELSE ReadUint(Data(buf, cs[Max(before)]))
    BY Zenon DEF TimecodeAt
  <2> HIDE DEF before
  <2> QED
    BY <1>1, <2>1, <2>2, <2>3, <2>4, Zenon
<1> QED
  BY <1>1, <1>2, <1>3, Zenon DEF n, KindsSeen

\* The intro starts anew at the last keyframe.
LEMMA BeginIs ==
  ASSUME NEW buf, NEW cs, NEW es, NEW t, NEW c, Kinds(buf, cs, es, 2, t, c.blocks)
  PROVE  /\ Keys(c) = {} => Begin(buf, cs) = 0
         /\ \A k \in Keys(c) : (\A j \in Keys(c) : j <= k) => Begin(buf, cs) = 2 + k
<1> DEFINE n == Len(c.blocks)
           T == {i \in OfKind(cs, MKV_SimpleBlock) : Restarts(BlockIn(buf, cs, i))}
<1> HIDE DEF T
<1>1. /\ n \in Nat /\ OfKind(cs, MKV_SimpleBlock) = 3 .. 2 + n
      /\ \A i \in 1 .. n : BlockIn(buf, cs, 2 + i) = c.blocks[i]
  <2>1. KindsSeen(buf, cs, es, t, c.blocks)
    BY KindsRead, Zenon
  <2> QED
    BY <2>1, Zenon DEF KindsSeen
<1>2. \A i \in 1 .. n : Restarts(BlockIn(buf, cs, 2 + i)) <=> Starts(c.blocks[i])
  BY <1>1, Zenon DEF Restarts, Starts
<1>3. Keys(c) = {i \in 1 .. n : Starts(c.blocks[i])}
  BY DEF Keys
<1>4. Begin(buf, cs) = Max({0} \cup T)
  BY Zenon DEF Begin, T
<1>5. T = {i \in 3 .. 2 + n : Restarts(BlockIn(buf, cs, i))}
  BY <1>1, Zenon DEF T
<1> HIDE DEF n
<1>6. \A i \in T : i - 2 \in Keys(c) /\ i \in Int
  <2> SUFFICES ASSUME NEW i \in T PROVE i - 2 \in Keys(c) /\ i \in Int
    OBVIOUS
  <2>1. i \in 3 .. 2 + n /\ Restarts(BlockIn(buf, cs, i))
    BY <1>5, Zenon
  <2> DEFINE j == i - 2
  <2>2. j \in 1 .. n /\ i = 2 + j /\ i \in Int
    BY <1>1, <2>1
  <2> HIDE DEF j
  <2>3. j \in Keys(c)
    BY <1>2, <1>3, <2>1, <2>2, Zenon
  <2> QED
    BY <2>2, <2>3, Zenon DEF j
<1>7. \A k \in Keys(c) : 2 + k \in T /\ k \in Int
  <2> SUFFICES ASSUME NEW k \in Keys(c) PROVE 2 + k \in T /\ k \in Int
    OBVIOUS
  <2>1. k \in 1 .. n /\ Starts(c.blocks[k])
    BY <1>3, Zenon
  <2> DEFINE i == 2 + k
  <2>2. i \in 3 .. 2 + n /\ k \in Int
    BY <1>1, <2>1
  <2>3. Restarts(BlockIn(buf, cs, i))
    BY <1>2, <2>1, Zenon
  <2> HIDE DEF i
  <2>4. i \in T
    BY <1>5, <2>2, <2>3, Zenon
  <2> QED
    BY <2>2, <2>4, Zenon DEF i
<1>8. ASSUME Keys(c) = {} PROVE Max({0} \cup T) = 0
  <2>1. T = {}
    BY <1>6, <1>8, Zenon
  <2>2. {0} \cup T = {0}
    BY <2>1
  <2>3. Max({0}) = 0
    BY MaxIs
  <2> QED
    BY <2>2, <2>3, Zenon
<1>9. ASSUME NEW k \in Keys(c), \A j \in Keys(c) : j <= k PROVE Max({0} \cup T) = 2 + k
  <2> DEFINE U == {0} \cup T
             m == 2 + k
  <2>1. U \subseteq Int /\ m \in U /\ k \in Int
    BY <1>6, <1>7
  <2>2. k >= 1
    BY <1>3
  <2>3. \A x \in T : x <= m
    BY <1>6, <1>9, <2>1
  <2>4. 0 <= m
    BY <2>1, <2>2
  <2>5. \A x \in U : x <= m
    BY <2>3, <2>4
  <2> HIDE DEF U, m
  <2>6. Max(U) = m
    BY <2>1, <2>5, MaxIs, Zenon
  <2> QED
    BY <2>6, Zenon DEF U, m
<1> QED
  BY <1>4, <1>8, <1>9, Zenon

\* cs are the elements es of the cluster c of a source in buf.
SeenAs(buf, cs, es, c) ==
  /\ Kinds(buf, cs, es, 2, c.timecode, c.blocks)
  /\ c \in Cluster /\ Few(c.blocks)
  /\ es[2] = PositionElement
  /\ \A i \in 1 .. Len(c.blocks) : es[2 + i] = BlockElement(c.blocks[i])

\* t is a patched timecode that fits.
Patching(s, c, t) == t \in Nat /\ t < 256 * Place[4] /\ s.offset + c.timecode = t

\* The bytes of its element.
LEMMA StampBytes ==
  ASSUME NEW s, NEW c, NEW t, Patching(s, c, t)
  PROVE  Stamp(s, c.timecode) = Whole(StampElement(t)) /\ Whole(StampElement(t)) \in Seq(Byte)
<1>1. t \in Nat /\ t < 256 * Place[4] /\ s.offset + c.timecode = t
  BY Zenon DEF Patching
<1>2. Whole(StampElement(t)) = ElementUint(MKV_Timecode, t) /\ Whole(StampElement(t)) \in Seq(Byte)
  BY <1>1, StampIs, Zenon
<1> QED
  BY <1>1, <1>2, Zenon DEF Stamp

\* Each of the elements that inspection reads.
Scanned(buf, cs, c) ==
  LET n == Len(c.blocks) IN
  /\ n \in Nat /\ Len(cs) = 2 + n
  /\ OfKind(cs, MKV_Timecode) = {1} /\ OfKind(cs, MKV_SimpleBlock) = 3 .. 2 + n
  /\ \A i \in 1 .. 2 + n : TimecodeAt(buf, cs, i) = c.timecode
  /\ \A i \in 1 .. n : BlockIn(buf, cs, 2 + i) = c.blocks[i]
  /\ Raw(buf, cs[2]) = Whole(PositionElement)
  /\ \A i \in 1 .. n : Raw(buf, cs[2 + i]) = Whole(BlockElement(c.blocks[i]))

\* That is what the elements of a cluster of a source are scanned as.
LEMMA SeenEach ==
  ASSUME NEW buf, NEW cs, NEW es, NEW c, SeenAs(buf, cs, es, c)
  PROVE  Scanned(buf, cs, c)
<1> DEFINE n == Len(c.blocks)
<1>1. KindsSeen(buf, cs, es, c.timecode, c.blocks)
  BY KindsRead, Zenon DEF SeenAs
<1>2. /\ n \in Nat /\ Len(cs) = 2 + n
      /\ OfKind(cs, MKV_Timecode) = {1} /\ OfKind(cs, MKV_SimpleBlock) = 3 .. 2 + n
      /\ \A i \in 1 .. 2 + n : TimecodeAt(buf, cs, i) = c.timecode
      /\ \A i \in 1 .. n : BlockIn(buf, cs, 2 + i) = c.blocks[i]
      /\ \A i \in 1 .. 2 + n : Raw(buf, cs[i]) = Whole(es[i])
  BY <1>1, Zenon DEF KindsSeen
<1>3. es[2] = PositionElement /\ \A i \in 1 .. n : es[2 + i] = BlockElement(c.blocks[i])
  BY Zenon DEF SeenAs
<1> HIDE DEF n
<1>4. 2 \in 1 .. 2 + n /\ \A i \in 1 .. n : 2 + i \in 1 .. 2 + n
  BY <1>2
<1>5. Raw(buf, cs[2]) = Whole(PositionElement)
  BY <1>2, <1>3, <1>4, Zenon
<1>6. \A i \in 1 .. n : Raw(buf, cs[2 + i]) = Whole(BlockElement(c.blocks[i]))
  BY <1>2, <1>3, <1>4, Zenon
<1> QED
  BY <1>2, <1>5, <1>6, Zenon DEF n, Scanned

\* The patched elements are those of a cluster with the patched timecode.
LEMMA PatchedIs ==
  ASSUME NEW s, NEW buf, NEW cs, NEW es, NEW c, SeenAs(buf, cs, es, c), NEW t, Patching(s, c, t)
  PROVE  PatchedParts(s, buf, cs) = Parts(2, t, c.blocks)
<1> DEFINE n == Len(c.blocks)
           p == PatchedParts(s, buf, cs)
           w == Parts(2, t, c.blocks)
<1>1. /\ n \in Nat /\ Len(cs) = 2 + n /\ OfKind(cs, MKV_Timecode) = {1}
      /\ \A i \in 1 .. 2 + n : TimecodeAt(buf, cs, i) = c.timecode
      /\ Raw(buf, cs[2]) = Whole(PositionElement)
      /\ \A i \in 1 .. n : Raw(buf, cs[2 + i]) = Whole(BlockElement(c.blocks[i]))
  <2> HIDE DEF p, w
  <2>1. Scanned(buf, cs, c)
    BY SeenEach, Zenon
  <2> QED
    BY <2>1, Zenon DEF Scanned
<1>2. p = [i \in 1 .. 2 + n |-> IF i \in {1} THEN Stamp(s, TimecodeAt(buf, cs, i)) ELSE Raw(buf, cs[i])]
  BY <1>1, Zenon DEF PatchedParts
<1>3. w = [i \in 1 .. 2 + n |-> Whole(Written(2, t, c.blocks)[i])]
  BY Zenon DEF Parts
<1> HIDE DEF n, p, w
<1>4. ASSUME NEW i \in 1 .. 2 + n PROVE p[i] = w[i]
  <2>1. i = 1 \/ i = 2 \/ (i # 1 /\ i # 2 /\ i - 2 \in 1 .. n /\ i = 2 + (i - 2) /\ ~(i <= 2))
    BY <1>1
  <2>2. p[i] = IF i \in {1} THEN Stamp(s, TimecodeAt(buf, cs, i)) ELSE Raw(buf, cs[i])
    BY <1>2
  <2>3. w[i] = Whole(Written(2, t, c.blocks)[i])
    BY <1>3
  <2>4. Written(2, t, c.blocks)[i] =
          IF i = 1 THEN StampElement(t) ELSE IF i <= 2 THEN PositionElement
          ELSE BlockElement(c.blocks[i - 2])
    BY DEF Written, n
  <2>5. CASE i = 1
    <3>1. TimecodeAt(buf, cs, i) = c.timecode
      BY <1>1
    <3>2. p[i] = Stamp(s, c.timecode)
      BY <2>2, <2>5, <3>1
    <3>3. w[i] = Whole(StampElement(t))
      BY <2>3, <2>4, <2>5
    <3> QED
      BY <3>2, <3>3, StampBytes, Zenon
  <2>6. CASE i = 2
    <3>1. Written(2, t, c.blocks)[i] = PositionElement
      BY <2>4, <2>6
    <3>2. p[i] = Raw(buf, cs[2])
      BY <2>2, <2>6
    <3> QED
      BY <1>1, <2>3, <3>1, <3>2, Zenon
  <2>7. CASE i # 1 /\ i # 2 /\ i - 2 \in 1 .. n /\ i = 2 + (i - 2) /\ ~(i <= 2)
    <3>1. Written(2, t, c.blocks)[i] = BlockElement(c.blocks[i - 2])
      BY <2>4, <2>7, Zenon
    <3>2. p[i] = Raw(buf, cs[i])
      BY <2>2, <2>7
    <3>3. Raw(buf, cs[2 + (i - 2)]) = Whole(BlockElement(c.blocks[i - 2]))
      BY <1>1, <2>7, Zenon
    <3>4. Raw(buf, cs[i]) = Whole(BlockElement(c.blocks[i - 2]))
      BY <2>7, <3>3, Zenon
    <3> QED
      BY <2>3, <3>1, <3>2, <3>4, Zenon
  <2> QED
    BY <2>1, <2>5, <2>6, <2>7
<1> DEFINE I == 1 .. 2 + n
           P(i) == IF i \in {1} THEN Stamp(s, TimecodeAt(buf, cs, i)) ELSE Raw(buf, cs[i])
           W(i) == Whole(Written(2, t, c.blocks)[i])
<1>5. p = [i \in I |-> P(i)] /\ w = [i \in I |-> W(i)] /\ \A i \in I : p[i] = w[i]
  BY <1>2, <1>3, <1>4, Zenon
<1> HIDE DEF I, P, W
<1>6. p = w
  BY <1>5
<1> QED
  BY <1>6 DEF p, w

\* A first part, empty ones, and the bytes of blocks.
LEMMA StampFirst ==
  ASSUME NEW bs, Fittings(bs), NEW m \in Nat, NEW parts \in Seq(Seq(Byte)), Len(parts) = 1 + m + Len(bs),
         \A i \in 1 .. m : parts[1 + i] = <<>>,
         \A i \in 1 .. Len(bs) : parts[1 + m + i] = BlockParts(bs)[i]
  PROVE  IsCut(parts[1], FlattenSeq(BlockParts(bs)), FlattenSeq(parts))
<1> DEFINE n == Len(bs)
           b == BlockParts(bs)
           r == SubSeq(parts, 2, Len(parts))
<1>1. b \in Seq(Seq(Byte)) /\ Len(b) = n /\ n \in Nat
  BY BlockPartsAre, Zenon
<1>2. Len(parts) >= 1 /\ Len(parts) - 1 = m + n
  BY <1>1
<1> HIDE DEF n, b
<1>3. /\ r \in Seq(Seq(Byte)) /\ Len(r) = Len(parts) - 1
      /\ \A i \in 1 .. Len(parts) - 1 : r[i] = parts[i + 1]
      /\ FlattenSeq(parts) = parts[1] \o FlattenSeq(r)
  BY <1>2, FlattenFirst, Zenon
<1> HIDE DEF r
<1>4. \A i \in 1 .. m : r[i] = <<>>
  <2>1. \A i \in 1 .. m : i \in 1 .. Len(parts) - 1 /\ 1 + i = i + 1
    BY <1>1, <1>2
  <2> QED
    BY <1>3, <2>1, Zenon
<1>5. \A i \in 1 .. Len(b) : r[m + i] = b[i]
  <2>1. \A i \in 1 .. n : m + i \in 1 .. Len(parts) - 1 /\ 1 + m + i = (m + i) + 1
    BY <1>1, <1>2
  <2>2. \A i \in 1 .. n : parts[1 + m + i] = b[i]
    BY Zenon DEF n, b
  <2> QED
    BY <1>1, <1>3, <2>1, <2>2, Zenon
<1>6. FlattenSeq(r) = FlattenSeq(b)
  <2>1. Len(r) = m + Len(b)
    BY <1>1, <1>2, <1>3
  <2> QED
    BY <1>1, <1>3, <1>4, <1>5, <2>1, FlattenSkips, ZenonT(30)
<1> QED
  BY <1>3, <1>6, Zenon DEF IsCut, b

\* A cluster without a position.
LEMMA PartsFirst ==
  ASSUME NEW t \in Nat, t < 256 * Place[4], NEW bs, Fittings(bs)
  PROVE  IsCut(Whole(StampElement(t)), FlattenSeq(BlockParts(bs)), FlattenSeq(Parts(1, t, bs)))
<1> DEFINE n == Len(bs)
           p == Parts(1, t, bs)
           es == Written(1, t, bs)
<1>1. 1 \in {1, 2}
  OBVIOUS
<1>2. Each(es, 1, t, bs) /\ p \in Seq(Seq(Byte)) /\ Len(p) = 1 + n
  <2>1. Each(es, 1, t, bs)
    BY <1>1, WrittenEach, Zenon
  <2>2. PartsMade(1, t, bs)
    BY <1>1, PartsAre, Zenon
  <2> QED
    BY <2>1, <2>2, Zenon DEF PartsMade
<1>3. BlockParts(bs) \in Seq(Seq(Byte)) /\ Len(BlockParts(bs)) = n /\ n \in Nat
  BY BlockPartsAre, Zenon
<1>4. \A i \in 1 .. 1 + n : p[i] = Whole(es[i])
  BY DEF Parts
<1>5. \A i \in 1 .. n : BlockParts(bs)[i] = Whole(BlockElement(bs[i]))
  BY DEF BlockParts
<1> HIDE DEF n, p, es
<1>6. p[1] = Whole(StampElement(t)) /\ \A i \in 1 .. n : p[1 + i] = BlockParts(bs)[i]
  BY <1>2, <1>4, <1>5, Zenon DEF Each, n
<1>7. 0 \in Nat /\ 1 + 0 + n = 1 + n /\ (\A i \in 1 .. 0 : p[1 + i] = <<>>)
  BY <1>3
<1>8. \A i \in 1 .. n : 1 + 0 + i = 1 + i
  OBVIOUS
<1>9. \A i \in 1 .. n : p[1 + 0 + i] = BlockParts(bs)[i]
  BY <1>6, <1>8, Zenon
<1>10. IsCut(p[1], FlattenSeq(BlockParts(bs)), FlattenSeq(p))
  BY <1>2, <1>7, <1>9, StampFirst, Zenon DEF n
<1> QED
  BY <1>6, <1>10, Zenon DEF p

\* What is kept of each element.
Keeps(p, b, c, t) ==
  LET n == Len(c.blocks) IN
  /\ p \in Seq(Seq(Byte)) /\ Len(p) = 2 + n /\ n \in Nat /\ p[2] = <<>>
  /\ p[1] = IF 1 >= b THEN Whole(StampElement(t)) ELSE <<>>
  /\ \A i \in 1 .. n : p[2 + i] = IF 2 + i >= b THEN BlockParts(c.blocks)[i] ELSE <<>>

\* That is what is kept of the elements of a cluster of a source.
LEMMA KeptEach ==
  ASSUME NEW s, NEW buf, NEW cs, NEW es, NEW c, SeenAs(buf, cs, es, c), NEW t, Patching(s, c, t)
  PROVE  Keeps(KeptParts(s, buf, cs), Begin(buf, cs), c, t)
<1> DEFINE n == Len(c.blocks)
           b == Begin(buf, cs)
           p == KeptParts(s, buf, cs)
           q(i) == KeptPart(s, buf, cs, i)
           T == Seq(Byte)
<1>1. Scanned(buf, cs, c)
  <2> HIDE DEF p, q, b, n
  <2> QED
    BY SeenEach, Zenon
<1>2. /\ n \in Nat /\ Len(cs) = 2 + n
      /\ OfKind(cs, MKV_Timecode) = {1} /\ OfKind(cs, MKV_SimpleBlock) = 3 .. 2 + n
      /\ \A i \in 1 .. 2 + n : TimecodeAt(buf, cs, i) = c.timecode
      /\ \A i \in 1 .. n : Raw(buf, cs[2 + i]) = Whole(BlockElement(c.blocks[i]))
  BY <1>1, Zenon DEF Scanned
<1>3. p = [i \in 1 .. 2 + n |-> q(i)]
  BY <1>2, Zenon DEF KeptParts
<1>4. \A i \in 1 .. 2 + n :
        q(i) = IF i >= b /\ i \in {1} \cup 3 .. 2 + n
               THEN IF i \in {1} THEN Stamp(s, TimecodeAt(buf, cs, i)) ELSE Raw(buf, cs[i])
               ELSE <<>>
  BY <1>2, Zenon DEF KeptPart
<1>5. Fittings(c.blocks)
  BY Zenon DEF SeenAs, Few
<1>6. BlockParts(c.blocks) \in Seq(T) /\ Len(BlockParts(c.blocks)) = n
  BY <1>5, BlockPartsAre, Zenon
<1>7. Stamp(s, c.timecode) = Whole(StampElement(t)) /\ Whole(StampElement(t)) \in T
  BY StampBytes, Zenon
<1>8. \A i \in 1 .. n : BlockParts(c.blocks)[i] = Whole(BlockElement(c.blocks[i]))
  BY DEF BlockParts
<1> HIDE DEF n, b, p, q, T
<1>9. 1 \in 1 .. 2 + n /\ 2 \in 1 .. 2 + n
      /\ 1 \in {1} /\ ~(2 \in {1} \cup 3 .. 2 + n) /\ 1 \in {1} \cup 3 .. 2 + n
  BY <1>2
<1>10. q(1) = IF 1 >= b THEN Whole(StampElement(t)) ELSE <<>>
  <2>1. TimecodeAt(buf, cs, 1) = c.timecode
    BY <1>2, <1>9, Zenon
  <2> QED
    BY <1>4, <1>7, <1>9, <2>1, Zenon
<1>11. q(2) = <<>>
  BY <1>4, <1>9, Zenon
<1>12. ASSUME NEW i \in 1 .. n
       PROVE  2 + i \in 1 .. 2 + n /\ q(2 + i) = IF 2 + i >= b THEN BlockParts(c.blocks)[i] ELSE <<>>
  <2> DEFINE k == 2 + i
  <2>1. k \in 1 .. 2 + n /\ ~(k \in {1}) /\ k \in {1} \cup 3 .. 2 + n
    BY <1>2
  <2>2. Raw(buf, cs[k]) = BlockParts(c.blocks)[i]
    BY <1>2, <1>8, Zenon
  <2> HIDE DEF k
  <2>3. q(k) = IF k >= b THEN BlockParts(c.blocks)[i] ELSE <<>>
    BY <1>4, <2>1, <2>2, Zenon
  <2> QED
    BY <2>1, <2>3, Zenon DEF k
<1>13. ASSUME NEW i \in 1 .. 2 + n PROVE q(i) \in T
  <2>1. <<>> \in T
    BY DEF T
  <2>2. \A j \in 1 .. n : BlockParts(c.blocks)[j] \in T
    BY <1>2, <1>6
  <2>3. i = 1 \/ i = 2 \/ (i - 2 \in 1 .. n /\ i = 2 + (i - 2))
    BY <1>2
  <2>4. CASE i = 1
    BY <1>7, <1>10, <2>1, <2>4, Zenon
  <2>5. CASE i = 2
    BY <1>11, <2>1, <2>5, Zenon
  <2>6. CASE i - 2 \in 1 .. n /\ i = 2 + (i - 2)
    <3> DEFINE j == i - 2
    <3>1. j \in 1 .. n /\ i = 2 + j
      BY <2>6, Zenon
    <3> HIDE DEF j
    <3>2. q(2 + j) \in T
      BY <1>12, <2>1, <2>2, <3>1, Zenon
    <3> QED
      BY <3>1, <3>2, Zenon
  <2> QED
    BY <2>3, <2>4, <2>5, <2>6
<1>14. p \in [1 .. 2 + n -> T] /\ \A i \in 1 .. 2 + n : p[i] = q(i)
  BY <1>3, <1>13
<1>15. p \in Seq(T) /\ Len(p) = 2 + n
  <2>1. 2 + n \in Nat
    BY <1>2
  <2> QED
    BY <1>14, <2>1, AsSequence, Zenon
<1>16. p[1] = q(1) /\ p[2] = q(2)
  BY <1>9, <1>14, Zenon
<1>17. \A i \in 1 .. n : p[2 + i] = q(2 + i)
  BY <1>12, <1>14, Zenon
<1> QED
  BY <1>2, <1>10, <1>11, <1>12, <1>15, <1>16, <1>17, Zenon DEF n, b, p, T, Keeps


\* Nothing starts the intro anew: what is kept are the blocks with the timecode.
LEMMA KeptAll ==
  ASSUME NEW c, Few(c.blocks), NEW t \in Nat, t < 256 * Place[4], NEW p, Keeps(p, 0, c, t)
  PROVE  FlattenSeq(p) = FlattenSeq(Parts(1, t, c.blocks))
<1> DEFINE bs == c.blocks
           n == Len(c.blocks)
           a == Whole(StampElement(t))
<1>1. p \in Seq(Seq(Byte)) /\ Len(p) = 2 + n /\ n \in Nat /\ p[2] = <<>>
      /\ p[1] = (IF 1 >= 0 THEN a ELSE <<>>)
      /\ \A i \in 1 .. n : p[2 + i] = IF 2 + i >= 0 THEN BlockParts(bs)[i] ELSE <<>>
  BY Zenon DEF Keeps
<1>2. Fittings(bs)
  BY Zenon DEF Few
<1> HIDE DEF bs, n, a
<1>3. 1 >= 0 /\ \A i \in 1 .. n : 2 + i >= 0 /\ 1 + 1 + i = 2 + i
  BY <1>1
<1>4. p[1] = a /\ \A i \in 1 .. n : p[1 + 1 + i] = BlockParts(bs)[i]
  BY <1>1, <1>3, Zenon
<1>5. 1 \in Nat /\ Len(p) = 1 + 1 + n /\ \A i \in 1 .. 1 : p[1 + i] = <<>>
  BY <1>1
<1>6. IsCut(p[1], FlattenSeq(BlockParts(bs)), FlattenSeq(p))
  BY <1>1, <1>2, <1>4, <1>5, StampFirst, Zenon DEF n, bs
<1>7. IsCut(a, FlattenSeq(BlockParts(bs)), FlattenSeq(Parts(1, t, bs)))
  BY <1>2, PartsFirst, Zenon DEF a
<1> QED
  BY <1>4, <1>6, <1>7, Zenon DEF IsCut, bs

\* What is left of a sequence from its k-th element on.
RestFrom(s, k, r) == Len(r) = Len(s) - k + 1 /\ \A j \in 1 .. Len(s) - k + 1 : r[j] = s[k + j - 1]

\* It is a subsequence.
LEMMA RestFromIs ==
  ASSUME NEW S, NEW s \in Seq(S), NEW k \in 1 .. Len(s)
  PROVE  RestFrom(s, k, SubSeq(s, k, Len(s))) /\ SubSeq(s, k, Len(s)) \in Seq(S)
<1>1. \A i \in 1 .. Len(s) : s[i] \in S
  OBVIOUS
<1> QED
  BY <1>1 DEF RestFrom

\* The intro starts anew with block k: what is kept are the blocks from there on.
LEMMA KeptFrom ==
  ASSUME NEW c, Few(c.blocks), NEW t \in Nat, t < 256 * Place[4], NEW k \in 1 .. Len(c.blocks),
         NEW p, Keeps(p, 2 + k, c, t)
  PROVE  LET bs == SubSeq(c.blocks, k, Len(c.blocks)) IN
         /\ IsCut(Whole(StampElement(t)), FlattenSeq(p), FlattenSeq(Parts(1, t, bs)))
         /\ Few(bs) /\ FlattenSeq(p) \in Seq(Byte)
<1> DEFINE b == c.blocks
           n == Len(b)
           m == k + 1
           bs == SubSeq(b, k, n)
           w == BlockParts(b)
           v == BlockParts(bs)
<1>1. p \in Seq(Seq(Byte)) /\ Len(p) = 2 + n /\ n \in Nat /\ p[2] = <<>>
      /\ p[1] = (IF 1 >= 2 + k THEN Whole(StampElement(t)) ELSE <<>>)
      /\ \A i \in 1 .. n : p[2 + i] = IF 2 + i >= 2 + k THEN w[i] ELSE <<>>
  BY Zenon DEF Keeps
<1>2. Fittings(b) /\ 6 + 6 * n <= MostRoom /\ b \in Seq(Block)
  BY Zenon DEF Few, Fittings
<1>3. k \in 1 .. n /\ n \in Nat /\ k \in Nat
  BY <1>1
<1> HIDE DEF n, w
<1>4. bs \in Seq(Block) /\ Len(bs) = n - k + 1 /\ \A j \in 1 .. n - k + 1 : bs[j] = b[k + j - 1]
  <2>1. b \in Seq(Block) /\ k \in 1 .. Len(b) /\ n = Len(b)
    BY <1>2, <1>3 DEF n
  <2> HIDE DEF b, bs
  <2>2. RestFrom(b, k, SubSeq(b, k, n)) /\ SubSeq(b, k, n) \in Seq(Block)
    BY <2>1, RestFromIs, Zenon
  <2> QED
    BY <2>1, <2>2, Zenon DEF RestFrom, bs
<1>5. \A j \in 1 .. n - k + 1 : k + j - 1 \in 1 .. n /\ 2 + (k + j - 1) = m + j /\ m + j >= 2 + k
  BY <1>3
<1> HIDE DEF bs, b, v
<1>6. Few(bs)
  <2>1. \A j \in 1 .. Len(bs) : Fitting(bs[j])
    <3>1. \A i \in 1 .. n : Fitting(b[i])
      BY <1>2, Zenon DEF Fittings, n
    <3> QED
      BY <1>4, <1>5, <3>1, Zenon
  <2>2. 6 + 6 * Len(bs) <= MostRoom
    <3>1. MostRoom \in Int
      BY DEF MostRoom
    <3> QED
      BY <1>1, <1>2, <1>3, <1>4, <3>1
  <2> QED
    BY <1>4, <2>1, <2>2, Zenon DEF Few, Fittings
<1>7. v \in Seq(Seq(Byte)) /\ Len(v) = n - k + 1
  BY <1>4, <1>6, BlockPartsAre, Zenon DEF Few, v
<1>8. \A j \in 1 .. n - k + 1 : v[j] = w[k + j - 1]
  <2>1. \A j \in 1 .. Len(bs) : v[j] = Whole(BlockElement(bs[j]))
    BY DEF v, BlockParts
  <2>2. \A j \in 1 .. n : w[j] = Whole(BlockElement(b[j]))
    BY DEF w, n, BlockParts
  <2> SUFFICES ASSUME NEW j \in 1 .. n - k + 1 PROVE v[j] = w[k + j - 1]
    OBVIOUS
  <2> DEFINE i == k + j - 1
  <2>3. i \in 1 .. n
    BY <1>5, Zenon
  <2>4. v[j] = Whole(BlockElement(bs[j])) /\ bs[j] = b[i]
    BY <1>4, <2>1, Zenon
  <2> HIDE DEF i
  <2>5. v[j] = w[i]
    BY <2>2, <2>3, <2>4, Zenon
  <2> QED
    BY <2>5, Zenon DEF i
<1>9. m \in Nat /\ Len(p) = m + Len(v)
  <2>1. m \in Nat /\ 2 + n = m + (n - k + 1)
    BY <1>3
  <2>2. Len(p) = 2 + n
    BY <1>1, Zenon
  <2> HIDE DEF m
  <2> QED
    BY <1>7, <2>1, <2>2, Zenon
<1>10. ASSUME NEW i \in 1 .. m PROVE p[i] = <<>>
  <2>1. i = 1 \/ i = 2 \/ (i - 2 \in 1 .. n /\ i = 2 + (i - 2) /\ ~(i >= 2 + k))
    BY <1>3
  <2>2. ~(1 >= 2 + k)
    BY <1>3
  <2>3. CASE i = 1
    BY <1>1, <2>2, <2>3, Zenon
  <2>4. CASE i = 2
    BY <1>1, <2>4, Zenon
  <2>5. CASE i - 2 \in 1 .. n /\ i = 2 + (i - 2) /\ ~(i >= 2 + k)
    BY <1>1, <2>5, Zenon
  <2> QED
    BY <2>1, <2>3, <2>4, <2>5
<1>11. ASSUME NEW j \in 1 .. Len(v) PROVE p[m + j] = v[j]
  <2> DEFINE i == k + j - 1
  <2>1. j \in 1 .. n - k + 1
    BY <1>7, Zenon
  <2>2. i \in 1 .. n /\ 2 + i = m + j /\ m + j >= 2 + k /\ v[j] = w[i]
    BY <1>5, <1>8, <2>1, Zenon
  <2> HIDE DEF i, m
  <2> QED
    BY <1>1, <2>2, Zenon
<1> HIDE DEF m
<1>12. FlattenSeq(p) = FlattenSeq(v)
  BY <1>1, <1>7, <1>9, <1>10, <1>11, FlattenSkips, ZenonT(30)
<1>13. IsCut(Whole(StampElement(t)), FlattenSeq(v), FlattenSeq(Parts(1, t, bs)))
  BY <1>6, PartsFirst, Zenon DEF Few, v
<1>14. FlattenSeq(p) \in Seq(Byte)
  BY <1>1, FlattenType, Zenon
<1> QED
  BY <1>6, <1>12, <1>13, <1>14, Zenon DEF bs, b, n

\* What inspection of the cluster c of a source makes of the stream s, when t is the
\* patched timecode: r.
Inspects(r, s, c, t) ==
  /\ r.relayed = Append(s.relayed, [timecode |-> t, blocks |-> c.blocks])
  /\ Keys(c) = {} =>
       \E w : IsWritten(w, [timecode |-> t, blocks |-> c.blocks]) /\ r.intro_buffer = s.intro_buffer \o w
  /\ \A k \in Keys(c) : (\A j \in Keys(c) : j <= k) =>
       IsWritten(r.intro_buffer, [timecode |-> t, blocks |-> SubSeq(c.blocks, k, Len(c.blocks))])
  /\ r.last = IF c.blocks = <<>> THEN s.last ELSE Time(c, Len(c.blocks))
  /\ r = [relayed |-> r.relayed, intro_buffer |-> r.intro_buffer, offset |-> s.offset, last |-> r.last]

\* A stream of which three fields are changed.
LEMMA StreamExcept ==
  ASSUME NEW s \in StreamType, NEW a, NEW b, NEW d
  PROVE  [s EXCEPT !.relayed = a, !.intro_buffer = b, !.last = d] =
           [relayed |-> a, intro_buffer |-> b, offset |-> s.offset, last |-> d]
<1> DEFINE u == [s EXCEPT !.relayed = a, !.intro_buffer = b, !.last = d]
           x == s.relayed
           y == s.intro_buffer
           o == s.offset
           z == s.last
<1>1. s = [relayed |-> x, intro_buffer |-> y, offset |-> o, last |-> z]
  BY DEF StreamType
<1>2. u = [s EXCEPT !.relayed = a, !.intro_buffer = b, !.last = d]
  OBVIOUS
<1> HIDE DEF u, x, y, o, z
<1>3. u = [relayed |-> a, intro_buffer |-> b, offset |-> o, last |-> d]
  BY <1>1, <1>2
<1> QED
  BY <1>3 DEF u, o

\* The time of the last block.
LastTimeRead(buf, cs, last) ==
  IF OfKind(cs, MKV_SimpleBlock) = {} THEN last
  ELSE TimecodeAt(buf, cs, Max(OfKind(cs, MKV_SimpleBlock)))
         + BlockIn(buf, cs, Max(OfKind(cs, MKV_SimpleBlock))).time

\* It is the time of the last block of the cluster.
LEMMA LastRead ==
  ASSUME NEW buf, NEW cs, NEW c, c \in Cluster, Scanned(buf, cs, c), NEW last
  PROVE  LastTimeRead(buf, cs, last) = IF c.blocks = <<>> THEN last ELSE Time(c, Len(c.blocks))
<1> DEFINE n == Len(c.blocks)
           T == OfKind(cs, MKV_SimpleBlock)
<1>1. /\ n \in Nat /\ T = 3 .. 2 + n
      /\ \A i \in 1 .. 2 + n : TimecodeAt(buf, cs, i) = c.timecode
      /\ \A i \in 1 .. n : BlockIn(buf, cs, 2 + i) = c.blocks[i]
  BY Zenon DEF Scanned
<1>2. c.blocks = <<>> <=> n = 0
  BY DEF Cluster
<1> HIDE DEF n, T
<1>3. CASE n = 0
  <2>1. T = {}
    BY <1>1, <1>3
  <2> QED
    BY <1>2, <1>3, <2>1, Zenon DEF T, LastTimeRead
<1>4. CASE n # 0
  <2> DEFINE m == 2 + n
  <2>1. T = 3 .. m /\ T # {} /\ T \subseteq Int /\ m \in T /\ (\A x \in T : x <= m)
        /\ n \in 1 .. n /\ m \in 1 .. 2 + n
    <3>1. n \in Nat /\ T = 3 .. 2 + n
      BY <1>1, Zenon
    <3> QED
      BY <1>4, <3>1
  <2> HIDE DEF m
  <2>2. Max(T) = m
    BY <2>1, MaxIs, Zenon
  <2>3. TimecodeAt(buf, cs, m) = c.timecode
    BY <1>1, <2>1, Zenon
  <2>4. BlockIn(buf, cs, m) = c.blocks[n]
    BY <1>1, <2>1, Zenon DEF m
  <2> QED
    BY <1>2, <1>4, <2>1, <2>2, <2>3, <2>4, Zenon DEF T, n, Time, LastTimeRead
<1> QED
  BY <1>3, <1>4

\* What a viewer reads of the patched cluster.
LEMMA RelayedRead ==
  ASSUME NEW s, NEW buf, NEW cs, NEW es, NEW c, SeenAs(buf, cs, es, c), NEW t, Patching(s, c, t)
  PROVE  ReadsAs(Element(MKV_Cluster, FlattenSeq(PatchedParts(s, buf, cs))),
                 [timecode |-> t, blocks |-> c.blocks])
<1>1. 2 \in {1, 2} /\ t \in Nat /\ t < 256 * Place[4] /\ Few(c.blocks)
  BY Zenon DEF Patching, SeenAs
<1>2. IsWritten(Element(MKV_Cluster, FlattenSeq(Parts(2, t, c.blocks))), [timecode |-> t, blocks |-> c.blocks])
  BY <1>1, PartsRead, Zenon
<1>3. PatchedParts(s, buf, cs) = Parts(2, t, c.blocks)
  BY PatchedIs, Zenon
<1> QED
  BY <1>2, <1>3, Zenon DEF IsWritten, ReadsAs

\* What a viewer reads of the kept one.
LEMMA KeptRead ==
  ASSUME NEW s, NEW buf, NEW cs, NEW es, NEW c, SeenAs(buf, cs, es, c), NEW t, Patching(s, c, t)
  PROVE  /\ Begin(buf, cs) = 0 =>
              IsWritten(Element(MKV_Cluster, FlattenSeq(KeptParts(s, buf, cs))),
                        [timecode |-> t, blocks |-> c.blocks])
         /\ \A k \in 1 .. Len(c.blocks) : Begin(buf, cs) = 2 + k =>
              IsWritten(Element(MKV_Cluster, Stamp(s, TimecodeAt(buf, cs, Begin(buf, cs)))
                                               \o FlattenSeq(KeptParts(s, buf, cs))),
                        [timecode |-> t, blocks |-> SubSeq(c.blocks, k, Len(c.blocks))])
<1> DEFINE p == KeptParts(s, buf, cs)
           b == Begin(buf, cs)
           n == Len(c.blocks)
<1>1. 1 \in {1, 2} /\ t \in Nat /\ t < 256 * Place[4] /\ Few(c.blocks)
  BY Zenon DEF Patching, SeenAs
<1> HIDE DEF p, b, n
<1>2. Keeps(p, b, c, t)
  BY KeptEach, Zenon DEF p, b
<1>3. ASSUME b = 0
      PROVE  IsWritten(Element(MKV_Cluster, FlattenSeq(p)), [timecode |-> t, blocks |-> c.blocks])
  <2>1. FlattenSeq(p) = FlattenSeq(Parts(1, t, c.blocks))
    BY <1>1, <1>2, <1>3, KeptAll, Zenon
  <2> QED
    BY <1>1, <2>1, PartsRead, Zenon
<1>4. ASSUME NEW k \in 1 .. n, b = 2 + k
      PROVE  IsWritten(Element(MKV_Cluster, Stamp(s, TimecodeAt(buf, cs, b)) \o FlattenSeq(p)),
                       [timecode |-> t, blocks |-> SubSeq(c.blocks, k, Len(c.blocks))])
  <2> DEFINE bs == SubSeq(c.blocks, k, Len(c.blocks))
  <2> HIDE DEF bs
  <2>1. IsCut(Whole(StampElement(t)), FlattenSeq(p), FlattenSeq(Parts(1, t, bs))) /\ Few(bs)
    BY <1>1, <1>2, <1>4, KeptFrom, Zenon DEF bs, n
  <2>2. TimecodeAt(buf, cs, b) = c.timecode
    <3>1. Scanned(buf, cs, c)
      BY SeenEach, Zenon
    <3>2. \A i \in 1 .. 2 + n : TimecodeAt(buf, cs, i) = c.timecode
      BY <3>1, Zenon DEF Scanned, n
    <3>3. n \in Nat
      BY <3>1, Zenon DEF Scanned, n
    <3>4. b \in 1 .. 2 + n
      BY <1>4, <3>3
    <3> QED
      BY <3>2, <3>4, Zenon
  <2>3. Stamp(s, c.timecode) = Whole(StampElement(t))
    BY StampBytes, Zenon
  <2>4. IsWritten(Element(MKV_Cluster, FlattenSeq(Parts(1, t, bs))), [timecode |-> t, blocks |-> bs])
    BY <1>1, <2>1, PartsRead, Zenon
  <2> QED
    BY <2>1, <2>2, <2>3, <2>4, Zenon DEF IsCut, bs
<1> QED
  BY <1>3, <1>4, Zenon DEF p, b, n

\* What becomes of a cluster of a source.
LEMMA InspectIs ==
  ASSUME NEW s \in StreamType, NEW c, Sendable(c), NEW t, Patching(s, c, t)
  PROVE  Inspects(InspectCluster(s, MuxCluster(c)), s, c, t)
<1> DEFINE buf == MuxCluster(c)
           cs == SentChildren(c)
           es == ChildrenOf(c)
           A == Demux(Element(MKV_Cluster, FlattenSeq(PatchedParts(s, buf, cs))))
           W == Element(MKV_Cluster, FlattenSeq(KeptParts(s, buf, cs)))
           V == Element(MKV_Cluster, Stamp(s, TimecodeAt(buf, cs, Begin(buf, cs)))
                                       \o FlattenSeq(KeptParts(s, buf, cs)))
           B == IF Begin(buf, cs) = 0 THEN s.intro_buffer \o W ELSE V
           L == LastTimeRead(buf, cs, s.last)
           r == InspectCluster(s, buf)
<1>1. cs \in Seq(ElementHeader) /\ SeenAs(buf, cs, es, c) /\ c \in Cluster
  <2> HIDE DEF buf, cs, es, A, W, V, B, L, r
  <2>1. /\ Kinds(MuxCluster(c), SentChildren(c), ChildrenOf(c), 2, c.timecode, c.blocks)
        /\ SentChildren(c) \in Seq(ElementHeader)
        /\ ChildrenOf(c)[2] = PositionElement
        /\ \A i \in 1 .. Len(c.blocks) : ChildrenOf(c)[2 + i] = BlockElement(c.blocks[i])
    BY SentRead, Zenon
  <2>2. c \in Cluster /\ Few(c.blocks)
    BY SentFew, Zenon
  <2> QED
    BY <2>1, <2>2, Zenon DEF SeenAs, buf, cs, es
<1>2. r = Inspected(s, buf, cs)
  BY <1>1, Zenon DEF InspectCluster, SentChildren
<1>3. Inspected(s, buf, cs) = [s EXCEPT !.relayed = Append(s.relayed, A), !.intro_buffer = B, !.last = L]
  BY InspectedIn, Zenon DEF LastTimeRead
<1> HIDE DEF r, buf, cs, es, A, W, V, B, L
<1>4. r = [relayed |-> Append(s.relayed, A), intro_buffer |-> B, offset |-> s.offset, last |-> L]
  BY <1>2, <1>3, StreamExcept, ZenonT(30)
<1>5. A = [timecode |-> t, blocks |-> c.blocks]
  <2>1. ReadsAs(Element(MKV_Cluster, FlattenSeq(PatchedParts(s, buf, cs))),
                [timecode |-> t, blocks |-> c.blocks])
    BY <1>1, RelayedRead, Zenon
  <2> QED
    BY <2>1, Zenon DEF ReadsAs, A
<1>6. LastTimeRead(buf, cs, s.last) = IF c.blocks = <<>> THEN s.last ELSE Time(c, Len(c.blocks))
  <2>1. Scanned(buf, cs, c)
    BY <1>1, SeenEach, Zenon
  <2> QED
    BY <1>1, <2>1, LastRead, Zenon
<1>7. /\ Keys(c) = {} => Begin(buf, cs) = 0
      /\ \A k \in Keys(c) : (\A j \in Keys(c) : j <= k) => Begin(buf, cs) = 2 + k
  BY <1>1, BeginIs, Zenon DEF SeenAs
<1>8. /\ Begin(buf, cs) = 0 => IsWritten(W, [timecode |-> t, blocks |-> c.blocks])
      /\ \A k \in 1 .. Len(c.blocks) : Begin(buf, cs) = 2 + k =>
           IsWritten(V, [timecode |-> t, blocks |-> SubSeq(c.blocks, k, Len(c.blocks))])
  BY <1>1, KeptRead, Zenon DEF W, V
<1>9. r.relayed = Append(s.relayed, A) /\ r.intro_buffer = B /\ r.last = L
  BY <1>4
<1>10. Keys(c) = {} => \E w : IsWritten(w, [timecode |-> t, blocks |-> c.blocks])
                              /\ r.intro_buffer = s.intro_buffer \o w
  BY <1>7, <1>8, <1>9, Zenon DEF B
<1>11. ASSUME NEW k \in Keys(c), \A j \in Keys(c) : j <= k
       PROVE  IsWritten(r.intro_buffer, [timecode |-> t, blocks |-> SubSeq(c.blocks, k, Len(c.blocks))])
  <2>1. k \in 1 .. Len(c.blocks) /\ Begin(buf, cs) = 2 + k
    BY <1>7, <1>11, Zenon DEF Keys
  <2>2. Begin(buf, cs) # 0
    BY <2>1
  <2> QED
    BY <1>8, <1>9, <2>1, <2>2, Zenon DEF B
<1>12. r = [relayed |-> r.relayed, intro_buffer |-> r.intro_buffer, offset |-> s.offset, last |-> r.last]
  BY <1>4, <1>9, Zenon
<1> QED
  BY <1>5, <1>6, <1>9, <1>10, <1>11, <1>12, Zenon DEF Inspects, r, buf, L

-----------------------------------------------------------------------------
(* The intro *)

\* The bytes b are those of clusters which a viewer reads as cl.
IsIntroBytes(b, cl) ==
  \E ws : /\ ws \in Seq(Seq(Byte)) /\ cl \in Seq(Cluster) /\ Len(ws) = Len(cl)
          /\ \A i \in 1 .. Len(ws) : IsWritten(ws[i], cl[i])
          /\ FlattenSeq(ws) = b

\* No cluster, one, and one more.
LEMMA IntroNone == IsIntroBytes(<<>>, <<>>)
<1>1. <<>> \in Seq(Seq(Byte)) /\ <<>> \in Seq(Cluster) /\ Len(<<>>) = 0 /\ 1 .. 0 = {}
  OBVIOUS
<1>2. FlattenSeq(<<>>) = <<>>
  BY FlattenEmpty
<1> QED
  BY <1>1, <1>2, Zenon DEF IsIntroBytes

\* One cluster.
LEMMA IntroOne ==
  ASSUME NEW w, NEW c, IsWritten(w, c)
  PROVE  IsIntroBytes(w, <<c>>)
<1> DEFINE T == Seq(Byte)
           x == <<w>>
           y == <<c>>
<1>1. w \in T /\ c \in Cluster
  BY Zenon DEF IsWritten
<1>2. FlattenSeq(x) = w
  BY <1>1, FlattenSingle
<1> HIDE DEF T
<1>3. x \in Seq(T) /\ y \in Seq(Cluster) /\ Len(x) = Len(y) /\ \A i \in 1 .. Len(x) : x[i] = w /\ y[i] = c
  BY <1>1
<1> HIDE DEF x, y
<1>4. \A i \in 1 .. Len(x) : IsWritten(x[i], y[i])
  BY <1>3, Zenon
<1>5. IsIntroBytes(w, y)
  BY <1>2, <1>3, <1>4, Zenon DEF IsIntroBytes, T
<1> QED
  BY <1>5, Zenon DEF y

\* A longer sequence.
LEMMA Appended ==
  ASSUME NEW T, NEW s \in Seq(T), NEW x \in T
  PROVE  /\ Append(s, x) \in Seq(T) /\ Len(Append(s, x)) = Len(s) + 1 /\ Len(s) \in Nat
         /\ \A i \in 1 .. Len(s) : Append(s, x)[i] = s[i]
         /\ Append(s, x)[Len(s) + 1] = x
OBVIOUS

\* One cluster more.
LEMMA IntroMore ==
  ASSUME NEW b, NEW cl, IsIntroBytes(b, cl), NEW w, NEW c, IsWritten(w, c)
  PROVE  IsIntroBytes(b \o w, Append(cl, c))
<1> DEFINE T == Seq(Byte)
<1>1. PICK ws : /\ ws \in Seq(T) /\ cl \in Seq(Cluster) /\ Len(ws) = Len(cl)
                /\ \A i \in 1 .. Len(ws) : IsWritten(ws[i], cl[i])
                /\ FlattenSeq(ws) = b
  BY Zenon DEF IsIntroBytes
<1>2. w \in T /\ c \in Cluster
  BY Zenon DEF IsWritten
<1> DEFINE x == Append(ws, w)
           y == Append(cl, c)
<1>3. FlattenSeq(x) = b \o w
  BY <1>1, <1>2, FlattenAppend, Zenon
<1> HIDE DEF T, x, y
<1>4. /\ x \in Seq(T) /\ Len(x) = Len(ws) + 1 /\ Len(ws) \in Nat
      /\ \A i \in 1 .. Len(ws) : x[i] = ws[i]
      /\ x[Len(ws) + 1] = w
  BY <1>1, <1>2, Appended, Zenon DEF x
<1>5. /\ y \in Seq(Cluster) /\ Len(y) = Len(cl) + 1
      /\ \A i \in 1 .. Len(cl) : y[i] = cl[i]
      /\ y[Len(cl) + 1] = c
  <2>1. cl \in Seq(Cluster) /\ c \in Cluster
    BY <1>1, <1>2, Zenon
  <2> DEFINE U == Cluster
  <2>2. cl \in Seq(U) /\ c \in U
    BY <2>1
  <2> HIDE DEF U
  <2>3. /\ y \in Seq(U) /\ Len(y) = Len(cl) + 1 /\ Len(cl) \in Nat
        /\ \A i \in 1 .. Len(cl) : y[i] = cl[i]
        /\ y[Len(cl) + 1] = c
    BY <2>2, Appended, Zenon DEF y
  <2> QED
    BY <2>3, Zenon DEF U
<1>6. ASSUME NEW i \in 1 .. Len(x) PROVE IsWritten(x[i], y[i])
  <2>1. i \in 1 .. Len(ws) \/ i = Len(ws) + 1
    BY <1>4
  <2> QED
    BY <1>1, <1>4, <1>5, <2>1, Zenon
<1>7. IsIntroBytes(b \o w, y)
  BY <1>1, <1>3, <1>4, <1>5, <1>6, Zenon DEF IsIntroBytes, T
<1> QED
  BY <1>7, Zenon DEF y

\* A viewer reads those clusters.
LEMMA IntroRead ==
  ASSUME NEW b, NEW cl, IsIntroBytes(b, cl)
  PROVE  DemuxAll(b) = cl /\ b \in Seq(Byte) /\ cl \in Seq(Cluster)
<1> DEFINE T == Seq(Byte)
<1>1. PICK ws : /\ ws \in Seq(T) /\ cl \in Seq(Cluster) /\ Len(ws) = Len(cl)
                /\ \A i \in 1 .. Len(ws) : IsWritten(ws[i], cl[i])
                /\ FlattenSeq(ws) = b
  BY Zenon DEF IsIntroBytes
<1> DEFINE I == 1 .. Len(ws)
           es == [i \in I |-> CHOOSE e : IsElement(e) /\ ws[i] = Whole(e) /\ Demux(ws[i]) = cl[i]]
           cs == Children(b, 0)
           got == [i \in 1 .. Len(cs) |-> Demux(Raw(b, cs[i]))]
           pre == <<>>
<1>2. ASSUME NEW i \in I PROVE IsElement(es[i]) /\ ws[i] = Whole(es[i]) /\ Demux(ws[i]) = cl[i]
  <2> HIDE DEF T, cs, got, pre
  <2> DEFINE OK(e) == IsElement(e) /\ ws[i] = Whole(e) /\ Demux(ws[i]) = cl[i]
  <2>1. \E e : OK(e)
    BY <1>1, Zenon DEF IsWritten
  <2>2. es[i] = CHOOSE e : OK(e)
    BY Zenon
  <2> HIDE DEF es, OK
  <2>3. OK(es[i])
    BY <2>1, <2>2, Zenon
  <2> QED
    BY <2>3, Zenon DEF OK
<1>3. b \in Seq(Byte)
  BY <1>1, FlattenType, Zenon
<1>4. pre \in Seq(Byte) /\ Len(pre) = 0
  OBVIOUS
<1> HIDE DEF es, pre
<1>5. IsCut(pre, FlattenSeq(ws), b)
  <2>1. <<>> \o b = b
    BY <1>3, EmptyConcat
  <2> QED
    BY <1>1, <2>1, Zenon DEF IsCut, pre
<1>6. Made(ws, es)
  BY <1>2, Zenon DEF Made
<1> HIDE DEF I, T, cs, got
<1>7. Walked(b, cs, es) /\ Len(cs) = Len(ws)
  <2>1. Walked(b, Children(b, Len(pre)), es) /\ Len(Children(b, Len(pre))) = Len(ws)
    BY <1>1, <1>3, <1>4, <1>5, <1>6, ChildrenAre, ZenonT(30) DEF T
  <2> QED
    BY <1>4, <2>1, Zenon DEF cs
<1>8. DemuxAll(b) = got
  BY <1>7, Zenon DEF DemuxAll, Walked, cs, got
<1>9. got = [i \in 1 .. Len(cl) |-> Demux(Raw(b, cs[i]))]
  BY <1>1, <1>7, Zenon DEF got
<1>10. \A i \in 1 .. Len(cl) : Demux(Raw(b, cs[i])) = cl[i]
  <2>1. \A i \in 1 .. Len(cl) : Raw(b, cs[i]) = ws[i]
    BY <1>1, <1>2, <1>7, Zenon DEF Walked, I
  <2> QED
    BY <1>1, <1>2, <2>1, Zenon DEF I
<1>11. got = cl
  <2> DEFINE d(i) == Demux(Raw(b, cs[i]))
  <2>1. got = [i \in 1 .. Len(cl) |-> d(i)] /\ \A i \in 1 .. Len(cl) : d(i) = cl[i]
    BY <1>9, <1>10, Zenon
  <2>2. cl \in Seq(Cluster)
    BY <1>1
  <2> HIDE DEF d
  <2> QED
    BY <2>1, <2>2
<1> QED
  BY <1>1, <1>3, <1>8, <1>11, Zenon

-----------------------------------------------------------------------------
(* One cluster after the other *)

\* The times of all sources together fit.
MostTime   == 127 * Place[4]
TimeFits(t) == t \in Nat /\ MaxSources * t <= MostTime
OffsetFits == prev_sources_offset \in Nat /\ prev_sources_offset <= MostTime

\* The blocks of a cluster are shown after the beginning, and in time.
Timely(c) == \A i \in 1 .. Len(c.blocks) : TimeFits(Time(c, i))

\* The stream s of bytes stands for the stream z of clusters.
StandsFor(s, z) ==
  /\ s \in StreamType /\ z \in State
  /\ s.relayed = z.relayed /\ s.last = z.last /\ s.offset = prev_sources_offset
  /\ IsIntroBytes(s.intro_buffer, z.intro)
  /\ TimeFits(s.last)

\* Patched timecodes fit.
LEMMA PatchingFits ==
  ASSUME OffsetFits, NEW c, Sendable(c), NEW s, s.offset = prev_sources_offset
  PROVE  Patching(s, c, prev_sources_offset + c.timecode)
<1> DEFINE o == prev_sources_offset
           d == c.timecode
<1>1. c.timecode \in Byte
  BY SentFew, Zenon
<1>2. d \in 0 .. 255
  BY <1>1 DEF Byte
<1>3. o \in Nat /\ o <= 127 * Place[4]
  BY DEF OffsetFits, MostTime
<1>4. Place[4] = 16777216
  BY Tables
<1> HIDE DEF o, d
<1>5. o + d \in Nat /\ o + d < 256 * Place[4]
  BY <1>2, <1>3, <1>4
<1> QED
  BY <1>5, Zenon DEF Patching, o, d

\* A cluster from a block on.
LEMMA FromFields ==
  ASSUME NEW t, NEW b, NEW k
  PROVE  From([timecode |-> t, blocks |-> b], k) = [timecode |-> t, blocks |-> SubSeq(b, k, Len(b))]
<1> DEFINE p == [timecode |-> t, blocks |-> b]
           x == SubSeq(b, k, Len(b))
<1>1. p.blocks = b
  OBVIOUS
<1>2. From(p, k) = [p EXCEPT !.blocks = SubSeq(p.blocks, k, Len(p.blocks))]
  BY Zenon DEF From
<1> HIDE DEF x
<1>3. [p EXCEPT !.blocks = x] = [timecode |-> t, blocks |-> x]
  OBVIOUS
<1> HIDE DEF p
<1>4. From(p, k) = [p EXCEPT !.blocks = x]
  BY <1>1, <1>2, Zenon DEF x
<1> QED
  BY <1>3, <1>4, Zenon DEF p, x

\* streamer_inspect_cluster on the bytes of a cluster does to the stream of bytes what
\* inspection of the cluster does to the stream of clusters.
THEOREM InspectStands ==
  ASSUME OffsetFits, NEW s, NEW z, StandsFor(s, z), NEW c, Sendable(c), Timely(c)
  PROVE  StandsFor(InspectCluster(s, MuxCluster(c)), Continued(z, c))
<1> DEFINE r == InspectCluster(s, MuxCluster(c))
           y == Continued(z, c)
           t == prev_sources_offset + c.timecode
           p == [timecode |-> t, blocks |-> c.blocks]
<1>1. /\ s \in StreamType /\ z \in State
      /\ s.relayed = z.relayed /\ s.last = z.last /\ s.offset = prev_sources_offset
      /\ IsIntroBytes(s.intro_buffer, z.intro)
      /\ TimeFits(s.last)
  BY Zenon DEF StandsFor
<1>2. c \in Cluster /\ prev_sources_offset \in Int
  <2>1. prev_sources_offset \in Nat
    BY Zenon DEF OffsetFits
  <2> QED
    BY <2>1, SentFew
<1> HIDE DEF r, y, t, p
<1>3. Patching(s, c, t)
  BY <1>1, PatchingFits, Zenon DEF t
<1>4. Inspects(r, s, c, t)
  BY <1>1, <1>3, InspectIs, Zenon DEF r
<1>5. /\ r.relayed = Append(s.relayed, p)
      /\ Keys(c) = {} => \E w : IsWritten(w, p) /\ r.intro_buffer = s.intro_buffer \o w
      /\ \A k \in Keys(c) : (\A j \in Keys(c) : j <= k) =>
           IsWritten(r.intro_buffer, [timecode |-> t, blocks |-> SubSeq(c.blocks, k, Len(c.blocks))])
      /\ r.last = IF c.blocks = <<>> THEN s.last ELSE Time(c, Len(c.blocks))
      /\ r = [relayed |-> r.relayed, intro_buffer |-> r.intro_buffer, offset |-> s.offset, last |-> r.last]
  BY <1>4, Zenon DEF Inspects, p
<1>6. Stamped(c) = p /\ Stamped(c) \in Cluster
  BY <1>2, StampedIs, Zenon DEF p, t
<1>7. /\ y.relayed = Append(z.relayed, Stamped(c))
      /\ y.intro = Restarted(z, c)
      /\ c.blocks = <<>> => y.last = z.last
      /\ c.blocks # <<>> => Len(c.blocks) \in 1 .. Len(c.blocks) /\ y.last = Time(c, Len(c.blocks))
      /\ y \in State
  BY <1>1, <1>2, ContinuedIs, Zenon DEF y
<1>8. r.relayed = y.relayed /\ r.last = y.last
  BY <1>1, <1>5, <1>6, <1>7, Zenon
<1>9. TimeFits(r.last)
  <2>1. CASE c.blocks = <<>>
    BY <1>1, <1>5, <2>1, Zenon
  <2>2. CASE c.blocks # <<>>
    BY <1>5, <1>7, <2>2, Zenon DEF Timely
  <2> QED
    BY <2>1, <2>2, Zenon
<1>10. IsIntroBytes(r.intro_buffer, y.intro)
  <2>1. CASE Keys(c) = {}
    <3>1. PICK w : IsWritten(w, p) /\ r.intro_buffer = s.intro_buffer \o w
      BY <1>5, <2>1, Zenon
    <3>2. y.intro = Append(z.intro, p)
      BY <1>6, <1>7, <2>1, Zenon DEF Restarted
    <3>3. IsIntroBytes(s.intro_buffer \o w, Append(z.intro, p))
      BY <1>1, <3>1, IntroMore, Zenon
    <3> QED
      BY <3>1, <3>2, <3>3, Zenon
  <2>2. CASE Keys(c) # {}
    <3> DEFINE k == CHOOSE i \in Keys(c) : \A j \in Keys(c) : j <= i
               bs == SubSeq(c.blocks, k, Len(c.blocks))
               q == [timecode |-> t, blocks |-> bs]
    <3>1. k \in Keys(c) /\ \A j \in Keys(c) : j <= k
      BY <1>2, <2>2, LastKey, Zenon
    <3>2. y.intro = <<From(Stamped(c), k)>>
      BY <1>7, <2>2, Zenon DEF Restarted
    <3> HIDE DEF k
    <3>3. From(p, k) = q
      BY FromFields, Zenon DEF p
    <3>5. From(Stamped(c), k) = q
      BY <1>6, <3>3, Zenon
    <3>6. IsWritten(r.intro_buffer, q)
      BY <1>5, <3>1, Zenon
    <3> HIDE DEF q
    <3>7. IsIntroBytes(r.intro_buffer, <<q>>)
      BY <3>6, IntroOne, Zenon
    <3> QED
      BY <3>2, <3>5, <3>7, Zenon
  <2> QED
    BY <2>1, <2>2, Zenon
<1>11. r \in StreamType /\ r.offset = prev_sources_offset
  <2>1. y.relayed \in Seq(Cluster)
    BY <1>7 DEF State
  <2>2. r.intro_buffer \in Seq(Byte)
    BY <1>10, IntroRead, Zenon
  <2>3. r.last \in Nat
    BY <1>9, Zenon DEF TimeFits
  <2>4. r.relayed \in Seq(Cluster) /\ s.offset \in Nat
    BY <1>1, <1>8, <2>1, Zenon DEF OffsetFits
  <2> DEFINE a == r.relayed
             b == r.intro_buffer
             o == s.offset
             d == r.last
             P == Seq(Cluster)
             Q == Seq(Byte)
  <2>5. a \in P /\ b \in Q /\ o \in Nat /\ d \in Nat
    BY <2>2, <2>3, <2>4, Zenon
  <2>6. r = [relayed |-> a, intro_buffer |-> b, offset |-> o, last |-> d]
    BY <1>5, Zenon
  <2> HIDE DEF a, b, o, d, P, Q
  <2>7. r \in [relayed : P, intro_buffer : Q, offset : Nat, last : Nat] /\ r.offset = o
    BY <2>5, <2>6
  <2> QED
    BY <1>1, <2>7, Zenon DEF StreamType, P, Q, o
<1> QED
  BY <1>7, <1>8, <1>9, <1>10, <1>11, Zenon DEF StandsFor, r, y

\* found are the bytes of the clusters of v after the first n.
AreFound(found, v, n) ==
  /\ v \in Seq(Cluster) /\ n \in Nat /\ Len(found) \in Nat
  /\ \A i \in 1 .. Len(found) :
       Sendable(v[n + i]) /\ Timely(v[n + i]) /\ found[i] = MuxCluster(v[n + i])

\* g are the streams that inspection of one after the other makes of s.
Follows(g, s, found) == g[0] = s /\ \A i \in 1 .. Len(found) : g[i] = InspectCluster(g[i - 1], found[i])

\* The loop is such a one.
LEMMA InspectClustersIs ==
  ASSUME OffsetFits, NEW s, NEW z, StandsFor(s, z), NEW found, NEW v, NEW n, AreFound(found, v, n)
  PROVE  \E g : Follows(g, s, found) /\ InspectClusters(s, found) = g[Len(found)]
<1> DEFINE k == Len(found)
           inspected == [t \in StreamType |-> [i \in 1 .. k |-> InspectCluster(t, found[i])]]
           Body(g, i) == IF i = 0 THEN s ELSE inspected[g[i - 1]][i]
           after == CHOOSE g : g = [i \in 0 .. k |-> Body(g, i)]
           V == {t \in StreamType : \E y : StandsFor(t, y)}
           step == [x \in (1 .. k) \X V |-> InspectCluster(x[2], found[x[1]])]
<1>1. InspectClusters(s, found) = after[k]
  BY Zenon DEF InspectClusters
<1>2. k \in Nat /\ \A i \in 1 .. k : Sendable(v[n + i]) /\ Timely(v[n + i]) /\ found[i] = MuxCluster(v[n + i])
  BY Zenon DEF AreFound
<1>3. s \in V
  <2>1. s \in StreamType
    BY Zenon DEF StandsFor
  <2> QED
    BY <2>1, Zenon
<1>4. ASSUME NEW t \in V, NEW i \in 1 .. k
      PROVE  InspectCluster(t, found[i]) \in V /\ inspected[t][i] = InspectCluster(t, found[i])
  <2>1. PICK y : StandsFor(t, y)
    BY Zenon
  <2>2. StandsFor(InspectCluster(t, found[i]), Continued(y, v[n + i]))
    <3> HIDE DEF V, step, k, inspected, Body, after
    <3>1. Sendable(v[n + i]) /\ Timely(v[n + i]) /\ found[i] = MuxCluster(v[n + i])
      BY <1>2, Zenon
    <3>2. StandsFor(InspectCluster(t, MuxCluster(v[n + i])), Continued(y, v[n + i]))
      BY <2>1, <3>1, InspectStands, Zenon
    <3> QED
      BY <3>1, <3>2, Zenon
  <2>3. InspectCluster(t, found[i]) \in StreamType /\ t \in StreamType
    BY <2>1, <2>2, Zenon DEF StandsFor
  <2> DEFINE c == InspectCluster(t, found[i])
  <2>4. c \in V
    <3> HIDE DEF c, inspected, k, after, Body, step
    <3> QED
      BY <2>2, <2>3, Zenon DEF c
  <2>5. inspected[t][i] = c
    <3>1. t \in StreamType /\ i \in 1 .. k
      BY <2>3, Zenon
    <3> HIDE DEF k, V, step, after
    <3> QED
      BY <3>1
  <2> HIDE DEF V, step, k, inspected, Body, after
  <2> QED
    BY <2>4, <2>5
<1>5. step \in [(1 .. k) \X V -> V]
  <2> SUFFICES ASSUME NEW x \in (1 .. k) \X V PROVE InspectCluster(x[2], found[x[1]]) \in V
    BY Zenon
  <2> HIDE DEF V, k
  <2>1. x[1] \in 1 .. k /\ x[2] \in V
    OBVIOUS
  <2> HIDE DEF inspected, after, step, Body
  <2> QED
    BY <1>4, <2>1
<1> HIDE DEF V, k, inspected, after
<1>6. PICK f \in [0 .. k -> V] : f[0] = s /\ \A i \in 1 .. k : f[i] = step[<<i, f[i - 1]>>]
  <2> HIDE DEF step
  <2>1. \E f \in [0 .. k -> V] : Recursive(f, k, s, step)
    BY <1>2, <1>3, <1>5, Recursion, ZenonT(30)
  <2> QED
    BY <2>1, Zenon DEF Recursive
<1>7. ASSUME NEW i \in 1 .. k PROVE f[i - 1] \in V /\ f[i] = InspectCluster(f[i - 1], found[i])
  <2>1. i - 1 \in 0 .. k
    BY <1>2
  <2>2. f[i - 1] \in V
    BY <1>6, <2>1
  <2> DEFINE x == <<i, f[i - 1]>>
  <2>3. x \in (1 .. k) \X V /\ x[1] = i /\ x[2] = f[i - 1]
    BY <2>2
  <2>4. step[x] = InspectCluster(f[i - 1], found[i])
    <3> HIDE DEF x
    <3> QED
      BY <2>3
  <2> QED
    BY <1>6, <2>2, <2>4, Zenon
<1> HIDE DEF step
<1>8. \A i \in 0 .. k : f[i] = Body(f, i)
  <2> SUFFICES ASSUME NEW i \in 0 .. k, i # 0 PROVE f[i] = Body(f, i)
    BY <1>6, Zenon
  <2>1. i \in 1 .. k
    BY <1>2
  <2>2. f[i] = inspected[f[i - 1]][i]
    BY <1>4, <1>7, <2>1, Zenon
  <2> QED
    BY <2>2, Zenon
<1>9. f = [i \in 0 .. k |-> Body(f, i)]
  <2> HIDE DEF Body
  <2> QED
    BY <1>6, <1>8
<1>10. after = [i \in 0 .. k |-> Body(after, i)]
  <2> HIDE DEF Body
  <2> QED
    BY <1>9 DEF after
<1>11. \A i \in 0 .. k : after[i] = Body(after, i)
  <2> HIDE DEF Body
  <2> QED
    BY <1>10
<1>12. after[0] = s
  <2>1. 0 \in 0 .. k
    BY <1>2
  <2> QED
    BY <1>11, <2>1, Zenon
<1>13. \A i \in 1 .. k : after[i] = inspected[after[i - 1]][i] /\ i - 1 \in 0 .. k /\ (i - 1) + 1 = i /\ i \in 0 .. k
  <2>1. \A i \in 1 .. k : i \in 0 .. k /\ i # 0 /\ i - 1 \in 0 .. k /\ (i - 1) + 1 = i
    BY <1>2
  <2> QED
    BY <1>11, <2>1, Zenon
<1> DEFINE D == {i \in Nat : i <= k => after[i] \in V}
<1>14. Nat \subseteq D
  <2>1. 0 \in D
    BY <1>3, <1>12
  <2>2. ASSUME NEW i \in Nat, i \in D PROVE i + 1 \in D
    <3> SUFFICES ASSUME i + 1 <= k PROVE after[i + 1] \in V
      OBVIOUS
    <3> DEFINE j == i + 1
    <3>1. j \in 1 .. k /\ j - 1 = i /\ i <= k
      BY <1>2
    <3>2. after[i] \in V
      BY <2>2, <3>1
    <3> HIDE DEF j, D
    <3>3. after[j] \in V
      BY <1>4, <1>13, <3>1, <3>2
    <3> QED
      BY <3>3, Zenon DEF j
  <2> HIDE DEF D
  <2> QED
    BY <2>1, <2>2, SetInduction
<1>15. ASSUME NEW i \in 1 .. k PROVE after[i] = InspectCluster(after[i - 1], found[i])
  <2>1. i - 1 \in Nat /\ i - 1 <= k
    BY <1>2
  <2>2. after[i - 1] \in V
    BY <1>14, <2>1
  <2> QED
    BY <1>4, <1>13, <2>2, Zenon
<1>16. Follows(after, s, found)
  BY <1>12, <1>15, Zenon DEF Follows, k
<1> QED
  BY <1>1, <1>16, Zenon DEF k

\* The streams of bytes stand for the streams of clusters.
LEMMA FollowsStands ==
  ASSUME OffsetFits, NEW s, NEW z, StandsFor(s, z), NEW found, NEW v, NEW n, AreFound(found, v, n),
         NEW g, Follows(g, s, found), NEW f, Inspecting(f, z, v, n, Len(found))
  PROVE  StandsFor(g[Len(found)], f[Len(found)])
<1> DEFINE k == Len(found)
           D == {i \in Nat : i <= k => StandsFor(g[i], f[i])}
<1>1. k \in Nat /\ \A i \in 1 .. k : Sendable(v[n + i]) /\ Timely(v[n + i]) /\ found[i] = MuxCluster(v[n + i])
  BY Zenon DEF AreFound
<1>2. g[0] = s /\ \A i \in 1 .. k : g[i] = InspectCluster(g[i - 1], found[i])
  BY Zenon DEF Follows
<1>3. f[0] = z /\ \A i \in 1 .. k : f[i] = Continued(f[i - 1], v[n + i])
  BY Zenon DEF Inspecting
<1> HIDE DEF k
<1>4. 0 \in D
  <2>1. StandsFor(g[0], f[0])
    BY <1>2, <1>3, Zenon
  <2> QED
    BY <2>1
<1>5. ASSUME NEW i \in Nat, i \in D PROVE i + 1 \in D
  <2> SUFFICES ASSUME i + 1 <= k PROVE StandsFor(g[i + 1], f[i + 1])
    OBVIOUS
  <2> DEFINE j == i + 1
  <2>1. j \in 1 .. k /\ j - 1 = i /\ i <= k
    BY <1>1
  <2>2. StandsFor(g[i], f[i])
    BY <1>5, <2>1
  <2> HIDE DEF j, D
  <2>3. StandsFor(InspectCluster(g[i], MuxCluster(v[n + j])), Continued(f[i], v[n + j]))
    BY <1>1, <2>1, <2>2, InspectStands, Zenon
  <2>4. StandsFor(g[j], f[j])
    BY <1>1, <1>2, <1>3, <2>1, <2>3, Zenon
  <2> QED
    BY <2>4, Zenon DEF j
<1>6. Nat \subseteq D
  <2> HIDE DEF D
  <2> QED
    BY <1>4, <1>5, SetInduction
<1>7. StandsFor(g[k], f[k])
  <2>1. k \in D
    BY <1>1, <1>6
  <2> QED
    BY <1>1, <2>1
<1> QED
  BY <1>7 DEF k

\* What it takes for the clusters of a source to go on.
LEMMA GoesOn ==
  ASSUME prev_sources_offset \in Int, Timeline \in State,
         NEW v \in Seq(Cluster), NEW n \in 0 .. Len(v), NEW k \in 0 .. Len(v) - n,
         video' = v, taken' = n + k,
         \A f : Inspecting(f, Timeline, v, n, k) =>
           relayed' = f[k].relayed /\ intro' = f[k].intro /\ last_observed_timecode' = f[k].last
  PROVE  ContinueWith(v, n)
<1> DEFINE Body(g, i) == IF i = 0 THEN Timeline ELSE Continued(g[i - 1], v[n + i])
           upto == CHOOSE g : g = [i \in 0 .. k |-> Body(g, i)]
           s == Timeline
           step == [x \in (1 .. k) \X State |-> Continued(x[2], v[n + x[1]])]
<1>2. k \in Nat /\ \A i \in 1 .. k : n + i \in 1 .. Len(v)
  OBVIOUS
<1>3. step \in [(1 .. k) \X State -> State]
  <2> SUFFICES ASSUME NEW x \in (1 .. k) \X State PROVE Continued(x[2], v[n + x[1]]) \in State
    OBVIOUS
  <2>1. x[1] \in 1 .. k /\ x[2] \in State
    OBVIOUS
  <2>2. v[n + x[1]] \in Cluster
    BY <1>2, <2>1
  <2> QED
    BY <2>1, <2>2, ContinuedIs
<1> HIDE DEF s
<1>4. PICK f \in [0 .. k -> State] : f[0] = s /\ \A i \in 1 .. k : f[i] = step[<<i, f[i - 1]>>]
  <2> HIDE DEF step
  <2>1. s \in State
    BY DEF s
  <2>2. \E f \in [0 .. k -> State] : Recursive(f, k, s, step)
    BY <1>2, <1>3, <2>1, Recursion, ZenonT(30)
  <2> QED
    BY <2>2 DEF Recursive
<1>5. \A i \in 1 .. k : f[i] = Continued(f[i - 1], v[n + i])
  <2> SUFFICES ASSUME NEW i \in 1 .. k PROVE f[i] = Continued(f[i - 1], v[n + i])
    OBVIOUS
  <2>1. i - 1 \in 0 .. k
    BY <1>2
  <2>2. f[i - 1] \in State
    BY <2>1
  <2> DEFINE x == <<i, f[i - 1]>>
  <2>3. x \in (1 .. k) \X State /\ x[1] = i /\ x[2] = f[i - 1]
    BY <2>2
  <2>4. step[x] = Continued(f[i - 1], v[n + i])
    <3> HIDE DEF x
    <3> QED
      BY <2>3
  <2> QED
    BY <1>4, <2>4
<1>6. \A i \in 0 .. k : f[i] = Body(f, i)
  <2> SUFFICES ASSUME NEW i \in 0 .. k, i # 0 PROVE f[i] = Body(f, i)
    BY <1>4 DEF s
  <2>1. i \in 1 .. k
    BY <1>2
  <2> QED
    BY <1>5, <2>1
<1>7. f = [i \in 0 .. k |-> Body(f, i)]
  <2> HIDE DEF Body
  <2> QED
    BY <1>4, <1>6
<1>8. upto = [i \in 0 .. k |-> Body(upto, i)]
  <2> HIDE DEF Body
  <2> QED
    BY <1>7
<1> HIDE DEF upto
<1>9. Inspecting(upto, Timeline, v, n, k)
  <2>1. \A i \in 0 .. k : upto[i] = Body(upto, i)
    <3> HIDE DEF Body
    <3> QED
      BY <1>8
  <2>2. 0 \in 0 .. k /\ \A i \in 1 .. k : i \in 0 .. k /\ i # 0
    BY <1>2
  <2> QED
    BY <2>1, <2>2 DEF Inspecting
<1>10. relayed' = upto[k].relayed /\ intro' = upto[k].intro /\ last_observed_timecode' = upto[k].last
  BY <1>9, Zenon
<1> QED
  BY <1>10, Zenon DEF ContinueWith, upto

-----------------------------------------------------------------------------
(* Reception does to the clusters what Splice says *)

\* The blocks that sources send are in time.
LEMMA UploadTimely ==
  ASSUME NEW u \in Upload, NEW i \in 1 .. Len(u.clusters)
  PROVE  Sendable(u.clusters[i]) /\ Timely(u.clusters[i])
<1> DEFINE v == u.clusters
           c == v[i]
<1>1. v \in Videos /\ v \in Seq(Cluster) /\ Sendable(c)
  BY SentIs
<1>2. c \in Cluster
  BY <1>1, Zenon DEF Sendable
<1>3. TimesFit /\ SendInOrder
  BY IngestAssumption, Zenon
<1>4. i \in 1 .. Len(v)
  OBVIOUS
<1> HIDE DEF v
<1>5. ASSUME NEW a \in 1 .. Len(c.blocks) PROVE TimeFits(Time(c, a))
  <2>1. MaxSources * Time(c, a) <= 127 * Place[4]
    BY <1>1, <1>3, <1>4, Zenon DEF TimesFit
  <2>2. Time(c, a) >= 0
    BY <1>1, <1>3, <1>4, Zenon DEF SendInOrder
  <2>3. Time(c, a) \in Int
    BY <1>2, Times, Zenon
  <2>4. Time(c, a) \in Nat
    <3> DEFINE x == Time(c, a)
    <3>1. x \in Int /\ x >= 0
      BY <2>2, <2>3
    <3> HIDE DEF x
    <3>2. x \in Nat
      BY <3>1
    <3> QED
      BY <3>2 DEF x
  <2> QED
    BY <2>1, <2>4, Zenon DEF TimeFits, MostTime
<1> HIDE DEF c
<1>6. Timely(c)
  BY <1>5, Zenon DEF Timely
<1> QED
  BY <1>1, <1>6, Zenon DEF c, v

\* Nothing is taken.
LEMMA NothingContinues ==
  ASSUME prev_sources_offset \in Int, Timeline \in State,
         NEW v \in Seq(Cluster), NEW n \in 0 .. Len(v), video' = v, taken' = n,
         UNCHANGED <<relayed, intro, last_observed_timecode>>
  PROVE  ContinueWith(v, n)
<1> DEFINE k == 0
<1>1. k \in 0 .. Len(v) - n /\ taken' = n + k
  OBVIOUS
<1>2. ASSUME NEW f, Inspecting(f, Timeline, v, n, k)
      PROVE  relayed' = f[k].relayed /\ intro' = f[k].intro /\ last_observed_timecode' = f[k].last
  <2>1. f[k] = Timeline
    BY <1>2 DEF Inspecting
  <2>2. /\ Timeline.relayed = relayed /\ Timeline.intro = intro
        /\ Timeline.last = last_observed_timecode
    BY DEF Timeline
  <2>3. relayed' = relayed /\ intro' = intro /\ last_observed_timecode' = last_observed_timecode
    OBVIOUS
  <2> QED
    BY <2>1, <2>2, <2>3, Zenon
<1> HIDE DEF k
<1> QED
  BY <1>1, <1>2, GoesOn, Zenon

\* The stream afterwards.
Stream2 == [relayed |-> relayed', intro_buffer |-> intro_buffer',
            offset |-> prev_sources_offset', last |-> last_observed_timecode']

\* What it means that clusters were taken from what is in the receive buffer.
Takes(v, n) ==
  /\ ContinueWith(v, n)
  /\ StandsFor(Stream2, Timeline2)

\* What receive_stream_buffer_filled does to the clusters.
LEMMA FilledContinues ==
  ASSUME SizeOctets <= 4, OffsetFits, NEW u \in Upload, NEW b, NEW rest,
         FromCluster(u, taken, b, rest), rest \in Seq(Byte), StandsFor(Stream, Timeline),
         NEW h, BufferFilled(h, b), video' = u.clusters, UNCHANGED prev_sources_offset
  PROVE  Takes(u.clusters, taken)
<1> DEFINE t == Clusters(b)
           v == u.clusters
           N == Len(v)
           s == Sent(u)
           end == InspectClusters(Stream, t.found)
<1>1. /\ taken' = taken + Len(t.found) /\ relayed' = end.relayed
      /\ intro_buffer' = end.intro_buffer /\ intro' = DemuxAll(end.intro_buffer)
      /\ last_observed_timecode' = end.last
  BY Zenon DEF BufferFilled
<1>2. taken \in 0 .. N /\ b \in Seq(Byte) /\ IsCut(b, rest, Rest(u, taken))
  BY Zenon DEF FromCluster
<1>3. PICK j \in 0 .. N - taken : t.found = SubSeq(s, taken + 1, taken + j)
  <2>1. \E j \in 0 .. N - taken : t.found = SubSeq(s, taken + 1, taken + j)
    BY <1>2, ClustersAre
  <2> QED
    BY <2>1, Zenon
<1>4. /\ s \in Seq(Seq(Byte)) /\ Len(s) = N /\ N \in Nat /\ v \in Seq(Cluster)
      /\ \A i \in 1 .. N : s[i] = MuxCluster(v[i])
  <2>1. \A i \in 1 .. N : s[i] = MuxCluster(v[i])
    BY DEF Sent
  <2>2. s \in Seq(Seq(Byte)) /\ Len(s) = N /\ N \in Nat /\ v \in Seq(Cluster)
    BY SentIs
  <2> QED
    BY <2>1, <2>2, Zenon
<1> DEFINE k == Len(t.found)
<1>5. /\ Len(t.found) = j /\ taken \in Nat /\ j \in Nat
      /\ \A i \in 1 .. j : t.found[i] = s[taken + i] /\ taken + i \in 1 .. N
  <2>1. taken \in Nat /\ j \in Nat /\ taken + j <= N /\ taken + j - taken = j /\ taken + j \in Nat
        /\ taken <= taken + j
    BY <1>2, <1>4
  <2> DEFINE y == taken + j
             a == SubSeq(s, taken + 1, y)
             T == Seq(Byte)
  <2>2. s \in Seq(T) /\ taken \in Nat /\ y \in Nat /\ taken <= y /\ y <= Len(s) /\ y - taken = j
    BY <1>4, <2>1
  <2>3. \A i \in 1 .. j : taken + i \in 1 .. N
    BY <1>4, <2>1
  <2>4. t.found = a
    BY <1>3
  <2> HIDE DEF T, y, s, v, N, t
  <2>5. Len(a) = y - taken /\ \A i \in 1 .. y - taken : a[i] = s[taken + i]
    BY <2>2
  <2> QED
    BY <2>1, <2>2, <2>3, <2>4, <2>5, Zenon
<1> HIDE DEF t, v, N, s, end, k
<1>6. AreFound(t.found, v, taken)
  <2>1. \A i \in 1 .. N : Sendable(v[i]) /\ Timely(v[i])
    BY UploadTimely DEF v, N
  <2>2. \A i \in 1 .. j : Sendable(v[taken + i]) /\ Timely(v[taken + i]) /\ t.found[i] = MuxCluster(v[taken + i])
    BY <1>4, <1>5, <2>1, Zenon
  <2> QED
    BY <1>4, <1>5, <2>2, Zenon DEF AreFound
<1>7. PICK g : Follows(g, Stream, t.found) /\ end = g[Len(t.found)]
  BY <1>6, InspectClustersIs, Zenon DEF end
<1>8. ASSUME NEW f, Inspecting(f, Timeline, v, taken, j)
      PROVE  StandsFor(end, f[j])
  BY <1>5, <1>6, <1>7, <1>8, FollowsStands, Zenon
<1>9. ASSUME NEW f, Inspecting(f, Timeline, v, taken, j)
      PROVE  relayed' = f[j].relayed /\ intro' = f[j].intro /\ last_observed_timecode' = f[j].last
  <2>1. StandsFor(end, f[j])
    BY <1>8, <1>9
  <2>2. IsIntroBytes(end.intro_buffer, f[j].intro) /\ end.relayed = f[j].relayed /\ end.last = f[j].last
    BY <2>1, Zenon DEF StandsFor
  <2>3. DemuxAll(end.intro_buffer) = f[j].intro
    BY <2>2, IntroRead, Zenon
  <2> QED
    BY <1>1, <2>2, <2>3, Zenon
<1>10. prev_sources_offset \in Int /\ Timeline \in State /\ taken' = taken + j /\ video' = v
  <2>1. prev_sources_offset \in Nat
    BY Zenon DEF OffsetFits
  <2>2. prev_sources_offset \in Int
    BY <2>1
  <2> QED
    BY <1>1, <1>5, <2>2, Zenon DEF StandsFor, v
<1>11. ContinueWith(v, taken)
  BY <1>2, <1>3, <1>4, <1>9, <1>10, GoesOn, Zenon DEF N
<1>12. PICK q \in 0 .. N - taken : \E f :
         /\ Inspecting(f, Timeline, v, taken, q)
         /\ taken' = taken + q
  BY <1>2, <1>4, <1>10, <1>11, ContinueWithIsRecursive, Zenon DEF N
<1>13. q = j
  <2>1. taken + q = taken + j
    BY <1>10, <1>12, Zenon
  <2>2. q \in Int
    BY <1>4, <1>5
  <2> QED
    BY <1>5, <2>1, <2>2
<1>14. PICK f : Inspecting(f, Timeline, v, taken, j)
  BY <1>12, <1>13, Zenon
<1>15. StandsFor(end, f[j])
  BY <1>8, <1>14
<1>16. /\ relayed' = f[j].relayed /\ intro' = f[j].intro /\ last_observed_timecode' = f[j].last
       /\ prev_sources_offset' = prev_sources_offset
  BY <1>9, <1>14, Zenon
<1>17. Stream2 = end
  BY <1>1, <1>15, <1>16 DEF StandsFor, StreamType, Stream2
<1>18. Timeline2 = f[j]
  BY <1>15, <1>16 DEF StandsFor, State, Timeline2
<1> QED
  BY <1>11, <1>15, <1>17, <1>18, Zenon DEF Takes, v

\* When nothing is taken the stream stays what it is.
LEMMA Rests ==
  ASSUME prev_sources_offset \in Int, StandsFor(Stream, Timeline),
         NEW v \in Seq(Cluster), NEW n \in 0 .. Len(v), video' = v, taken' = n,
         UNCHANGED <<streamVars, prev_sources_offset>>
  PROVE  Takes(v, n)
<1>1. /\ relayed' = relayed /\ intro_buffer' = intro_buffer /\ intro' = intro
      /\ last_observed_timecode' = last_observed_timecode /\ prev_sources_offset' = prev_sources_offset
  BY DEF streamVars
<1>2. Timeline \in State
  BY Zenon DEF StandsFor
<1>3. Stream2 = Stream /\ Timeline2 = Timeline
  BY <1>1 DEF Stream, Stream2, Timeline, Timeline2
<1>4. ContinueWith(v, n)
  BY <1>1, <1>2, NothingContinues, Zenon
<1> QED
  BY <1>3, <1>4, Zenon DEF Takes

\* What receive_stream_header_buffer_filled does to the clusters.
LEMMA HeaderFilledContinues ==
  ASSUME SizeOctets <= 4, OffsetFits, NEW u \in Upload, taken = 0, NEW f \in BOOLEAN,
         NEW b \in Seq(Byte), b # <<>>, NEW rest \in Seq(Byte),
         IsCut(MuxHeader(u, f), Rest(u, 0), b \o rest), StandsFor(Stream, Timeline),
         HeaderBufferFilled(b), video' = u.clusters, UNCHANGED prev_sources_offset
  PROVE  Takes(u.clusters, taken)
<1> DEFINE x == ExtractHeader(b)
           n == 15 + u.segment
           M == Rest(u, 0)
           H == MuxHeader(u, TRUE)
           w == x.buffer \o rest
           z == SubSeq(x.buffer, x.size + 1, Len(x.buffer))
           v == u.clusters
<1>1. M \in Seq(Byte) /\ 0 \in 0 .. Len(v)
  <2>1. 0 \in 0 .. Len(v)
    BY SentIs
  <2> QED
    BY <2>1, RestIs
<1>2. IsCut(b, rest, b \o rest)
  BY CutConcat
<1>3. /\ x.buffer \in Seq(Byte) /\ Len(x.buffer) = Len(b)
      /\ n <= Len(b) => x.size = n /\ IsCut(H, M, w)
      /\ n > Len(b) => x.size = -1 /\ (IsCut(H, M, w) \/ IsCut(MuxHeader(u, f), M, w))
  BY <1>1, <1>2, ExtractHeaderIs, Zenon
<1>4. n \in Nat /\ n > 0 /\ Len(b) \in Nat
  <2>1. u.segment \in 1 .. 8
    BY IngestAssumption, Zenon
  <2>2. Len(b) \in Nat
    OBVIOUS
  <2> QED
    BY <2>1, <2>2, SMTT(20)
<1>5. H \in Seq(Byte) /\ Len(H) = n
  <2>1. TRUE \in BOOLEAN
    OBVIOUS
  <2> QED
    BY <1>1, <2>1, HeaderPieces, Zenon
<1>6. \/ /\ x.size > 0
         /\ BufferFilled(SubSeq(x.buffer, 1, x.size), z)
      \/ x.size <= 0 /\ UNCHANGED <<taken, streamVars>>
  BY Zenon DEF HeaderBufferFilled
<1>7. v \in Seq(Cluster)
  BY SentIs
<1>8. prev_sources_offset \in Int /\ prev_sources_offset' = prev_sources_offset /\ video' = v
  BY DEF OffsetFits
<1> HIDE DEF x, n, M, H, w, z, v
<1>9. CASE n <= Len(b)
  <2>1. x.size = n /\ IsCut(H, M, w) /\ ~(x.size <= 0) /\ Len(H) <= Len(x.buffer)
    BY <1>3, <1>4, <1>5, <1>9
  <2>2. IsCut(x.buffer, rest, w)
    BY CutConcat DEF w
  <2>3. Remains(x.buffer, H, rest, M)
    BY <1>1, <1>3, <1>5, <2>1, <2>2, RemainsIs
  <2>4. z \in Seq(Byte) /\ IsCut(z, rest, M)
    BY <1>5, <2>1, <2>3, Zenon DEF Remains, z
  <2>5. BufferFilled(SubSeq(x.buffer, 1, x.size), z)
    BY <1>6, <2>1, Zenon
  <2>6. FromCluster(u, taken, z, rest)
    BY <1>1, <2>4, Zenon DEF M, FromCluster, v
  <2>7. video' = u.clusters
    OBVIOUS
  <2> HIDE DEF z
  <2> QED
    BY <2>5, <2>6, <2>7, FilledContinues, Zenon DEF v
<1>10. CASE n > Len(b)
  <2>1. x.size = -1
    BY <1>3, <1>10, Zenon
  <2>2. ~(x.size > 0)
    BY <2>1
  <2>3. UNCHANGED <<taken, streamVars>>
    BY <1>6, <2>2, Zenon
  <2>4. taken' = taken /\ UNCHANGED <<streamVars, prev_sources_offset>>
    BY <1>8, <2>3
  <2>5. taken \in 0 .. Len(v)
    BY <1>1, Zenon
  <2>6. Takes(v, taken)
    BY <1>7, <1>8, <2>4, <2>5, Rests, Zenon
  <2> QED
    BY <2>6, Zenon DEF v
<1>11. n <= Len(b) \/ n > Len(b)
  BY <1>4
<1> QED
  BY <1>9, <1>10, <1>11, Zenon

-----------------------------------------------------------------------------
(* The invariant *)

\* Sources that came and went, and how far they can have moved the time.
Ended == IF connected THEN sources - 1 ELSE sources
EndedFit(n) ==
  /\ n \in Nat /\ n <= MaxSources
  /\ prev_sources_offset \in Nat /\ MaxSources * prev_sources_offset <= n * MostTime

\* Together with Reception: the bytes of the stream are its clusters, and its time fits.
Spliced ==
  /\ Reception
  /\ connected \in BOOLEAN /\ (connected <=> state # "none")
  /\ header \in Seq(Byte) /\ buffer \in Seq(Byte)
  /\ sources \in 0 .. MaxSources
  /\ EndedFit(Ended)
  /\ StandsFor(Stream, Timeline)

\* Products of numbers.
LEMMA Product ==
  ASSUME NEW a \in Nat, NEW b \in Nat
  PROVE  a * b \in Nat
OBVIOUS

\* There is time for another source.
LEMMA MoreFit ==
  ASSUME NEW n, EndedFit(n), n < MaxSources
  PROVE  OffsetFits
<1> DEFINE o == prev_sources_offset
           K == MostTime
           M == MaxSources
<1>1. n \in Nat /\ o \in Nat /\ M * o <= n * K /\ n < M
  BY Zenon DEF EndedFit
<1>2. M \in Nat
  BY IngestAssumption, Zenon
<1>3. K \in Nat
  <2>1. Place[4] = 16777216
    BY Tables
  <2> QED
    BY <2>1 DEF MostTime
<1> HIDE DEF o, K, M
<1>4. ~(o > K)
  <2> SUFFICES ASSUME o > K PROVE FALSE
    OBVIOUS
  <2> DEFINE d == o - (K + 1)
             e == M - (n + 1)
  <2>1. d \in Nat /\ e \in Nat /\ o = d + K + 1 /\ M = e + n + 1
    BY <1>1, <1>2, <1>3
  <2> HIDE DEF d, e
  <2>2. M * d \in Nat /\ e * K \in Nat
    BY <1>2, <1>3, <2>1, Product
  <2>3. M * o = M * d + M * K + M
    BY <1>2, <1>3, <2>1
  <2>4. M * K = e * K + n * K + K
    BY <1>1, <1>3, <2>1
  <2>5. n * K \in Nat
    BY <1>1, <1>3, Product
  <2> QED
    BY <1>1, <1>2, <1>3, <2>2, <2>3, <2>4, <2>5
<1>5. o <= K
  BY <1>1, <1>3, <1>4
<1> QED
  BY <1>1, <1>5, Zenon DEF OffsetFits, o, K

\* When a source ends there has been one more.
LEMMA OneMoreEnded ==
  ASSUME NEW n, EndedFit(n), n < MaxSources, NEW t, TimeFits(t),
         prev_sources_offset' = prev_sources_offset + t
  PROVE  EndedFit(n + 1)'
<1> DEFINE o == prev_sources_offset
           K == MostTime
           M == MaxSources
<1>1. n \in Nat /\ o \in Nat /\ M * o <= n * K /\ n < M
  BY Zenon DEF EndedFit
<1>2. M \in Nat
  BY IngestAssumption, Zenon
<1>3. K \in Nat
  <2>1. Place[4] = 16777216
    BY Tables
  <2> QED
    BY <2>1 DEF MostTime
<1>4. t \in Nat /\ M * t <= K
  BY Zenon DEF TimeFits
<1>5. prev_sources_offset' = o + t
  OBVIOUS
<1> HIDE DEF o, K, M
<1>6. n + 1 \in Nat /\ n + 1 <= M /\ o + t \in Nat
  BY <1>1, <1>2, <1>4
<1>7. M * (o + t) = M * o + M * t /\ (n + 1) * K = n * K + K
  BY <1>1, <1>2, <1>3, <1>4
<1>8. M * o \in Nat /\ M * t \in Nat /\ n * K \in Nat
  BY <1>1, <1>2, <1>3, <1>4, Product
<1>9. M * (o + t) <= (n + 1) * K
  <2> DEFINE p == M * o
             q == M * t
             r == n * K
             y == M * (o + t)
             z == (n + 1) * K
  <2>1. p \in Nat /\ q \in Nat /\ r \in Nat /\ p <= r /\ q <= K /\ y = p + q /\ z = r + K
    BY <1>1, <1>4, <1>7, <1>8
  <2> HIDE DEF p, q, r, y, z
  <2>2. y <= z
    BY <1>3, <2>1
  <2> QED
    BY <2>2 DEF y, z
<1> QED
  BY <1>5, <1>6, <1>9, Zenon DEF EndedFit, o, K, M

\* What the source has sent, and the header, are bytes.
LEMMA StillBytes ==
  ASSUME SizeOctets <= 4, Reception', state' # "none", header \in Seq(Byte),
         state' = "receive_stream" \/ header' = header
  PROVE  header' \in Seq(Byte) /\ buffer' \in Seq(Byte)
<1> DEFINE u == upload'
<1>1. u \in Upload /\ Receiving(state', u, taken', header', buffer', unread')
  BY Zenon DEF Reception
<1> HIDE DEF u
<1>2. MuxHeader(u, TRUE) \in Seq(Byte)
  <2>1. Rest(u, 0) \in Seq(Byte) /\ TRUE \in BOOLEAN
    <3>1. 0 \in 0 .. Len(u.clusters)
      BY <1>1, SentIs
    <3> QED
      BY <1>1, <3>1, RestIs
  <2> QED
    BY <1>1, <2>1, HeaderPieces, Zenon
<1>3. buffer' \in Seq(Byte)
  BY <1>1, Zenon DEF Receiving, FromCluster
<1>4. state' = "receive_stream" => header' = MuxHeader(u, TRUE)
  <2>1. "receive_stream" # "receive_stream_header"
    OBVIOUS
  <2> QED
    BY <1>1, <2>1, Zenon DEF Receiving
<1> QED
  BY <1>2, <1>3, <1>4, Zenon

\* The header changes when it is complete.
LEMMA HeaderStored ==
  ASSUME NEW b, HeaderBufferFilled(b)
  PROVE  state' = "receive_stream" \/ header' = header
BY DEF HeaderBufferFilled, BufferFilled, streamVars

\* When clusters are taken the stream of bytes still stands for that of clusters.
LEMMA TakenStands ==
  ASSUME NEW v, NEW n, Takes(v, n), UNCHANGED prev_sources_offset
  PROVE  StandsFor(Stream, Timeline)'
<1>1. StandsFor(Stream2, Timeline2) /\ prev_sources_offset' = prev_sources_offset
  BY Zenon DEF Takes
<1> QED
  BY <1>1, Zenon DEF StandsFor, Stream, Stream2, Timeline, Timeline2

\* The invariant after clusters were taken.
LEMMA SplicedAfter ==
  ASSUME SizeOctets <= 4, Reception', state' # "none", connected' = TRUE, header \in Seq(Byte),
         state' = "receive_stream" \/ header' = header,
         NEW n, EndedFit(n), sources' - 1 = n, sources' \in 0 .. MaxSources,
         NEW v, NEW k, Takes(v, k), UNCHANGED prev_sources_offset
  PROVE  Spliced'
<1>1. header' \in Seq(Byte) /\ buffer' \in Seq(Byte)
  BY StillBytes, Zenon
<1>2. StandsFor(Stream, Timeline)'
  BY TakenStands, Zenon
<1>3. EndedFit(Ended)'
  <2>1. Ended' = n /\ prev_sources_offset' = prev_sources_offset
    BY DEF Ended
  <2> QED
    BY <2>1, Zenon DEF EndedFit
<1>4. connected' \in BOOLEAN
  OBVIOUS
<1> QED
  BY <1>1, <1>2, <1>3, <1>4, Zenon DEF Spliced

\* A source comes.
LEMMA EnterBegins ==
  ASSUME SizeOctets <= 4, Spliced, EnterReceiveStream
  PROVE  SourceBegins /\ Spliced'
<1>1. PICK u \in Upload :
        /\ upload' = u /\ video' = u.clusters
        /\ \E n \in 0 .. Len(Mux(u)) :
             /\ unread' = SubSeq(Mux(u), n + 1, Len(Mux(u)))
             /\ \/ n > 0 /\ HeaderBufferFilled(SubSeq(Mux(u), 1, n))
                \/ n = 0 /\ state' = "receive_stream_header" /\ UNCHANGED <<taken, streamVars>>
  BY Zenon DEF EnterReceiveStream
<1>2. PICK n \in 0 .. Len(Mux(u)) :
        /\ unread' = SubSeq(Mux(u), n + 1, Len(Mux(u)))
        /\ \/ n > 0 /\ HeaderBufferFilled(SubSeq(Mux(u), 1, n))
           \/ n = 0 /\ state' = "receive_stream_header" /\ UNCHANGED <<taken, streamVars>>
  BY <1>1, Zenon
<1>3. /\ state = "none" /\ sources < MaxSources /\ sources' = sources + 1 /\ connected' = TRUE
      /\ prev_sources_offset' = prev_sources_offset
  BY DEF EnterReceiveStream
<1>4. /\ Reception /\ connected = FALSE /\ header \in Seq(Byte) /\ sources \in 0 .. MaxSources
      /\ EndedFit(sources) /\ StandsFor(Stream, Timeline)
  <2>1. connected = FALSE
    BY <1>3, Zenon DEF Spliced
  <2>2. Ended = sources
    BY <2>1, Zenon DEF Ended
  <2> QED
    BY <2>1, <2>2, Zenon DEF Spliced
<1>5. taken = 0
  BY <1>3, <1>4 DEF Reception, Receiving
<1> DEFINE m == Mux(u)
           b == SubSeq(m, 1, n)
           rest == SubSeq(m, n + 1, Len(m))
           f == u.unknown
           v == u.clusters
<1>6. m \in Seq(Byte) /\ f \in BOOLEAN /\ IsCut(MuxHeader(u, f), Rest(u, 0), m)
  BY MuxIs
<1>7. b \in Seq(Byte) /\ Len(b) = n /\ rest \in Seq(Byte) /\ IsCut(b, rest, m)
  BY <1>6, CutAnywhere
<1>8. /\ unread' = rest
      /\ \/ n > 0 /\ HeaderBufferFilled(b)
         \/ n = 0 /\ state' = "receive_stream_header" /\ UNCHANGED <<taken, streamVars>>
  BY <1>2
<1>9. v \in Videos /\ v \in Seq(Cluster) /\ 0 \in 0 .. Len(v)
  BY SentIs
<1>10. Reception'
  BY <1>4, EnterReceives
<1>11. OffsetFits
  BY <1>3, <1>4, MoreFit, Zenon
<1> HIDE DEF m, b, rest, f, v
<1>12. IsCut(MuxHeader(u, f), Rest(u, 0), b \o rest)
  BY <1>6, <1>7, Zenon DEF IsCut
<1>13. Takes(v, 0)
  <2>1. CASE n > 0 /\ HeaderBufferFilled(b)
    <3>1. b # <<>>
      <4>1. Len(b) > 0 /\ Len(<<>>) = 0
        BY <1>7, <2>1
      <4> QED
        BY <4>1
    <3>2. video' = u.clusters /\ UNCHANGED prev_sources_offset
      BY <1>1, <1>3
    <3>3. Takes(v, taken)
      BY <1>4, <1>5, <1>6, <1>7, <1>11, <1>12, <2>1, <3>1, <3>2, HeaderFilledContinues, Zenon DEF v
    <3> QED
      BY <1>5, <3>3
  <2>2. CASE n = 0 /\ state' = "receive_stream_header" /\ UNCHANGED <<taken, streamVars>>
    <3>1. taken' = 0 /\ UNCHANGED <<streamVars, prev_sources_offset>>
      BY <1>3, <1>5, <2>2
    <3>2. prev_sources_offset \in Int /\ video' = v
      BY <1>1, <1>11 DEF OffsetFits, v
    <3> QED
      BY <1>4, <1>9, <3>1, <3>2, Rests, Zenon
  <2> QED
    BY <1>8, <2>1, <2>2, Zenon
<1>14. SourceBegins
  <2>1. ContinueWith(v, 0)
    BY <1>13, Zenon DEF Takes
  <2>2. UNCHANGED prev_sources_offset
    BY <1>3
  <2> QED
    BY <1>3, <1>4, <1>9, <2>1, <2>2, Zenon DEF SourceBegins
<1>15. /\ state' # "none"
       /\ state' = "receive_stream" \/ header' = header
  <2>1. CASE n > 0 /\ HeaderBufferFilled(b)
    <3>1. state' \in {"receive_stream_header", "receive_stream"}
      BY <2>1 DEF HeaderBufferFilled, BufferFilled
    <3> QED
      BY <2>1, <3>1, HeaderStored
  <2>2. CASE n = 0 /\ state' = "receive_stream_header" /\ UNCHANGED <<taken, streamVars>>
    BY <2>2 DEF streamVars
  <2> QED
    BY <1>8, <2>1, <2>2, Zenon
<1>16. sources' - 1 = sources /\ sources' \in 0 .. MaxSources /\ UNCHANGED prev_sources_offset
  <2>1. /\ sources \in 0 .. MaxSources /\ sources < MaxSources /\ sources' = sources + 1
        /\ prev_sources_offset' = prev_sources_offset
    BY <1>3, <1>4, Zenon
  <2>2. MaxSources \in Nat
    BY IngestAssumption, Zenon
  <2> QED
    BY <2>1, <2>2
<1>17. Spliced'
  BY <1>3, <1>4, <1>10, <1>13, <1>15, <1>16, SplicedAfter, Zenon
<1> QED
  BY <1>14, <1>17, Zenon

\* What the invariant says while a source is there.
LEMMA WhileConnected ==
  ASSUME Spliced, state # "none"
  PROVE  /\ Reception /\ connected = TRUE /\ header \in Seq(Byte) /\ buffer \in Seq(Byte)
         /\ sources \in 0 .. MaxSources /\ EndedFit(sources - 1) /\ StandsFor(Stream, Timeline)
         /\ sources - 1 < MaxSources /\ OffsetFits
<1>1. connected = TRUE
  BY Zenon DEF Spliced
<1>2. Ended = sources - 1
  BY <1>1, Zenon DEF Ended
<1>3. /\ Reception /\ header \in Seq(Byte) /\ buffer \in Seq(Byte) /\ sources \in 0 .. MaxSources
      /\ EndedFit(sources - 1) /\ StandsFor(Stream, Timeline)
  BY <1>2, Zenon DEF Spliced
<1>4. sources - 1 < MaxSources
  BY <1>3, IngestAssumption
<1>5. OffsetFits
  BY <1>3, <1>4, MoreFit
<1> QED
  BY <1>1, <1>3, <1>4, <1>5

\* Its header goes on.
LEMMA HeaderGoesOn ==
  ASSUME SizeOctets <= 4, Spliced, ReceiveStreamHeader
  PROVE  SourceGoesOn /\ Spliced'
<1>1. PICK n \in 1 .. Len(unread) : Read(n) /\ HeaderBufferFilled(buffer \o SubSeq(unread, 1, n))
  BY Zenon DEF ReceiveStreamHeader
<1>2. state = "receive_stream_header" /\ state # "none" /\ state # "receive_stream"
  <2>1. state = "receive_stream_header"
    BY DEF ReceiveStreamHeader
  <2> QED
    BY <2>1
<1>3. /\ Reception /\ connected = TRUE /\ header \in Seq(Byte) /\ buffer \in Seq(Byte)
      /\ sources \in 0 .. MaxSources /\ EndedFit(sources - 1) /\ StandsFor(Stream, Timeline)
      /\ OffsetFits
  BY <1>2, WhileConnected, Zenon
<1> DEFINE b == buffer \o SubSeq(unread, 1, n)
           u == upload
           v == video
<1>4. u \in Upload /\ v = u.clusters /\ unread \in Seq(Byte)
  BY <1>3 DEF Reception
<1>5. b \in Seq(Byte) /\ b # <<>> /\ unread' \in Seq(Byte) /\ b \o unread' = buffer \o unread
  BY <1>1, <1>3, <1>4, ReadIs, Zenon
<1> HIDE DEF b
<1>6. PICK f \in BOOLEAN : IsCut(MuxHeader(u, f), Rest(u, 0), buffer \o unread) /\ taken = 0
  BY <1>2, <1>3, Zenon DEF Reception, Receiving
<1>7. /\ connected' = connected /\ v' = v /\ prev_sources_offset' = prev_sources_offset
      /\ sources' = sources
  BY <1>1 DEF Read
<1>8. HeaderBufferFilled(b)
  BY <1>1 DEF b
<1>9. Takes(v, taken)
  <2>1. IsCut(MuxHeader(u, f), Rest(u, 0), b \o unread')
    BY <1>5, <1>6, Zenon
  <2>2. v' = u.clusters /\ UNCHANGED prev_sources_offset
    BY <1>4, <1>7
  <2>3. Takes(u.clusters, taken)
    BY <1>3, <1>4, <1>5, <1>6, <1>8, <2>1, <2>2, HeaderFilledContinues, Zenon
  <2> QED
    BY <1>4, <2>3, Zenon
<1>10. SourceGoesOn
  <2>1. ContinueWith(video, taken)
    BY <1>9, Zenon DEF Takes
  <2>2. UNCHANGED <<connected, prev_sources_offset>>
    BY <1>7
  <2> QED
    BY <1>3, <2>1, <2>2, Zenon DEF SourceGoesOn
<1>11. Reception'
  BY <1>3, HeaderReceives
<1>12. state' # "none" /\ (state' = "receive_stream" \/ header' = header)
  <2>1. state' \in {"receive_stream_header", "receive_stream"}
    BY <1>8 DEF HeaderBufferFilled, BufferFilled
  <2> QED
    BY <1>8, <2>1, HeaderStored
<1>13. sources' - 1 = sources - 1 /\ sources' \in 0 .. MaxSources /\ UNCHANGED prev_sources_offset
       /\ connected' = TRUE
  <2>1. sources' = sources /\ sources \in 0 .. MaxSources /\ prev_sources_offset' = prev_sources_offset
        /\ connected' = TRUE
    BY <1>3, <1>7, Zenon
  <2> QED
    BY <2>1
<1>14. Spliced'
  BY <1>3, <1>9, <1>11, <1>12, <1>13, SplicedAfter, Zenon
<1> QED
  BY <1>10, <1>14, Zenon

\* Its clusters go on.
LEMMA StreamGoesOn ==
  ASSUME SizeOctets <= 4, Spliced, ReceiveStream
  PROVE  SourceGoesOn /\ Spliced'
<1>1. PICK n \in 1 .. Len(unread) : Read(n) /\ BufferFilled(header, buffer \o SubSeq(unread, 1, n))
  BY Zenon DEF ReceiveStream
<1>2. state = "receive_stream" /\ state # "none" /\ state # "receive_stream_header"
  <2>1. state = "receive_stream"
    BY DEF ReceiveStream
  <2> QED
    BY <2>1
<1>3. /\ Reception /\ connected = TRUE /\ header \in Seq(Byte) /\ buffer \in Seq(Byte)
      /\ sources \in 0 .. MaxSources /\ EndedFit(sources - 1) /\ StandsFor(Stream, Timeline)
      /\ OffsetFits
  BY <1>2, WhileConnected, Zenon
<1> DEFINE p == SubSeq(unread, 1, n)
           b == buffer \o p
           u == upload
           v == video
<1>4. u \in Upload /\ v = u.clusters /\ unread \in Seq(Byte)
  BY <1>3 DEF Reception
<1>5. p \in Seq(Byte) /\ b \in Seq(Byte) /\ unread' \in Seq(Byte) /\ IsCut(p, unread', unread)
  BY <1>1, <1>3, <1>4, ReadIs, Zenon
<1>6. FromCluster(u, taken, buffer, unread)
  BY <1>2, <1>3, Zenon DEF Reception, Receiving
<1>7. /\ connected' = connected /\ v' = v /\ prev_sources_offset' = prev_sources_offset
      /\ sources' = sources
  BY <1>1 DEF Read
<1>8. BufferFilled(header, b)
  BY <1>1 DEF b, p
<1> HIDE DEF p
<1>9. Takes(v, taken)
  <2>1. taken \in 0 .. Len(u.clusters) /\ IsCut(buffer, unread, Rest(u, taken))
    BY <1>6, Zenon DEF FromCluster
  <2>2. IsCut(b, unread', Rest(u, taken))
    BY <1>5, <2>1, CutCut2
  <2>3. FromCluster(u, taken, b, unread')
    BY <1>5, <2>1, <2>2, Zenon DEF FromCluster
  <2>4. v' = u.clusters /\ UNCHANGED prev_sources_offset
    BY <1>4, <1>7
  <2> HIDE DEF b
  <2>5. Takes(u.clusters, taken)
    BY <1>3, <1>4, <1>5, <1>8, <2>3, <2>4, FilledContinues, Zenon
  <2> QED
    BY <1>4, <2>5, Zenon
<1> HIDE DEF b
<1>10. SourceGoesOn
  <2>1. ContinueWith(video, taken)
    BY <1>9, Zenon DEF Takes
  <2>2. UNCHANGED <<connected, prev_sources_offset>>
    BY <1>7
  <2> QED
    BY <1>3, <2>1, <2>2, Zenon DEF SourceGoesOn
<1>11. Reception'
  BY <1>3, StreamReceives
<1>12. state' = "receive_stream" /\ state' # "none"
  BY <1>8 DEF BufferFilled
<1>13. sources' - 1 = sources - 1 /\ sources' \in 0 .. MaxSources /\ UNCHANGED prev_sources_offset
       /\ connected' = TRUE
  <2>1. sources' = sources /\ sources \in 0 .. MaxSources /\ prev_sources_offset' = prev_sources_offset
        /\ connected' = TRUE
    BY <1>3, <1>7, Zenon
  <2> QED
    BY <2>1
<1>14. Spliced'
  BY <1>3, <1>9, <1>11, <1>12, <1>13, SplicedAfter, Zenon
<1> QED
  BY <1>10, <1>14, Zenon

\* It goes away, and leaves what it sent behind.
LEMMA LeaveEnds ==
  ASSUME Spliced, state # "none", LeaveReceiveStream
  PROVE  SourceEnds /\ Spliced'
<1> DEFINE t == last_observed_timecode
<1>1. /\ Reception /\ connected = TRUE /\ header \in Seq(Byte)
      /\ sources \in 0 .. MaxSources /\ EndedFit(sources - 1) /\ StandsFor(Stream, Timeline)
      /\ sources - 1 < MaxSources
  BY WhileConnected, Zenon
<1>2. /\ state' = "none" /\ connected' = FALSE /\ taken' = 0 /\ prev_sources_offset' = prev_sources_offset + t
      /\ unread' = <<>> /\ buffer' = <<>> /\ header' = header /\ intro_buffer' = intro_buffer
      /\ relayed' = relayed /\ intro' = intro /\ last_observed_timecode' = t
      /\ video' = video /\ upload' = upload /\ sources' = sources
  BY DEF LeaveReceiveStream, streamVars
<1>3. SourceEnds
  BY <1>1, <1>2 DEF SourceEnds
<1>4. <<>> \in Seq(Byte)
  OBVIOUS
<1>5. Reception'
  BY <1>1, <1>2, <1>4, Zenon DEF Reception
<1>6. TimeFits(t) /\ Stream \in StreamType /\ Timeline \in State /\ IsIntroBytes(intro_buffer, intro)
  <2>1. Stream.last = t /\ Stream.intro_buffer = intro_buffer /\ Timeline.intro = intro
    BY DEF Stream, Timeline
  <2> QED
    BY <1>1, <2>1, Zenon DEF StandsFor
<1>7. EndedFit((sources - 1) + 1)'
  <2> DEFINE n == sources - 1
  <2>1. EndedFit(n) /\ n < MaxSources /\ prev_sources_offset' = prev_sources_offset + t
    BY <1>1, <1>2, Zenon
  <2>2. n' = n
    BY <1>2
  <2> HIDE DEF n
  <2>3. EndedFit(n + 1)'
    BY <1>6, <2>1, <2>2, OneMoreEnded
  <2> QED
    BY <2>3 DEF n
<1>8. EndedFit(Ended)'
  <2>1. Ended' = sources /\ (sources - 1) + 1 = sources
    BY <1>1, <1>2 DEF Ended
  <2>2. ((sources - 1) + 1)' = sources
    BY <1>2, <2>1
  <2> QED
    BY <1>7, <2>1, <2>2, Zenon DEF EndedFit
<1>9. StandsFor(Stream, Timeline)'
  <2>1. prev_sources_offset' \in Nat
    BY <1>7, Zenon DEF EndedFit
  <2>2. Timeline' = Timeline
    BY <1>2 DEF Timeline
  <2>3. /\ Stream'.relayed = Timeline.relayed /\ Stream'.last = t /\ Timeline.last = t
        /\ Stream'.offset = prev_sources_offset' /\ Stream'.intro_buffer = intro_buffer
        /\ Timeline.intro = intro
    BY <1>2 DEF Stream, Timeline
  <2>4. Stream' \in StreamType
    <3> DEFINE a == relayed
               b == intro_buffer
               P == Seq(Cluster)
               Q == Seq(Byte)
    <3>1. /\ Stream.relayed = a /\ Stream.intro_buffer = b /\ Stream.last = t
          /\ Stream' = [relayed |-> a, intro_buffer |-> b, offset |-> prev_sources_offset', last |-> t]
      BY <1>2 DEF Stream
    <3> HIDE DEF a, b, t, P, Q
    <3>2. a \in P /\ b \in Q /\ t \in Nat
      BY <1>6, <3>1 DEF StreamType, P, Q
    <3> QED
      BY <2>1, <3>1, <3>2 DEF StreamType, P, Q
  <2> QED
    BY <1>6, <2>2, <2>3, <2>4, Zenon DEF StandsFor
<1>10. connected' \in BOOLEAN /\ (connected' <=> state' # "none") /\ sources' \in 0 .. MaxSources
       /\ header' \in Seq(Byte) /\ buffer' \in Seq(Byte)
  <2>1. sources' \in 0 .. MaxSources
    BY <1>1, <1>2, Zenon
  <2> QED
    BY <1>1, <1>2, <1>4, <2>1, Zenon
<1> QED
  BY <1>3, <1>5, <1>8, <1>9, <1>10, Zenon DEF Spliced

\* In the beginning there are neither bytes nor clusters.
LEMMA InitSpliced ==
  ASSUME Init
  PROVE  Spliced /\ SpliceInit
<1>1. /\ connected = FALSE /\ state = "none" /\ buffer = <<>> /\ header = <<>> /\ intro_buffer = <<>>
      /\ relayed = <<>> /\ intro = <<>> /\ prev_sources_offset = 0 /\ last_observed_timecode = 0
      /\ sources = 0 /\ SpliceInit
  BY Zenon DEF Init, SpliceInit
<1>2. <<>> \in Seq(Byte) /\ <<>> \in Seq(Cluster) /\ MaxSources \in Nat
  BY IngestAssumption
<1>3. 0 \in 0 .. MaxSources /\ MaxSources * 0 = 0 /\ 0 * MostTime = 0 /\ 0 <= MostTime
  <2>1. MostTime \in Nat
    <3>1. Place[4] = 16777216
      BY Tables
    <3> QED
      BY <3>1 DEF MostTime
  <2> QED
    BY <1>2, <2>1
<1>4. EndedFit(Ended)
  <2>1. Ended = 0
    BY <1>1, Zenon DEF Ended
  <2>2. 0 \in Nat /\ 0 <= MaxSources /\ 0 <= 0
    BY <1>2
  <2>3. EndedFit(0)
    BY <1>1, <1>3, <2>2, Zenon DEF EndedFit
  <2> QED
    BY <2>1, <2>3
<1>5. TimeFits(0)
  <2>1. 0 \in Nat
    OBVIOUS
  <2> QED
    BY <1>3, <2>1, Zenon DEF TimeFits
<1>6. Stream \in StreamType /\ Timeline \in State
  BY <1>1, <1>2 DEF Stream, StreamType, Timeline, State
<1>7. /\ Stream.relayed = Timeline.relayed /\ Stream.last = Timeline.last /\ Stream.last = 0
      /\ Stream.offset = prev_sources_offset /\ Stream.intro_buffer = <<>> /\ Timeline.intro = <<>>
  BY <1>1 DEF Stream, Timeline
<1>8. StandsFor(Stream, Timeline)
  BY <1>5, <1>6, <1>7, IntroNone, Zenon DEF StandsFor
<1>9. Reception
  BY InitReception
<1> QED
  BY <1>1, <1>2, <1>3, <1>4, <1>8, <1>9, Zenon DEF Spliced

\* Every step of the code is one of Splice, or none.
LEMMA NextSpliced ==
  ASSUME SizeOctets <= 4, Spliced, [Next]_vars
  PROVE  [SpliceNext]_spliceVars /\ Spliced'
<1>1. ASSUME LeaveReceiveStream, state # "none"
      PROVE  SpliceNext /\ Spliced'
  BY <1>1, LeaveEnds DEF SpliceNext
<1>2. CASE UNCHANGED vars
  <2>1. /\ state' = state /\ unread' = unread /\ buffer' = buffer /\ header' = header
        /\ intro_buffer' = intro_buffer /\ upload' = upload /\ sources' = sources
        /\ connected' = connected /\ video' = video /\ taken' = taken /\ relayed' = relayed
        /\ intro' = intro /\ prev_sources_offset' = prev_sources_offset
        /\ last_observed_timecode' = last_observed_timecode
    BY <1>2 DEF vars, spliceVars
  <2>2. Stream' = Stream /\ Timeline' = Timeline /\ Ended' = Ended
    BY <2>1, Zenon DEF Stream, Timeline, Ended
  <2>3. Reception'
    BY <1>2, NextReception DEF Spliced
  <2>4. Spliced'
    BY <2>1, <2>2, <2>3, Zenon DEF Spliced, EndedFit, StandsFor
  <2>5. UNCHANGED spliceVars
    BY <2>1 DEF spliceVars
  <2> QED
    BY <2>4, <2>5
<1>3. CASE EnterReceiveStream
  BY <1>3, EnterBegins DEF SpliceNext
<1>4. CASE ReceiveStreamHeader
  BY <1>4, HeaderGoesOn DEF SpliceNext
<1>5. CASE ReceiveStream
  BY <1>5, StreamGoesOn DEF SpliceNext
<1>6. CASE SourceGone
  BY <1>1, <1>6 DEF SourceGone
<1>7. CASE HeaderTooLarge
  <2>1. state # "none"
    BY <1>7 DEF HeaderTooLarge
  <2> QED
    BY <1>1, <1>7, <2>1 DEF HeaderTooLarge
<1> QED
  BY <1>2, <1>3, <1>4, <1>5, <1>6, <1>7 DEF Next

\* However the bytes of the sources are cut and whenever a source goes away, the stream
\* is what inspecting the clusters of the sources one by one makes of them: extraction
\* finds each of them and nothing else, the patched bytes are the patched cluster, and
\* the intro is what a viewer reads from its buffer. Sizes of clusters take at most as
\* many bytes as their IDs; with longer ones streamer_try_to_extract_mkv_cluster cuts
\* clusters (run element_cut).
THEOREM ImplementsSplice == ASSUME SizeOctets <= 4 PROVE Spec => SpliceSpec
<1>1. Init => Spliced /\ SpliceInit
  BY InitSpliced
<1>2. Spliced /\ [Next]_vars => [SpliceNext]_spliceVars /\ Spliced'
  BY NextSpliced
<1> QED
  BY <1>1, <1>2, PTL DEF Spec, SpliceSpec

\* The variables have their types. What takes more than a look at each action is that
\* the offset which the sources leave behind is never negative, and that the intro is
\* made of bytes of clusters.
THEOREM TypesKept == ASSUME SizeOctets <= 4 PROVE Spec => []TypeOK
<1>1. Init => Spliced
  BY InitSpliced
<1>2. Spliced /\ [Next]_vars => Spliced'
  BY NextSpliced
<1>3. SpliceSpec => []ClustersTypeOK
  BY TypeCorrect, IngestAssumption
<1>4. Spliced /\ ClustersTypeOK => TypeOK
  <2> SUFFICES ASSUME Spliced, ClustersTypeOK PROVE TypeOK
    OBVIOUS
  <2>1. /\ Reception /\ (connected <=> state # "none") /\ header \in Seq(Byte) /\ buffer \in Seq(Byte)
        /\ sources \in 0 .. MaxSources /\ prev_sources_offset \in Nat /\ Stream \in StreamType
    BY Zenon DEF Spliced, EndedFit, StandsFor
  <2>2. intro_buffer \in Seq(Byte) /\ last_observed_timecode \in Nat
    <3> DEFINE Q == Seq(Byte)
               P == Seq(Cluster)
    <3>1. Stream.intro_buffer = intro_buffer /\ Stream.last = last_observed_timecode
      BY DEF Stream
    <3>2. Stream \in [relayed : P, intro_buffer : Q, offset : Nat, last : Nat]
      BY <2>1 DEF StreamType
    <3> HIDE DEF P, Q
    <3>3. Stream.intro_buffer \in Q /\ Stream.last \in Nat
      BY <3>2
    <3> QED
      BY <3>1, <3>3 DEF Q
  <2>3. /\ state \in {"none", "receive_stream_header", "receive_stream"}
        /\ upload \in Upload /\ video = upload.clusters /\ unread \in Seq(Byte)
    BY <2>1, Zenon DEF Reception, Receiving
  <2> QED
    BY <2>1, <2>2, <2>3, Zenon DEF TypeOK
<1> QED
  BY <1>1, <1>2, <1>3, <1>4, ImplementsSplice, PTL DEF Spec

\* What a new viewer reads from the intro goes on where the next cluster begins: for the
\* bytes what IntroFollowsStream says of clusters.
THEOREM BytesIntroContinues == ASSUME SizeOctets <= 4 PROVE Spec => []IntroContinues
<1>1. SpliceSpec => []IntroContinues
  BY IntroFollowsStream, IngestAssumption
<1> QED
  BY <1>1, ImplementsSplice, PTL

\* The blocks that are read from the patched bytes never go back in time.
THEOREM BytesTimeGoesOn == ASSUME SizeOctets <= 4 PROVE Spec => []TimeNeverGoesBack
<1>1. SpliceSpec => []TimeNeverGoesBack
  BY TimeGoesOn, IngestAssumption
<1> QED
  BY <1>1, ImplementsSplice, PTL

\* The bytes of the sources become the stream that Relay promises.
THEOREM BytesRelayed == ASSUME SizeOctets <= 4 PROVE Spec => RelaySpec
<1>1. SpliceSpec => RelaySpec
  BY ImplementsRelay, IngestAssumption
<1> QED
  BY <1>1, ImplementsSplice, PTL

=============================================================================
