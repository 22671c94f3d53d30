------------------------- MODULE Structures_proofs --------------------------
(***************************************************************************)
(* Proofs about the structures the programs share: the frames of pkg/wire, *)
(* the router of pkg/market and the sequence tracker of pkg/metrics, at    *)
(* the grain of its calls and of its atomic operations.                    *)
(***************************************************************************)
EXTENDS SequenceTrackerAtomics, Wire, Router, Integers, FiniteSetTheorems, TLAPS

-----------------------------------------------------------------------------
(***************************************************************************)
(* Proof that the frames of pkg/wire/frame.go survive encoding and         *)
(* decoding, for every even base, every 64-bit number and time, every      *)
(* payload that fits, and whatever follows in the buffer.                  *)
(***************************************************************************)

-----------------------------------------------------------------------------
(* Numbers as digits                                                        *)

\* A number is its lowest digit and the rest.
LEMMA Division ==
    ASSUME NEW n \in Nat
    PROVE  /\ Lo(n) \in Byte /\ Hi(n) \in Nat /\ n = Lo(n) + Base * Hi(n)
    BY WireAssumption DEF Lo, Hi, Byte

\* Each digit that is split off brings the rest down by a factor Base.
LEMMA HiBound ==
    ASSUME NEW n \in Nat, NEW m \in Nat, n < Base * m
    PROVE  Hi(n) < m
<1>0. Base \in Nat /\ Base >= 2
    BY WireAssumption
<1>1. Hi(n) \in Nat /\ n >= Base * Hi(n)
  <2> DEFINE h == Hi(n)
             l == Lo(n)
  <2>1. l \in 0 .. Base - 1 /\ h \in Nat /\ n = l + Base * h
      BY Division DEF Byte
  <2> HIDE DEF h, l
  <2>2. h \in Nat /\ n >= Base * h
      BY <1>0, <2>1
  <2> QED
      BY <2>2 DEF h
<1>2. ASSUME Hi(n) >= m PROVE FALSE
  <2>1. Base * Hi(n) >= Base * m
      BY <1>0, <1>1, <1>2
  <2> QED
      BY <1>0, <1>1, <2>1
<1> QED
    BY <1>1, <1>2

Hi4(n) == Hi(Hi(Hi(Hi(n))))

\* The bytes of PutUint32 and what is above them make up the number.
LEMMA FourDigits ==
    ASSUME NEW n \in Nat
    PROVE  /\ PutUint32(n) \in Seq(Byte) /\ Len(PutUint32(n)) = 4 /\ Hi4(n) \in Nat
           /\ Below(PutUint32(n), 1, Hi4(n)) = n
<1>1. Hi(n) \in Nat /\ Hi(Hi(n)) \in Nat /\ Hi(Hi(Hi(n))) \in Nat /\ Hi4(n) \in Nat
    BY Division DEF Hi4
<1> DEFINE d1 == Lo(n)
           d2 == Lo(Hi(n))
           d3 == Lo(Hi(Hi(n)))
           d4 == Lo(Hi(Hi(Hi(n))))
<1>2. d1 \in Byte /\ d2 \in Byte /\ d3 \in Byte /\ d4 \in Byte
    BY <1>1, Division
<1>3. n = d1 + Base * (d2 + Base * (d3 + Base * (d4 + Base * Hi4(n))))
  <2>1. n = d1 + Base * Hi(n)
      BY Division
  <2>2. Hi(n) = d2 + Base * Hi(Hi(n))
      BY <1>1, Division
  <2>3. Hi(Hi(n)) = d3 + Base * Hi(Hi(Hi(n)))
      BY <1>1, Division
  <2>4. Hi(Hi(Hi(n))) = d4 + Base * Hi4(n)
      BY <1>1, Division DEF Hi4
  <2> QED
      BY <2>1, <2>2, <2>3, <2>4, Zenon
<1>4. PutUint32(n) = <<d1, d2, d3, d4>>
    BY Zenon DEF PutUint32
<1> HIDE DEF d1, d2, d3, d4
<1>5. <<d1, d2, d3, d4>> \in Seq(Byte) /\ Len(<<d1, d2, d3, d4>>) = 4
    BY <1>2
<1>6. Below(<<d1, d2, d3, d4>>, 1, Hi4(n)) = n
  <2>1. /\ <<d1, d2, d3, d4>>[1] = d1 /\ <<d1, d2, d3, d4>>[1 + 1] = d2
        /\ <<d1, d2, d3, d4>>[1 + 2] = d3 /\ <<d1, d2, d3, d4>>[1 + 3] = d4
      OBVIOUS
  <2> QED
      BY <1>3, <2>1, Zenon DEF Below
<1> QED
    BY <1>1, <1>4, <1>5, <1>6, Zenon

\* Nothing is above the four bytes of a 32-bit number.
LEMMA NothingAbove32 ==
    ASSUME NEW n \in Nat, NEW m \in Nat, n < Base * (Base * (Base * (Base * m)))
    PROVE  Hi4(n) < m /\ Hi4(n) \in Nat
<1>1. Base \in Nat
    BY WireAssumption
<1>2. Base * m \in Nat /\ Base * (Base * m) \in Nat /\ Base * (Base * (Base * m)) \in Nat
    BY <1>1
<1>3. Hi(n) \in Nat /\ Hi(Hi(n)) \in Nat /\ Hi(Hi(Hi(n))) \in Nat /\ Hi4(n) \in Nat
    BY Division DEF Hi4
<1>4. Hi(n) < Base * (Base * (Base * m))
    BY <1>2, HiBound
<1>5. Hi(Hi(n)) < Base * (Base * m)
    BY <1>2, <1>3, <1>4, HiBound
<1>6. Hi(Hi(Hi(n))) < Base * m
    BY <1>2, <1>3, <1>5, HiBound
<1> QED
    BY <1>3, <1>6, HiBound DEF Hi4

\* The powers of the base.
LEMMA Powers ==
    /\ Two32 = Base * (Base * (Base * (Base * 1))) /\ Two32 \in Nat
    /\ Two63 \in Nat
    /\ Two64 = Base * (Base * (Base * (Base * Two32))) /\ Two64 = 2 * Two63
<1>1. Base \in Nat /\ 2 * (Base \div 2) = Base /\ Base \div 2 \in Nat
    BY WireAssumption
<1>2. Two32 = Base * (Base * (Base * (Base * 1))) /\ Two32 \in Nat
    BY <1>1 DEF Two32
<1> DEFINE h == Base \div 2
           x == Base * (Base * (Base * Two32))
<1>3. x \in Nat
    BY <1>1, <1>2
<1>4. Two63 = h * x /\ Two64 = 2 * (h * x)
    BY DEF Two63, Two64
<1> HIDE DEF h, x
<1>5. 2 * h = Base /\ h \in Nat
    BY <1>1 DEF h
<1>6. 2 * (h * x) = (2 * h) * x /\ h * x \in Nat
    BY <1>3, <1>5
<1> QED
    BY <1>2, <1>4, <1>5, <1>6 DEF x, Two64

-----------------------------------------------------------------------------
(* Fields                                                                   *)

\* The four bytes d are at i in b.
Field(b, i, d) == b[i] = d[1] /\ b[i + 1] = d[2] /\ b[i + 2] = d[3] /\ b[i + 3] = d[4]

\* A field stays where it is when bytes follow, and moves when bytes precede.
LEMMA FieldBefore ==
    ASSUME NEW x \in Seq(Byte), NEW y \in Seq(Byte), NEW d, NEW i \in Nat,
           1 <= i, i + 3 <= Len(x), Field(x, i, d)
    PROVE  Field(x \o y, i, d)
    BY DEF Field

LEMMA FieldAfter ==
    ASSUME NEW x \in Seq(Byte), NEW y \in Seq(Byte), NEW d, NEW i \in Nat,
           1 <= i, i + 3 <= Len(y), Field(y, i, d)
    PROVE  Field(x \o y, Len(x) + i, d)
    BY DEF Field

LEMMA FieldRead ==
    ASSUME NEW b, NEW i \in Nat, NEW d, NEW rest, Field(b, i, d)
    PROVE  Below(b, i, rest) = Below(d, 1, rest)
<1>1. 1 + 1 = 2 /\ 1 + 2 = 3 /\ 1 + 3 = 4
    OBVIOUS
<1> QED
    BY <1>1, Zenon DEF Field, Below

LEMMA FieldItself ==
    ASSUME NEW d
    PROVE  Field(d, 1, d)
<1>1. 1 + 1 = 2 /\ 1 + 2 = 3 /\ 1 + 3 = 4
    OBVIOUS
<1> QED
    BY <1>1, Zenon DEF Field

LEMMA Lengths ==
    ASSUME NEW x \in Seq(Byte), NEW y \in Seq(Byte)
    PROVE  x \o y \in Seq(Byte) /\ Len(x \o y) = Len(x) + Len(y)
    OBVIOUS

LEMMA Elements ==
    ASSUME NEW x \in Seq(Byte), NEW y \in Seq(Byte)
    PROVE  /\ \A j \in 1 .. Len(x) : (x \o y)[j] = x[j]
           /\ \A j \in 1 .. Len(y) : (x \o y)[Len(x) + j] = y[j]
    OBVIOUS

\* What follows the first m of the bytes.
LEMMA Slice ==
    ASSUME NEW b \in Seq(Byte), NEW m \in Nat, NEW n \in Nat, m + n <= Len(b)
    PROVE  /\ SubSeq(b, m + 1, m + n) \in Seq(Byte) /\ Len(SubSeq(b, m + 1, m + n)) = n
           /\ \A j \in 1 .. n : SubSeq(b, m + 1, m + n)[j] = b[m + j]
    OBVIOUS

\* A field within the first and within the second of two sequences of bytes.
LEMMA Halves ==
    ASSUME NEW x \in Seq(Byte), NEW y \in Seq(Byte), Len(x) = 4, Len(y) = 4
    PROVE  /\ x \o y \in Seq(Byte) /\ Len(x \o y) = 8
           /\ Field(x \o y, 1, x) /\ Field(x \o y, 5, y)
<1>1. 1 \in Nat /\ 1 <= 1 /\ 1 + 3 <= 4 /\ 4 + 1 = 5 /\ 4 + 4 = 8
    OBVIOUS
<1>2. Field(x, 1, x) /\ Field(y, 1, y)
    BY FieldItself, Zenon
<1>3. Field(x \o y, 1, x)
    BY <1>1, <1>2, FieldBefore, Zenon
<1>4. Field(x \o y, Len(x) + 1, y)
    BY <1>1, <1>2, FieldAfter, Zenon
<1> QED
    BY <1>1, <1>3, <1>4, Lengths, Zenon

\* The first twelve bytes of a header, and the last.
LEMMA FirstHalf ==
    ASSUME NEW g \in Seq(Byte), NEW s1 \in Seq(Byte), NEW s2 \in Seq(Byte),
           Len(g) = 4, Len(s1) = 4, Len(s2) = 4
    PROVE  /\ g \o (s1 \o s2) \in Seq(Byte) /\ Len(g \o (s1 \o s2)) = 12
           /\ Field(g \o (s1 \o s2), 1, g)
           /\ Field(g \o (s1 \o s2), 5, s1) /\ Field(g \o (s1 \o s2), 9, s2)
<1> DEFINE q == s1 \o s2
<1>1. q \in Seq(Byte) /\ Len(q) = 8 /\ Field(q, 1, s1) /\ Field(q, 5, s2)
    BY Halves, Zenon
<1> HIDE DEF q
<1>2. /\ 1 \in Nat /\ 5 \in Nat /\ 1 <= 1 /\ 1 <= 5 /\ 1 + 3 <= 4 /\ 1 + 3 <= 8 /\ 5 + 3 <= 8
      /\ 4 + 1 = 5 /\ 4 + 5 = 9 /\ 4 + 8 = 12
    OBVIOUS
<1>3. Field(g \o q, 1, g)
    BY <1>1, <1>2, FieldBefore, FieldItself, Zenon
<1>4. Field(g \o q, Len(g) + 1, s1)
    BY <1>1, <1>2, FieldAfter, Zenon
<1>5. Field(g \o q, Len(g) + 5, s2)
    BY <1>1, <1>2, FieldAfter, Zenon
<1>6. g \o q \in Seq(Byte) /\ Len(g \o q) = 12
    BY <1>1, <1>2, Lengths, Zenon
<1> QED
    BY <1>2, <1>3, <1>4, <1>5, <1>6, Zenon DEF q

LEMMA SecondHalf ==
    ASSUME NEW n1 \in Seq(Byte), NEW n2 \in Seq(Byte), NEW p \in Seq(Byte),
           Len(n1) = 4, Len(n2) = 4, Len(p) = 4
    PROVE  /\ (n1 \o n2) \o p \in Seq(Byte) /\ Len((n1 \o n2) \o p) = 12
           /\ Field((n1 \o n2) \o p, 1, n1) /\ Field((n1 \o n2) \o p, 5, n2)
           /\ Field((n1 \o n2) \o p, 9, p)
<1> DEFINE q == n1 \o n2
<1>1. q \in Seq(Byte) /\ Len(q) = 8 /\ Field(q, 1, n1) /\ Field(q, 5, n2)
    BY Halves, Zenon
<1> HIDE DEF q
<1>2. /\ 1 \in Nat /\ 5 \in Nat /\ 1 <= 1 /\ 1 <= 5 /\ 1 + 3 <= 4 /\ 1 + 3 <= 8 /\ 5 + 3 <= 8
      /\ 8 + 1 = 9 /\ 8 + 4 = 12
    OBVIOUS
<1>3. Field(q \o p, 1, n1)
    BY <1>1, <1>2, FieldBefore, Zenon
<1>4. Field(q \o p, 5, n2)
    BY <1>1, <1>2, FieldBefore, Zenon
<1>5. Field(q \o p, Len(q) + 1, p)
    BY <1>1, <1>2, FieldAfter, FieldItself, Zenon
<1>6. q \o p \in Seq(Byte) /\ Len(q \o p) = 12
    BY <1>1, <1>2, Lengths, Zenon
<1> QED
    BY <1>1, <1>2, <1>3, <1>4, <1>5, <1>6, Zenon DEF q

\* The fields of a header are where they belong.
HasHeader(b, seq, ns, plen) ==
    /\ Field(b, 1, PutUint32(Magic))
    /\ Field(b, 5, PutUint32(seq)) /\ Field(b, 9, PutUint32(Hi4(seq)))
    /\ Field(b, 13, PutUint32(uint64(ns))) /\ Field(b, 17, PutUint32(Hi4(uint64(ns))))
    /\ Field(b, 21, PutUint32(plen))

LEMMA HeaderFields ==
    ASSUME NEW seq \in Nat, NEW ns \in Int, NEW plen \in Nat, uint64(ns) \in Nat
    PROVE  LET h == Header(seq, ns, plen) IN
           /\ h \in Seq(Byte) /\ Len(h) = 24
           /\ HasHeader(h, seq, ns, plen)
<1> DEFINE g == PutUint32(Magic)
           s1 == PutUint32(seq)
           s2 == PutUint32(Hi4(seq))
           n1 == PutUint32(uint64(ns))
           n2 == PutUint32(Hi4(uint64(ns)))
           p == PutUint32(plen)
           m == g \o (s1 \o s2)
           t == (n1 \o n2) \o p
           h == Header(seq, ns, plen)
<1>1. Two32 \in Nat
    BY Powers
<1>2. Magic \in Nat
    BY <1>1, WireAssumption
<1>3. Hi4(seq) \in Nat /\ Hi4(uint64(ns)) \in Nat
    BY FourDigits, Zenon
<1>4. /\ g \in Seq(Byte) /\ s1 \in Seq(Byte) /\ s2 \in Seq(Byte)
      /\ n1 \in Seq(Byte) /\ n2 \in Seq(Byte) /\ p \in Seq(Byte)
      /\ Len(g) = 4 /\ Len(s1) = 4 /\ Len(s2) = 4 /\ Len(n1) = 4 /\ Len(n2) = 4 /\ Len(p) = 4
    BY <1>2, <1>3, FourDigits, Zenon
<1>5. h = m \o t
    BY Zenon DEF Header, PutUint64, Hi4
<1> HIDE DEF g, s1, s2, n1, n2, p, h
<1>6. m \in Seq(Byte) /\ Len(m) = 12 /\ Field(m, 1, g) /\ Field(m, 5, s1) /\ Field(m, 9, s2)
    BY <1>4, FirstHalf, Zenon
<1>7. t \in Seq(Byte) /\ Len(t) = 12 /\ Field(t, 1, n1) /\ Field(t, 5, n2) /\ Field(t, 9, p)
    BY <1>4, SecondHalf, Zenon
<1> HIDE DEF m, t
<1>8. /\ 1 \in Nat /\ 5 \in Nat /\ 9 \in Nat /\ 1 <= 1 /\ 1 <= 5 /\ 1 <= 9
      /\ 1 + 3 <= 12 /\ 5 + 3 <= 12 /\ 9 + 3 <= 12
      /\ 12 + 1 = 13 /\ 12 + 5 = 17 /\ 12 + 9 = 21 /\ 12 + 12 = 24
    OBVIOUS
<1>9. Field(m \o t, 1, g) /\ Field(m \o t, 5, s1) /\ Field(m \o t, 9, s2)
    BY <1>6, <1>7, <1>8, FieldBefore, Zenon
<1>10. Field(m \o t, Len(m) + 1, n1) /\ Field(m \o t, Len(m) + 5, n2) /\ Field(m \o t, Len(m) + 9, p)
    BY <1>6, <1>7, <1>8, FieldAfter, Zenon
<1>11. m \o t \in Seq(Byte) /\ Len(m \o t) = 24
    BY <1>6, <1>7, <1>8, Lengths, Zenon
<1> QED
    BY <1>5, <1>6, <1>8, <1>9, <1>10, <1>11, Zenon DEF HasHeader, g, s1, s2, n1, n2, p, h

-----------------------------------------------------------------------------
(* Reading                                                                  *)

LEMMA Read32 ==
    ASSUME NEW n \in Nat, n < Two32, NEW b, NEW i \in Nat, Field(b, i, PutUint32(n))
    PROVE  Uint32(b, i) = n
<1>1. Hi4(n) = 0
  <2>1. 1 \in Nat /\ n < Base * (Base * (Base * (Base * 1)))
      BY Powers, Zenon
  <2>2. Hi4(n) < 1 /\ Hi4(n) \in Nat
      BY <2>1, NothingAbove32, Zenon
  <2> QED
      BY <2>2
<1>2. Below(PutUint32(n), 1, Hi4(n)) = n
    BY FourDigits, Zenon
<1>3. Uint32(b, i) = Below(PutUint32(n), 1, 0)
  <2>1. Below(b, i, 0) = Below(PutUint32(n), 1, 0)
      BY FieldRead
  <2> QED
      BY <2>1, Zenon DEF Uint32
<1> QED
    BY <1>1, <1>2, <1>3, Zenon

LEMMA Read64 ==
    ASSUME NEW n \in Nat, n < Two64, NEW b, NEW i \in Nat,
           Field(b, i, PutUint32(n)), Field(b, i + 4, PutUint32(Hi4(n)))
    PROVE  Uint64(b, i) = n
<1>1. Hi4(n) \in Nat /\ Hi4(n) < Two32
  <2>1. Two32 \in Nat /\ n < Base * (Base * (Base * (Base * Two32)))
      BY Powers, Zenon
  <2> QED
      BY <2>1, NothingAbove32, Zenon
<1>2. i + 4 \in Nat
    OBVIOUS
<1>3. Below(b, i + 4, 0) = Hi4(n)
    BY <1>1, <1>2, Read32, Zenon DEF Uint32
<1>4. Uint64(b, i) = Below(PutUint32(n), 1, Hi4(n))
  <2>1. Below(b, i, Hi4(n)) = Below(PutUint32(n), 1, Hi4(n))
      BY FieldRead
  <2> QED
      BY <1>3, <2>1, Zenon DEF Uint64
<1> QED
    BY <1>4, FourDigits, Zenon

\* Two's complement: no time is lost on the way to uint64 and back.
LEMMA Signs ==
    ASSUME NEW ns \in -Two63 .. Two63 - 1
    PROVE  /\ uint64(ns) \in Nat /\ uint64(ns) < Two64
           /\ int64(uint64(ns)) = ns
    BY Powers DEF uint64, int64

\* What Decode and DecodeHeader make of a buffer that begins with a header.
LEMMA DecodeHasHeader ==
    ASSUME NEW b \in Seq(Byte), Len(b) >= HeaderLen, NEW seq \in Nat, seq < Two64,
           NEW ns \in -Two63 .. Two63 - 1, NEW plen \in Nat, plen < Two32,
           HasHeader(b, seq, ns, plen)
    PROVE  /\ Decode(b) =
                IF plen > MaxPayload THEN Failed("ErrPayloadTooLarge")
                ELSE IF Overflows(HeaderLen + plen, b) THEN Failed("ErrPayloadOverflow")
                ELSE [err |-> "", total |-> HeaderLen + plen, SeqNum |-> seq, SendNs |-> ns,
                      PayloadLen |-> plen, Payload |-> SubSeq(b, HeaderLen + 1, HeaderLen + plen)]
           /\ DecodeHeader(b) = [err |-> "", SeqNum |-> seq, SendNs |-> ns, PayloadLen |-> plen]
<1>1. /\ 1 \in Nat /\ 5 \in Nat /\ 13 \in Nat /\ 21 \in Nat /\ 5 + 4 = 9 /\ 13 + 4 = 17
      /\ Two32 \in Nat /\ ~(Len(b) < HeaderLen)
    BY Powers DEF HeaderLen
<1>2. Magic \in Nat /\ Magic < Two32
    BY <1>1, WireAssumption
<1>3. Uint32(b, 1) = Magic
    BY <1>1, <1>2, Read32, Zenon DEF HasHeader
<1>4. Uint64(b, 5) = seq
  <2>1. Field(b, 5, PutUint32(seq)) /\ Field(b, 5 + 4, PutUint32(Hi4(seq)))
      BY <1>1, Zenon DEF HasHeader
  <2> QED
      BY <1>1, <2>1, Read64
<1>5. uint64(ns) \in Nat /\ uint64(ns) < Two64 /\ int64(uint64(ns)) = ns
    BY Signs, Zenon
<1>6. int64(Uint64(b, 13)) = ns
  <2>1. Field(b, 13, PutUint32(uint64(ns))) /\ Field(b, 13 + 4, PutUint32(Hi4(uint64(ns))))
      BY <1>1, Zenon DEF HasHeader
  <2>2. Uint64(b, 13) = uint64(ns)
      BY <1>1, <1>5, <2>1, Read64
  <2> QED
      BY <1>5, <2>2, Zenon
<1>7. Uint32(b, 21) = plen
    BY <1>1, Read32, Zenon DEF HasHeader
<1>8. Decode(b) =
        IF plen > MaxPayload THEN Failed("ErrPayloadTooLarge")
        ELSE IF Overflows(HeaderLen + plen, b) THEN Failed("ErrPayloadOverflow")
        ELSE [err |-> "", total |-> HeaderLen + plen, SeqNum |-> seq, SendNs |-> ns,
              PayloadLen |-> plen, Payload |-> SubSeq(b, HeaderLen + 1, HeaderLen + plen)]
    BY <1>1, <1>3, <1>4, <1>6, <1>7, Zenon DEF Decode
<1>9. DecodeHeader(b) = [err |-> "", SeqNum |-> seq, SendNs |-> ns, PayloadLen |-> plen]
    BY <1>1, <1>3, <1>4, <1>6, <1>7, Zenon DEF DecodeHeader
<1> QED
    BY <1>8, <1>9, Zenon

-----------------------------------------------------------------------------
(* Frames                                                                   *)

\* The header lies in any bytes that begin like it.
LEMMA SameBytes ==
    ASSUME NEW b, NEW h, \A j \in 1 .. 24 : b[j] = h[j],
           NEW seq, NEW ns, NEW plen, HasHeader(h, seq, ns, plen)
    PROVE  HasHeader(b, seq, ns, plen)
<1>1. \A i \in {1, 5, 9, 13, 17, 21} : \A d : Field(h, i, d) => Field(b, i, d)
  <2> SUFFICES ASSUME NEW i \in {1, 5, 9, 13, 17, 21}, NEW d, Field(h, i, d)
               PROVE  Field(b, i, d)
      OBVIOUS
  <2>1. i \in 1 .. 24 /\ i + 1 \in 1 .. 24 /\ i + 2 \in 1 .. 24 /\ i + 3 \in 1 .. 24
      OBVIOUS
  <2> QED
      BY <2>1, Zenon DEF Field
<1>2. /\ 1 \in {1, 5, 9, 13, 17, 21} /\ 5 \in {1, 5, 9, 13, 17, 21} /\ 9 \in {1, 5, 9, 13, 17, 21}
      /\ 13 \in {1, 5, 9, 13, 17, 21} /\ 17 \in {1, 5, 9, 13, 17, 21} /\ 21 \in {1, 5, 9, 13, 17, 21}
    OBVIOUS
<1> QED
    BY <1>1, <1>2, Zenon DEF HasHeader

\* A frame is its header and its payload.
LEMMA EncodeBytes ==
    ASSUME NEW seq \in Nat, NEW ns \in -Two63 .. Two63 - 1, NEW payload \in Seq(Byte)
    PROVE  LET e == Encode(seq, ns, payload)
               h == Header(seq, ns, Len(payload)) IN
           /\ e \in Seq(Byte) /\ Len(e) = 24 + Len(payload)
           /\ HasHeader(h, seq, ns, Len(payload))
           /\ \A j \in 1 .. 24 : e[j] = h[j]
           /\ \A j \in 1 .. Len(payload) : e[24 + j] = payload[j]
<1> DEFINE h == Header(seq, ns, Len(payload))
<1>1. uint64(ns) \in Nat /\ ns \in Int /\ Len(payload) \in Nat
    BY Signs, Powers
<1>2. h \in Seq(Byte) /\ Len(h) = 24 /\ HasHeader(h, seq, ns, Len(payload))
    BY <1>1, HeaderFields, Zenon
<1>3. Encode(seq, ns, payload) = h \o payload
    BY Zenon DEF Encode
<1> HIDE DEF h
<1>4. h \o payload \in Seq(Byte) /\ Len(h \o payload) = Len(h) + Len(payload)
    BY <1>2, Lengths, Zenon
<1>5. /\ \A j \in 1 .. Len(h) : (h \o payload)[j] = h[j]
      /\ \A j \in 1 .. Len(payload) : (h \o payload)[Len(h) + j] = payload[j]
    BY <1>2, Elements, Zenon
<1> QED
    BY <1>2, <1>3, <1>4, <1>5, Zenon DEF h

\* A buffer that begins with a frame decodes to it, if the frame is all there.
LEMMA DecodeFrame ==
    ASSUME NEW b \in Seq(Byte), NEW seq \in Nat, seq < Two64, NEW ns \in -Two63 .. Two63 - 1,
           NEW payload \in Seq(Byte), Len(payload) < Two32,
           Len(b) >= 24 + Len(payload),
           \A j \in 1 .. 24 + Len(payload) : b[j] = Encode(seq, ns, payload)[j]
    PROVE  /\ Decode(b) = IF Len(payload) <= MaxPayload
                          THEN [err |-> "", total |-> HeaderLen + Len(payload), SeqNum |-> seq, SendNs |-> ns,
                                PayloadLen |-> Len(payload), Payload |-> payload]
                          ELSE Failed("ErrPayloadTooLarge")
           /\ DecodeHeader(b) = [err |-> "", SeqNum |-> seq, SendNs |-> ns, PayloadLen |-> Len(payload)]
<1> DEFINE e == Encode(seq, ns, payload)
           h == Header(seq, ns, Len(payload))
           n == Len(payload)
<1>1. /\ HasHeader(h, seq, ns, n)
      /\ \A j \in 1 .. 24 : e[j] = h[j]
      /\ \A j \in 1 .. n : e[24 + j] = payload[j]
    BY EncodeBytes, Zenon
<1>2. n \in Nat /\ n < Two32 /\ Len(b) >= 24 + n /\ \A j \in 1 .. 24 + n : b[j] = e[j]
    OBVIOUS
<1> HIDE DEF e, h
<1>3. HasHeader(b, seq, ns, n)
  <2>1. \A j \in 1 .. 24 : j \in 1 .. 24 + n
      BY <1>2
  <2>2. \A j \in 1 .. 24 : b[j] = h[j]
      BY <1>1, <1>2, <2>1, Zenon
  <2> QED
      BY <1>1, <2>2, SameBytes, Zenon
<1>4. SubSeq(b, 24 + 1, 24 + n) = payload
  <2>1. \A j \in 1 .. n : b[24 + j] = payload[j]
    <3>1. \A j \in 1 .. n : 24 + j \in 1 .. 24 + n
        BY <1>2
    <3> QED
        BY <1>1, <1>2, <3>1, Zenon
  <2>2. 24 \in Nat /\ 24 + n <= Len(b)
      BY <1>2
  <2> DEFINE q == SubSeq(b, 24 + 1, 24 + n)
  <2>3. q \in Seq(Byte) /\ Len(q) = n /\ \A j \in 1 .. n : q[j] = b[24 + j]
      BY <1>2, <2>2, Slice, Zenon
  <2> HIDE DEF q
  <2>4. \A j \in 1 .. n : q[j] = payload[j]
      BY <2>1, <2>3, Zenon
  <2>5. q = payload
    <3>1. q = [j \in 1 .. n |-> q[j]] /\ payload = [j \in 1 .. n |-> payload[j]]
        BY <2>3
    <3> QED
        BY <2>4, <3>1, Zenon
  <2> QED
      BY <2>5 DEF q
<1>5. Len(b) >= HeaderLen /\ ~Overflows(HeaderLen + n, b) /\ HeaderLen = 24
    BY <1>2 DEF Overflows, HeaderLen
<1>6. n > MaxPayload <=> ~(n <= MaxPayload)
  <2>1. Two32 \in Nat /\ MaxPayload \in 0 .. Two32 - 1
      BY Powers, WireAssumption, Zenon
  <2> QED
      BY <1>2, <2>1
<1>7. n \in Nat /\ n < Two32 /\ Len(b) >= HeaderLen
    BY <1>2, <1>5, Zenon
<1> HIDE DEF n
<1>8. /\ Decode(b) =
            IF n > MaxPayload THEN Failed("ErrPayloadTooLarge")
            ELSE IF Overflows(HeaderLen + n, b) THEN Failed("ErrPayloadOverflow")
            ELSE [err |-> "", total |-> HeaderLen + n, SeqNum |-> seq, SendNs |-> ns,
                  PayloadLen |-> n, Payload |-> SubSeq(b, HeaderLen + 1, HeaderLen + n)]
      /\ DecodeHeader(b) = [err |-> "", SeqNum |-> seq, SendNs |-> ns, PayloadLen |-> n]
    BY <1>3, <1>7, DecodeHasHeader, Zenon
<1>9. SubSeq(b, HeaderLen + 1, HeaderLen + n) = payload
    BY <1>4, <1>5, Zenon
<1> QED
    BY <1>5, <1>6, <1>8, <1>9, Zenon DEF n

\* A frame that is cut short is refused.
LEMMA DecodeCut ==
    ASSUME NEW b \in Seq(Byte), NEW seq \in Nat, seq < Two64, NEW ns \in -Two63 .. Two63 - 1,
           NEW payload \in Seq(Byte), Len(payload) < Two32,
           Len(b) < 24 + Len(payload),
           \A j \in 1 .. Len(b) : b[j] = Encode(seq, ns, payload)[j]
    PROVE  Decode(b).err # ""
<1> DEFINE e == Encode(seq, ns, payload)
           h == Header(seq, ns, Len(payload))
           n == Len(payload)
<1>1. /\ Failed("ErrBufferTooShort").err # "" /\ Failed("ErrPayloadTooLarge").err # ""
      /\ Failed("ErrPayloadOverflow").err # ""
    BY DEF Failed
<1>2. CASE Len(b) < HeaderLen
  <2>1. Decode(b) = Failed("ErrBufferTooShort")
      BY <1>2, Zenon DEF Decode
  <2> QED
      BY <1>1, <2>1, Zenon
<1>3. CASE ~(Len(b) < HeaderLen)
  <2>1. /\ HasHeader(h, seq, ns, n) /\ \A j \in 1 .. 24 : e[j] = h[j]
      BY EncodeBytes, Zenon
  <2>2. n \in Nat /\ Len(b) \in Nat /\ Len(b) >= HeaderLen /\ n < Two32
      BY <1>3 DEF HeaderLen
  <2>3. Overflows(HeaderLen + n, b)
      BY <2>2 DEF Overflows, HeaderLen
  <2>4. \A j \in 1 .. 24 : j \in 1 .. Len(b)
      BY <2>2 DEF HeaderLen
  <2>5. \A j \in 1 .. 24 : b[j] = h[j]
      BY <2>1, <2>4, Zenon
  <2>6. HasHeader(b, seq, ns, n)
      BY <2>1, <2>5, SameBytes, Zenon
  <2> HIDE DEF e, h, n
  <2>7. /\ Decode(b) =
              IF n > MaxPayload THEN Failed("ErrPayloadTooLarge")
              ELSE IF Overflows(HeaderLen + n, b) THEN Failed("ErrPayloadOverflow")
              ELSE [err |-> "", total |-> HeaderLen + n, SeqNum |-> seq, SendNs |-> ns,
                    PayloadLen |-> n, Payload |-> SubSeq(b, HeaderLen + 1, HeaderLen + n)]
        /\ DecodeHeader(b) = [err |-> "", SeqNum |-> seq, SendNs |-> ns, PayloadLen |-> n]
      BY <2>2, <2>6, DecodeHasHeader, Zenon
  <2>8. Decode(b) = Failed("ErrPayloadTooLarge") \/ Decode(b) = Failed("ErrPayloadOverflow")
      BY <2>3, <2>7, Zenon
  <2> QED
      BY <1>1, <2>8, Zenon
<1> QED
    BY <1>2, <1>3, Zenon

-----------------------------------------------------------------------------
(* Batches                                                                  *)

FrameOf == [at : Nat, seq : SeqNums, sendNs : Times, payload : Payloads]

Bytes(f) == Encode(f.seq, f.sendNs, f.payload)

\* Where the frame after frame i of ba begins, or the buffer b ends.
Ends(b, ba, i) == IF i = Len(ba) THEN Len(b) ELSE ba[i + 1].at

\* Frame i of ba lies in b where it says.
Lies(b, ba, i) ==
    /\ ba[i].at + (24 + Len(ba[i].payload)) = Ends(b, ba, i)
    /\ ba[i].at + (24 + Len(ba[i].payload)) <= Len(b)
    /\ \A j \in 1 .. 24 + Len(ba[i].payload) : b[ba[i].at + j] = Bytes(ba[i])[j]

\* The inductive invariant.
WireInv ==
    /\ buf \in Seq(Byte) /\ batch \in Seq(FrameOf)
    /\ \A i \in DOMAIN batch : Lies(buf, batch, i)

LEMMA FrameTypes ==
    ASSUME NEW f \in FrameOf
    PROVE  /\ f.at \in Nat /\ f.seq \in Nat /\ f.seq < Two64 /\ f.sendNs \in -Two63 .. Two63 - 1
           /\ f.payload \in Seq(Byte) /\ Len(f.payload) \in Nat /\ Len(f.payload) < Two32
<1>1. f.at \in Nat /\ f.seq \in SeqNums /\ f.sendNs \in Times /\ f.payload \in Payloads
    BY DEF FrameOf
<1>2. f.seq \in 0 .. Two64 - 1 /\ f.sendNs \in -Two63 .. Two63 - 1
    BY <1>1, WireAssumption, Zenon
<1>3. f.payload \in Seq(Byte) /\ Len(f.payload) < Two32
    BY <1>1, WireAssumption, Zenon
<1>4. Two64 \in Nat
    BY Powers
<1>5. f.seq \in Nat /\ f.seq < Two64
    BY <1>2, <1>4
<1>6. Len(f.payload) \in Nat
    BY <1>3
<1> QED
    BY <1>1, <1>2, <1>3, <1>5, <1>6, Zenon

\* What Decode makes of the frames of a batch.
LEMMA InvRoundTrip == WireInv => FramesRoundTrip
<1> SUFFICES ASSUME WireInv, NEW i \in DOMAIN batch
             PROVE  LET f == batch[i]
                        total == HeaderLen + Len(f.payload) IN
                    /\ Decode(From(f)) = IF Len(f.payload) <= MaxPayload THEN Decoded(f)
                                         ELSE Failed("ErrPayloadTooLarge")
                    /\ f.at + total = (IF i = Len(batch) THEN Len(buf) ELSE batch[i + 1].at)
                    /\ \A n \in 0 .. total - 1 : Decode(SubSeq(From(f), 1, n)).err # ""
                    /\ DecodeHeader(From(f)).SeqNum = f.seq /\ DecodeHeader(From(f)).SendNs = f.sendNs
    BY Zenon DEF FramesRoundTrip
<1> DEFINE f == batch[i]
           total == 24 + Len(f.payload)
           rest == Len(buf) - f.at
           b == SubSeq(buf, f.at + 1, f.at + rest)
<1>1. f \in FrameOf
    BY DEF WireInv
<1>2. /\ f.at \in Nat /\ f.seq \in Nat /\ f.seq < Two64 /\ f.sendNs \in -Two63 .. Two63 - 1
      /\ f.payload \in Seq(Byte) /\ Len(f.payload) \in Nat /\ Len(f.payload) < Two32
    BY <1>1, FrameTypes, Zenon
<1>3. Lies(buf, batch, i) /\ buf \in Seq(Byte)
    BY Zenon DEF WireInv
<1>4. /\ f.at + total = Ends(buf, batch, i) /\ f.at + total <= Len(buf)
      /\ \A j \in 1 .. total : buf[f.at + j] = Bytes(f)[j]
    BY <1>3, Zenon DEF Lies
<1> HIDE DEF f
<1>5. total \in Nat /\ rest \in Nat /\ rest >= total /\ f.at + rest <= Len(buf) /\ f.at + rest = Len(buf)
  <2>1. Len(buf) \in Nat
      BY <1>3
  <2> HIDE DEF f
  <2> QED
      BY <1>2, <1>4, <2>1
<1>6. b \in Seq(Byte) /\ Len(b) = rest /\ \A j \in 1 .. rest : b[j] = buf[f.at + j]
    BY <1>2, <1>3, <1>5, Slice, Zenon
<1>7. From(f) = b
    BY <1>5, Zenon DEF From
<1> HIDE DEF b, rest
<1>8. \A j \in 1 .. total : b[j] = Encode(f.seq, f.sendNs, f.payload)[j]
  <2>1. \A j \in 1 .. total : j \in 1 .. rest
      BY <1>5
  <2> QED
      BY <1>4, <1>6, <2>1, Zenon DEF Bytes
<1>9. Len(b) >= 24 + Len(f.payload)
    BY <1>5, <1>6
<1>10. /\ Decode(b) = IF Len(f.payload) <= MaxPayload
                      THEN [err |-> "", total |-> HeaderLen + Len(f.payload), SeqNum |-> f.seq,
                            SendNs |-> f.sendNs, PayloadLen |-> Len(f.payload), Payload |-> f.payload]
                      ELSE Failed("ErrPayloadTooLarge")
       /\ DecodeHeader(b) = [err |-> "", SeqNum |-> f.seq, SendNs |-> f.sendNs,
                             PayloadLen |-> Len(f.payload)]
    BY <1>2, <1>6, <1>8, <1>9, DecodeFrame, Zenon
<1>11. Decode(b) = IF Len(f.payload) <= MaxPayload THEN Decoded(f) ELSE Failed("ErrPayloadTooLarge")
    BY <1>10, Zenon DEF Decoded
<1>12. ASSUME NEW n \in 0 .. total - 1
       PROVE  Decode(SubSeq(b, 1, n)).err # ""
  <2> DEFINE c == SubSeq(b, 0 + 1, 0 + n)
  <2>1. n \in Nat /\ 0 \in Nat /\ 0 + n <= Len(b) /\ n < 24 + Len(f.payload) /\ 0 + n = n /\ 0 + 1 = 1
      BY <1>5, <1>6
  <2>2. c \in Seq(Byte) /\ Len(c) = n /\ \A j \in 1 .. n : c[j] = b[0 + j]
      BY <1>6, <2>1, Slice, Zenon
  <2>3. SubSeq(b, 1, n) = c
      BY <2>1, Zenon
  <2> HIDE DEF c
  <2>4. \A j \in 1 .. n : 0 + j = j /\ j \in 1 .. total
      BY <1>5
  <2>5. \A j \in 1 .. Len(c) : c[j] = Encode(f.seq, f.sendNs, f.payload)[j]
      BY <1>8, <2>2, <2>4, Zenon
  <2> QED
      BY <1>2, <2>1, <2>2, <2>3, <2>5, DecodeCut, Zenon
<1>13. DecodeHeader(b).SeqNum = f.seq /\ DecodeHeader(b).SendNs = f.sendNs
  <2> DEFINE r == [err |-> "", SeqNum |-> f.seq, SendNs |-> f.sendNs, PayloadLen |-> Len(f.payload)]
  <2>1. r.SeqNum = f.seq /\ r.SendNs = f.sendNs
      OBVIOUS
  <2>2. DecodeHeader(b) = r
      BY <1>10, Zenon
  <2> HIDE DEF r
  <2> QED
      BY <2>1, <2>2, Zenon
<1>14. HeaderLen = 24
    BY DEF HeaderLen
<1>15. f.at + total = (IF i = Len(batch) THEN Len(buf) ELSE batch[i + 1].at)
    BY <1>4, Zenon DEF Ends
<1> QED
    BY <1>7, <1>11, <1>12, <1>13, <1>14, <1>15, Zenon DEF f

\* Build adds a frame and moves none.
LEMMA BuildKeeps ==
    ASSUME WireInv, NEW seq \in SeqNums, NEW ns \in Times, NEW payload \in Payloads,
           Build(seq, ns, payload)
    PROVE  WireInv'
<1> DEFINE g == [at |-> Len(buf), seq |-> seq, sendNs |-> ns, payload |-> payload]
           e == Encode(seq, ns, payload)
           k == Len(batch)
<1>1. buf \in Seq(Byte) /\ batch \in Seq(FrameOf) /\ \A i \in DOMAIN batch : Lies(buf, batch, i)
    BY Zenon DEF WireInv
<1>2. buf' = buf \o e /\ batch' = Append(batch, g)
    BY Zenon DEF Build, EncodeAppend
<1>3. g \in FrameOf /\ g.at = Len(buf) /\ g.seq = seq /\ g.sendNs = ns /\ g.payload = payload
    BY <1>1 DEF FrameOf
<1>4. Bytes(g) = e
    BY <1>3, Zenon DEF Bytes
<1>5. seq \in Nat /\ ns \in -Two63 .. Two63 - 1 /\ payload \in Seq(Byte) /\ Len(payload) \in Nat
    BY <1>3, FrameTypes, Zenon
<1>6. e \in Seq(Byte) /\ Len(e) = 24 + Len(payload)
    BY <1>5, EncodeBytes, Zenon
<1> HIDE DEF g, e
<1>7. /\ buf' \in Seq(Byte) /\ Len(buf') = Len(buf) + Len(e)
      /\ \A j \in 1 .. Len(buf) : buf'[j] = buf[j]
      /\ \A j \in 1 .. Len(e) : buf'[Len(buf) + j] = e[j]
    BY <1>1, <1>2, <1>6, Lengths, Elements, Zenon
<1>8. /\ batch' \in Seq(FrameOf) /\ Len(batch') = k + 1 /\ batch'[k + 1] = g
      /\ \A i \in 1 .. k : batch'[i] = batch[i]
      /\ k \in Nat /\ DOMAIN batch = 1 .. k /\ DOMAIN batch' = 1 .. k + 1
    BY <1>1, <1>2, <1>3
<1>9. Len(buf) \in Nat /\ Len(buf') \in Nat
    BY <1>1, <1>7
<1>10. ASSUME NEW i \in 1 .. k
       PROVE  Lies(buf', batch', i)
  <2> DEFINE f == batch[i]
             n == 24 + Len(f.payload)
  <2>1. Lies(buf, batch, i) /\ f \in FrameOf /\ batch'[i] = f
      BY <1>1, <1>8
  <2>2. f.at \in Nat /\ Len(f.payload) \in Nat
      BY <2>1, FrameTypes, Zenon
  <2>3. /\ f.at + n = Ends(buf, batch, i) /\ f.at + n <= Len(buf)
        /\ \A j \in 1 .. n : buf[f.at + j] = Bytes(f)[j]
      BY <2>1, Zenon DEF Lies
  <2>4. Ends(buf, batch, i) = Ends(buf', batch', i)
    <3>0. i # k + 1 /\ (i # k => i + 1 \in 1 .. k)
      <4>1. k \in Nat
          BY <1>8, Zenon
      <4> HIDE DEF k
      <4> QED
          BY <4>1
    <3>1. CASE i = k
      <4>1. Ends(buf, batch, i) = Len(buf)
          BY <3>1, Zenon DEF Ends
      <4>2. i # Len(batch')
          BY <1>8, <3>0, Zenon
      <4>3. Ends(buf', batch', i) = batch'[i + 1].at
          BY <4>2, Zenon DEF Ends
      <4> QED
          BY <1>3, <1>8, <3>1, <4>1, <4>3, Zenon
    <3>2. CASE i # k
      <4>1. i + 1 \in 1 .. k /\ i # Len(batch')
          BY <1>8, <3>0, <3>2, Zenon
      <4>2. Ends(buf', batch', i) = batch'[i + 1].at
          BY <4>1, Zenon DEF Ends
      <4>3. Ends(buf, batch, i) = batch[i + 1].at
          BY <3>2, Zenon DEF Ends
      <4> QED
          BY <1>8, <4>1, <4>2, <4>3, Zenon
    <3> QED
        BY <3>1, <3>2
  <2>5. \A j \in 1 .. n : f.at + j \in 1 .. Len(buf)
    <3> HIDE DEF f
    <3> QED
        BY <1>9, <2>2, <2>3
  <2>6. \A j \in 1 .. n : buf'[f.at + j] = Bytes(f)[j]
      BY <1>7, <2>3, <2>5, Zenon
  <2>7. f.at + n <= Len(buf')
    <3>1. Len(e) \in Nat
        BY <1>6
    <3> HIDE DEF f
    <3> QED
        BY <1>7, <1>9, <2>2, <2>3, <3>1
  <2> QED
      BY <2>1, <2>3, <2>4, <2>6, <2>7, Zenon DEF Lies
<1>11. Lies(buf', batch', k + 1)
  <2> DEFINE n == 24 + Len(payload)
  <2>1. Ends(buf', batch', k + 1) = Len(buf')
      BY <1>8, Zenon DEF Ends
  <2>2. Len(buf) + n = Len(buf') /\ Len(buf) + n <= Len(buf')
      BY <1>5, <1>6, <1>7, <1>9
  <2>3. \A j \in 1 .. n : buf'[Len(buf) + j] = Bytes(g)[j]
      BY <1>4, <1>6, <1>7, Zenon
  <2> QED
      BY <1>3, <1>8, <2>1, <2>2, <2>3, Zenon DEF Lies
<1>12. \A i \in DOMAIN batch' : i \in 1 .. k \/ i = k + 1
    BY <1>8
<1>13. \A i \in DOMAIN batch' : Lies(buf', batch', i)
    BY <1>10, <1>11, <1>12, Zenon
<1> QED
    BY <1>7, <1>8, <1>13, Zenon DEF WireInv

\* A buffer of frames that EncodeAppend built holds them one after the other, each
\* where it was put, however many there are and whatever the base, the magic number,
\* the limit and the payloads are.
THEOREM WireInvariance == WireSpec => []WireInv
<1>1. WireInit => WireInv
    BY DEF WireInit, WireInv
<1>2. WireInv /\ [WireNext]_wire => WireInv'
  <2> SUFFICES ASSUME WireInv, [WireNext]_wire
               PROVE  WireInv'
      OBVIOUS
  <2>1. CASE UNCHANGED wire
      BY <2>1, Zenon DEF WireInv, wire
  <2>2. CASE Built
      BY <2>2, Zenon DEF Built, WireInv, wire
  <2>3. CASE \E seq \in SeqNums, ns \in Times, payload \in Payloads : Build(seq, ns, payload)
      BY <2>3, BuildKeeps, Zenon
  <2> QED
      BY <2>1, <2>2, <2>3, Zenon DEF WireNext
<1> QED
    BY <1>1, <1>2, PTL DEF WireSpec

\* Every frame of a batch that EncodeAppend built decodes to what it was encoded from,
\* and a frame that is cut short is refused.
THEOREM BatchesRoundTrip == WireSpec => []FramesRoundTrip
    BY WireInvariance, InvRoundTrip, PTL

-----------------------------------------------------------------------------
(***************************************************************************)
(* For any connections, instruments and ticks, a connection that closed is *)
(* forgotten by the router.                                                *)
(***************************************************************************)

-----------------------------------------------------------------------------
(* The inductive invariant.  Of a closed connection whose subscriptions did *)
(* not race UnsubscribeAll nothing is left to subscribe, and each shard     *)
(* that UnsubscribeAll has passed has forgotten it; the lock of a shard     *)
(* keeps the subscribers that a Route serves subscribed until it returns.   *)

RouterTypeOK ==
    /\ subs \in [Instrument -> SUBSET Conn]
    /\ user \in [Conn -> [want : SUBSET Instrument, drop : SUBSET Instrument,
                          closed : BOOLEAN, left : SUBSET Instrument, raced : BOOLEAN]]
    /\ route \in [Tick -> [pc : {"new", "open", "returned"}, async : BOOLEAN,
                           todo : SUBSET Conn, h : Instrument]]

\* Shards that UnsubscribeAll has passed.
Passed(c) == {h \in Instrument : user[c].closed /\ ~user[c].raced /\ h \notin user[c].left}

PassedIsClean ==
    \A c \in Conn :
        /\ ~user[c].closed => user[c].left = Instrument
        /\ user[c].closed /\ ~user[c].raced => user[c].want = {}
        /\ \A h \in Passed(c) : c \notin subs[h]

ServedIsSubscribed ==
    \A r \in Tick : ~route[r].async =>
        /\ route[r].pc # "open" => route[r].todo = {}
        /\ route[r].todo \subseteq subs[route[r].h]

RouterInv == RouterTypeOK /\ PassedIsClean /\ ServedIsSubscribed

(* A new router satisfies the invariant.                                    *)
LEMMA InitInv == RouterInit => RouterInv
<1> SUFFICES ASSUME RouterInit PROVE RouterInv
  OBVIOUS
<1>1. (CHOOSE h \in Instrument : TRUE) \in Instrument
  BY RouterAssumption
<1>2. RouterTypeOK
  BY <1>1 DEF RouterInit, RouterTypeOK
<1>3. PassedIsClean
  BY DEF RouterInit, PassedIsClean, Passed
<1>4. ServedIsSubscribed
  BY DEF RouterInit, ServedIsSubscribed
<1> QED
  BY <1>2, <1>3, <1>4 DEF RouterInv

(* Subscribe keeps it: a connection that closed before is marked as raced.  *)
LEMMA SubscribeInv ==
    ASSUME RouterInv, NEW c \in Conn, Subscribe(c)
    PROVE  RouterInv'
<1>1. CASE /\ user[c].want = {} /\ user[c].drop = {}
           /\ \E H \in SUBSET Instrument \ {{}} :
                 user' = [user EXCEPT ![c] = [@ EXCEPT !.want = H, !.raced = user[c].raced \/ user[c].closed]]
           /\ UNCHANGED <<subs, route>>
  <2> DEFINE b == user[c].raced \/ user[c].closed
  <2>0. b \in BOOLEAN
    BY Zenon
  <2>1. PICK H \in SUBSET Instrument : user' = [user EXCEPT ![c] = [@ EXCEPT !.want = H, !.raced = b]]
    BY <1>1, Zenon
  <2>2. RouterTypeOK'
    <3>1. UNCHANGED <<subs, route>>
      BY <1>1
    <3> HIDE DEF b
    <3> QED
      BY <2>0, <2>1, <3>1, Zenon DEF RouterInv, RouterTypeOK
  <2>3. PassedIsClean'
    BY <1>1, <2>1 DEF RouterInv, RouterTypeOK, PassedIsClean, Passed
  <2>4. ServedIsSubscribed'
    BY <1>1 DEF RouterInv, ServedIsSubscribed
  <2> QED
    BY <2>2, <2>3, <2>4 DEF RouterInv
<1>2. ASSUME NEW h \in user[c].want, Lock(h),
             subs' = [subs EXCEPT ![h] = @ \cup {c}],
             user' = [user EXCEPT ![c].want = @ \ {h}],
             UNCHANGED route
      PROVE  RouterInv'
  <2>0. h \in Instrument
    BY DEF RouterInv, RouterTypeOK
  <2>1. RouterTypeOK'
    BY <1>2, <2>0 DEF RouterInv, RouterTypeOK
  <2>2. PassedIsClean'
    BY <1>2, <2>0 DEF RouterInv, RouterTypeOK, PassedIsClean, Passed
  <2>3. ServedIsSubscribed'
    BY <1>2, <2>0 DEF RouterInv, RouterTypeOK, ServedIsSubscribed
  <2> QED
    BY <2>1, <2>2, <2>3 DEF RouterInv
<1> QED
  BY <1>1, <1>2, Zenon DEF Subscribe

(* Removing c from the subscribers of h, under the lock, keeps what Route   *)
(* may serve subscribed.                                                    *)
LEMMA RemovalKeepsServed ==
    ASSUME RouterInv, NEW c \in Conn, NEW h \in Instrument, Lock(h),
           subs' = [subs EXCEPT ![h] = @ \ {c}], UNCHANGED route
    PROVE  ServedIsSubscribed'
<1> SUFFICES ASSUME NEW r \in Tick, ~route[r].async
             PROVE  /\ route[r].pc # "open" => route[r].todo = {}
                    /\ route[r].todo \subseteq subs'[route[r].h]
  BY DEF ServedIsSubscribed
<1>1. /\ route[r].pc # "open" => route[r].todo = {}
      /\ route[r].todo \subseteq subs[route[r].h]
      /\ route[r].h \in Instrument
  BY DEF RouterInv, RouterTypeOK, ServedIsSubscribed
<1>2. route[r].pc = "open" => route[r].h # h
  BY DEF Lock
<1>3. route[r].h # h => subs'[route[r].h] = subs[route[r].h]
  BY <1>1 DEF RouterInv, RouterTypeOK
<1> QED
  BY <1>1, <1>2, <1>3

(* Unsubscribe keeps it.                                                    *)
LEMMA UnsubscribeInv ==
    ASSUME RouterInv, NEW c \in Conn, Unsubscribe(c)
    PROVE  RouterInv'
<1>1. CASE /\ user[c].want = {} /\ user[c].drop = {}
           /\ \E H \in SUBSET Instrument \ {{}} : user' = [user EXCEPT ![c].drop = H]
           /\ UNCHANGED <<subs, route>>
  <2>1. RouterTypeOK'
    BY <1>1 DEF RouterInv, RouterTypeOK
  <2>2. PassedIsClean'
    BY <1>1 DEF RouterInv, RouterTypeOK, PassedIsClean, Passed
  <2>3. ServedIsSubscribed'
    BY <1>1 DEF RouterInv, ServedIsSubscribed
  <2> QED
    BY <2>1, <2>2, <2>3 DEF RouterInv
<1>2. ASSUME NEW h \in user[c].drop, Lock(h),
             subs' = [subs EXCEPT ![h] = @ \ {c}],
             user' = [user EXCEPT ![c].drop = @ \ {h}],
             UNCHANGED route
      PROVE  RouterInv'
  <2>0. h \in Instrument
    BY DEF RouterInv, RouterTypeOK
  <2>1. RouterTypeOK'
    BY <1>2, <2>0, Zenon DEF RouterInv, RouterTypeOK
  <2>2. PassedIsClean'
    BY <1>2, <2>0 DEF RouterInv, RouterTypeOK, PassedIsClean, Passed
  <2>3. ServedIsSubscribed'
    BY <1>2, <2>0, RemovalKeepsServed, Zenon
  <2> QED
    BY <2>1, <2>2, <2>3 DEF RouterInv
<1> QED
  BY <1>1, <1>2 DEF Unsubscribe

(* UnsubscribeAll keeps it: a shard is passed when c is out of it.          *)
LEMMA UnsubscribeAllInv ==
    ASSUME RouterInv, NEW c \in Conn, UnsubscribeAll(c)
    PROVE  RouterInv'
<1>1. CASE /\ ~user[c].closed
           /\ user' = [user EXCEPT ![c].closed = TRUE, ![c].raced = user[c].want # {}]
           /\ UNCHANGED <<subs, route>>
  <2> DEFINE b == user[c].want # {}
  <2>0. b \in BOOLEAN
    BY Zenon
  <2>1. RouterTypeOK'
    <3>1. user' = [user EXCEPT ![c].closed = TRUE, ![c].raced = b]
      BY <1>1
    <3>2. UNCHANGED <<subs, route>>
      BY <1>1
    <3> HIDE DEF b
    <3> QED
      BY <2>0, <3>1, <3>2, Zenon DEF RouterInv, RouterTypeOK
  <2>2. PassedIsClean'
    <3> SUFFICES ASSUME NEW d \in Conn
                 PROVE  /\ ~user'[d].closed => user'[d].left = Instrument
                        /\ user'[d].closed /\ ~user'[d].raced => user'[d].want = {}
                        /\ \A h \in Passed(d)' : d \notin subs[h]
      BY <1>1, Zenon DEF PassedIsClean
    <3>1. CASE d = c
      BY <1>1, <3>1 DEF RouterInv, RouterTypeOK, PassedIsClean, Passed
    <3>2. CASE d # c
      BY <1>1, <3>2 DEF RouterInv, RouterTypeOK, PassedIsClean, Passed
    <3> QED
      BY <3>1, <3>2
  <2>3. ServedIsSubscribed'
    BY <1>1 DEF RouterInv, ServedIsSubscribed
  <2> QED
    BY <2>1, <2>2, <2>3 DEF RouterInv
<1>2. ASSUME NEW h \in user[c].left, user[c].closed, Lock(h),
             subs' = [subs EXCEPT ![h] = @ \ {c}],
             user' = [user EXCEPT ![c].left = @ \ {h}],
             UNCHANGED route
      PROVE  RouterInv'
  <2>0. h \in Instrument
    BY DEF RouterInv, RouterTypeOK
  <2>1. RouterTypeOK'
    BY <1>2, <2>0, Zenon DEF RouterInv, RouterTypeOK
  <2>2. PassedIsClean'
    BY <1>2, <2>0 DEF RouterInv, RouterTypeOK, PassedIsClean, Passed
  <2>3. ServedIsSubscribed'
    BY <1>2, <2>0, RemovalKeepsServed, Zenon
  <2> QED
    BY <2>1, <2>2, <2>3 DEF RouterInv
<1> QED
  BY <1>1, <1>2, Zenon DEF UnsubscribeAll

(* Route and RouteAsync keep it: they begin with the subscribers there are. *)
LEMMA RouteInv ==
    ASSUME RouterInv, NEW r \in Tick, Route(r)
    PROVE  RouterInv'
<1>1. RouterTypeOK'
  <2>1. CASE /\ route[r].pc = "new"
             /\ \E h \in Instrument, async \in BOOLEAN :
                   route' = [route EXCEPT ![r] =
                               [pc |-> "open", async |-> async, h |-> h, todo |-> subs[h]]]
    BY <2>1 DEF RouterInv, RouterTypeOK, Route
  <2>2. CASE /\ route[r].pc = "open"
             /\ \E c \in route[r].todo : route' = [route EXCEPT ![r].todo = @ \ {c}]
    BY <2>2 DEF RouterInv, RouterTypeOK, Route
  <2>3. CASE route' = [route EXCEPT ![r].pc = "returned"]
    BY <2>3, Zenon DEF RouterInv, RouterTypeOK, Route
  <2> QED
    BY <2>1, <2>2, <2>3 DEF Route
<1>2. PassedIsClean'
  BY DEF RouterInv, PassedIsClean, Passed, Route
<1>3. ServedIsSubscribed'
  BY DEF RouterInv, RouterTypeOK, ServedIsSubscribed, Route
<1> QED
  BY <1>1, <1>2, <1>3 DEF RouterInv

(* The invariant holds of every behaviour of the router.                    *)
THEOREM RouterInvariance == RouterSpec => []RouterInv
<1>1. RouterInv /\ [RouterNext]_router => RouterInv'
  <2> SUFFICES ASSUME RouterInv, [RouterNext]_router PROVE RouterInv'
    OBVIOUS
  <2>1. CASE RouterNext
    BY <2>1, SubscribeInv, UnsubscribeInv, UnsubscribeAllInv, RouteInv DEF RouterNext
  <2>2. CASE UNCHANGED router
    BY <2>2 DEF router, RouterInv, RouterTypeOK, PassedIsClean, Passed, ServedIsSubscribed
  <2> QED
    BY <2>1, <2>2
<1> QED
  BY <1>1, InitInv, PTL DEF RouterSpec

(* Once UnsubscribeAll of a closed connection has returned, no shard holds  *)
(* it and no Route serves it, unless a Subscribe raced it: for any number   *)
(* of connections, instruments and ticks.                                   *)
THEOREM RouterForgets == RouterSpec => []ClosedIsForgotten
<1>1. RouterInv => ClosedIsForgotten
  BY DEF RouterInv, RouterTypeOK, PassedIsClean, Passed, ServedIsSubscribed, ClosedIsForgotten
<1> QED
  BY <1>1, RouterInvariance, PTL

-----------------------------------------------------------------------------
(***************************************************************************)
(* For every window size, word size and bound, the tracker's mask is exact *)
(* inside the window and its counters are the counts they claim to be.     *)
(***************************************************************************)

-----------------------------------------------------------------------------
(* Arithmetic of the ring.                                                  *)

(* Division with remainder, for a divisor that is not a literal.            *)
LEMMA DivMod ==
    ASSUME NEW a \in Nat, NEW n \in Nat \ {0}
    PROVE  /\ a = n * (a \div n) + (a % n)
           /\ a % n \in Nat /\ a % n < n
           /\ a \div n \in Nat
BY Z3

(* A positive factor can be cancelled from an inequality.                   *)
LEMMA CancelFactor ==
    ASSUME NEW x \in Int, NEW y \in Int, NEW n \in Nat \ {0}, n * x < n * y
    PROVE  x < y
BY Z3

(* Multiplication distributes over subtraction.                             *)
LEMMA Distribute ==
    ASSUME NEW x \in Int, NEW y \in Int, NEW n \in Int
    PROVE  n * (x - y) = n * x - n * y
BY Z3

(* Two numbers less than n apart with the same remainder are equal.         *)
LEMMA SameRemainder ==
    ASSUME NEW x \in Nat, NEW y \in Nat, NEW n \in Nat \ {0},
           x % n = y % n, x <= y, y - x < n
    PROVE  x = y
<1> DEFINE p == x \div n
           q == y \div n
<1>1. p \in Nat /\ x = n * p + (x % n) /\ x % n \in Nat
  BY DivMod
<1>2. q \in Nat /\ y = n * q + (y % n)
  BY DivMod
<1>3. n * p \in Int /\ n * q \in Int /\ n * (q - p) \in Int
  BY <1>1, <1>2
<1> HIDE DEF p, q
<1>4. n * (q - p) = n * q - n * p
  BY <1>1, <1>2, Distribute
<1>5. y - x = n * (q - p)
  BY <1>1, <1>2, <1>3, <1>4
<1>6. n * (q - p) < n * 1 /\ n * (0 - 1) < n * (q - p)
  BY <1>3, <1>5
<1>7. q - p < 1 /\ 0 - 1 < q - p
  BY <1>1, <1>2, <1>6, CancelFactor
<1>8. q = p
  BY <1>1, <1>2, <1>7
<1> QED
  BY <1>1, <1>2, <1>8

(* The ring is at least as large as the window.                             *)
LEMMA RingCoversWindow ==
    /\ words \in Nat \ {0}
    /\ WindowSize <= WordBits * words
<1>1. /\ WindowSize = WordBits * (WindowSize \div WordBits) + (WindowSize % WordBits)
      /\ WindowSize \div WordBits \in Nat
      /\ WindowSize % WordBits \in Nat
  BY TrackerAssumption, DivMod
<1>2. CASE WindowSize \div WordBits = 0
  <2>1. words = 1
    BY <1>2 DEF words
  <2> QED
    BY <1>1, <1>2, <2>1, TrackerAssumption
<1>3. CASE WindowSize \div WordBits # 0
  <2>1. words = WindowSize \div WordBits
    BY <1>3 DEF words
  <2>2. CASE WindowSize % WordBits = 0
    BY <1>1, <1>3, <2>1, <2>2, TrackerAssumption
  <2>3. CASE WindowSize < WordBits
    <3>1. WordBits * (WindowSize \div WordBits) < WordBits * 1
      BY <1>1, <2>3, TrackerAssumption
    <3>2. WindowSize \div WordBits < 1
      BY <1>1, <3>1, TrackerAssumption, CancelFactor
    <3> QED
      BY <1>1, <1>3, <3>2
  <2> QED
    BY <2>2, <2>3, TrackerAssumption
<1> QED
  BY <1>2, <1>3

(* A slot is a slot of the ring.                                            *)
LEMMA SlotType ==
    ASSUME NEW s \in Nat
    PROVE  Slot(s) \in (0 .. words - 1) \X (0 .. WordBits - 1)
<1>1. s \div WordBits \in Nat /\ s % WordBits \in 0 .. WordBits - 1
  BY TrackerAssumption, DivMod
<1>2. (s \div WordBits) % words \in 0 .. words - 1
  BY <1>1, RingCoversWindow, DivMod
<1> QED
  BY <1>1, <1>2 DEF Slot, wordIndex, bitMask

(* Two sequence numbers less than a window apart never share a slot: what   *)
(* keeps the ring of sequence.go:98 free of aliasing inside the window.     *)
LEMMA SlotOrdered ==
    ASSUME NEW a \in Nat, NEW b \in Nat,
           Slot(a) = Slot(b), a <= b, b - a < WindowSize
    PROVE  a = b
<1> DEFINE p == a \div WordBits
           q == b \div WordBits
           r == a % WordBits
<1>1. p % words = q % words /\ r = b % WordBits
  BY DEF Slot, wordIndex, bitMask
<1>2. p \in Nat /\ a = WordBits * p + r /\ r \in Nat
  BY TrackerAssumption, DivMod
<1>3. q \in Nat /\ b = WordBits * q + r
  BY <1>1, TrackerAssumption, DivMod
<1>4. WordBits \in Nat \ {0} /\ WindowSize \in Nat \ {0} /\ words \in Nat \ {0}
  BY TrackerAssumption, RingCoversWindow
<1> HIDE DEF p, q, r
<1>5. WordBits * (q - p) = WordBits * q - WordBits * p
  BY <1>2, <1>3, <1>4, Distribute
<1>6. WordBits * p \in Int /\ WordBits * q \in Int /\ WordBits * words \in Int
  BY <1>2, <1>3, <1>4
<1>7. b - a = WordBits * (q - p)
  BY <1>2, <1>3, <1>5, <1>6
<1>8. WordBits * (q - p) < WordBits * words
  BY <1>4, <1>6, <1>7, RingCoversWindow
<1>9. q - p < words
  BY <1>2, <1>3, <1>4, <1>8, CancelFactor
<1>10. WordBits * (0 - 1) < WordBits * (q - p)
  BY <1>4, <1>7
<1>11. 0 - 1 < q - p
  BY <1>2, <1>3, <1>4, <1>10, CancelFactor
<1>12. p <= q
  BY <1>2, <1>3, <1>11
<1>13. p = q
  BY <1>1, <1>2, <1>3, <1>4, <1>9, <1>12, SameRemainder, Zenon
<1> QED
  BY <1>2, <1>3, <1>13

(* The same, in either order.                                               *)
LEMMA SlotInjective ==
    ASSUME NEW a \in Nat, NEW b \in Nat,
           Slot(a) = Slot(b), b - a < WindowSize, a - b < WindowSize
    PROVE  a = b
<1>1. CASE a <= b
  BY <1>1, SlotOrdered
<1>2. CASE b <= a
  BY <1>2, SlotOrdered
<1> QED
  BY <1>1, <1>2

-----------------------------------------------------------------------------
(* The inductive invariant.                                                 *)

\* The frontier is one past the highest number that arrived.
Frontier ==
    /\ \A s \in arrived : s < nextExpected
    /\ nextExpected # 0 => nextExpected - 1 \in arrived

HistoryOK == tooOld \subseteq arrived /\ late \subseteq arrived

IndInv ==
    TypeOK /\ WindowExact /\ Frontier /\ HistoryOK
           /\ DeliveredExact /\ ReorderedExact

(* What the next step may use of the constants and the state.               *)
LEMMA Typing ==
    ASSUME TypeOK
    PROVE  /\ MaxSeq \in Nat /\ WindowSize \in Nat /\ WindowSize > 0
           /\ nextExpected \in Nat /\ nextExpected <= MaxSeq + 1
           /\ Seqs \subseteq Nat
           /\ arrived \subseteq Seqs /\ tooOld \subseteq Seqs /\ late \subseteq Seqs
BY TrackerAssumption DEF TypeOK, Seqs

(* Adding a number to a set of them adds one to its cardinality, or none.   *)
LEMMA CountOne ==
    ASSUME NEW S \in SUBSET Seqs, NEW s \in Seqs
    PROVE  /\ Cardinality(S) \in Nat
           /\ s \notin S => Cardinality(S \cup {s}) = Cardinality(S) + 1
<1>1. IsFiniteSet(Seqs)
  BY TrackerAssumption, FS_Interval DEF Seqs
<1>2. IsFiniteSet(S)
  BY <1>1, FS_Subset
<1> QED
  BY <1>2, FS_AddElement, FS_CardinalityType

(* At or ahead of the frontier a number is new, and not late.               *)
LEMMA AheadIsNew ==
    ASSUME IndInv, NEW seq \in Seqs, seq >= nextExpected, Remember(seq)
    PROVE  /\ seq \notin arrived
           /\ arrived' = arrived \cup {seq}
           /\ tooOld' = tooOld /\ late' = late
<1>1. seq \notin arrived /\ ~BelowWindow(seq) /\ \A s \in arrived : ~(s > seq)
  BY Typing DEF IndInv, Frontier, BelowWindow
<1> QED
  BY <1>1 DEF Remember

(* A counted duplicate is a number that arrived before or is now too old.   *)
LEMMA DuplicateIsOld ==
    ASSUME IndInv, NEW seq \in Seqs, ObserveDuplicate(seq), Remember(seq)
    PROVE  /\ arrived' \ tooOld' = arrived \ tooOld
           /\ arrived' = arrived \cup {seq}
           /\ tooOld' \subseteq tooOld \cup {seq} /\ late' = late
           /\ nextExpected - seq <= WindowSize => seq \in arrived
<1>1. nextExpected - seq <= WindowSize => seq \in arrived
  BY Typing DEF IndInv, WindowExact, ObserveDuplicate
<1>2. seq \notin arrived => BelowWindow(seq)
  BY <1>1, Typing DEF IndInv, ObserveDuplicate, BelowWindow
<1>3. /\ arrived' = arrived \cup {seq}
      /\ tooOld' = IF seq \notin arrived THEN tooOld \cup {seq} ELSE tooOld
      /\ late' = late
  BY <1>2 DEF Remember
<1> QED
  BY <1>1, <1>3 DEF IndInv, HistoryOK

(* A gap fill is a new number that arrived after a higher one.              *)
LEMMA GapFillIsLate ==
    ASSUME IndInv, NEW seq \in Seqs, ObserveGapFill(seq), Remember(seq)
    PROVE  /\ seq \notin arrived
           /\ arrived' = arrived \cup {seq}
           /\ tooOld' = tooOld
           /\ late' = late \cup {seq}
<1>1. seq \notin arrived
  BY Typing DEF IndInv, WindowExact, ObserveGapFill
<1>2. ~BelowWindow(seq)
  BY Typing DEF IndInv, ObserveGapFill, BelowWindow
<1>3. nextExpected - 1 \in arrived /\ nextExpected - 1 > seq
  <2>1. nextExpected - 1 \in arrived
    BY Typing DEF IndInv, ObserveGapFill, Frontier
  <2>2. nextExpected - 1 # seq
    BY <1>1, <2>1
  <2> QED
    BY <2>1, <2>2, Typing DEF IndInv, ObserveGapFill
<1> QED
  BY <1>1, <1>2, <1>3 DEF Remember

-----------------------------------------------------------------------------
(* The slots that enter the window are cleared and no other slot of the     *)
(* window is, so ObserveAhead keeps the mask exact.                         *)
LEMMA AheadKeepsMask ==
    ASSUME IndInv, NEW seq \in Seqs, ObserveAhead(seq), Remember(seq)
    PROVE  WindowExact'
<1>1. /\ seq \in Nat /\ nextExpected \in Nat /\ seq >= nextExpected
      /\ nextExpected' = seq + 1 /\ arrived' = arrived \cup {seq}
      /\ WindowSize \in Nat
  BY Typing, AheadIsNew DEF IndInv, ObserveAhead
<1> SUFFICES ASSUME NEW s \in Seqs, s < seq + 1, seq + 1 - s <= WindowSize
             PROVE  Slot(s) \in window' <=> s \in arrived \cup {seq}
  BY <1>1 DEF WindowExact, isSet
<1>2. s \in Nat /\ \A t \in arrived : t < nextExpected
  BY Typing DEF IndInv, Frontier
<1>3. Slot(s) = Slot(seq) => s = seq
  BY <1>1, <1>2, SlotInjective
<1>4. CASE seq - nextExpected >= WindowSize
  <2>1. window' = {Slot(seq)}
    BY <1>4 DEF ObserveAhead
  <2>2. s \notin arrived
    BY <1>1, <1>2, <1>4
  <2> QED
    BY <1>3, <2>1, <2>2
<1>5. CASE seq - nextExpected < WindowSize
  <2>1. window' = (window \ Slots(nextExpected, seq + 1)) \cup {Slot(seq)}
    BY <1>1, <1>5 DEF ObserveAhead
  <2>2. CASE s >= nextExpected
    <3>1. Slot(s) \in Slots(nextExpected, seq + 1)
      BY <1>2, <2>2 DEF Slots
    <3>2. s \notin arrived
      BY <1>1, <1>2, <2>2
    <3> QED
      BY <1>3, <2>1, <3>1, <3>2
  <2>3. CASE s < nextExpected
    <3>1. nextExpected - s <= WindowSize
      BY <1>1, <1>2
    <3>2. Slot(s) \in window <=> s \in arrived
      BY <2>3, <3>1 DEF IndInv, WindowExact, isSet
    <3>3. ASSUME NEW t \in Seqs, nextExpected <= t, t < seq + 1
          PROVE  Slot(t) # Slot(s)
      <4>1. t \in Nat /\ t # s /\ t - s < WindowSize /\ s - t < WindowSize
        BY <1>1, <1>2, <2>3, <3>3, Typing DEF IndInv
      <4> QED
        BY <1>2, <4>1, SlotInjective
    <3>4. Slot(s) \notin Slots(nextExpected, seq + 1)
      BY <3>3 DEF Slots
    <3> QED
      BY <1>3, <2>1, <3>2, <3>4
  <2> QED
    BY <1>1, <1>2, <2>2, <2>3
<1> QED
  BY <1>1, <1>4, <1>5

(* A gap fill marks its own slot and no other slot of the window.           *)
LEMMA GapFillKeepsMask ==
    ASSUME IndInv, NEW seq \in Seqs, ObserveGapFill(seq), Remember(seq)
    PROVE  WindowExact'
<1>1. /\ seq \in Nat /\ nextExpected \in Nat /\ WindowSize \in Nat
      /\ seq < nextExpected /\ nextExpected - seq <= WindowSize
      /\ nextExpected' = nextExpected /\ arrived' = arrived \cup {seq}
      /\ window' = window \cup {Slot(seq)}
  BY Typing, GapFillIsLate DEF IndInv, ObserveGapFill
<1> SUFFICES ASSUME NEW s \in Seqs, s < nextExpected, nextExpected - s <= WindowSize
             PROVE  Slot(s) \in window' <=> s \in arrived \cup {seq}
  BY <1>1 DEF WindowExact, isSet
<1>2. s \in Nat
  BY Typing DEF IndInv
<1>3. Slot(s) = Slot(seq) => s = seq
  BY <1>1, <1>2, SlotInjective
<1>4. Slot(s) \in window <=> s \in arrived
  BY DEF IndInv, WindowExact, isSet
<1> QED
  BY <1>1, <1>3, <1>4

(* A duplicate in the window had arrived; below the window the mask is not  *)
(* consulted.                                                               *)
LEMMA DuplicateKeepsMask ==
    ASSUME IndInv, NEW seq \in Seqs, ObserveDuplicate(seq), Remember(seq)
    PROVE  WindowExact'
<1>1. /\ nextExpected' = nextExpected /\ window' = window
      /\ arrived' = arrived \cup {seq}
      /\ nextExpected - seq <= WindowSize => seq \in arrived
  BY DuplicateIsOld DEF ObserveDuplicate
<1> QED
  BY <1>1 DEF IndInv, WindowExact, isSet

-----------------------------------------------------------------------------
(* Observe preserves the types of the tracker's state.                      *)
LEMMA ObserveKeepsTypes ==
    ASSUME IndInv, NEW seq \in Seqs, Observe(seq)
    PROVE  TypeOK'
<1>1. /\ seq \in Nat /\ seq <= MaxSeq /\ nextExpected \in Nat
      /\ MaxSeq \in Nat /\ Slot(seq) \in (0 .. words - 1) \X (0 .. WordBits - 1)
  BY Typing, SlotType, TrackerAssumption DEF IndInv, Seqs
<1>2. arrived' \subseteq Seqs /\ tooOld' \subseteq Seqs /\ late' \subseteq Seqs
      /\ flushed' = flushed
  BY Typing DEF IndInv, Observe, Remember
<1>3. nextExpected' \in 0 .. MaxSeq + 1
  BY <1>1 DEF Observe, ObserveAhead, ObserveDuplicate, ObserveGapFill, IndInv, TypeOK
<1>4. window' \subseteq (0 .. words - 1) \X (0 .. WordBits - 1)
  BY <1>1 DEF Observe, ObserveAhead, ObserveDuplicate, ObserveGapFill, IndInv, TypeOK
<1>5. Delivered' \in Nat /\ Lost' \in Nat /\ Duplicated' \in Nat /\ Reordered' \in Nat
  BY DEF Observe, ObserveAhead, ObserveDuplicate, ObserveGapFill, IndInv, TypeOK
<1> QED
  BY <1>2, <1>3, <1>4, <1>5 DEF IndInv, TypeOK

(* Observe preserves the inductive invariant, branch by branch.             *)
LEMMA ObserveKeepsInv ==
    ASSUME IndInv, NEW seq \in Seqs, Observe(seq)
    PROVE  IndInv'
<1>1. TypeOK'
  BY ObserveKeepsTypes
<1>2. Remember(seq) /\ seq \in Nat /\ nextExpected \in Nat
  BY Typing DEF Observe, IndInv
<1>3. CASE ObserveAhead(seq)
  <2>1. /\ seq \notin arrived /\ arrived' = arrived \cup {seq}
        /\ tooOld' = tooOld /\ late' = late
    BY <1>2, <1>3, AheadIsNew DEF ObserveAhead
  <2>2. Frontier'
    <3>1. nextExpected' = seq + 1 /\ seq >= nextExpected
      BY <1>3 DEF ObserveAhead
    <3>2. \A s \in arrived : s \in Nat /\ s < nextExpected
      BY Typing DEF IndInv, Frontier
    <3>3. \A s \in arrived' : s < nextExpected'
      BY <1>2, <2>1, <3>1, <3>2
    <3>4. nextExpected' - 1 \in arrived'
      BY <1>2, <2>1, <3>1
    <3> QED
      BY <3>3, <3>4 DEF Frontier
  <2>3. DeliveredExact'
    <3>1. arrived' \ tooOld' = (arrived \ tooOld) \cup {seq}
      BY <2>1 DEF IndInv, HistoryOK
    <3>2. Cardinality(arrived' \ tooOld') = Cardinality(arrived \ tooOld) + 1
      BY <2>1, <3>1, CountOne, Typing DEF IndInv
    <3> QED
      BY <1>3, <3>2 DEF ObserveAhead, IndInv, DeliveredExact
  <2>4. HistoryOK' /\ ReorderedExact'
    BY <1>3, <2>1 DEF ObserveAhead, IndInv, HistoryOK, ReorderedExact
  <2> QED
    BY <1>1, <1>2, <1>3, <2>2, <2>3, <2>4, AheadKeepsMask DEF IndInv
<1>4. CASE ObserveDuplicate(seq)
  <2>1. /\ arrived' \ tooOld' = arrived \ tooOld /\ arrived' = arrived \cup {seq}
        /\ tooOld' \subseteq tooOld \cup {seq} /\ late' = late
    BY <1>2, <1>4, DuplicateIsOld
  <2>2. Frontier'
    BY <1>2, <1>4, <2>1 DEF ObserveDuplicate, IndInv, Frontier
  <2>3. HistoryOK' /\ DeliveredExact' /\ ReorderedExact'
    BY <1>4, <2>1
    DEF ObserveDuplicate, IndInv, HistoryOK, DeliveredExact, ReorderedExact
  <2> QED
    BY <1>1, <1>2, <1>4, <2>2, <2>3, DuplicateKeepsMask DEF IndInv
<1>5. CASE ObserveGapFill(seq)
  <2>1. /\ seq \notin arrived /\ arrived' = arrived \cup {seq}
        /\ tooOld' = tooOld /\ late' = late \cup {seq}
    BY <1>2, <1>5, GapFillIsLate
  <2>2. Frontier'
    BY <1>2, <1>5, <2>1 DEF ObserveGapFill, IndInv, Frontier
  <2>3. DeliveredExact'
    <3>1. arrived' \ tooOld' = (arrived \ tooOld) \cup {seq}
      BY <2>1 DEF IndInv, HistoryOK
    <3>2. Cardinality(arrived' \ tooOld') = Cardinality(arrived \ tooOld) + 1
      BY <2>1, <3>1, CountOne, Typing DEF IndInv
    <3> QED
      BY <1>5, <3>2 DEF ObserveGapFill, IndInv, DeliveredExact
  <2>4. ReorderedExact'
    <3>1. seq \notin late
      BY <2>1 DEF IndInv, HistoryOK
    <3>2. Cardinality(late') = Cardinality(late) + 1
      BY <2>1, <3>1, CountOne, Typing DEF IndInv
    <3> QED
      BY <1>5, <3>2 DEF ObserveGapFill, IndInv, ReorderedExact
  <2>5. HistoryOK'
    BY <2>1 DEF IndInv, HistoryOK
  <2> QED
    BY <1>1, <1>2, <1>5, <2>2, <2>3, <2>4, <2>5, GapFillKeepsMask DEF IndInv
<1> QED
  BY <1>3, <1>4, <1>5 DEF Observe

-----------------------------------------------------------------------------
(* The numbers that Flush declares lost are numbers that never arrived.     *)
LEMMA FlushedAreMissing ==
    ASSUME IndInv, NEW last \in Seqs
    PROVE  LET unset == {s \in nextExpected .. last : ~isSet(s)}
           IN  /\ Cardinality(unset) \in Nat
               /\ Cardinality(unset) <= Cardinality((0 .. last) \ arrived)
               /\ Cardinality((0 .. last) \ arrived) \in Nat
<1> DEFINE unset == {s \in nextExpected .. last : ~isSet(s)}
           missing == (0 .. last) \ arrived
<1>1. last \in Nat /\ nextExpected \in Nat
  BY Typing DEF IndInv
<1>2. IsFiniteSet(0 .. last)
  BY <1>1, FS_Interval
<1>3. IsFiniteSet(missing)
  <2>1. missing \subseteq 0 .. last
    OBVIOUS
  <2> QED
    BY <1>2, <2>1, FS_Subset, Zenon
<1>4. unset \subseteq missing
  <2> SUFFICES ASSUME NEW s \in nextExpected .. last
               PROVE  s \in 0 .. last /\ s \notin arrived
    OBVIOUS
  <2>1. s \in Nat /\ s >= nextExpected /\ s <= last
    BY <1>1
  <2>2. \A t \in arrived : t < nextExpected
    BY DEF IndInv, Frontier
  <2> QED
    BY <1>1, <2>1, <2>2
<1> HIDE DEF unset, missing
<1>5. IsFiniteSet(unset) /\ Cardinality(unset) <= Cardinality(missing)
  BY <1>3, <1>4, FS_Subset
<1>6. Cardinality(unset) \in Nat /\ Cardinality(missing) \in Nat
  BY <1>3, <1>5, FS_CardinalityType
<1> QED
  BY <1>5, <1>6 DEF unset, missing

(* Flush preserves the inductive invariant: it only adds to Lost.           *)
LEMMA FlushKeepsInv ==
    ASSUME IndInv, NEW last \in Seqs, Flush(last)
    PROVE  IndInv'
<1>1. Lost' \in Nat
  <2>1. Lost' = Lost + Cardinality({s \in nextExpected .. last : ~isSet(s)})
    BY DEF Flush
  <2>2. Cardinality({s \in nextExpected .. last : ~isSet(s)}) \in Nat
    BY FlushedAreMissing, Zenon
  <2> QED
    BY <2>1, <2>2 DEF IndInv, TypeOK
<1>2. UNCHANGED <<nextExpected, window, Delivered, Duplicated, Reordered,
                  arrived, tooOld, late>> /\ flushed' = TRUE
  BY DEF Flush
<1>3. TypeOK'
  BY <1>1, <1>2 DEF IndInv, TypeOK
<1>4. WindowExact' /\ Frontier'
  BY <1>2 DEF IndInv, WindowExact, isSet, Frontier
<1>5. HistoryOK' /\ DeliveredExact' /\ ReorderedExact'
  BY <1>2 DEF IndInv, HistoryOK, DeliveredExact, ReorderedExact
<1> QED
  BY <1>3, <1>4, <1>5 DEF IndInv

(* NewSequenceTracker and Reset establish the inductive invariant.          *)
LEMMA FreshTracker ==
    /\ Init => IndInv
    /\ Reset => IndInv'
<1>1. Cardinality({}) = 0 /\ {} \ {} = {} /\ MaxSeq \in Nat
  BY FS_EmptySet, TrackerAssumption
<1>2. ASSUME Init PROVE IndInv
  <2>1. TypeOK
    <3>1. nextExpected \in 0 .. MaxSeq + 1
      BY <1>1, <1>2 DEF Init
    <3>2. /\ Delivered \in Nat /\ Lost \in Nat
          /\ Duplicated \in Nat /\ Reordered \in Nat
      BY <1>2 DEF Init
    <3>3. /\ window = {} /\ arrived = {}
          /\ tooOld = {} /\ late = {} /\ flushed = FALSE
      BY <1>2 DEF Init
    <3> QED
      BY <3>1, <3>2, <3>3, Zenon DEF TypeOK
  <2>2. WindowExact
    BY <1>1, <1>2 DEF Init, WindowExact, Seqs
  <2>3. Frontier /\ HistoryOK
    BY <1>2 DEF Init, Frontier, HistoryOK
  <2>4. DeliveredExact /\ ReorderedExact
    BY <1>1, <1>2 DEF Init, DeliveredExact, ReorderedExact
  <2> QED
    BY <2>1, <2>2, <2>3, <2>4 DEF IndInv
<1>3. ASSUME Reset PROVE IndInv'
  <2>1. TypeOK'
    <3>1. nextExpected' \in 0 .. MaxSeq + 1
      BY <1>1, <1>3 DEF Reset
    <3>2. /\ Delivered' \in Nat /\ Lost' \in Nat
          /\ Duplicated' \in Nat /\ Reordered' \in Nat
      BY <1>3 DEF Reset
    <3>3. /\ window' = {} /\ arrived' = {}
          /\ tooOld' = {} /\ late' = {} /\ flushed' = FALSE
      BY <1>3 DEF Reset
    <3> QED
      BY <3>1, <3>2, <3>3, Zenon DEF TypeOK
  <2>2. WindowExact'
    BY <1>1, <1>3 DEF Reset, WindowExact, Seqs
  <2>3. Frontier' /\ HistoryOK'
    BY <1>3 DEF Reset, Frontier, HistoryOK
  <2>4. DeliveredExact' /\ ReorderedExact'
    BY <1>1, <1>3 DEF Reset, DeliveredExact, ReorderedExact
  <2> QED
    BY <2>1, <2>2, <2>3, <2>4 DEF IndInv
<1> QED
  BY <1>2, <1>3

(* Every step of the tracker preserves the inductive invariant.             *)
LEMMA NextKeepsInv ==
    ASSUME IndInv, [Next]_vars
    PROVE  IndInv'
<1>1. CASE \E seq \in Seqs : Observe(seq)
  BY <1>1, ObserveKeepsInv
<1>2. CASE \E last \in Seqs : Flush(last)
  BY <1>2, FlushKeepsInv
<1>3. CASE Reset
  BY <1>3, FreshTracker
<1>4. CASE UNCHANGED vars
  BY <1>4 DEF vars, counters, history, IndInv, TypeOK, WindowExact, isSet,
              Frontier, HistoryOK, DeliveredExact, ReorderedExact
<1> QED
  BY <1>1, <1>2, <1>3, <1>4 DEF Next

(* The inductive invariant holds of every behaviour of the tracker.         *)
THEOREM Invariance == Spec => []IndInv
<1>1. Init => IndInv
  BY FreshTracker
<1>2. IndInv /\ [Next]_vars => IndInv'
  BY NextKeepsInv
<1> QED
  BY <1>1, <1>2, PTL DEF Spec

(* Types: the ring index of the mask is never out of range, whatever        *)
(* sequence numbers Observe and Flush are called with.                      *)
THEOREM TypeCorrect == Spec => []TypeOK
<1>1. IndInv => TypeOK
  BY DEF IndInv
<1> QED
  BY <1>1, Invariance, PTL

(* For every window and word size, a set bit inside the window means that   *)
(* very sequence number arrived: Observe never mistakes a stale bit of the  *)
(* previous lap for a duplicate.                                            *)
THEOREM MaskIsExact == Spec => []WindowExact
<1>1. IndInv => WindowExact
  BY DEF IndInv
<1> QED
  BY <1>1, Invariance, PTL

(* Observe counts every distinct number once, except those too old to       *)
(* check.                                                                   *)
THEOREM DeliveredIsExact == Spec => []DeliveredExact
<1>1. IndInv => DeliveredExact
  BY DEF IndInv
<1> QED
  BY <1>1, Invariance, PTL

(* Observe counts a reorder for every first arrival behind the frontier and *)
(* inside the window, and for no other.                                     *)
THEOREM ReorderedIsExact == Spec => []ReorderedExact
<1>1. IndInv => ReorderedExact
  BY DEF IndInv
<1> QED
  BY <1>1, Invariance, PTL

(* Flush never declares lost a message that arrived.                        *)
THEOREM FlushIsSound == Spec => FlushNeverOvercounts
<1>1. ASSUME IndInv
      PROVE  \A last \in Seqs : Flush(last) =>
                Lost' - Lost <= Cardinality((0 .. last) \ arrived)
  <2> SUFFICES ASSUME NEW last \in Seqs, Flush(last)
               PROVE  Lost' - Lost <= Cardinality((0 .. last) \ arrived)
    OBVIOUS
  <2>1. Lost' = Lost + Cardinality({s \in nextExpected .. last : ~isSet(s)})
    BY DEF Flush
  <2> QED
    BY <1>1, <2>1, FlushedAreMissing DEF IndInv, TypeOK
<1> QED
  BY <1>1, Invariance, PTL DEF FlushNeverOvercounts

-----------------------------------------------------------------------------
(***************************************************************************)
(* For every window, word size and bound: a lock-free Snapshot is within   *)
(* the bounds of SnapshotWithinBounds, and the tracker at the grain of its *)
(* atomic operations implements the one whose calls are single steps.      *)
(***************************************************************************)

-----------------------------------------------------------------------------
(* The inductive invariant.  Nothing is read while nobody reads, a reader   *)
(* that runs while Reset stores its zeros is marked, and unless it is, what *)
(* it has loaded, and what it has still to load, is bounded below by the    *)
(* counters at its beginning and above by the counters now.                 *)

Resetting == holder \in {"storeDelivered", "storeLost", "storeDuplicated", "storeReordered"}

ATypeOK ==
    /\ TypeOK
    /\ holder \in {"free", "addReordered", "flush", "storeDelivered",
                   "storeLost", "storeDuplicated", "storeReordered"}
    /\ cursor \in Nat /\ flushTo \in Nat
    /\ snap \in Seq(Nat) /\ Len(snap) <= 4 /\ began \in Nat \X Nat \X Nat \X Nat
    /\ reading \in BOOLEAN /\ overlap \in BOOLEAN

NothingIsRead == ~reading => snap = <<>> /\ began = <<0, 0, 0, 0>> /\ ~overlap

Marked == reading /\ Resetting => overlap

Within(b, s, i, counter) ==
    b[i] <= counter /\ (i <= Len(s) => b[i] <= s[i] /\ s[i] <= counter)

Bounded ==
    ~overlap => /\ Within(began, snap, 1, Delivered) /\ Within(began, snap, 2, Lost)
                /\ Within(began, snap, 3, Duplicated) /\ Within(began, snap, 4, Reordered)

AInv == ATypeOK /\ NothingIsRead /\ Marked /\ Bounded

-----------------------------------------------------------------------------
(* Observe, by whichever of its branches, keeps the types of the tracker.   *)
LEMMA LockObserveTypes ==
    ASSUME TypeOK, NEW seq \in Seqs, LockObserve(seq)
    PROVE  TypeOK'
<1>1. /\ seq \in Nat /\ seq <= MaxSeq /\ nextExpected \in Nat
      /\ MaxSeq \in Nat /\ Slot(seq) \in (0 .. words - 1) \X (0 .. WordBits - 1)
  BY Typing, SlotType, TrackerAssumption DEF Seqs
<1>2. /\ arrived' \subseteq Seqs /\ tooOld' \subseteq Seqs /\ late' \subseteq Seqs
      /\ flushed' = flushed
  BY Typing DEF LockObserve, Remember
<1>3. nextExpected' \in 0 .. MaxSeq + 1
  BY <1>1 DEF LockObserve, ObserveAhead, ObserveDuplicate, TypeOK
<1>4. window' \subseteq (0 .. words - 1) \X (0 .. WordBits - 1)
  BY <1>1 DEF LockObserve, ObserveAhead, ObserveDuplicate, TypeOK
<1>5. Delivered' \in Nat /\ Lost' \in Nat /\ Duplicated' \in Nat /\ Reordered' \in Nat
  BY DEF LockObserve, ObserveAhead, ObserveDuplicate, TypeOK
<1> QED
  BY <1>2, <1>3, <1>4, <1>5 DEF TypeOK

(* A counter that grows stays within the bounds of the reader.              *)
LEMMA WithinGrows ==
    ASSUME NEW b, NEW s \in Seq(Nat), NEW i \in 1 .. 4, b[i] \in Nat,
           NEW c \in Nat, NEW d \in Nat, c <= d, Within(b, s, i, c)
    PROVE  Within(b, s, i, d)
<1>1. i <= Len(s) => s[i] \in Nat
  OBVIOUS
<1> QED
  BY <1>1 DEF Within

(* A step that does not decrease the counters, nor touches the reader, keeps *)
(* the reader's bounds.                                                     *)
LEMMA GrowthKeepsBounds ==
    ASSUME AInv, TypeOK', UNCHANGED reader,
           Delivered <= Delivered', Lost <= Lost',
           Duplicated <= Duplicated', Reordered <= Reordered'
    PROVE  NothingIsRead' /\ Bounded'
<1>1. UNCHANGED <<reading, snap, began, overlap>>
  BY DEF reader
<1>2. NothingIsRead'
  BY <1>1 DEF AInv, NothingIsRead
<1>3. /\ Delivered \in Nat /\ Lost \in Nat /\ Duplicated \in Nat /\ Reordered \in Nat
      /\ Delivered' \in Nat /\ Lost' \in Nat /\ Duplicated' \in Nat /\ Reordered' \in Nat
  BY DEF AInv, ATypeOK, TypeOK
<1>4. /\ began[1] \in Nat /\ began[2] \in Nat /\ began[3] \in Nat /\ began[4] \in Nat
      /\ snap \in Seq(Nat)
  BY DEF AInv, ATypeOK
<1>5. ASSUME ~overlap
      PROVE  /\ Within(began, snap, 1, Delivered') /\ Within(began, snap, 2, Lost')
             /\ Within(began, snap, 3, Duplicated') /\ Within(began, snap, 4, Reordered')
  <2>1. /\ Within(began, snap, 1, Delivered) /\ Within(began, snap, 2, Lost)
        /\ Within(began, snap, 3, Duplicated) /\ Within(began, snap, 4, Reordered)
    BY <1>5 DEF AInv, Bounded
  <2>2. Within(began, snap, 1, Delivered')
    BY <1>3, <1>4, <2>1, 1 \in 1 .. 4, WithinGrows
  <2>3. Within(began, snap, 2, Lost')
    BY <1>3, <1>4, <2>1, 2 \in 1 .. 4, WithinGrows
  <2>4. Within(began, snap, 3, Duplicated')
    BY <1>3, <1>4, <2>1, 3 \in 1 .. 4, WithinGrows
  <2>5. Within(began, snap, 4, Reordered')
    BY <1>3, <1>4, <2>1, 4 \in 1 .. 4, WithinGrows
  <2> QED
    BY <2>2, <2>3, <2>4, <2>5
<1> QED
  BY <1>1, <1>2, <1>5 DEF Bounded

(* The types of the tracker do not depend on the mutex or the reader.       *)
LEMMA UnchangedTypes ==
    ASSUME TypeOK, UNCHANGED vars
    PROVE  TypeOK'
BY DEF TypeOK, vars, counters, history

-----------------------------------------------------------------------------
(* Every step of a mutator or of a reader keeps the invariant.              *)
LEMMA AInduction == AInv /\ [ANext]_avars => AInv'
<1> SUFFICES ASSUME AInv, [ANext]_avars
             PROVE  AInv'
  OBVIOUS
<1>0. /\ Delivered \in Nat /\ Lost \in Nat /\ Duplicated \in Nat /\ Reordered \in Nat
      /\ nextExpected \in Nat /\ cursor \in Nat /\ flushTo \in Nat
      /\ snap \in Seq(Nat) /\ Len(snap) \in Nat
  BY Typing DEF AInv, ATypeOK, TypeOK
<1>1. CASE \E seq \in Seqs : LockObserve(seq)
  <2> PICK seq \in Seqs : LockObserve(seq)
    BY <1>1
  <2>1. TypeOK'
    BY LockObserveTypes DEF AInv, ATypeOK
  <2>2. UNCHANGED <<cursor, flushTo, reader>>
    BY DEF LockObserve
  <2>3. /\ Delivered <= Delivered' /\ Lost <= Lost'
        /\ Duplicated <= Duplicated' /\ Reordered <= Reordered'
    <3>1. /\ Delivered' = Delivered \/ Delivered' = Delivered + 1
          /\ Duplicated' = Duplicated \/ Duplicated' = Duplicated + 1
          /\ UNCHANGED <<Lost, Reordered>>
      BY DEF LockObserve, ObserveAhead, ObserveDuplicate
    <3> QED
      BY <1>0, <3>1
  <2>4. NothingIsRead' /\ Bounded'
    BY <2>1, <2>2, <2>3, GrowthKeepsBounds
  <2>5. holder' \in {"free", "addReordered"}
    BY DEF LockObserve
  <2>6. ATypeOK'
    BY <2>1, <2>2, <2>5 DEF AInv, ATypeOK, reader
  <2>7. Marked'
    BY <2>5 DEF Marked, Resetting
  <2> QED
    BY <2>4, <2>6, <2>7 DEF AInv
<1>2. CASE AddReordered
  <2>1. TypeOK'
    BY <1>2 DEF AddReordered, AInv, ATypeOK, TypeOK, history
  <2>2. UNCHANGED <<cursor, flushTo, reader>> /\ holder' = "free"
    BY <1>2 DEF AddReordered
  <2>3. /\ Delivered <= Delivered' /\ Lost <= Lost'
        /\ Duplicated <= Duplicated' /\ Reordered <= Reordered'
    BY <1>0, <1>2 DEF AddReordered
  <2>4. NothingIsRead' /\ Bounded'
    BY <2>1, <2>2, <2>3, GrowthKeepsBounds
  <2>6. ATypeOK'
    BY <2>1, <2>2 DEF AInv, ATypeOK, reader
  <2>7. Marked'
    BY <2>2 DEF Marked, Resetting
  <2> QED
    BY <2>4, <2>6, <2>7 DEF AInv
<1>3. CASE \E last \in Seqs : LockFlush(last)
  <2> PICK last \in Seqs : LockFlush(last)
    BY <1>3
  <2>1. TypeOK'
    BY DEF LockFlush, AInv, ATypeOK, TypeOK, counters
  <2>2. UNCHANGED reader /\ holder' = "flush" /\ cursor' \in Nat /\ flushTo' \in Nat
    BY <1>0, TrackerAssumption DEF LockFlush, Seqs
  <2>3. /\ Delivered <= Delivered' /\ Lost <= Lost'
        /\ Duplicated <= Duplicated' /\ Reordered <= Reordered'
    BY <1>0 DEF LockFlush, counters
  <2>4. NothingIsRead' /\ Bounded'
    BY <2>1, <2>2, <2>3, GrowthKeepsBounds
  <2>6. ATypeOK'
    BY <2>1, <2>2 DEF AInv, ATypeOK, reader
  <2>7. Marked'
    BY <2>2 DEF Marked, Resetting
  <2> QED
    BY <2>4, <2>6, <2>7 DEF AInv
<1>4. CASE FlushLoop
  <2>1. TypeOK'
    <3>1. /\ UNCHANGED <<nextExpected, window, Delivered, Duplicated, Reordered, history>>
          /\ Lost' = Lost \/ Lost' = Lost + 1
      BY <1>4 DEF FlushLoop
    <3> QED
      BY <3>1 DEF AInv, ATypeOK, TypeOK, history
  <2>2. UNCHANGED reader /\ holder' \in {"free", "flush"} /\ cursor' \in Nat /\ flushTo' \in Nat
    BY <1>0, <1>4 DEF FlushLoop
  <2>3. /\ Delivered <= Delivered' /\ Lost <= Lost'
        /\ Duplicated <= Duplicated' /\ Reordered <= Reordered'
    BY <1>0, <1>4 DEF FlushLoop
  <2>4. NothingIsRead' /\ Bounded'
    BY <2>1, <2>2, <2>3, GrowthKeepsBounds
  <2>6. ATypeOK'
    BY <2>1, <2>2 DEF AInv, ATypeOK, reader
  <2>7. Marked'
    BY <2>2 DEF Marked, Resetting
  <2> QED
    BY <2>4, <2>6, <2>7 DEF AInv
<1>5. CASE LockReset
  <2>1. TypeOK'
    <3>1. /\ window' = {} /\ nextExpected' = 0 /\ UNCHANGED counters
          /\ arrived' = {} /\ tooOld' = {} /\ late' = {}
      BY <1>5 DEF LockReset
    <3>2. flushed' \in BOOLEAN
      BY <1>5, Zenon DEF LockReset
    <3> QED
      BY <3>1, <3>2, TrackerAssumption DEF AInv, ATypeOK, TypeOK, counters
  <2>2. /\ holder' = "storeDelivered" /\ overlap' = reading /\ began' = <<0, 0, 0, 0>>
        /\ UNCHANGED <<counters, cursor, flushTo, reading, snap>>
    BY <1>5 DEF LockReset
  <2>3. ATypeOK'
    BY <2>1, <2>2 DEF AInv, ATypeOK
  <2>4. NothingIsRead' /\ Marked'
    BY <2>2 DEF AInv, NothingIsRead, Marked
  <2>5. Bounded'
    <3>1. ASSUME ~overlap'
          PROVE  /\ snap' = <<>> /\ began'[1] = 0 /\ began'[2] = 0
                 /\ began'[3] = 0 /\ began'[4] = 0
      BY <2>2, <3>1 DEF AInv, NothingIsRead
    <3> QED
      BY <1>0, <2>2, <3>1 DEF Bounded, Within, counters
  <2> QED
    BY <2>3, <2>4, <2>5 DEF AInv
<1>6. CASE StoreZero
  <2>0. /\ Resetting /\ UNCHANGED <<nextExpected, window, history>>
        /\ UNCHANGED <<cursor, flushTo, reading, snap, began, overlap>>
    BY <1>6 DEF StoreZero, reader, Resetting
  <2>1. TypeOK'
    <3>1. /\ Delivered' \in Nat /\ Lost' \in Nat
          /\ Duplicated' \in Nat /\ Reordered' \in Nat
      BY <1>0, <1>6 DEF StoreZero
    <3> QED
      BY <2>0, <3>1 DEF AInv, ATypeOK, TypeOK, history
  <2>2. holder' \in {"storeLost", "storeDuplicated", "storeReordered", "free"}
    BY <1>6 DEF StoreZero
  <2>3. ATypeOK'
    BY <2>0, <2>1, <2>2 DEF AInv, ATypeOK
  <2>4. NothingIsRead' /\ Marked'
    BY <2>0 DEF AInv, NothingIsRead, Marked
  <2>5. Bounded'
    <3>1. ASSUME ~overlap'
          PROVE  /\ snap' = <<>> /\ began'[1] = 0 /\ began'[2] = 0
                 /\ began'[3] = 0 /\ began'[4] = 0
      BY <2>0, <3>1 DEF AInv, NothingIsRead, Marked
    <3> QED
      BY <2>1, <3>1 DEF Bounded, Within, TypeOK
  <2> QED
    BY <2>3, <2>4, <2>5 DEF AInv
<1>7. CASE SnapshotBegin
  <2>1. TypeOK' /\ UNCHANGED counters
    BY <1>7, UnchangedTypes DEF SnapshotBegin, AInv, ATypeOK, vars
  <2>2. /\ UNCHANGED <<holder, cursor, flushTo>> /\ reading' = TRUE /\ snap' = <<>>
        /\ overlap' \in BOOLEAN
    BY <1>7, Zenon DEF SnapshotBegin, mutex
  <2>3. /\ overlap' <=> Resetting
        /\ began' = IF overlap' THEN <<0, 0, 0, 0>> ELSE counters
    BY <1>7, Zenon DEF SnapshotBegin, Resetting, AInv, ATypeOK
  <2>4. began' \in Nat \X Nat \X Nat \X Nat
    BY <1>0, <2>3 DEF counters
  <2>5. ATypeOK'
    BY <2>1, <2>2, <2>4 DEF AInv, ATypeOK
  <2>6. NothingIsRead' /\ Marked'
    BY <2>2, <2>3 DEF NothingIsRead, Marked, Resetting
  <2>7. Bounded'
    BY <1>0, <2>1, <2>2, <2>3 DEF Bounded, Within, counters
  <2> QED
    BY <2>5, <2>6, <2>7 DEF AInv
<1>8. CASE SnapshotLoad
  <2> DEFINE n == Len(snap) + 1
             v == counters[n]
  <2>1. TypeOK' /\ UNCHANGED <<Delivered, Lost, Duplicated, Reordered>>
    BY <1>8, UnchangedTypes DEF SnapshotLoad, AInv, ATypeOK, vars, counters
  <2>2. /\ UNCHANGED <<holder, cursor, flushTo, reading, began, overlap>>
        /\ reading /\ Len(snap) < 4 /\ snap' = Append(snap, v)
    BY <1>8 DEF SnapshotLoad, mutex
  <2>3. /\ n \in 1 .. 4
        /\ n = 1 => v = Delivered
        /\ n = 2 => v = Lost
        /\ n = 3 => v = Duplicated
        /\ n = 4 => v = Reordered
    BY <1>0, <2>2 DEF counters
  <2>4. v \in Nat
    BY <1>0, <2>3
  <2> HIDE DEF v
  <2>5. /\ snap' \in Seq(Nat) /\ Len(snap') = n
        /\ \A i \in 1 .. 4 : i <= n => snap'[i] = IF i = n THEN v ELSE snap[i]
    BY <1>0, <2>2, <2>4
  <2>6. ATypeOK'
    BY <1>0, <2>1, <2>2, <2>5 DEF AInv, ATypeOK
  <2>7. NothingIsRead' /\ Marked'
    BY <2>2 DEF AInv, NothingIsRead, Marked, Resetting
  <2>8. Bounded'
    <3> SUFFICES ASSUME ~overlap
                 PROVE  /\ Within(began, snap', 1, Delivered) /\ Within(began, snap', 2, Lost)
                        /\ Within(began, snap', 3, Duplicated) /\ Within(began, snap', 4, Reordered)
      BY <2>1, <2>2 DEF Bounded
    <3>1. /\ Within(began, snap, 1, Delivered) /\ Within(began, snap, 2, Lost)
          /\ Within(began, snap, 3, Duplicated) /\ Within(began, snap, 4, Reordered)
      BY DEF AInv, Bounded
    <3>2. /\ began[1] \in Nat /\ began[2] \in Nat /\ began[3] \in Nat /\ began[4] \in Nat
      BY DEF AInv, ATypeOK
    <3>3. ASSUME NEW i \in 1 .. 4, NEW c \in Nat, Within(began, snap, i, c), i = n => v = c
          PROVE  Within(began, snap', i, c)
      <4>1. CASE i <= Len(snap)
        <5>0. i \in 1 .. 4 /\ i # n /\ i <= n
          BY <1>0, <4>1
        <5>1. snap'[i] = snap[i] /\ i <= Len(snap')
          BY <5>0, <2>5
        <5> QED
          BY <5>1, <3>3, <4>1 DEF Within
      <4>2. CASE i = n
        <5>1. snap'[i] = c
          BY <1>0, <2>5, <3>3, <4>2
        <5> QED
          BY <5>1, <3>3 DEF Within
      <4>3. CASE i > n
        BY <1>0, <2>5, <3>3, <4>3 DEF Within
      <4> QED
        BY <1>0, <4>1, <4>2, <4>3
    <3>4. Within(began, snap', 1, Delivered)
      BY <1>0, <2>3, <3>1, <3>3, 1 \in 1 .. 4
    <3>5. Within(began, snap', 2, Lost)
      BY <1>0, <2>3, <3>1, <3>3, 2 \in 1 .. 4
    <3>6. Within(began, snap', 3, Duplicated)
      BY <1>0, <2>3, <3>1, <3>3, 3 \in 1 .. 4
    <3>7. Within(began, snap', 4, Reordered)
      BY <1>0, <2>3, <3>1, <3>3, 4 \in 1 .. 4
    <3> QED
      BY <3>4, <3>5, <3>6, <3>7
  <2> QED
    BY <2>6, <2>7, <2>8 DEF AInv
<1>9. CASE SnapshotReturn
  <2>1. TypeOK' /\ UNCHANGED <<Delivered, Lost, Duplicated, Reordered>>
    BY <1>9, UnchangedTypes DEF SnapshotReturn, AInv, ATypeOK, vars, counters
  <2>2. /\ UNCHANGED <<holder, cursor, flushTo>> /\ reading' = FALSE /\ snap' = <<>>
        /\ began' = <<0, 0, 0, 0>> /\ overlap' = FALSE
    BY <1>9 DEF SnapshotReturn, mutex
  <2>3. ATypeOK'
    <3>1. began' \in Nat \X Nat \X Nat \X Nat /\ snap' \in Seq(Nat) /\ Len(snap') <= 4
      BY <2>2
    <3> QED
      BY <2>1, <2>2, <3>1, Zenon DEF AInv, ATypeOK
  <2>4. NothingIsRead' /\ Marked'
    BY <2>2 DEF NothingIsRead, Marked
  <2>5. Bounded'
    BY <1>0, <2>1, <2>2 DEF Bounded, Within
  <2> QED
    BY <2>3, <2>4, <2>5 DEF AInv
<1>10. CASE UNCHANGED avars
  <2>1. TypeOK'
    BY <1>10, UnchangedTypes DEF AInv, ATypeOK, avars
  <2>2. UNCHANGED <<holder, cursor, flushTo, reading, snap, began, overlap>>
        /\ UNCHANGED <<Delivered, Lost, Duplicated, Reordered>>
    BY <1>10 DEF avars, vars, mutex, reader, counters
  <2> QED
    BY <2>1, <2>2 DEF AInv, ATypeOK, NothingIsRead, Marked, Resetting, Bounded
<1> QED
  BY <1>1, <1>2, <1>3, <1>4, <1>5, <1>6, <1>7, <1>8, <1>9, <1>10 DEF ANext

-----------------------------------------------------------------------------
(* The invariant of the tracker at the grain of its atomic operations.      *)
THEOREM AInvariance == ASpec => []AInv
<1>1. AInit => AInv
  <2> SUFFICES ASSUME AInit PROVE AInv
    OBVIOUS
  <2>1. flushed \in BOOLEAN /\ reading \in BOOLEAN /\ overlap \in BOOLEAN /\ ~reading /\ ~overlap
    BY Zenon DEF AInit, Init
  <2>2. /\ nextExpected = 0 /\ window = {}
        /\ Delivered = 0 /\ Lost = 0 /\ Duplicated = 0 /\ Reordered = 0
        /\ arrived = {} /\ tooOld = {} /\ late = {}
        /\ holder = "free" /\ cursor = 0 /\ flushTo = 0 /\ snap = <<>>
        /\ began = <<0, 0, 0, 0>>
    BY DEF AInit, Init
  <2>3. TypeOK
    BY <2>1, <2>2, TrackerAssumption DEF TypeOK
  <2>4. ATypeOK
    <3>1. began \in Nat \X Nat \X Nat \X Nat /\ snap \in Seq(Nat) /\ Len(snap) <= 4
      BY <2>2
    <3> QED
      BY <2>1, <2>2, <2>3, <3>1 DEF ATypeOK
  <2>5. Bounded
    BY <2>2 DEF Bounded, Within
  <2> QED
    BY <2>1, <2>2, <2>4, <2>5 DEF AInv, NothingIsRead, Marked
<1> QED
  BY <1>1, AInduction, PTL DEF ASpec

(* Snapshot (pkg/metrics/sequence.go) takes no lock, and yet each of the    *)
(* four values it loads lies between its counter when Snapshot began and    *)
(* its counter now, unless a Reset ran meanwhile.                           *)
THEOREM SnapshotIsBounded == ASpec => []SnapshotWithinBounds
<1>1. AInv => SnapshotWithinBounds
  <2> SUFFICES ASSUME AInv, ~overlap, NEW i \in DOMAIN snap
               PROVE  began[i] <= snap[i] /\ snap[i] <= counters[i]
    BY DEF SnapshotWithinBounds
  <2>1. i \in 1 .. 4 /\ i <= Len(snap)
    BY DEF AInv, ATypeOK
  <2>2. /\ Within(began, snap, 1, Delivered) /\ Within(began, snap, 2, Lost)
        /\ Within(began, snap, 3, Duplicated) /\ Within(began, snap, 4, Reordered)
    BY DEF AInv, Bounded
  <2>3. CASE i = 1
    BY <2>1, <2>2, <2>3 DEF Within, counters
  <2>4. CASE i = 2
    BY <2>1, <2>2, <2>4 DEF Within, counters
  <2>5. CASE i = 3
    BY <2>1, <2>2, <2>5 DEF Within, counters
  <2>6. CASE i = 4
    BY <2>1, <2>2, <2>6 DEF Within, counters
  <2> QED
    BY <2>1, <2>3, <2>4, <2>5, <2>6
<1> QED
  BY <1>1, AInvariance, PTL

-----------------------------------------------------------------------------
(* What one turn of Flush's loop counts: of the numbers above c, and of c.  *)
LEMMA OneTurn ==
    ASSUME NEW Above, NEW c, IsFiniteSet(Above), c \notin Above
    PROVE  /\ Cardinality(Above) \in Nat
           /\ Cardinality(Above \cup {c}) = Cardinality(Above) + 1
BY FS_CardinalityType, FS_AddElement

(* With the mutex free, no call has anything left to do to the counters.    *)
LEMMA FreeIsConcrete ==
    holder = "free" => /\ AbsDelivered = Delivered /\ AbsLost = Lost
                       /\ AbsDuplicated = Duplicated /\ AbsReordered = Reordered
BY DEF AbsDelivered, AbsLost, AbsDuplicated, AbsReordered

LEMMA FreeIsConcreteNext ==
    holder' = "free" => /\ AbsDelivered' = Delivered' /\ AbsLost' = Lost'
                        /\ AbsDuplicated' = Duplicated' /\ AbsReordered' = Reordered'
BY DEF AbsDelivered, AbsLost, AbsDuplicated, AbsReordered

(* The mask of the abstract tracker is the mask of the tracker.             *)
LEMMA SameMask ==
    /\ \A seq : Atomic!Slot(seq) = Slot(seq) /\ (Atomic!isSet(seq) <=> isSet(seq))
    /\ \A from, to : Atomic!Slots(from, to) = Slots(from, to)
<1>1. \A seq : Atomic!Slot(seq) = Slot(seq)
  BY DEF Slot, Atomic!Slot, wordIndex, Atomic!wordIndex, bitMask, Atomic!bitMask, words, Atomic!words
<1>2. \A seq : Atomic!isSet(seq) <=> isSet(seq)
  BY <1>1 DEF isSet, Atomic!isSet
<1>3. \A from, to : Atomic!Slots(from, to) = Slots(from, to)
  BY <1>1 DEF Slots, Atomic!Slots, Seqs, Atomic!Seqs
<1> QED
  BY <1>1, <1>2, <1>3

(* Every atomic operation is one whole call of the abstract tracker, or     *)
(* changes nothing of it.                                                   *)
LEMMA AStep == AInv /\ [ANext]_avars => [Atomic!Next]_(Atomic!vars)
<1> SUFFICES ASSUME AInv, [ANext]_avars
             PROVE  Atomic!Next \/ UNCHANGED Atomic!vars
  OBVIOUS
<1>0. /\ Delivered \in Nat /\ Lost \in Nat /\ Duplicated \in Nat /\ Reordered \in Nat
      /\ cursor \in Nat /\ flushTo \in Nat
  BY DEF AInv, ATypeOK, TypeOK
<1>1. CASE \E seq \in Seqs : LockObserve(seq)
  <2> PICK seq \in Seqs : LockObserve(seq)
    BY <1>1
  <2>1. holder = "free" /\ Delivered + Duplicated < MaxObs /\ Remember(seq)
    BY DEF LockObserve
  <2>2. /\ AbsDelivered = Delivered /\ AbsLost = Lost
        /\ AbsDuplicated = Duplicated /\ AbsReordered = Reordered
    BY <2>1, FreeIsConcrete
  <2>3. Atomic!Remember(seq)
    BY <2>1 DEF Remember, Atomic!Remember, BelowWindow, Atomic!BelowWindow
  <2>4. CASE ObserveAhead(seq) /\ UNCHANGED holder
    <3>1. /\ AbsDelivered' = Delivered' /\ AbsLost' = Lost'
          /\ AbsDuplicated' = Duplicated' /\ AbsReordered' = Reordered'
      BY <2>1, <2>4, FreeIsConcreteNext
    <3>2. Atomic!ObserveAhead(seq)
      <4>1. /\ Atomic!Slots(nextExpected, seq + 1) = Slots(nextExpected, seq + 1)
            /\ Atomic!Slot(seq) = Slot(seq)
        BY SameMask
      <4> QED
        BY <2>2, <2>4, <3>1, <4>1 DEF ObserveAhead, Atomic!ObserveAhead
    <3> QED
      BY <2>1, <2>2, <2>3, <3>2 DEF Atomic!Next, Atomic!Observe, Seqs, Atomic!Seqs
  <2>5. CASE ObserveDuplicate(seq) /\ UNCHANGED holder
    <3>1. /\ AbsDelivered' = Delivered' /\ AbsLost' = Lost'
          /\ AbsDuplicated' = Duplicated' /\ AbsReordered' = Reordered'
      BY <2>1, <2>5, FreeIsConcreteNext
    <3>2. Atomic!isSet(seq) <=> isSet(seq)
      BY SameMask
    <3>3. Atomic!ObserveDuplicate(seq)
      BY <2>2, <2>5, <3>1, <3>2 DEF ObserveDuplicate, Atomic!ObserveDuplicate
    <3> QED
      BY <2>1, <2>2, <2>3, <3>3 DEF Atomic!Next, Atomic!Observe, Seqs, Atomic!Seqs
  <2>6. CASE /\ seq < nextExpected /\ nextExpected - seq <= WindowSize /\ ~isSet(seq)
             /\ window' = window \cup {Slot(seq)}
             /\ Delivered' = Delivered + 1
             /\ UNCHANGED <<nextExpected, Lost, Duplicated, Reordered>>
             /\ holder' = "addReordered"
    <3>1. /\ AbsDelivered' = Delivered' /\ AbsLost' = Lost'
          /\ AbsDuplicated' = Duplicated' /\ AbsReordered' = Reordered' + 1
      BY <2>6 DEF AbsDelivered, AbsLost, AbsDuplicated, AbsReordered
    <3>2. Atomic!ObserveGapFill(seq)
      BY <2>2, <2>6, <3>1, SameMask DEF Atomic!ObserveGapFill
    <3> QED
      BY <2>1, <2>2, <2>3, <3>2 DEF Atomic!Next, Atomic!Observe, Seqs, Atomic!Seqs
  <2> QED
    BY <2>4, <2>5, <2>6 DEF LockObserve
<1>2. CASE AddReordered
  <2>1. /\ holder = "addReordered" /\ holder' = "free" /\ Reordered' = Reordered + 1
        /\ UNCHANGED <<nextExpected, window, Delivered, Lost, Duplicated, history>>
    BY <1>2 DEF AddReordered
  <2>2. UNCHANGED <<AbsDelivered, AbsLost, AbsDuplicated, AbsReordered>>
    BY <2>1 DEF AbsDelivered, AbsLost, AbsDuplicated, AbsReordered
  <2> QED
    BY <2>1, <2>2 DEF Atomic!vars, Atomic!counters, Atomic!history, history
<1>3. CASE \E last \in Seqs : LockFlush(last)
  <2> PICK last \in Seqs : LockFlush(last)
    BY <1>3
  <2>1. /\ holder = "free" /\ holder' = "flush" /\ cursor' = nextExpected /\ flushTo' = last
        /\ UNCHANGED <<nextExpected, window, Delivered, Lost, Duplicated, Reordered,
                       arrived, tooOld, late>>
    BY DEF LockFlush, counters
  <2>2. ~flushed /\ flushed' = TRUE
    BY DEF LockFlush
  <2>3. /\ AbsDelivered = Delivered /\ AbsLost = Lost
        /\ AbsDuplicated = Duplicated /\ AbsReordered = Reordered
    BY <2>1, FreeIsConcrete
  <2>4. /\ AbsDelivered' = Delivered /\ AbsDuplicated' = Duplicated /\ AbsReordered' = Reordered
    BY <2>1 DEF AbsDelivered, AbsDuplicated, AbsReordered
  <2>5. AbsLost' = Lost + Cardinality({s \in nextExpected .. last : ~isSet(s)})
    BY <2>1 DEF AbsLost, isSet, Slot, wordIndex, bitMask, words
  <2>6. {s \in nextExpected .. last : ~Atomic!isSet(s)} = {s \in nextExpected .. last : ~isSet(s)}
    BY SameMask
  <2>7. \A S : Atomic!Cardinality(S) = Cardinality(S)
    BY Zenon DEF Cardinality, Atomic!Cardinality
  <2>8. Atomic!Flush(last)
    BY <2>1, <2>2, <2>3, <2>4, <2>5, <2>6, <2>7, Zenon DEF Atomic!Flush
  <2> QED
    BY <2>8 DEF Atomic!Next, Seqs, Atomic!Seqs
<1>4. CASE FlushLoop
  <2> DEFINE P == {s \in Nat : isSet(s)}
             Uncounted(a) == {s \in a .. flushTo : s \notin P}
  <2>1. /\ UNCHANGED <<nextExpected, window, Delivered, Duplicated, Reordered, history>>
        /\ holder = "flush" /\ holder' \in {"flush", "free"}
    BY <1>4 DEF FlushLoop
  <2>2. UNCHANGED <<AbsDelivered, AbsDuplicated, AbsReordered>>
    BY <2>1 DEF AbsDelivered, AbsDuplicated, AbsReordered
  <2>3. AbsLost = Lost + Cardinality(Uncounted(cursor))
    <3>1. {s \in cursor .. flushTo : ~isSet(s)} = Uncounted(cursor)
      BY <1>0
    <3> QED
      BY <2>1, <3>1 DEF AbsLost
  <2>4. CASE cursor <= flushTo
    <3>1. /\ cursor' = cursor + 1 /\ flushTo' = flushTo /\ holder' = "flush"
          /\ Lost' = IF isSet(cursor) THEN Lost ELSE Lost + 1
      BY <1>4, <2>1, <2>4 DEF FlushLoop
    <3>2. \A s : isSet(s)' <=> isSet(s)
      BY <2>1 DEF isSet, Slot, wordIndex, bitMask, words
    <3>3. {s \in cursor' .. flushTo' : ~isSet(s)'} = Uncounted(cursor + 1)
      BY <1>0, <3>1, <3>2
    <3>4. AbsLost' = Lost' + Cardinality(Uncounted(cursor + 1))
      BY <3>1, <3>3 DEF AbsLost
    <3>5. IsFiniteSet(Uncounted(cursor + 1)) /\ cursor \notin Uncounted(cursor + 1)
      <4>1. IsFiniteSet((cursor + 1) .. flushTo)
        BY <1>0, FS_Interval
      <4>2. Uncounted(cursor + 1) \subseteq (cursor + 1) .. flushTo
        OBVIOUS
      <4>3. cursor \notin (cursor + 1) .. flushTo
        BY <1>0
      <4> HIDE DEF Uncounted
      <4> QED
        BY <4>1, <4>2, <4>3, FS_Subset, Zenon
    <3>6. Uncounted(cursor) = IF isSet(cursor) THEN Uncounted(cursor + 1)
                              ELSE Uncounted(cursor + 1) \cup {cursor}
      BY <1>0, <2>4
    <3> HIDE DEF P, Uncounted
    <3>7. AbsLost' = AbsLost
      <4> DEFINE k == Cardinality(Uncounted(cursor + 1))
      <4>1. CASE isSet(cursor)
        <5>1. Lost' = Lost /\ k \in Nat /\ Cardinality(Uncounted(cursor)) = k
          BY <3>1, <3>5, <3>6, <4>1, OneTurn, Zenon
        <5> QED
          BY <1>0, <2>3, <3>4, <5>1
      <4>2. CASE ~isSet(cursor)
        <5>1. Lost' = Lost + 1 /\ k \in Nat /\ Cardinality(Uncounted(cursor)) = k + 1
          BY <3>1, <3>5, <3>6, <4>2, OneTurn
        <5> QED
          BY <1>0, <2>3, <3>4, <5>1
      <4> QED
        BY <4>1, <4>2
    <3> QED
      BY <2>1, <2>2, <3>7
         DEF Atomic!vars, Atomic!counters, Atomic!history, history
  <2>5. CASE ~(cursor <= flushTo)
    <3>1. holder' = "free" /\ Lost' = Lost
      BY <1>4, <2>5 DEF FlushLoop
    <3>2. Uncounted(cursor) = {}
      BY <1>0, <2>5
    <3>3. AbsLost = Lost
      BY <1>0, <2>3, <3>2, FS_EmptySet
    <3>4. AbsLost' = AbsLost
      BY <3>1, <3>3 DEF AbsLost
    <3> QED
      BY <2>1, <2>2, <3>4 DEF Atomic!vars, Atomic!counters, Atomic!history, history
  <2> QED
    BY <2>4, <2>5
<1>5. CASE LockReset
  <2>1. /\ window' = {} /\ nextExpected' = 0 /\ holder' = "storeDelivered"
        /\ arrived' = {} /\ tooOld' = {} /\ late' = {}
    BY <1>5 DEF LockReset
  <2>2. AbsDelivered' = 0 /\ AbsLost' = 0 /\ AbsDuplicated' = 0 /\ AbsReordered' = 0
    BY <2>1 DEF AbsDelivered, AbsLost, AbsDuplicated, AbsReordered
  <2>3. flushed' = FALSE
    BY <1>5 DEF LockReset
  <2>4. Atomic!Reset
    BY <2>1, <2>2, <2>3, Zenon DEF Atomic!Reset
  <2> QED
    BY <2>4 DEF Atomic!Next
<1>6. CASE StoreZero
  <2>1. UNCHANGED <<nextExpected, window, history>>
    BY <1>6 DEF StoreZero
  <2>2. UNCHANGED <<AbsDelivered, AbsLost, AbsDuplicated, AbsReordered>>
    BY <1>6 DEF StoreZero, AbsDelivered, AbsLost, AbsDuplicated, AbsReordered
  <2> QED
    BY <2>1, <2>2 DEF Atomic!vars, Atomic!counters, Atomic!history, history
<1>7. CASE UNCHANGED <<vars, mutex>>
  <2>1. UNCHANGED <<nextExpected, window, history, holder, cursor, flushTo,
                    Delivered, Lost, Duplicated, Reordered>>
    BY <1>7 DEF vars, mutex, counters
  <2>2. UNCHANGED <<AbsDelivered, AbsLost, AbsDuplicated, AbsReordered>>
    BY <2>1 DEF AbsDelivered, AbsLost, AbsDuplicated, AbsReordered, isSet, Slot, wordIndex, bitMask, words
  <2> QED
    BY <2>1, <2>2 DEF Atomic!vars, Atomic!counters, Atomic!history, history
<1> QED
  BY <1>1, <1>2, <1>3, <1>4, <1>5, <1>6, <1>7
     DEF ANext, avars, SnapshotBegin, SnapshotLoad, SnapshotReturn

(* sequence.go's mutators are atomic for their callers: what Observe, Flush *)
(* and Reset do through several atomic operations is, to whoever does not   *)
(* read in between, the one step SequenceTracker takes; and so what is      *)
(* proved of SequenceTracker holds here.                                    *)
THEOREM AtomicsImplementTracker == ASpec => ImplementsAtomic
<1>1. AInit => Atomic!Init
  BY DEF AInit, Init, Atomic!Init, AbsDelivered, AbsLost, AbsDuplicated, AbsReordered
<1> QED
  BY <1>1, AInvariance, AStep, PTL DEF ASpec, ImplementsAtomic, Atomic!Spec

=============================================================================
