-------------------------- MODULE TransportProofs --------------------------
(***************************************************************************)
(* Proofs about Transport and the modules it is composed of, for any size  *)
(* of a byte, any number of threads that send, of servers and searches,    *)
(* and any messages: what is serialized is parsed as what it was, what     *)
(* several threads send goes through a channel of whole frames, a JOIN     *)
(* goes where it was offered, and what the mouse draws is valid.           *)
(***************************************************************************)
EXTENDS Transport, TLAPS, SequenceTheorems, WellFoundedInduction

(* Sequences.                                                              *)

\* One sequence behind another.
Cat(a, b) == a \o b

\* A sequence behind another.
LEMMA Behind ==
    ASSUME NEW S, NEW a \in Seq(S), NEW b \in Seq(S)
    PROVE  /\ Cat(a, b) \in Seq(S) /\ size(a) \in Nat /\ size(b) \in Nat
           /\ size(Cat(a, b)) = size(a) + size(b)
           /\ \A i \in 1..size(a) : Cat(a, b)[i] = a[i]
           /\ \A i \in 1..size(b) : Cat(a, b)[size(a) + i] = b[i]
<1>1. /\ Cat(a, b) \in Seq(S) /\ size(Cat(a, b)) = size(a) + size(b)
      /\ \A i \in 1..size(a) + size(b) :
            Cat(a, b)[i] = IF i <= size(a) THEN a[i] ELSE b[i - size(a)]
  BY ConcatProperties, Zenon DEF Cat, size
<1>2. size(a) \in Nat /\ size(b) \in Nat
  BY LenProperties DEF size
<1>3. ASSUME NEW i \in 1..size(b) PROVE Cat(a, b)[size(a) + i] = b[i]
  <2>1. size(a) + i \in 1..size(a) + size(b) /\ ~(size(a) + i <= size(a))
        /\ (size(a) + i) - size(a) = i
    BY <1>2
  <2> QED
    BY <1>1, <2>1
<1> QED
  BY <1>1, <1>2, <1>3

\* Sequences with the same elements are the same.
LEMMA SameSeq ==
    ASSUME NEW S, NEW a \in Seq(S), NEW b \in Seq(S), size(a) = size(b),
           \A i \in 1..size(a) : a[i] = b[i]
    PROVE  a = b
BY DEF size

\* One element behind another.
LEMMA Pair ==
    ASSUME NEW S, NEW x \in S, NEW y \in S
    PROVE  <<x>> \o <<y>> = <<x, y>> /\ <<x, y>> \in Seq(S) /\ size(<<x, y>>) = 2
<1> DEFINE a == <<x>>  b == <<y>>  c == <<x, y>>
<1>1. a \in Seq(S) /\ b \in Seq(S) /\ c \in Seq(S)
  OBVIOUS
<1>2. a[1] = x /\ b[1] = y /\ c[1] = x /\ c[2] = y
  OBVIOUS
<1>3. size(a) = 1 /\ size(b) = 1 /\ size(c) = 2
  BY DEF size
<1> HIDE DEF a, b, c
<1>4. /\ Cat(a, b) \in Seq(S) /\ size(Cat(a, b)) = size(a) + size(b)
      /\ \A i \in 1..size(a) : Cat(a, b)[i] = a[i]
      /\ \A i \in 1..size(b) : Cat(a, b)[size(a) + i] = b[i]
  BY <1>1, Behind
<1>5. Cat(a, b)[1] = c[1] /\ Cat(a, b)[1 + 1] = c[2]
  BY <1>2, <1>3, <1>4
<1>6. size(Cat(a, b)) = size(c) /\ \A i \in 1..size(Cat(a, b)) : Cat(a, b)[i] = c[i]
  BY <1>3, <1>4, <1>5
<1>7. Cat(a, b) = c
  BY <1>1, <1>4, <1>6, SameSeq
<1> QED
  BY <1>1, <1>3, <1>7 DEF a, b, c, Cat

\* A size is a natural number.
LEMMA Sizes == ASSUME NEW S, NEW q \in Seq(S) PROVE size(q) \in Nat
BY LenProperties DEF size

\* Three sequences.
LEMMA Associates ==
    ASSUME NEW S, NEW a \in Seq(S), NEW b \in Seq(S), NEW c \in Seq(S)
    PROVE  Cat(Cat(a, b), c) = Cat(a, Cat(b, c))
BY ConcatAssociative DEF Cat

\* A piece of a sequence.
LEMMA Cut ==
    ASSUME NEW S, NEW q \in Seq(S), NEW k \in Nat, NEW n \in Nat, k + n <= size(q)
    PROVE  /\ SubSeq(q, k + 1, k + n) \in Seq(S) /\ size(SubSeq(q, k + 1, k + n)) = n
           /\ \A i \in 1..n : SubSeq(q, k + 1, k + n)[i] = q[k + i]
           /\ size(q) \in Nat
<1>1. size(q) \in Nat
  BY Sizes
<1>2. /\ SubSeq(q, k + 1, k + n) \in Seq(S) /\ size(SubSeq(q, k + 1, k + n)) = n
      /\ \A i \in 1..n : SubSeq(q, k + 1, k + n)[i] = q[k + i]
  BY DEF size
<1> QED
  BY <1>1, <1>2

\* The beginning of a sequence, and what is behind it.
LEMMA Parted ==
    ASSUME NEW S, NEW q \in Seq(S), NEW k \in 0..size(q)
    PROVE  /\ Take(q, k) \in Seq(S) /\ size(Take(q, k)) = k
           /\ \A i \in 1..k : Take(q, k)[i] = q[i]
           /\ Drop(q, k) \in Seq(S) /\ size(Drop(q, k)) = size(q) - k
           /\ \A i \in 1..size(q) - k : Drop(q, k)[i] = q[k + i]
           /\ size(q) \in Nat
BY DEF Take, Drop, size

\* The two make up the sequence.
LEMMA Rejoined ==
    ASSUME NEW S, NEW q \in Seq(S), NEW k \in 0..size(q)
    PROVE  Cat(Take(q, k), Drop(q, k)) = q
<1>1. Len(q) \in Nat /\ 1 \in 1..Len(q) + 1 /\ k \in 1 - 1..Len(q) /\ Len(q) \in k..Len(q)
  BY LenProperties DEF size
<1>2. SubSeq(q, 1, k) \o SubSeq(q, k + 1, Len(q)) = SubSeq(q, 1, Len(q))
  BY <1>1, ConcatAdjacentSubSeq
<1>3. SubSeq(q, 1, Len(q)) = q
  BY SubSeqFull
<1> QED
  BY <1>2, <1>3 DEF Cat, Take, Drop

-----------------------------------------------------------------------------
(* Integers.                                                               *)

\* What the widths are made of.
LEMMA Widths ==
    /\ Base \in Nat /\ Base > 10
    /\ Word \in Nat /\ Word = Base * Base /\ Word > 100 /\ Word > Base
    /\ Long \in Nat /\ Long = Word * Word /\ Long > 24 + 4 * Word /\ Long > Base + 24
<1>1. Base \in Nat /\ Base > 10
  BY WireAssumption
<1>2. Word \in Nat /\ Word = Base * Base /\ Word > 100 /\ Word > Base
  BY <1>1 DEF Word
<1>3. Long \in Nat /\ Long = Word * Word /\ Long > 24 + 4 * Word
  BY <1>2 DEF Long
<1> QED
  BY <1>1, <1>2, <1>3

\* Division with remainder...
LEMMA Division ==
    ASSUME NEW b \in Nat, b > 10, NEW v \in Nat
    PROVE  /\ v \div b \in Nat /\ v % b \in 0..(b - 1)
           /\ v = (b * (v \div b)) + (v % b)
OBVIOUS

\* ...is unique.
LEMMA DivisionUnique ==
    ASSUME NEW b \in Nat, b > 10, NEW q \in Nat, NEW r \in 0..(b - 1),
           NEW v, v = (b * q) + r
    PROVE  v \in Nat /\ v \div b = q /\ v % b = r
OBVIOUS

\* Integers smaller than b*b have a quotient smaller than b.
LEMMA Quotient ==
    ASSUME NEW b \in Nat, b > 10, NEW c \in Nat, NEW v \in 0..(b * c - 1)
    PROVE  v \div b \in 0..(c - 1)
OBVIOUS

\* An integer of one byte.
LEMMA Write8 ==
    ASSUME NEW v \in Byte
    PROVE  write8(v) = <<v>> /\ v \in Nat
BY WireAssumption DEF write8, Byte

\* It is its only byte.
LEMMA Written8 ==
    ASSUME NEW v \in Byte
    PROVE  write8(v) \in Seq(Byte) /\ size(write8(v)) = 1 /\ write8(v)[1] = v
<1>1. write8(v) = <<v>>
  BY Write8
<1>2. <<v>> \in Seq(Byte) /\ <<v>>[1] = v
  OBVIOUS
<1>3. size(<<v>>) = 1
  BY DEF size
<1> QED
  BY <1>1, <1>2, <1>3, Zenon

\* An integer of any width gives two bytes, those of the number they leave of it.
LEMMA Write16 ==
    ASSUME NEW v \in Nat
    PROVE  /\ write16(v) \in Seq(Byte) /\ size(write16(v)) = 2
           /\ write16(v)[1] \in Nat /\ write16(v)[2] \in Nat
           /\ write16(v)[1] * Base + write16(v)[2] = v % Word
<1> DEFINE q == v \div Base  r == v % Base  h == q \div Base  m == q % Base
           e == (m * Base) + r
<1>0. Base \in Nat /\ Base > 10
  BY Widths
<1>1. q \in Nat /\ r \in 0..(Base - 1) /\ v = (Base * q) + r
  BY <1>0, Division
<1> HIDE DEF q
<1>2. h \in Nat /\ m \in 0..(Base - 1) /\ q = (Base * h) + m
  BY <1>0, <1>1, Division
<1>3. write16(v) = <<m, r>>
  <2>1. write16(v) = <<m>> \o <<r>>
    BY DEF write16, write8, q
  <2>2. m \in Nat /\ r \in Nat
    BY <1>0, <1>1, <1>2
  <2> HIDE DEF m, r
  <2> QED
    BY <2>1, <2>2, Pair
<1> HIDE DEF r, h, m
<1>4. v = (Word * h) + e
  BY <1>0, <1>1, <1>2, Widths
<1>5. e \in 0..(Word - 1)
  <2>1. m * Base <= (Base - 1) * Base
    BY <1>0, <1>2
  <2> QED
    BY <1>0, <1>1, <1>2, <2>1, Widths
<1> HIDE DEF e
<1>6. Word \in Nat /\ Word > 10
  BY Widths
<1>7. v % Word = e
  BY <1>2, <1>4, <1>5, <1>6, DivisionUnique
<1> QED
  <2>1. m \in Byte /\ r \in Byte /\ m \in Nat /\ r \in Nat
    BY <1>0, <1>1, <1>2 DEF Byte
  <2>2. <<m, r>> \in Seq(Byte) /\ size(<<m, r>>) = 2
    BY <2>1, Pair
  <2> QED
    BY <1>3, <1>7, <2>1, <2>2 DEF e

\* The same for four...
LEMMA Write32 ==
    ASSUME NEW v \in Nat
    PROVE  /\ write32(v) \in Seq(Byte) /\ size(write32(v)) = 4
           /\ read32(write32(v), 0) \in Nat
           /\ read32(write32(v), 0) = v % Long
<1> DEFINE q == v \div Word  r == v % Word  h == q \div Word  m == q % Word
           a == write16(q)  b == write16(v)  e == (m * Word) + r
<1>0. Word \in Nat /\ Word > 10
  BY Widths
<1>1. q \in Nat /\ r \in 0..(Word - 1) /\ v = (Word * q) + r
  BY <1>0, Division
<1> HIDE DEF q
<1>2. h \in Nat /\ m \in 0..(Word - 1) /\ q = (Word * h) + m
  BY <1>0, <1>1, Division
<1>3. write32(v) = Cat(a, b)
  BY DEF write32, q, Cat
<1>4. /\ a \in Seq(Byte) /\ size(a) = 2 /\ (a[1] * Base) + a[2] = m
      /\ b \in Seq(Byte) /\ size(b) = 2 /\ (b[1] * Base) + b[2] = r
  BY <1>1, Write16
<1> HIDE DEF r, h, m, a, b
<1>5. /\ Cat(a, b) \in Seq(Byte) /\ size(Cat(a, b)) = 4
      /\ Cat(a, b)[1] = a[1] /\ Cat(a, b)[2] = a[2]
      /\ Cat(a, b)[3] = b[1] /\ Cat(a, b)[4] = b[2]
  <2>1. /\ \A i \in 1..2 : Cat(a, b)[i] = a[i]
        /\ \A i \in 1..2 : Cat(a, b)[2 + i] = b[i]
        /\ Cat(a, b) \in Seq(Byte) /\ size(Cat(a, b)) = 4
    <3>1. a \in Seq(Byte) /\ b \in Seq(Byte)
      BY <1>4
    <3>2. /\ \A i \in 1..size(a) : Cat(a, b)[i] = a[i]
          /\ \A i \in 1..size(b) : Cat(a, b)[size(a) + i] = b[i]
          /\ Cat(a, b) \in Seq(Byte) /\ size(Cat(a, b)) = size(a) + size(b)
      BY <3>1, Behind
    <3> QED
      BY <1>4, <3>2
  <2>2. Cat(a, b)[2 + 1] = b[1] /\ Cat(a, b)[2 + 2] = b[2]
    BY <2>1
  <2> QED
    BY <2>1, <2>2
<1>6. read32(Cat(a, b), 0) = e
  BY <1>4, <1>5 DEF read32, read16, read8
<1>7. v = (Long * h) + e
  BY <1>0, <1>1, <1>2, Widths
<1>8. e \in 0..(Long - 1)
  <2>1. m * Word <= (Word - 1) * Word
    BY <1>0, <1>2
  <2> QED
    BY <1>0, <1>1, <1>2, <2>1, Widths
<1> HIDE DEF e
<1>9. Long \in Nat /\ Long > 10
  BY Widths
<1>10. v % Long = e
  BY <1>2, <1>7, <1>8, <1>9, DivisionUnique
<1> QED
  BY <1>3, <1>5, <1>6, <1>8, <1>9, <1>10

\* Four equal bytes make the same integer.
LEMMA Same32 ==
    ASSUME NEW d, NEW off \in Nat, NEW e,
           d[off + 1] = e[1], d[off + 2] = e[2], d[off + 3] = e[3], d[off + 4] = e[4]
    PROVE  read32(d, off) = read32(e, 0)
BY DEF read32, read16, read8

\* ...and for eight.
LEMMA Write64 ==
    ASSUME NEW v \in uint64
    PROVE  write64(v) \in Seq(Byte) /\ size(write64(v)) = 8 /\ read64(write64(v), 0) = v
<1> DEFINE q == v \div Long  r == v % Long  a == write32(q)  b == write32(v)
<1>0. Long \in Nat /\ Long > 10 /\ v \in Nat
  BY Widths DEF uint64
<1>1. q \in Nat /\ r \in 0..(Long - 1) /\ v = (Long * q) + r
  BY <1>0, Division
<1>2. q \in 0..(Long - 1)
  BY <1>0, Quotient DEF uint64
<1>3. write64(v) = Cat(a, b)
  BY DEF write64, Cat
<1> HIDE DEF q
<1>4. q % Long = q
  BY <1>0, <1>2
<1>5. /\ a \in Seq(Byte) /\ size(a) = 4 /\ read32(a, 0) = q
      /\ b \in Seq(Byte) /\ size(b) = 4 /\ read32(b, 0) = r
  BY <1>0, <1>1, <1>4, Write32
<1> HIDE DEF r, a, b
<1>6. /\ Cat(a, b) \in Seq(Byte) /\ size(Cat(a, b)) = 8
      /\ \A i \in 1..size(a) : Cat(a, b)[i] = a[i]
      /\ \A i \in 1..size(b) : Cat(a, b)[size(a) + i] = b[i]
  <2>1. a \in Seq(Byte) /\ b \in Seq(Byte)
    BY <1>5
  <2>2. /\ Cat(a, b) \in Seq(Byte) /\ size(Cat(a, b)) = size(a) + size(b)
        /\ \A i \in 1..size(a) : Cat(a, b)[i] = a[i]
        /\ \A i \in 1..size(b) : Cat(a, b)[size(a) + i] = b[i]
    BY <2>1, Behind
  <2> QED
    BY <1>5, <2>2
<1> DEFINE d == Cat(a, b)
<1>7. read32(d, 0) = q
  <2>1. /\ Cat(a, b)[1] = a[1] /\ Cat(a, b)[2] = a[2]
        /\ Cat(a, b)[3] = a[3] /\ Cat(a, b)[4] = a[4]
    BY <1>5, <1>6
  <2>2. d[0 + 1] = a[1] /\ d[0 + 2] = a[2] /\ d[0 + 3] = a[3] /\ d[0 + 4] = a[4]
    <3>1. 0 + 1 = 1 /\ 0 + 2 = 2 /\ 0 + 3 = 3 /\ 0 + 4 = 4
      OBVIOUS
    <3> HIDE DEF d
    <3>2. d[1] = a[1] /\ d[2] = a[2] /\ d[3] = a[3] /\ d[4] = a[4]
      BY <2>1 DEF d
    <3> QED
      BY <3>1, <3>2
  <2> HIDE DEF d
  <2>3. read32(d, 0) = read32(a, 0)
    BY <2>2, Same32
  <2> QED
    BY <1>5, <2>3
<1>8. read32(d, 4) = r
  <2>1. /\ Cat(a, b)[4 + 1] = b[1] /\ Cat(a, b)[4 + 2] = b[2]
        /\ Cat(a, b)[4 + 3] = b[3] /\ Cat(a, b)[4 + 4] = b[4]
    BY <1>5, <1>6
  <2>2. d[4 + 1] = b[1] /\ d[4 + 2] = b[2] /\ d[4 + 3] = b[3] /\ d[4 + 4] = b[4]
    BY <2>1
  <2> HIDE DEF d
  <2>3. read32(d, 4) = read32(b, 0)
    BY <2>2, Same32
  <2> QED
    BY <1>5, <2>3
<1>9. d \in Seq(Byte) /\ size(d) = 8 /\ write64(v) = d
  BY <1>3, <1>6
<1> HIDE DEF d
<1>10. read64(d, 0) = (q * Long) + r
  BY <1>7, <1>8 DEF read64
<1> QED
  BY <1>0, <1>1, <1>2, <1>9, <1>10

\* The bytes of q are in data from off on.
Lies(q, data, off) == \A k \in 1..size(q) : data[off + k] = q[k]

\* The length of two sequences one behind the other.
LEMMA Longer ==
    ASSUME NEW a \in Seq(Byte), NEW b \in Seq(Byte),
           NEW m \in Nat, NEW n \in Nat, size(a) = m, size(b) = n
    PROVE  Cat(a, b) \in Seq(Byte) /\ size(Cat(a, b)) = m + n
BY Behind

\* The same of bytes, with what is where.
LEMMA BytesBehind ==
    ASSUME NEW a \in Seq(Byte), NEW b \in Seq(Byte)
    PROVE  /\ size(a) \in Nat /\ size(b) \in Nat /\ size(Cat(a, b)) = size(a) + size(b)
           /\ \A i \in 1..size(a) : Cat(a, b)[i] = a[i]
           /\ \A i \in 1..size(b) : Cat(a, b)[size(a) + i] = b[i]
BY Behind

\* Of two sequences one behind the other, each lies where it should.
LEMMA LieBoth ==
    ASSUME NEW a \in Seq(Byte), NEW b \in Seq(Byte), NEW off \in Nat, NEW data,
           Lies(Cat(a, b), data, off), NEW end \in Nat, end = off + size(a)
    PROVE  Lies(a, data, off) /\ Lies(b, data, end)
<1>1. /\ size(a) \in Nat /\ size(b) \in Nat /\ size(Cat(a, b)) = size(a) + size(b)
      /\ \A i \in 1..size(a) : Cat(a, b)[i] = a[i]
      /\ \A i \in 1..size(b) : Cat(a, b)[size(a) + i] = b[i]
  BY BytesBehind
<1>2. Lies(a, data, off)
  BY <1>1 DEF Lies
<1>3. ASSUME NEW k \in 1..size(b) PROVE data[end + k] = b[k]
  <2>1. size(a) + k \in 1..size(Cat(a, b)) /\ off + (size(a) + k) = end + k
    BY <1>1
  <2> QED
    BY <1>1, <2>1 DEF Lies
<1> QED
  BY <1>2, <1>3 DEF Lies

\* What is written somewhere is read there.
LEMMA Read ==
    ASSUME NEW off \in Nat, NEW data
    PROVE  /\ \A v \in Byte : Lies(write8(v), data, off) => read8(data, off) = v
           /\ \A v \in uint16 : Lies(write16(v), data, off) => read16(data, off) = v
           /\ \A v \in uint32 : Lies(write32(v), data, off) => read32(data, off) = v
           /\ \A v \in uint64 : Lies(write64(v), data, off) => read64(data, off) = v
<1>1. ASSUME NEW v \in Byte, Lies(write8(v), data, off) PROVE read8(data, off) = v
  BY <1>1, Written8 DEF Lies, read8
<1>2. ASSUME NEW v \in uint16, Lies(write16(v), data, off) PROVE read16(data, off) = v
  <2> DEFINE q == write16(v)
  <2>1. v \in Nat /\ v % Word = v
    BY Widths DEF uint16
  <2>2. size(q) = 2 /\ (q[1] * Base) + q[2] = v
    BY <2>1, Write16
  <2>3. data[off + 1] = q[1] /\ data[off + 2] = q[2]
    BY <1>2, <2>2 DEF Lies
  <2> HIDE DEF q
  <2> QED
    BY <2>2, <2>3 DEF read16, read8
<1>3. ASSUME NEW v \in uint32, Lies(write32(v), data, off) PROVE read32(data, off) = v
  <2> DEFINE q == write32(v)
  <2>1. v \in Nat /\ v % Long = v
    BY Widths DEF uint32
  <2>2. size(q) = 4 /\ read32(q, 0) = v
    BY <2>1, Write32
  <2>3. /\ data[off + 1] = q[1] /\ data[off + 2] = q[2]
        /\ data[off + 3] = q[3] /\ data[off + 4] = q[4]
    BY <1>3, <2>2 DEF Lies
  <2> HIDE DEF q
  <2> QED
    BY <2>2, <2>3 DEF read32, read16, read8
<1>4. ASSUME NEW v \in uint64, Lies(write64(v), data, off) PROVE read64(data, off) = v
  <2> DEFINE q == write64(v)
  <2>1. size(q) = 8 /\ read64(q, 0) = v
    BY Write64
  <2>2. /\ data[off + 1] = q[1] /\ data[off + 2] = q[2]
        /\ data[off + 3] = q[3] /\ data[off + 4] = q[4]
        /\ data[off + 5] = q[5] /\ data[off + 6] = q[6]
        /\ data[off + 7] = q[7] /\ data[off + 8] = q[8]
    BY <1>4, <2>1 DEF Lies
  <2> HIDE DEF q
  <2> QED
    BY <2>1, <2>2 DEF read64, read32, read16, read8
<1> QED
  BY <1>1, <1>2, <1>3, <1>4

\* What is written are bytes, as many as the width says.
LEMMA Written ==
    /\ \A v \in Byte : write8(v) \in Seq(Byte) /\ size(write8(v)) = 1
    /\ \A v \in uint16 : write16(v) \in Seq(Byte) /\ size(write16(v)) = 2
    /\ \A v \in uint32 : write32(v) \in Seq(Byte) /\ size(write32(v)) = 4
    /\ \A v \in uint64 : write64(v) \in Seq(Byte) /\ size(write64(v)) = 8
<1>1. \A v \in Byte : write8(v) \in Seq(Byte) /\ size(write8(v)) = 1
  BY Written8
<1>2. uint16 \subseteq Nat /\ uint32 \subseteq Nat
  BY Widths DEF uint16, uint32
<1> QED
  BY <1>1, <1>2, Write16, Write32, Write64

-----------------------------------------------------------------------------
(* Frames and payloads.                                                    *)

\* A sequence lies in itself.
LEMMA LiesInItself == ASSUME NEW q PROVE Lies(q, q, 0)
<1>1. ASSUME NEW k \in 1..size(q) PROVE q[0 + k] = q[k]
  <2>1. 0 + k = k
    OBVIOUS
  <2> QED
    BY <2>1
<1> QED
  BY <1>1 DEF Lies

\* What lies in bytes can be cut out of them.
LEMMA CutOut ==
    ASSUME NEW q \in Seq(Byte), NEW data \in Seq(Byte), NEW off \in Nat,
           Lies(q, data, off), size(data) >= off + size(q)
    PROVE  SubSeq(data, off + 1, off + size(q)) = q
<1> DEFINE part == SubSeq(data, off + 1, off + size(q))
<1>1. /\ part \in Seq(Byte) /\ size(part) = size(q) /\ size(q) \in Nat
      /\ \A k \in 1..size(q) : part[k] = data[off + k]
  <2>1. q \in Seq(Byte) /\ size(q) \in Nat /\ off + size(q) <= size(data)
    BY Sizes
  <2> QED
    BY <2>1, Cut
<1> HIDE DEF part
<1>2. \A k \in 1..size(q) : part[k] = q[k]
  BY <1>1 DEF Lies
<1>3. part = q
  BY <1>1, <1>2, SameSeq
<1> QED
  BY <1>3 DEF part

\* The opcodes and codes are bytes.
LEMMA Codes == 0..10 \subseteq Byte
BY Widths DEF Byte

\* A name as it is written.
LEMMA TextWritten ==
    ASSUME NEW name \in Name
    PROVE  /\ size(name) \in Byte /\ name \in Seq(Byte) /\ size(name) \in Nat
           /\ Text(name) \in Seq(Byte) /\ size(Text(name)) = 1 + size(name)
<1>1. size(name) \in Byte /\ name \in Seq(Byte) /\ size(name) \in Nat
  <2>1. name \in Seq(Byte) /\ size(name) < Base
    BY DEF Name
  <2>2. size(name) \in Nat
    BY <2>1, Sizes
  <2> QED
    BY <2>1, <2>2, Widths DEF Byte
<1>2. write8(size(name)) \in Seq(Byte) /\ size(write8(size(name))) = 1
  BY <1>1, Written
<1> QED
  BY <1>1, <1>2, Longer DEF Text, Cat

\* It is read where it was written.
LEMMA TextRead ==
    ASSUME NEW name \in Name, NEW data \in Seq(Byte), NEW off \in Nat,
           Lies(Text(name), data, off), size(data) >= off + 1 + size(name)
    PROVE  ParseText(data, off) = Ok(name)
<1>1. size(name) \in Byte /\ name \in Seq(Byte) /\ size(name) \in Nat
  BY TextWritten
<1>2. write8(size(name)) \in Seq(Byte) /\ size(write8(size(name))) = 1
  BY <1>1, Written
<1>3. Lies(write8(size(name)), data, off) /\ Lies(name, data, off + 1)
  BY <1>1, <1>2, LieBoth DEF Text, Cat
<1>4. read8(data, off) = size(name)
  BY <1>1, <1>3, Read
<1>5. SubSeq(data, (off + 1) + 1, (off + 1) + size(name)) = name
  BY <1>1, <1>3, CutOut
<1>6. SubSeq(data, off + 2, off + 1 + size(name)) = name
  BY <1>1, <1>5
<1>7. size(data) \in Nat
  BY Sizes
<1>8. ~(size(data) < off + 1 + size(name))
  BY <1>1, <1>7
<1>9. ~(size(data) < off + 1)
  BY <1>1, <1>7
<1> QED
  BY <1>4, <1>6, <1>8, <1>9 DEF ParseText

\* Bytes that are not none have a first one.
LEMMA First ==
    ASSUME NEW p \in Seq(Byte), size(p) > 0
    PROVE  p # <<>> /\ Head(p) = p[1]
BY DEF size

\* A code and what follows it.
LEMMA Coded ==
    ASSUME NEW v \in Byte, NEW text \in Seq(Byte)
    PROVE  LET p == Cat(write8(v), text)
           IN /\ p \in Seq(Byte) /\ size(p) = 1 + size(text) /\ size(p) > 0
              /\ p # <<>> /\ Head(p) = v /\ read8(p, 0) = v /\ Tail(p) = text
<1> DEFINE w == write8(v)  p == Cat(w, text)
<1>1. w \in Seq(Byte) /\ size(w) = 1 /\ w[1] = v
  BY Written8
<1>2. size(text) \in Nat
  BY Sizes
<1> HIDE DEF w
<1>3. /\ p \in Seq(Byte) /\ size(p) = 1 + size(text)
      /\ \A i \in 1..size(w) : p[i] = w[i]
      /\ \A i \in 1..size(text) : p[size(w) + i] = text[i]
  <2>1. p \in Seq(Byte) /\ size(p) = 1 + size(text)
    BY <1>1, <1>2, Longer
  <2> QED
    BY <1>1, <2>1, BytesBehind
<1> HIDE DEF p
<1>4. size(p) > 0 /\ p[1] = v /\ \A i \in 1..size(text) : p[1 + i] = text[i]
  BY <1>1, <1>2, <1>3
<1>5. p # <<>> /\ Head(p) = v
  BY <1>3, <1>4, First
<1>6. read8(p, 0) = v
  BY <1>4 DEF read8
<1>7. Tail(p) = text
  <2>1. /\ Tail(p) \in Seq(Byte) /\ size(Tail(p)) = size(p) - 1
        /\ \A i \in 1..size(Tail(p)) : Tail(p)[i] = p[i + 1]
    BY <1>3, <1>5, HeadTailProperties DEF size
  <2>2. size(Tail(p)) = size(text)
    BY <1>2, <1>3, <2>1
  <2>3. ASSUME NEW i \in 1..size(Tail(p)) PROVE Tail(p)[i] = text[i]
    <3>1. i \in 1..size(text) /\ i + 1 = 1 + i
      BY <1>2, <2>2
    <3> QED
      BY <1>4, <2>1, <3>1
  <2> QED
    BY <2>1, <2>2, <2>3, SameSeq
<1> QED
  BY <1>3, <1>4, <1>5, <1>6, <1>7 DEF p, w

\* A result that is no error.
LEMMA OkIs == ASSUME NEW x PROVE Ok(x).ok /\ Ok(x).value = x
BY DEF Ok

\* What is said in an opcode's payload is what the handler of that opcode
\* takes from it.
Survives(m) ==
    /\ m = [opcode |-> m.opcode, says |-> m.says] /\ m.opcode \in Byte
    /\ Payload(m) \in Seq(Byte) /\ size(Payload(m)) < Long
    /\ ParsePayload(m.opcode, Payload(m)) = Ok(m.says)

\* Messages without a payload.
LEMMA EmptySurvives == ASSUME NEW m \in EmptyMessage PROVE Survives(m)
<1>1. /\ m = [opcode |-> m.opcode, says |-> m.says] /\ m.says = <<>>
      /\ m.opcode \in {2, 8, 9, 10}
  BY DEF EmptyMessage, Opcode
<1>2. Payload(m) = <<>>
  BY <1>1 DEF Payload, Opcode
<1>3. ParsePayload(m.opcode, <<>>) = Ok(<<>>)
  BY <1>1 DEF ParsePayload, Opcode
<1>4. <<>> \in Seq(Byte) /\ size(<<>>) = 0
  BY DEF size
<1>5. size(<<>>) < Long
  BY <1>4, Widths
<1>6. m.opcode \in Byte
  BY <1>1, Codes
<1> QED
  BY <1>1, <1>2, <1>3, <1>4, <1>5, <1>6 DEF Survives

\* A CREATE: a name behind its length.
LEMMA CreateSurvives == ASSUME NEW m \in CreateMessage PROVE Survives(m)
<1> DEFINE name == m.says
<1>1. /\ m = [opcode |-> m.opcode, says |-> m.says] /\ name \in Name
      /\ m.opcode = 0
  BY DEF CreateMessage, Opcode
<1>2. Payload(m) = Text(name)
  BY <1>1 DEF Payload, Opcode, SerializeCreate
<1> HIDE DEF name
<1>3. /\ Text(name) \in Seq(Byte) /\ size(Text(name)) = 1 + size(name)
      /\ size(name) \in Byte
  BY <1>1, TextWritten
<1>4. size(Text(name)) < Long /\ size(Text(name)) >= 0 + 1 + size(name)
  BY <1>3, Widths DEF Byte
<1>5. ParseText(Text(name), 0) = Ok(name)
  BY <1>1, <1>3, <1>4, LiesInItself, TextRead
<1>6. ParsePayload(m.opcode, Text(name)) = Ok(name)
  BY <1>1, <1>5 DEF ParsePayload, Opcode, ParseCreate
<1>7. m.opcode \in Byte
  BY <1>1, Codes
<1> QED
  BY <1>1, <1>2, <1>3, <1>4, <1>6, <1>7 DEF Survives, name

\* A JOIN: the session, and the name.
LEMMA JoinSurvives == ASSUME NEW m \in JoinMessage PROVE Survives(m)
<1> DEFINE id == m.says.session_id  name == m.says.name
           w == write32(id)  text == Text(name)  p == Cat(w, text)
<1>1. /\ m = [opcode |-> m.opcode, says |-> m.says] /\ id \in uint32 /\ name \in Name
      /\ m.says = [session_id |-> id, name |-> name] /\ m.opcode = 1
  BY DEF JoinMessage, Opcode
<1>2. Payload(m) = p
  BY <1>1 DEF Payload, Opcode, SerializeJoin, Cat
<1> HIDE DEF name, id
<1>3. /\ text \in Seq(Byte) /\ size(text) = 1 + size(name) /\ size(name) \in Byte
      /\ size(name) \in Nat
  BY <1>1, TextWritten
<1>4. w \in Seq(Byte) /\ size(w) = 4
  BY <1>1, Written
<1>5. Lies(Cat(w, text), p, 0)
  BY LiesInItself
<1> HIDE DEF w, text
<1>6. p \in Seq(Byte) /\ size(p) = 4 + (1 + size(name))
  BY <1>3, <1>4, Longer
<1> HIDE DEF p
<1>7. Lies(w, p, 0) /\ Lies(text, p, 4)
  BY <1>3, <1>4, <1>5, LieBoth
<1>8. read32(p, 0) = id
  BY <1>1, <1>7, Read DEF w
<1>9. ParseText(p, 4) = Ok(name)
  <2>1. size(p) >= 4 + 1 + size(name)
    BY <1>3, <1>6
  <2> QED
    BY <1>1, <1>6, <1>7, <2>1, TextRead DEF text
<1>10. ParsePayload(m.opcode, p) = Ok(m.says)
  <2>1. ParsePayload(m.opcode, p) = ParseJoin(p)
    BY <1>1 DEF ParsePayload, Opcode
  <2>2. ParseJoin(p) = Ok([session_id |-> id, name |-> name])
    <3>1. ParseText(p, 4).ok /\ ParseText(p, 4).value = name
      BY <1>9, OkIs
    <3> QED
      BY <1>8, <3>1 DEF ParseJoin
  <2> QED
    BY <1>1, <2>1, <2>2
<1>11. size(p) < Long
  BY <1>3, <1>6, Widths DEF Byte
<1>12. m.opcode \in Byte
  BY <1>1, Codes
<1> QED
  BY <1>1, <1>2, <1>6, <1>10, <1>11, <1>12 DEF Survives

\* A code and two, or one, numbers of 32 bits.
LEMMA CreateAckSurvives == ASSUME NEW m \in CreateAckMessage PROVE Survives(m)
<1> DEFINE code == m.says.code  id == m.says.session_id  member == m.says.member_id
           a == write8(code)  b == write32(id)  c == write32(member)
           ab == Cat(a, b)  p == Cat(ab, c)
<1>1. /\ m = [opcode |-> m.opcode, says |-> m.says] /\ id \in uint32 /\ member \in uint32
      /\ m.says = [code |-> code, session_id |-> id, member_id |-> member]
      /\ code = 2 /\ m.opcode = 3
  BY DEF CreateAckMessage, Opcode, ackcode
<1>2. Payload(m) = p
  BY <1>1 DEF Payload, Opcode, ackcode, SerializeCreateAck, Cat
<1>3. code \in Byte
  BY <1>1, Codes
<1> HIDE DEF code, id, member
<1>4. /\ a \in Seq(Byte) /\ size(a) = 1 /\ b \in Seq(Byte) /\ size(b) = 4
      /\ c \in Seq(Byte) /\ size(c) = 4
  BY <1>1, <1>3, Written
<1>5. a[1] = code
  BY <1>3, Written8
<1>6. Lies(Cat(ab, c), p, 0)
  BY LiesInItself
<1>7. read8(a, 0) = code
  BY <1>5 DEF read8
<1> HIDE DEF a, b, c
<1>8. ab \in Seq(Byte) /\ size(ab) = 5
  BY <1>4, Longer
<1> HIDE DEF ab
<1>9. p \in Seq(Byte) /\ size(p) = 9
  BY <1>4, <1>8, Longer
<1> HIDE DEF p
<1>10. Lies(ab, p, 0) /\ Lies(c, p, 5)
  BY <1>4, <1>6, <1>8, LieBoth
<1>11. Lies(a, p, 0) /\ Lies(b, p, 1)
  BY <1>4, <1>10, LieBoth DEF ab
<1>12. read8(p, 0) = code /\ read32(p, 1) = id /\ read32(p, 5) = member
  BY <1>1, <1>3, <1>10, <1>11, Read DEF a, b, c
<1>13. p # <<>> /\ Head(p) = 2
  <2>1. p # <<>> /\ Head(p) = p[1]
    BY <1>9, First
  <2> QED
    BY <1>1, <1>12, <2>1 DEF read8
<1>14. ParsePayload(m.opcode, p) = Ok(m.says)
  <2>1. ParsePayload(m.opcode, p) = ParseCreateAck(p)
    BY <1>1, <1>13 DEF ParsePayload, Opcode, ackcode
  <2>2. ParseCreateAck(p) = Ok([code |-> code, session_id |-> id, member_id |-> member])
    BY <1>9, <1>12 DEF ParseCreateAck
  <2> QED
    BY <1>1, <2>1, <2>2
<1>15. size(p) < Long
  BY <1>9, Widths
<1>16. m.opcode \in Byte
  BY <1>1, Codes
<1> QED
  BY <1>1, <1>2, <1>9, <1>14, <1>15, <1>16 DEF Survives

\* The ack of a JOIN.
LEMMA JoinAckSurvives == ASSUME NEW m \in JoinAckMessage PROVE Survives(m)
<1> DEFINE code == m.says.code  member == m.says.member_id
           a == write8(code)  c == write32(member)  p == Cat(a, c)
<1>1. /\ m = [opcode |-> m.opcode, says |-> m.says] /\ member \in uint32
      /\ m.says = [code |-> code, member_id |-> member] /\ code = 3 /\ m.opcode = 3
  BY DEF JoinAckMessage, Opcode, ackcode
<1>2. Payload(m) = p
  BY <1>1 DEF Payload, Opcode, ackcode, SerializeJoinAck, Cat
<1>3. code \in Byte
  BY <1>1, Codes
<1> HIDE DEF code, member
<1>4. /\ a \in Seq(Byte) /\ size(a) = 1 /\ c \in Seq(Byte) /\ size(c) = 4
  BY <1>1, <1>3, Written
<1>5. /\ p \in Seq(Byte) /\ size(p) = 1 + 4 /\ p # <<>> /\ Head(p) = code
      /\ read8(p, 0) = code
  BY <1>3, <1>4, Coded
<1>6. Lies(Cat(a, c), p, 0)
  BY LiesInItself
<1> HIDE DEF a, c
<1> HIDE DEF p
<1>7. Lies(c, p, 1)
  BY <1>4, <1>6, LieBoth
<1>8. read32(p, 1) = member
  BY <1>1, <1>7, Read DEF c
<1>9. ParsePayload(m.opcode, p) = Ok(m.says)
  <2>1. ParsePayload(m.opcode, p) = ParseJoinAck(p)
    BY <1>1, <1>5 DEF ParsePayload, Opcode, ackcode
  <2>2. ParseJoinAck(p) = Ok([code |-> code, member_id |-> member])
    BY <1>5, <1>8 DEF ParseJoinAck
  <2> QED
    BY <1>1, <2>1, <2>2
<1>10. size(p) < Long
  BY <1>5, Widths
<1>11. m.opcode \in Byte
  BY <1>1, Codes
<1> QED
  BY <1>1, <1>2, <1>5, <1>9, <1>10, <1>11 DEF Survives

\* A code and a text.
LEMMA AckSurvives == ASSUME NEW m \in AckMessage \cup ErrorMessage PROVE Survives(m)
<1> DEFINE code == m.says.code  text == m.says.text  a == write8(code)  p == Cat(a, text)
<1>1. /\ m = [opcode |-> m.opcode, says |-> m.says] /\ code \in Byte /\ text \in String
      /\ m.says = [code |-> code, text |-> text]
      /\ (m.opcode = 3 /\ code # 2 /\ code # 3) \/ m.opcode = 4
  BY DEF AckMessage, ErrorMessage, Opcode, ackcode
<1>2. Payload(m) = p
  <2>1. Payload(m) = SerializeAck(m.says.code, m.says.text)
    <3>1. CASE m.opcode = 3 /\ m.says.code # 2 /\ m.says.code # 3
      BY <3>1 DEF Payload, Opcode, ackcode
    <3>2. CASE m.opcode = 4
      BY <3>2 DEF Payload, Opcode
    <3> QED
      BY <1>1, <3>1, <3>2
  <2> QED
    BY <2>1 DEF SerializeAck, Cat
<1> HIDE DEF code, text
<1>3. text \in Seq(Byte) /\ size(text) + 1 < Long /\ size(text) \in Nat
  <2>1. text \in Seq(Byte) /\ size(text) + 1 < Long
    BY <1>1 DEF String
  <2> QED
    BY <2>1, Sizes
<1>4. /\ p \in Seq(Byte) /\ size(p) = 1 + size(text) /\ p # <<>> /\ Head(p) = code
      /\ read8(p, 0) = code /\ Tail(p) = text
  BY <1>1, <1>3, Coded
<1> HIDE DEF p
<1>5. ParsePayload(m.opcode, p) = Ok(m.says)
  <2>1. ParsePayload(m.opcode, p) = ParseAck(p)
    BY <1>1, <1>4 DEF ParsePayload, Opcode, ackcode
  <2>2. ParseAck(p) = Ok([code |-> code, text |-> text])
    BY <1>4 DEF ParseAck
  <2> QED
    BY <1>1, <2>1, <2>2
<1>6. size(p) < Long
  BY <1>3, <1>4, Widths
<1>7. m.opcode \in Byte
  BY <1>1, Codes
<1> QED
  BY <1>1, <1>2, <1>4, <1>5, <1>6, <1>7 DEF Survives

\* The notification that a session is closed: its code alone.
LEMMA SessionClosedSurvives ==
    ASSUME NEW m \in SessionClosedNotification PROVE Survives(m)
<1> DEFINE p == write8(2)
<1>1. /\ m = [opcode |-> m.opcode, says |-> m.says] /\ m.says = [code |-> 2] /\ m.opcode = 5
  BY DEF SessionClosedNotification, Opcode, notifcode
<1>2. Payload(m) = p
  BY <1>1 DEF Payload, Opcode, notifcode, SerializeSessionClosed
<1>3. p \in Seq(Byte) /\ size(p) = 1 /\ p[1] = 2
  BY Codes, Written8
<1> HIDE DEF p
<1>4. p # <<>> /\ Head(p) = 2
  BY <1>3, First
<1>5. ParsePayload(m.opcode, p) = Ok(m.says)
  BY <1>1, <1>4 DEF ParsePayload, Opcode, notifcode
<1>6. size(p) < Long
  BY <1>3, Widths
<1>7. m.opcode \in Byte
  BY <1>1, Codes
<1> QED
  BY <1>1, <1>2, <1>3, <1>5, <1>6, <1>7 DEF Survives

\* The notification of a member that joined or left.
LEMMA MemberSurvives == ASSUME NEW m \in MemberNotification PROVE Survives(m)
<1> DEFINE code == m.says.code  member == m.says.member_id  name == m.says.name
           a == write8(code)  b == write32(member)  text == Text(name)
           ab == Cat(a, b)  p == Cat(ab, text)
<1>1. /\ m = [opcode |-> m.opcode, says |-> m.says] /\ member \in uint32 /\ name \in Name
      /\ m.says = [code |-> code, member_id |-> member, name |-> name]
      /\ code \in {0, 1} /\ m.opcode = 5
  BY DEF MemberNotification, Opcode, notifcode
<1>2. Payload(m) = p
  BY <1>1 DEF Payload, Opcode, notifcode, SerializeMemberNotification, Cat
<1>3. code \in Byte
  BY <1>1, Codes
<1> HIDE DEF code, member, name
<1>4. /\ text \in Seq(Byte) /\ size(text) = 1 + size(name) /\ size(name) \in Byte
      /\ size(name) \in Nat
  BY <1>1, TextWritten
<1>5. a \in Seq(Byte) /\ size(a) = 1 /\ b \in Seq(Byte) /\ size(b) = 4
  BY <1>1, <1>3, Written
<1>6. Lies(Cat(ab, text), p, 0)
  BY LiesInItself
<1> HIDE DEF a, b, text
<1>7. ab \in Seq(Byte) /\ size(ab) = 5
  BY <1>5, Longer
<1> HIDE DEF ab
<1>8. p \in Seq(Byte) /\ size(p) = 5 + (1 + size(name))
  BY <1>4, <1>7, Longer
<1> HIDE DEF p
<1>9. Lies(ab, p, 0) /\ Lies(text, p, 5)
  BY <1>4, <1>6, <1>7, LieBoth
<1>10. Lies(a, p, 0) /\ Lies(b, p, 1)
  BY <1>5, <1>9, LieBoth DEF ab
<1>11. read8(p, 0) = code /\ read32(p, 1) = member
  BY <1>1, <1>3, <1>10, Read DEF a, b
<1>12. ParseText(p, 5) = Ok(name)
  <2>1. size(p) >= 5 + 1 + size(name)
    BY <1>4, <1>8
  <2> QED
    BY <1>1, <1>8, <1>9, <2>1, TextRead DEF text
<1>13. p # <<>> /\ Head(p) = code
  <2>1. size(p) > 0
    BY <1>4, <1>8
  <2>2. p # <<>> /\ Head(p) = p[1]
    BY <1>8, <2>1, First
  <2> QED
    BY <1>11, <2>2 DEF read8
<1>14. ParsePayload(m.opcode, p) = Ok(m.says)
  <2>1. ParsePayload(m.opcode, p) = ParseMemberNotification(p)
    BY <1>1, <1>13 DEF ParsePayload, Opcode, notifcode
  <2>2. ParseMemberNotification(p) = Ok([code |-> code, member_id |-> member, name |-> name])
    <3>1. ParseText(p, 5).ok /\ ParseText(p, 5).value = name
      BY <1>12, OkIs
    <3> QED
      BY <1>11, <3>1 DEF ParseMemberNotification
  <2> QED
    BY <1>1, <2>1, <2>2
<1>15. size(p) < Long
  BY <1>4, <1>8, Widths DEF Byte
<1>16. m.opcode \in Byte
  BY <1>1, Codes
<1> QED
  BY <1>1, <1>2, <1>8, <1>14, <1>15, <1>16 DEF Survives

-----------------------------------------------------------------------------
(* Operations.                                                             *)

\* The four bytes of a point.
LEMMA FourBytes ==
    ASSUME NEW x \in uint16, NEW y \in uint16
    PROVE  LET w == write16(x) \o write16(y)
           IN /\ w \in Seq(Byte) /\ size(w) = 4 /\ \A k \in 1..4 : w[k] \in Byte
              /\ (w[1] * Base) + w[2] = x /\ (w[3] * Base) + w[4] = y
<1> DEFINE a == write16(x)  b == write16(y)  w == Cat(a, b)
<1>1. x \in Nat /\ y \in Nat /\ x % Word = x /\ y % Word = y
  BY Widths DEF uint16
<1>2. /\ a \in Seq(Byte) /\ size(a) = 2 /\ (a[1] * Base) + a[2] = x
      /\ b \in Seq(Byte) /\ size(b) = 2 /\ (b[1] * Base) + b[2] = y
  BY <1>1, Write16
<1> HIDE DEF a, b
<1>3. w \in Seq(Byte) /\ size(w) = 4
  BY <1>2, Longer
<1>4. /\ \A i \in 1..size(a) : w[i] = a[i]
      /\ \A i \in 1..size(b) : w[size(a) + i] = b[i]
  BY <1>2, BytesBehind
<1> HIDE DEF w
<1>5. w[1] = a[1] /\ w[2] = a[2] /\ w[2 + 1] = b[1] /\ w[2 + 2] = b[2]
  BY <1>2, <1>4
<1>6. (w[1] * Base) + w[2] = x /\ (w[3] * Base) + w[4] = y
  BY <1>2, <1>5
<1>7. \A k \in 1..4 : w[k] \in Byte
  BY <1>3, ElementOfSeq DEF size
<1> QED
  BY <1>3, <1>6, <1>7 DEF w, a, b, Cat

\* A function on 1..n is a sequence.
LEMMA IsSeq ==
    ASSUME NEW S, NEW n \in Nat, NEW f \in [1..n -> S]
    PROVE  f \in Seq(S) /\ size(f) = n
<1>1. f \in Seq(S)
  BY SeqDef
<1>2. Len(f) = n
  BY <1>1, LenProperties
<1> QED
  BY <1>1, <1>2 DEF size

\* What a draw_operation can have for points.
PointSeq == { p \in Seq(uint16 \X uint16) : size(p) < Word }

\* The points' bytes, and how each point is read from them.
LEMMA PointsWritten ==
    ASSUME NEW pts \in PointSeq
    PROVE  LET q == SerializePoints(pts)
               n == size(pts)
           IN /\ n \in Nat /\ n \in uint16 /\ q \in Seq(Byte) /\ size(q) = 4 * n
              /\ \A i \in 1..n :
                   /\ (q[(4 * (i - 1)) + 1] * Base) + q[(4 * (i - 1)) + 2] = pts[i][1]
                   /\ (q[(4 * (i - 1)) + 3] * Base) + q[(4 * (i - 1)) + 4] = pts[i][2]
<1> DEFINE q == SerializePoints(pts)  n == size(pts)
           point(j) == pts[((j - 1) \div 4) + 1]
           bytes(p) == write16(p[1]) \o write16(p[2])
           byte(j) == bytes(point(j))[((j - 1) % 4) + 1]
<1>1. pts \in Seq(uint16 \X uint16) /\ n < Word
  BY DEF PointSeq
<1>2. n \in Nat
  BY <1>1, Sizes
<1>3. n \in uint16
  BY <1>1, <1>2, Widths DEF uint16
<1>4. ASSUME NEW i \in 1..n PROVE pts[i] \in uint16 \X uint16
  BY <1>1, ElementOfSeq DEF size
<1>5. q = [j \in 1..4 * n |-> byte(j)]
  BY DEF SerializePoints
<1>6. ASSUME NEW p \in uint16 \X uint16
      PROVE  /\ \A k \in 1..4 : bytes(p)[k] \in Byte
             /\ (bytes(p)[1] * Base) + bytes(p)[2] = p[1]
             /\ (bytes(p)[3] * Base) + bytes(p)[4] = p[2]
  <2>1. p[1] \in uint16 /\ p[2] \in uint16
    OBVIOUS
  <2> QED
    BY <2>1, FourBytes
<1> HIDE DEF q, bytes, n
<1>7. ASSUME NEW j \in 1..4 * n PROVE byte(j) \in Byte
  <2>1. ((j - 1) \div 4) + 1 \in 1..n /\ ((j - 1) % 4) + 1 \in 1..4
    BY <1>2
  <2>2. point(j) \in uint16 \X uint16
    BY <1>4, <2>1
  <2> HIDE DEF point
  <2> QED
    BY <1>6, <2>1, <2>2
<1>8. q \in Seq(Byte) /\ size(q) = 4 * n
  <2> HIDE DEF byte
  <2>1. 4 * n \in Nat /\ q \in [1..4 * n -> Byte]
    BY <1>2, <1>5, <1>7
  <2> QED
    BY <2>1, IsSeq
<1>9. ASSUME NEW i \in 1..n, NEW k \in 1..4
      PROVE  q[(4 * (i - 1)) + k] = bytes(pts[i])[k]
  <2> DEFINE j == (4 * (i - 1)) + k
  <2>1. j \in 1..4 * n /\ ((j - 1) \div 4) + 1 = i /\ ((j - 1) % 4) + 1 = k
    BY <1>2
  <2> HIDE DEF j
  <2>2. q[j] = byte(j)
    BY <1>5, <2>1
  <2> QED
    BY <2>1, <2>2 DEF j
<1>10. ASSUME NEW i \in 1..n
       PROVE  /\ (q[(4 * (i - 1)) + 1] * Base) + q[(4 * (i - 1)) + 2] = pts[i][1]
              /\ (q[(4 * (i - 1)) + 3] * Base) + q[(4 * (i - 1)) + 4] = pts[i][2]
  <2>1. pts[i] \in uint16 \X uint16
    BY <1>4
  <2>2. /\ q[(4 * (i - 1)) + 1] = bytes(pts[i])[1]
        /\ q[(4 * (i - 1)) + 2] = bytes(pts[i])[2]
        /\ q[(4 * (i - 1)) + 3] = bytes(pts[i])[3]
        /\ q[(4 * (i - 1)) + 4] = bytes(pts[i])[4]
    BY <1>9
  <2> QED
    BY <1>6, <2>1, <2>2
<1> QED
  BY <1>2, <1>3, <1>8, <1>10 DEF q, n

\* A point is read where its bytes are.
LEMMA PointRead ==
    ASSUME NEW pts \in PointSeq, NEW data, Lies(SerializePoints(pts), data, 24),
           NEW i \in 1..size(pts)
    PROVE  ReadPoint(data, i) = pts[i]
<1> DEFINE q == SerializePoints(pts)  n == size(pts)  o == 4 * (i - 1)
<1>1. /\ n \in Nat /\ size(q) = 4 * n
      /\ (q[o + 1] * Base) + q[o + 2] = pts[i][1]
      /\ (q[o + 3] * Base) + q[o + 4] = pts[i][2]
  BY PointsWritten
<1>2. Lies(q, data, 24) /\ i \in 1..n
  OBVIOUS
<1>3. pts[i] \in uint16 \X uint16
  BY ElementOfSeq DEF PointSeq, size
<1> HIDE DEF q, n
<1>4. o \in Nat /\ \A k \in 1..4 : o + k \in 1..4 * n
  BY <1>1, <1>2
<1> HIDE DEF o
<1>5. \A k \in 1..4 : data[24 + (o + k)] = q[o + k]
  BY <1>1, <1>2, <1>4 DEF Lies
<1>6. /\ data[24 + (o + 1)] = q[o + 1] /\ data[24 + (o + 2)] = q[o + 2]
      /\ data[24 + (o + 3)] = q[o + 3] /\ data[24 + (o + 4)] = q[o + 4]
  BY <1>5
<1>7. /\ 24 + (o + 1) = (24 + o) + 1 /\ 24 + (o + 2) = ((24 + o) + 1) + 1
      /\ 24 + (o + 3) = ((24 + o) + 2) + 1 /\ 24 + (o + 4) = (((24 + o) + 2) + 1) + 1
  BY <1>4
<1>8. read16(data, 24 + o) = pts[i][1] /\ read16(data, (24 + o) + 2) = pts[i][2]
  BY <1>1, <1>6, <1>7 DEF read16, read8
<1>9. ReadPoint(data, i) = <<pts[i][1], pts[i][2]>>
  BY <1>8 DEF ReadPoint, DRAW_OP_FIXED_SIZE, o
<1> QED
  BY <1>3, <1>9

\* An operation comes out of its bytes.
LEMMA OperationRead ==
    ASSUME NEW op \in draw_operation
    PROVE  LET data == SerializeDrawOperation(op)
           IN /\ data \in Seq(Byte) /\ size(data) = 24 + 4 * size(op.points)
              /\ size(op.points) \in 0..(Word - 1)
              /\ ParseDrawOperation(data) = Ok(op)
<1> DEFINE id == op.operation_id  seq == op.seq  by == op.member_id  tool == op.tool
           col == op.color  thick == op.thickness  pts == op.points  n == size(pts)
           a == write64(id)  b == write32(seq)  c == write32(by)  d == write8(tool)
           e == write32(col)  f == write8(thick)  g == write16(n)
           h == SerializePoints(pts)
           ab == Cat(a, b)  ac == Cat(ab, c)  ad == Cat(ac, d)  ae == Cat(ad, e)
           af == Cat(ae, f)  ag == Cat(af, g)  data == Cat(ag, h)
<1>1. /\ id \in uint64 /\ seq \in uint32 /\ by \in uint32 /\ tool \in Byte
      /\ col \in uint32 /\ thick \in Byte /\ pts \in PointSeq
      /\ op = [operation_id |-> id, seq |-> seq, member_id |-> by, tool |-> tool,
               color |-> col, thickness |-> thick, points |-> pts]
  BY DEF draw_operation, PointSeq
<1>2. SerializeDrawOperation(op) = data
  BY DEF SerializeDrawOperation, Cat
<1> HIDE DEF id, seq, by, tool, col, thick, pts
<1>3. n \in Nat /\ n \in uint16 /\ h \in Seq(Byte) /\ size(h) = 4 * n
  BY <1>1, PointsWritten
<1>4. /\ a \in Seq(Byte) /\ size(a) = 8 /\ b \in Seq(Byte) /\ size(b) = 4
      /\ c \in Seq(Byte) /\ size(c) = 4 /\ d \in Seq(Byte) /\ size(d) = 1
      /\ e \in Seq(Byte) /\ size(e) = 4 /\ f \in Seq(Byte) /\ size(f) = 1
      /\ g \in Seq(Byte) /\ size(g) = 2
  BY <1>1, <1>3, Written
<1>5. Lies(Cat(ag, h), data, 0)
  BY LiesInItself
<1>6. n = size(pts)
  OBVIOUS
<1> HIDE DEF a, b, c, d, e, f, g, h, n
<1>7. ab \in Seq(Byte) /\ size(ab) = 12
  BY <1>4, Longer
<1> HIDE DEF ab
<1>8. ac \in Seq(Byte) /\ size(ac) = 16
  BY <1>4, <1>7, Longer
<1> HIDE DEF ac
<1>9. ad \in Seq(Byte) /\ size(ad) = 17
  BY <1>4, <1>8, Longer
<1> HIDE DEF ad
<1>10. ae \in Seq(Byte) /\ size(ae) = 21
  BY <1>4, <1>9, Longer
<1> HIDE DEF ae
<1>11. af \in Seq(Byte) /\ size(af) = 22
  BY <1>4, <1>10, Longer
<1> HIDE DEF af
<1>12. ag \in Seq(Byte) /\ size(ag) = 24
  BY <1>4, <1>11, Longer
<1> HIDE DEF ag
<1>13. data \in Seq(Byte) /\ size(data) = 24 + 4 * n
  BY <1>3, <1>12, Longer
<1> HIDE DEF data
<1>14. Lies(ag, data, 0) /\ Lies(h, data, 24)
  BY <1>3, <1>5, <1>12, LieBoth
<1>15. Lies(af, data, 0) /\ Lies(g, data, 22)
  BY <1>4, <1>11, <1>14, LieBoth DEF ag
<1>16. Lies(ae, data, 0) /\ Lies(f, data, 21)
  BY <1>4, <1>10, <1>15, LieBoth DEF af
<1>17. Lies(ad, data, 0) /\ Lies(e, data, 17)
  BY <1>4, <1>9, <1>16, LieBoth DEF ae
<1>18. Lies(ac, data, 0) /\ Lies(d, data, 16)
  BY <1>4, <1>8, <1>17, LieBoth DEF ad
<1>19. Lies(ab, data, 0) /\ Lies(c, data, 12)
  BY <1>4, <1>7, <1>18, LieBoth DEF ac
<1>20. Lies(a, data, 0) /\ Lies(b, data, 8)
  BY <1>4, <1>19, LieBoth DEF ab
<1>21. read64(data, 0) = id /\ read32(data, 8) = seq /\ read32(data, 12) = by
  BY <1>1, <1>19, <1>20, Read DEF a, b, c
<1>22. read8(data, 16) = tool /\ read32(data, 17) = col /\ read8(data, 21) = thick
  BY <1>1, <1>16, <1>17, <1>18, Read DEF d, e, f
<1>23. read16(data, 22) = n
  BY <1>3, <1>15, Read DEF g
<1>24. [i \in 1..n |-> ReadPoint(data, i)] = pts
  <2>1. \A i \in 1..n : ReadPoint(data, i) = pts[i]
    BY <1>1, <1>6, <1>14, PointRead DEF h
  <2>2. pts = [i \in 1..n |-> pts[i]]
    BY <1>1, <1>6, LenProperties DEF PointSeq, size
  <2> QED
    BY <2>1, <2>2
<1>25. ~(size(data) < 24) /\ ~(size(data) < 24 + 4 * n)
  BY <1>3, <1>13
<1>26. ParseDrawOperation(data) = Ok(op)
  BY <1>1, <1>21, <1>22, <1>23, <1>24, <1>25 DEF ParseDrawOperation, DRAW_OP_FIXED_SIZE
<1>27. n \in 0..(Word - 1)
  BY <1>3 DEF uint16
<1> QED
  BY <1>2, <1>13, <1>26, <1>27 DEF n, pts

\* A DRAW: an operation.
LEMMA DrawSurvives == ASSUME NEW m \in DrawMessage PROVE Survives(m)
<1> DEFINE op == m.says  p == SerializeDrawOperation(op)  n == size(op.points)
<1>1. /\ m = [opcode |-> m.opcode, says |-> m.says] /\ op \in draw_operation
      /\ m.opcode = 6
  BY DEF DrawMessage, Opcode
<1>2. Payload(m) = p
  BY <1>1 DEF Payload, Opcode
<1>3. /\ p \in Seq(Byte) /\ size(p) = 24 + 4 * n /\ n \in 0..(Word - 1)
      /\ ParseDrawOperation(p) = Ok(op)
  BY <1>1, OperationRead
<1> HIDE DEF p, n
<1>4. ParsePayload(m.opcode, p) = Ok(m.says)
  BY <1>1, <1>3 DEF ParsePayload, Opcode
<1>5. size(p) < Long
  BY <1>3, Widths
<1>6. m.opcode \in Byte
  BY <1>1, Codes
<1> QED
  BY <1>1, <1>2, <1>3, <1>4, <1>5, <1>6 DEF Survives

\* A message whose payload has a length of 32 bits makes a frame that says how
\* long it is, and from which opcode and payload can be taken.
LEMMA FrameOf ==
    ASSUME NEW m, m.opcode \in Byte, Payload(m) \in Seq(Byte), size(Payload(m)) < Long
    PROVE  /\ SerializeMessage(m) \in Seq(Byte)
           /\ size(SerializeMessage(m)) = HeaderSize + size(Payload(m))
           /\ read8(SerializeMessage(m), 0) = m.opcode
           /\ read32(SerializeMessage(m), 2) = size(Payload(m))
           /\ SubSeq(SerializeMessage(m), HeaderSize + 1, size(SerializeMessage(m)))
                 = Payload(m)
<1> DEFINE p == Payload(m)  n == size(p)
           a == write8(m.opcode)  b == write8(0)  c == write32(n)
           ab == Cat(a, b)  abc == Cat(ab, c)  frame == Cat(abc, p)
<1>1. p \in Seq(Byte) /\ n \in Nat /\ n \in uint32
  <2>1. p \in Seq(Byte) /\ n \in Nat
    BY Sizes
  <2> QED
    BY <2>1, Widths DEF uint32
<1>2. a \in Seq(Byte) /\ size(a) = 1 /\ b \in Seq(Byte) /\ size(b) = 1
  <2>1. 0 \in Byte
    BY Codes
  <2>2. write8(m.opcode) \in Seq(Byte) /\ size(write8(m.opcode)) = 1
    BY Written
  <2>3. write8(0) \in Seq(Byte) /\ size(write8(0)) = 1
    BY <2>1, Written
  <2> QED
    BY <2>2, <2>3
<1>3. c \in Seq(Byte) /\ size(c) = 4
  BY <1>1, Written
<1>4. SerializeMessage(m) = frame
  BY DEF SerializeMessage, Cat
<1>5. Lies(frame, frame, 0)
  BY LiesInItself
<1> DEFINE op == m.opcode
<1>6. a = write8(op) /\ c = write32(n) /\ n = size(p) /\ op \in Byte
  OBVIOUS
<1> HIDE DEF p, a, b, c, n, op
<1>7. ab \in Seq(Byte) /\ size(ab) = 2
  BY <1>2, Longer
<1> HIDE DEF ab
<1>8. abc \in Seq(Byte) /\ size(abc) = 6
  BY <1>3, <1>7, Longer
<1> HIDE DEF abc
<1>9. frame \in Seq(Byte) /\ size(frame) = 6 + n
  BY <1>1, <1>6, <1>8, Longer
<1> DEFINE whole == frame
<1>10. whole \in Seq(Byte) /\ size(whole) = 6 + n /\ Lies(Cat(abc, p), whole, 0)
  BY <1>5, <1>9
<1> HIDE DEF whole
<1>11. Lies(abc, whole, 0) /\ Lies(p, whole, 6)
  BY <1>1, <1>8, <1>10, LieBoth
<1>12. Lies(ab, whole, 0) /\ Lies(c, whole, 2)
  BY <1>3, <1>7, <1>11, LieBoth DEF abc
<1>13. Lies(a, whole, 0)
  BY <1>2, <1>12, LieBoth DEF ab
<1>14. read8(whole, 0) = op
  BY <1>6, <1>13, Read
<1>15. read32(whole, 2) = n
  BY <1>1, <1>6, <1>12, Read
<1>16. SubSeq(whole, 6 + 1, 6 + n) = p
  BY <1>1, <1>6, <1>10, <1>11, CutOut
<1> QED
  BY <1>4, <1>9, <1>10, <1>14, <1>15, <1>16 DEF whole, p, n, op, HeaderSize

-----------------------------------------------------------------------------
(* Loops, and induction over how often they were gone through.             *)

\* Of natural numbers one is the smallest.
LEMMA Smallest ==
    ASSUME NEW T, T \subseteq Nat, T # {}
    PROVE  \E x \in T : \A y \in T : x <= y
<1> DEFINE less == OpToRel(<, Nat)
<1>1. IsWellFoundedOn(less, Nat)
  BY NatLessThanWellFounded
<1>2. \A x, y \in Nat : x < y => <<x, y>> \in less
  BY DEF OpToRel
<1> HIDE DEF less
<1>3. PICK x \in T : \A y \in T : ~(<<y, x>> \in less)
  BY <1>1, WFMin
<1>4. \A y \in T : ~(y < x)
  BY <1>2, <1>3, Zenon
<1>5. \A y \in T : x <= y
  BY <1>4
<1> QED
  BY <1>5

\* What holds of 0, and of each number up to n if it holds of the one before,
\* holds of all.
LEMMA Induction ==
    ASSUME NEW n \in Nat, NEW P, 0 \in P, \A k \in 1..n : k - 1 \in P => k \in P
    PROVE  0..n \subseteq P
<1> DEFINE T == (0..n) \ P
<1> SUFFICES ASSUME T # {} PROVE FALSE
  OBVIOUS
<1>1. T \subseteq Nat
  OBVIOUS
<1> HIDE DEF T
<1>2. PICK m \in T : \A y \in T : m <= y
  BY <1>1, Smallest
<1>3. m \in 0..n /\ m \notin P
  BY DEF T
<1>4. m \in 1..n /\ m - 1 \in 0..n /\ ~(m <= m - 1)
  BY <1>3
<1>5. m - 1 \in P
  BY <1>2, <1>4 DEF T
<1> QED
  BY <1>3, <1>4, <1>5

\* What holds of a number if it holds of all below it holds of all.
LEMMA StrongInduction ==
    ASSUME NEW P, \A n \in Nat : (\A k \in 0..(n - 1) : k \in P) => n \in P
    PROVE  Nat \subseteq P
<1> SUFFICES ASSUME Nat \ P # {} PROVE FALSE
  OBVIOUS
<1>1. PICK m \in Nat \ P : \A y \in Nat \ P : m <= y
  BY Smallest
<1>2. \A k \in 0..(m - 1) : k \in P
  BY <1>1
<1> QED
  BY <1>1, <1>2

\* The first k passes of a loop.
ArePasses(g, first, step, k) ==
    g[0] = first /\ \A i \in 1..k : g[i] = step[i][g[i - 1]]

\* A loop can go through once more.
LEMMA OneMorePass ==
    ASSUME NEW X, NEW first \in X, NEW n \in Nat, NEW step \in [1..n -> [X -> X]],
           NEW k \in 1..n, NEW g \in [0..(k - 1) -> X], ArePasses(g, first, step, k - 1)
    PROVE  \E h \in [0..k -> X] : ArePasses(h, first, step, k)
<1> DEFINE e == step[k][g[k - 1]]
           h == [i \in 0..k |-> IF i = k THEN e ELSE g[i]]
<1>1. e \in X
  <2>1. g[k - 1] \in X
    OBVIOUS
  <2>2. step[k] \in [X -> X]
    OBVIOUS
  <2> QED
    BY <2>1, <2>2
<1>2. g[0] = first /\ \A i \in 1..(k - 1) : g[i] = step[i][g[i - 1]]
  BY DEF ArePasses
<1>3. \A i \in 0..(k - 1) : g[i] \in X
  OBVIOUS
<1> HIDE DEF e
<1>4. h \in [0..k -> X]
  <2>1. ASSUME NEW i \in 0..k PROVE (IF i = k THEN e ELSE g[i]) \in X
    BY <1>1, <1>3
  <2> QED
    BY <2>1
<1>5. h[0] = first
  <2>1. 0 \in 0..k /\ 0 # k
    OBVIOUS
  <2> QED
    BY <1>2, <2>1
<1>6. h[k] = e /\ \A i \in 0..(k - 1) : h[i] = g[i]
  OBVIOUS
<1> HIDE DEF h
<1>7. ASSUME NEW i \in 1..k PROVE h[i] = step[i][h[i - 1]]
  <2>1. CASE i = k
    <3>1. k - 1 \in 0..(k - 1)
      OBVIOUS
    <3> QED
      BY <1>6, <2>1, <3>1 DEF e
  <2>2. CASE i # k
    <3>1. i \in 1..(k - 1) /\ i \in 0..(k - 1) /\ i - 1 \in 0..(k - 1)
      BY <2>2
    <3> QED
      BY <1>2, <1>6, <3>1
  <2> QED
    BY <2>1, <2>2
<1> QED
  BY <1>4, <1>5, <1>7 DEF ArePasses

\* So it goes through as often as one likes.
LEMMA PassesExist ==
    ASSUME NEW X, NEW first \in X, NEW n \in Nat, NEW step \in [1..n -> [X -> X]]
    PROVE  \E g \in [0..n -> X] : ArePasses(g, first, step, n)
<1> DEFINE P == { k \in 0..n : \E g \in [0..k -> X] : ArePasses(g, first, step, k) }
<1>1. 0 \in P
  <2> DEFINE g == [i \in 0..0 |-> first]
  <2>1. g \in [0..0 -> X] /\ g[0] = first
    OBVIOUS
  <2> HIDE DEF g
  <2>2. ArePasses(g, first, step, 0)
    BY <2>1 DEF ArePasses
  <2> QED
    BY <2>1, <2>2
<1>2. ASSUME NEW k \in 1..n, k - 1 \in P PROVE k \in P
  <2>1. PICK g \in [0..(k - 1) -> X] : ArePasses(g, first, step, k - 1)
    BY <1>2
  <2>2. \E h \in [0..k -> X] : ArePasses(h, first, step, k)
    BY <2>1, OneMorePass
  <2> QED
    BY <2>2
<1>3. n \in P
  <2> HIDE DEF P
  <2>1. 0..n \subseteq P
    BY <1>1, <1>2, Induction
  <2> QED
    BY <2>1
<1> QED
  BY <1>3

\* What a loop has after each pass, by the pass before.
LEMMA PassesAre ==
    ASSUME NEW X, NEW first \in X, NEW n \in Nat, NEW step \in [1..n -> [X -> X]]
    PROVE  LET a == Passes(first, step, n)
           IN a \in [0..n -> X] /\ ArePasses(a, first, step, n)
<1>1. PICK g \in [0..n -> X] : ArePasses(g, first, step, n)
  BY PassesExist
<1>2. g[0] = first /\ \A i \in 1..n : g[i] = step[i][g[i - 1]]
  BY <1>1 DEF ArePasses
<1>3. g = [i \in 0..n |-> IF i = 0 THEN first ELSE step[i][g[i - 1]]]
  <2>1. ASSUME NEW i \in 0..n PROVE g[i] = IF i = 0 THEN first ELSE step[i][g[i - 1]]
    <3>1. i = 0 \/ (i # 0 /\ i \in 1..n)
      OBVIOUS
    <3> QED
      BY <1>2, <3>1
  <2> QED
    BY <2>1
<1> DEFINE a == Passes(first, step, n)
<1>4. a = [i \in 0..n |-> IF i = 0 THEN first ELSE step[i][a[i - 1]]]
  BY <1>3 DEF Passes
<1> HIDE DEF a
<1>5. \A i \in 0..n : a[i] = IF i = 0 THEN first ELSE step[i][a[i - 1]]
  BY <1>4, Zenon
<1>6. a[0] = first /\ \A i \in 1..n : a[i] = step[i][a[i - 1]]
  <2>1. 0 \in 0..n /\ \A i \in 1..n : i \in 0..n /\ i # 0
    OBVIOUS
  <2> QED
    BY <1>5, <2>1, Zenon
<1> DEFINE Q == { k \in 0..n : a[k] \in X }
<1>7. 0 \in Q
  <2>1. a[0] \in X
    BY <1>6, Zenon
  <2>2. 0 \in 0..n
    OBVIOUS
  <2> QED
    BY <2>1, <2>2
<1>8. ASSUME NEW k \in 1..n, k - 1 \in Q PROVE k \in Q
  <2>1. a[k - 1] \in X
    BY <1>8
  <2>2. step[k] \in [X -> X]
    OBVIOUS
  <2>3. a[k] \in X
    BY <1>6, <2>1, <2>2
  <2> QED
    BY <2>3
<1>9. \A k \in 0..n : a[k] \in X
  <2>1. 0..n \subseteq Q
    <3> HIDE DEF Q
    <3> QED
      BY <1>7, <1>8, Induction
  <2> QED
    BY <2>1
<1>10. a \in [0..n -> X]
  <2>1. DOMAIN a = 0..n
    BY <1>4, Zenon
  <2>2. a = [i \in 0..n |-> a[i]]
    BY <1>4, <2>1
  <2> QED
    BY <1>9, <2>2
<1> QED
  BY <1>6, <1>10 DEF a, ArePasses

\* A loop of which one knows how it goes.
Goes(v, first, step, n) == v = [i \in 0..n |-> v[i]] /\ ArePasses(v, first, step, n)

LEMMA PassesFollow ==
    ASSUME NEW v, NEW first, NEW step, NEW n \in Nat, Goes(v, first, step, n)
    PROVE  \A i \in 0..n : Passes(first, step, n)[i] = v[i]
<1>1. \A i \in 0..n : i = 0 \/ (i # 0 /\ i \in 1..n)
  OBVIOUS
<1>2. v = [i \in 0..n |-> IF i = 0 THEN first ELSE step[i][v[i - 1]]]
  <2>1. \A i \in 0..n : v[i] = IF i = 0 THEN first ELSE step[i][v[i - 1]]
    BY <1>1, Zenon DEF ArePasses, Goes
  <2>2. v = [i \in 0..n |-> v[i]]
    BY Zenon DEF Goes
  <2> QED
    BY <2>1, <2>2, Zenon
<1> DEFINE a == Passes(first, step, n)
<1>3. a = [i \in 0..n |-> IF i = 0 THEN first ELSE step[i][a[i - 1]]]
  BY <1>2 DEF Passes
<1> HIDE DEF a
<1>4. \A i \in 0..n : a[i] = IF i = 0 THEN first ELSE step[i][a[i - 1]]
  BY <1>3, Zenon
<1> DEFINE Q == { k \in 0..n : a[k] = v[k] }
<1>5. 0 \in Q
  <2>1. 0 \in 0..n
    OBVIOUS
  <2>2. a[0] = v[0]
    BY <1>4, <2>1, Zenon DEF ArePasses, Goes
  <2> QED
    BY <2>1, <2>2
<1>6. ASSUME NEW k \in 1..n, k - 1 \in Q PROVE k \in Q
  <2>1. k \in 0..n /\ k # 0
    OBVIOUS
  <2>2. a[k - 1] = v[k - 1]
    BY <1>6
  <2>3. a[k] = step[k][a[k - 1]]
    BY <1>4, <2>1, Zenon
  <2>4. a[k] = v[k]
    BY <2>2, <2>3, Zenon DEF ArePasses, Goes
  <2> QED
    BY <2>1, <2>4
<1>7. 0..n \subseteq Q
  <2> HIDE DEF Q
  <2> QED
    BY <1>5, <1>6, Induction
<1> QED
  BY <1>7 DEF a

-----------------------------------------------------------------------------
(* A canvas state: operations, each behind its size.                       *)

\* A canvas state as it is written, operation by operation: a[i] is what there
\* is after the first i, s[i] an operation.
LEMMA StateWritten ==
    ASSUME NEW ops \in Seq(draw_operation)
    PROVE  LET n == size(ops)
               a == AppendOperations(ops)
               s(i) == SerializeDrawOperation(ops[i])
           IN /\ n \in Nat /\ a \in [0..n -> Seq(Byte)] /\ a[0] = write32(n)
              /\ \A i \in 1..n :
                    /\ s(i) \in Seq(Byte) /\ size(s(i)) \in uint32
                    /\ ParseDrawOperation(s(i)) = Ok(ops[i])
                    /\ a[i] = Cat(Cat(a[i - 1], write32(size(s(i)))), s(i))
<1> DEFINE n == size(ops)  s(i) == SerializeDrawOperation(ops[i])
           more(i, buf) == buf \o write32(size(s(i))) \o s(i)
           step == [i \in 1..n |-> [buf \in Seq(Byte) |-> more(i, buf)]]
           first == write32(n)  a == AppendOperations(ops)
<1>1. n \in Nat
  BY Sizes
<1>2. ASSUME NEW i \in 1..n
      PROVE  /\ s(i) \in Seq(Byte) /\ size(s(i)) \in uint32
             /\ ParseDrawOperation(s(i)) = Ok(ops[i])
  <2>1. ops[i] \in draw_operation
    BY ElementOfSeq DEF size
  <2>2. PICK op \in draw_operation : op = ops[i]
    BY <2>1
  <2> DEFINE q == SerializeDrawOperation(op)  c == size(op.points)
  <2>3. /\ q \in Seq(Byte) /\ size(q) = 24 + 4 * c /\ c \in 0..(Word - 1)
        /\ ParseDrawOperation(q) = Ok(op)
    BY OperationRead
  <2> HIDE DEF q, c
  <2>4. size(q) \in uint32
    BY <2>3, Widths DEF uint32
  <2> QED
    BY <2>2, <2>3, <2>4 DEF q
<1>3. first \in Seq(Byte)
  BY <1>1, Write32
<1> HIDE DEF s
<1>4. ASSUME NEW i \in 1..n, NEW buf \in Seq(Byte)
      PROVE  /\ more(i, buf) = Cat(Cat(buf, write32(size(s(i)))), s(i))
             /\ more(i, buf) \in Seq(Byte)
  <2>1. write32(size(s(i))) \in Seq(Byte)
    BY <1>2, Written
  <2>2. Cat(buf, write32(size(s(i)))) \in Seq(Byte)
    BY <2>1, Behind
  <2>3. Cat(Cat(buf, write32(size(s(i)))), s(i)) \in Seq(Byte)
    BY <1>2, <2>2, Behind
  <2> QED
    BY <2>3 DEF Cat
<1>5. a = Passes(first, step, n)
  BY DEF AppendOperations, s
<1> HIDE DEF n, first, more, a
<1>6. step \in [1..n -> [Seq(Byte) -> Seq(Byte)]]
  BY <1>4
<1>7. \A i \in 1..n, buf \in Seq(Byte) : step[i][buf] = more(i, buf)
  OBVIOUS
<1> HIDE DEF step
<1>8. a \in [0..n -> Seq(Byte)] /\ ArePasses(a, first, step, n)
  BY <1>1, <1>3, <1>5, <1>6, PassesAre
<1>9. ASSUME NEW i \in 1..n
      PROVE  a[i] = Cat(Cat(a[i - 1], write32(size(s(i)))), s(i))
  <2>1. i - 1 \in 0..n
    BY <1>1
  <2>2. a[i - 1] \in Seq(Byte)
    BY <1>8, <2>1
  <2>3. a[i] = step[i][a[i - 1]]
    BY <1>8 DEF ArePasses
  <2> QED
    BY <1>4, <1>7, <2>2, <2>3
<1> QED
  BY <1>1, <1>2, <1>8, <1>9 DEF n, first, a, s, ArePasses

\* Each of them lies where it was appended.
LEMMA StateLies ==
    ASSUME NEW ops \in Seq(draw_operation)
    PROVE  LET n == size(ops)
               a == AppendOperations(ops)
               s(i) == SerializeDrawOperation(ops[i])
               data == a[n]
           IN \A i \in 0..n : /\ Lies(a[i], data, 0) /\ size(a[i]) \in Nat
                              /\ size(a[i]) <= size(data) /\ i <= size(a[i])
                              /\ i # 0 =>
                                   /\ Lies(write32(size(s(i))), data, size(a[i - 1]))
                                   /\ Lies(s(i), data, size(a[i - 1]) + 4)
                                   /\ size(a[i]) = size(a[i - 1]) + 4 + size(s(i))
<1> DEFINE n == size(ops)  s(i) == SerializeDrawOperation(ops[i])
           a == AppendOperations(ops)  data == a[n]
<1>1. /\ n \in Nat /\ a \in [0..n -> Seq(Byte)]
      /\ \A i \in 1..n : /\ s(i) \in Seq(Byte) /\ size(s(i)) \in uint32
                         /\ a[i] = Cat(Cat(a[i - 1], write32(size(s(i)))), s(i))
  BY StateWritten
<1> HIDE DEF n, s, a
<1>2. \A i \in 0..n : a[i] \in Seq(Byte) /\ size(a[i]) \in Nat
  BY <1>1, Sizes
<1>3. ASSUME NEW i \in 1..n
      PROVE  LET w == write32(size(s(i)))
                 b == Cat(a[i - 1], w)
             IN /\ a[i] = Cat(b, s(i)) /\ w \in Seq(Byte) /\ b \in Seq(Byte)
                /\ s(i) \in Seq(Byte)
                /\ a[i - 1] \in Seq(Byte) /\ size(a[i - 1]) \in Nat /\ size(s(i)) \in Nat
                /\ size(b) = size(a[i - 1]) + 4
                /\ size(a[i]) = (size(a[i - 1]) + 4) + size(s(i))
  <2> DEFINE w == write32(size(s(i)))  b == Cat(a[i - 1], w)
  <2>1. i - 1 \in 0..n
    BY <1>1
  <2>2. a[i - 1] \in Seq(Byte) /\ size(a[i - 1]) \in Nat
    BY <1>2, <2>1
  <2>3. w \in Seq(Byte) /\ size(w) = 4
    BY <1>1, Written
  <2> HIDE DEF w
  <2>4. b \in Seq(Byte) /\ size(b) = size(a[i - 1]) + 4
    BY <2>2, <2>3, Longer
  <2>5. a[i] = Cat(b, s(i)) /\ s(i) \in Seq(Byte) /\ size(s(i)) \in Nat
    BY <1>1, Sizes DEF w
  <2> HIDE DEF b
  <2>6. size(a[i]) = (size(a[i - 1]) + 4) + size(s(i))
    <3>1. size(a[i - 1]) + 4 \in Nat
      BY <2>2
    <3> QED
      BY <2>4, <2>5, <3>1, Longer
  <2> QED
    BY <2>2, <2>3, <2>4, <2>5, <2>6 DEF w, b
<1>4. ASSUME NEW i \in 1..n, Lies(a[i], data, 0), size(a[i]) <= size(data)
      PROVE  /\ Lies(a[i - 1], data, 0) /\ size(a[i - 1]) <= size(data)
             /\ Lies(write32(size(s(i))), data, size(a[i - 1]))
             /\ Lies(s(i), data, size(a[i - 1]) + 4)
  <2> DEFINE w == write32(size(s(i)))  b == Cat(a[i - 1], w)  k == size(a[i - 1])
  <2>1. /\ a[i] = Cat(b, s(i)) /\ w \in Seq(Byte) /\ b \in Seq(Byte)
        /\ s(i) \in Seq(Byte) /\ a[i - 1] \in Seq(Byte)
        /\ k \in Nat /\ size(s(i)) \in Nat /\ size(b) = k + 4
        /\ size(a[i]) = (k + 4) + size(s(i))
    BY <1>3
  <2>2. data \in Seq(Byte) /\ size(data) \in Nat /\ size(a[i]) \in Nat
    BY <1>1, <1>2
  <2> HIDE DEF w, data, k
  <2>3. k <= size(data) /\ k + 4 \in Nat /\ k + 4 = 0 + size(b)
    BY <1>4, <2>1, <2>2
  <2> HIDE DEF b
  <2>4. Lies(b, data, 0) /\ Lies(s(i), data, k + 4)
    BY <1>4, <2>1, <2>3, LieBoth
  <2>5. k = 0 + size(a[i - 1])
    BY <2>1 DEF k
  <2>6. Lies(a[i - 1], data, 0) /\ Lies(w, data, k)
    BY <2>1, <2>4, <2>5, LieBoth DEF b
  <2> QED
    BY <2>3, <2>4, <2>6 DEF w, k
<1> DEFINE P == { k \in 0..n : Lies(a[n - k], data, 0) /\ size(a[n - k]) <= size(data) }
           Q == { k \in 0..n : k <= size(a[k]) }
<1>5. 0..n \subseteq P
  <2>1. 0 \in P
    <3>1. Lies(data, data, 0) /\ size(data) \in Nat /\ n - 0 = n /\ 0 \in 0..n
      BY <1>1, <1>2, LiesInItself
    <3>2. size(data) <= size(data)
      BY <3>1
    <3> QED
      BY <3>1, <3>2
  <2>2. ASSUME NEW k \in 1..n, k - 1 \in P PROVE k \in P
    <3> DEFINE i == n - (k - 1)
    <3>1. i \in 1..n /\ i - 1 = n - k /\ k \in 0..n
      BY <1>1
    <3>2. Lies(a[i], data, 0) /\ size(a[i]) <= size(data)
      BY <2>2
    <3> HIDE DEF i
    <3>3. Lies(a[i - 1], data, 0) /\ size(a[i - 1]) <= size(data)
      BY <1>4, <3>1, <3>2
    <3> QED
      BY <3>1, <3>3
  <2> HIDE DEF P
  <2> QED
    BY <1>1, <2>1, <2>2, Induction
<1>6. 0..n \subseteq Q
  <2>1. 0 \in Q
    BY <1>1, <1>2
  <2>2. ASSUME NEW k \in 1..n, k - 1 \in Q PROVE k \in Q
    <3>1. k - 1 <= size(a[k - 1]) /\ k \in 0..n
      BY <2>2
    <3>2. /\ size(a[k]) = (size(a[k - 1]) + 4) + size(s(k))
          /\ size(a[k - 1]) \in Nat /\ size(s(k)) \in Nat
      BY <1>3
    <3>3. k <= size(a[k])
      BY <3>1, <3>2
    <3> QED
      BY <3>1, <3>3
  <2> HIDE DEF Q
  <2> QED
    BY <1>1, <2>1, <2>2, Induction
<1>7. ASSUME NEW i \in 0..n
      PROVE  Lies(a[i], data, 0) /\ size(a[i]) <= size(data) /\ i <= size(a[i])
  <2>1. n - i \in 0..n /\ n - (n - i) = i
    BY <1>1
  <2>2. n - i \in P /\ i \in Q
    BY <1>5, <1>6, <2>1
  <2> QED
    BY <2>1, <2>2
<1>8. ASSUME NEW i \in 0..n, i # 0
      PROVE  /\ Lies(write32(size(s(i))), data, size(a[i - 1]))
             /\ Lies(s(i), data, size(a[i - 1]) + 4)
             /\ size(a[i]) = size(a[i - 1]) + 4 + size(s(i))
  <2>1. i \in 1..n
    BY <1>8
  <2> QED
    BY <1>3, <1>4, <1>7, <2>1
<1> QED
  BY <1>2, <1>7, <1>8 DEF n, s, a

\* A CANVAS_STATE: every operation is cut out where it was put in.
LEMMA CanvasStateSurvives == ASSUME NEW m \in CanvasStateMessage PROVE Survives(m)
<1> DEFINE ops == m.says  n == size(ops)  s(i) == SerializeDrawOperation(ops[i])
           a == AppendOperations(ops)  data == a[n]
           v == [i \in 0..n |-> size(a[i])]
           next(off) == IF off + 4 > size(data) THEN off + 4 ELSE off + 4 + read32(data, off)
           step == [i \in 1..n |-> [off \in Nat |-> next(off)]]
           end == OperationEnds(data)
           op(i) == ParseDrawOperation(SubSeq(data, end[i - 1] + 5, end[i]))
<1>1. /\ m = [opcode |-> m.opcode, says |-> m.says] /\ ops \in Seq(draw_operation)
      /\ m.opcode = 7 /\ size(SerializeCanvasState(ops)) < Long
  BY DEF CanvasStateMessage, Opcode
<1>2. Payload(m) = data
  BY <1>1 DEF Payload, Opcode, SerializeCanvasState
<1>3. /\ n \in Nat /\ a \in [0..n -> Seq(Byte)] /\ a[0] = write32(n)
      /\ \A i \in 1..n : /\ s(i) \in Seq(Byte) /\ size(s(i)) \in uint32
                         /\ ParseDrawOperation(s(i)) = Ok(ops[i])
  BY <1>1, StateWritten
<1>4. \A i \in 0..n : /\ Lies(a[i], data, 0) /\ size(a[i]) \in Nat
                      /\ size(a[i]) <= size(data) /\ i <= size(a[i])
                      /\ i # 0 => /\ Lies(write32(size(s(i))), data, size(a[i - 1]))
                                  /\ Lies(s(i), data, size(a[i - 1]) + 4)
                                  /\ size(a[i]) = size(a[i - 1]) + 4 + size(s(i))
  BY <1>1, StateLies
<1>5. data \in Seq(Byte) /\ size(data) < Long /\ size(data) \in Nat
  <2>1. size(data) < Long
    BY <1>1 DEF SerializeCanvasState
  <2>2. n \in 0..n
    BY <1>3
  <2> QED
    BY <1>3, <1>4, <2>1, <2>2
<1>6. \A i \in 1..n : i \in 0..n /\ i # 0 /\ i - 1 \in 0..n
  BY <1>3
<1>7. [i \in 1..n |-> ops[i]] = ops
  BY <1>1, LenProperties DEF size
<1> HIDE DEF ops, n, s, a, data
<1>8. n \in uint32 /\ size(write32(n)) = 4 /\ read32(data, 0) = n /\ size(data) >= 4
  <2>1. 0 \in 0..n /\ n \in 0..n
    BY <1>3
  <2>2. n \in uint32
    <3>1. n <= size(a[n]) /\ size(a[n]) <= size(data)
      BY <1>4, <2>1
    <3> QED
      BY <1>3, <1>4, <1>5, <2>1, <3>1, Widths DEF uint32
  <2>3. size(write32(n)) = 4
    BY <2>2, Written
  <2>4. Lies(write32(n), data, 0) /\ size(write32(n)) <= size(data)
    BY <1>3, <1>4, <2>1
  <2>5. read32(data, 0) = n
    BY <2>2, <2>4, Read
  <2> QED
    BY <1>5, <2>2, <2>3, <2>4, <2>5
<1>9. \A i \in 0..n : v[i] = size(a[i])
  OBVIOUS
<1>10. v \in [0..n -> Nat]
  BY <1>4
<1> HIDE DEF v
<1>11. \A i \in 1..n : v[i] = (v[i - 1] + 4) + size(s(i))
                       /\ v[i] <= size(data) /\ v[i - 1] \in Nat /\ v[i] \in Nat
                       /\ size(s(i)) \in Nat
  <2> SUFFICES ASSUME NEW i \in 1..n
               PROVE  v[i] = (v[i - 1] + 4) + size(s(i))
                      /\ v[i] <= size(data) /\ v[i - 1] \in Nat /\ v[i] \in Nat
                      /\ size(s(i)) \in Nat
    OBVIOUS
  <2>1. s(i) \in Seq(Byte)
    BY <1>3
  <2>2. size(s(i)) \in Nat
    BY <2>1, Sizes
  <2> QED
    BY <1>4, <1>6, <1>9, <1>10, <2>2
<1>12. ASSUME NEW i \in 1..n PROVE read32(data, v[i - 1]) = size(s(i))
  <2>1. Lies(write32(size(s(i))), data, v[i - 1])
    BY <1>4, <1>6, <1>9
  <2> QED
    BY <1>3, <1>11, <2>1, Read
<1>13. ArePasses(v, 4, step, n)
  <2>1. v[0] = 4
    <3>1. 0 \in 0..n
      BY <1>3
    <3> QED
      BY <1>3, <1>8, <1>9, <3>1
  <2>2. ASSUME NEW i \in 1..n PROVE v[i] = step[i][v[i - 1]]
    <3>1. step[i][v[i - 1]] = next(v[i - 1])
      BY <1>11
    <3>2. ~(v[i - 1] + 4 > size(data))
      BY <1>5, <1>11
    <3>3. next(v[i - 1]) = v[i]
      BY <1>11, <1>12, <3>2
    <3> QED
      BY <3>1, <3>3
  <2> QED
    BY <2>1, <2>2 DEF ArePasses
<1>14. end = Passes(4, step, n)
  BY <1>8 DEF OperationEnds
<1> HIDE DEF step, end, next
<1>15. \A i \in 0..n : end[i] = v[i]
  <2>1. v = [i \in 0..n |-> v[i]]
    BY <1>10
  <2>2. Goes(v, 4, step, n)
    BY <1>13, <2>1, Zenon DEF Goes
  <2> QED
    BY <1>3, <1>14, <2>2, PassesFollow
<1>16. ASSUME NEW i \in 1..n PROVE op(i) = Ok(ops[i])
  <2>1. end[i - 1] = v[i - 1] /\ end[i] = v[i]
    BY <1>6, <1>15
  <2> DEFINE o == v[i - 1] + 4
  <2>2. o \in Nat /\ end[i - 1] + 5 = o + 1 /\ end[i] = o + size(s(i))
    BY <1>11, <2>1
  <2>3. Lies(s(i), data, o) /\ s(i) \in Seq(Byte) /\ size(data) >= o + size(s(i))
    BY <1>3, <1>4, <1>6, <1>9, <1>11
  <2> HIDE DEF o
  <2>4. SubSeq(data, o + 1, o + size(s(i))) = s(i)
    BY <1>5, <2>2, <2>3, CutOut
  <2> QED
    BY <1>3, <2>2, <2>4
<1>17. ParseCanvasState(data) = Ok(ops)
  <2>1. ~(size(data) < 4)
    BY <1>5, <1>8
  <2>2. ~(end[n] > size(data))
    <3>1. n \in 0..n
      BY <1>3
    <3> QED
      BY <1>4, <1>5, <1>9, <1>15, <3>1
  <2>3. \A i \in 1..n : op(i).ok /\ op(i).value = ops[i]
    BY <1>16, OkIs
  <2> HIDE DEF op
  <2>4. [i \in 1..n |-> op(i).value] = ops
    BY <1>7, <2>3
  <2>5. ParseCanvasState(data) = Ok([i \in 1..n |-> op(i).value])
    BY <1>8, <2>1, <2>2, <2>3 DEF ParseCanvasState, op, end
  <2> QED
    BY <2>4, <2>5
<1>18. ParsePayload(m.opcode, data) = Ok(m.says)
  BY <1>1, <1>17 DEF ParsePayload, Opcode, ops
<1>19. m.opcode \in Byte
  BY <1>1, Codes
<1> QED
  BY <1>1, <1>2, <1>5, <1>18, <1>19 DEF Survives, ops

-----------------------------------------------------------------------------
(* Frames: each says how long it is.                                       *)

\* Frames as they are: each says its length.
Shaped(F) ==
    \A f \in F : /\ f \in Seq(Byte) /\ size(f) \in Nat
                  /\ size(f) >= 6 /\ size(f) = 6 + read32(f, 2)

\* Bytes that are frames, one behind the other; B is where each begins, and
\* the end.
Cuts(F, s, B) ==
    /\ B \subseteq 0..size(s) /\ 0 \in B
    /\ \A b \in B : \/ b = size(s)
                    \/ \E f \in F : Lies(f, s, b) /\ b + size(f) \in B

\* Bytes that are frames of F.
Framed(F, s) == \E B : Cuts(F, s, B)

\* No bytes are no frames.
LEMMA NothingFramed == ASSUME NEW F PROVE Framed(F, <<>>) /\ <<>> \in Seq(Byte)
<1>1. size(<<>>) = 0 /\ <<>> \in Seq(Byte)
  BY DEF size
<1>2. Cuts(F, <<>>, {0})
  BY <1>1 DEF Cuts
<1> QED
  BY <1>1, <1>2 DEF Framed

\* Another frame behind them.
LEMMA OneMoreFrame ==
    ASSUME NEW F, Shaped(F), NEW s \in Seq(Byte), Framed(F, s), NEW f \in F
    PROVE  Framed(F, Cat(s, f))
<1> DEFINE n == size(s)  m == size(f)  c == Cat(s, f)
<1>1. n \in Nat /\ m \in Nat /\ f \in Seq(Byte)
  BY Sizes DEF Shaped
<1>2. /\ size(c) = n + m
      /\ \A i \in 1..n : c[i] = s[i]
      /\ \A i \in 1..m : c[n + i] = f[i]
  BY <1>1, BytesBehind
<1>3. PICK B : Cuts(F, s, B)
  BY DEF Framed
<1> DEFINE D == B \cup {n + m}
<1>4. Lies(f, c, n)
  BY <1>2 DEF Lies
<1> HIDE DEF c
<1>5. ASSUME NEW b \in B PROVE b = n \/ \E g \in F : Lies(g, c, b) /\ b + size(g) \in B
  <2>1. CASE b = size(s)
    BY <2>1
  <2>2. ASSUME NEW g \in F, Lies(g, s, b), b + size(g) \in B
        PROVE  Lies(g, c, b)
    <3>1. b \in Nat /\ b + size(g) <= n /\ size(g) \in Nat
      BY <1>1, <1>3, <2>2 DEF Cuts, Shaped
    <3>2. ASSUME NEW k \in 1..size(g) PROVE c[b + k] = g[k]
      <4>1. b + k \in 1..n
        BY <1>1, <3>1
      <4> QED
        BY <1>2, <2>2, <4>1 DEF Lies
    <3> QED
      BY <3>2 DEF Lies
  <2> QED
    BY <1>3, <2>1, <2>2 DEF Cuts
<1>6. D \subseteq 0..size(c) /\ 0 \in D
  <2>1. B \subseteq 0..n /\ 0 \in B
    BY <1>3 DEF Cuts
  <2> HIDE DEF n, m
  <2>2. 0..n \subseteq 0..n + m /\ n + m \in 0..n + m
    BY <1>1
  <2> QED
    BY <1>2, <2>1, <2>2
<1>7. ASSUME NEW b \in D
      PROVE  b = size(c) \/ \E g \in F : Lies(g, c, b) /\ b + size(g) \in D
  <2>1. CASE b = n
    BY <1>4, <2>1
  <2> QED
    BY <1>2, <1>5, <2>1
<1>8. Cuts(F, c, D)
  BY <1>6, <1>7 DEF Cuts
<1> QED
  BY <1>8 DEF Framed, c

\* The first of them.
LEMMA FirstFrame ==
    ASSUME NEW F, Shaped(F), NEW s \in Seq(Byte), Framed(F, s), size(s) > 0
    PROVE  \E f \in F : /\ Lies(f, s, 0) /\ size(f) <= size(s)
                        /\ Framed(F, Drop(s, size(f)))
<1> DEFINE n == size(s)
<1>1. n \in Nat /\ n # 0
  BY Sizes
<1>2. PICK B : Cuts(F, s, B)
  BY DEF Framed
<1>3. PICK f \in F : Lies(f, s, 0) /\ 0 + size(f) \in B
  BY <1>1, <1>2 DEF Cuts
<1> DEFINE m == size(f)  r == Drop(s, m)
           D == { b \in 0..(n - m) : m + b \in B }
<1>4. m \in Nat /\ m \in B /\ m \in 0..n /\ m >= 6
  BY <1>1, <1>2, <1>3 DEF Cuts, Shaped
<1>5. r \in Seq(Byte) /\ size(r) = n - m /\ \A i \in 1..n - m : r[i] = s[m + i]
  BY <1>4, Parted
<1> HIDE DEF n, m, r
<1>6. D \subseteq 0..size(r) /\ 0 \in D
  BY <1>1, <1>4, <1>5
<1>7. ASSUME NEW b \in D
      PROVE  b = size(r) \/ \E g \in F : Lies(g, r, b) /\ b + size(g) \in D
  <2>1. m + b \in B /\ b \in Nat
    BY <1>1, <1>4
  <2>2. CASE m + b = n
    BY <1>1, <1>4, <1>5, <2>1, <2>2
  <2>3. ASSUME NEW g \in F, Lies(g, s, m + b), (m + b) + size(g) \in B
        PROVE  Lies(g, r, b) /\ b + size(g) \in D
    <3>1. size(g) \in Nat /\ (m + b) + size(g) \in 0..n
      BY <1>2, <2>3 DEF Cuts, Shaped, n
    <3>2. b + size(g) \in D
      <4>1. m + (b + size(g)) = (m + b) + size(g) /\ b + size(g) \in 0..(n - m)
        BY <1>1, <1>4, <2>1, <3>1
      <4> QED
        BY <2>3, <4>1
    <3>3. ASSUME NEW k \in 1..size(g) PROVE r[b + k] = g[k]
      <4>1. b + k \in 1..n - m /\ m + (b + k) = (m + b) + k
        BY <1>1, <1>4, <2>1, <3>1
      <4>2. r[b + k] = s[m + (b + k)]
        BY <1>5, <4>1
      <4> QED
        BY <2>3, <4>1, <4>2 DEF Lies
    <3> QED
      BY <3>2, <3>3 DEF Lies
  <2> QED
    BY <1>2, <2>1, <2>2, <2>3 DEF Cuts, n
<1>8. Cuts(F, r, D)
  BY <1>6, <1>7 DEF Cuts
<1>9. Framed(F, r)
  BY <1>8 DEF Framed
<1> QED
  BY <1>3, <1>4, <1>9 DEF r, m, n

\* Two natural numbers, one weighed.
LEMMA MadeOfTwo == \A i, j, w \in Nat : (i * w) + j \in Nat
OBVIOUS

\* Of bytes, four make a number.
LEMMA Read32Nat ==
    ASSUME NEW q \in Seq(Byte), NEW off \in Nat, off + 4 <= size(q)
    PROVE  read32(q, off) \in Nat
<1>1. size(q) \in Nat /\ \A i \in 1..size(q) : q[i] \in Byte
  BY Sizes, ElementOfSeq DEF size
<1>2. \A i \in 1..size(q) : q[i] \in Nat
  BY <1>1, Widths DEF Byte
<1> DEFINE o == off
<1>3. /\ o \in Nat /\ o + 1 \in 1..size(q) /\ (o + 1) + 1 \in 1..size(q)
      /\ (o + 2) + 1 \in 1..size(q) /\ ((o + 2) + 1) + 1 \in 1..size(q)
  BY <1>1
<1>4. /\ q[o + 1] \in Nat /\ q[(o + 1) + 1] \in Nat
      /\ q[(o + 2) + 1] \in Nat /\ q[((o + 2) + 1) + 1] \in Nat
  BY <1>2, <1>3
<1>5. read16(q, o) \in Nat /\ read16(q, o + 2) \in Nat
  <2>1. /\ read16(q, o) = (q[o + 1] * Base) + q[(o + 1) + 1]
        /\ read16(q, o + 2) = (q[(o + 2) + 1] * Base) + q[((o + 2) + 1) + 1]
    BY DEF read16, read8
  <2>2. Base \in Nat
    BY Widths
  <2>3. /\ (q[o + 1] * Base) + q[(o + 1) + 1] \in Nat
        /\ (q[o + 2 + 1] * Base) + q[((o + 2) + 1) + 1] \in Nat
    BY <1>4, <2>2, MadeOfTwo, Zenon
  <2> QED
    BY <2>1, <2>3
<1>6. read32(q, o) = (read16(q, o) * Word) + read16(q, o + 2)
  BY DEF read32
<1> QED
  BY <1>5, <1>6, Widths, MadeOfTwo

\* How many bytes there are to be read.
LEMMA NeededIs ==
    ASSUME NEW q \in Seq(Byte)
    PROVE  /\ Needed(q) \in Nat /\ Needed(q) >= 6 /\ size(q) \in Nat
           /\ size(q) < 6 => Needed(q) = 6
           /\ size(q) >= 6 => Needed(q) = 6 + read32(q, 2)
<1>1. size(q) \in Nat
  BY Sizes
<1>2. CASE size(q) < 6
  BY <1>1, <1>2 DEF Needed, HeaderSize
<1>3. CASE ~(size(q) < 6)
  <2>1. read32(q, 2) \in Nat
    BY <1>1, <1>3, Read32Nat
  <2>2. ParseHeader(q).value.length = read32(q, 2)
    BY <1>3 DEF ParseHeader, HeaderSize, Ok
  <2> QED
    BY <1>1, <1>3, <2>1, <2>2 DEF Needed, HeaderSize
<1> QED
  BY <1>2, <1>3

\* A frame is all that needs to be read.
LEMMA FrameNeeds ==
    ASSUME NEW F, Shaped(F), NEW f \in F
    PROVE  f \in Seq(Byte) /\ size(f) >= 6 /\ Needed(f) = size(f) /\ f # <<>>
<1>1. f \in Seq(Byte) /\ size(f) >= 6 /\ size(f) = 6 + read32(f, 2) /\ size(f) \in Nat
  BY DEF Shaped
<1>2. f # <<>>
  BY <1>1, First
<1> QED
  BY <1>1, <1>2, NeededIs

\* What the reader has when it has what it needs is a frame.
LEMMA Recognized ==
    ASSUME NEW F, Shaped(F), NEW q \in Seq(Byte), NEW r \in Seq(Byte),
           Framed(F, Cat(q, r)), size(q) >= 6, size(q) = Needed(q)
    PROVE  q \in F /\ Framed(F, r)
<1> DEFINE s == Cat(q, r)  n == size(q)
<1>1. /\ s \in Seq(Byte) /\ n \in Nat /\ size(r) \in Nat /\ size(s) = n + size(r)
      /\ \A i \in 1..n : s[i] = q[i]
      /\ \A i \in 1..size(r) : s[n + i] = r[i]
  BY BytesBehind, Longer, Sizes
<1>2. n >= 6 /\ n = 6 + read32(q, 2) /\ Framed(F, s)
  BY NeededIs
<1> HIDE DEF s
<1>3. size(s) > 0
  BY <1>1, <1>2
<1>4. PICK f \in F : Lies(f, s, 0) /\ size(f) <= size(s) /\ Framed(F, Drop(s, size(f)))
  BY <1>1, <1>2, <1>3, FirstFrame
<1>5. f \in Seq(Byte) /\ size(f) \in Nat /\ size(f) >= 6 /\ size(f) = 6 + read32(f, 2)
  BY DEF Shaped
<1>6. ASSUME NEW k \in 1..size(f) PROVE s[k] = f[k]
  <2>1. 0 + k = k
    OBVIOUS
  <2> QED
    BY <1>4, <2>1 DEF Lies
<1>7. ASSUME NEW k \in 1..6 PROVE q[k] = f[k]
  <2>1. k \in 1..n /\ k \in 1..size(f)
    BY <1>1, <1>2, <1>5
  <2>2. s[k] = q[k]
    BY <1>1, <2>1
  <2> QED
    BY <1>6, <2>1, <2>2
<1>8. q[3] = f[3] /\ q[4] = f[4] /\ q[5] = f[5] /\ q[6] = f[6]
  BY <1>7
<1>9. read32(q, 2) = read32(f, 2)
  BY <1>8 DEF read32, read16, read8
<1>10. size(f) = n
  BY <1>2, <1>5, <1>9
<1>11. \A k \in 1..n : q[k] = f[k]
  BY <1>1, <1>6, <1>10
<1>12. q = f
  BY <1>5, <1>10, <1>11, SameSeq
<1> DEFINE d == Drop(s, n)
<1>13. /\ d \in Seq(Byte) /\ size(d) = size(s) - n
       /\ \A i \in 1..size(s) - n : d[i] = s[n + i]
  <2>1. n \in 0..size(s)
    BY <1>1
  <2> QED
    BY <1>1, <2>1, Parted
<1> HIDE DEF d
<1>14. size(d) = size(r) /\ \A i \in 1..size(d) : d[i] = r[i]
  BY <1>1, <1>13
<1>15. d = r
  BY <1>13, <1>14, SameSeq
<1> QED
  BY <1>4, <1>10, <1>12, <1>15 DEF d

\* A piece moved from the front of one to the end of the other.
LEMMA Moved ==
    ASSUME NEW a \in Seq(Byte), NEW b \in Seq(Byte), NEW k \in 0..size(b)
    PROVE  /\ Cat(a, Take(b, k)) \in Seq(Byte) /\ Drop(b, k) \in Seq(Byte)
           /\ size(Cat(a, Take(b, k))) = size(a) + k
           /\ size(Drop(b, k)) = size(b) - k
           /\ Cat(Cat(a, Take(b, k)), Drop(b, k)) = Cat(a, b)
<1>1. /\ Take(b, k) \in Seq(Byte) /\ size(Take(b, k)) = k
      /\ Drop(b, k) \in Seq(Byte) /\ size(Drop(b, k)) = size(b) - k
  BY Parted
<1>2. Cat(Take(b, k), Drop(b, k)) = b
  BY Rejoined
<1>3. Cat(Cat(a, Take(b, k)), Drop(b, k)) = Cat(a, Cat(Take(b, k), Drop(b, k)))
  BY <1>1, Associates
<1>4. size(a) \in Nat /\ k \in Nat
  BY Sizes
<1>5. Cat(a, Take(b, k)) \in Seq(Byte) /\ size(Cat(a, Take(b, k))) = size(a) + k
  BY <1>1, <1>4, Longer
<1> QED
  BY <1>1, <1>2, <1>3, <1>5

\* The smaller of two.
LEMMA MinOfTwo ==
    ASSUME NEW i \in Int, NEW j \in Int
    PROVE  Min({i, j}) \in Int /\ Min({i, j}) = IF i <= j THEN i ELSE j
BY DEF Min

-----------------------------------------------------------------------------
(* One direction of a connection.                                          *)

\* The invariant of one direction of a connection on which the messages of M
\* are sent, and F are their frames.
StreamInv(M, F) ==
    /\ protocol \in {"tcp", "websocket"} /\ {open, reading} \subseteq BOOLEAN
    /\ todo \in [Senders -> Seq(M)] /\ received \in Seq(F)
    /\ write_mutex \in Senders \cup {"nobody"}
    /\ sending \in Seq(Byte) /\ (write_mutex = "nobody") = (sending = <<>>)
    /\ have \in Seq(Byte) /\ size(have) <= Needed(have)
    /\ protocol = "tcp" =>
          /\ wire \in Seq(Byte) /\ size(wire) <= Room
          /\ \E rest \in Seq(Byte) : /\ open => rest = sending
                                     /\ Framed(F, Cat(Cat(have, wire), rest))
    /\ protocol = "websocket" =>
          wire \in Seq(F) /\ have \in F \cup {<<>>} /\ sending \in F \cup {<<>>}

\* What there is to know of messages and frames.
FramesOf(M, F) ==
    Shaped(F) /\ \A m \in M : SerializeMessage(m) \in F

\* A thread begins to send: the next frame.
LEMMA SendKeeps ==
    ASSUME NEW M, NEW F, FramesOf(M, F), StreamInv(M, F),
           NEW t \in Senders, Send(t)
    PROVE  StreamInv(M, F)'
<1> DEFINE m == Head(todo[t])  f == SerializeMessage(m)
<1>1. /\ todo[t] \in Seq(M) /\ todo[t] # <<>> /\ write_mutex = "nobody" /\ sending = <<>>
      /\ write_mutex' = t /\ sending' = f
      /\ todo' = [todo EXCEPT ![t] = Tail(@)]
      /\ UNCHANGED <<protocol, open, wire, reading, have, received>>
  BY DEF Send, StreamInv, receiver
<1>2. m \in M /\ todo' \in [Senders -> Seq(M)]
  <2>1. todo \in [Senders -> Seq(M)] /\ Tail(todo[t]) \in Seq(M) /\ m \in M
    BY <1>1, HeadTailProperties DEF StreamInv
  <2> QED
    BY <1>1, <2>1
<1>3. f \in F /\ f \in Seq(Byte) /\ f # <<>> /\ size(f) >= 6
  BY <1>2, FrameNeeds DEF FramesOf
<1> HIDE DEF f, m
<1>4. t # "nobody"
  BY StreamAssumption
<1>5. ASSUME protocol = "tcp"
      PROVE  \E rest \in Seq(Byte) : /\ open => rest = f
                                     /\ Framed(F, Cat(Cat(have, wire), rest))
  <2>1. PICK rest \in Seq(Byte) : /\ open => rest = sending
                                  /\ Framed(F, Cat(Cat(have, wire), rest))
    BY <1>5 DEF StreamInv
  <2>2. CASE ~open
    BY <2>1, <2>2
  <2>3. CASE open
    <3>1. have \in Seq(Byte) /\ wire \in Seq(Byte)
      BY <1>5 DEF StreamInv
    <3>2. Cat(have, wire) \in Seq(Byte)
      BY <3>1, Behind
    <3>3. Cat(Cat(have, wire), <<>>) = Cat(have, wire)
      BY <3>2, ConcatEmptySeq DEF Cat
    <3>4. Framed(F, Cat(have, wire))
      BY <1>1, <2>1, <2>3, <3>3
    <3>5. Framed(F, Cat(Cat(have, wire), f))
      BY <1>3, <3>2, <3>4, OneMoreFrame DEF FramesOf
    <3> QED
      BY <1>3, <3>5
  <2> QED
    BY <2>2, <2>3
<1> QED
  BY <1>1, <1>2, <1>3, <1>4, <1>5 DEF StreamInv

\* Bytes pass on: what is sent is the same.
LEMMA WriteKeepsTCP ==
    ASSUME NEW M, NEW F, FramesOf(M, F), StreamInv(M, F), Write_TCP
    PROVE  StreamInv(M, F)'
<1> DEFINE free == Room - size(wire)  most == Min({size(sending), free})
<1>1. /\ protocol = "tcp" /\ open /\ wire \in Seq(Byte) /\ sending \in Seq(Byte)
      /\ have \in Seq(Byte) /\ size(wire) <= Room /\ Framed(F, Cat(Cat(have, wire), sending))
      /\ write_mutex \in Senders
  BY DEF Write_TCP, StreamInv
<1>2. PICK k \in 1..most : wire' = wire \o Take(sending, k) /\ Sent(Drop(sending, k))
  BY DEF Write_TCP
<1>3. size(sending) \in Nat /\ size(wire) \in Nat /\ Room \in Nat
  BY <1>1, Sizes, StreamAssumption
<1>4. k \in 0..size(sending) /\ size(wire) + k <= Room
  <2>1. most \in Int /\ most = IF size(sending) <= free THEN size(sending) ELSE free
    BY <1>3, MinOfTwo
  <2> HIDE DEF most
  <2> QED
    BY <1>3, <2>1
<1> DEFINE w == Cat(wire, Take(sending, k))  d == Drop(sending, k)
<1>5. /\ w \in Seq(Byte) /\ d \in Seq(Byte) /\ size(w) = size(wire) + k
      /\ Cat(w, d) = Cat(wire, sending)
  BY <1>1, <1>4, Moved
<1>6. wire' = w /\ sending' = d /\ write_mutex' = IF d = <<>> THEN "nobody" ELSE write_mutex
  BY <1>2 DEF Cat, Sent
<1> HIDE DEF w, d
<1>7. Cat(Cat(have, w), d) = Cat(Cat(have, wire), sending)
  BY <1>1, <1>5, Associates
<1>8. UNCHANGED <<protocol, open, todo, reading, have, received>>
  BY DEF Write_TCP, receiver
<1>9. write_mutex # "nobody"
  BY <1>1, StreamAssumption
<1>10. \E rest \in Seq(Byte) : /\ open => rest = d
                               /\ Framed(F, Cat(Cat(have, w), rest))
  BY <1>1, <1>5, <1>7
<1> QED
  BY <1>1, <1>4, <1>5, <1>6, <1>8, <1>9, <1>10 DEF StreamInv

\* A WebSocket takes the message as it is.
LEMMA WriteKeepsWS ==
    ASSUME NEW M, NEW F, FramesOf(M, F), StreamInv(M, F), Write_WS
    PROVE  StreamInv(M, F)'
<1>1. /\ protocol = "websocket" /\ wire \in Seq(F) /\ sending \in F
      /\ wire' = Append(wire, sending) /\ sending' = <<>> /\ write_mutex' = "nobody"
      /\ UNCHANGED <<protocol, open, todo, reading, have, received>>
  BY DEF Write_WS, Sent, StreamInv, receiver
<1>2. wire' \in Seq(F) /\ <<>> \in Seq(Byte)
  BY <1>1, AppendProperties
<1> QED
  BY <1>1, <1>2 DEF StreamInv

\* What is left of a message is given up when the connection is gone.
LEMMA WriteFailsKeeps ==
    ASSUME NEW M, NEW F, FramesOf(M, F), StreamInv(M, F), WriteFails
    PROVE  StreamInv(M, F)'
<1>1. /\ ~open /\ sending' = <<>> /\ write_mutex' = "nobody" /\ <<>> \in Seq(Byte)
      /\ UNCHANGED <<protocol, open, todo, wire, reading, have, received>>
  BY DEF WriteFails, Sent, receiver
<1> QED
  BY <1>1 DEF StreamInv

\* A read takes bytes from the wire to what the receiver has.
LEMMA ReadKeepsTCP ==
    ASSUME NEW M, NEW F, FramesOf(M, F), StreamInv(M, F), Read_TCP
    PROVE  StreamInv(M, F)'
<1> DEFINE lacks == Needed(have) - size(have)  k == Min({lacks, size(wire)})
           h == Cat(have, Take(wire, k))  d == Drop(wire, k)
<1>1. /\ protocol = "tcp" /\ wire \in Seq(Byte) /\ have \in Seq(Byte)
      /\ size(have) < Needed(have) /\ size(wire) <= Room
  BY DEF Read_TCP, StreamInv
<1>2. have' = h /\ wire' = d
  BY DEF Read_TCP, Cat
<1>3. /\ size(wire) \in Nat /\ size(have) \in Nat /\ Needed(have) \in Nat /\ Room \in Nat
      /\ Needed(have) >= 6 /\ (size(have) < 6 => Needed(have) = 6)
      /\ (size(have) >= 6 => Needed(have) = 6 + read32(have, 2))
  BY <1>1, Sizes, NeededIs, StreamAssumption
<1>4. k \in 0..size(wire) /\ size(have) + k <= Needed(have)
  <2>1. k \in Int /\ k = IF lacks <= size(wire) THEN lacks ELSE size(wire)
    BY <1>3, MinOfTwo
  <2> HIDE DEF k
  <2> QED
    BY <1>1, <1>3, <2>1
<1> HIDE DEF k
<1>5. /\ h \in Seq(Byte) /\ d \in Seq(Byte) /\ size(h) = size(have) + k
      /\ size(d) = size(wire) - k /\ Cat(h, d) = Cat(have, wire)
  BY <1>1, <1>4, Moved
<1>6. \A i \in 1..size(have) : h[i] = have[i]
  <2>1. Take(wire, k) \in Seq(Byte)
    BY <1>1, <1>4, Parted
  <2> QED
    BY <1>1, <2>1, BytesBehind
<1> HIDE DEF h, d
<1>7. size(h) <= Needed(h)
  <2>1. /\ Needed(h) \in Nat /\ Needed(h) >= 6 /\ (size(h) < 6 => Needed(h) = 6)
        /\ (size(h) >= 6 => Needed(h) = 6 + read32(h, 2))
    BY <1>5, NeededIs
  <2>2. CASE size(have) < 6
    BY <1>3, <1>4, <1>5, <2>1, <2>2
  <2>3. CASE size(have) >= 6
    <3>1. h[3] = have[3] /\ h[4] = have[4] /\ h[5] = have[5] /\ h[6] = have[6]
      BY <1>3, <1>6, <2>3
    <3>2. read32(h, 2) = read32(have, 2)
      BY <3>1 DEF read32, read16, read8
    <3>3. size(h) >= 6
      BY <1>3, <1>4, <1>5, <2>3
    <3> QED
      BY <1>3, <1>4, <1>5, <2>1, <2>3, <3>2, <3>3
  <2> QED
    BY <1>3, <2>2, <2>3
<1>8. PICK rest \in Seq(Byte) : /\ open => rest = sending
                                /\ Framed(F, Cat(Cat(have, wire), rest))
  BY <1>1 DEF StreamInv
<1>9. \E r \in Seq(Byte) : (open => r = sending) /\ Framed(F, Cat(Cat(h, d), r))
  BY <1>5, <1>8
<1>10. size(d) <= Room
  BY <1>1, <1>3, <1>4, <1>5
<1>11. UNCHANGED <<protocol, open, todo, write_mutex, sending, reading, received>>
  BY DEF Read_TCP, sender
<1> QED
  BY <1>1, <1>2, <1>5, <1>7, <1>9, <1>10, <1>11 DEF StreamInv

\* A read takes a message.
LEMMA ReadKeepsWS ==
    ASSUME NEW M, NEW F, FramesOf(M, F), StreamInv(M, F), Read_WS
    PROVE  StreamInv(M, F)'
<1> DEFINE f == Head(wire)
<1>1. /\ protocol = "websocket" /\ wire \in Seq(F) /\ wire # <<>>
      /\ have' = f /\ wire' = Tail(wire)
      /\ UNCHANGED <<protocol, open, todo, write_mutex, sending, reading, received>>
  BY DEF Read_WS, StreamInv, sender
<1>2. f \in F /\ wire' \in Seq(F)
  BY <1>1, HeadTailProperties
<1> HIDE DEF f
<1>3. f \in Seq(Byte) /\ size(f) <= Needed(f)
  <2>1. f \in Seq(Byte) /\ Needed(f) = size(f)
    BY <1>2, FrameNeeds DEF FramesOf
  <2>2. size(f) \in Nat
    BY <2>1, Sizes
  <2> QED
    BY <2>1, <2>2
<1> QED
  BY <1>1, <1>2, <1>3 DEF StreamInv

\* What is handed on is a frame that was sent.
LEMMA DispatchKeeps ==
    ASSUME NEW M, NEW F, FramesOf(M, F), StreamInv(M, F), Dispatch
    PROVE  StreamInv(M, F)'
<1>1. /\ size(have) >= 6 /\ size(have) = Needed(have) /\ have \in Seq(Byte)
      /\ received' = Append(received, have) /\ have' = <<>>
      /\ UNCHANGED <<protocol, open, todo, write_mutex, sending, wire, reading>>
  BY DEF Dispatch, StreamInv, sender, HeaderSize
<1>2. <<>> \in Seq(Byte) /\ size(<<>>) <= Needed(<<>>)
  <2> DEFINE e == <<>>
  <2>1. e \in Seq(Byte) /\ size(e) = 0
    BY DEF size
  <2> HIDE DEF e
  <2>2. Needed(e) \in Nat /\ Needed(e) >= 6
    BY <2>1, NeededIs
  <2>3. e \in Seq(Byte) /\ size(e) <= Needed(e)
    BY <2>1, <2>2
  <2> QED
    BY <2>3 DEF e
<1>3. CASE protocol = "tcp"
  <2>1. PICK rest \in Seq(Byte) : /\ open => rest = sending
                                  /\ Framed(F, Cat(Cat(have, wire), rest))
    BY <1>3 DEF StreamInv
  <2>2. wire \in Seq(Byte) /\ size(wire) <= Room
    BY <1>3 DEF StreamInv
  <2>3. Cat(wire, rest) \in Seq(Byte)
    BY <2>2, Behind
  <2>4. Cat(Cat(have, wire), rest) = Cat(have, Cat(wire, rest))
    BY <1>1, <2>2, Associates
  <2>5. have \in F /\ Framed(F, Cat(wire, rest))
    BY <1>1, <2>1, <2>3, <2>4, Recognized DEF FramesOf
  <2>6. Cat(<<>>, wire) = wire
    BY <2>2, ConcatEmptySeq DEF Cat
  <2>7. received' \in Seq(F)
    <3>1. received \in Seq(F)
      BY DEF StreamInv
    <3> QED
      BY <1>1, <2>5, <3>1, AppendProperties
  <2>8. \E r \in Seq(Byte) : (open => r = sending) /\ Framed(F, Cat(Cat(<<>>, wire), r))
    BY <2>1, <2>5, <2>6
  <2> QED
    BY <1>1, <1>2, <1>3, <2>2, <2>7, <2>8 DEF StreamInv
<1>4. CASE protocol = "websocket"
  <2>1. have # <<>>
    <3>1. size(have) > 0
      BY <1>1, NeededIs
    <3> QED
      BY <1>1, <3>1, First
  <2>2. have \in F /\ received \in Seq(F)
    BY <1>4, <2>1 DEF StreamInv
  <2>3. received' \in Seq(F)
    BY <1>1, <2>2, AppendProperties
  <2> QED
    BY <1>1, <1>2, <1>4, <2>3 DEF StreamInv
<1> QED
  BY <1>3, <1>4 DEF StreamInv

\* The receiver gives up.
LEMMA ReadFailsKeeps ==
    ASSUME NEW M, NEW F, FramesOf(M, F), StreamInv(M, F), ReadFails
    PROVE  StreamInv(M, F)'
<1>1. /\ reading' = FALSE
      /\ UNCHANGED <<protocol, open, todo, write_mutex, sending, wire, have, received>>
  BY DEF ReadFails, sender
<1> QED
  BY <1>1 DEF StreamInv

\* The connection is lost: what was on its way is cut off.
LEMMA BreakKeeps ==
    ASSUME NEW M, NEW F, FramesOf(M, F), StreamInv(M, F), Break
    PROVE  StreamInv(M, F)'
<1>1. PICK k \in 0..size(wire) : wire' = Take(wire, k)
  BY DEF Break
<1>2. /\ open' = FALSE /\ open
      /\ UNCHANGED <<protocol, todo, write_mutex, sending, reading, have, received>>
  BY DEF Break, sender, receiver
<1>3. CASE protocol = "tcp"
  <2> DEFINE w == Take(wire, k)  d == Drop(wire, k)
  <2>1. /\ wire \in Seq(Byte) /\ have \in Seq(Byte) /\ sending \in Seq(Byte)
        /\ size(wire) <= Room /\ Framed(F, Cat(Cat(have, wire), sending))
    BY <1>2, <1>3 DEF StreamInv
  <2>2. w \in Seq(Byte) /\ d \in Seq(Byte) /\ size(w) = k /\ size(wire) \in Nat
        /\ Cat(w, d) = wire
    BY <2>1, Parted, Rejoined
  <2> HIDE DEF w, d
  <2> DEFINE r == Cat(d, sending)  hw == Cat(have, w)
  <2>3. r \in Seq(Byte) /\ hw \in Seq(Byte)
    BY <2>1, <2>2, Behind
  <2>4. Cat(hw, r) = Cat(Cat(have, wire), sending)
    <3>1. Cat(hw, r) = Cat(Cat(hw, d), sending)
      BY <2>1, <2>2, <2>3, Associates
    <3>2. Cat(hw, d) = Cat(have, Cat(w, d))
      BY <2>1, <2>2, Associates
    <3> QED
      BY <2>2, <3>1, <3>2
  <2>5. size(w) <= Room
    BY <2>1, <2>2, StreamAssumption
  <2>6. wire' = w
    BY <1>1 DEF w
  <2>7. \E rest \in Seq(Byte) : Framed(F, Cat(Cat(have, w), rest))
    BY <2>1, <2>3, <2>4
  <2> QED
    BY <1>2, <1>3, <2>2, <2>5, <2>6, <2>7 DEF StreamInv
<1>4. CASE protocol = "websocket"
  <2>1. wire \in Seq(F)
    BY <1>4 DEF StreamInv
  <2>2. Take(wire, k) \in Seq(F)
    BY <2>1, Parted
  <2> QED
    BY <1>1, <1>2, <1>4, <2>2 DEF StreamInv
<1> QED
  BY <1>3, <1>4 DEF StreamInv

\* Every step of the stream keeps its invariant.
LEMMA StreamKeeps ==
    ASSUME NEW M, NEW F, FramesOf(M, F), StreamInv(M, F), StreamNext
    PROVE  StreamInv(M, F)'
<1>1. ASSUME NEW t \in Senders, SenderThread(t) PROVE StreamInv(M, F)'
  BY <1>1, SendKeeps, WriteKeepsTCP, WriteKeepsWS, WriteFailsKeeps DEF SenderThread
<1>2. CASE ReceiverThread
  BY <1>2, ReadKeepsTCP, ReadKeepsWS, DispatchKeeps, ReadFailsKeeps DEF ReceiverThread
<1> QED
  BY <1>1, <1>2, BreakKeeps DEF StreamNext

-----------------------------------------------------------------------------
(* Discovery: an offer is of a session its server has had.                 *)

\* An offer is of a session its server has had, and the host has had the one
\* wanted.
OffersInv ==
    /\ \A s \in Servers : open_sessions[s] \subseteq 1..(next_session_id[s] - 1)
    /\ \A o \in offers : o.session_id < next_session_id[o.by]
    /\ host # "none" => wanted \in Ids /\ wanted < next_session_id[host]

DiscoveryInv == DiscoveryTypeOK /\ OffersInv

\* There are no offers at first.
LEMMA DiscoveryStarts == ASSUME DiscoveryInit PROVE DiscoveryInv
<1>1. MaxSessions \in Nat /\ MaxAttempts \in Nat
  BY DiscoveryAssumption
<1>2. DiscoveryTypeOK
  BY <1>1 DEF DiscoveryInit, DiscoveryTypeOK
<1>3. OffersInv
  BY <1>1 DEF DiscoveryInit, OffersInv
<1> QED
  BY <1>2, <1>3 DEF DiscoveryInv

\* A session is opened.
LEMMA OpenKeeps ==
    ASSUME DiscoveryInv, NEW s \in Servers, OpenSession(s)
    PROVE  DiscoveryInv'
<1> DEFINE id == next_session_id[s]
<1>1. /\ next_session_id \in [Servers -> 1..(MaxSessions + 1)] /\ id \in 1..MaxSessions
      /\ open_sessions \in [Servers -> SUBSET Ids] /\ MaxSessions \in Nat
  BY DiscoveryAssumption DEF DiscoveryInv, DiscoveryTypeOK, OpenSession
<1>2. /\ next_session_id' = [next_session_id EXCEPT ![s] = id + 1]
      /\ open_sessions' = [open_sessions EXCEPT ![s] = open_sessions[s] \cup {id}]
      /\ UNCHANGED <<requests, offers, port, wanted, host, attempts>>
  BY DEF OpenSession
<1>3. /\ next_session_id' \in [Servers -> 1..(MaxSessions + 1)]
      /\ open_sessions' \in [Servers -> SUBSET Ids]
  BY <1>1, <1>2 DEF Ids
<1>4. \A r \in Servers : next_session_id[r] <= next_session_id'[r]
                         /\ next_session_id[r] \in Nat /\ next_session_id'[r] \in Nat
  BY <1>1, <1>2
<1>5. ASSUME NEW r \in Servers PROVE open_sessions'[r] \subseteq 1..(next_session_id'[r] - 1)
  <2>1. open_sessions[r] \subseteq 1..(next_session_id[r] - 1)
    BY DEF DiscoveryInv, OffersInv
  <2>2. CASE r = s
    <3>1. open_sessions'[r] = open_sessions[s] \cup {id} /\ next_session_id'[r] = id + 1
      BY <1>1, <1>2, <2>2
    <3>2. open_sessions[s] \subseteq 1..(id - 1)
      BY <2>1, <2>2
    <3> HIDE DEF id
    <3> QED
      BY <1>1, <3>1, <3>2
  <2>3. CASE r # s
    BY <1>1, <1>2, <2>1, <2>3
  <2> QED
    BY <2>2, <2>3
<1>6. ASSUME NEW o \in offers' PROVE o.session_id < next_session_id'[o.by]
  <2>1. o \in offers /\ o.by \in Servers /\ o.session_id \in Ids
    BY <1>2 DEF DiscoveryInv, DiscoveryTypeOK
  <2>2. o.session_id < next_session_id[o.by] /\ o.session_id \in Nat
    BY <2>1 DEF DiscoveryInv, OffersInv, Ids
  <2> QED
    BY <1>4, <2>1, <2>2
<1>7. ASSUME host' # "none" PROVE wanted' \in Ids /\ wanted' < next_session_id'[host']
  <2>1. host \in Servers /\ wanted \in Ids /\ wanted < next_session_id[host]
    BY <1>2, <1>7 DEF DiscoveryInv, DiscoveryTypeOK, OffersInv
  <2>2. wanted \in Nat
    BY <2>1 DEF Ids
  <2> QED
    BY <1>2, <1>4, <2>1, <2>2
<1>8. DiscoveryTypeOK'
  BY <1>2, <1>3 DEF DiscoveryInv, DiscoveryTypeOK
<1> QED
  BY <1>5, <1>6, <1>7, <1>8 DEF DiscoveryInv, OffersInv

\* A session is closed: it has still been had.
LEMMA CloseKeeps ==
    ASSUME DiscoveryInv, NEW s \in Servers, CloseSession(s)
    PROVE  DiscoveryInv'
<1>1. PICK id \in open_sessions[s] :
        open_sessions' = [open_sessions EXCEPT ![s] = open_sessions[s] \ {id}]
  BY DEF CloseSession
<1>2. UNCHANGED <<next_session_id, requests, offers, port, wanted, host, attempts>>
  BY DEF CloseSession
<1>3. open_sessions \in [Servers -> SUBSET Ids]
  BY DEF DiscoveryInv, DiscoveryTypeOK
<1>4. /\ open_sessions' \in [Servers -> SUBSET Ids]
      /\ \A r \in Servers : open_sessions'[r] \subseteq open_sessions[r]
  BY <1>1, <1>3
<1>5. DiscoveryTypeOK'
  BY <1>2, <1>4 DEF DiscoveryInv, DiscoveryTypeOK
<1>6. \A r \in Servers : open_sessions'[r] \subseteq 1..(next_session_id'[r] - 1)
  BY <1>2, <1>4 DEF DiscoveryInv, OffersInv
<1> QED
  BY <1>2, <1>5, <1>6 DEF DiscoveryInv, OffersInv

\* A responder offers a session it has.
LEMMA RespondKeeps ==
    ASSUME DiscoveryInv, NEW r \in requests, Respond(r)
    PROVE  DiscoveryInv'
<1> DEFINE offer == [by |-> r.to, session_id |-> r.session_id, to |-> r.from, via |-> r.via]
<1>1. /\ r.to \in Servers /\ r.session_id \in Ids /\ r.from \in Ports
      /\ r.via \in {"broadcast", "loopback"}
  BY DEF DiscoveryInv, DiscoveryTypeOK
<1>2. /\ requests' = requests \ {r} /\ offers' \subseteq offers \cup {offer}
      /\ offers' # offers => r.session_id \in open_sessions[r.to]
      /\ UNCHANGED <<next_session_id, open_sessions, port, wanted, host, attempts>>
  BY DEF Respond, lookup, lan
<1>3. offer \in [by : Servers, session_id : Ids, to : Ports, via : {"broadcast", "loopback"}]
  BY <1>1
<1>4. offer.session_id = r.session_id /\ offer.by = r.to
  OBVIOUS
<1> HIDE DEF offer
<1>5. DiscoveryTypeOK'
  BY <1>2, <1>3 DEF DiscoveryInv, DiscoveryTypeOK
<1>6. ASSUME NEW o \in offers' PROVE o.session_id < next_session_id'[o.by]
  <2>1. CASE o \in offers
    BY <1>2, <2>1 DEF DiscoveryInv, OffersInv
  <2>2. CASE o \notin offers
    <3>1. o = offer /\ r.session_id \in open_sessions[r.to]
      BY <1>2, <2>2
    <3>2. r.session_id \in 1..(next_session_id[r.to] - 1) /\ next_session_id[r.to] \in Int
      BY <1>1, <3>1 DEF DiscoveryInv, DiscoveryTypeOK, OffersInv
    <3>3. r.session_id < next_session_id[r.to]
      BY <3>2
    <3> QED
      BY <1>2, <1>4, <3>1, <3>3
  <2> QED
    BY <2>1, <2>2
<1> QED
  BY <1>2, <1>5, <1>6 DEF DiscoveryInv, OffersInv

\* A search begins.
LEMMA DiscoverKeeps == ASSUME DiscoveryInv, Discover PROVE DiscoveryInv'
<1>1. /\ host = "none" /\ attempts' = attempts + 1 /\ attempts < MaxAttempts
      /\ port' \in Ports /\ wanted' \in Ids
      /\ requests' = requests
          \cup [to : Servers, session_id : {wanted'}, from : {port'}, via : {"broadcast"}]
          \cup [to : {Local}, session_id : {wanted'}, from : {port'}, via : {"loopback"}]
      /\ UNCHANGED <<next_session_id, open_sessions, offers, host>>
  BY DEF Discover, lan
<1>2. requests' \subseteq [to : Servers, session_id : Ids, from : Ports,
                           via : {"broadcast", "loopback"}]
  BY <1>1, DiscoveryAssumption DEF DiscoveryInv, DiscoveryTypeOK
<1>3. attempts' \in 0..MaxAttempts
  BY <1>1, DiscoveryAssumption DEF DiscoveryInv, DiscoveryTypeOK
<1>4. DiscoveryTypeOK'
  BY <1>1, <1>2, <1>3 DEF DiscoveryInv, DiscoveryTypeOK
<1> QED
  BY <1>1, <1>4 DEF DiscoveryInv, OffersInv

\* The offer a search goes by.
LEMMA OfferKeeps ==
    ASSUME DiscoveryInv, NEW o \in offers, ReceiveOffer(o)
    PROVE  DiscoveryInv'
<1>1. /\ offers' = offers \ {o} /\ port = o.to
      /\ UNCHANGED <<next_session_id, open_sessions, requests, wanted, attempts>>
  BY DEF ReceiveOffer, lan
<1>2. /\ o.by \in Servers /\ o.session_id \in Ids /\ o.to \in Ports
      /\ o.session_id < next_session_id[o.by]
  BY DEF DiscoveryInv, DiscoveryTypeOK, OffersInv
<1>3. \/ o.session_id = wanted /\ host' = o.by /\ port' = "none"
      \/ UNCHANGED <<host, port>>
  BY DEF ReceiveOffer
<1>4. DiscoveryTypeOK'
  BY <1>1, <1>2, <1>3 DEF DiscoveryInv, DiscoveryTypeOK
<1>5. host' # "none" => wanted' \in Ids /\ wanted' < next_session_id'[host']
  BY <1>1, <1>2, <1>3 DEF DiscoveryInv, OffersInv
<1> QED
  BY <1>1, <1>4, <1>5 DEF DiscoveryInv, OffersInv

\* A search is over.
LEMMA TimeOutKeeps == ASSUME DiscoveryInv, TimeOut PROVE DiscoveryInv'
<1>1. /\ port' = "none"
      /\ UNCHANGED <<next_session_id, open_sessions, requests, offers, wanted, host, attempts>>
  BY DEF TimeOut, lan
<1> QED
  BY <1>1 DEF DiscoveryInv, DiscoveryTypeOK, OffersInv

\* Every step of the discovery keeps its invariant.
LEMMA DiscoveryKeeps == ASSUME DiscoveryInv, DiscoveryNext PROVE DiscoveryInv'
BY OpenKeeps, CloseKeeps, RespondKeeps, DiscoverKeeps, OfferKeeps, TimeOutKeeps
   DEF DiscoveryNext

-----------------------------------------------------------------------------
(* Messages and their frames.                                              *)

\* Whatever message is sent, what is written of it is read back.
LEMMA MessageSurvives == ASSUME NEW m \in Message PROVE Survives(m)
BY EmptySurvives, CreateSurvives, JoinSurvives, CreateAckSurvives, JoinAckSurvives,
   AckSurvives, SessionClosedSurvives, MemberSurvives, DrawSurvives, CanvasStateSurvives
   DEF Message

\* The frame of a message says its length, and the message comes out of it.
LEMMA MessageFrame ==
    ASSUME NEW m \in Message
    PROVE  LET f == SerializeMessage(m)
           IN /\ f \in Seq(Byte) /\ size(f) \in Nat /\ size(f) >= 6
              /\ size(f) = 6 + read32(f, 2) /\ ParseMessage(f) = m
<1> DEFINE f == SerializeMessage(m)  p == Payload(m)
<1>1. /\ m = [opcode |-> m.opcode, says |-> m.says] /\ m.opcode \in Byte
      /\ p \in Seq(Byte) /\ size(p) < Long /\ ParsePayload(m.opcode, p) = Ok(m.says)
  BY MessageSurvives DEF Survives
<1>2. /\ f \in Seq(Byte) /\ size(f) = 6 + size(p) /\ read8(f, 0) = m.opcode
      /\ read32(f, 2) = size(p) /\ SubSeq(f, HeaderSize + 1, size(f)) = p
  BY <1>1, FrameOf DEF HeaderSize
<1>3. size(p) \in Nat
  BY <1>1, Sizes
<1> HIDE DEF f, p
<1>4. ParsePayload(m.opcode, p).ok /\ ParsePayload(m.opcode, p).value = m.says
  BY <1>1, OkIs
<1>5. ParseMessage(f) = m
  BY <1>1, <1>2, <1>4 DEF ParseMessage
<1>6. size(f) \in Nat /\ size(f) >= 6 /\ size(f) = 6 + read32(f, 2)
  BY <1>2, <1>3
<1> QED
  BY <1>2, <1>5, <1>6 DEF f

\* The frames of messages.
FramesFor(M) == { SerializeMessage(m) : m \in M }

\* They are what the stream takes frames to be.
LEMMA FramesShaped == ASSUME NEW M, M \subseteq Message PROVE FramesOf(M, FramesFor(M))
BY MessageFrame, Zenon DEF FramesOf, FramesFor, Shaped

-----------------------------------------------------------------------------
(* What may be sent: after a search, only the JOIN.                        *)

Sendable == IF connected /\ host # "none" THEN {Join(wanted)} ELSE Messages

\* The inductive invariant.
TransportInv ==
    /\ DiscoveryInv /\ connected \in BOOLEAN
    /\ StreamInv(Sendable, FramesFor(Sendable))
    /\ ~connected => /\ StreamInit /\ protocol = "tcp"
                     /\ todo = [t \in Senders |-> <<>>]

\* Nothing sent, nothing on its way, nothing read.
LEMMA NothingSent ==
    ASSUME NEW F
    PROVE  /\ <<>> \in Seq(Byte) /\ <<>> \in Seq(F)
           /\ size(<<>>) <= Needed(<<>>) /\ size(<<>>) <= Room
           /\ Framed(F, Cat(Cat(<<>>, <<>>), <<>>))
<1> DEFINE e == <<>>
<1>1. e \in Seq(Byte) /\ e \in Seq(F) /\ size(e) = 0
  BY DEF size
<1>2. Framed(F, e)
  BY NothingFramed
<1>3. Cat(Cat(e, e), e) = e
  BY <1>1, ConcatEmptySeq DEF Cat
<1> HIDE DEF e
<1>4. size(e) <= Needed(e) /\ size(e) <= Room
  <2>1. Needed(e) \in Nat /\ Room \in Nat
    BY <1>1, NeededIs, StreamAssumption
  <2> QED
    BY <1>1, <2>1
<1>5. Framed(F, Cat(Cat(e, e), e))
  BY <1>2, <1>3
<1> QED
  BY <1>1, <1>4, <1>5 DEF e

\* A connection on which nothing has been sent yet.
LEMMA StreamStarts ==
    ASSUME NEW M, NEW F, StreamInit, protocol \in {"tcp", "websocket"},
           todo \in [Senders -> Seq(M)]
    PROVE  StreamInv(M, F)
BY NothingSent DEF StreamInit, StreamInv

\* The same of the next state.
LEMMA StreamStartsNext ==
    ASSUME NEW M, NEW F, StreamInit', protocol' \in {"tcp", "websocket"},
           todo' \in [Senders -> Seq(M)]
    PROVE  StreamInv(M, F)'
BY NothingSent DEF StreamInit, StreamInv

\* The invariant holds at first.
LEMMA Starts == Init => TransportInv
<1> SUFFICES ASSUME Init PROVE TransportInv
  OBVIOUS
<1>1. DiscoveryInv /\ host = "none" /\ StreamInit
  BY DiscoveryStarts DEF Init, DiscoveryInit
<1>2. Sendable = Messages /\ FramesOf(Messages, FramesFor(Messages))
  BY <1>1, FramesShaped, TransportAssumption DEF Sendable
<1>3. connected \in BOOLEAN /\ protocol \in {"tcp", "websocket"}
      /\ todo \in [Senders -> Seq(Messages)]
  <2>1. CASE connected = FALSE /\ protocol = "tcp" /\ todo = [t \in Senders |-> <<>>]
    <3>1. <<>> \in Seq(Messages)
      OBVIOUS
    <3> QED
      BY <2>1, <3>1
  <2>2. CASE connected = TRUE /\ \E a \in Traffic : protocol = a.protocol /\ todo = a.todo
    BY <2>2, TransportAssumption
  <2> QED
    BY <2>1, <2>2 DEF Init
<1>4. StreamInv(Messages, FramesFor(Messages))
  BY <1>1, <1>2, <1>3, StreamStarts
<1>5. ~connected => protocol = "tcp" /\ todo = [t \in Senders |-> <<>>]
  BY DEF Init
<1> QED
  BY <1>1, <1>2, <1>3, <1>4, <1>5 DEF TransportInv

\* What may be sent are messages.
LEMMA SendableIs == TransportInv => Sendable \subseteq Messages /\ Sendable \subseteq Message
<1> SUFFICES ASSUME TransportInv PROVE Sendable \subseteq Messages
  BY TransportAssumption
<1>1. host # "none" => wanted \in Ids
  BY DEF TransportInv, DiscoveryInv, OffersInv
<1> QED
  BY <1>1, TransportAssumption DEF Sendable

\* As long as what may be sent stays the same.
LEMMA StreamStays ==
    ASSUME TransportInv, StreamNext \/ UNCHANGED stream, UNCHANGED Sendable
    PROVE  StreamInv(Sendable, FramesFor(Sendable))'
<1>1. PICK M : M = Sendable
  OBVIOUS
<1>2. PICK F : F = FramesFor(M)
  OBVIOUS
<1>3. M \subseteq Message /\ StreamInv(M, F)
  BY <1>1, <1>2, SendableIs DEF TransportInv
<1>4. FramesOf(M, F)
  BY <1>2, <1>3, FramesShaped
<1>5. StreamInv(M, F)'
  <2>1. CASE StreamNext
    BY <1>3, <1>4, <2>1, StreamKeeps
  <2>2. CASE UNCHANGED stream
    BY <1>3, <2>2 DEF StreamInv, stream, sender, receiver
  <2> QED
    BY <2>1, <2>2
<1>6. Sendable' = M
  BY <1>1
<1> QED
  BY <1>1, <1>2, <1>5, <1>6

\* Every step keeps it.
LEMMA Keeps == TransportInv /\ [Next]_vars => TransportInv'
<1> SUFFICES ASSUME TransportInv, [Next]_vars PROVE TransportInv'
  OBVIOUS
<1>1. CASE ~connected /\ DiscoveryNext /\ UNCHANGED <<stream, connected>>
  <2>1. DiscoveryInv'
    BY <1>1, DiscoveryKeeps DEF TransportInv
  <2>2. UNCHANGED Sendable
    BY <1>1 DEF Sendable
  <2>3. StreamInv(Sendable, FramesFor(Sendable))'
    BY <1>1, <2>2, StreamStays
  <2>4. StreamInit' /\ protocol' = "tcp" /\ todo' = [t \in Senders |-> <<>>]
    BY <1>1 DEF TransportInv, StreamInit, stream, sender, receiver
  <2> QED
    BY <1>1, <2>1, <2>3, <2>4 DEF TransportInv
<1>2. CASE Connect
  <2>1. /\ ~connected /\ host # "none" /\ connected' = TRUE
        /\ todo' = [todo EXCEPT ![connect_thread] = <<Join(wanted)>>]
        /\ requests' = {} /\ offers' = {}
        /\ UNCHANGED <<protocol, open, write_mutex, sending, wire, reading, have, received>>
        /\ UNCHANGED <<next_session_id, open_sessions, port, wanted, host, attempts>>
    BY <1>2 DEF Connect, lan, receiver
  <2>2. DiscoveryInv'
    BY <2>1 DEF TransportInv, DiscoveryInv, DiscoveryTypeOK, OffersInv
  <2>3. PICK j : j = Join(wanted)
    OBVIOUS
  <2>4. Sendable' = {j} /\ j \in Message
    <3>1. wanted \in Ids
      BY <2>1 DEF TransportInv, DiscoveryInv, OffersInv
    <3> QED
      BY <2>1, <2>3, <3>1, TransportAssumption DEF Sendable, Join
  <2>5. StreamInit /\ protocol = "tcp" /\ todo = [t \in Senders |-> <<>>]
    BY <2>1 DEF TransportInv
  <2>6. StreamInit' /\ protocol' = "tcp"
    BY <2>1, <2>5 DEF StreamInit
  <2>7. todo' \in [Senders -> Seq({j})]
    <3>1. <<>> \in Seq({j}) /\ <<j>> \in Seq({j})
      OBVIOUS
    <3> QED
      BY <2>1, <2>3, <2>5, <3>1
  <2>8. PICK F : F = FramesFor({j})
    OBVIOUS
  <2>9. FramesOf({j}, F)
    BY <2>4, <2>8, FramesShaped
  <2>10. StreamInv({j}, F)'
    BY <2>6, <2>7, StreamStartsNext
  <2>11. StreamInv(Sendable, FramesFor(Sendable))'
    BY <2>4, <2>8, <2>10
  <2> QED
    BY <2>1, <2>2, <2>11 DEF TransportInv
<1>3. CASE ConnectFails
  <2>1. /\ ~connected /\ host' = "none"
        /\ UNCHANGED <<stream, connected, next_session_id, open_sessions, requests, offers,
                       port, wanted, attempts>>
    BY <1>3 DEF ConnectFails, lan
  <2>2. DiscoveryInv'
    BY <2>1 DEF TransportInv, DiscoveryInv, DiscoveryTypeOK, OffersInv
  <2>3. UNCHANGED Sendable
    BY <2>1 DEF Sendable
  <2>4. StreamInv(Sendable, FramesFor(Sendable))'
    BY <2>1, <2>3, StreamStays
  <2>5. StreamInit' /\ protocol' = "tcp" /\ todo' = [t \in Senders |-> <<>>]
    BY <2>1 DEF TransportInv, StreamInit, stream, sender, receiver
  <2> QED
    BY <2>1, <2>2, <2>4, <2>5 DEF TransportInv
<1>4. CASE (connected /\ StreamNext /\ UNCHANGED <<discovery, connected>>)
           \/ UNCHANGED vars
  <2>1. UNCHANGED <<discovery, connected>> /\ (StreamNext \/ UNCHANGED stream)
    BY <1>4 DEF vars
  <2>2. UNCHANGED <<next_session_id, open_sessions, requests, offers, port, wanted, host,
                    attempts>>
    BY <2>1 DEF discovery, lan
  <2>3. DiscoveryInv'
    BY <2>2 DEF TransportInv, DiscoveryInv, DiscoveryTypeOK, OffersInv
  <2>4. UNCHANGED Sendable
    BY <2>1, <2>2 DEF Sendable, Join
  <2>5. StreamInv(Sendable, FramesFor(Sendable))'
    BY <2>1, <2>4, StreamStays
  <2>6. ~connected' => /\ StreamInit' /\ protocol' = "tcp"
                       /\ todo' = [t \in Senders |-> <<>>]
    <3>1. CASE connected
      BY <2>1, <3>1
    <3>2. CASE ~connected
      BY <1>4, <3>2 DEF TransportInv, StreamInit, vars, stream, sender, receiver
    <3> QED
      BY <3>1, <3>2
  <2> QED
    BY <2>1, <2>3, <2>5, <2>6 DEF TransportInv
<1> QED
  BY <1>1, <1>2, <1>3, <1>4 DEF Next

\* So it always holds.
LEMMA Always == Spec => []TransportInv
BY Starts, Keeps, PTL DEF Spec

\* What was received was sent.
LEMMA ReceivedSent ==
    ASSUME TransportInv, NEW i \in 1..Len(received)
    PROVE  /\ Dispatched(i) \in Sendable
           /\ SerializeMessage(Dispatched(i)) = received[i]
<1>1. received \in Seq(FramesFor(Sendable)) /\ Sendable \subseteq Message
  BY SendableIs DEF TransportInv, StreamInv
<1>2. received[i] \in FramesFor(Sendable)
  BY <1>1, ElementOfSeq
<1>3. PICK m \in Sendable : received[i] = SerializeMessage(m)
  BY <1>2 DEF FramesFor
<1>4. Dispatched(i) = m
  BY <1>1, <1>3, MessageFrame DEF Dispatched
<1> QED
  BY <1>3, <1>4

\* Every variable has its type: among others, what clientConnection::send has
\* not written yet is there just while a thread holds write_mutex, and a
\* receiver never has more than it needs of a message.
THEOREM TypeCorrect == Spec => []TypeOK
<1>1. TransportInv => TypeOK
  <2> SUFFICES ASSUME TransportInv PROVE TypeOK
    OBVIOUS
  <2>1. PICK F : F = FramesFor(Sendable)
    OBVIOUS
  <2>2. Shaped(F)
    BY <2>1, SendableIs, FramesShaped DEF FramesOf
  <2>3. F \subseteq Seq(Byte) \ {<<>>}
    BY <2>2, FrameNeeds
  <2>4. wire \in Seq(F) => wire \in Seq(Seq(Byte) \ {<<>>})
    BY <2>3
  <2> QED
    BY <2>1, <2>4 DEF TransportInv, DiscoveryInv, StreamInv, TypeOK
<1> QED
  BY <1>1, Always, PTL

\* Several threads send, net::write and net::read work in pieces, the connection
\* may break: what a handler is given is a message that was sent, and parsed as
\* what was serialized, for every value of every field of every message.
THEOREM ReceivedReadBack == Spec => []ReadBack
<1>1. TransportInv => ReadBack
  BY ReceivedSent, SendableIs DEF ReadBack
<1> QED
  BY <1>1, Always, PTL

\* Whatever responders answer to whichever search, late or in any order, the JOIN
\* goes to a server that has had the session.
THEOREM JoinOffered == Spec => []JoinGoesWhereOffered
<1>1. TransportInv => JoinGoesWhereOffered
  <2> SUFFICES ASSUME TransportInv, NEW i \in 1..Len(received),
                      Dispatched(i).opcode = Opcode.JOIN, host # "none"
               PROVE  Dispatched(i).says.session_id < next_session_id[host]
    BY DEF JoinGoesWhereOffered
  <2>1. wanted < next_session_id[host]
    BY DEF TransportInv, DiscoveryInv, OffersInv
  <2>2. Dispatched(i) \in Sendable
    BY ReceivedSent
  <2>3. connected
    <3>1. ~connected => received = <<>>
      BY DEF TransportInv, StreamInit
    <3> QED
      BY <3>1
  <2>4. Dispatched(i).says.session_id = wanted
    BY <2>2, <2>3 DEF Sendable, Join
  <2> QED
    BY <2>1, <2>4
<1> QED
  BY <1>1, Always, PTL

-----------------------------------------------------------------------------
(* FramesIn: it is what its definition says, and splits where frames end.  *)

\* FramesIn: what it does of bytes with what it has for shorter ones.
IsCut(s) == ~(size(s) < HeaderSize \/ size(s) < Needed(s))
Rest(s) == Drop(s, Needed(s))
Add(s, frames) == <<Take(s, Needed(s))>> \o frames
FramesBy(g, s) == IF ~IsCut(s) THEN <<>> ELSE Add(s, g[Rest(s)])

\* Shorter ones, and a function that is right for those.
Short(k) == { s \in Seq(Byte) : size(s) < k }
ArePartly(g, k) == g = [s \in Short(k) |-> FramesBy(g, s)]

\* A frame cut off leaves less.
LEMMA RestShorter ==
    ASSUME NEW s \in Seq(Byte), IsCut(s)
    PROVE  /\ Rest(s) \in Seq(Byte) /\ size(Rest(s)) \in Nat /\ size(Rest(s)) < size(s)
           /\ size(Rest(s)) = size(s) - Needed(s) /\ Needed(s) \in 0..size(s)
<1>1. Needed(s) \in 0..size(s) /\ Needed(s) >= 6 /\ size(s) \in Nat
  BY NeededIs DEF IsCut, HeaderSize
<1>2. Rest(s) \in Seq(Byte) /\ size(Rest(s)) = size(s) - Needed(s)
  BY <1>1, Parted DEF Rest
<1> QED
  BY <1>1, <1>2

\* Where a partial function is defined.
LEMMA PartlyAre ==
    ASSUME NEW k \in Nat, NEW g, ArePartly(g, k), NEW s \in Seq(Byte), size(s) < k
    PROVE  g[s] = FramesBy(g, s)
<1>1. s \in Short(k)
  BY DEF Short
<1> QED
  BY <1>1, Zenon DEF ArePartly

\* There is one for any length.
LEMMA PartlyExist == ASSUME NEW k \in Nat PROVE \E g : ArePartly(g, k)
<1> DEFINE P == { n \in 0..k : \E g : ArePartly(g, n) }
<1>1. 0 \in P
  <2> DEFINE g == [s \in {} |-> <<>>]
  <2>1. Short(0) = {}
    BY Sizes DEF Short
  <2>2. g = [s \in {} |-> FramesBy(g, s)]
    OBVIOUS
  <2>3. ArePartly(g, 0)
    BY <2>1, <2>2, Zenon DEF ArePartly
  <2>4. 0 \in 0..k
    OBVIOUS
  <2> HIDE DEF g
  <2> QED
    BY <2>3, <2>4
<1>2. ASSUME NEW n \in 1..k, n - 1 \in P PROVE n \in P
  <2>1. PICK g : ArePartly(g, n - 1)
    BY <1>2
  <2> DEFINE h == [s \in Short(n) |-> FramesBy(g, s)]
  <2>2. n - 1 \in Nat
    OBVIOUS
  <2>3. ASSUME NEW s \in Seq(Byte), size(s) < n - 1 PROVE h[s] = g[s]
    <3>1. s \in Short(n)
      BY <2>3, Sizes DEF Short
    <3>2. g[s] = FramesBy(g, s)
      BY <2>1, <2>2, <2>3, PartlyAre
    <3> QED
      BY <3>1, <3>2, Zenon
  <2> HIDE DEF h
  <2>4. ASSUME NEW s \in Short(n) PROVE FramesBy(h, s) = FramesBy(g, s)
    <3>1. CASE ~IsCut(s)
      BY <3>1 DEF FramesBy
    <3>2. CASE IsCut(s)
      <4>1. s \in Seq(Byte) /\ size(s) < n
        BY DEF Short
      <4>2. Rest(s) \in Seq(Byte) /\ size(Rest(s)) < n - 1
        <5>1. Rest(s) \in Seq(Byte) /\ size(Rest(s)) < size(s) /\ size(Rest(s)) \in Nat
          BY <3>2, <4>1, RestShorter
        <5>2. size(s) \in Nat
          BY <4>1, Sizes
        <5> QED
          BY <4>1, <5>1, <5>2
      <4>3. h[Rest(s)] = g[Rest(s)]
        BY <2>3, <4>2
      <4> QED
        BY <3>2, <4>3, Zenon DEF FramesBy
    <3> QED
      BY <3>1, <3>2
  <2>5. h = [s \in Short(n) |-> FramesBy(g, s)]
    BY Zenon DEF h
  <2>6. [s \in Short(n) |-> FramesBy(g, s)] = [s \in Short(n) |-> FramesBy(h, s)]
    BY <2>4, Zenon
  <2>7. h = [s \in Short(n) |-> FramesBy(h, s)]
    BY <2>5, <2>6, Zenon
  <2>8. ArePartly(h, n)
    BY <2>7, Zenon DEF ArePartly
  <2>9. n \in 0..k
    OBVIOUS
  <2> QED
    BY <2>8, <2>9
<1>3. 0..k \subseteq P
  <2> HIDE DEF P
  <2> QED
    BY <1>1, <1>2, Induction
<1> QED
  BY <1>3

\* Two of them agree.
LEMMA PartlyAgree ==
    ASSUME NEW k \in Nat, NEW g, ArePartly(g, k), NEW j \in Nat, NEW h, ArePartly(h, j),
           NEW s \in Seq(Byte), size(s) < k, size(s) < j
    PROVE  g[s] = h[s]
<1> DEFINE P == { n \in Nat : \A q \in Seq(Byte) :
                     size(q) = n /\ n < k /\ n < j => g[q] = h[q] }
<1>1. ASSUME NEW n \in Nat, \A i \in 0..(n - 1) : i \in P PROVE n \in P
  <2> SUFFICES ASSUME NEW q \in Seq(Byte), size(q) = n, n < k, n < j PROVE g[q] = h[q]
    OBVIOUS
  <2>1. g[q] = FramesBy(g, q) /\ h[q] = FramesBy(h, q)
    BY PartlyAre
  <2>2. CASE ~IsCut(q)
    BY <2>1, <2>2 DEF FramesBy
  <2>3. CASE IsCut(q)
    <3>1. Rest(q) \in Seq(Byte) /\ size(Rest(q)) \in Nat /\ size(Rest(q)) < n
      BY <2>3, RestShorter
    <3> DEFINE i == size(Rest(q))
    <3>2. i \in 0..(n - 1) /\ i < k /\ i < j
      BY <3>1
    <3>3. i \in P
      BY <1>1, <3>2
    <3>4. g[Rest(q)] = h[Rest(q)]
      BY <3>1, <3>2, <3>3
    <3> QED
      BY <2>1, <2>3, <3>4, Zenon DEF FramesBy
  <2> QED
    BY <2>2, <2>3
<1>2. Nat \subseteq P
  <2> HIDE DEF P
  <2> QED
    BY <1>1, StrongInduction
<1>3. size(s) \in Nat
  BY Sizes
<1> QED
  BY <1>2, <1>3

\* So FramesIn is what its definition says.
LEMMA FramesInIs ==
    ASSUME NEW s \in Seq(Byte)
    PROVE  FramesIn[s] = FramesBy(FramesIn, s)
<1> DEFINE G(k) == CHOOSE g : ArePartly(g, k)
           all == [q \in Seq(Byte) |-> G(size(q) + 1)[q]]
<1>1. ASSUME NEW k \in Nat PROVE ArePartly(G(k), k)
  BY PartlyExist, Zenon
<1> HIDE DEF G
<1>2. ASSUME NEW q \in Seq(Byte) PROVE all[q] = FramesBy(all, q)
  <2>1. size(q) \in Nat /\ size(q) + 1 \in Nat /\ size(q) < size(q) + 1
    BY Sizes
  <2>2. PICK g : g = G(size(q) + 1)
    OBVIOUS
  <2>3. ArePartly(g, size(q) + 1) /\ all[q] = g[q]
    BY <1>1, <2>1, <2>2
  <2>4. all[q] = FramesBy(g, q)
    BY <2>1, <2>3, PartlyAre
  <2>5. CASE ~IsCut(q)
    BY <2>4, <2>5 DEF FramesBy
  <2>6. CASE IsCut(q)
    <3>1. PICK r : r = Rest(q)
      OBVIOUS
    <3>2. r \in Seq(Byte) /\ size(r) \in Nat /\ size(r) + 1 \in Nat
          /\ size(r) < size(q) + 1 /\ size(r) < size(r) + 1
      BY <2>1, <2>6, <3>1, RestShorter
    <3>3. PICK h : h = G(size(r) + 1)
      OBVIOUS
    <3>4. ArePartly(h, size(r) + 1) /\ all[r] = h[r]
      BY <1>1, <3>2, <3>3
    <3>5. g[r] = h[r]
      BY <2>1, <2>3, <3>2, <3>4, PartlyAgree
    <3> HIDE DEF all
    <3>6. g[Rest(q)] = all[Rest(q)]
      BY <3>1, <3>4, <3>5
    <3> QED
      BY <2>4, <2>6, <3>6, Zenon DEF FramesBy
  <2> QED
    BY <2>5, <2>6
<1>3. all = [q \in Seq(Byte) |-> all[q]]
  BY Zenon
<1> HIDE DEF all
<1>4. all = [q \in Seq(Byte) |-> FramesBy(all, q)]
  BY <1>2, <1>3, Zenon
<1>5. FramesIn = [q \in Seq(Byte) |-> FramesBy(FramesIn, q)]
  BY <1>4, Zenon DEF FramesIn, FramesBy, IsCut, Add, Rest
<1> QED
  BY <1>5, Zenon

\* Two sequences come apart where they were put together.
LEMMA ComesApart ==
    ASSUME NEW a \in Seq(Byte), NEW b \in Seq(Byte)
    PROVE  /\ Take(Cat(a, b), size(a)) = a /\ Drop(Cat(a, b), size(a)) = b
           /\ Cat(a, b) \in Seq(Byte) /\ size(Cat(a, b)) = size(a) + size(b)
           /\ size(a) \in Nat /\ size(b) \in Nat
           /\ \A i \in 1..size(a) : Cat(a, b)[i] = a[i]
<1> DEFINE c == Cat(a, b)  n == size(a)  t == Take(c, n)  d == Drop(c, n)
<1>1. /\ c \in Seq(Byte) /\ n \in Nat /\ size(b) \in Nat /\ size(c) = n + size(b)
      /\ \A i \in 1..n : c[i] = a[i]
      /\ \A i \in 1..size(b) : c[n + i] = b[i]
  BY BytesBehind, Longer, Sizes
<1> HIDE DEF c, n
<1>2. n \in 0..size(c)
  BY <1>1
<1>3. /\ t \in Seq(Byte) /\ size(t) = n /\ \A i \in 1..n : t[i] = c[i]
      /\ d \in Seq(Byte) /\ size(d) = size(c) - n
      /\ \A i \in 1..size(c) - n : d[i] = c[n + i]
  BY <1>1, <1>2, Parted
<1> HIDE DEF t, d
<1>4. t = a
  <2>1. size(t) = size(a) /\ \A i \in 1..size(t) : t[i] = a[i]
    BY <1>1, <1>3 DEF n
  <2> QED
    BY <1>3, <2>1, SameSeq
<1>5. d = b
  <2>1. size(d) = size(b) /\ \A i \in 1..size(d) : d[i] = b[i]
    BY <1>1, <1>3
  <2> QED
    BY <1>3, <2>1, SameSeq
<1> QED
  BY <1>1, <1>4, <1>5 DEF t, d, c, n

\* The header says how many bytes there are to be read.
LEMMA SameHeader ==
    ASSUME NEW q \in Seq(Byte), NEW s \in Seq(Byte), size(q) >= 6, size(s) >= 6,
           \A i \in 1..6 : q[i] = s[i]
    PROVE  Needed(q) = Needed(s)
<1>1. q[3] = s[3] /\ q[4] = s[4] /\ q[5] = s[5] /\ q[6] = s[6]
  OBVIOUS
<1>2. read32(q, 2) = read32(s, 2)
  BY <1>1 DEF read32, read16, read8
<1> QED
  BY <1>2, NeededIs

\* A whole frame: what it needs is what it has.
IsWhole(f) == f \in Seq(Byte) /\ size(f) >= 6 /\ size(f) = Needed(f)

\* Its bytes come first.
LEMMA FirstOut ==
    ASSUME NEW f, IsWhole(f), NEW r \in Seq(Byte)
    PROVE  FramesIn[Cat(f, r)] = Cat(<<f>>, FramesIn[r])
<1> DEFINE s == Cat(f, r)
<1>1. /\ s \in Seq(Byte) /\ size(s) = size(f) + size(r) /\ size(f) \in Nat /\ size(r) \in Nat
      /\ \A i \in 1..size(f) : s[i] = f[i]
      /\ Take(s, size(f)) = f /\ Drop(s, size(f)) = r /\ f \in Seq(Byte) /\ size(f) >= 6
  BY ComesApart DEF IsWhole
<1> HIDE DEF s
<1>2. Needed(s) = size(f)
  <2>1. size(s) >= 6 /\ \A i \in 1..6 : s[i] = f[i]
    BY <1>1
  <2>2. Needed(s) = Needed(f)
    BY <1>1, <2>1, SameHeader
  <2> QED
    BY <2>2 DEF IsWhole
<1>3. IsCut(s)
  BY <1>1, <1>2 DEF IsCut, HeaderSize
<1>4. FramesIn[s] = FramesBy(FramesIn, s)
  BY <1>1, FramesInIs
<1>5. Rest(s) = r /\ Take(s, Needed(s)) = f
  BY <1>1, <1>2 DEF Rest
<1>6. FramesIn[s] = Cat(<<f>>, FramesIn[r])
  BY <1>3, <1>4, <1>5, Zenon DEF FramesBy, Add, Cat
<1> QED
  BY <1>6 DEF s

\* If the first bytes are a frame.
LEMMA FirstOff ==
    ASSUME NEW s \in Seq(Byte), IsCut(s)
    PROVE  /\ IsWhole(Take(s, Needed(s))) /\ Cat(Take(s, Needed(s)), Rest(s)) = s
           /\ Rest(s) \in Seq(Byte) /\ size(Rest(s)) \in Nat /\ size(Rest(s)) < size(s)
<1> DEFINE n == Needed(s)  f == Take(s, n)
<1>1. /\ Rest(s) \in Seq(Byte) /\ size(Rest(s)) \in Nat /\ size(Rest(s)) < size(s)
      /\ n \in 0..size(s)
  BY RestShorter
<1>2. f \in Seq(Byte) /\ size(f) = n /\ \A i \in 1..n : f[i] = s[i]
  BY <1>1, Parted
<1>3. Cat(f, Rest(s)) = s
  BY <1>1, Rejoined DEF Rest
<1>4. n \in Nat /\ n >= 6 /\ size(s) >= 6
  BY <1>1, NeededIs
<1> HIDE DEF f, n
<1>5. Needed(f) = Needed(s)
  <2>1. size(f) >= 6 /\ \A i \in 1..6 : f[i] = s[i]
    BY <1>2, <1>4
  <2> QED
    BY <1>2, <1>4, <2>1, SameHeader
<1>6. IsWhole(f)
  BY <1>2, <1>4, <1>5 DEF IsWhole, n
<1> QED
  BY <1>1, <1>3, <1>6 DEF f, n

\* Frames are sequences of bytes.
Lists == Seq(Seq(Byte))

\* Joining them.
LEMMA ListsJoin ==
    /\ <<>> \in Lists
    /\ \A f \in Seq(Byte) : <<f>> \in Lists
    /\ \A a, b \in Lists : Cat(a, b) \in Lists
    /\ \A a, b, c \in Lists : Cat(Cat(a, b), c) = Cat(a, Cat(b, c))
    /\ \A a \in Lists : Cat(a, <<>>) = a /\ Cat(<<>>, a) = a
<1>1. <<>> \in Lists /\ \A f \in Seq(Byte) : <<f>> \in Lists
  BY DEF Lists
<1>2. \A a, b \in Lists : Cat(a, b) \in Lists
  BY Behind DEF Lists
<1>3. \A a, b, c \in Lists : Cat(Cat(a, b), c) = Cat(a, Cat(b, c))
  BY Associates DEF Lists
<1>4. \A a \in Lists : Cat(a, <<>>) = a /\ Cat(<<>>, a) = a
  BY ConcatEmptySeq DEF Lists, Cat
<1> QED
  BY <1>1, <1>2, <1>3, <1>4

\* Three of them.
LEMMA ListsRegroup ==
    ASSUME NEW a \in Lists, NEW b \in Lists, NEW c \in Lists
    PROVE  Cat(a, Cat(b, c)) = Cat(Cat(a, b), c)
BY ListsJoin

\* Whatever the bytes are, FramesIn makes frames of them.
LEMMA FramesInType == ASSUME NEW s \in Seq(Byte) PROVE FramesIn[s] \in Lists
<1> DEFINE P == { n \in Nat : \A q \in Seq(Byte) : size(q) = n => FramesIn[q] \in Lists }
<1>1. ASSUME NEW n \in Nat, \A i \in 0..(n - 1) : i \in P PROVE n \in P
  <2> SUFFICES ASSUME NEW q \in Seq(Byte), size(q) = n PROVE FramesIn[q] \in Lists
    OBVIOUS
  <2>1. FramesIn[q] = FramesBy(FramesIn, q)
    BY FramesInIs
  <2>2. CASE ~IsCut(q)
    BY <2>1, <2>2, ListsJoin DEF FramesBy
  <2>3. CASE IsCut(q)
    <3>1. /\ Take(q, Needed(q)) \in Seq(Byte)
          /\ Rest(q) \in Seq(Byte) /\ size(Rest(q)) \in 0..(n - 1)
      BY <2>3, FirstOff DEF IsWhole
    <3>2. FramesIn[Rest(q)] \in Lists
      BY <1>1, <3>1
    <3>3. FramesIn[q] = Cat(<<Take(q, Needed(q))>>, FramesIn[Rest(q)])
      BY <2>1, <2>3, Zenon DEF FramesBy, Add, Cat
    <3> QED
      BY <3>1, <3>2, <3>3, ListsJoin
  <2> QED
    BY <2>2, <2>3
<1>2. Nat \subseteq P
  <2> HIDE DEF P
  <2> QED
    BY <1>1, StrongInduction
<1> QED
  BY <1>2, Sizes

\* No bytes make none.
LEMMA NoFrames == FramesIn[<<>>] = <<>> /\ <<>> \in Seq(Byte)
<1>1. <<>> \in Seq(Byte) /\ size(<<>>) = 0
  BY DEF size
<1>2. FramesIn[<<>>] = FramesBy(FramesIn, <<>>)
  BY <1>1, FramesInIs
<1>3. ~IsCut(<<>>)
  BY <1>1 DEF IsCut, HeaderSize
<1> QED
  BY <1>1, <1>2, <1>3 DEF FramesBy

\* A frame behind frames is the last of them.
LEMMA LastIn ==
    ASSUME NEW F, Shaped(F), NEW s \in Seq(Byte), Framed(F, s), NEW f \in F
    PROVE  FramesIn[Cat(s, f)] = Cat(FramesIn[s], <<f>>)
<1> DEFINE P == { n \in Nat : \A q \in Seq(Byte) :
                     size(q) = n /\ Framed(F, q)
                        => FramesIn[Cat(q, f)] = Cat(FramesIn[q], <<f>>) }
<1>1. IsWhole(f) /\ f \in Seq(Byte)
  BY FrameNeeds DEF IsWhole
<1>2. FramesIn[f] = <<f>>
  <2>1. FramesIn[Cat(f, <<>>)] = Cat(<<f>>, FramesIn[<<>>])
    BY <1>1, NoFrames, FirstOut
  <2>2. Cat(f, <<>>) = f
    BY <1>1, ConcatEmptySeq DEF Cat
  <2> QED
    BY <1>1, <2>1, <2>2, NoFrames, ListsJoin
<1>3. ASSUME NEW n \in Nat, \A i \in 0..(n - 1) : i \in P PROVE n \in P
  <2> SUFFICES ASSUME NEW q \in Seq(Byte), size(q) = n, Framed(F, q)
               PROVE  FramesIn[Cat(q, f)] = Cat(FramesIn[q], <<f>>)
    OBVIOUS
  <2>1. CASE n = 0
    <3>1. q = <<>>
      BY <2>1 DEF size
    <3>2. Cat(<<>>, f) = f
      BY <1>1, ConcatEmptySeq DEF Cat
    <3> QED
      BY <1>1, <1>2, <3>1, <3>2, NoFrames, ListsJoin
  <2>2. CASE n # 0
    <3>1. PICK g \in F : /\ Lies(g, q, 0) /\ size(g) <= size(q)
                         /\ Framed(F, Drop(q, size(g)))
      BY <2>2, FirstFrame
    <3>2. IsWhole(g) /\ g \in Seq(Byte) /\ size(g) >= 6 /\ size(g) \in Nat
      BY FrameNeeds, Sizes DEF IsWhole
    <3> DEFINE r == Drop(q, size(g))  t == Take(q, size(g))
    <3>3. /\ r \in Seq(Byte) /\ size(r) = n - size(g) /\ t \in Seq(Byte) /\ size(t) = size(g)
          /\ \A i \in 1..size(g) : t[i] = q[i]
      <4>1. size(g) \in 0..size(q)
        BY <3>1, <3>2
      <4> QED
        BY <4>1, Parted
    <3>4. Cat(t, r) = q
      BY <3>1, <3>2, Rejoined
    <3> HIDE DEF r, t
    <3>5. t = g
      <4>1. ASSUME NEW i \in 1..size(t) PROVE t[i] = g[i]
        <5>1. 0 + i = i /\ i \in 1..size(g)
          BY <3>3
        <5> QED
          BY <3>1, <3>3, <5>1 DEF Lies
      <4> QED
        BY <3>2, <3>3, <4>1, SameSeq
    <3>6. size(r) \in 0..(n - 1) /\ Framed(F, r)
      BY <3>1, <3>2, <3>3, Sizes DEF r
    <3>7. FramesIn[Cat(r, f)] = Cat(FramesIn[r], <<f>>)
      BY <1>3, <3>3, <3>6
    <3>8. Cat(q, f) = Cat(g, Cat(r, f)) /\ Cat(r, f) \in Seq(Byte)
      BY <1>1, <3>2, <3>3, <3>4, <3>5, Associates, ComesApart
    <3>9. FramesIn[Cat(q, f)] = Cat(<<g>>, FramesIn[Cat(r, f)])
      BY <3>2, <3>8, FirstOut
    <3>10. FramesIn[q] = Cat(<<g>>, FramesIn[r])
      BY <3>2, <3>3, <3>4, <3>5, FirstOut
    <3>11. <<g>> \in Lists /\ FramesIn[r] \in Lists /\ <<f>> \in Lists
      BY <1>1, <3>2, <3>3, FramesInType, ListsJoin
    <3>12. Cat(<<g>>, Cat(FramesIn[r], <<f>>)) = Cat(Cat(<<g>>, FramesIn[r]), <<f>>)
      BY <3>11, ListsRegroup
    <3> QED
      BY <3>7, <3>9, <3>10, <3>12, Zenon
  <2> QED
    BY <2>1, <2>2
<1>4. Nat \subseteq P
  <2> HIDE DEF P
  <2> QED
    BY <1>3, StrongInduction
<1> QED
  BY <1>4, Sizes

\* One list of frames is the beginning of another.
Begins(a, b) == \E c \in Lists : b = Cat(a, c)

\* Of fewer bytes come fewer frames.
LEMMA CutOff ==
    ASSUME NEW a \in Seq(Byte), NEW b \in Seq(Byte)
    PROVE  Begins(FramesIn[a], FramesIn[Cat(a, b)])
<1> DEFINE P == { n \in Nat : \A q \in Seq(Byte) :
                     size(q) = n => Begins(FramesIn[q], FramesIn[Cat(q, b)]) }
<1>1. ASSUME NEW n \in Nat, \A i \in 0..(n - 1) : i \in P PROVE n \in P
  <2> SUFFICES ASSUME NEW q \in Seq(Byte), size(q) = n
               PROVE  Begins(FramesIn[q], FramesIn[Cat(q, b)])
    OBVIOUS
  <2>1. CASE ~IsCut(q)
    <3>1. FramesIn[q] = <<>>
      BY <2>1, FramesInIs DEF FramesBy
    <3>2. Cat(q, b) \in Seq(Byte)
      BY ComesApart
    <3>3. FramesIn[Cat(q, b)] \in Lists
      BY <3>2, FramesInType
    <3> QED
      BY <3>1, <3>3, ListsJoin DEF Begins
  <2>2. CASE IsCut(q)
    <3> DEFINE f == Take(q, Needed(q))  r == Rest(q)
    <3>1. /\ IsWhole(f) /\ Cat(f, r) = q /\ r \in Seq(Byte) /\ size(r) \in 0..(n - 1)
          /\ f \in Seq(Byte)
      BY <2>2, FirstOff DEF IsWhole
    <3> HIDE DEF f, r
    <3>2. PICK c \in Lists : FramesIn[Cat(r, b)] = Cat(FramesIn[r], c)
      BY <1>1, <3>1 DEF Begins
    <3>3. Cat(q, b) = Cat(f, Cat(r, b)) /\ Cat(r, b) \in Seq(Byte)
      BY <3>1, Associates, ComesApart
    <3>4. FramesIn[Cat(q, b)] = Cat(<<f>>, FramesIn[Cat(r, b)])
      BY <3>1, <3>3, FirstOut
    <3>5. FramesIn[q] = Cat(<<f>>, FramesIn[r])
      BY <3>1, FirstOut
    <3>6. <<f>> \in Lists /\ FramesIn[r] \in Lists
      BY <3>1, FramesInType, ListsJoin
    <3>7. FramesIn[Cat(q, b)] = Cat(FramesIn[q], c)
      <4>1. Cat(<<f>>, Cat(FramesIn[r], c)) = Cat(Cat(<<f>>, FramesIn[r]), c)
        BY <3>6, ListsRegroup
      <4> QED
        BY <3>2, <3>4, <3>5, <4>1, Zenon
    <3> QED
      BY <3>7 DEF Begins
  <2> QED
    BY <2>1, <2>2
<1>2. Nat \subseteq P
  <2> HIDE DEF P
  <2> QED
    BY <1>1, StrongInduction
<1> QED
  BY <1>2, Sizes

-----------------------------------------------------------------------------
(* What is on its way, step by step.                                       *)

\* The frames on their way, of what the variables are.
Single(message) == IF message = <<>> THEN <<>> ELSE <<message>>
Queue(kind, bytes, line, left) ==
    IF kind = "tcp" THEN FramesIn[Cat(Cat(bytes, line), left)]
    ELSE Cat(Cat(Single(bytes), line), Single(left))

\* So OnTheWay says.
LEMMA QueueIs ==
    /\ open => OnTheWay = Queue(protocol, have, wire, sending)
    /\ ~open => OnTheWay = Queue(protocol, have, wire, <<>>)
BY DEF OnTheWay, Queue, Single, Cat

\* The same of the next state.
LEMMA QueueIsNext ==
    /\ open' => OnTheWay' = Queue(protocol', have', wire', sending')
    /\ ~open' => OnTheWay' = Queue(protocol', have', wire', <<>>)
BY DEF OnTheWay, Queue, Single, Cat

\* What a step may do to the channel.
Stays == UNCHANGED <<OnTheWay, received, open>>
Comes(F) ==
    /\ open /\ UNCHANGED <<received, open>> /\ OnTheWay \in Lists
    /\ \E f \in F : OnTheWay' = Cat(OnTheWay, <<f>>)
IsTaken ==
    /\ UNCHANGED open /\ OnTheWay' \in Lists
    /\ \E f \in Seq(Byte) : /\ OnTheWay = Cat(<<f>>, OnTheWay')
                            /\ received' = Append(received, f)
IsLost ==
    /\ open /\ open' = FALSE /\ UNCHANGED received
    /\ OnTheWay' \in Lists /\ Begins(OnTheWay', OnTheWay)

\* Messages one by one.
LEMMA Singles ==
    ASSUME NEW m \in Seq(Byte)
    PROVE  Single(m) \in Lists /\ (m # <<>> => Single(m) = <<m>>) /\ Single(<<>>) = <<>>
BY ListsJoin DEF Single

\* What is on its way over a WebSocket is a list.
LEMMA Listed == ASSUME NEW F, Shaped(F), NEW w \in Seq(F) PROVE w \in Lists
<1>1. F \subseteq Seq(Byte)
  BY DEF Shaped
<1> QED
  BY <1>1 DEF Lists

\* A thread begins to send.
LEMMA SendComes ==
    ASSUME NEW M, NEW F, FramesOf(M, F), StreamInv(M, F), NEW t \in Senders, Send(t)
    PROVE  Comes(F) \/ Stays
<1> DEFINE m == Head(todo[t])  f == SerializeMessage(m)
<1>1. /\ todo[t] \in Seq(M) /\ todo[t] # <<>> /\ sending = <<>> /\ sending' = f
      /\ UNCHANGED <<protocol, open, wire, have, received>>
  BY DEF Send, StreamInv, receiver
<1>2. m \in M
  BY <1>1, HeadTailProperties
<1>3. f \in F /\ f \in Seq(Byte) /\ f # <<>>
  BY <1>2, FrameNeeds DEF FramesOf
<1> HIDE DEF f, m
<1>4. have \in Seq(Byte) /\ open \in BOOLEAN
  BY DEF StreamInv
<1>5. CASE ~open
  BY <1>1, <1>5, QueueIs, QueueIsNext DEF Stays
<1>6. CASE open /\ protocol = "tcp"
  <2> DEFINE s == Cat(have, wire)
  <2>1. wire \in Seq(Byte) /\ Framed(F, Cat(s, <<>>))
    BY <1>1, <1>6 DEF StreamInv
  <2>2. s \in Seq(Byte)
    BY <1>4, <2>1, ComesApart
  <2>3. Cat(s, <<>>) = s
    BY <2>2, ConcatEmptySeq DEF Cat
  <2>4. OnTheWay = FramesIn[s] /\ OnTheWay' = FramesIn[Cat(s, f)]
    BY <1>1, <1>6, <2>3, QueueIs, QueueIsNext DEF Queue
  <2> HIDE DEF s
  <2>5. FramesIn[Cat(s, f)] = Cat(FramesIn[s], <<f>>) /\ FramesIn[s] \in Lists
    BY <1>3, <2>1, <2>2, <2>3, LastIn, FramesInType DEF FramesOf
  <2> QED
    BY <1>1, <1>3, <1>6, <2>4, <2>5 DEF Comes
<1>7. CASE open /\ protocol = "websocket"
  <2> DEFINE s == Cat(Single(have), wire)
  <2>1. wire \in Seq(F)
    BY <1>7 DEF StreamInv
  <2>2. s \in Lists
    <3>1. wire \in Lists
      BY <2>1, Listed DEF FramesOf
    <3> QED
      BY <1>4, <3>1, Singles, ListsJoin
  <2>3. OnTheWay = Cat(s, Single(<<>>)) /\ OnTheWay' = Cat(s, Single(f))
    BY <1>1, <1>7, QueueIs, QueueIsNext DEF Queue
  <2> HIDE DEF s
  <2>4. Single(<<>>) = <<>> /\ Single(f) = <<f>> /\ Cat(s, <<>>) = s
    BY <1>3, <2>2, Singles, ListsJoin
  <2> QED
    BY <1>1, <1>3, <1>7, <2>2, <2>3, <2>4 DEF Comes
<1> QED
  BY <1>4, <1>5, <1>6, <1>7 DEF StreamInv

\* Bytes pass on.
LEMMA WriteStaysTCP ==
    ASSUME NEW M, NEW F, StreamInv(M, F), Write_TCP
    PROVE  Stays
<1> DEFINE free == Room - size(wire)  most == Min({size(sending), free})
<1>1. /\ protocol = "tcp" /\ open /\ wire \in Seq(Byte) /\ sending \in Seq(Byte)
      /\ have \in Seq(Byte)
      /\ UNCHANGED <<protocol, open, have, received>>
  BY DEF Write_TCP, StreamInv, receiver
<1>2. PICK k \in 1..most : wire' = wire \o Take(sending, k) /\ Sent(Drop(sending, k))
  BY DEF Write_TCP
<1>3. size(sending) \in Nat /\ size(wire) \in Nat /\ Room \in Nat
  BY <1>1, Sizes, StreamAssumption
<1>4. k \in 0..size(sending)
  <2>1. most \in Int /\ most = IF size(sending) <= free THEN size(sending) ELSE free
    BY <1>3, MinOfTwo
  <2> HIDE DEF most
  <2> QED
    BY <1>3, <2>1
<1> DEFINE w == Cat(wire, Take(sending, k))  d == Drop(sending, k)
<1>5. w \in Seq(Byte) /\ d \in Seq(Byte) /\ Cat(w, d) = Cat(wire, sending)
  BY <1>1, <1>4, Moved
<1>6. wire' = w /\ sending' = d
  BY <1>2 DEF Cat, Sent
<1> HIDE DEF w, d
<1>7. Cat(Cat(have, w), d) = Cat(Cat(have, wire), sending)
  BY <1>1, <1>5, Associates
<1> QED
  BY <1>1, <1>6, <1>7, QueueIs, QueueIsNext DEF Queue, Stays

\* A WebSocket takes a message.
LEMMA WriteStaysWS ==
    ASSUME NEW M, NEW F, FramesOf(M, F), StreamInv(M, F), Write_WS
    PROVE  Stays
<1>1. /\ protocol = "websocket" /\ open /\ wire \in Seq(F) /\ sending \in F
      /\ wire' = Append(wire, sending) /\ sending' = <<>>
      /\ UNCHANGED <<protocol, open, have, received>> /\ have \in Seq(Byte)
  BY DEF Write_WS, Sent, StreamInv, receiver
<1>2. sending \in Seq(Byte) /\ sending # <<>> /\ wire \in Lists
  BY <1>1, FrameNeeds, Listed DEF FramesOf
<1> DEFINE a == Single(have)
<1>3. a \in Lists /\ <<sending>> \in Lists
  BY <1>1, <1>2, Singles, ListsJoin
<1>4. Append(wire, sending) = Cat(wire, <<sending>>)
  BY <1>2, AppendIsConcat DEF Lists, Cat
<1>5. Single(sending) = <<sending>> /\ Single(<<>>) = <<>>
  BY <1>2, Singles
<1>6. OnTheWay = Cat(Cat(a, wire), <<sending>>)
  BY <1>1, <1>5, QueueIs DEF Queue
<1>7. OnTheWay' = Cat(Cat(a, Cat(wire, <<sending>>)), <<>>)
  BY <1>1, <1>4, <1>5, QueueIsNext DEF Queue
<1> HIDE DEF a
<1>8. Cat(a, Cat(wire, <<sending>>)) = Cat(Cat(a, wire), <<sending>>)
  BY <1>2, <1>3, ListsRegroup
<1>9. Cat(wire, <<sending>>) \in Lists /\ Cat(a, Cat(wire, <<sending>>)) \in Lists
  BY <1>2, <1>3, ListsJoin
<1>10. Cat(Cat(a, Cat(wire, <<sending>>)), <<>>) = Cat(a, Cat(wire, <<sending>>))
  BY <1>9, ListsJoin
<1> QED
  BY <1>1, <1>6, <1>7, <1>8, <1>10 DEF Stays

\* On a connection that is lost nothing more comes in.
LEMMA WriteFailsStays ==
    ASSUME WriteFails PROVE Stays
<1>1. ~open /\ UNCHANGED <<protocol, open, wire, have, received>>
  BY DEF WriteFails, receiver
<1> QED
  BY <1>1, QueueIs, QueueIsNext DEF Stays

\* A read takes bytes.
LEMMA ReadStaysTCP ==
    ASSUME NEW M, NEW F, StreamInv(M, F), Read_TCP
    PROVE  Stays
<1> DEFINE lacks == Needed(have) - size(have)  k == Min({lacks, size(wire)})
           h == Cat(have, Take(wire, k))  d == Drop(wire, k)
<1>1. /\ protocol = "tcp" /\ wire \in Seq(Byte) /\ have \in Seq(Byte)
      /\ size(have) < Needed(have)
      /\ UNCHANGED <<protocol, open, sending, received>>
  BY DEF Read_TCP, StreamInv, sender
<1>2. have' = h /\ wire' = d
  BY DEF Read_TCP, Cat
<1>3. size(wire) \in Nat /\ size(have) \in Nat /\ Needed(have) \in Nat
  BY <1>1, Sizes, NeededIs
<1>4. k \in 0..size(wire)
  <2>1. k \in Int /\ k = IF lacks <= size(wire) THEN lacks ELSE size(wire)
    BY <1>3, MinOfTwo
  <2> HIDE DEF k
  <2> QED
    BY <1>1, <1>3, <2>1
<1> HIDE DEF k
<1>5. Cat(h, d) = Cat(have, wire)
  BY <1>1, <1>4, Moved
<1> HIDE DEF h, d
<1> QED
  BY <1>1, <1>2, <1>5, QueueIs, QueueIsNext DEF Queue, Stays

\* A sequence of messages and its first.
LEMMA HeadFirst ==
    ASSUME NEW w \in Lists, w # <<>>
    PROVE  /\ Head(w) \in Seq(Byte) /\ Tail(w) \in Lists
           /\ Cat(<<Head(w)>>, Tail(w)) = w
<1>1. Head(w) \in Seq(Byte) /\ Tail(w) \in Lists
  BY HeadTailProperties DEF Lists
<1>2. <<Head(w)>> \o Tail(w) = w
  BY DEF Lists
<1> QED
  BY <1>1, <1>2 DEF Cat

\* A read takes a message.
LEMMA ReadStaysWS ==
    ASSUME NEW M, NEW F, FramesOf(M, F), StreamInv(M, F), Read_WS
    PROVE  Stays
<1> DEFINE f == Head(wire)  r == Tail(wire)
<1>1. /\ protocol = "websocket" /\ wire \in Seq(F) /\ wire # <<>> /\ have = <<>>
      /\ have' = f /\ wire' = r /\ UNCHANGED <<protocol, open, sending, received>>
  BY DEF Read_WS, StreamInv, sender
<1>2. f \in F /\ wire \in Lists
  BY <1>1, HeadTailProperties, Listed DEF FramesOf
<1>3. r \in Lists /\ f \in Seq(Byte) /\ f # <<>> /\ Cat(<<f>>, r) = wire
  BY <1>1, <1>2, HeadFirst, FrameNeeds DEF FramesOf
<1> HIDE DEF f, r
<1>4. Single(<<>>) = <<>> /\ Single(f) = <<f>> /\ Cat(<<>>, wire) = wire
  BY <1>2, <1>3, Singles, ListsJoin
<1>5. Cat(Single(have), wire) = Cat(Single(have'), wire')
  BY <1>1, <1>3, <1>4
<1> QED
  BY <1>1, <1>5, QueueIs, QueueIsNext DEF Queue, Stays

\* What is handed on was the first.
LEMMA DispatchGoes ==
    ASSUME NEW M, NEW F, FramesOf(M, F), StreamInv(M, F), Dispatch
    PROVE  IsTaken
<1>1. /\ size(have) >= 6 /\ size(have) = Needed(have) /\ have \in Seq(Byte)
      /\ received' = Append(received, have) /\ have' = <<>>
      /\ UNCHANGED <<protocol, open, sending, wire>>
  BY DEF Dispatch, StreamInv, sender, HeaderSize
<1>2. sending \in Seq(Byte) /\ <<>> \in Seq(Byte) /\ open \in BOOLEAN
      /\ protocol \in {"tcp", "websocket"}
  BY NoFrames DEF StreamInv
<1>3. PICK left \in Seq(Byte) : /\ OnTheWay = Queue(protocol, have, wire, left)
                                /\ OnTheWay' = Queue(protocol, <<>>, wire, left)
  <2>1. CASE open
    BY <1>1, <1>2, <2>1, QueueIs, QueueIsNext
  <2>2. CASE ~open
    BY <1>1, <1>2, <2>2, QueueIs, QueueIsNext
  <2> QED
    BY <2>1, <2>2
<1>4. OnTheWay = Cat(<<have>>, OnTheWay') /\ OnTheWay' \in Lists
  <2>1. CASE protocol = "tcp"
    <3> DEFINE r == Cat(wire, left)
    <3>1. wire \in Seq(Byte)
      BY <2>1 DEF StreamInv
    <3>2. r \in Seq(Byte) /\ Cat(Cat(have, wire), left) = Cat(have, r)
      BY <1>1, <3>1, ComesApart, Associates
    <3>3. Cat(<<>>, wire) = wire
      BY <3>1, ConcatEmptySeq DEF Cat
    <3>4. OnTheWay = FramesIn[Cat(have, r)] /\ OnTheWay' = FramesIn[r]
      BY <1>3, <2>1, <3>2, <3>3 DEF Queue
    <3> HIDE DEF r
    <3>5. FramesIn[Cat(have, r)] = Cat(<<have>>, FramesIn[r]) /\ FramesIn[r] \in Lists
      BY <1>1, <3>2, FirstOut, FramesInType DEF IsWhole
    <3> QED
      BY <3>4, <3>5
  <2>2. CASE protocol = "websocket"
    <3> DEFINE b == Single(left)
    <3>1. wire \in Lists
      BY <2>2, Listed DEF StreamInv, FramesOf
    <3>2. b \in Lists /\ Single(<<>>) = <<>> /\ <<have>> \in Lists
      BY <1>1, Singles, ListsJoin
    <3>3. Single(have) = <<have>>
      <4>1. size(have) > 0
        BY <1>1, NeededIs
      <4>2. have # <<>>
        BY <1>1, <4>1, First
      <4> QED
        BY <1>1, <4>2, Singles
    <3>4. OnTheWay = Cat(Cat(<<have>>, wire), b) /\ OnTheWay' = Cat(Cat(<<>>, wire), b)
      BY <1>3, <2>2, <3>2, <3>3 DEF Queue
    <3> HIDE DEF b
    <3>5. Cat(<<>>, wire) = wire /\ Cat(wire, b) \in Lists
      BY <3>1, <3>2, ListsJoin
    <3>6. Cat(<<have>>, Cat(wire, b)) = Cat(Cat(<<have>>, wire), b)
      BY <3>1, <3>2, ListsRegroup
    <3> QED
      BY <3>4, <3>5, <3>6
  <2> QED
    BY <1>2, <2>1, <2>2
<1> QED
  BY <1>1, <1>4 DEF IsTaken

\* The receiver gives up.
LEMMA ReadFailsStays == ASSUME ReadFails PROVE Stays
<1>1. UNCHANGED <<protocol, open, sending, wire, have, received>>
  BY DEF ReadFails, sender
<1> QED
  BY <1>1 DEF Stays, OnTheWay

\* The connection is lost.
LEMMA BreakLoses ==
    ASSUME NEW M, NEW F, FramesOf(M, F), StreamInv(M, F), Break
    PROVE  IsLost
<1>1. PICK k \in 0..size(wire) : wire' = Take(wire, k)
  BY DEF Break
<1>2. /\ open' = FALSE /\ open /\ UNCHANGED <<protocol, sending, have, received>>
      /\ have \in Seq(Byte) /\ sending \in Seq(Byte) /\ protocol \in {"tcp", "websocket"}
  BY DEF Break, sender, receiver, StreamInv
<1> DEFINE w == Take(wire, k)  d == Drop(wire, k)
<1>3. /\ OnTheWay = Queue(protocol, have, wire, sending)
      /\ OnTheWay' = Queue(protocol, have, w, <<>>)
  BY <1>1, <1>2, QueueIs, QueueIsNext
<1>4. CASE protocol = "tcp"
  <2>1. wire \in Seq(Byte)
    BY <1>4 DEF StreamInv
  <2>2. w \in Seq(Byte) /\ d \in Seq(Byte) /\ Cat(w, d) = wire
    BY <2>1, Parted, Rejoined
  <2> HIDE DEF w, d
  <2> DEFINE r == Cat(d, sending)  hw == Cat(have, w)
  <2>3. r \in Seq(Byte) /\ hw \in Seq(Byte)
    BY <1>2, <2>2, ComesApart
  <2>4. Cat(hw, r) = Cat(Cat(have, wire), sending)
    <3>1. Cat(hw, r) = Cat(Cat(hw, d), sending)
      BY <1>2, <2>2, <2>3, Associates
    <3>2. Cat(hw, d) = Cat(have, Cat(w, d))
      BY <1>2, <2>2, Associates
    <3> QED
      BY <2>2, <3>1, <3>2
  <2>5. Cat(hw, <<>>) = hw
    BY <2>3, ConcatEmptySeq DEF Cat
  <2>6. OnTheWay = FramesIn[Cat(hw, r)] /\ OnTheWay' = FramesIn[hw]
    BY <1>3, <1>4, <2>4, <2>5 DEF Queue
  <2> HIDE DEF hw, r
  <2>7. Begins(FramesIn[hw], FramesIn[Cat(hw, r)]) /\ FramesIn[hw] \in Lists
    BY <2>3, CutOff, FramesInType
  <2> QED
    BY <1>2, <2>6, <2>7 DEF IsLost
<1>5. CASE protocol = "websocket"
  <2> DEFINE a == Single(have)  b == Single(sending)
  <2>1. wire \in Lists
    BY <1>5, Listed DEF StreamInv, FramesOf
  <2>2. w \in Lists /\ d \in Lists /\ Cat(w, d) = wire
    BY <2>1, Parted, Rejoined DEF Lists
  <2>3. a \in Lists /\ b \in Lists /\ Single(<<>>) = <<>>
    BY <1>2, Singles
  <2>4. OnTheWay = Cat(Cat(a, wire), b) /\ OnTheWay' = Cat(Cat(a, w), <<>>)
    BY <1>3, <1>5, <2>3 DEF Queue
  <2> HIDE DEF a, b, w, d
  <2> DEFINE aw == Cat(a, w)  r == Cat(d, b)
  <2>5. aw \in Lists /\ r \in Lists /\ Cat(aw, <<>>) = aw
    <3>1. aw \in Lists /\ r \in Lists
      BY <2>2, <2>3, ListsJoin
    <3> HIDE DEF aw, r
    <3> QED
      BY <3>1, ListsJoin
  <2>6. Cat(aw, r) = Cat(Cat(a, wire), b)
    <3>1. Cat(aw, r) = Cat(Cat(aw, d), b)
      BY <2>2, <2>3, <2>5, ListsRegroup
    <3>2. Cat(a, Cat(w, d)) = Cat(aw, d)
      BY <2>2, <2>3, ListsRegroup
    <3> QED
      BY <2>2, <3>1, <3>2
  <2>7. OnTheWay' = aw /\ OnTheWay = Cat(aw, r)
    BY <2>4, <2>5, <2>6
  <2> HIDE DEF aw, r
  <2> QED
    BY <1>2, <2>5, <2>7 DEF IsLost, Begins
<1> QED
  BY <1>2, <1>4, <1>5

-----------------------------------------------------------------------------
(* It is a channel.                                                        *)

\* A list with one more frame at its end.
LEMMA OneBehind ==
    ASSUME NEW a \in Lists, NEW f \in Seq(Byte), NEW q, q = Cat(a, <<f>>)
    PROVE  /\ q # <<>> /\ channel!Front(q) = a /\ channel!Last(q) = f
<1>1. q = Append(a, f) /\ q = a \o <<f>> /\ a \in Seq(Seq(Byte)) /\ <<f>> \in Seq(Seq(Byte))
  BY AppendIsConcat DEF Lists, Cat
<1>2. q # <<>> /\ Len(q) = Len(a) + 1 /\ q[Len(q)] = f /\ Len(a) \in Nat
  BY <1>1
<1>3. SubSeq(q, 1, Len(q) - 1) = a
  <2>1. SubSeq(a \o <<f>>, 1, Len(a)) = SubSeq(a, 1, Len(a))
    BY <1>1, <1>2, SubSeqOfConcat1
  <2>2. SubSeq(a, 1, Len(a)) = a
    BY <1>1, SubSeqFull
  <2>3. Len(q) - 1 = Len(a)
    BY <1>2
  <2> QED
    BY <1>1, <2>1, <2>2, <2>3
<1> QED
  BY <1>2, <1>3 DEF channel!Front, channel!Last

\* A list with one more frame before it.
LEMMA OneBefore ==
    ASSUME NEW a \in Lists, NEW f \in Seq(Byte), NEW q, q = Cat(<<f>>, a)
    PROVE  q # <<>> /\ Head(q) = f /\ Tail(q) = a
<1>1. q = <<f>> \o a /\ a \in Seq(Seq(Byte))
  BY DEF Lists, Cat
<1>2. q # <<>> /\ Head(q) = f
  BY <1>1
<1>3. q \in Lists
  BY ListsJoin
<1>4. Tail(q) \in Lists /\ <<f>> \o Tail(q) = <<f>> \o a
  BY <1>1, <1>2, <1>3, HeadFirst DEF Cat
<1>5. Tail(q) = a
  <2>1. <<f>> \in Seq(Seq(Byte)) /\ Tail(q) \in Seq(Seq(Byte)) /\ a \in Seq(Seq(Byte))
    BY <1>4, ListsJoin DEF Lists
  <2> QED
    BY <1>4, <2>1, ConcatSimplifications
<1> QED
  BY <1>2, <1>5

\* A list that begins another.
LEMMA BeginsIsPrefix ==
    ASSUME NEW a \in Lists, NEW b, Begins(a, b)
    PROVE  channel!IsPrefix(a, b)
<1>1. PICK c \in Lists : b = a \o c
  BY DEF Begins, Cat
<1>2. a \in Seq(Seq(Byte)) /\ c \in Seq(Seq(Byte))
  BY DEF Lists
<1>3. Len(a) <= Len(b) /\ Len(a) \in Nat
  BY <1>1, <1>2
<1>4. SubSeq(b, 1, Len(a)) = SubSeq(a, 1, Len(a))
  BY <1>1, <1>2
<1> QED
  BY <1>3, <1>4 DEF channel!IsPrefix

\* The channel's steps are what a step of the stream may do to it.
LEMMA ChannelSteps ==
    ASSUME NEW F, F \subseteq FramesFor(Messages), F \subseteq Seq(Byte),
           Comes(F) \/ IsTaken \/ IsLost \/ Stays
    PROVE  channel!Send \/ channel!Receive \/ channel!Break \/ Stays
<1>1. ASSUME Comes(F) PROVE channel!Send
  <2>1. /\ open /\ UNCHANGED <<received, open>> /\ OnTheWay \in Lists
        /\ \E f \in F : OnTheWay' = Cat(OnTheWay, <<f>>)
    BY <1>1 DEF Comes
  <2>2. PICK f \in F : OnTheWay' = Cat(OnTheWay, <<f>>)
    BY <2>1
  <2>3. f \in Seq(Byte) /\ f \in { SerializeMessage(m) : m \in Messages }
    BY DEF FramesFor
  <2>4. /\ OnTheWay' # <<>> /\ channel!Front(OnTheWay') = OnTheWay
        /\ channel!Last(OnTheWay') = f
    BY <2>1, <2>2, <2>3, OneBehind
  <2> QED
    BY <2>1, <2>3, <2>4 DEF channel!Send
<1>2. ASSUME IsTaken PROVE channel!Receive
  <2>1. /\ UNCHANGED open /\ OnTheWay' \in Lists
        /\ \E f \in Seq(Byte) : /\ OnTheWay = Cat(<<f>>, OnTheWay')
                                /\ received' = Append(received, f)
    BY <1>2 DEF IsTaken
  <2>2. PICK f \in Seq(Byte) : /\ OnTheWay = Cat(<<f>>, OnTheWay')
                               /\ received' = Append(received, f)
    BY <2>1
  <2>3. OnTheWay # <<>> /\ Head(OnTheWay) = f /\ Tail(OnTheWay) = OnTheWay'
    BY <2>1, <2>2, OneBefore
  <2> QED
    BY <2>1, <2>2, <2>3 DEF channel!Receive
<1>3. ASSUME IsLost PROVE channel!Break
  <2>1. /\ open /\ open' = FALSE /\ UNCHANGED received
        /\ OnTheWay' \in Lists /\ Begins(OnTheWay', OnTheWay)
    BY <1>3 DEF IsLost
  <2>2. channel!IsPrefix(OnTheWay', OnTheWay)
    BY <2>1, BeginsIsPrefix
  <2> QED
    BY <2>1, <2>2 DEF channel!Break
<1> QED
  BY <1>1, <1>2, <1>3

\* What a step of the stream does to the channel.
LEMMA StreamSteps ==
    ASSUME NEW M, NEW F, FramesOf(M, F), StreamInv(M, F), StreamNext
    PROVE  Comes(F) \/ IsTaken \/ IsLost \/ Stays
<1>1. ASSUME NEW t \in Senders, SenderThread(t) PROVE Comes(F) \/ Stays
  BY <1>1, SendComes, WriteStaysTCP, WriteStaysWS, WriteFailsStays DEF SenderThread
<1>2. ASSUME ReceiverThread PROVE IsTaken \/ Stays
  BY <1>2, ReadStaysTCP, ReadStaysWS, DispatchGoes, ReadFailsStays DEF ReceiverThread
<1> QED
  BY <1>1, <1>2, BreakLoses DEF StreamNext

\* A step of the whole is one of the channel, or none.
LEMMA StepOfChannel ==
    ASSUME TransportInv, [Next]_vars
    PROVE  channel!Send \/ channel!Receive \/ channel!Break \/ Stays
<1>1. CASE StreamNext
  <2>1. PICK M : M = Sendable
    OBVIOUS
  <2>2. PICK F : F = FramesFor(M)
    OBVIOUS
  <2>3. M \subseteq Messages /\ M \subseteq Message /\ StreamInv(M, F)
    BY <2>1, <2>2, SendableIs DEF TransportInv
  <2>4. FramesOf(M, F)
    BY <2>2, <2>3, FramesShaped
  <2>5. F \subseteq FramesFor(Messages)
    BY <2>2, <2>3 DEF FramesFor
  <2>6. F \subseteq Seq(Byte)
    BY <2>4 DEF FramesOf, Shaped
  <2>7. Comes(F) \/ IsTaken \/ IsLost \/ Stays
    BY <1>1, <2>3, <2>4, StreamSteps
  <2> QED
    BY <2>5, <2>6, <2>7, ChannelSteps
<1>2. CASE ~StreamNext
  <2>1. UNCHANGED <<protocol, open, sending, wire, have, received>>
    BY <1>2 DEF Next, Connect, ConnectFails, vars, stream, sender, receiver
  <2> QED
    BY <2>1 DEF Stays, OnTheWay
<1> QED
  BY <1>1, <1>2

\* Nothing is on its way at first.
LEMMA ChannelStarts == Init => channel!Init
<1> SUFFICES ASSUME Init PROVE channel!Init
  OBVIOUS
<1>1. /\ open = TRUE /\ sending = <<>> /\ wire = <<>> /\ have = <<>> /\ received = <<>>
  BY DEF Init, StreamInit
<1>2. OnTheWay = Queue(protocol, <<>>, <<>>, <<>>)
  BY <1>1, QueueIs
<1>3. Cat(Cat(<<>>, <<>>), <<>>) = <<>> /\ Single(<<>>) = <<>>
  BY NoFrames, Singles, ListsJoin
<1>4. OnTheWay = <<>>
  BY <1>2, <1>3, NoFrames DEF Queue
<1> QED
  BY <1>1, <1>4 DEF channel!Init

\* Threads that send, bytes that pass on and are collected, messages handed on,
\* a connection that breaks: it is a FIFO channel of whole frames, in the order
\* in which the threads got write_mutex, that loses only frames at its end
\* (clientConnection::send, net::write, net::read, the receiver's loop).
THEOREM StreamIsAChannel == Spec => ImplementsChannel
<1>1. TransportInv /\ [Next]_vars
         => [channel!Send \/ channel!Receive \/ channel!Break]_<<OnTheWay, received, open>>
  BY StepOfChannel DEF Stays
<1> QED
  BY <1>1, ChannelStarts, Always, PTL DEF Spec, ImplementsChannel, channel!Spec

-----------------------------------------------------------------------------
(* The mouse makes valid strokes.  After is what its definition says.      *)

\* One frame after the other: what After is made of.
Starting == { Idle(tool) : tool \in Tools }
AfterBy(g, n) == IF n = 0 THEN Starting ELSE WithOneMore(g[n - 1])

\* A function that is right up to k frames.
AreFrames(g, k) == g = [n \in 0..k |-> AfterBy(g, n)]

\* What such a function is.
LEMMA FramesAre ==
    ASSUME NEW k \in Nat, NEW g, AreFrames(g, k), NEW n \in 0..k
    PROVE  g[n] = AfterBy(g, n)
BY Zenon DEF AreFrames

\* There is one for any number of frames.
LEMMA FramesExist == ASSUME NEW k \in Nat PROVE \E g : AreFrames(g, k)
<1> DEFINE P == { n \in 0..k : \E g : AreFrames(g, n) }
<1>1. 0 \in P
  <2> DEFINE g == [n \in 0..0 |-> Starting]
  <2>1. ASSUME NEW n \in 0..0 PROVE AfterBy(g, n) = Starting
    BY DEF AfterBy
  <2>2. g = [n \in 0..0 |-> AfterBy(g, n)]
    BY <2>1, Zenon
  <2>3. 0 \in 0..k
    OBVIOUS
  <2>4. AreFrames(g, 0)
    BY <2>2, Zenon DEF AreFrames
  <2> HIDE DEF g
  <2> QED
    BY <2>3, <2>4
<1>2. ASSUME NEW n \in 1..k, n - 1 \in P PROVE n \in P
  <2>1. PICK g : AreFrames(g, n - 1)
    BY <1>2
  <2> DEFINE h == [i \in 0..n |-> AfterBy(g, i)]
  <2>2. n - 1 \in Nat /\ n \in 0..k /\ n \in Nat
    OBVIOUS
  <2>3. ASSUME NEW i \in 0..(n - 1) PROVE h[i] = g[i]
    <3>1. i \in 0..n
      BY <2>2
    <3>2. g[i] = AfterBy(g, i)
      BY <2>1, <2>2, FramesAre
    <3> QED
      BY <3>1, <3>2, Zenon
  <2> HIDE DEF h
  <2>4. ASSUME NEW i \in 0..n PROVE AfterBy(h, i) = AfterBy(g, i)
    <3>1. CASE i = 0
      BY <3>1 DEF AfterBy
    <3>2. CASE i # 0
      <4>1. i - 1 \in 0..(n - 1)
        BY <2>2, <3>2
      <4>2. h[i - 1] = g[i - 1]
        BY <2>3, <4>1
      <4> QED
        BY <3>2, <4>2, Zenon DEF AfterBy
    <3> QED
      BY <3>1, <3>2
  <2>5. h = [i \in 0..n |-> AfterBy(g, i)]
    BY Zenon DEF h
  <2>6. [i \in 0..n |-> AfterBy(g, i)] = [i \in 0..n |-> AfterBy(h, i)]
    BY <2>4, Zenon
  <2>7. AreFrames(h, n)
    BY <2>5, <2>6, Zenon DEF AreFrames
  <2> QED
    BY <2>2, <2>7
<1>3. 0..k \subseteq P
  <2> HIDE DEF P
  <2> QED
    BY <1>1, <1>2, Induction
<1> QED
  BY <1>3

\* Two of them agree.
LEMMA FramesAgree ==
    ASSUME NEW k \in Nat, NEW g, AreFrames(g, k), NEW j \in Nat, NEW h, AreFrames(h, j),
           k <= j
    PROVE  \A n \in 0..k : g[n] = h[n]
<1> DEFINE P == { n \in 0..k : g[n] = h[n] }
<1>0. ASSUME NEW n \in 0..k PROVE n \in 0..j
  OBVIOUS
<1>1. 0 \in P
  <2>1. 0 \in 0..k
    OBVIOUS
  <2>2. g[0] = AfterBy(g, 0) /\ h[0] = AfterBy(h, 0)
    BY <1>0, <2>1, FramesAre
  <2> QED
    BY <2>1, <2>2 DEF AfterBy
<1>2. ASSUME NEW n \in 1..k, n - 1 \in P PROVE n \in P
  <2>1. n \in 0..k /\ n # 0
    OBVIOUS
  <2>2. g[n] = AfterBy(g, n) /\ h[n] = AfterBy(h, n)
    BY <1>0, <2>1, FramesAre
  <2>3. g[n - 1] = h[n - 1]
    BY <1>2
  <2>4. g[n] = h[n]
    BY <2>1, <2>2, <2>3, Zenon DEF AfterBy
  <2> QED
    BY <2>1, <2>4
<1>3. 0..k \subseteq P
  <2> HIDE DEF P
  <2> QED
    BY <1>1, <1>2, Induction
<1> QED
  BY <1>3

\* So After is what its definition says.
LEMMA AfterIs ==
    ASSUME NEW n \in Nat
    PROVE  After[n] = AfterBy(After, n)
<1> DEFINE G(k) == CHOOSE g : AreFrames(g, k)
           all == [i \in Nat |-> G(i)[i]]
<1>1. ASSUME NEW k \in Nat PROVE AreFrames(G(k), k)
  BY FramesExist, Zenon
<1> HIDE DEF G
<1>2. ASSUME NEW i \in Nat PROVE all[i] = AfterBy(all, i)
  <2>1. PICK g : g = G(i)
    OBVIOUS
  <2>2. AreFrames(g, i) /\ all[i] = g[i] /\ i \in 0..i
    BY <1>1, <2>1
  <2>3. all[i] = AfterBy(g, i)
    BY <2>2, FramesAre
  <2>4. CASE i = 0
    BY <2>3, <2>4 DEF AfterBy
  <2>5. CASE i # 0
    <3>1. PICK j : j = i - 1
      OBVIOUS
    <3>2. j \in Nat /\ j <= i /\ j \in 0..j
      BY <2>5, <3>1
    <3>3. PICK h : h = G(j)
      OBVIOUS
    <3>4. AreFrames(h, j) /\ all[j] = h[j]
      BY <1>1, <3>2, <3>3
    <3>5. h[j] = g[j]
      BY <2>2, <3>2, <3>4, FramesAgree
    <3> HIDE DEF all
    <3>6. g[i - 1] = all[i - 1]
      BY <3>1, <3>4, <3>5
    <3> QED
      BY <2>3, <2>5, <3>6, Zenon DEF AfterBy
  <2> QED
    BY <2>4, <2>5
<1>3. all = [i \in Nat |-> all[i]]
  BY Zenon
<1> HIDE DEF all
<1>4. all = [i \in Nat |-> AfterBy(all, i)]
  BY <1>2, <1>3, Zenon
<1>5. After = [i \in Nat |-> AfterBy(After, i)]
  BY <1>4, Zenon DEF After, AfterBy, Starting
<1> QED
  BY <1>5, Zenon

\* A stroke the mouse makes, and what there may be of it.
StrokeOf ==
    [operation_id : {member_id * Long + 1}, seq : {0}, member_id : {member_id},
     tool : Tools, color : {color}, thickness : {thickness}, points : Seq(Points)]
OneStroke == {None} \cup { <<s>> : s \in StrokeOf }

\* The mouse and the buttons, and the stroke.
Ui ==
    [down : BOOLEAN, is_down : Tools \cup {NoButton}, active_tool : Tools,
     active_stroke : OneStroke, committed : OneStroke, missed : Nat]

\* A stroke that is under way after n frames, and one that has been committed.
Begun(s, n) == size(s.points) \in 1..(n + 1)
Shape(s) == s.tool \in Shapes => size(s.points) <= 2
Done(s) == s.tool \in Shapes => size(s.points) = 2

\* The tool of a stroke is the active one unless two releases were missed: the
\* first one cannot be that of a button, as the mouse was pressed on the canvas.
UiInv(u, n) ==
    /\ u \in Ui
    /\ u.active_stroke # None =>
          /\ Begun(u.active_stroke[1], n)
          /\ u.missed = 0 => u.down /\ u.is_down = NoButton
          /\ u.missed < 2 => /\ u.active_stroke[1].tool = u.active_tool
                             /\ Shape(u.active_stroke[1])
    /\ u.committed # None =>
          /\ Begun(u.committed[1], n)
          /\ u.missed < 2 => Done(u.committed[1])

\* Whether there is a stroke, and which.
LEMMA StrokeIs ==
    /\ \A s : <<s>> # None /\ <<s>>[1] = s
    /\ None \in OneStroke /\ \A s \in StrokeOf : <<s>> \in OneStroke
    /\ \A x \in OneStroke : x # None => x = <<x[1]>> /\ x[1] \in StrokeOf
<1>1. \A s : <<s>> # None /\ <<s>>[1] = s
  BY DEF None
<1> QED
  BY <1>1 DEF OneStroke

\* A tool is of one kind.
LEMMA ToolKinds ==
    ASSUME NEW tool \in Shapes
    PROVE  tool \notin Strokes /\ tool # tool_type.bucket_fill /\ tool # tool_type.clear
           /\ tool \in 0..9
BY DEF Shapes, Strokes, tool_type

\* What a drag makes of the points.
LEMMA DraggedIs ==
    ASSUME NEW points \in Seq(Points), size(points) >= 1, NEW position \in Points, NEW tool
    PROVE  /\ Dragged(points, position, tool) \in Seq(Points)
           /\ size(Dragged(points, position, tool)) \in size(points)..(size(points) + 1)
           /\ tool \in Shapes /\ size(points) <= 2
                 => size(Dragged(points, position, tool)) <= 2
<1> DEFINE more == Append(points, position)
           moved == [points EXCEPT ![size(points)] = position]
<1>1. more \in Seq(Points) /\ size(more) = size(points) + 1 /\ size(points) \in Nat
  BY AppendProperties DEF size
<1>2. moved \in Seq(Points) /\ size(moved) = size(points)
  BY ExceptSeq DEF size
<1> HIDE DEF more, moved
<1>3. Dragged(points, position, tool) \in {points, more, moved}
  BY DEF Dragged, more, moved
<1>4. ASSUME tool \in Shapes, Dragged(points, position, tool) = more
      PROVE  size(points) = 1 \/ more = points \/ more = moved
  BY <1>4, ToolKinds DEF Dragged, more, moved
<1> QED
  BY <1>1, <1>2, <1>3, <1>4

\* With the points a drag makes of them it is still the stroke.
LEMMA DraggedStroke ==
    ASSUME NEW s \in StrokeOf, NEW n \in Nat, Begun(s, n), NEW position \in Points, NEW tool,
           NEW d, d = [s EXCEPT !.points = Dragged(@, position, tool)]
    PROVE  /\ d \in StrokeOf /\ Begun(d, n + 1) /\ d.tool = s.tool
           /\ tool = s.tool /\ Shape(s) => Shape(d)
<1> DEFINE p == Dragged(s.points, position, tool)
<1>1. s.points \in Seq(Points) /\ size(s.points) \in 1..(n + 1)
  BY DEF StrokeOf, Begun
<1>2. /\ p \in Seq(Points) /\ size(p) \in size(s.points)..(size(s.points) + 1)
      /\ tool \in Shapes /\ size(s.points) <= 2 => size(p) <= 2
  BY <1>1, DraggedIs
<1> HIDE DEF p
<1>3. d = [s EXCEPT !.points = p]
  BY DEF p
<1>4. d \in StrokeOf /\ d.points = p /\ d.tool = s.tool
  BY <1>2, <1>3 DEF StrokeOf
<1>5. size(p) \in 1..(n + 2) /\ (n + 1) + 1 = n + 2
  <2>1. PICK i, j : i = size(s.points) /\ j = size(p)
    OBVIOUS
  <2>2. i \in 1..(n + 1) /\ j \in i..(i + 1)
    BY <1>1, <1>2, <2>1
  <2>3. j \in 1..(n + 2)
    BY <2>2
  <2> QED
    BY <2>1, <2>3
<1> QED
  BY <1>2, <1>4, <1>5 DEF Begun, Shape

\* What is committed: a stroke of one point gets a second one.
LEMMA DoneStroke ==
    ASSUME NEW s \in StrokeOf, NEW n \in Nat, Begun(s, n + 1),
           NEW c, c = [s EXCEPT !.points = IF size(@) = 1 THEN Append(@, Head(@)) ELSE @]
    PROVE  /\ c \in StrokeOf /\ Begun(c, n + 1)
           /\ Shape(s) => Done(c)
<1> DEFINE q == s.points  p == IF size(q) = 1 THEN Append(q, Head(q)) ELSE q
<1>1. q \in Seq(Points) /\ size(q) \in 1..(n + 2) /\ (n + 1) + 1 = n + 2
  BY DEF StrokeOf, Begun
<1>2. CASE size(q) = 1
  <2>1. q # <<>>
    <3>1. size(<<>>) = 0
      BY DEF size
    <3> HIDE DEF q
    <3> QED
      BY <1>2, <3>1
  <2>2. Head(q) \in Points
    BY <1>1, <2>1, HeadTailProperties
  <2>3. p \in Seq(Points) /\ size(p) = 2
    <3>1. Append(q, Head(q)) \in Seq(Points) /\ size(Append(q, Head(q))) = size(q) + 1
      BY <1>1, <2>2, AppendProperties DEF size
    <3> QED
      BY <1>2, <3>1
  <2> HIDE DEF p
  <2>4. c = [s EXCEPT !.points = p]
    BY DEF p
  <2>5. c \in StrokeOf /\ c.points = p /\ c.tool = s.tool
    BY <2>3, <2>4 DEF StrokeOf
  <2>6. 2 \in 1..((n + 1) + 1)
    OBVIOUS
  <2> HIDE DEF p
  <2> QED
    BY <2>3, <2>5, <2>6 DEF Begun, Done
<1>3. CASE size(q) # 1
  <2>1. c = s
    BY <1>3 DEF StrokeOf
  <2> QED
    BY <1>1, <1>3, <2>1 DEF Begun, Done, Shape
<1> QED
  BY <1>2, <1>3

\* The mouse goes down on the canvas.
LEMMA NewStrokeIs ==
    ASSUME NEW tool \in Tools, NEW position \in Points
    PROVE  /\ NewStroke(tool, position) \in StrokeOf /\ NewStroke(tool, position).tool = tool
           /\ \A n \in Nat : Begun(NewStroke(tool, position), n)
           /\ Shape(NewStroke(tool, position))
<1> DEFINE s == NewStroke(tool, position)
<1>1. s.points = <<position>> /\ s.tool = tool
  BY DEF NewStroke
<1>2. <<position>> \in Seq(Points) /\ size(<<position>>) = 1
  BY DEF size
<1>3. s \in StrokeOf
  BY <1>2 DEF NewStroke, StrokeOf
<1> HIDE DEF s
<1>4. (\A n \in Nat : Begun(s, n)) /\ Shape(s)
  BY <1>1, <1>2 DEF Begun, Shape
<1> QED
  BY <1>1, <1>3, <1>4 DEF s

\* More frames leave room for more points.
LEMMA Monotone ==
    ASSUME NEW n \in Nat, NEW u, UiInv(u, n)
    PROVE  UiInv(u, n + 1)
<1>1. \A s : Begun(s, n) => Begun(s, n + 1)
  BY DEF Begun
<1> QED
  BY <1>1 DEF UiInv

\* A frame: a stroke may begin, go on, or end.
LEMMA FrameKeeps ==
    ASSUME NEW n \in Nat, NEW u, UiInv(u, n), u.committed = None, NEW f \in Frames
    PROVE  UiInv(Frame(u, f), n + 1)
<1> DEFINE pressed == f.down /\ ~u.down
           released == u.down /\ ~f.down
           tool == IF released /\ f.over # NoButton /\ f.over = u.is_down
                   THEN f.over ELSE u.active_tool
           is_down == IF pressed THEN f.over ELSE IF released THEN NoButton ELSE u.is_down
           mouse == [u EXCEPT !.down = f.down, !.active_tool = tool,
                              !.is_down = IF pressed THEN f.over
                                          ELSE IF released THEN NoButton ELSE @]
           old == u.active_stroke
<1>1. /\ u \in Ui /\ f.over \in Tools \cup {NoButton} /\ f.position \in Points
      /\ f.down \in BOOLEAN /\ f.minimized \in BOOLEAN
  BY DEF UiInv, Frames
<1>2. /\ u.down \in BOOLEAN /\ u.is_down \in Tools \cup {NoButton} /\ u.active_tool \in Tools
      /\ old \in OneStroke /\ u.missed \in Nat
  BY <1>1 DEF Ui
<1>3. /\ mouse \in Ui /\ mouse.down = f.down /\ mouse.active_tool = tool
      /\ mouse.is_down = is_down /\ mouse.active_stroke = old /\ mouse.committed = None
      /\ mouse.missed = u.missed
  <2>1. tool \in Tools /\ is_down \in Tools \cup {NoButton}
    BY <1>1, <1>2
  <2> HIDE DEF tool
  <2>2. mouse = [u EXCEPT !.down = f.down, !.active_tool = tool, !.is_down = is_down]
    OBVIOUS
  <2> HIDE DEF is_down, mouse
  <2> QED
    BY <1>1, <2>1, <2>2 DEF Ui
<1>4. tool \in Tools
  BY <1>1, <1>2
<1>5. old # None => /\ Begun(old[1], n) /\ old[1] \in StrokeOf /\ old = <<old[1]>>
                    /\ u.missed = 0 => u.down /\ u.is_down = NoButton
                    /\ u.missed < 2 => old[1].tool = u.active_tool /\ Shape(old[1])
  BY <1>2, StrokeIs DEF UiInv
<1>6. CASE f.minimized
  <2> DEFINE missed == IF released /\ old # None THEN u.missed + 1 ELSE u.missed
             next == [mouse EXCEPT !.missed = missed]
  <2>1. Frame(u, f) = next
    <3>1. Frame(u, f) = [mouse EXCEPT !.missed = IF released /\ old # None THEN @ + 1 ELSE @]
      BY <1>6 DEF Frame
    <3> QED
      BY <1>3, <3>1
  <2>2. missed \in Nat
    BY <1>2
  <2> HIDE DEF missed, mouse
  <2>3. /\ next \in Ui /\ next.down = f.down /\ next.active_tool = tool
        /\ next.is_down = is_down /\ next.active_stroke = old /\ next.committed = None
        /\ next.missed = missed
    BY <1>3, <2>2 DEF Ui
  <2> HIDE DEF next
  <2>4. ASSUME old # None
        PROVE  /\ missed = 0 => f.down /\ is_down = NoButton
               /\ missed < 2 => old[1].tool = tool /\ Shape(old[1])
    <3>1. CASE released
      BY <1>2, <1>5, <2>4, <3>1 DEF missed
    <3>2. CASE ~released
      BY <1>1, <1>2, <1>5, <2>4, <3>2 DEF missed
    <3> QED
      BY <3>1, <3>2
  <2>5. old # None => Begun(old[1], n + 1)
    BY <1>5 DEF Begun
  <2> HIDE DEF missed, is_down, tool, released, pressed
  <2> QED
    BY <2>1, <2>3, <2>4, <2>5 DEF UiInv
<1>7. CASE ~f.minimized
  <2> DEFINE inside == f.over = NoButton
             begun == IF old = None /\ pressed /\ inside
                      THEN <<NewStroke(tool, f.position)>> ELSE old
             dragged == [begun[1] EXCEPT !.points = Dragged(@, f.position, tool)]
             drags == f.down \/ (released /\ inside)
             drawn == IF begun # None /\ drags THEN <<dragged>> ELSE begun
             ends == drawn # None /\ released
             done == [drawn[1] EXCEPT !.points =
                         IF size(@) = 1 THEN Append(@, Head(@)) ELSE @]
             active == IF ends THEN None ELSE drawn
             committed == IF ~ends THEN None ELSE <<done>>
             next == [mouse EXCEPT !.active_stroke = active, !.committed = committed]
  <2>1. Frame(u, f) = next
    <3>1. Frame(u, f) = process_canvas_input(mouse, f, pressed, released, tool)
      BY <1>7 DEF Frame
    <3> HIDE DEF mouse, tool, pressed, released
    <3> QED
      BY <1>3, <3>1 DEF process_canvas_input
  <2>2. begun # None =>
           /\ begun[1] \in StrokeOf /\ begun = <<begun[1]>> /\ Begun(begun[1], n)
           /\ u.missed < 2 => Shape(begun[1])
           /\ u.missed < 2 /\ drags => begun[1].tool = tool
           /\ u.missed < 2 /\ ~released => begun[1].tool = tool
           /\ u.missed = 0 /\ ~released => f.down /\ is_down = NoButton
    <3>1. CASE old = None /\ pressed /\ inside
      <4> DEFINE s == NewStroke(tool, f.position)
      <4>1. s \in StrokeOf /\ Begun(s, n) /\ Shape(s) /\ s.tool = tool
        BY <1>1, <1>4, NewStrokeIs
      <4> HIDE DEF s
      <4>2. begun = <<s>>
        BY <3>1 DEF s
      <4>3. begun[1] = s
        BY <4>2
      <4> HIDE DEF begun
      <4> QED
        BY <3>1, <4>1, <4>2, <4>3
    <3>2. CASE ~(old = None /\ pressed /\ inside)
      <4>1. begun = old
        BY <3>2
      <4>2. ASSUME old # None PROVE drags \/ ~released => tool = u.active_tool
        BY <1>1, <1>2
      <4>3. ASSUME old # None, u.missed = 0, ~released PROVE f.down /\ is_down = NoButton
        BY <1>1, <1>2, <1>5, <4>3
      <4> HIDE DEF begun, drags, released, pressed, tool, is_down
      <4> QED
        BY <1>5, <4>1, <4>2, <4>3
    <3> QED
      BY <3>1, <3>2
  <2> HIDE DEF begun
  <2>3. drawn # None =>
           /\ drawn[1] \in StrokeOf /\ drawn = <<drawn[1]>> /\ Begun(drawn[1], n + 1)
           /\ u.missed < 2 => Shape(drawn[1])
           /\ u.missed < 2 /\ ~released => drawn[1].tool = tool
    <3>1. CASE begun # None /\ drags
      <4>1. /\ dragged \in StrokeOf /\ Begun(dragged, n + 1) /\ dragged.tool = begun[1].tool
            /\ tool = begun[1].tool /\ Shape(begun[1]) => Shape(dragged)
        <5>1. PICK s, d, p, t : s = begun[1] /\ d = dragged /\ p = f.position /\ t = tool
          OBVIOUS
        <5>2. d = [s EXCEPT !.points = Dragged(@, p, t)] /\ p \in Points
          BY <1>1, <5>1
        <5> HIDE DEF dragged, tool, drags
        <5>3. s \in StrokeOf /\ Begun(s, n)
          BY <2>2, <3>1, <5>1
        <5>4. /\ d \in StrokeOf /\ Begun(d, n + 1) /\ d.tool = s.tool
              /\ t = s.tool /\ Shape(s) => Shape(d)
          BY <5>2, <5>3, DraggedStroke
        <5> QED
          BY <5>1, <5>4
      <4> HIDE DEF dragged
      <4>2. drawn = <<dragged>>
        BY <3>1
      <4>3. drawn[1] = dragged
        BY <4>2
      <4> HIDE DEF drawn, drags, released, tool
      <4> QED
        BY <2>2, <3>1, <4>1, <4>2, <4>3
    <3>2. CASE ~(begun # None /\ drags)
      <4>1. drawn = begun
        BY <3>2
      <4>2. \A s : Begun(s, n) => Begun(s, n + 1)
        BY DEF Begun
      <4> HIDE DEF drawn, drags, released, tool
      <4> QED
        BY <2>2, <4>1, <4>2
    <3> QED
      BY <3>1, <3>2
  <2> HIDE DEF drawn
  <2>4. ends => done \in StrokeOf /\ Begun(done, n + 1) /\ (u.missed < 2 => Done(done))
    <3>1. ASSUME ends
          PROVE  /\ done \in StrokeOf /\ Begun(done, n + 1)
                 /\ Shape(drawn[1]) => Done(done)
      BY <2>3, <3>1, DoneStroke
    <3> HIDE DEF done
    <3> QED
      BY <2>3, <3>1
  <2> HIDE DEF done
  <2>5. active \in OneStroke /\ committed \in OneStroke
    <3>1. drawn \in OneStroke
      BY <2>3, StrokeIs
    <3> QED
      BY <2>4, <3>1, StrokeIs
  <2>6. active # None => ~released /\ active = drawn /\ drawn # None
    OBVIOUS
  <2>7. committed # None => ends /\ committed[1] = done
    BY StrokeIs
  <2> HIDE DEF active, committed, mouse, ends
  <2>8. /\ next \in Ui /\ next.down = f.down /\ next.active_tool = tool
        /\ next.is_down = is_down /\ next.active_stroke = active
        /\ next.committed = committed /\ next.missed = u.missed
    BY <1>3, <2>5 DEF Ui
  <2> HIDE DEF next
  <2>9. active # None /\ u.missed = 0 => f.down /\ is_down = NoButton
    <3>1. ASSUME drawn # None, u.missed = 0, ~released PROVE begun # None
      BY <3>1 DEF drawn
    <3> HIDE DEF released, is_down
    <3> QED
      BY <2>2, <2>6, <3>1
  <2> HIDE DEF is_down, tool, released, pressed
  <2> QED
    BY <2>1, <2>3, <2>4, <2>6, <2>7, <2>8, <2>9 DEF UiInv
<1> QED
  BY <1>1, <1>6, <1>7

\* Before the first frame there is no stroke.
LEMMA IdleIs == ASSUME NEW tool \in Tools PROVE UiInv(Idle(tool), 0)
<1> DEFINE u == Idle(tool)
<1>1. u \in Ui /\ u.active_stroke = None /\ u.committed = None
  BY StrokeIs DEF Idle, Ui
<1> HIDE DEF u
<1> QED
  BY <1>1 DEF UiInv, u

\* So it is of all the mouse can do.
LEMMA AfterFrames == ASSUME NEW n \in Nat PROVE \A u \in After[n] : UiInv(u, n)
<1> DEFINE P == { i \in 0..n : \A u \in After[i] : UiInv(u, i) }
<1>1. 0 \in P
  <2>1. After[0] = Starting
    BY AfterIs DEF AfterBy
  <2>2. \A u \in Starting : UiInv(u, 0)
    BY IdleIs DEF Starting
  <2>3. 0 \in 0..n
    OBVIOUS
  <2> QED
    BY <2>1, <2>2, <2>3
<1>2. ASSUME NEW i \in 1..n, i - 1 \in P PROVE i \in P
  <2>1. PICK j \in Nat : j = i - 1 /\ j + 1 = i
    OBVIOUS
  <2>2. PICK uis : uis = After[j]
    OBVIOUS
  <2>3. After[i] = WithOneMore(uis)
    <3>1. i \in Nat /\ i # 0
      OBVIOUS
    <3>2. After[i] = AfterBy(After, i)
      BY <3>1, AfterIs
    <3> QED
      BY <2>1, <2>2, <3>1, <3>2 DEF AfterBy
  <2>4. \A u \in uis : UiInv(u, j)
    BY <1>2, <2>1, <2>2
  <2>5. ASSUME NEW u \in uis PROVE UiInv(u, i)
    BY <2>1, <2>4, Monotone
  <2>6. ASSUME NEW u \in uis, u.committed = None, NEW f \in Frames PROVE UiInv(Frame(u, f), i)
    BY <2>1, <2>4, <2>6, FrameKeeps
  <2>7. \A u \in WithOneMore(uis) : UiInv(u, i)
    BY <2>5, <2>6 DEF WithOneMore
  <2>8. i \in 0..n
    OBVIOUS
  <2> QED
    BY <2>3, <2>7, <2>8
<1>3. 0..n \subseteq P
  <2> HIDE DEF P
  <2> QED
    BY <1>1, <1>2, Induction
<1> QED
  BY <1>3

\* What it commits is valid, as long as its points can be counted and a
\* minimised window has missed at most one release.
LEMMA CommittedValid ==
    ASSUME NEW n \in 0..(Word - 2), NEW c \in Committed(n), c.missed < 2
    PROVE  ValidateDrawOperation(c.op, FALSE)
<1>1. PICK u \in After[n] : u.committed # None /\ c.op = u.committed[1] /\ c.missed = u.missed
  BY DEF Committed
<1>2. Word \in Nat
  BY Widths DEF Word
<1>3. n \in Nat /\ n + 1 < Word
  BY <1>2
<1>4. UiInv(u, n)
  BY <1>3, AfterFrames
<1>5. PICK op : op = c.op
  OBVIOUS
<1>6. op \in StrokeOf /\ Begun(op, n) /\ Done(op)
  BY <1>1, <1>4, <1>5, StrokeIs DEF UiInv, Ui
<1>7. /\ op.operation_id = member_id * Long + 1 /\ op.member_id = member_id /\ op.seq = 0
      /\ op.tool \in Tools /\ op.thickness = thickness /\ size(op.points) \in 1..(n + 1)
  BY <1>6 DEF StrokeOf, Begun
<1>8. op.operation_id # 0 /\ op.member_id # 0
  <2>1. Long \in Nat /\ member_id \in Nat /\ member_id # 0
    BY Widths, CanvasInputAssumption
  <2>2. member_id * Long \in Nat
    BY <2>1
  <2> QED
    BY <1>7, <2>1, <2>2
<1>9. op.tool <= tool_type.brush /\ op.tool # tool_type.clear
  <2>1. op.tool \in Strokes \cup Shapes \cup {tool_type.bucket_fill}
    BY <1>7, CanvasInputAssumption
  <2> QED
    BY <2>1 DEF Strokes, Shapes, tool_type
<1>10. op.thickness \in 1..MaxThickness
  BY <1>7, CanvasInputAssumption
<1>11. size(op.points) < Word
  BY <1>2, <1>3, <1>7
<1>12. op.points # <<>>
  <2>1. size(<<>>) = 0
    BY DEF size
  <2> QED
    BY <1>3, <1>7, <2>1
<1>13. op.tool \in Shapes => size(op.points) = 2
  BY <1>6 DEF Done
<1> QED
  BY <1>5, <1>7, <1>8, <1>9, <1>10, <1>11, <1>12, <1>13 DEF ValidateDrawOperation

\* What the mouse makes with buttons pressed and released in any order, dragged
\* anywhere and with a window that may be minimised meanwhile passes
\* validateDrawOperation where it arrives, for strokes of up to 65535 points.
THEOREM StrokesValid == DrawnWithTheMouse => (Spec => []StrokesArriveValid)
<1> SUFFICES ASSUME DrawnWithTheMouse PROVE Spec => []StrokesArriveValid
  OBVIOUS
<1>1. ASSUME NEW m \in Messages, m.opcode = Opcode.DRAW
      PROVE  ValidateDrawOperation(m.says, FALSE)
  <2>1. PICK n \in 0..(Word - 2) :
           \A k \in Messages : k.opcode = Opcode.DRAW
              => k.says \in { c.op : c \in { d \in Committed(n) : d.missed < 2 } }
    BY DEF DrawnWithTheMouse
  <2>2. PICK c \in Committed(n) : c.missed < 2 /\ m.says = c.op
    BY <1>1, <2>1
  <2> QED
    BY <2>2, CommittedValid
<1>2. ASSUME NEW m \in Messages, m.opcode = Opcode.CANVAS_STATE
      PROVE  \A j \in 1..Len(m.says) : ValidateDrawOperation(m.says[j], TRUE)
  BY <1>2 DEF DrawnWithTheMouse
<1>3. TransportInv => StrokesArriveValid
  <2> SUFFICES ASSUME TransportInv, NEW i \in 1..Len(received)
               PROVE  /\ Dispatched(i).opcode = Opcode.DRAW =>
                            ValidateDrawOperation(Dispatched(i).says, FALSE)
                      /\ Dispatched(i).opcode = Opcode.CANVAS_STATE =>
                            \A j \in 1..Len(Dispatched(i).says) :
                               ValidateDrawOperation(Dispatched(i).says[j], TRUE)
    BY DEF StrokesArriveValid
  <2>1. PICK m : m = Dispatched(i)
    OBVIOUS
  <2>2. m \in Messages
    BY <2>1, ReceivedSent, SendableIs
  <2> QED
    BY <1>1, <1>2, <2>1, <2>2
<1> QED
  BY <1>3, Always, PTL
=============================================================================
