---- MODULE TransferProofs ----
(***************************************************************************)
(* What the encodings of a bridge transfer preserve, for every byte string *)
(* and every number: an RLP item is read back as it was written, a signed  *)
(* transaction is executed as the call it was made of, a contract reads    *)
(* the arguments that were encoded, a parser the event that was emitted.   *)
(* From these follow the invariants of CctpTransfer.                       *)
(***************************************************************************)
EXTENDS CctpTransfer, SequenceTheorems, NaturalsInduction, WellFoundedInduction, TLAPS

(***************************************************************************)
(* Byte strings, and where one is found in another.                        *)
(***************************************************************************)
\* The strings of n bytes.
Strings(n) == {b \in Seq(Byte) : Len(b) = n}

\* x stands in d, behind its first at bytes.
Carries(d, at, x) ==
  /\ at + Len(x) <= Len(d)
  /\ \A i \in 1..Len(x) : d[at + i] = x[i]

\* A byte is a number up to 255.
LEMMA ByteIsNumber == \A x : x \in Byte <=> x \in Nat /\ x <= 255
BY DEF Byte

\* Every byte string has its length.
LEMMA StringOf ==
  ASSUME NEW b \in Seq(Byte)
  PROVE  Len(b) \in Nat /\ b \in Strings(Len(b))
BY LenProperties DEF Strings

\* A string of n bytes has length n, and bytes at each place.
LEMMA InString ==
  ASSUME NEW n \in Nat, NEW b \in Strings(n)
  PROVE  /\ b \in Seq(Byte) /\ n = Len(b)
         /\ \A i \in 1..n : b[i] \in Byte /\ b[i] \in Nat
<1>1. b \in Seq(Byte) /\ Len(b) = n
  BY DEF Strings
<1>2. \A i \in 1..n : b[i] \in Byte
  BY <1>1, ElementOfSeq
<1> QED
  BY <1>1, <1>2, ByteIsNumber

\* Of two strings put together, each keeps its bytes.
LEMMA Joined ==
  ASSUME NEW m \in Nat, NEW n \in Nat, NEW a \in Strings(m), NEW b \in Strings(n)
  PROVE  /\ a \o b \in Strings(m + n)
         /\ \A i \in 1..m : (a \o b)[i] = a[i]
         /\ \A i \in 1..n : (a \o b)[m + i] = b[i]
<1>1. a \in Seq(Byte) /\ Len(a) = m /\ b \in Seq(Byte) /\ Len(b) = n
  BY DEF Strings
<1>2. a \o b \in Seq(Byte) /\ Len(a \o b) = m + n
  BY <1>1, ConcatProperties
<1>3. \A i \in 1..m + n : (a \o b)[i] = IF i <= m THEN a[i] ELSE b[i - m]
  BY <1>1, ConcatProperties
<1>4. \A i \in 1..n : m + i \in 1..m + n /\ ~(m + i <= m) /\ m + i - m = i
  OBVIOUS
<1>5. \A i \in 1..m : i \in 1..m + n /\ i <= m
  OBVIOUS
<1> QED
  BY <1>2, <1>3, <1>4, <1>5 DEF Strings

\* A string stands in itself, at its beginning.
LEMMA CarriesItself == ASSUME NEW d \in Seq(Byte) PROVE Carries(d, 0, d)
BY DEF Carries

\* Where two strings put together stand, each of them stands.
LEMMA CarriesParts ==
  ASSUME NEW d \in Seq(Byte), NEW at \in Nat, NEW m \in Nat, NEW n \in Nat,
         NEW a \in Strings(m), NEW b \in Strings(n), Carries(d, at, a \o b)
  PROVE  Carries(d, at, a) /\ Carries(d, at + m, b)
<1>1. Len(a) = m /\ Len(b) = n /\ Len(a \o b) = m + n
  BY Joined DEF Strings
<1>2. /\ at + (m + n) <= Len(d)
      /\ \A i \in 1..m + n : d[at + i] = (a \o b)[i]
  BY <1>1 DEF Carries
<1>3. Len(d) \in Nat
  BY LenProperties
<1>4. \A i \in 1..m : d[at + i] = a[i]
  <2> TAKE i \in 1..m
  <2>1. i \in 1..m + n
    OBVIOUS
  <2> QED
    BY <1>2, <2>1, Joined
<1>5. \A i \in 1..n : d[at + m + i] = b[i]
  <2> TAKE i \in 1..n
  <2>1. m + i \in 1..m + n /\ at + m + i = at + (m + i)
    OBVIOUS
  <2> QED
    BY <1>2, <2>1, Joined
<1>6. at + m <= Len(d) /\ at + m + n <= Len(d)
  BY <1>2, <1>3
<1> QED
  BY <1>1, <1>4, <1>5, <1>6 DEF Carries

\* A string that is cut out where it stands is that string.
LEMMA CutOut ==
  ASSUME NEW d \in Seq(Byte), NEW at \in Nat, NEW n \in Nat, NEW a \in Strings(n),
         Carries(d, at, a)
  PROVE  SubSeq(d, at + 1, at + n) = a
BY DEF Carries, Strings

\* The first byte of a string is found where the string stands.
LEMMA CarriedByte ==
  ASSUME NEW d \in Seq(Byte), NEW at \in Nat, NEW n \in Nat, NEW a \in Strings(n),
         Carries(d, at, a), n >= 1
  PROVE  d[at + 1] = a[1]
BY DEF Carries, Strings

(***************************************************************************)
(* Numbers in bytes.                                                       *)
(***************************************************************************)
\* Four bytes in brackets are a string of length four.
LEMMA FourBytes ==
  ASSUME NEW x \in Byte, NEW y \in Byte, NEW z \in Byte, NEW u \in Byte
  PROVE  <<x, y, z, u>> \in Strings(4)
BY DEF Strings

\* BigEndian of up to four bytes, written out without its recursion.
LEMMA BigEndianOf ==
  ASSUME NEW n \in 0..4, NEW b \in Strings(n)
  PROVE  /\ n = 0 => BigEndian(b) = 0
         /\ n = 1 => BigEndian(b) = b[1]
         /\ n = 2 => BigEndian(b) = 256 * b[1] + b[2]
         /\ n = 3 => BigEndian(b) = 256 * (256 * b[1] + b[2]) + b[3]
         /\ n = 4 => BigEndian(b) = 256 * (256 * (256 * b[1] + b[2]) + b[3]) + b[4]
<1> DEFINE v1 == b[1]
           v2 == 256 * v1 + b[2]
           v3 == 256 * v2 + b[3]
           v4 == 256 * v3 + b[4]
           Step(f) == [i \in 0..n |-> IF i = 0 THEN 0 ELSE 256 * f[i - 1] + b[i]]
           value == CHOOSE f : f = Step(f)
<1>0. Len(b) = n
  BY DEF Strings
<1> SUFFICES /\ n = 0 => value[n] = 0
             /\ n = 1 => value[n] = v1
             /\ n = 2 => value[n] = v2
             /\ n = 3 => value[n] = v3
             /\ n = 4 => value[n] = v4
  <2>1. BigEndian(b) = value[n]
    BY <1>0 DEF BigEndian
  <2> HIDE DEF value
  <2> QED
    BY <2>1
<1> DEFINE w == [i \in 0..n |-> IF i = 0 THEN 0 ELSE IF i = 1 THEN v1
                   ELSE IF i = 2 THEN v2 ELSE IF i = 3 THEN v3 ELSE v4]
<1>1. \A i \in 1..n : b[i] \in Int
  BY InString
<1>2. \A i \in 0..n : w[i] = IF i = 0 THEN 0 ELSE 256 * w[i - 1] + b[i]
  <2> TAKE i \in 0..n
  <2>1. i = 0 \/ i = 1 \/ i = 2 \/ i = 3 \/ i = 4
    OBVIOUS
  <2> HIDE DEF v4, v3, v2
  <2>2. CASE i = 0
    BY <2>2
  <2>3. CASE i = 1
    BY <2>3, <1>1
  <2>4. CASE i = 2
    BY <2>4, <1>1 DEF v2
  <2>5. CASE i = 3
    BY <2>5, <1>1 DEF v3
  <2>6. CASE i = 4
    BY <2>6, <1>1 DEF v4
  <2> QED
    BY <2>1, <2>2, <2>3, <2>4, <2>5, <2>6
<1> HIDE DEF w
<1>3. w = Step(w)
  <2>1. w = [i \in 0..n |-> w[i]]
    BY DEF w
  <2> QED
    BY <1>2, <2>1
<1> HIDE DEF Step
<1>4. value = Step(value)
  BY <1>3
<1> HIDE DEF value
<1>5. \A i \in 0..n : value[i] = IF i = 0 THEN 0 ELSE 256 * value[i - 1] + b[i]
  <2> TAKE i \in 0..n
  <2>1. value[i] = Step(value)[i]
    BY <1>4
  <2> QED
    BY <2>1 DEF Step
<1> HIDE DEF v4, v3, v2, v1
<1>6. /\ value[0] = 0
      /\ n >= 1 => value[1] = v1
  BY <1>1, <1>5 DEF v1
<1>7. n >= 2 => value[2] = v2
  BY <1>1, <1>5, <1>6 DEF v2
<1>8. n >= 3 => value[3] = v3
  BY <1>1, <1>5, <1>7 DEF v3
<1>9. n >= 4 => value[4] = v4
  BY <1>1, <1>5, <1>8 DEF v4
<1> QED
  BY <1>6, <1>7, <1>8, <1>9

\* The four bytes of a number below 2^31 are bytes, and weigh that number.
LEMMA BytesOfNumber ==
  ASSUME NEW n \in Nat, n < 32768 * 65536
  PROVE  /\ BytesOf(n) \in Strings(4)
         /\ n = 256 * (256 * (256 * BytesOf(n)[1] + BytesOf(n)[2]) + BytesOf(n)[3]) + BytesOf(n)[4]
<1> DEFINE b1 == n \div 16777216
           b2 == (n \div 65536) % 256
           b3 == (n \div 256) % 256
           b4 == n % 256
<1>1. b1 \in Byte /\ b2 \in Byte /\ b3 \in Byte /\ b4 \in Byte
  BY SMT DEF Byte
<1>2. n = 256 * (256 * (256 * b1 + b2) + b3) + b4
  BY SMT
<1>3. BytesOf(n) = <<b1, b2, b3, b4>>
  BY SMT DEF BytesOf
<1> HIDE DEF b1, b2, b3, b4
<1>4. <<b1, b2, b3, b4>> \in Strings(4)
  BY <1>1, FourBytes
<1>5. /\ BytesOf(n)[1] = b1 /\ BytesOf(n)[2] = b2
      /\ BytesOf(n)[3] = b3 /\ BytesOf(n)[4] = b4
  BY <1>3
<1> QED
  BY <1>2, <1>3, <1>4, <1>5

\* Such a number, written as bytes and read again, is the same.
LEMMA NumberOfBytes ==
  ASSUME NEW n \in Nat, n < 32768 * 65536
  PROVE  BigEndian(BytesOf(n)) = n
BY BytesOfNumber, BigEndianOf

\* A set of natural numbers has a least element.
LEMMA LeastExists ==
  ASSUME NEW I \in SUBSET Nat, I # {}
  PROVE  \E x \in I : \A y \in I : x <= y
<1>1. IsWellFoundedOn(OpToRel(<, Nat), Nat)
  BY NatLessThanWellFounded
<1>2. \E x \in I : \A y \in I : ~(<<y, x>> \in OpToRel(<, Nat))
  BY <1>1, WFMin
<1> QED
  <2>1. \A x, y \in Nat : <<y, x>> \in OpToRel(<, Nat) <=> y < x
    BY DEF OpToRel
  <2>2. PICK x \in I : \A y \in I : ~(<<y, x>> \in OpToRel(<, Nat))
    BY <1>2
  <2>3. \A y \in I : ~(y < x)
    BY <2>1, <2>2
  <2>4. \A y \in I : x <= y
    BY <2>3
  <2> QED
    BY <2>4

\* The least element of a non-empty set of natural numbers is the one Min chooses.
LEMMA MinIsLeast ==
  ASSUME NEW I \in SUBSET Nat, I # {}
  PROVE  Min(I) \in I /\ \A y \in I : Min(I) <= y
BY LeastExists DEF Min

\* k zeros are taken away from b, and s of length l is left, which begins with none.
StripsTo(b, s, k, l) ==
  /\ s \in Strings(l) /\ b \in Strings(k + l)
  /\ \A i \in 1..k : b[i] = 0
  /\ \A i \in 1..l : s[i] = b[k + i]
  /\ l # 0 => s[1] # 0

\* strip_leading_zeros() takes the zeros in front away, and nothing else.
LEMMA Stripped ==
  ASSUME NEW n \in Nat, NEW b \in Strings(n)
  PROVE  \E k, l \in Nat : k + l = n /\ StripsTo(b, StripLeadingZeros(b), k, l)
<1> DEFINE I == {i \in 1..Len(b) : b[i] # 0}
           s == StripLeadingZeros(b)
<1>0. Len(b) = n /\ b \in Seq(Byte)
  BY DEF Strings
<1>1. s = IF SelectInSeq(b, LAMBDA x : x # 0) = 0 THEN <<>>
          ELSE SubSeq(b, SelectInSeq(b, LAMBDA x : x # 0), Len(b))
  BY DEF StripLeadingZeros
<1>2. SelectInSeq(b, LAMBDA x : x # 0) = IF I # {} THEN Min(I) ELSE 0
  BY DEF SelectInSeq
<1>3. CASE I = {}
  <2>1. s = <<>> /\ \A i \in 1..n : b[i] = 0
    BY <1>0, <1>1, <1>2, <1>3
  <2>2. <<>> \in Strings(0)
    BY DEF Strings
  <2> HIDE DEF s
  <2>3. StripsTo(b, s, n, 0) /\ n + 0 = n
    BY <2>1, <2>2 DEF StripsTo
  <2> QED
    BY <2>3 DEF s
<1>4. CASE I # {}
  <2>1. I \in SUBSET Nat
    BY <1>0
  <2>2. Min(I) \in I /\ \A y \in I : Min(I) <= y
    <3> HIDE DEF I
    <3> QED
      BY <1>4, <2>1, MinIsLeast
  <2>3. PICK first \in 1..n : /\ first = Min(I) /\ b[first] # 0
                              /\ \A y \in I : first <= y
    BY <1>0, <2>2
  <2>4. \A i \in 1..first - 1 : b[i] = 0
    <3> SUFFICES ASSUME NEW i \in 1..first - 1, b[i] # 0 PROVE FALSE
      OBVIOUS
    <3>1. i \in I
      BY <1>0
    <3> QED
      BY <2>3, <3>1
  <2>5. s = SubSeq(b, first, n)
    <3> HIDE DEF I
    <3> QED
      BY <1>0, <1>1, <1>2, <1>4, <2>3
  <2> DEFINE k == first - 1
             l == n - k
  <2>6. s \in Seq(Byte) /\ Len(s) = l /\ \A i \in 1..l : s[i] = b[k + i]
    BY <1>0, <2>5, SubSeqProperties
  <2>7. k \in Nat /\ l \in Nat /\ n = k + l /\ l >= 1 /\ b[k + 1] # 0
    BY <2>3
  <2> HIDE DEF s
  <2>8. \A i \in 1..k : b[i] = 0
    BY <2>4
  <2> HIDE DEF l, k
  <2>9. s[1] # 0 /\ s \in Strings(l)
    BY <2>6, <2>7 DEF Strings
  <2>10. StripsTo(b, s, k, l)
    BY <2>6, <2>7, <2>8, <2>9 DEF StripsTo
  <2> QED
    BY <2>7, <2>10 DEF s
<1> QED
  BY <1>3, <1>4

\* A number in bytes, without the zeros in front, is the same number.
LEMMA StrippedNumber ==
  ASSUME NEW n \in Nat, n < 32768 * 65536
  PROVE  /\ BigEndian(StripLeadingZeros(BytesOf(n))) = n
         /\ \E k, l \in Nat : /\ StripsTo(BytesOf(n), StripLeadingZeros(BytesOf(n)), k, l)
                              /\ l <= 4 /\ (n # 0 => l # 0)
<1> DEFINE b == BytesOf(n)
           s == StripLeadingZeros(b)
<1>1. b \in Strings(4) /\ n = 256 * (256 * (256 * b[1] + b[2]) + b[3]) + b[4]
  BY BytesOfNumber
<1>2. b[1] \in Nat /\ b[2] \in Nat /\ b[3] \in Nat /\ b[4] \in Nat
  BY <1>1, InString
<1> HIDE DEF b
<1>3. PICK k \in Nat, l \in Nat : k + l = 4 /\ StripsTo(b, s, k, l)
  BY <1>1, Stripped
<1> HIDE DEF s
<1>4. /\ s \in Strings(l) /\ l \in 0..4
      /\ \A i \in 1..k : b[i] = 0
      /\ \A i \in 1..l : s[i] = b[k + i]
  BY <1>3 DEF StripsTo
<1>5. /\ l = 0 => BigEndian(s) = 0
      /\ l = 1 => BigEndian(s) = s[1]
      /\ l = 2 => BigEndian(s) = 256 * s[1] + s[2]
      /\ l = 3 => BigEndian(s) = 256 * (256 * s[1] + s[2]) + s[3]
      /\ l = 4 => BigEndian(s) = 256 * (256 * (256 * s[1] + s[2]) + s[3]) + s[4]
  BY <1>4, BigEndianOf
<1>6. BigEndian(s) = n /\ (n # 0 => l # 0)
  <2>3. l = 0 \/ l = 1 \/ l = 2 \/ l = 3 \/ l = 4
    BY <1>4
  <2> DEFINE b1 == b[1]  b2 == b[2]  b3 == b[3]  b4 == b[4]
  <2>4. /\ b1 \in Nat /\ b2 \in Nat /\ b3 \in Nat /\ b4 \in Nat
        /\ n = 256 * (256 * (256 * b1 + b2) + b3) + b4
    BY <1>1, <1>2
  <2>5. CASE l = 0
    <3>1. b1 = 0 /\ b2 = 0 /\ b3 = 0 /\ b4 = 0
      BY <1>3, <1>4, <2>5
    <3> QED
      BY <1>5, <2>4, <2>5, <3>1
  <2>6. CASE l = 1
    <3>1. b1 = 0 /\ b2 = 0 /\ b3 = 0 /\ s[1] = b4
      BY <1>3, <1>4, <2>6
    <3> QED
      BY <1>5, <2>4, <2>6, <3>1
  <2>7. CASE l = 2
    <3>1. b1 = 0 /\ b2 = 0 /\ s[1] = b3 /\ s[2] = b4
      BY <1>3, <1>4, <2>7
    <3> QED
      BY <1>5, <2>4, <2>7, <3>1
  <2>8. CASE l = 3
    <3>1. b1 = 0 /\ s[1] = b2 /\ s[2] = b3 /\ s[3] = b4
      BY <1>3, <1>4, <2>8
    <3> QED
      BY <1>5, <2>4, <2>8, <3>1
  <2>9. CASE l = 4
    <3>1. s[1] = b1 /\ s[2] = b2 /\ s[3] = b3 /\ s[4] = b4
      BY <1>3, <1>4, <2>9
    <3> QED
      BY <1>5, <2>4, <2>9, <3>1
  <2> QED
    BY <2>3, <2>5, <2>6, <2>7, <2>8, <2>9
<1> QED
  BY <1>3, <1>4, <1>6 DEF s, b


(***************************************************************************)
(* Lengths and items.                                                      *)
(***************************************************************************)
Short(n) == n \in Nat /\ n < 256 * 65536

\* The digits of a length, as they follow its first byte.
Digits(n) == StripLeadingZeros(BytesOf(n))

\* The digits of a long length are one to four bytes that are read as it again.
LEMMA DigitsOf ==
  ASSUME NEW n, Short(n), n >= 56
  PROVE  /\ BigEndian(Digits(n)) = n
         /\ \E w \in 1..4 : Digits(n) \in Strings(w) /\ Digits(n)[1] # 0
<1>1. n \in Nat /\ n < 32768 * 65536 /\ n # 0
  BY DEF Short
<1>2. PICK k \in Nat, l \in Nat : StripsTo(BytesOf(n), Digits(n), k, l) /\ l <= 4 /\ (n # 0 => l # 0)
  BY <1>1, StrippedNumber DEF Digits
<1>3. l \in 1..4
  BY <1>1, <1>2
<1>4. Digits(n) \in Strings(l) /\ Digits(n)[1] # 0
  BY <1>2, <1>3 DEF StripsTo
<1> QED
  BY <1>1, <1>3, <1>4, StrippedNumber DEF Digits

\* A byte in brackets is a string of length one.
LEMMA OneByte ==
  ASSUME NEW x \in Byte
  PROVE  <<x>> \in Strings(1) /\ <<x>>[1] = x
BY DEF Strings

\* The first byte of a longer length, which gives the number of its w digits.
LongPrefix(h, n, offset, w) ==
  /\ h = <<offset + 55 + w>> \o Digits(n)
  /\ <<offset + 55 + w>> \in Strings(1)
  /\ Digits(n) \in Strings(w) /\ Digits(n)[1] # 0
  /\ h \in Strings(1 + w)

\* rlp_encode_length() is one byte below 56; from there on, the count of the
\* digits comes first.
LEMMA LengthPrefix ==
  ASSUME NEW n, Short(n), NEW offset \in {128, 192}
  PROVE  /\ n < 56 => /\ EncodeLength(n, offset) = <<offset + n>>
                      /\ EncodeLength(n, offset) \in Strings(1)
         /\ n >= 56 => \E w \in 1..4 : LongPrefix(EncodeLength(n, offset), n, offset, w)
<1>1. n \in Nat
  BY DEF Short
<1>2. CASE n < 56
  <2>1. offset + n \in Byte
    BY <1>1, <1>2, ByteIsNumber
  <2>2. EncodeLength(n, offset) = <<offset + n>>
    BY <1>2 DEF EncodeLength
  <2> QED
    BY <1>1, <1>2, <2>1, <2>2, OneByte
<1>3. CASE n >= 56
  <2>1. PICK w \in 1..4 : Digits(n) \in Strings(w) /\ Digits(n)[1] # 0
    BY <1>3, DigitsOf
  <2>2. Len(Digits(n)) = w
    BY <2>1, InString
  <2>3. EncodeLength(n, offset) = <<offset + 55 + Len(Digits(n))>> \o Digits(n)
    BY <1>1, <1>3 DEF EncodeLength, Digits
  <2>4. EncodeLength(n, offset) = <<offset + 55 + w>> \o Digits(n)
    BY <2>2, <2>3
  <2>5. offset + 55 + w \in Byte
    BY ByteIsNumber
  <2>6. <<offset + 55 + w>> \in Strings(1)
    BY <2>5, OneByte
  <2>7. EncodeLength(n, offset) \in Strings(1 + w)
    BY <2>1, <2>4, <2>6, Joined
  <2>8. LongPrefix(EncodeLength(n, offset), n, offset, w)
    BY <2>1, <2>4, <2>6, <2>7 DEF LongPrefix
  <2> QED
    BY <1>1, <1>3, <2>8
<1> QED
  BY <1>1, <1>2, <1>3

\* A length prefix is one to five bytes long.
LEMMA EncodedPrefix ==
  ASSUME NEW n, Short(n), NEW offset \in {128, 192}
  PROVE  \E l \in 1..5 : EncodeLength(n, offset) \in Strings(l)
<1>1. CASE n < 56
  BY <1>1, LengthPrefix
<1>2. CASE n >= 56
  <2>1. PICK w \in 1..4 : LongPrefix(EncodeLength(n, offset), n, offset, w)
    BY <1>2, LengthPrefix
  <2>2. EncodeLength(n, offset) \in Strings(1 + w) /\ 1 + w \in 1..5
    BY <2>1 DEF LongPrefix
  <2> QED
    BY <2>2
<1> QED
  BY <1>1, <1>2 DEF Short

\* At at + 1 begins what offset announces: n bytes, after l that say so.
Announces(d, at, offset, n, l) ==
  LET e == Extent(d, at + 1, offset)
  IN  /\ e.from = at + l + 1 /\ e.to = at + l + n
      /\ e.canonical \/ (n = 1 /\ l = 1 /\ offset = 128 /\ d[at + 2] < 128)

\* Where a length prefix stands, the node finds the item it announces, and finds
\* it canonical.
LEMMA ExtentOfPrefix ==
  ASSUME NEW d \in Seq(Byte), NEW at \in Nat, NEW n, Short(n), NEW offset \in {128, 192},
         NEW l \in Nat, EncodeLength(n, offset) \in Strings(l),
         Carries(d, at, EncodeLength(n, offset))
  PROVE  Announces(d, at, offset, n, l)
<1> DEFINE h == EncodeLength(n, offset)
           e == Extent(d, at + 1, offset)
<1>1. n \in Nat
  BY DEF Short
<1>2. CASE n < 56
  <2>1. h = <<offset + n>> /\ h \in Strings(1)
    BY <1>2, LengthPrefix
  <2>2. d[at + 1] = offset + n
    BY <2>1, CarriedByte
  <2>3. ~(d[at + 1] < offset) /\ d[at + 1] - offset = n /\ n \in 0..55
    BY <1>1, <1>2, <2>2
  <2>4. e = [from |-> at + 1 + 1, to |-> at + 1 + n,
             canonical |-> ~(n = 1 /\ offset = 128 /\ d[at + 1 + 1] < 128)]
    BY <2>3 DEF Extent
  <2>5. at + 1 + 1 = at + 2
    OBVIOUS
  <2>6. Announces(d, at, offset, n, 1)
    <3>1. e.from = at + 1 + 1 /\ e.to = at + 1 + n
      BY <2>4
    <3>2. e.canonical = ~(n = 1 /\ offset = 128 /\ d[at + 1 + 1] < 128)
      BY <2>4
    <3> QED
      BY <2>5, <3>1, <3>2 DEF Announces
  <2>7. l = 1
    BY <2>1 DEF Strings
  <2> QED
    BY <2>6, <2>7
<1>3. CASE n >= 56
  <2> DEFINE s == Digits(n)
  <2>0. PICK w \in 1..4 : LongPrefix(h, n, offset, w)
    BY <1>3, LengthPrefix
  <2>1. /\ h = <<offset + 55 + w>> \o s
        /\ <<offset + 55 + w>> \in Strings(1)
        /\ s \in Strings(w) /\ s[1] # 0
        /\ h \in Strings(1 + w)
    BY <2>0 DEF LongPrefix
  <2>2. BigEndian(s) = n
    BY <1>3, DigitsOf
  <2> HIDE DEF s
  <2>3. Carries(d, at, <<offset + 55 + w>>) /\ Carries(d, at + 1, s)
    BY <2>1, CarriesParts
  <2>4. d[at + 1] = offset + 55 + w
    BY <2>1, <2>3, CarriedByte
  <2>5. SubSeq(d, at + 1 + 1, at + 1 + w) = s
    BY <2>1, <2>3, CutOut
  <2>6. d[at + 1 + 1] = s[1]
    BY <2>1, <2>3, CarriedByte
  <2>7. /\ ~(d[at + 1] < offset) /\ d[at + 1] - offset = 55 + w
        /\ ~(55 + w \in 0..55) /\ 55 + w - 55 = w
    BY <2>4
  <2>8. e = [from |-> at + 1 + w + 1, to |-> at + 1 + w + n, canonical |-> TRUE]
    <3>1. (d[at + 1] - offset) - 55 = w
      BY <2>4
    <3>2. BigEndian(SubSeq(d, at + 1 + 1, at + 1 + ((d[at + 1] - offset) - 55))) = n
      BY <2>2, <2>5, <3>1
    <3>3. n >= 56 /\ d[at + 1 + 1] # 0
      BY <1>3, <2>1, <2>6
    <3> QED
      BY <2>7, <3>1, <3>2, <3>3 DEF Extent
  <2>9. at + 1 + w + 1 = at + (1 + w) + 1 /\ at + 1 + w + n = at + (1 + w) + n
    BY <1>1
  <2>10. Announces(d, at, offset, n, 1 + w)
    BY <2>8, <2>9 DEF Announces
  <2>11. l = 1 + w
    BY <2>1 DEF Strings
  <2> QED
    BY <2>10, <2>11
<1> QED
  BY <1>1, <1>2, <1>3

\* An item of n bytes begins at at + 1, and is read as the string b.
ReadsAs(d, at, n, b) ==
  LET e == Extent(d, at + 1, 128)
  IN  /\ e.canonical
      /\ e.to = at + n
      /\ SubSeq(d, e.from, e.to) = b
      /\ e.from <= e.to => d[e.from] = b[1] /\ b # <<>>

\* An encoded string is at most five bytes longer.
LEMMA EncodedBytes ==
  ASSUME NEW k, Short(k), NEW b \in Strings(k)
  PROVE  \E n \in Nat : n <= k + 5 /\ EncodeBytes(b) \in Strings(n)
<1>1. k \in Nat /\ Len(b) = k
  BY DEF Short, Strings
<1>2. CASE Len(b) = 1 /\ b[1] < 128
  <2>1. EncodeBytes(b) = b /\ k <= k + 5
    BY <1>1, <1>2 DEF EncodeBytes
  <2> QED
    BY <1>1, <2>1
<1>3. CASE ~(Len(b) = 1 /\ b[1] < 128)
  <2>1. EncodeBytes(b) = EncodeLength(k, 128) \o b
    BY <1>1, <1>3 DEF EncodeBytes
  <2>2. PICK l \in 1..5 : EncodeLength(k, 128) \in Strings(l)
    BY EncodedPrefix
  <2>3. EncodeBytes(b) \in Strings(l + k) /\ l + k \in Nat /\ l + k <= k + 5
    BY <1>1, <2>1, <2>2, Joined
  <2> QED
    BY <2>3
<1> QED
  BY <1>2, <1>3

\* A byte below 128 is its own encoding.
LEMMA ExtentOfByte ==
  ASSUME NEW raw, NEW p, raw[p] \in Nat, raw[p] < 128
  PROVE  Extent(raw, p, 128) = [from |-> p, to |-> p, canonical |-> TRUE]
<1>1. ~(raw[p] - 128 \in 0..55)
  OBVIOUS
<1> QED
  BY <1>1 DEF Extent

\* What rlp_encode_bytes() wrote is read back as it was, and is canonical.
LEMMA ItemIsRead ==
  ASSUME NEW d \in Seq(Byte), NEW at \in Nat, NEW k, Short(k), NEW b \in Strings(k),
         NEW n \in Nat, EncodeBytes(b) \in Strings(n), Carries(d, at, EncodeBytes(b))
  PROVE  ReadsAs(d, at, n, b)
<1> DEFINE e == Extent(d, at + 1, 128)
           h == EncodeLength(k, 128)
<1>0. k \in Nat /\ Len(b) = k
  BY DEF Short, Strings
<1>00. k >= 1 => b # <<>>
  BY <1>0
<1>1. CASE k = 1 /\ b[1] < 128
  <2>1. EncodeBytes(b) = b
    BY <1>0, <1>1 DEF EncodeBytes
  <2>2. n = 1
    BY <1>0, <1>1, <2>1 DEF Strings
  <2>3. d[at + 1] = b[1] /\ b[1] \in Nat
    BY <1>0, <1>1, <2>1, CarriedByte, InString
  <2>4. e = [from |-> at + 1, to |-> at + 1, canonical |-> TRUE]
    <3>1. d[at + 1] < 128 /\ d[at + 1] \in Nat
      BY <1>1, <2>3
    <3> QED
      BY <3>1, ExtentOfByte
  <2>5. SubSeq(d, at + 1, at + 1) = b
    BY <1>0, <1>1, <2>1, CutOut
  <2>6. b # <<>>
    BY <1>00, <1>1
  <2> QED
    BY <2>2, <2>3, <2>4, <2>5, <2>6 DEF ReadsAs
<1>2. CASE ~(k = 1 /\ b[1] < 128)
  <2>1. EncodeBytes(b) = h \o b
    BY <1>0, <1>2 DEF EncodeBytes
  <2>2. PICK l \in 1..5 : h \in Strings(l)
    BY EncodedPrefix
  <2>3. Carries(d, at, h) /\ Carries(d, at + l, b)
    BY <1>0, <2>1, <2>2, CarriesParts
  <2> HIDE DEF h
  <2>4. n = l + k
    <3>0. l \in Nat /\ k \in Nat /\ h \in Strings(l) /\ b \in Strings(k)
      BY <1>0, <2>2
    <3>1. h \o b \in Strings(l + k)
      BY <3>0, Joined
    <3> QED
      BY <2>1, <3>1 DEF Strings
  <2>5. SubSeq(d, (at + l) + 1, (at + l) + k) = b
    BY <1>0, <2>3, CutOut
  <2>6. /\ e.from = at + l + 1 /\ e.to = at + l + k
        /\ e.canonical \/ (k = 1 /\ l = 1 /\ d[at + 2] < 128)
    BY <2>2, <2>3, ExtentOfPrefix DEF Announces, h
  <2>7. k >= 1 => d[(at + l) + 1] = b[1]
    BY <1>0, <2>3, CarriedByte
  <2>8. k = 1 /\ l = 1 => d[at + 2] = b[1]
    <3> HAVE k = 1 /\ l = 1
    <3>1. (at + l) + 1 = at + 2
      OBVIOUS
    <3> QED
      BY <2>7, <3>1
  <2>9. e.canonical
    BY <1>2, <2>6, <2>8
  <2>10. e.from <= e.to => k >= 1
    BY <1>0, <2>6
  <2> HIDE DEF e
  <2>12. e.to = at + n /\ SubSeq(d, e.from, e.to) = b
    BY <1>0, <2>4, <2>5, <2>6
  <2>13. e.from <= e.to => d[e.from] = b[1] /\ b # <<>>
    BY <1>00, <2>6, <2>7, <2>10
  <2> QED
    BY <2>9, <2>12, <2>13 DEF ReadsAs, e
<1> QED
  BY <1>1, <1>2

(***************************************************************************)
(* Lists.                                                                  *)
(***************************************************************************)
\* f are the concatenations of the first items, none of them to all n.
Joins(f, items, n) ==
  /\ f[0] = <<>> /\ \A k \in 0..n : f[k] \in Seq(Byte)
  /\ \A k \in 1..n : f[k] = f[k - 1] \o items[k]

\* The function by which FlattenSeq is defined exists for every list.
LEMMA FlattenExists ==
  ASSUME NEW items
  PROVE  \A n \in Nat : \E f : f = [i \in 1..n |-> IF i = 1 THEN items[i] ELSE f[i - 1] \o items[i]]
<1> DEFINE Step(f, n) == [i \in 1..n |-> IF i = 1 THEN items[i] ELSE f[i - 1] \o items[i]]
           T == {n \in Nat : ~ \E f : f = Step(f, n)}
<1> SUFFICES ASSUME T # {} PROVE FALSE
  OBVIOUS
<1>1. PICK m \in T : \A n \in T : m <= n
  <2>1. T \in SUBSET Nat
    OBVIOUS
  <2> HIDE DEF T
  <2> QED
    BY <2>1, LeastExists
<1>2. m \in Nat /\ ~ \E f : f = Step(f, m)
  OBVIOUS
<1>3. CASE m = 0
  <2>1. <<>> = Step(<<>>, 0)
    OBVIOUS
  <2> HIDE DEF Step
  <2> QED
    BY <1>2, <1>3, <2>1
<1>4. CASE m # 0
  <2>1. m - 1 \in Nat /\ ~(m <= m - 1)
    BY <1>2, <1>4
  <2>2. m - 1 \notin T
    BY <1>1, <2>1
  <2>3. PICK g : g = Step(g, m - 1)
    <3> HIDE DEF Step
    <3> QED
      BY <2>1, <2>2
  <2> DEFINE f == [i \in 1..m |-> IF i = m THEN IF m = 1 THEN items[m] ELSE g[m - 1] \o items[m]
                                           ELSE g[i]]
  <2>4. \A i \in 1..m - 1 : g[i] = IF i = 1 THEN items[i] ELSE g[i - 1] \o items[i]
    <3> TAKE i \in 1..m - 1
    <3>1. g[i] = Step(g, m - 1)[i]
      BY <2>3
    <3> QED
      BY <3>1
  <2>5. \A i \in 1..m : f[i] = IF i = 1 THEN items[i] ELSE f[i - 1] \o items[i]
    <3> TAKE i \in 1..m
    <3>1. CASE i = m
      BY <1>2, <3>1
    <3>2. CASE i # m
      <4>1. i \in 1..m - 1 /\ (i # 1 => i - 1 \in 1..m /\ i - 1 # m)
        BY <1>2, <3>2
      <4> QED
        BY <2>4, <3>2, <4>1
    <3> QED
      BY <3>1, <3>2
  <2>6. f = [i \in 1..m |-> f[i]]
    OBVIOUS
  <2> HIDE DEF f
  <2>7. f = Step(f, m)
    BY <2>5, <2>6
  <2> HIDE DEF Step
  <2> QED
    BY <1>2, <2>7
<1> QED
  BY <1>3, <1>4

\* FlattenSeq of a list is the last of the concatenations of its first items.
LEMMA Flattened ==
  ASSUME NEW n \in Nat, n # 0, NEW items, Len(items) = n, \A k \in 1..n : items[k] \in Seq(Byte)
  PROVE  \E f : Joins(f, items, n) /\ FlattenSeq(items) = f[n]
<1> DEFINE Step(f) == [i \in 1..n |-> IF i = 1 THEN items[i] ELSE f[i - 1] \o items[i]]
           flatten == CHOOSE f : f = Step(f)
<1>1. flatten = Step(flatten)
  BY FlattenExists
<1>2. FlattenSeq(items) = flatten[n]
  BY DEF FlattenSeq
<1> HIDE DEF flatten
<1>3. \A i \in 1..n : flatten[i] = IF i = 1 THEN items[i] ELSE flatten[i - 1] \o items[i]
  <2> TAKE i \in 1..n
  <2>1. flatten[i] = Step(flatten)[i]
    BY <1>1
  <2> QED
    BY <2>1
<1> DEFINE f == [i \in 0..n |-> IF i = 0 THEN <<>> ELSE flatten[i]]
<1>4. \A k \in 1..n : f[k] = f[k - 1] \o items[k]
  <2> TAKE k \in 1..n
  <2>1. CASE k = 1
    <3>1. f[k] = items[k] /\ f[k - 1] = <<>>
      BY <1>3, <2>1
    <3>2. items[k] \in Seq(Byte)
      OBVIOUS
    <3> QED
      BY <3>1, <3>2, ConcatEmptySeq
  <2>2. CASE k # 1
    <3>1. k - 1 \in 0..n /\ k - 1 # 0 /\ k \in 0..n /\ k # 0
      BY <2>2
    <3>2. f[k] = flatten[k] /\ f[k - 1] = flatten[k - 1]
      BY <3>1
    <3> QED
      BY <1>3, <2>2, <3>2
  <2> QED
    BY <2>1, <2>2
<1>5. f[0] = <<>> /\ f[n] = flatten[n]
  OBVIOUS
<1> HIDE DEF f
<1>6. \A k \in 0..n : f[k] \in Seq(Byte)
  <2> DEFINE T == {k \in 0..n : f[k] \notin Seq(Byte)}
  <2> SUFFICES ASSUME T # {} PROVE FALSE
    OBVIOUS
  <2>1. PICK m \in T : \A k \in T : m <= k
    <3>1. T \in SUBSET Nat
      OBVIOUS
    <3> HIDE DEF T
    <3> QED
      BY <3>1, LeastExists
  <2>2. m # 0
    BY <1>5, EmptySeq
  <2>3. m \in 1..n /\ m - 1 \in 0..n /\ ~(m <= m - 1)
    BY <2>2
  <2>4. f[m - 1] \in Seq(Byte)
    BY <2>1, <2>3
  <2>5. f[m] \in Seq(Byte)
    BY <1>4, <2>3, <2>4, ConcatProperties
  <2> QED
    BY <2>5
<1> QED
  BY <1>2, <1>4, <1>5, <1>6 DEF Joins

\* Where a flattened list stands, its k-th item stands behind the first k - 1.
LEMMA ItemsInside ==
  ASSUME NEW d \in Seq(Byte), NEW at \in Nat, NEW n \in Nat, NEW items, NEW f, Joins(f, items, n),
         \A k \in 1..n : items[k] \in Seq(Byte),
         Carries(d, at, f[n])
  PROVE  \A k \in 1..n : /\ Carries(d, at + Len(f[k - 1]), items[k])
                         /\ Len(f[k - 1]) \in Nat
                         /\ Len(f[k]) = Len(f[k - 1]) + Len(items[k])
<1>1. \A k \in 1..n : /\ Carries(d, at, f[k]) =>
                           Carries(d, at, f[k - 1]) /\ Carries(d, at + Len(f[k - 1]), items[k])
                      /\ Len(f[k - 1]) \in Nat
                      /\ Len(f[k]) = Len(f[k - 1]) + Len(items[k])
  <2> TAKE k \in 1..n
  <2>1. f[k] = f[k - 1] \o items[k] /\ f[k - 1] \in Seq(Byte) /\ items[k] \in Seq(Byte)
    <3>1. k - 1 \in 0..n
      OBVIOUS
    <3> QED
      BY <3>1 DEF Joins
  <2> DEFINE a == f[k - 1]  b == items[k]  l == Len(a)  m == Len(b)
  <2>2. l \in Nat /\ m \in Nat /\ a \in Strings(l) /\ b \in Strings(m)
    BY <2>1, StringOf
  <2>3. Len(a \o b) = l + m
    BY <2>1, ConcatProperties
  <2> HIDE DEF l, m
  <2>4. Carries(d, at, a \o b) => Carries(d, at, a) /\ Carries(d, at + l, b)
    BY <2>2, CarriesParts
  <2> QED
    BY <2>1, <2>2, <2>3, <2>4 DEF l, m
<1> DEFINE T == {j \in 0..n : ~Carries(d, at, f[n - j])}
<1>2. T = {}
  <2> SUFFICES ASSUME T # {} PROVE FALSE
    OBVIOUS
  <2>1. PICK m \in T : \A k \in T : m <= k
    <3>1. T \in SUBSET Nat
      OBVIOUS
    <3> HIDE DEF T
    <3> QED
      BY <3>1, LeastExists
  <2>2. m # 0
    BY DEF T
  <2>3. m - 1 \in 0..n /\ ~(m <= m - 1) /\ n - (m - 1) \in 1..n /\ n - (m - 1) - 1 = n - m
    BY <2>2
  <2>4. Carries(d, at, f[n - (m - 1)])
    BY <2>1, <2>3
  <2>5. Carries(d, at, f[n - m])
    BY <1>1, <2>3, <2>4
  <2> QED
    BY <2>5
<1>3. \A k \in 1..n : Carries(d, at, f[k])
  <2> TAKE k \in 1..n
  <2>1. n - k \in 0..n /\ n - (n - k) = k
    OBVIOUS
  <2>2. n - k \notin T
    BY <1>2
  <2> QED
    BY <2>1, <2>2
<1> QED
  BY <1>1, <1>3

(***************************************************************************)
(* The fields of a transaction.                                            *)
(***************************************************************************)
\* Where the fields of raw end, in front of the first and after each.
Ends(raw, ext) ==
  /\ ext[0].to = Extent(raw, 1, 192).from - 1
  /\ \A k \in 1..9 : ext[k] = Extent(raw, ext[k - 1].to + 1, 128)

\* The function by which Fields is defined exists for every transaction.
LEMMA FieldsExist ==
  ASSUME NEW raw
  PROVE  \E ext : Ends(raw, ext) /\ Fields(raw) = [k \in 1..9 |-> ext[k]]
<1> DEFINE Next1(e) == Extent(raw, e.to + 1, 128)
           zero == [to |-> Extent(raw, 1, 192).from - 1]
           Step(f, n) == [k \in 0..n |-> IF k = 0 THEN zero ELSE Next1(f[k - 1])]
           T == {n \in Nat : ~ \E f : f = Step(f, n)}
<1>1. T = {}
  <2> SUFFICES ASSUME T # {} PROVE FALSE
    OBVIOUS
  <2>1. PICK m \in T : \A n \in T : m <= n
    <3>1. T \in SUBSET Nat
      OBVIOUS
    <3> HIDE DEF T
    <3> QED
      BY <3>1, LeastExists
  <2> HIDE DEF Next1, zero
  <2>2. m \in Nat /\ ~ \E f : f = Step(f, m)
    OBVIOUS
  <2>3. CASE m = 0
    <3> DEFINE f == [k \in 0..0 |-> zero]
    <3>1. f = Step(f, 0)
      OBVIOUS
    <3> HIDE DEF Step, f
    <3> QED
      BY <2>2, <2>3, <3>1
  <2>4. CASE m # 0
    <3>1. m - 1 \in Nat /\ ~(m <= m - 1)
      BY <2>2, <2>4
    <3>2. PICK g : g = Step(g, m - 1)
      <4>1. m - 1 \notin T
        BY <2>1, <3>1
      <4> HIDE DEF Step
      <4> QED
        BY <3>1, <4>1
    <3>3. \A k \in 0..m - 1 : g[k] = IF k = 0 THEN zero ELSE Next1(g[k - 1])
      <4> TAKE k \in 0..m - 1
      <4>1. g[k] = Step(g, m - 1)[k]
        BY <3>2
      <4> QED
        BY <4>1
    <3> DEFINE f == [k \in 0..m |-> IF k = m THEN Next1(g[m - 1]) ELSE g[k]]
    <3>4. \A k \in 0..m : f[k] = IF k = 0 THEN zero ELSE Next1(f[k - 1])
      <4> TAKE k \in 0..m
      <4>1. CASE k = m
        <5>1. m - 1 \in 0..m /\ m - 1 # m
          BY <3>1
        <5>2. f[k] = Next1(g[m - 1]) /\ f[m - 1] = g[m - 1]
          BY <4>1, <5>1
        <5> QED
          BY <2>4, <4>1, <5>2
      <4>2. CASE k # m
        <5>1. k \in 0..m - 1 /\ (k # 0 => k - 1 \in 0..m /\ k - 1 # m)
          BY <2>2, <4>2
        <5>2. f[k] = g[k] /\ (k # 0 => f[k - 1] = g[k - 1])
          BY <4>2, <5>1
        <5> QED
          BY <3>3, <5>1, <5>2
      <4> QED
        BY <4>1, <4>2
    <3>5. f = [k \in 0..m |-> f[k]]
      OBVIOUS
    <3> HIDE DEF f
    <3>6. f = Step(f, m)
      BY <3>4, <3>5
    <3> HIDE DEF Step
    <3> QED
      BY <2>2, <3>6
  <2> QED
    BY <2>3, <2>4
<1> DEFINE ext == CHOOSE f : f = Step(f, 9)
<1>2. ext = Step(ext, 9)
  <2>1. 9 \notin T
    BY <1>1
  <2> HIDE DEF Step
  <2> QED
    BY <2>1
<1>3. Fields(raw) = [k \in 1..9 |-> ext[k]]
  BY DEF Fields
<1> HIDE DEF ext
<1>4. \A k \in 0..9 : ext[k] = IF k = 0 THEN zero ELSE Next1(ext[k - 1])
  <2> TAKE k \in 0..9
  <2>1. ext[k] = Step(ext, 9)[k]
    BY <1>2
  <2> QED
    BY <2>1
<1>5. ext[0].to = Extent(raw, 1, 192).from - 1
  BY <1>4
<1>6. \A k \in 1..9 : ext[k] = Next1(ext[k - 1])
  <2> TAKE k \in 1..9
  <2>1. k \in 0..9 /\ k # 0
    OBVIOUS
  <2> QED
    BY <1>4, <2>1
<1> QED
  BY <1>3, <1>5, <1>6 DEF Ends

\* The k-th field of raw ends at e, is canonical, and is read as b.
FieldReads(raw, k, e, b) ==
  LET field == Fields(raw)[k]
  IN  /\ field.canonical /\ field.to = e
      /\ Field(raw, k) = b
      /\ field.from <= field.to => raw[field.from] = b[1] /\ b # <<>>

\* Nine items follow one another in raw, the k-th of len[k] bytes up to at[k].
Consecutive(raw, at, len, b) ==
  /\ at[0] \in Nat /\ Extent(raw, 1, 192).from = at[0] + 1
  /\ \A k \in 1..9 : /\ ReadsAs(raw, at[k - 1], len[k], b[k])
                     /\ at[k - 1] \in Nat /\ at[k] = at[k - 1] + len[k]

\* Nine items that follow one another are read as the nine fields, each where it
\* ends.
LEMMA FieldsAreRead ==
  ASSUME NEW raw, NEW at, NEW len, NEW b, Consecutive(raw, at, len, b)
  PROVE  \A k \in 1..9 : FieldReads(raw, k, at[k], b[k])
<1>1. PICK ext : Ends(raw, ext) /\ Fields(raw) = [k \in 1..9 |-> ext[k]]
  BY FieldsExist
<1>2. \A k \in 1..9 : /\ ReadsAs(raw, at[k - 1], len[k], b[k])
                      /\ at[k - 1] \in Nat /\ at[k] = at[k - 1] + len[k]
  BY DEF Consecutive
<1>3. \A k \in 1..9 : ext[k] = Extent(raw, ext[k - 1].to + 1, 128)
  BY <1>1 DEF Ends
<1>4. \A k \in 1..9 : ext[k - 1].to = at[k - 1] => ext[k].to = at[k]
  <2> TAKE k \in 1..9
  <2>1. ReadsAs(raw, at[k - 1], len[k], b[k]) /\ at[k] = at[k - 1] + len[k]
    BY <1>2
  <2>2. Extent(raw, at[k - 1] + 1, 128).to = at[k]
    BY <2>1 DEF ReadsAs
  <2>3. ext[k] = Extent(raw, ext[k - 1].to + 1, 128)
    BY <1>3
  <2> QED
    BY <2>2, <2>3
<1>5. ext[0].to = at[0]
  <2>1. ext[0].to = Extent(raw, 1, 192).from - 1
    BY <1>1 DEF Ends
  <2>2. at[0] \in Nat /\ Extent(raw, 1, 192).from = at[0] + 1
    BY DEF Consecutive
  <2> QED
    BY <2>1, <2>2
<1>6. \A k \in 0..9 : ext[k].to = at[k]
  <2> DEFINE T == {k \in 0..9 : ext[k].to # at[k]}
  <2> SUFFICES ASSUME T # {} PROVE FALSE
    OBVIOUS
  <2>1. PICK m \in T : \A k \in T : m <= k
    <3>1. T \in SUBSET Nat
      OBVIOUS
    <3> HIDE DEF T
    <3> QED
      BY <3>1, LeastExists
  <2>2. m # 0
    BY <1>5
  <2>3. m \in 1..9 /\ m - 1 \in 0..9 /\ ~(m <= m - 1)
    BY <2>2
  <2>4. ext[m - 1].to = at[m - 1]
    BY <2>1, <2>3
  <2>5. ext[m].to = at[m]
    BY <1>4, <2>3, <2>4
  <2> QED
    BY <2>5
<1> TAKE k \in 1..9
<1>7. ext[k - 1].to = at[k - 1] /\ ext[k].to = at[k]
  BY <1>6
<1>8. ext[k] = Extent(raw, at[k - 1] + 1, 128)
  BY <1>3, <1>7
<1>9. ReadsAs(raw, at[k - 1], len[k], b[k])
  BY <1>2
<1>10. Fields(raw)[k] = ext[k]
  BY <1>1
<1> QED
  BY <1>7, <1>8, <1>9, <1>10 DEF FieldReads, ReadsAs, Field

\* Nine encoded strings, each shorter than a million bytes.
Nine(n, items, b, size) ==
  /\ n = 9 /\ Len(items) = n
  /\ \A k \in 1..9 : /\ size[k] \in Nat /\ size[k] < 15 * 65536
                     /\ b[k] \in Strings(size[k])
                     /\ items[k] = EncodeBytes(b[k])

\* raw is a canonical list whose nine fields are b.
Reads(raw, b) ==
  /\ Extent(raw, 1, 192).canonical /\ Extent(raw, 1, 192).to = Len(raw)
  /\ \E at : at[9] = Len(raw) /\ \A k \in 1..9 : FieldReads(raw, k, at[k], b[k])

\* An encoded string of m bytes.
Item(item, m) == m \in Nat /\ m < 15 * 65536 + 5 /\ item \in Strings(m)

\* f are the concatenations of nine items, the first k of them of at[k] bytes.
Layout(f, at, items, len) ==
  /\ f[0] = <<>> /\ at[0] = 0
  /\ \A k \in 1..9 : /\ f[k] = f[k - 1] \o items[k] /\ f[k - 1] \in Strings(at[k - 1])
                     /\ at[k] = at[k - 1] + len[k] /\ at[k] \in Nat /\ at[k - 1] \in Nat
                     /\ Item(items[k], len[k])

\* An encoded item of nine that are short is short itself.
LEMMA NineItems ==
  ASSUME NEW n, NEW items, NEW b, NEW size, Nine(n, items, b, size)
  PROVE  \A k \in 1..9 : Item(items[k], Len(items[k]))
<1> SUFFICES ASSUME NEW k \in 1..9 PROVE Item(items[k], Len(items[k]))
  OBVIOUS
<1>1. /\ Short(size[k]) /\ b[k] \in Strings(size[k]) /\ items[k] = EncodeBytes(b[k])
      /\ size[k] < 15 * 65536
  BY DEF Nine, Short
<1>2. PICK m \in Nat : m <= size[k] + 5 /\ items[k] \in Strings(m)
  BY <1>1, EncodedBytes
<1>3. m < 15 * 65536 + 5
  BY <1>1, <1>2 DEF Short
<1>4. Len(items[k]) = m
  BY <1>2 DEF Strings
<1> QED
  BY <1>2, <1>3, <1>4 DEF Item

\* The nine encoded items of a list lie one behind the other.
LEMMA LayoutExists ==
  ASSUME NEW n, NEW items, NEW b, NEW size, Nine(n, items, b, size)
  PROVE  \E f, at, len : /\ Layout(f, at, items, len)
                         /\ Joins(f, items, 9) /\ FlattenSeq(items) = f[9]
                         /\ \A k \in 1..9 : at[k - 1] = Len(f[k - 1]) /\ len[k] = Len(items[k])
<1>1. \A k \in 1..9 : Item(items[k], Len(items[k]))
  BY NineItems
<1>2. \A k \in 1..9 : items[k] \in Seq(Byte)
  <2> TAKE k \in 1..9
  <2>1. Item(items[k], Len(items[k]))
    BY <1>1
  <2> DEFINE m == Len(items[k])
  <2> HIDE DEF m
  <2>2. items[k] \in Strings(m)
    BY <2>1 DEF Item, m
  <2> QED
    BY <2>2 DEF Strings
<1>3. PICK f : Joins(f, items, 9) /\ FlattenSeq(items) = f[9]
  <2>2. n = 9 /\ n \in Nat /\ n # 0 /\ Len(items) = n
    BY DEF Nine
  <2>3. \A k \in 1..n : items[k] \in Seq(Byte)
    BY <1>2, <2>2
  <2> QED
    BY <2>2, <2>3, Flattened
<1> DEFINE at == [k \in 0..9 |-> Len(f[k])]
           len == [k \in 1..9 |-> Len(items[k])]
<1>4. \A k \in 0..9 : at[k] = Len(f[k])
  OBVIOUS
<1>5. \A k \in 1..9 : len[k] = Len(items[k])
  OBVIOUS
<1> HIDE DEF at, len
<1>6. f[0] = <<>> /\ \A k \in 0..9 : f[k] \in Seq(Byte)
  BY <1>3 DEF Joins
<1>7. \A k \in 1..9 : f[k] = f[k - 1] \o items[k]
  BY <1>3 DEF Joins
<1>8. \A k \in 0..9 : f[k] \in Strings(at[k]) /\ at[k] \in Nat
  <2> TAKE k \in 0..9
  <2>1. f[k] \in Seq(Byte) /\ at[k] = Len(f[k])
    BY <1>4, <1>6
  <2> QED
    BY <2>1, StringOf
<1>9. at[0] = 0
  <2>1. Len(f[0]) = 0
    BY <1>6
  <2>2. at[0] = Len(f[0])
    BY <1>4
  <2> QED
    BY <2>1, <2>2
<1>10. \A k \in 1..9 : /\ f[k] = f[k - 1] \o items[k] /\ f[k - 1] \in Strings(at[k - 1])
                       /\ at[k] = at[k - 1] + len[k] /\ at[k] \in Nat /\ at[k - 1] \in Nat
                       /\ Item(items[k], len[k])
  <2> TAKE k \in 1..9
  <2>1. k - 1 \in 0..9 /\ k \in 0..9
    OBVIOUS
  <2>2. /\ f[k - 1] \in Strings(at[k - 1]) /\ at[k - 1] \in Nat
        /\ f[k] \in Strings(at[k]) /\ at[k] \in Nat
    BY <1>8, <2>1
  <2>3. Item(items[k], len[k])
    BY <1>1, <1>5
  <2>4. items[k] \in Strings(len[k]) /\ len[k] \in Nat
    BY <2>3 DEF Item
  <2>5. f[k] = f[k - 1] \o items[k]
    BY <1>7
  <2>6. f[k] \in Strings(at[k - 1] + len[k])
    BY <2>2, <2>4, <2>5, Joined
  <2>7. at[k] = at[k - 1] + len[k]
    BY <2>2, <2>6 DEF Strings
  <2> QED
    BY <2>2, <2>3, <2>5, <2>7
<1>11. Layout(f, at, items, len)
  BY <1>6, <1>9, <1>10 DEF Layout
<1>12. \A k \in 1..9 : at[k - 1] = Len(f[k - 1]) /\ len[k] = Len(items[k])
  <2> TAKE k \in 1..9
  <2>1. k - 1 \in 0..9
    OBVIOUS
  <2> QED
    BY <1>4, <1>5, <2>1
<1> QED
  BY <1>3, <1>11, <1>12

\* Nine short items together stay below 2^24 bytes.
LEMMA NineSums ==
  ASSUME NEW at, NEW len, at[0] = 0,
         \A k \in 1..9 : /\ len[k] \in Nat /\ len[k] < 15 * 65536 + 5
                         /\ at[k] = at[k - 1] + len[k]
  PROVE  at[9] \in Nat /\ at[9] < 256 * 65536
<1>0. at[0] = 0
  OBVIOUS
<1>1. at[1] \in Nat /\ at[1] < 15 * 65536 + 5
  <2>1. at[1] = at[0] + len[1] /\ len[1] \in Nat /\ len[1] < 15 * 65536 + 5
    <3>1. 1 \in 1..9 /\ 1 - 1 = 0
      OBVIOUS
    <3> QED
      BY <3>1
  <2> QED
    BY <1>0, <2>1
<1>2. at[2] \in Nat /\ at[2] < 30 * 65536 + 10
  <2>1. at[2] = at[1] + len[2] /\ len[2] \in Nat /\ len[2] < 15 * 65536 + 5
    <3>1. 2 \in 1..9 /\ 2 - 1 = 1
      OBVIOUS
    <3> QED
      BY <3>1
  <2> QED
    BY <1>1, <2>1
<1>3. at[3] \in Nat /\ at[3] < 45 * 65536 + 15
  <2>1. at[3] = at[2] + len[3] /\ len[3] \in Nat /\ len[3] < 15 * 65536 + 5
    <3>1. 3 \in 1..9 /\ 3 - 1 = 2
      OBVIOUS
    <3> QED
      BY <3>1
  <2> QED
    BY <1>2, <2>1
<1>4. at[4] \in Nat /\ at[4] < 60 * 65536 + 20
  <2>1. at[4] = at[3] + len[4] /\ len[4] \in Nat /\ len[4] < 15 * 65536 + 5
    <3>1. 4 \in 1..9 /\ 4 - 1 = 3
      OBVIOUS
    <3> QED
      BY <3>1
  <2> QED
    BY <1>3, <2>1
<1>5. at[5] \in Nat /\ at[5] < 75 * 65536 + 25
  <2>1. at[5] = at[4] + len[5] /\ len[5] \in Nat /\ len[5] < 15 * 65536 + 5
    <3>1. 5 \in 1..9 /\ 5 - 1 = 4
      OBVIOUS
    <3> QED
      BY <3>1
  <2> QED
    BY <1>4, <2>1
<1>6. at[6] \in Nat /\ at[6] < 90 * 65536 + 30
  <2>1. at[6] = at[5] + len[6] /\ len[6] \in Nat /\ len[6] < 15 * 65536 + 5
    <3>1. 6 \in 1..9 /\ 6 - 1 = 5
      OBVIOUS
    <3> QED
      BY <3>1
  <2> QED
    BY <1>5, <2>1
<1>7. at[7] \in Nat /\ at[7] < 105 * 65536 + 35
  <2>1. at[7] = at[6] + len[7] /\ len[7] \in Nat /\ len[7] < 15 * 65536 + 5
    <3>1. 7 \in 1..9 /\ 7 - 1 = 6
      OBVIOUS
    <3> QED
      BY <3>1
  <2> QED
    BY <1>6, <2>1
<1>8. at[8] \in Nat /\ at[8] < 120 * 65536 + 40
  <2>1. at[8] = at[7] + len[8] /\ len[8] \in Nat /\ len[8] < 15 * 65536 + 5
    <3>1. 8 \in 1..9 /\ 8 - 1 = 7
      OBVIOUS
    <3> QED
      BY <3>1
  <2> QED
    BY <1>7, <2>1
<1>9. at[9] \in Nat /\ at[9] < 135 * 65536 + 45
  <2>1. at[9] = at[8] + len[9] /\ len[9] \in Nat /\ len[9] < 15 * 65536 + 5
    <3>1. 9 \in 1..9 /\ 9 - 1 = 8
      OBVIOUS
    <3> QED
      BY <3>1
  <2> QED
    BY <1>8, <2>1
<1> QED
  BY <1>9

\* The whole list: its payload is found after l bytes, the items in it.
LEMMA RawIsRead ==
  ASSUME NEW n, NEW items, NEW b, NEW size, Nine(n, items, b, size)
  PROVE  RlpEncode(items) \in Seq(Byte) /\ Reads(RlpEncode(items), b)
<1>1. PICK f, at, len :
        /\ Layout(f, at, items, len)
        /\ Joins(f, items, 9) /\ FlattenSeq(items) = f[9]
        /\ \A k \in 1..9 : at[k - 1] = Len(f[k - 1]) /\ len[k] = Len(items[k])
  BY LayoutExists
<1>2. \A k \in 1..9 : /\ f[k] = f[k - 1] \o items[k] /\ f[k - 1] \in Strings(at[k - 1])
                      /\ at[k] = at[k - 1] + len[k] /\ at[k] \in Nat /\ at[k - 1] \in Nat
                      /\ Item(items[k], len[k])
  BY <1>1 DEF Layout
<1>3. \A k \in 1..9 : len[k] \in Nat /\ len[k] < 15 * 65536 + 5 /\ items[k] \in Strings(len[k])
  <2> TAKE k \in 1..9
  <2>1. Item(items[k], len[k])
    BY <1>2
  <2> QED
    BY <2>1 DEF Item
<1>4. at[0] = 0 /\ \A k \in 1..9 : at[k - 1] \in Nat /\ at[k] = at[k - 1] + len[k]
  BY <1>1, <1>2 DEF Layout
<1>5. at[9] \in Nat /\ at[9] < 256 * 65536
  <2>1. \A k \in 1..9 : /\ len[k] \in Nat /\ len[k] < 15 * 65536 + 5
                        /\ at[k] = at[k - 1] + len[k]
    BY <1>3, <1>4
  <2> QED
    BY <1>4, <2>1, NineSums
<1> DEFINE p == f[9]  h == EncodeLength(at[9], 192)  raw == h \o p
<1>6. p \in Strings(at[9]) /\ Len(p) = at[9] /\ RlpEncode(items) = raw
  <2>0. 9 \in 1..9 /\ 9 - 1 = 8
    OBVIOUS
  <2>1. f[8] \in Strings(at[8]) /\ at[8] \in Nat /\ f[9] = f[8] \o items[9] /\ at[9] = at[8] + len[9]
    BY <1>2, <2>0
  <2>2. items[9] \in Strings(len[9]) /\ len[9] \in Nat
    BY <1>3
  <2>3. f[9] \in Strings(at[9])
    BY <2>1, <2>2, Joined
  <2>4. Len(f[9]) = at[9]
    BY <2>3 DEF Strings
  <2> QED
    BY <1>1, <2>3, <2>4 DEF RlpEncode
<1>7. Short(at[9]) /\ at[9] \in Nat
  BY <1>5 DEF Short
<1>8. PICK l \in 1..5 : h \in Strings(l)
  BY <1>7, EncodedPrefix
<1>9. l \in Nat /\ raw \in Strings(l + at[9]) /\ raw \in Seq(Byte) /\ Len(raw) = l + at[9]
  <2>0. l \in Nat
    OBVIOUS
  <2>1. raw \in Strings(l + at[9])
    BY <1>6, <1>7, <1>8, <2>0, Joined
  <2>2. l + at[9] \in Nat
    BY <1>7
  <2> HIDE DEF raw
  <2> QED
    BY <2>0, <2>1, <2>2, InString
<1>10. Carries(raw, 0, h) /\ Carries(raw, l, p)
  <2>0. raw = h \o p
    OBVIOUS
  <2> HIDE DEF raw, h, p
  <2>1. Carries(raw, 0, h \o p)
    BY <1>9, <2>0, CarriesItself
  <2>2. 0 + l = l /\ 0 \in Nat /\ l \in Nat
    BY <1>9
  <2>3. Carries(raw, 0, h) /\ Carries(raw, 0 + l, p)
    BY <1>6, <1>7, <1>8, <1>9, <2>1, <2>2, CarriesParts
  <2> QED
    BY <2>2, <2>3
<1> HIDE DEF raw
<1>11. Announces(raw, 0, 192, at[9], l)
  BY <1>7, <1>8, <1>9, <1>10, ExtentOfPrefix DEF h
<1>12. /\ Extent(raw, 1, 192).from = l + 1 /\ Extent(raw, 1, 192).to = l + at[9]
       /\ Extent(raw, 1, 192).canonical
  <2>1. 0 + 1 = 1 /\ 0 + l + 1 = l + 1 /\ 0 + l + at[9] = l + at[9] /\ 192 # 128
    BY <1>7, <1>9
  <2> QED
    BY <1>11, <2>1 DEF Announces
<1>13. \A k \in 1..9 : ReadsAs(raw, l + at[k - 1], len[k], b[k])
  <2>0. \A k \in 1..9 : items[k] \in Seq(Byte)
    <3> TAKE k \in 1..9
    <3>1. len[k] \in Nat /\ items[k] \in Strings(len[k])
      BY <1>3
    <3> QED
      BY <3>1, InString
  <2>1. \A k \in 1..9 : Carries(raw, l + Len(f[k - 1]), items[k])
    <3>1. 9 \in Nat
      OBVIOUS
    <3> QED
      BY <1>1, <1>9, <1>10, <2>0, <3>1, ItemsInside
  <2> TAKE k \in 1..9
  <2>2. Carries(raw, l + at[k - 1], items[k])
    BY <1>1, <2>1
  <2>3. Short(size[k]) /\ b[k] \in Strings(size[k]) /\ items[k] = EncodeBytes(b[k])
    BY DEF Nine, Short
  <2>4. l + at[k - 1] \in Nat /\ len[k] \in Nat /\ items[k] \in Strings(len[k])
    <3>1. at[k - 1] \in Nat /\ l \in Nat
      BY <1>4, <1>9
    <3>2. len[k] \in Nat /\ items[k] \in Strings(len[k])
      BY <1>3
    <3> QED
      BY <3>1, <3>2
  <2> QED
    BY <1>9, <2>2, <2>3, <2>4, ItemIsRead
<1> DEFINE end == [k \in 0..9 |-> l + at[k]]
<1>14. \A k \in 0..9 : end[k] = l + at[k]
  OBVIOUS
<1> HIDE DEF end
<1>15. Consecutive(raw, end, len, b)
  <2>1. end[0] = l /\ l \in Nat
    <3>1. end[0] = l + at[0] /\ at[0] = 0
      BY <1>4, <1>14
    <3> QED
      BY <1>9, <3>1
  <2>2. \A k \in 1..9 : /\ ReadsAs(raw, end[k - 1], len[k], b[k])
                        /\ end[k - 1] \in Nat /\ end[k] = end[k - 1] + len[k]
    <3> TAKE k \in 1..9
    <3>1. k - 1 \in 0..9 /\ k \in 0..9
      OBVIOUS
    <3>2. end[k - 1] = l + at[k - 1] /\ end[k] = l + at[k]
      BY <1>14, <3>1
    <3>3. at[k - 1] \in Nat /\ len[k] \in Nat /\ at[k] = at[k - 1] + len[k]
      BY <1>3, <1>4
    <3>4. end[k - 1] \in Nat /\ end[k] = end[k - 1] + len[k]
      BY <1>9, <3>2, <3>3
    <3>5. ReadsAs(raw, end[k - 1], len[k], b[k])
      BY <1>13, <3>2
    <3> QED
      BY <3>4, <3>5
  <2> QED
    BY <1>12, <2>1, <2>2 DEF Consecutive
<1>16. end[9] = Len(raw) /\ \A k \in 1..9 : FieldReads(raw, k, end[k], b[k])
  <2>1. end[9] = l + at[9]
    BY <1>14
  <2> QED
    BY <1>9, <1>15, <2>1, FieldsAreRead
<1>17. Reads(raw, b)
  BY <1>9, <1>12, <1>16 DEF Reads
<1> QED
  BY <1>6, <1>9, <1>17

(***************************************************************************)
(* A signed transaction.                                                   *)
(***************************************************************************)
\* Stripping the zeros in front of a string leaves none to strip.
LEMMA StripsOnce ==
  ASSUME NEW n \in Nat, NEW b \in Strings(n)
  PROVE  /\ \E l \in Nat : l <= n /\ StripLeadingZeros(b) \in Strings(l)
         /\ StripLeadingZeros(StripLeadingZeros(b)) = StripLeadingZeros(b)
         /\ StripLeadingZeros(b) # <<>> => StripLeadingZeros(b)[1] # 0
<1> DEFINE s == StripLeadingZeros(b)  t == StripLeadingZeros(s)
<1>1. PICK k \in Nat, l \in Nat : k + l = n /\ StripsTo(b, s, k, l)
  BY Stripped
<1>2. s \in Strings(l) /\ (l # 0 => s[1] # 0)
  BY <1>1 DEF StripsTo
<1>3. PICK k2 \in Nat, l2 \in Nat : k2 + l2 = l /\ StripsTo(s, t, k2, l2)
  <2> HIDE DEF s
  <2> QED
    BY <1>2, Stripped
<1> HIDE DEF t, s
<1>4. /\ t \in Strings(l2) /\ \A i \in 1..k2 : s[i] = 0
      /\ \A i \in 1..l2 : t[i] = s[k2 + i]
  BY <1>3 DEF StripsTo
<1>5. k2 = 0
  <2> SUFFICES ASSUME k2 # 0 PROVE FALSE
    OBVIOUS
  <2>1. 1 \in 1..k2 /\ l # 0
    BY <1>3
  <2> QED
    BY <1>2, <1>4, <2>1
<1>6. l2 = l
  BY <1>3, <1>5
<1>7. t = s
  <2>1. t \in Seq(Byte) /\ Len(t) = l /\ s \in Seq(Byte) /\ Len(s) = l
    BY <1>2, <1>4, <1>6 DEF Strings
  <2>2. \A i \in 1..l : t[i] = s[i]
    BY <1>4, <1>5, <1>6
  <2> QED
    BY <2>1, <2>2, SeqEqual
<1>8. s # <<>> => s[1] # 0
  <2>1. l = 0 => s = <<>>
    BY <1>2 DEF Strings
  <2> QED
    BY <1>2, <2>1
<1>9. l \in Nat /\ l <= n
  BY <1>1
<1> QED
  BY <1>2, <1>7, <1>8, <1>9 DEF s, t

\* Stripping never makes a string longer.
LEMMA StrippedLength ==
  ASSUME NEW n \in Nat, NEW b \in Strings(n)
  PROVE  \E l \in Nat : l <= n /\ StripLeadingZeros(b) \in Strings(l)
BY StripsOnce

\* What is stripped is empty or begins with another byte than zero.
LEMMA StrippedFirst ==
  ASSUME NEW n \in Nat, NEW b \in Strings(n)
  PROVE  StripLeadingZeros(b) # <<>> => StripLeadingZeros(b)[1] # 0
BY StripsOnce

\* The number zero is stripped to the empty string.
LEMMA ZeroIsEmpty == StripLeadingZeros(<<0>>) = <<>> /\ <<0>> \in Strings(1)
<1> DEFINE z == <<0>>
<1>1. z \in Strings(1)
  BY OneByte, ByteIsNumber
<1>2. z[1] = 0
  OBVIOUS
<1> HIDE DEF z
<1>3. PICK k \in Nat, l \in Nat : k + l = 1 /\ StripsTo(z, StripLeadingZeros(z), k, l)
  BY <1>1, Stripped
<1>4. /\ StripLeadingZeros(z) \in Strings(l) /\ (l # 0 => StripLeadingZeros(z)[1] # 0)
      /\ \A i \in 1..l : StripLeadingZeros(z)[i] = z[k + i]
  BY <1>3 DEF StripsTo
<1>5. l = 0
  <2> SUFFICES ASSUME l # 0 PROVE FALSE
    OBVIOUS
  <2>1. l = 1 /\ k = 0
    BY <1>3
  <2> QED
    BY <1>2, <1>4, <2>1
<1>6. StripLeadingZeros(z) = <<>>
  BY <1>4, <1>5 DEF Strings
<1> QED
  BY <1>1, <1>6 DEF z

\* The entries of six and three items put together.
LEMMA SixAndThree ==
  ASSUME NEW a1, NEW a2, NEW a3, NEW a4, NEW a5, NEW a6, NEW a7, NEW a8, NEW a9
  PROVE  LET t == <<a1, a2, a3, a4, a5, a6>> \o <<a7, a8, a9>>
         IN  /\ \E n : n = 9 /\ Len(t) = n
             /\ t[1] = a1 /\ t[2] = a2 /\ t[3] = a3 /\ t[4] = a4 /\ t[5] = a5
             /\ t[6] = a6 /\ t[7] = a7 /\ t[8] = a8 /\ t[9] = a9
OBVIOUS

\* The v of EIP-155 and the chain id fit into four bytes.
LEMMA NumbersAreSmall ==
  ASSUME NEW rec \in {0, 1}
  PROVE  /\ V(rec) \in Nat /\ V(rec) < 32768 * 65536 /\ V(rec) \in {V(0), V(1)}
         /\ ChainId \in Nat /\ ChainId < 32768 * 65536
<1>1. ChainId \in Nat /\ ChainId <= 10000
  BY ONLY ChainAssumption
<1>2. V(rec) \in {V(0), V(1)}
  OBVIOUS
<1>3. V(rec) \in Nat /\ V(rec) < 32768 * 65536
  BY <1>1 DEF V
<1> QED
  BY <1>1, <1>2, <1>3

\* The numbers of an envelope have the widths the code gives them.
LEMMA EnvelopeTypes ==
  ASSUME NEW env \in Envelopes
  PROVE  /\ env.nonce \in Strings(8) /\ env.price \in Strings(8) /\ env.limit \in Strings(8)
         /\ env.r \in Strings(32) /\ env.s \in Strings(32) /\ env.rec \in {0, 1}
<1>1. /\ \A n \in {env.nonce, env.price, env.limit} : n \in Seq(Byte) /\ Len(n) = 8
      /\ \A n \in {env.r, env.s} : n \in Seq(Byte) /\ Len(n) = 32
      /\ env.rec \in {0, 1}
  BY EnvelopeAssumption, Zenon
<1>2. \A n, w : n \in Seq(Byte) /\ Len(n) = w => n \in Strings(w)
  BY DEF Strings
<1> QED
  BY <1>1, <1>2, Zenon

\* The contents of the nine fields of a signed transaction.
Contents(env, to, data) ==
  <<StripLeadingZeros(env.nonce), StripLeadingZeros(env.price), StripLeadingZeros(env.limit),
    to, <<>>, data, StripLeadingZeros(BytesOf(V(env.rec))),
    StripLeadingZeros(env.r), StripLeadingZeros(env.s)>>

\* The node reads of a signed transaction the nine contents that were encoded.
LEMMA SignedIsRead ==
  ASSUME NEW env \in Envelopes, NEW to \in Strings(20),
         NEW m \in Nat, m < 15 * 65536, NEW data \in Strings(m)
  PROVE  Reads(SignTransaction(env, to, data).raw, Contents(env, to, data))
<1> DEFINE b == Contents(env, to, data)
           items == Head6(env.nonce, env.price, env.limit, to, data)
                      \o <<EncodeNumber(BytesOf(V(env.rec))),
                           EncodeNumber(env.r), EncodeNumber(env.s)>>
<1>1. SignTransaction(env, to, data).raw = RlpEncode(items)
  BY DEF SignTransaction
<1>2. /\ env.nonce \in Strings(8) /\ env.price \in Strings(8) /\ env.limit \in Strings(8)
      /\ env.r \in Strings(32) /\ env.s \in Strings(32)
      /\ BytesOf(V(env.rec)) \in Strings(4)
  BY EnvelopeTypes, NumbersAreSmall, BytesOfNumber
<1>3. PICK l1 \in Nat : l1 <= 8 /\ StripLeadingZeros(env.nonce) \in Strings(l1)
  BY <1>2, StrippedLength
<1>4. PICK l2 \in Nat : l2 <= 8 /\ StripLeadingZeros(env.price) \in Strings(l2)
  BY <1>2, StrippedLength
<1>5. PICK l3 \in Nat : l3 <= 8 /\ StripLeadingZeros(env.limit) \in Strings(l3)
  BY <1>2, StrippedLength
<1>6. PICK l7 \in Nat : l7 <= 4 /\ StripLeadingZeros(BytesOf(V(env.rec))) \in Strings(l7)
  BY <1>2, StrippedLength
<1>7. PICK l8 \in Nat : l8 <= 32 /\ StripLeadingZeros(env.r) \in Strings(l8)
  BY <1>2, StrippedLength
<1>8. PICK l9 \in Nat : l9 <= 32 /\ StripLeadingZeros(env.s) \in Strings(l9)
  BY <1>2, StrippedLength
<1>9. <<>> \in Strings(0)
  BY DEF Strings
<1> DEFINE size == <<l1, l2, l3, 20, 0, m, l7, l8, l9>>
<1>10. PICK n : /\ n = 9 /\ Len(items) = n
                /\ items[1] = EncodeNumber(env.nonce) /\ items[2] = EncodeNumber(env.price)
                /\ items[3] = EncodeNumber(env.limit) /\ items[4] = EncodeBytes(to)
                /\ items[5] = EncodeNumber(<<0>>) /\ items[6] = EncodeBytes(data)
                /\ items[7] = EncodeNumber(BytesOf(V(env.rec)))
                /\ items[8] = EncodeNumber(env.r) /\ items[9] = EncodeNumber(env.s)
  BY SixAndThree DEF Head6
<1> HIDE DEF items
<1>11. /\ items[1] = EncodeBytes(b[1]) /\ items[2] = EncodeBytes(b[2])
       /\ items[3] = EncodeBytes(b[3]) /\ items[4] = EncodeBytes(b[4])
       /\ items[5] = EncodeBytes(b[5]) /\ items[6] = EncodeBytes(b[6])
       /\ items[7] = EncodeBytes(b[7]) /\ items[8] = EncodeBytes(b[8])
       /\ items[9] = EncodeBytes(b[9])
  BY <1>10, ZeroIsEmpty DEF Contents, EncodeNumber
<1>12. /\ b[1] \in Strings(size[1]) /\ b[2] \in Strings(size[2]) /\ b[3] \in Strings(size[3])
       /\ b[4] \in Strings(size[4]) /\ b[5] \in Strings(size[5]) /\ b[6] \in Strings(size[6])
       /\ b[7] \in Strings(size[7]) /\ b[8] \in Strings(size[8]) /\ b[9] \in Strings(size[9])
  BY <1>3, <1>4, <1>5, <1>6, <1>7, <1>8, <1>9 DEF Contents
<1>13. \A k \in 1..9 : size[k] \in Nat /\ size[k] < 15 * 65536
  <2> TAKE k \in 1..9
  <2>1. size[k] = m \/ (size[k] \in Nat /\ size[k] <= 32)
    BY <1>3, <1>4, <1>5, <1>6, <1>7, <1>8
  <2> HIDE DEF size
  <2> QED
    BY <2>1
<1> HIDE DEF b, size
<1>14. Nine(n, items, b, size)
  <2>1. \A k \in 1..9 : b[k] \in Strings(size[k]) /\ items[k] = EncodeBytes(b[k])
    <3> TAKE k \in 1..9
    <3>1. \/ k = 1 \/ k = 2 \/ k = 3 \/ k = 4 \/ k = 5
          \/ k = 6 \/ k = 7 \/ k = 8 \/ k = 9
      OBVIOUS
    <3> QED
      BY <1>11, <1>12, <3>1
  <2> QED
    BY <1>10, <1>13, <2>1 DEF Nine
<1> QED
  BY <1>1, <1>14, RawIsRead DEF b

\* From what the node reads it computes the payload that was signed.
LEMMA PayloadIsRebuilt ==
  ASSUME NEW env \in Envelopes, NEW to, NEW data
  PROVE  SignTransaction(env, to, data).signs =
           SigningPayload(StripLeadingZeros(env.nonce), StripLeadingZeros(env.price),
                          StripLeadingZeros(env.limit), to, data)
<1>1. /\ env.nonce \in Strings(8) /\ env.price \in Strings(8) /\ env.limit \in Strings(8)
  BY EnvelopeTypes
<1>2. /\ EncodeNumber(env.nonce) = EncodeNumber(StripLeadingZeros(env.nonce))
      /\ EncodeNumber(env.price) = EncodeNumber(StripLeadingZeros(env.price))
      /\ EncodeNumber(env.limit) = EncodeNumber(StripLeadingZeros(env.limit))
  BY <1>1, StripsOnce DEF EncodeNumber
<1>3. Head6(env.nonce, env.price, env.limit, to, data) =
      Head6(StripLeadingZeros(env.nonce), StripLeadingZeros(env.price),
            StripLeadingZeros(env.limit), to, data)
  BY <1>2 DEF Head6
<1> QED
  BY <1>3 DEF SignTransaction, SigningPayload

\* Every transaction that sign_transaction() makes is executed by the node as the
\* call it was made of: all numbers are canonical, the recovered signer is the
\* wallet, and receiver and data arrive byte for byte, for every nonce, gas price,
\* limit and signature, and for data below 15 * 2^16 bytes.
THEOREM NodeExecutes ==
  ASSUME NEW env \in Envelopes, NEW to \in Strings(20),
         NEW m \in Nat, m < 15 * 65536, NEW data \in Strings(m)
  PROVE  Executed(SignTransaction(env, to, data)) = [to |-> to, data |-> data]
<1> DEFINE tx == SignTransaction(env, to, data)
           raw == tx.raw
           b == Contents(env, to, data)
<1>1. Reads(raw, b)
  BY SignedIsRead
<1>2. tx.signs = SigningPayload(b[1], b[2], b[3], b[4], b[6])
  BY PayloadIsRebuilt DEF Contents
<1>3. BigEndian(b[7]) = V(env.rec) /\ V(env.rec) \in {V(0), V(1)}
  BY EnvelopeTypes, NumbersAreSmall, StrippedNumber DEF Contents
<1>4. b[4] = to /\ b[6] = data
  BY DEF Contents
<1>5. \A k \in {1, 2, 3, 5, 7, 8, 9} : b[k] # <<>> => b[k][1] # 0
  <2>1. /\ b[1] = StripLeadingZeros(env.nonce) /\ b[2] = StripLeadingZeros(env.price)
        /\ b[3] = StripLeadingZeros(env.limit) /\ b[5] = <<>>
        /\ b[7] = StripLeadingZeros(BytesOf(V(env.rec)))
        /\ b[8] = StripLeadingZeros(env.r) /\ b[9] = StripLeadingZeros(env.s)
    BY DEF Contents
  <2>2. BytesOf(V(env.rec)) \in Strings(4)
    BY EnvelopeTypes, NumbersAreSmall, BytesOfNumber
  <2> HIDE DEF b
  <2>3. /\ env.nonce \in Strings(8) /\ env.price \in Strings(8) /\ env.limit \in Strings(8)
        /\ env.r \in Strings(32) /\ env.s \in Strings(32)
    BY EnvelopeTypes
  <2>4. b[1] # <<>> => b[1][1] # 0
    BY <2>1, <2>2, <2>3, StrippedFirst
  <2>5. b[2] # <<>> => b[2][1] # 0
    BY <2>1, <2>2, <2>3, StrippedFirst
  <2>6. b[3] # <<>> => b[3][1] # 0
    BY <2>1, <2>2, <2>3, StrippedFirst
  <2>7. b[7] # <<>> => b[7][1] # 0
    BY <2>1, <2>2, <2>3, StrippedFirst
  <2>8. b[8] # <<>> => b[8][1] # 0
    BY <2>1, <2>2, <2>3, StrippedFirst
  <2>9. b[9] # <<>> => b[9][1] # 0
    BY <2>1, <2>2, <2>3, StrippedFirst
  <2> QED
    BY <2>1, <2>4, <2>5, <2>6, <2>7, <2>8, <2>9
<1> HIDE DEF b, raw
<1>6. PICK at : at[9] = Len(raw) /\ \A k \in 1..9 : FieldReads(raw, k, at[k], b[k])
  BY <1>1 DEF Reads
<1>7. \A k \in 1..9 : /\ Fields(raw)[k].canonical /\ Fields(raw)[k].to = at[k]
                      /\ Field(raw, k) = b[k]
                      /\ Fields(raw)[k].from <= Fields(raw)[k].to =>
                           raw[Fields(raw)[k].from] = b[k][1] /\ b[k] # <<>>
  <2> TAKE k \in 1..9
  <2>1. FieldReads(raw, k, at[k], b[k])
    BY <1>6
  <2> QED
    BY <2>1 DEF FieldReads
<1>8. WellFormed(raw)
  <2>1. Extent(raw, 1, 192).canonical /\ Extent(raw, 1, 192).to = Len(raw)
    BY <1>1 DEF Reads
  <2>2. \A k \in {1, 2, 3, 5, 7, 8, 9} :
          Fields(raw)[k].from <= Fields(raw)[k].to => raw[Fields(raw)[k].from] # 0
    BY <1>5, <1>7
  <2> QED
    BY <1>6, <1>7, <2>1, <2>2 DEF WellFormed
<1>9. /\ Field(raw, 1) = b[1] /\ Field(raw, 2) = b[2] /\ Field(raw, 3) = b[3]
      /\ Field(raw, 4) = b[4] /\ Field(raw, 6) = b[6] /\ Field(raw, 7) = b[7]
  BY <1>7
<1> QED
  BY <1>2, <1>3, <1>4, <1>8, <1>9 DEF Executed, raw

(***************************************************************************)
(* Calls of contracts.                                                     *)
(***************************************************************************)
\* n zeros are a string of length n, of zeros.
LEMMA ZerosOf ==
  ASSUME NEW n \in Nat
  PROVE  Zeros(n) \in Strings(n) /\ \A i \in 1..n : Zeros(n)[i] = 0
BY ByteIsNumber DEF Zeros, Strings

\* A number below 2^31 makes a word, which is read as that number.
LEMMA WordOf ==
  ASSUME NEW n \in Nat, n < 32768 * 65536
  PROVE  Word(n) \in Strings(32)
<1>1. Zeros(28) \in Strings(28) /\ BytesOf(n) \in Strings(4)
  BY ZerosOf, BytesOfNumber
<1>2. Zeros(28) \o BytesOf(n) \in Strings(28 + 4)
  BY <1>1, Joined
<1> QED
  BY <1>2 DEF Word

\* A word is read as the number it was made of.
LEMMA WordIsRead ==
  ASSUME NEW n \in Nat, n < 32768 * 65536,
         NEW d \in Seq(Byte), NEW at \in Nat, Carries(d, at, Word(n))
  PROVE  NumberAt(d, at) = n
<1>1. Zeros(28) \in Strings(28) /\ BytesOf(n) \in Strings(4)
  BY ZerosOf, BytesOfNumber
<1>2. Carries(d, at + 28, BytesOf(n))
  BY <1>1, CarriesParts DEF Word
<1> DEFINE p == at + 28  b == BytesOf(n)  w == 4  q == SubSeq(d, at + 29, at + 32)
<1>3. p \in Nat /\ p + 1 = at + 29 /\ p + w = at + 32 /\ w \in Nat
  OBVIOUS
<1>4. Carries(d, p, b) /\ b \in Strings(w)
  BY <1>1, <1>2
<1>5. BigEndian(b) = n
  BY NumberOfBytes
<1>6. NumberAt(d, at) = BigEndian(q)
  BY DEF NumberAt
<1> HIDE DEF p, b, w, q
<1>7. SubSeq(d, p + 1, p + w) = b
  BY <1>3, <1>4, CutOut
<1>8. q = b
  BY <1>3, <1>7 DEF q
<1> QED
  BY <1>5, <1>6, <1>8

\* Padding adds at most 31 zeros.
LEMMA PaddedOf ==
  ASSUME NEW n \in Nat, NEW b \in Strings(n)
  PROVE  /\ Pad(n) \in Nat /\ n <= Pad(n) /\ Pad(n) <= n + 31 /\ Pad(n) - n \in Nat
         /\ Padded(b) \in Strings(Pad(n)) /\ Padded(b) = b \o Zeros(Pad(n) - n)
<1>1. Pad(n) \in Nat /\ n <= Pad(n) /\ Pad(n) <= n + 31
  BY DEF Pad
<1>2. Pad(n) - n \in Nat /\ n + (Pad(n) - n) = Pad(n)
  BY <1>1
<1>3. Padded(b) = b \o Zeros(Pad(n) - n)
  BY DEF Padded, Strings
<1>4. Zeros(Pad(n) - n) \in Strings(Pad(n) - n)
  BY <1>2, ZerosOf
<1>5. b \o Zeros(Pad(n) - n) \in Strings(n + (Pad(n) - n))
  BY <1>2, <1>4, Joined
<1> QED
  BY <1>1, <1>2, <1>3, <1>5

\* Where a padded string stands, the string stands.
LEMMA PaddedCarries ==
  ASSUME NEW n \in Nat, NEW b \in Strings(n),
         NEW d \in Seq(Byte), NEW at \in Nat, Carries(d, at, Padded(b))
  PROVE  Carries(d, at, b)
<1>1. Padded(b) = b \o Zeros(Pad(n) - n) /\ Pad(n) - n \in Nat
  BY PaddedOf
<1> DEFINE z == Pad(n) - n
<1>2. z \in Nat /\ Zeros(z) \in Strings(z)
  BY <1>1, ZerosOf
<1> HIDE DEF z
<1>3. Carries(d, at, b \o Zeros(z))
  BY <1>1 DEF z
<1> QED
  BY <1>2, <1>3, CarriesParts

\* What follows the selector is found among the arguments.
LEMMA ArgumentsCarry ==
  ASSUME NEW d \in Seq(Byte), NEW n \in Nat, NEW x \in Strings(n), NEW at \in Nat,
         Carries(d, 4 + at, x)
  PROVE  Arguments(d) \in Seq(Byte) /\ Carries(Arguments(d), at, x)
<1> DEFINE a == Arguments(d)
<1>1. Len(x) = n /\ Len(d) \in Nat
  BY LenProperties DEF Strings
<1>2. 4 + at + n <= Len(d) /\ \A i \in 1..n : d[4 + at + i] = x[i]
  BY <1>1 DEF Carries
<1>3. a = SubSeq(d, 5, Len(d))
  BY DEF Arguments
<1>4. a \in Seq(Byte) /\ Len(a) = Len(d) - 4 /\ \A i \in 1..Len(d) - 4 : a[i] = d[4 + i]
  <2> DEFINE five == 5
  <2>1. five \in Int /\ Len(d) \in Int /\ \A i \in five..Len(d) : d[i] \in Byte
    BY <1>1, ElementOfSeq
  <2>2. Len(d) - five + 1 = Len(d) - 4 /\ five <= Len(d) + 1
        /\ \A i \in 1..Len(d) - 4 : five + i - 1 = 4 + i
    BY <1>1, <1>2
  <2>3. a = SubSeq(d, five, Len(d))
    BY <1>3
  <2> HIDE DEF five, a
  <2> QED
    <3>1. /\ a \in Seq(Byte) /\ Len(a) = IF five <= Len(d) THEN Len(d) - five + 1 ELSE 0
          /\ \A i \in 1..Len(d) - five + 1 : a[i] = d[five + i - 1]
      BY <2>1, <2>3, SubSeqProperties
    <3>2. Len(a) = Len(d) - five + 1
      BY <2>1, <2>2, <3>1
    <3> QED
      BY <2>2, <3>1, <3>2
<1> HIDE DEF a
<1>5. at + n <= Len(a)
  BY <1>1, <1>2, <1>4
<1>6. \A i \in 1..n : a[at + i] = x[i]
  <2> TAKE i \in 1..n
  <2>1. at + i \in 1..Len(d) - 4 /\ 4 + (at + i) = 4 + at + i
    BY <1>1, <1>2
  <2> QED
    BY <1>2, <1>4, <2>1
<1>7. Carries(a, at, x)
  BY <1>1, <1>5, <1>6 DEF Carries
<1> QED
  BY <1>4, <1>7 DEF a

\* A word behind the selector is read as its number among the arguments.
LEMMA ArgumentNumber ==
  ASSUME NEW n \in Nat, n < 32768 * 65536, NEW d \in Seq(Byte), NEW at \in Nat,
         Carries(d, 4 + at, Word(n))
  PROVE  NumberAt(Arguments(d), at) = n
<1>1. Word(n) \in Strings(32) /\ 32 \in Nat
  BY WordOf
<1>2. Arguments(d) \in Seq(Byte) /\ Carries(Arguments(d), at, Word(n))
  BY <1>1, ArgumentsCarry
<1> QED
  BY <1>2, WordIsRead

\* A dynamic argument is cut out where its offset points.
LEMMA AbiBytesRead ==
  ASSUME NEW args \in Seq(Byte), NEW k \in Nat, NEW at \in Nat, NEW n \in Nat, NEW b \in Strings(n),
         NumberAt(args, 32 * (k - 1)) = at, NumberAt(args, at) = n, Carries(args, at + 32, b)
  PROVE  AbiBytes(args, k) = b
<1>1. SubSeq(args, at + 32 + 1, at + 32 + n) = b
  <2>1. at + 32 \in Nat
    OBVIOUS
  <2> QED
    BY <2>1, CutOut
<1>2. at + 32 + 1 = at + 33
  OBVIOUS
<1> QED
  BY <1>1, <1>2 DEF AbiBytes

\* receiveMessage: both byte strings are read as they were written.
LEMMA CalldataIsRead ==
  ASSUME NEW k \in Nat, k < 65536, NEW m \in Strings(k), NEW l \in Nat, l < 65536, NEW a \in Strings(l)
  PROVE  LET d == Calldata(m, a)
         IN  /\ \E n \in Nat : n < 15 * 65536 /\ d \in Strings(n)
             /\ SubSeq(d, 1, 4) = ReceiveMessage
             /\ AbiBytes(Arguments(d), 1) = m /\ AbiBytes(Arguments(d), 2) = a
<1>0. k = Len(m) /\ l = Len(a)
  BY InString
<1>001. Pad(k) \in Nat /\ Pad(k) < 65536 + 31 /\ Padded(m) \in Strings(Pad(k))
  BY PaddedOf
<1>002. Pad(l) \in Nat /\ Pad(l) < 65536 + 31 /\ Padded(a) \in Strings(Pad(l))
  BY PaddedOf
<1> DEFINE p == Pad(k)  r == Pad(l)
           d1 == ReceiveMessage \o Word(64)
           d2 == d1 \o Word(96 + p)
           d3 == d2 \o Word(k)
           d4 == d3 \o Padded(m)
           d5 == d4 \o Word(l)
           d  == d5 \o Padded(a)
           args == Arguments(d)
<1>1. Calldata(m, a) = d
  BY <1>0 DEF Calldata
<1>2. p \in Nat /\ p < 65536 + 31 /\ Padded(m) \in Strings(p)
  BY <1>001
<1>3. r \in Nat /\ r < 65536 + 31 /\ Padded(a) \in Strings(r)
  BY <1>002
<1>4. /\ Word(64) \in Strings(32) /\ Word(96 + p) \in Strings(32)
      /\ Word(k) \in Strings(32) /\ Word(l) \in Strings(32)
  BY <1>2, WordOf
<1>5. ReceiveMessage \in Strings(4)
  BY ByteIsNumber, FourBytes DEF ReceiveMessage
<1> HIDE DEF p, r, d1, d2, d3, d4, d5, d
<1>6. d1 \in Strings(36)
  <2>1. d1 \in Strings(4 + 32)
    BY <1>4, <1>5, Joined DEF d1
  <2> QED
    BY <2>1
<1>7. d2 \in Strings(68)
  <2>1. d2 \in Strings(36 + 32)
    BY <1>4, <1>6, Joined DEF d2
  <2> QED
    BY <2>1
<1>8. d3 \in Strings(100)
  <2>1. d3 \in Strings(68 + 32)
    BY <1>4, <1>7, Joined DEF d3
  <2> QED
    BY <2>1
<1>9. d4 \in Strings(100 + p)
  BY <1>2, <1>8, Joined DEF d4
<1>10. d5 \in Strings(132 + p)
  <2>1. d5 \in Strings((100 + p) + 32)
    <3> DEFINE e == 100 + p
    <3>1. e \in Nat /\ d4 \in Strings(e)
      BY <1>2, <1>9
    <3> HIDE DEF e
    <3>2. d4 \o Word(l) \in Strings(e + 32)
      BY <1>4, <3>1, Joined
    <3> QED
      BY <3>2 DEF d5, e
  <2>2. (100 + p) + 32 = 132 + p
    BY <1>2
  <2> QED
    BY <2>1, <2>2
<1>11. d \in Strings(132 + p + r)
  <2>1. 132 + p \in Nat
    BY <1>2
  <2> QED
    BY <1>3, <1>10, <2>1, Joined DEF d
<1>12. 132 + p + r \in Nat /\ 132 + p + r < 15 * 65536
  BY <1>2, <1>3
<1> DEFINE o == 132 + p
           n == 132 + p + r
<1>13. o \in Nat /\ n \in Nat /\ d \in Seq(Byte) /\ d5 \in Strings(o)
  <2>1. o \in Nat /\ n \in Nat
    BY <1>2, <1>3
  <2> HIDE DEF o, n
  <2> QED
    BY <1>10, <1>11, <2>1 DEF Strings, o, n
<1> HIDE DEF o
<1>14. Carries(d, 0, d5) /\ Carries(d, o, Padded(a))
  <2> DEFINE z == Padded(a)
  <2>0. d \in Seq(Byte) /\ z \in Strings(r) /\ d5 \in Strings(o) /\ o \in Nat /\ r \in Nat
    BY <1>3, <1>13
  <2> HIDE DEF z
  <2>1. Carries(d, 0, d5 \o z)
    <3>0. d = d5 \o z
      BY DEF d, z
    <3>1. Carries(d, 0, d)
      BY <2>0, CarriesItself
    <3> QED
      BY <3>0, <3>1
  <2>2. 0 + o = o /\ 0 \in Nat
    BY <1>13
  <2>3. Carries(d, 0 + o, z) /\ Carries(d, 0, d5)
    BY <2>0, <2>1, <2>2, CarriesParts
  <2> USE DEF z
  <2> QED
    BY <2>2, <2>3
<1>15. Carries(d, 0, d4) /\ Carries(d, 100 + p, Word(l))
  <2> DEFINE e == 100 + p
  <2>1. e \in Nat /\ d4 \in Strings(e) /\ 0 + e = e
    BY <1>2, <1>9
  <2>2. d5 = d4 \o Word(l)
    BY DEF d5
  <2> HIDE DEF e
  <2>3. Carries(d, 0, d4) /\ Carries(d, 0 + e, Word(l))
    BY <1>4, <1>13, <1>14, <2>1, <2>2, CarriesParts
  <2> QED
    BY <2>1, <2>3 DEF e
<1>16. Carries(d, 0, d3) /\ Carries(d, 100, Padded(m))
  <2>1. d4 = d3 \o Padded(m)
    BY DEF d4
  <2>2. Carries(d, 0, d3) /\ Carries(d, 0 + 100, Padded(m))
    BY <1>2, <1>8, <1>13, <1>15, <2>1, CarriesParts
  <2> QED
    BY <2>2
<1>17. Carries(d, 0, d2) /\ Carries(d, 68, Word(k))
  <2>1. d3 = d2 \o Word(k)
    BY DEF d3
  <2>2. Carries(d, 0, d2) /\ Carries(d, 0 + 68, Word(k))
    BY <1>4, <1>7, <1>13, <1>16, <2>1, CarriesParts
  <2> QED
    BY <2>2
<1>18. Carries(d, 0, d1) /\ Carries(d, 36, Word(96 + p))
  <2>1. d2 = d1 \o Word(96 + p)
    BY DEF d2
  <2>2. Carries(d, 0, d1) /\ Carries(d, 0 + 36, Word(96 + p))
    BY <1>4, <1>6, <1>13, <1>17, <2>1, CarriesParts
  <2> QED
    BY <2>2
<1>19. Carries(d, 0, ReceiveMessage) /\ Carries(d, 4, Word(64))
  <2>1. d1 = ReceiveMessage \o Word(64)
    BY DEF d1
  <2>2. Carries(d, 0, ReceiveMessage) /\ Carries(d, 0 + 4, Word(64))
    BY <1>4, <1>5, <1>13, <1>18, <2>1, CarriesParts
  <2> QED
    BY <2>2
<1>20. SubSeq(d, 1, 4) = ReceiveMessage
  <2> DEFINE w == 4  one == 0 + 1  four == 0 + w
  <2>1. SubSeq(d, one, four) = ReceiveMessage
    <3>1. w \in Nat /\ ReceiveMessage \in Strings(w)
      BY <1>5
    <3> HIDE DEF w
    <3> QED
      BY <1>13, <1>19, <3>1, CutOut
  <2>2. one = 1 /\ four = 4
    OBVIOUS
  <2> HIDE DEF one, four
  <2> QED
    BY <2>1, <2>2
<1>21. Carries(d, 100, m) /\ Carries(d, o, a)
  BY <1>13, <1>14, <1>16, PaddedCarries
<1>22. /\ NumberAt(args, 0) = 64 /\ NumberAt(args, 32) = 96 + p
       /\ NumberAt(args, 64) = k /\ NumberAt(args, 96 + p) = l
  <2>1. Carries(d, 4 + 0, Word(64)) /\ Carries(d, 4 + 32, Word(96 + p)) /\ Carries(d, 4 + 64, Word(k))
    BY <1>17, <1>18, <1>19
  <2>2. 4 + (96 + p) = 100 + p /\ 96 + p \in Nat /\ 96 + p < 32768 * 65536
    BY <1>2
  <2>3. Carries(d, 4 + (96 + p), Word(l))
    BY <1>15, <2>2
  <2>4. NumberAt(args, 0) = 64
    BY <1>13, <2>1, ArgumentNumber
  <2>5. NumberAt(args, 32) = 96 + p
    BY <1>13, <2>1, <2>2, ArgumentNumber
  <2>6. NumberAt(args, 64) = k
    BY <1>13, <2>1, ArgumentNumber
  <2>7. NumberAt(args, 96 + p) = l
    BY <1>13, <2>2, <2>3, ArgumentNumber
  <2> QED
    BY <2>4, <2>5, <2>6, <2>7
<1>23. args \in Seq(Byte) /\ Carries(args, 64 + 32, m) /\ Carries(args, (96 + p) + 32, a)
  <2>1. Carries(d, 4 + (64 + 32), m)
    BY <1>21
  <2>2. 4 + ((96 + p) + 32) = o /\ (96 + p) + 32 \in Nat
    BY <1>2 DEF o
  <2>3. Carries(d, 4 + ((96 + p) + 32), a)
    BY <1>21, <2>2
  <2>4. args \in Seq(Byte) /\ Carries(args, 64 + 32, m)
    BY <1>13, <2>1, ArgumentsCarry
  <2>5. Carries(args, (96 + p) + 32, a)
    BY <1>13, <2>2, <2>3, ArgumentsCarry
  <2> QED
    BY <2>4, <2>5
<1> HIDE DEF args
<1>24. AbiBytes(args, 1) = m
  <2>1. 32 * (1 - 1) = 0
    OBVIOUS
  <2> QED
    BY <1>22, <1>23, <2>1, AbiBytesRead
<1>25. AbiBytes(args, 2) = a
  <2>1. 32 * (2 - 1) = 32 /\ 96 + p \in Nat
    BY <1>2
  <2> QED
    BY <1>22, <1>23, <2>1, AbiBytesRead
<1>26. n \in Nat /\ n < 15 * 65536 /\ d \in Strings(n)
  BY <1>11, <1>12
<1> HIDE DEF n
<1> QED
  BY <1>1, <1>20, <1>24, <1>25, <1>26 DEF args

(***************************************************************************)
(* The encodings of Solana.                                                *)
(***************************************************************************)
LEMMA LittleEndianOf ==
  ASSUME NEW b \in Strings(4)
  PROVE  LittleEndian(b) = 256 * (256 * (256 * b[4] + b[3]) + b[2]) + b[1]
<1> DEFINE r == Reverse(b)
<1>1. b \in Seq(Byte) /\ Len(b) = 4
  BY DEF Strings
<1>2. r = [i \in 1..Len(b) |-> b[(Len(b) - i) + 1]]
  BY DEF Reverse
<1>3. \A i \in 1..4 : b[i] \in Byte
  BY InString
<1>4. r = [i \in 1..4 |-> b[(4 - i) + 1]]
  BY <1>1, <1>2
<1>5. r \in Strings(4) /\ r[1] = b[4] /\ r[2] = b[3] /\ r[3] = b[2] /\ r[4] = b[1]
  <2> HIDE DEF r
  <2>1. r \in Seq(Byte) /\ Len(r) = 4
    BY <1>3, <1>4
  <2>2. r[1] = b[4] /\ r[2] = b[3] /\ r[3] = b[2] /\ r[4] = b[1]
    BY <1>4
  <2> QED
    BY <2>1, <2>2 DEF Strings
<1> HIDE DEF r
<1>6. BigEndian(r) = 256 * (256 * (256 * r[1] + r[2]) + r[3]) + r[4]
  BY <1>5, BigEndianOf
<1> QED
  BY <1>5, <1>6 DEF LittleEndian, r

\* A length below 2^16 as borsh writes it.
Quad(n) == <<n % 256, n \div 256, 0, 0>>

\* Such a length is four bytes.
LEMMA QuadOf ==
  ASSUME NEW n \in Nat, n < 65536
  PROVE  Quad(n) \in Strings(4) /\ LittleEndian(Quad(n)) = n
<1>1. Quad(n) \in Strings(4)
  BY ByteIsNumber, FourBytes DEF Quad
<1>2. /\ Quad(n)[1] = n % 256 /\ Quad(n)[2] = n \div 256
      /\ Quad(n)[3] = 0 /\ Quad(n)[4] = 0
  BY DEF Quad
<1>3. 256 * (256 * (256 * 0 + 0) + (n \div 256)) + (n % 256) = n
  OBVIOUS
<1> QED
  BY <1>1, <1>2, <1>3, LittleEndianOf

\* The program on Solana reads it as the same length.
LEMMA QuadIsRead ==
  ASSUME NEW n \in Nat, n < 65536, NEW d \in Seq(Byte), NEW at \in Nat, Carries(d, at, Quad(n)),
         NEW from \in Nat, NEW to \in Nat, from = at + 1, to = at + 4
  PROVE  LittleEndian(SubSeq(d, from, to)) = n
<1> DEFINE q == SubSeq(d, from, to)  w == 4
<1>1. Quad(n) \in Strings(w) /\ w \in Nat /\ to = at + w
  BY QuadOf
<1> HIDE DEF w
<1>2. SubSeq(d, at + 1, at + w) = Quad(n)
  BY <1>1, CutOut
<1>3. from = at + 1 /\ LittleEndian(Quad(n)) = n
  BY QuadOf
<1>4. q = Quad(n)
  <2> DEFINE x == Quad(n)  first == at + 1  last == at + w
  <2>1. SubSeq(d, first, last) = x /\ from = first /\ to = last
    BY <1>1, <1>2
  <2> HIDE DEF x, first, last
  <2>2. SubSeq(d, from, to) = x
    BY ONLY <2>1
  <2> QED
    BY <2>2 DEF x
<1> HIDE DEF q
<1>5. LittleEndian(q) = n
  BY <1>3, <1>4
<1> QED
  BY <1>5 DEF q

\* What build_receive_message_data() encodes is read back as the message and its
\* attestation.
LEMMA BorshIsRead ==
  ASSUME NEW k \in Nat, k < 65536, NEW m \in Strings(k), NEW l \in Nat, l < 65536, NEW a \in Strings(l)
  PROVE  BorshPair(InstructionData(m, a)) = <<m, a>>
<1> DEFINE q == Quad(k)  t == Quad(l)  v == q \o m  u == t \o a  d == v \o u
<1>1. k = Len(m) /\ l = Len(a)
  BY InString
<1>2. InstructionData(m, a) = d
  BY <1>1 DEF InstructionData, Quad
<1>3. q \in Strings(4) /\ t \in Strings(4)
  BY QuadOf
<1> HIDE DEF q, t, v, u, d
<1>4. v \in Strings(4 + k) /\ u \in Strings(4 + l)
  BY <1>3, Joined DEF v, u
<1>6. d \in Seq(Byte)
  <2> DEFINE e == 4 + k  g == 4 + l
  <2>1. v \in Strings(e) /\ u \in Strings(g) /\ e \in Nat /\ g \in Nat
    BY <1>4
  <2> HIDE DEF e, g
  <2>2. v \o u \in Strings(e + g)
    BY <2>1, Joined
  <2> QED
    BY <2>2 DEF Strings, d
<1>7. Carries(d, 0, v) /\ Carries(d, 4 + k, u)
  <2>1. Carries(d, 0, d)
    BY <1>6, CarriesItself
  <2>2. d = v \o u
    BY DEF d
  <2>3. Carries(d, 0, v \o u)
    BY <2>1, <2>2
  <2> DEFINE e == 4 + k
  <2>4. e \in Nat /\ 0 + e = e /\ v \in Strings(e)
    BY <1>4
  <2> HIDE DEF e
  <2>5. Carries(d, 0, v) /\ Carries(d, 0 + e, u)
    BY <1>4, <1>6, <2>3, <2>4, CarriesParts
  <2> QED
    BY <2>4, <2>5 DEF e
<1>8. Carries(d, 0, q) /\ Carries(d, 4, m)
  <2>1. v = q \o m
    BY DEF v
  <2>2. Carries(d, 0, q) /\ Carries(d, 0 + 4, m)
    BY <1>3, <1>6, <1>7, <2>1, CarriesParts
  <2> QED
    BY <2>2
<1>9. Carries(d, 4 + k, t) /\ Carries(d, 8 + k, a)
  <2>1. u = t \o a
    BY DEF u
  <2> DEFINE e == 4 + k
  <2>2. e \in Nat /\ e + 4 = 8 + k /\ Carries(d, e, u)
    BY <1>7
  <2> HIDE DEF e
  <2>3. Carries(d, e, t) /\ Carries(d, e + 4, a)
    BY <1>3, <1>6, <2>1, <2>2, CarriesParts
  <2> QED
    BY <2>2, <2>3 DEF e
<1>10. LittleEndian(SubSeq(d, 1, 4)) = k
  <2>1. 1 = 0 + 1 /\ 4 = 0 + 4
    OBVIOUS
  <2> QED
    BY <1>6, <1>8, <2>1, QuadIsRead DEF q
<1>11. LittleEndian(SubSeq(d, k + 5, k + 8)) = l
  <2>1. k + 5 = (4 + k) + 1 /\ k + 8 = (4 + k) + 4 /\ 4 + k \in Nat /\ k + 5 \in Nat /\ k + 8 \in Nat
    OBVIOUS
  <2> QED
    BY <1>6, <1>9, <2>1, QuadIsRead DEF t
<1>12. SubSeq(d, 5, k + 4) = m
  <2>1. 5 = 4 + 1 /\ k + 4 = 4 + k
    OBVIOUS
  <2> QED
    BY <1>6, <1>8, <2>1, CutOut
<1>13. SubSeq(d, k + 9, k + 8 + l) = a
  <2>1. k + 9 = (8 + k) + 1 /\ k + 8 + l = (8 + k) + l /\ 8 + k \in Nat
    OBVIOUS
  <2> QED
    BY <1>6, <1>9, <2>1, CutOut
<1> QED
  BY <1>2, <1>10, <1>11, <1>12, <1>13 DEF BorshPair

(***************************************************************************)
(* The transfer.                                                           *)
(***************************************************************************)
LEMMA MessageTypes ==
  /\ \A m \in Messages \cup {NoBytes} : \E k \in Nat : k < 65536 /\ m \in Strings(k)
  /\ \E l \in Nat : l < 65536 /\ Attestation \in Strings(l)
  /\ Transmitter \in Strings(20)
<1>1. \A m \in Messages : \E k \in Nat : k < 65536 /\ m \in Strings(k)
  <2> TAKE m \in Messages
  <2>1. m \in Seq(Byte) /\ Len(m) < 65536
    BY TransferAssumption
  <2> QED
    BY <2>1, StringOf
<1>2. NoBytes \in Strings(0)
  BY DEF NoBytes, Strings
<1>3. Attestation \in Seq(Byte) /\ Len(Attestation) < 65536
  BY TransferAssumption
<1>4. \E l \in Nat : l < 65536 /\ Attestation \in Strings(l)
  BY <1>3, StringOf
<1>5. Transmitter \in Strings(20)
  BY TransferAssumption DEF Strings
<1> QED
  BY <1>1, <1>2, <1>4, <1>5

\* The contract on Polygon receives the message and the attestation.
LEMMA RelayedToPolygon ==
  ASSUME NEW env \in Envelopes, NEW k \in Nat, k < 65536, NEW m \in Strings(k)
  PROVE  Received(Executed(SignTransaction(env, Transmitter, Calldata(m, Attestation))))
           = <<m, Attestation>>
<1> DEFINE d == Calldata(m, Attestation)
<1>1. PICK l \in Nat : l < 65536 /\ Attestation \in Strings(l)
  BY MessageTypes
<1>2. /\ \E n \in Nat : n < 15 * 65536 /\ d \in Strings(n)
      /\ SubSeq(d, 1, 4) = ReceiveMessage
      /\ AbiBytes(Arguments(d), 1) = m /\ AbiBytes(Arguments(d), 2) = Attestation
  BY <1>1, CalldataIsRead
<1> HIDE DEF d
<1>3. Executed(SignTransaction(env, Transmitter, d)) = [to |-> Transmitter, data |-> d]
  BY <1>2, MessageTypes, NodeExecutes
<1> DEFINE call == [to |-> Transmitter, data |-> d]
<1>4. call.to = Transmitter /\ call.data = d
  OBVIOUS
<1> HIDE DEF call
<1>5. Received(call) = <<m, Attestation>>
  BY <1>2, <1>4 DEF Received
<1> QED
  BY <1>3, <1>5 DEF call, d

\* The program on Solana receives them too.
LEMMA RelayedToSolana ==
  ASSUME NEW k \in Nat, k < 65536, NEW m \in Strings(k)
  PROVE  BorshPair(InstructionData(m, Attestation)) = <<m, Attestation>>
<1>1. PICK l \in Nat : l < 65536 /\ Attestation \in Strings(l)
  BY MessageTypes
<1> QED
  BY <1>1, BorshIsRead

\* On the way out the event is read back as the message that was emitted.
LEMMA EventIsRead ==
  ASSUME leg = "out", NEW k \in Nat, k < 65536, NEW m \in Strings(k)
  PROVE  LET d == MessageSent(m).data
         IN  /\ SubSeq(d, Header + 1, Header + StatedLength(d)) = m
             /\ IsMessage(MessageSent(m))
<1> DEFINE q == Quad(k)  d == q \o m
<1>0. k = Len(m)
  BY InString
<1>1. q \in Strings(4)
  BY QuadOf
<1>2. MessageSent(m).data = d
  BY <1>0 DEF MessageSent, Quad
<1> HIDE DEF q
<1>3. d \in Strings(4 + k)
  BY <1>1, Joined
<1>4. d \in Seq(Byte)
  BY <1>3 DEF Strings
<1> HIDE DEF d
<1>5. Carries(d, 0, q) /\ Carries(d, 4, m)
  <2>1. Carries(d, 0, d)
    BY <1>4, CarriesItself
  <2>2. d = q \o m
    BY DEF d
  <2>3. Carries(d, 0, q \o m)
    BY <2>1, <2>2
  <2>4. Carries(d, 0, q) /\ Carries(d, 0 + 4, m)
    BY <1>1, <1>4, <2>3, CarriesParts
  <2> QED
    BY <2>4
<1>6. StatedLength(d) = k
  <2>1. 1 = 0 + 1 /\ 4 = 0 + 4
    OBVIOUS
  <2>2. LittleEndian(SubSeq(d, 1, 4)) = k
    BY <1>4, <1>5, <2>1, QuadIsRead DEF q
  <2> QED
    BY <2>2 DEF StatedLength, SolanaLength
<1>7. Header = 4
  BY DEF Header
<1>8. SubSeq(d, 4 + 1, 4 + k) = m
  BY <1>4, <1>5, CutOut
<1>9. SubSeq(d, Header + 1, Header + StatedLength(d)) = m
  BY <1>6, <1>7, <1>8
<1>10. IsMessage(MessageSent(m))
  <2>1. MessageSent(m).name = "MessageSent"
    BY DEF MessageSent
  <2>2. Len(d) = 4 + k
    BY <1>3 DEF Strings
  <2> QED
    BY <1>2, <1>6, <1>7, <2>1, <2>2 DEF IsMessage
<1> QED
  BY <1>2, <1>9, <1>10

\* The message of a transaction's events is read from the event that the bridge
\* emitted; the client falls back to the signature if that is not among them, and
\* only then if the parser takes the event for one.
LEMMA FoundMessage ==
  ASSUME NEW m, NEW events \in Seq(OtherEvents \cup {MessageSent(m)})
  PROVE  LET d == MessageSent(m).data
         IN  /\ MessageIn(events) \in {SubSeq(d, Header + 1, Header + StatedLength(d)), Signature}
             /\ MessageSent(m) \notin ToSet(events) => MessageIn(events) = Signature
             /\ MessageSent(m) \in ToSet(events) /\ IsMessage(MessageSent(m)) =>
                  MessageIn(events) = SubSeq(d, Header + 1, Header + StatedLength(d))
<1> DEFINE I == {i \in 1..Len(events) : IsMessage(events[i])}
           first == SelectInSeq(events, IsMessage)
           d == events[first].data
<1>0. ToSet(events) = {events[i] : i \in 1..Len(events)}
  BY LenProperties DEF ToSet
<1>1. first = IF I # {} THEN Min(I) ELSE 0
  BY DEF SelectInSeq
<1>2. MessageIn(events) = IF first = 0 THEN Signature
                          ELSE SubSeq(d, Header + 1, Header + StatedLength(d))
  BY DEF MessageIn
<1>3. CASE I = {}
  <2>1. MessageIn(events) = Signature
    BY <1>1, <1>2, <1>3
  <2>2. MessageSent(m) \in ToSet(events) => ~IsMessage(MessageSent(m))
    BY <1>0, <1>3
  <2> QED
    BY <2>1, <2>2
<1>4. CASE I # {}
  <2>1. I \in SUBSET Nat
    OBVIOUS
  <2>2. Min(I) \in I /\ \A y \in I : Min(I) <= y
    <3> HIDE DEF I
    <3> QED
      BY <1>4, <2>1, MinIsLeast
  <2>3. first \in 1..Len(events) /\ IsMessage(events[first])
    <3>1. first = Min(I)
      BY <1>1, <1>4
    <3> HIDE DEF first
    <3> QED
      BY <2>2, <3>1
  <2> HIDE DEF first, I
  <2>4. events[first] \in OtherEvents \cup {MessageSent(m)}
    BY <2>3, ElementOfSeq
  <2>5. events[first].name = "MessageSent"
    BY <2>3 DEF IsMessage
  <2>6. events[first] = MessageSent(m)
    BY <2>4, <2>5, OtherEventsAssumption
  <2>7. first # 0
    BY <2>3
  <2>8. MessageSent(m) \in ToSet(events)
    BY <1>0, <2>3, <2>6
  <2> QED
    BY <1>2, <2>6, <2>7, <2>8
<1> QED
  BY <1>3, <1>4

\* On the way out the message is found if its event is among those shown, and
\* the signature is taken if it is not.
LEMMA OutMessage ==
  ASSUME leg = "out", NEW k \in Nat, k < 65536, NEW m \in Strings(k),
         NEW events \in Seq(OtherEvents \cup {MessageSent(m)})
  PROVE  MessageIn(events) = IF MessageSent(m) \in ToSet(events) THEN m ELSE Signature
<1> DEFINE d == MessageSent(m).data  found == SubSeq(d, Header + 1, Header + StatedLength(d))
<1>1. found = m /\ IsMessage(MessageSent(m))
  BY EventIsRead
<1>2. /\ MessageSent(m) \notin ToSet(events) => MessageIn(events) = Signature
      /\ MessageSent(m) \in ToSet(events) /\ IsMessage(MessageSent(m)) =>
           MessageIn(events) = found
  BY FoundMessage
<1> HIDE DEF found
<1> QED
  BY <1>1, <1>2

\* What RelayedIsEmitted and OutboundExact rest on: the events that are searched
\* are those of the burn.
TransferInv ==
  /\ TypeOK
  /\ logs \in Seq(OtherEvents \cup {MessageSent(emitted)})
  /\ RelayedIsEmitted
  /\ OutboundExact

\* The entries of a sequence over a set are in that set.
LEMMA EntriesOfSeq == ASSUME NEW S, NEW l \in Seq(S) PROVE \A i \in DOMAIN l : l[i] \in S
BY LenProperties, ElementOfSeq

\* The events of a burn are a sequence of events of others and of its message.
LEMMA AroundIsSeq ==
  ASSUME NEW m, NEW l \in Around(m) PROVE l \in Seq(OtherEvents \cup {MessageSent(m)})
<1> DEFINE x == MessageSent(m)
<1>1. \/ l = <<x>>
      \/ \E e \in OtherEvents : l = <<e, x>> \/ l = <<x, e>>
  BY DEF Around
<1> HIDE DEF x
<1> DEFINE S == OtherEvents \cup {x}
<1>2. x \in S /\ \A e \in OtherEvents : e \in S
  OBVIOUS
<1> HIDE DEF S
<1>3. <<x>> \in Seq(S)
  BY ONLY <1>2
<1>4. \A e \in OtherEvents : <<e, x>> \in Seq(S) /\ <<x, e>> \in Seq(S)
  BY ONLY <1>2
<1>5. l \in Seq(S)
  BY ONLY <1>1, <1>3, <1>4, Zenon
<1> QED
  BY <1>5 DEF S, x

\* The invariant holds when a transfer begins.
LEMMA TransferInit == Init => TransferInv
<1> SUFFICES ASSUME Init PROVE TransferInv
  OBVIOUS
<1>1. <<>> \in Seq(OtherEvents \cup {MessageSent(emitted)})
  BY EmptySeq
<1>2. DOMAIN logs = {}
  BY DEF Init
<1>3. TypeOK
  BY <1>2 DEF Init, TypeOK
<1> QED
  BY <1>1, <1>3 DEF Init, TransferInv, RelayedIsEmitted, OutboundExact

\* Every step of a transfer keeps the invariant.
LEMMA TransferStep == TransferInv /\ [Next]_vars => TransferInv'
<1> SUFFICES ASSUME TransferInv, [Next]_vars PROVE TransferInv'
  OBVIOUS
<1> DEFINE Event == OtherEvents \cup {MessageSent(emitted)}
<1>1. /\ TypeOK /\ logs \in Seq(Event)
      /\ RelayedIsEmitted /\ OutboundExact
  BY DEF TransferInv
<1>2. leg' = leg
  BY DEF Next, vars, Burn, Read, NoReceipt, Relay, Fail
<1>3. Event' = OtherEvents \cup {MessageSent(emitted')}
  BY <1>2 DEF MessageSent
<1>4. PICK k \in Nat : k < 65536 /\ emitted \in Strings(k)
  BY <1>1, MessageTypes DEF TypeOK
<1>0. ASSUME stage' \in {"start", "burnt", "stored", "relayed", "failed"},
             emitted' \in Messages \cup {NoBytes}, lookup' \in {None, Hash(stored')},
             logs' \in Seq(Event'), RelayedIsEmitted', OutboundExact'
      PROVE  TransferInv'
  <2>1. \A i \in DOMAIN logs' : logs'[i] \in Event'
    <3> DEFINE S == Event'
    <3>1. logs' \in Seq(S)
      BY <1>0
    <3> HIDE DEF S
    <3>2. \A i \in DOMAIN logs' : logs'[i] \in S
      BY <3>1, EntriesOfSeq
    <3> QED
      BY <3>2 DEF S
  <2>2. TypeOK'
    BY <1>0, <1>1, <1>2, <2>1 DEF TypeOK, Hash
  <2> QED
    BY <1>0, <2>2 DEF TransferInv
<1>5. CASE Burn
  <2>1. emitted' \in Messages \cup {NoBytes}
    BY <1>1, <1>5 DEF Burn, TypeOK
  <2>2. logs' \in Seq(Event')
    <3>1. CASE logs' = logs /\ emitted' = emitted
      BY <1>1, <1>3, <3>1
    <3>2. CASE logs' \in Around(emitted')
      BY <1>3, <3>2, AroundIsSeq
    <3> QED
      BY <1>5, <3>1, <3>2 DEF Burn
  <2>3. stage' = "burnt" /\ stored' = stored /\ lookup' = lookup
    BY <1>5 DEF Burn
  <2>4. RelayedIsEmitted' /\ OutboundExact'
    BY <2>3 DEF RelayedIsEmitted, OutboundExact
  <2> QED
    BY <1>0, <1>1, <2>1, <2>2, <2>3, <2>4 DEF TypeOK
<1>6. CASE Read
  <2>1. /\ stage' = "stored" /\ emitted' = emitted /\ logs' = logs /\ lookup' = Hash(stored')
    BY <1>6 DEF Read
  <2>2. Event' = Event
    BY <1>3, <2>1
  <2>3. PICK n \in 0..Len(logs) : shown' = SubSeq(logs, 1, n) /\ stored' = MessageIn(shown')
    BY <1>6 DEF Read
  <2>4. SubSeq(logs, 1, n) \in Seq(Event)
    <3> HIDE DEF Event
    <3>1. \A i \in 1..n : logs[i] \in Event
      BY <1>1, ElementOfSeq, LenProperties
    <3> QED
      BY <3>1, SubSeqProperties
  <2>5. leg = "out" =>
          stored' = IF MessageSent(emitted) \in ToSet(shown') THEN emitted ELSE Signature
    <3> SUFFICES ASSUME leg = "out"
                 PROVE  stored' = IF MessageSent(emitted) \in ToSet(shown')
                                  THEN emitted ELSE Signature
      OBVIOUS
    <3> DEFINE read == SubSeq(logs, 1, n)
    <3>1. /\ read \in Seq(OtherEvents \cup {MessageSent(emitted)})
          /\ shown' = read /\ stored' = MessageIn(read)
      BY <2>3, <2>4
    <3> HIDE DEF read
    <3>2. MessageIn(read) = IF MessageSent(emitted) \in ToSet(read) THEN emitted ELSE Signature
      BY <1>4, <3>1, OutMessage
    <3> QED
      BY <3>1, <3>2
  <2>6. RelayedIsEmitted' /\ OutboundExact'
    <3>1. MessageSent(emitted)' = MessageSent(emitted)
      BY <1>2, <2>1 DEF MessageSent
    <3>2. ToSet(shown)' = ToSet(shown')
      BY DEF ToSet
    <3> QED
      BY <1>2, <2>1, <2>5, <3>1, <3>2 DEF RelayedIsEmitted, OutboundExact
  <2> HIDE DEF Event
  <2>7. emitted \in Messages \cup {NoBytes} /\ logs \in Seq(Event)
    BY <1>1 DEF TypeOK
  <2> QED
    BY <1>0, <2>1, <2>2, <2>6, <2>7
<1>7. CASE NoReceipt
  <2>1. stage' = "failed" /\ UNCHANGED <<emitted, logs, stored, lookup, relayed>>
    BY <1>7 DEF NoReceipt
  <2> QED
    BY <1>0, <1>1, <1>3, <2>1 DEF TypeOK, RelayedIsEmitted, OutboundExact, Hash
<1>8. CASE Relay
  <2>1. /\ stage = "stored" /\ stage' = "relayed"
        /\ UNCHANGED <<emitted, logs, shown, stored, lookup>>
        /\ lookup = Hash(emitted)
    BY <1>8 DEF Relay
  <2>2. stored = emitted
    BY <1>1, <2>1 DEF TypeOK, Hash, None
  <2>3. relayed' = <<emitted, Attestation>>
    <3>1. CASE leg = "out"
      <4>1. PICK env \in Envelopes :
              relayed' = Received(Executed(
                           SignTransaction(env, Transmitter, Calldata(stored, Attestation))))
        BY <1>8, <3>1 DEF Relay
      <4> QED
        BY <1>4, <2>2, <4>1, RelayedToPolygon
    <3>2. CASE leg = "back"
      <4>1. relayed' = BorshPair(InstructionData(stored, Attestation))
        BY <1>8, <3>2 DEF Relay
      <4> QED
        BY <1>4, <2>2, <4>1, RelayedToSolana
    <3> QED
      BY <1>1, <3>1, <3>2 DEF TypeOK
  <2>4. RelayedIsEmitted'
    BY <2>1, <2>3 DEF RelayedIsEmitted
  <2>5. OutboundExact'
    <3>1. MessageSent(emitted)' = MessageSent(emitted)
      BY <1>2, <2>1 DEF MessageSent
    <3>2. ToSet(shown)' = ToSet(shown)
      BY <2>1 DEF ToSet
    <3> QED
      BY <1>1, <1>2, <2>1, <3>1, <3>2 DEF OutboundExact
  <2> QED
    BY <1>0, <1>1, <1>3, <2>1, <2>4, <2>5 DEF TypeOK
<1>9. CASE Fail
  <2>1. stage' = "failed" /\ UNCHANGED <<emitted, logs, stored, lookup, relayed>>
    BY <1>9 DEF Fail
  <2> QED
    BY <1>0, <1>1, <1>3, <2>1 DEF TypeOK, RelayedIsEmitted, OutboundExact, Hash
<1>10. CASE UNCHANGED vars
  <2>1. UNCHANGED <<leg, stage, emitted, logs, shown, stored, lookup, relayed>>
    BY <1>10 DEF vars
  <2>2. OutboundExact'
    <3>1. MessageSent(emitted)' = MessageSent(emitted)
      BY <2>1 DEF MessageSent
    <3>2. ToSet(shown)' = ToSet(shown)
      BY <2>1 DEF ToSet
    <3> QED
      BY <1>1, <2>1, <3>1, <3>2 DEF OutboundExact
  <2> QED
    BY <1>0, <1>1, <1>3, <2>1, <2>2 DEF TypeOK, RelayedIsEmitted, Hash
<1> QED
  BY <1>5, <1>6, <1>7, <1>8, <1>9, <1>10 DEF Next

\* The invariant holds over every behaviour of a transfer.
THEOREM TransferInvariant == Spec => []TransferInv
BY TransferInit, TransferStep, PTL DEF Spec

\* Types; and what the status stores is looked up by its own hash.
THEOREM TransferTypeCorrect == Spec => []TypeOK
BY TransferInvariant, PTL DEF TransferInv

\* Whatever the message, the attestation and the signature: what the receiving
\* contract is given is the emitted message and its attestation.
THEOREM OnlyEmittedIsRelayed == Spec => []RelayedIsEmitted
BY TransferInvariant, PTL DEF TransferInv

\* On the way out the status holds the emitted message wherever it was shown, and
\* the id of the transaction where the logs were cut in front of it, whatever
\* other programs logged around it.
THEOREM OutboundIsExact == Spec => []OutboundExact
BY TransferInvariant, PTL DEF TransferInv

(***************************************************************************)
(* The way back.  The length is read from eight bytes that are zero below  *)
(* 2^31, so the message that is found is empty, and its hash is nobody's.  *)
(***************************************************************************)
\* Eight bytes that begin with four zeros are the number the other four make.
LEMMA LowHalf ==
  ASSUME NEW n \in Nat, n = 8, NEW b \in Strings(n), \A i \in 1..4 : b[i] = 0
  PROVE  BigEndian(b) = 256 * (256 * (256 * b[5] + b[6]) + b[7]) + b[8]
<1> DEFINE Step(f) == [i \in 0..n |-> IF i = 0 THEN 0 ELSE 256 * f[i - 1] + b[i]]
           value == CHOOSE f : f = Step(f)
           w == [i \in 0..n |-> IF i <= 4 THEN 0
                               ELSE IF i = 5 THEN b[5]
                               ELSE IF i = 6 THEN 256 * b[5] + b[6]
                               ELSE IF i = 7 THEN 256 * (256 * b[5] + b[6]) + b[7]
                               ELSE 256 * (256 * (256 * b[5] + b[6]) + b[7]) + b[8]]
<1>0. Len(b) = n
  BY DEF Strings
<1>1. BigEndian(b) = value[n]
  BY <1>0 DEF BigEndian
<1>11. \A i \in 1..8 : b[i] \in Nat
  BY ByteIsNumber, InString
<1>2. \A i \in 0..n : w[i] = IF i = 0 THEN 0 ELSE 256 * w[i - 1] + b[i]
  <2> TAKE i \in 0..n
  <2>1. CASE i <= 4
    BY <2>1
  <2>2. CASE i = 5
    BY <1>11, <2>2
  <2>3. CASE i = 6
    BY <2>3
  <2>4. CASE i = 7
    BY <2>4
  <2>5. CASE i = 8
    BY <2>5
  <2> QED
    BY <2>1, <2>2, <2>3, <2>4, <2>5
<1> HIDE DEF w
<1>3. w = Step(w)
  <2>1. w = [i \in 0..n |-> w[i]]
    BY DEF w
  <2> QED
    BY <1>2, <2>1
<1> HIDE DEF Step
<1>4. value = Step(value)
  BY <1>3
<1> HIDE DEF value
<1>5. \A i \in 0..n : value[i] = IF i = 0 THEN 0 ELSE 256 * value[i - 1] + b[i]
  <2> TAKE i \in 0..n
  <2>1. value[i] = Step(value)[i]
    BY <1>4
  <2> QED
    BY <2>1 DEF Step
<1>6. value[0] = 0
  BY <1>5
<1>7. \A i \in 1..4 : value[i - 1] = 0 => value[i] = 0
  <2> TAKE i \in 1..4
  <2>1. i \in 0..n /\ i # 0 /\ b[i] = 0
    OBVIOUS
  <2>2. value[i] = 256 * value[i - 1] + 0
    BY <1>5, <2>1
  <2> QED
    BY <2>2
<1>8. value[4] = 0
  BY <1>6, <1>7
<1>9. /\ value[5] = 256 * value[4] + b[5] /\ value[6] = 256 * value[5] + b[6]
      /\ value[7] = 256 * value[6] + b[7] /\ value[8] = 256 * value[7] + b[8]
  BY <1>5
<1>10. value[5] = b[5]
  BY <1>8, <1>9, <1>11
<1> QED
  BY <1>1, <1>9, <1>10

\* Eight bytes of zero are the number zero.
LEMMA ZerosAreZero ==
  ASSUME NEW n \in Nat, n = 8, NEW b \in Strings(n), \A i \in 1..n : b[i] = 0
  PROVE  BigEndian(b) = 0
<1>1. BigEndian(b) = 256 * (256 * (256 * b[5] + b[6]) + b[7]) + b[8]
  BY LowHalf
<1> QED
  BY <1>1

\* The low half of a word is read as the number the word was made of.
LEMMA WordIsUsize ==
  ASSUME NEW n \in Nat, n < 32768 * 65536,
         NEW d \in Seq(Byte), NEW at \in Nat, Carries(d, at, Word(n))
  PROVE  UsizeAt(d, at) = n
<1> DEFINE z == Zeros(28)  y == BytesOf(n)  w == 8  q == SubSeq(d, at + 25, at + 32)
<1>1. z \in Strings(28) /\ (\A i \in 1..28 : z[i] = 0) /\ y \in Strings(4)
  <2>1. z \in Strings(28) /\ \A i \in 1..28 : z[i] = 0
    BY ONLY ZerosOf
  <2>2. y \in Strings(4)
    BY BytesOfNumber
  <2> QED
    BY <2>1, <2>2
<1>2. Carries(d, at, z) /\ Carries(d, at + 28, y)
  BY <1>1, CarriesParts DEF Word
<1>3. BigEndian(y) = n
  BY NumberOfBytes
<1>4. BigEndian(y) = 256 * (256 * (256 * y[1] + y[2]) + y[3]) + y[4]
  <2> DEFINE l == 4
  <2>1. l \in Nat /\ l = 4 /\ y \in Strings(l)
    BY <1>1
  <2> HIDE DEF l, y
  <2> QED
    BY <2>1, BigEndianOf
<1> HIDE DEF z, y
<1>5. Len(z) = 28 /\ Len(y) = 4
  BY <1>1 DEF Strings
<1>6. at + 32 <= Len(d) /\ \A i \in 1..28 : d[at + i] = 0
  BY <1>1, <1>2, <1>5 DEF Carries
<1>12. /\ d[at + 29] = y[1] /\ d[at + 30] = y[2]
       /\ d[at + 31] = y[3] /\ d[at + 32] = y[4]
  <2>1. \A i \in 1..4 : d[at + 28 + i] = y[i]
    BY <1>2, <1>5 DEF Carries
  <2>2. /\ at + 28 + 1 = at + 29 /\ at + 28 + 2 = at + 30
        /\ at + 28 + 3 = at + 31 /\ at + 28 + 4 = at + 32
    OBVIOUS
  <2>3. /\ d[at + 28 + 1] = y[1] /\ d[at + 28 + 2] = y[2]
        /\ d[at + 28 + 3] = y[3] /\ d[at + 28 + 4] = y[4]
    BY <2>1
  <2> QED
    BY <2>2, <2>3
<1>7. q \in Seq(Byte) /\ Len(q) = 8 /\ \A i \in 1..8 : q[i] = d[at + 24 + i]
  <2> DEFINE from == at + 25  to == at + 32
  <2>1. /\ from \in Nat /\ to \in Nat /\ from >= 1 /\ from <= to
        /\ (to - from) + 1 = 8 /\ to <= Len(d)
    BY <1>6
  <2>2. q = SubSeq(d, from, to)
    OBVIOUS
  <2> HIDE DEF from, to, q
  <2>3. q \in Seq(Byte)
    BY <2>1, <2>2
  <2>4. Len(q) = 8
    BY <2>1, <2>2
  <2>5. ASSUME NEW i \in 1..8
        PROVE  q[i] = d[from + i - 1]
    BY <2>1, <2>2
  <2>6. ASSUME NEW i \in 1..8
        PROVE  q[i] = d[at + 24 + i]
    <3> DEFINE j == from + i - 1
    <3>1. q[i] = d[j]
      BY ONLY <2>5, i \in 1..8
    <3>2. j = at + 24 + i
      BY <2>1 DEF from
    <3> HIDE DEF j
    <3> QED
      BY <3>1, <3>2
  <2> QED
    BY <2>3, <2>4, <2>6
<1>8. UsizeAt(d, at) = BigEndian(q)
  BY DEF UsizeAt
<1> HIDE DEF q
<1>9. /\ q[1] = 0 /\ q[2] = 0 /\ q[3] = 0 /\ q[4] = 0
      /\ q[5] = y[1] /\ q[6] = y[2] /\ q[7] = y[3] /\ q[8] = y[4]
  <2>1. \A i \in 1..4 : q[i] = 0
    <3> TAKE i \in 1..4
    <3>1. 24 + i \in 1..28 /\ at + 24 + i = at + (24 + i) /\ i \in 1..8
      OBVIOUS
    <3>2. d[at + (24 + i)] = 0 /\ q[i] = d[at + 24 + i]
      BY <1>6, <1>7, <3>1
    <3> QED
      BY <3>1, <3>2
  <2>2. /\ q[5] = d[at + 24 + 5] /\ q[6] = d[at + 24 + 6]
        /\ q[7] = d[at + 24 + 7] /\ q[8] = d[at + 24 + 8]
    BY <1>7
  <2>3. /\ at + 24 + 5 = at + 29 /\ at + 24 + 6 = at + 30
        /\ at + 24 + 7 = at + 31 /\ at + 24 + 8 = at + 32
    OBVIOUS
  <2> QED
    BY <1>12, <2>1, <2>2, <2>3
<1>10. w \in Nat /\ w = 8 /\ q \in Strings(w) /\ \A i \in 1..4 : q[i] = 0
  BY <1>7, <1>9 DEF Strings
<1> HIDE DEF w
<1>11. BigEndian(q) = 256 * (256 * (256 * q[5] + q[6]) + q[7]) + q[8]
  BY <1>10, LowHalf
<1> QED
  BY <1>3, <1>4, <1>8, <1>9, <1>11

\* The message that is read back from Polygon is empty, whatever it was.
LEMMA EventIsEmpty ==
  ASSUME leg = "back", NEW k \in Nat, k < 65536, NEW m \in Strings(k)
  PROVE  LET d == MessageSent(m).data
         IN  SubSeq(d, Header + 1, Header + StatedLength(d)) = <<>>
<1> DEFINE v == Word(32)  w == Word(k)  p == Padded(m)  c == v \o w  d == c \o p
           size == Pad(k)
           z == Zeros(28)  y == BytesOf(k)
<1>0. k = Len(m)
  BY InString
<1>1. MessageSent(m).data = d
  BY <1>0 DEF MessageSent
<1>2. /\ v \in Strings(32) /\ w \in Strings(32) /\ size \in Nat /\ p \in Strings(size)
      /\ z \in Strings(28) /\ (\A i \in 1..28 : z[i] = 0) /\ y \in Strings(4)
  <2>1. v \in Strings(32) /\ w \in Strings(32)
    BY WordOf
  <2>2. size \in Nat /\ p \in Strings(size)
    BY PaddedOf
  <2>3. z \in Strings(28) /\ (\A i \in 1..28 : z[i] = 0)
    BY ZerosOf
  <2>4. y \in Strings(4)
    BY BytesOfNumber
  <2> QED
    BY <2>1, <2>2, <2>3, <2>4
<1>3. w = z \o y
  BY DEF Word
<1> HIDE DEF v, w, p, size, z, y
<1>4. c \in Strings(32 + 32)
  BY <1>2, Joined
<1> DEFINE head == 32 + 32  total == head + size
<1>5. head \in Nat /\ c \in Strings(head)
  BY <1>4
<1> HIDE DEF c, head
<1>6. d \in Seq(Byte) /\ Carries(d, 0, d)
  <2>1. d \in Strings(total)
    BY <1>2, <1>5, Joined
  <2> HIDE DEF d, total
  <2>2. d \in Seq(Byte)
    BY <2>1 DEF Strings
  <2> QED
    BY <2>2, CarriesItself
<1>7. Carries(d, 0, v \o w)
  <2>1. Carries(d, 0, c \o p) /\ d \in Seq(Byte)
    BY <1>6
  <2> HIDE DEF d
  <2>2. Carries(d, 0, c)
    BY <1>2, <1>5, <2>1, CarriesParts
  <2> QED
    BY <2>2 DEF c
<1> HIDE DEF d
<1>8. Carries(d, 32, w)
  <2>1. Carries(d, 0 + 32, w)
    BY <1>2, <1>6, <1>7, CarriesParts
  <2> QED
    BY <2>1
<1>9. Carries(d, 32, z)
  BY <1>2, <1>3, <1>6, <1>8, CarriesParts
<1> DEFINE Blank(i) == d[32 + i] = 0
<1>10. 32 + 28 <= Len(d) /\ \A i \in Nat : i >= 1 /\ i <= 28 => Blank(i)
  <2> DEFINE l == 28
  <2>1. Len(z) = l /\ \A i \in 1..l : z[i] = 0
    BY <1>2 DEF Strings
  <2> HIDE DEF l
  <2>2. 32 + l <= Len(d) /\ \A i \in 1..l : d[32 + i] = 0
    BY <1>9, <2>1 DEF Carries
  <2>3. \A i \in Nat : i >= 1 /\ i <= 28 => i \in 1..l
    BY DEF l
  <2>4. \A i \in Nat : i >= 1 /\ i <= 28 => Blank(i)
    BY <2>2, <2>3
  <2>5. 32 + 28 <= Len(d)
    BY <2>2 DEF l
  <2> QED
    BY <2>4, <2>5
<1> HIDE DEF Blank
<1>11. PolygonLength(d) = 0
  <2> DEFINE n == 8  from == 33  to == 40  q == SubSeq(d, from, to)
  <2>1. /\ from \in Int /\ to \in Int /\ from <= to /\ (to - from) + 1 = n /\ n \in Nat /\ n = 8
        /\ \A i \in 1..n : i \in Nat /\ i >= 1 /\ i <= 28 /\ from + i - 1 = 32 + i
    OBVIOUS
  <2>2. \A i \in from..to : d[i] \in Byte
    <3>1. Len(d) \in Nat /\ \A i \in 1..Len(d) : d[i] \in Byte
      BY <1>6, LenProperties, ElementOfSeq
    <3>2. Len(d) >= 60
      BY <1>10
    <3>3. \A i \in from..to : i \in 1..Len(d)
      <4> HIDE DEF d
      <4> QED
        BY <3>1, <3>2
    <3> QED
      BY <3>1, <3>3
  <2>3. PolygonLength(d) = BigEndian(q)
    BY DEF PolygonLength
  <2> HIDE DEF n, from, to, q
  <2>4. /\ q \in Seq(Byte) /\ Len(q) = IF from <= to THEN (to - from) + 1 ELSE 0
        /\ \A i \in 1..(to - from) + 1 : q[i] = d[from + i - 1]
    BY <2>1, <2>2, SubSeqProperties DEF q
  <2>5. q \in Strings(n)
    <3>1. Len(q) = (to - from) + 1
      BY <2>1, <2>4
    <3>2. Len(q) = n
      BY <2>1, <3>1
    <3> QED
      BY <2>4, <3>2 DEF Strings
  <2>6. \A i \in 1..n : q[i] = 0
    <3> TAKE i \in 1..n
    <3>1. /\ i \in Nat /\ i >= 1 /\ i <= 28
          /\ i \in 1..(to - from) + 1 /\ from + i - 1 = 32 + i
      BY <2>1
    <3>2. q[i] = d[32 + i]
      BY <2>4, <3>1
    <3>3. Blank(i)
      BY <1>10, <3>1
    <3> QED
      BY <3>2, <3>3 DEF Blank
  <2>7. BigEndian(q) = 0
    BY <2>1, <2>5, <2>6, ZerosAreZero
  <2> QED
    BY <2>3, <2>7
<1>12. Header = 64 /\ StatedLength(d) = 0
  BY <1>11 DEF Header, StatedLength
<1>13. SubSeq(d, 64 + 1, 64 + 0) = <<>>
  BY <1>6, SubSeqProperties
<1>14. SubSeq(d, Header + 1, Header + StatedLength(d)) = <<>>
  BY <1>12, <1>13
<1> QED
  BY <1>1, <1>14


\* On the way back an empty message is found, or none.
LEMMA BackMessage ==
  ASSUME leg = "back", NEW k \in Nat, k < 65536, NEW m \in Strings(k),
         NEW events \in Seq(OtherEvents \cup {MessageSent(m)})
  PROVE  MessageIn(events) \in {NoBytes, Signature}
<1> DEFINE d == MessageSent(m).data  found == SubSeq(d, Header + 1, Header + StatedLength(d))
<1>1. found = NoBytes
  BY EventIsEmpty DEF NoBytes
<1>2. MessageIn(events) \in {found, Signature}
  BY FoundMessage
<1> HIDE DEF found
<1> QED
  BY <1>1, <1>2

\* Nothing that is stored on the way back is the message that was burnt.
NothingReturns ==
  leg = "back" => stage # "relayed" /\ stored \in {NoBytes, Signature}

\* The transfer back never completes: over every message, receipt and
\* attestation, what extract_message_sent_from_receipt() returns is empty or the
\* transaction's id, and the attestation service never knows its hash.
THEOREM NoTransferReturns == Spec => []NothingReturns
<1> DEFINE Inv == TransferInv /\ NothingReturns
<1>1. Init => Inv
  BY TransferInit DEF Init, NothingReturns
<1>2. Inv /\ [Next]_vars => Inv'
  <2> SUFFICES ASSUME Inv, [Next]_vars PROVE NothingReturns'
    BY TransferStep
  <2>1. /\ leg' = leg /\ TypeOK /\ NothingReturns
        /\ logs \in Seq(OtherEvents \cup {MessageSent(emitted)})
    BY DEF Next, vars, Burn, Read, NoReceipt, Relay, Fail, TransferInv
  <2> SUFFICES ASSUME leg = "back"
               PROVE  stage' # "relayed" /\ stored' \in {NoBytes, Signature}
    BY <2>1 DEF NothingReturns
  <2>2. stage # "relayed" /\ stored \in {NoBytes, Signature}
    BY <2>1 DEF NothingReturns
  <2>3. CASE Read
    <3>1. PICK n \in 0..Len(logs) : stored' = MessageIn(SubSeq(logs, 1, n))
      BY <2>3 DEF Read
    <3>2. PICK k \in Nat : k < 65536 /\ emitted \in Strings(k)
      BY <2>1, MessageTypes DEF TypeOK
    <3> DEFINE Event == OtherEvents \cup {MessageSent(emitted)}  read == SubSeq(logs, 1, n)
    <3>3. logs \in Seq(Event)
      BY <2>1
    <3>4. read \in Seq(Event)
      <4> HIDE DEF Event
      <4>1. \A i \in 1..n : logs[i] \in Event
        BY <3>3, ElementOfSeq, LenProperties
      <4> QED
        BY <4>1, SubSeqProperties
    <3> HIDE DEF read
    <3>5. MessageIn(read) \in {NoBytes, Signature}
      BY <3>2, <3>4, BackMessage
    <3>6. stored' = MessageIn(read) /\ stage' = "stored"
      BY <2>3, <3>1 DEF read, Read
    <3> QED
      BY <3>5, <3>6
  <2>4. CASE Relay
    <3>1. lookup = Hash(emitted) /\ emitted # NoBytes
      BY <2>4 DEF Relay
    <3>2. emitted = stored
      BY <2>1, <3>1 DEF TypeOK, Hash, None
    <3>3. emitted \in Messages
      BY <2>1, <3>1 DEF TypeOK
    <3> QED
      BY <2>2, <3>1, <3>2, <3>3, TransferAssumption
  <2>5. CASE Burn \/ NoReceipt \/ Fail \/ UNCHANGED vars
    BY <2>2, <2>5 DEF Burn, NoReceipt, Fail, vars
  <2> QED
    BY <2>3, <2>4, <2>5 DEF Next
<1>3. Inv => NothingReturns
  OBVIOUS
<1> QED
  BY <1>1, <1>2, <1>3, PTL DEF Spec

====
