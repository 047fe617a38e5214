---- MODULE RedemptionProofs ----
(***************************************************************************)
(* The redemption of one position and the burn of what it paid, for every  *)
(* market, resolution, balance and signature.  Redemption takes only steps *)
(* of CctpTransfer, so its invariants hold here as well.  Of the calls the *)
(* contracts read, this module proves that they say what the code meant.   *)
(***************************************************************************)
EXTENDS Redemption, TransferProofs

\* Every step of a redemption is a step of its transfer, or none.
THEOREM ImplementsTransfer == RedemptionSpec => Spec
<1>1. RedemptionInit => Init
  BY DEF RedemptionInit
<1>2. [RedemptionNext]_allVars => [Next]_vars
  BY DEF RedemptionNext, Resolve, AwaitResolution, ReturnBurn, RequestFails, Bridge,
         allVars, vars, rvars
<1> QED
  BY <1>1, <1>2, PTL DEF RedemptionSpec, Spec

(***************************************************************************)
(* Words as the contracts read them.                                       *)
(***************************************************************************)
\* A string of at most 32 bytes is padded to a word, and stands at its end.
LEMMA LeftPadOf ==
  ASSUME NEW n \in Nat, n <= 32, NEW b \in Strings(n)
  PROVE  /\ LeftPad(b) \in Strings(32)
         /\ Carries(LeftPad(b), 32 - n, b)
         /\ \A i \in 1..32 - n : LeftPad(b)[i] = 0
<1> DEFINE z == 32 - n  p == Zeros(z) \o b
<1>1. Len(b) = n
  BY InString
<1>2. LeftPad(b) = p
  BY <1>1 DEF LeftPad
<1>3. z \in Nat /\ z + n = 32
  OBVIOUS
<1> HIDE DEF z
<1>4. Zeros(z) \in Strings(z) /\ \A i \in 1..z : Zeros(z)[i] = 0
  BY <1>3, ZerosOf
<1>5. /\ p \in Strings(z + n)
      /\ \A i \in 1..z : p[i] = Zeros(z)[i]
      /\ \A i \in 1..n : p[z + i] = b[i]
  <2> DEFINE y == Zeros(z)
  <2>1. z \in Nat /\ n \in Nat /\ y \in Strings(z) /\ b \in Strings(n)
    BY <1>3, <1>4
  <2> HIDE DEF y
  <2>2. /\ y \o b \in Strings(z + n)
        /\ \A i \in 1..z : (y \o b)[i] = y[i]
        /\ \A i \in 1..n : (y \o b)[z + i] = b[i]
    BY ONLY <2>1, Joined
  <2> QED
    BY ONLY <2>2 DEF y
<1> HIDE DEF p
<1>6. p \in Strings(32)
  BY <1>3, <1>5
<1>7. Carries(p, z, b)
  <2>1. Len(p) = 32
    BY <1>6 DEF Strings
  <2> QED
    BY <1>1, <1>3, <1>5, <2>1 DEF Carries
<1>8. \A i \in 1..z : p[i] = 0
  BY <1>4, <1>5
<1> QED
  BY <1>2, <1>6, <1>7, <1>8 DEF z

\* A word is cut out where it stands.
LEMMA WordCut ==
  ASSUME NEW d \in Seq(Byte), NEW at \in Nat, NEW x \in Strings(32), Carries(d, at, x)
  PROVE  WordAt(d, at) = x
<1> DEFINE w == 32  q == SubSeq(d, at + 1, at + w)
<1>1. w \in Nat /\ x \in Strings(w)
  OBVIOUS
<1>2. WordAt(d, at) = q
  BY DEF WordAt
<1> HIDE DEF w
<1>3. q = x
  BY <1>1, CutOut
<1> HIDE DEF q
<1> QED
  BY <1>2, <1>3

\* The k-th argument of a call, where it is a word.
LEMMA ArgumentWord ==
  ASSUME NEW d \in Seq(Byte), NEW x \in Strings(32), NEW k \in Nat, k >= 1,
         NEW from \in Nat, from = 4 + 32 * (k - 1), Carries(d, from, x)
  PROVE  AbiWord(Arguments(d), k) = x
<1> DEFINE at == 32 * (k - 1)
<1>0. at \in Nat /\ Carries(d, 4 + at, x) /\ 32 \in Nat
  OBVIOUS
<1> HIDE DEF at
<1>1. Arguments(d) \in Seq(Byte) /\ Carries(Arguments(d), at, x)
  BY <1>0, ArgumentsCarry
<1>2. WordAt(Arguments(d), at) = x
  BY <1>0, <1>1, WordCut
<1> QED
  BY <1>2 DEF AbiWord, at

\* The low eight bytes of a padded amount.
LEMMA LowBytes ==
  ASSUME NEW b \in Strings(8)
  PROVE  SubSeq(LeftPad(b), 25, 32) = b
<1> DEFINE l == 8  p == LeftPad(b)  z == 32 - l  from == z + 1  to == z + l  q == SubSeq(p, from, to)
<1>1. l \in Nat /\ l <= 32 /\ z \in Nat /\ b \in Strings(l) /\ from = 25 /\ to = 32
  OBVIOUS
<1> HIDE DEF l, p, q
<1>2. p \in Strings(32) /\ Carries(p, z, b)
  BY <1>1, LeftPadOf DEF p
<1>3. p \in Seq(Byte)
  BY <1>2 DEF Strings
<1> HIDE DEF z
<1>4. q = b
  BY <1>1, <1>2, <1>3, CutOut DEF q
<1> HIDE DEF from, to
<1>5. SubSeq(p, 25, 32) = q
  BY <1>1 DEF q
<1> QED
  BY <1>4, <1>5 DEF p

\* A string that is put together from two.
Parts(y, x, w) == y = x \o w

\* Lengths add up.
LEMMA Appended ==
  ASSUME NEW n \in Nat, NEW x \in Strings(n), NEW l \in Nat, NEW w \in Strings(l),
         NEW y, Parts(y, x, w), NEW total \in Nat, total = n + l
  PROVE  y \in Strings(total)
<1>1. x \o w \in Strings(n + l)
  BY Joined
<1> QED
  BY <1>1 DEF Parts

\* A string of a known length stands in itself.
LEMMA Whole ==
  ASSUME NEW n \in Nat, NEW d \in Strings(n)
  PROVE  d \in Seq(Byte) /\ Carries(d, 0, d)
<1>1. d \in Seq(Byte)
  BY DEF Strings
<1> QED
  BY <1>1, CarriesItself

\* In a string that is put together, both parts are found.
LEMMA Prefixed ==
  ASSUME NEW n \in Nat, NEW x \in Strings(n), NEW l \in Nat, NEW w \in Strings(l),
         NEW d \in Seq(Byte), NEW y, Carries(d, 0, y), Parts(y, x, w)
  PROVE  Carries(d, 0, x) /\ Carries(d, n, w)
<1>1. Carries(d, 0, x \o w) /\ 0 + n = n
  BY DEF Parts
<1>2. Carries(d, 0, x) /\ Carries(d, 0 + n, w)
  BY <1>1, CarriesParts
<1> QED
  BY <1>1, <1>2

\* The first four bytes of a call are its selector.
LEMMA SelectorRead ==
  ASSUME NEW d \in Seq(Byte), NEW s \in Strings(4), Carries(d, 0, s)
  PROVE  SubSeq(d, 1, 4) = s
<1> DEFINE w == 4  one == 0 + 1  four == 0 + w
<1>1. w \in Nat /\ s \in Strings(w) /\ one = 1 /\ four = 4
  OBVIOUS
<1> HIDE DEF w
<1>2. SubSeq(d, one, four) = s
  BY <1>1, CutOut
<1> HIDE DEF one, four
<1> QED
  BY <1>1, <1>2

(***************************************************************************)
(* The three calls.                                                        *)
(***************************************************************************)
\* Addresses are 20 bytes, the recipient is 32, a condition id at most 32.
LEMMA RedemptionTypes ==
  /\ \A m \in Markets : \E k \in Nat : k <= 32 /\ m \in Strings(k)
  /\ Ctf \in Strings(20) /\ Usdc \in Strings(20) /\ TokenMessenger \in Strings(20)
  /\ Recipient \in Strings(32)
<1>1. \A m \in Markets : \E k \in Nat : k <= 32 /\ m \in Strings(k)
  <2> TAKE m \in Markets
  <2>1. m \in Seq(Byte) /\ Len(m) <= 32
    BY RedemptionAssumption
  <2> QED
    BY <2>1, StringOf
<1>2. \A a \in {Ctf, Usdc, TokenMessenger} : a \in Strings(20)
  BY RedemptionAssumption DEF Strings
<1>3. Recipient \in Strings(32)
  BY RedemptionAssumption DEF Strings
<1> QED
  BY <1>1, <1>2, <1>3

\* All of them are padded to words.
LEMMA PaddedTypes ==
  /\ LeftPad(Usdc) \in Strings(32) /\ LeftPad(TokenMessenger) \in Strings(32)
  /\ \A m \in Markets : LeftPad(m) \in Strings(32)
  /\ \A b \in Strings(8) : LeftPad(b) \in Strings(32)
<1>1. 20 \in Nat /\ 20 <= 32 /\ 8 \in Nat /\ 8 <= 32
  OBVIOUS
<1>2. LeftPad(Usdc) \in Strings(32) /\ LeftPad(TokenMessenger) \in Strings(32)
  BY <1>1, RedemptionTypes, LeftPadOf
<1>3. \A b \in Strings(8) : LeftPad(b) \in Strings(32)
  BY <1>1, LeftPadOf
<1>4. \A m \in Markets : LeftPad(m) \in Strings(32)
  BY RedemptionTypes, LeftPadOf
<1> QED
  BY <1>2, <1>3, <1>4

\* A transaction that was sent is executed as the call it was made of.
LEMMA SentIsCall ==
  ASSUME NEW env \in Envelopes, NEW to \in Strings(20),
         NEW n \in Nat, n < 15 * 65536, NEW d \in Strings(n)
  PROVE  Sent(env, to, d).to = to /\ Sent(env, to, d).data = d
<1>1. Sent(env, to, d) = [to |-> to, data |-> d]
  BY NodeExecutes DEF Sent
<1> QED
  BY <1>1

\* approve: the spender and the amount are read as they were written.
LEMMA ApproveIsRead ==
  ASSUME NEW env \in Envelopes, NEW amount \in Strings(8)
  PROVE  UsdcReads(Sent(env, Usdc, ApproveCalldata(TokenMessenger, amount)))
           = [spender |-> LeftPad(TokenMessenger), amount |-> LeftPad(amount)]
<1> DEFINE x == LeftPad(TokenMessenger)  y == LeftPad(amount)
           d1 == Approve \o x
           d2 == d1 \o y
           call == Sent(env, Usdc, d2)
<1>1. Approve \in Strings(4) /\ x \in Strings(32) /\ y \in Strings(32)
  BY PaddedTypes, ByteIsNumber, FourBytes DEF Approve
<1>2. ApproveCalldata(TokenMessenger, amount) = d2
  BY DEF ApproveCalldata
<1>3. Parts(d1, Approve, x) /\ Parts(d2, d1, y)
  BY DEF Parts
<1> HIDE DEF x, y, d1, d2
<1>4. d1 \in Strings(36) /\ d2 \in Strings(68)
  BY <1>1, <1>3, Appended
<1>5. d2 \in Seq(Byte) /\ Carries(d2, 0, d2)
  BY <1>4, Whole
<1>6. Carries(d2, 0, d1) /\ Carries(d2, 36, y)
  BY <1>1, <1>3, <1>4, <1>5, Prefixed
<1>7. Carries(d2, 0, Approve) /\ Carries(d2, 4, x)
  BY <1>1, <1>3, <1>5, <1>6, Prefixed
<1>8. SubSeq(d2, 1, 4) = Approve
  BY <1>1, <1>5, <1>7, SelectorRead
<1>9. AbiWord(Arguments(d2), 1) = x
  <2>1. 4 \in Nat /\ 1 \in Nat /\ 1 >= 1 /\ 4 = 4 + 32 * (1 - 1)
    OBVIOUS
  <2> QED
    BY <1>1, <1>5, <1>7, <2>1, ArgumentWord
<1>10. AbiWord(Arguments(d2), 2) = y
  <2>1. 36 \in Nat /\ 2 \in Nat /\ 2 >= 1 /\ 36 = 4 + 32 * (2 - 1)
    OBVIOUS
  <2> QED
    BY <1>1, <1>5, <1>6, <2>1, ArgumentWord
<1>11. call.to = Usdc /\ call.data = d2
  <2>1. 68 \in Nat /\ 68 < 15 * 65536
    OBVIOUS
  <2> QED
    BY <1>4, <2>1, RedemptionTypes, SentIsCall
<1> HIDE DEF call
<1>12. UsdcReads(call) = [spender |-> x, amount |-> y]
  BY <1>8, <1>9, <1>10, <1>11 DEF UsdcReads
<1> QED
  BY <1>2, <1>12 DEF call, x, y

\* depositForBurn: amount, domain, recipient and token are read as written.
LEMMA BurnIsRead ==
  ASSUME NEW env \in Envelopes, NEW amount \in Strings(8)
  PROVE  TokenMessengerReads(Sent(env, TokenMessenger, DepositForBurnCalldata(amount, Recipient, Usdc)))
           = [amount |-> LeftPad(amount), domain |-> 5, recipient |-> Recipient,
              token |-> LeftPad(Usdc)]
<1> DEFINE x == LeftPad(amount)  y == LeftPad(Usdc)
           d1 == DepositForBurn \o x
           d2 == d1 \o Word(5)
           d3 == d2 \o Recipient
           d4 == d3 \o y
           call == Sent(env, TokenMessenger, d4)
<1>1. /\ DepositForBurn \in Strings(4) /\ x \in Strings(32) /\ y \in Strings(32)
      /\ Word(5) \in Strings(32) /\ Recipient \in Strings(32)
  BY PaddedTypes, RedemptionTypes, WordOf, ByteIsNumber, FourBytes DEF DepositForBurn
<1>2. DepositForBurnCalldata(amount, Recipient, Usdc) = d4
  BY DEF DepositForBurnCalldata
<1>3. /\ Parts(d1, DepositForBurn, x) /\ Parts(d2, d1, Word(5))
      /\ Parts(d3, d2, Recipient) /\ Parts(d4, d3, y)
  BY DEF Parts
<1> HIDE DEF x, y, d1, d2, d3, d4
<1>4. d1 \in Strings(36) /\ d2 \in Strings(68)
  BY <1>1, <1>3, Appended
<1>5. d3 \in Strings(100) /\ d4 \in Strings(132)
  BY <1>1, <1>3, <1>4, Appended
<1>6. d4 \in Seq(Byte) /\ Carries(d4, 0, d4)
  BY <1>5, Whole
<1>7. Carries(d4, 0, d3) /\ Carries(d4, 100, y)
  BY <1>1, <1>3, <1>5, <1>6, Prefixed
<1>8. Carries(d4, 0, d2) /\ Carries(d4, 68, Recipient)
  BY <1>1, <1>3, <1>4, <1>6, <1>7, Prefixed
<1>9. Carries(d4, 0, d1) /\ Carries(d4, 36, Word(5))
  BY <1>1, <1>3, <1>4, <1>6, <1>8, Prefixed
<1>10. Carries(d4, 0, DepositForBurn) /\ Carries(d4, 4, x)
  BY <1>1, <1>3, <1>6, <1>9, Prefixed
<1>11. SubSeq(d4, 1, 4) = DepositForBurn
  BY <1>1, <1>6, <1>10, SelectorRead
<1>12. AbiWord(Arguments(d4), 1) = x
  <2>1. 4 \in Nat /\ 1 \in Nat /\ 1 >= 1 /\ 4 = 4 + 32 * (1 - 1)
    OBVIOUS
  <2> QED
    BY <1>1, <1>6, <1>10, <2>1, ArgumentWord
<1>13. NumberAt(Arguments(d4), 32) = 5
  <2>1. Carries(d4, 4 + 32, Word(5))
    BY <1>9
  <2> QED
    BY <1>6, <2>1, ArgumentNumber
<1>14. AbiWord(Arguments(d4), 3) = Recipient
  <2>1. 68 \in Nat /\ 3 \in Nat /\ 3 >= 1 /\ 68 = 4 + 32 * (3 - 1)
    OBVIOUS
  <2> QED
    BY <1>1, <1>6, <1>8, <2>1, ArgumentWord
<1>15. AbiWord(Arguments(d4), 4) = y
  <2>1. 100 \in Nat /\ 4 \in Nat /\ 4 >= 1 /\ 100 = 4 + 32 * (4 - 1)
    OBVIOUS
  <2> QED
    BY <1>1, <1>6, <1>7, <2>1, ArgumentWord
<1>16. call.to = TokenMessenger /\ call.data = d4
  <2>1. 132 \in Nat /\ 132 < 15 * 65536
    OBVIOUS
  <2> QED
    BY <1>5, <2>1, RedemptionTypes, SentIsCall
<1> HIDE DEF call
<1>17. TokenMessengerReads(call) = [amount |-> x, domain |-> 5, recipient |-> Recipient, token |-> y]
  BY <1>11, <1>12, <1>13, <1>14, <1>15, <1>16 DEF TokenMessengerReads
<1> QED
  BY <1>2, <1>17 DEF call, x, y

\* A list of one string is that string, put together.
LEMMA FlattenOne ==
  ASSUME NEW w \in Seq(Byte), NEW items, NEW n, n = 1, Len(items) = n, items[1] = w
  PROVE  FlattenSeq(items) = w
<1>1. \A k \in 1..n : items[k] \in Seq(Byte)
  OBVIOUS
<1>2. n \in Nat /\ n # 0
  OBVIOUS
<1>3. PICK f : Joins(f, items, n) /\ FlattenSeq(items) = f[n]
  BY <1>1, <1>2, Flattened
<1>4. f[0] = <<>> /\ f[1] = f[0] \o items[1]
  <2>1. 1 \in 1..n /\ 1 - 1 = 0
    OBVIOUS
  <2> QED
    BY <1>3, <2>1 DEF Joins
<1>5. <<>> \o w = w
  BY ConcatEmptySeq
<1> QED
  BY <1>3, <1>4, <1>5

\* redeemPositions: whatever is read of it are USDC, no parent, the market and
\* the one index set.
LEMMA RedeemIsRead ==
  ASSUME NEW env \in Envelopes, NEW id \in Markets, NEW set \in {1, 2}
  PROVE  CtfReads(Sent(env, Ctf, RedeemCalldata(Usdc, id, <<set>>)))
           \in {NoCall, [collateral |-> LeftPad(Usdc), parent |-> Zeros(32),
                         condition |-> LeftPad(id), sets |-> <<set>>]}
<1> DEFINE x == LeftPad(Usdc)  y == LeftPad(id)  z == Zeros(32)  w == Word(set)
           d1 == RedeemPositions \o x
           d2 == d1 \o z
           d3 == d2 \o y
           d4 == d3 \o Word(128)
           d5 == d4 \o Word(1)
           d6 == d5 \o w
           call == Sent(env, Ctf, d6)
<1>1. /\ RedeemPositions \in Strings(4) /\ x \in Strings(32) /\ y \in Strings(32)
      /\ Word(128) \in Strings(32) /\ Word(1) \in Strings(32)
  BY PaddedTypes, WordOf, ByteIsNumber, FourBytes DEF RedeemPositions
<1>2. w \in Strings(32) /\ z \in Strings(32)
  BY WordOf, ZerosOf
<1>3. RedeemCalldata(Usdc, id, <<set>>) = d6
  <2> DEFINE items == [i \in DOMAIN <<set>> |-> Word(<<set>>[i])]
  <2>1. Len(<<set>>) = 1 /\ \E n : n = 1 /\ Len(items) = n /\ items[1] = w
    OBVIOUS
  <2>2. w \in Seq(Byte)
    BY <1>2 DEF Strings
  <2>3. FlattenSeq(items) = w
    <3> HIDE DEF items, w
    <3> QED
      BY <2>1, <2>2, FlattenOne
  <2> QED
    BY <2>1, <2>3 DEF RedeemCalldata
<1>4. /\ Parts(d1, RedeemPositions, x) /\ Parts(d2, d1, z) /\ Parts(d3, d2, y)
      /\ Parts(d4, d3, Word(128)) /\ Parts(d5, d4, Word(1)) /\ Parts(d6, d5, w)
  BY DEF Parts
<1> HIDE DEF x, y, z, w, d1, d2, d3, d4, d5, d6
<1>5. d1 \in Strings(36) /\ d2 \in Strings(68)
  BY <1>1, <1>2, <1>4, Appended
<1>6. d3 \in Strings(100) /\ d4 \in Strings(132)
  BY <1>1, <1>4, <1>5, Appended
<1>7. d5 \in Strings(164) /\ d6 \in Strings(196)
  BY <1>1, <1>2, <1>4, <1>6, Appended
<1>8. d6 \in Seq(Byte) /\ Carries(d6, 0, d6)
  BY <1>7, Whole
<1>9. Carries(d6, 0, d5) /\ Carries(d6, 164, w)
  BY <1>2, <1>4, <1>7, <1>8, Prefixed
<1>10. Carries(d6, 0, d4) /\ Carries(d6, 132, Word(1))
  BY <1>1, <1>4, <1>6, <1>8, <1>9, Prefixed
<1>11. Carries(d6, 0, d3) /\ Carries(d6, 100, Word(128))
  BY <1>1, <1>4, <1>6, <1>8, <1>10, Prefixed
<1>12. Carries(d6, 0, d2) /\ Carries(d6, 68, y)
  BY <1>1, <1>4, <1>5, <1>8, <1>11, Prefixed
<1>13. Carries(d6, 0, d1) /\ Carries(d6, 36, z)
  BY <1>2, <1>4, <1>5, <1>8, <1>12, Prefixed
<1>14. Carries(d6, 4, x)
  BY <1>1, <1>4, <1>8, <1>13, Prefixed
<1> DEFINE args == Arguments(d6)
<1>15. AbiWord(args, 1) = x
  <2>1. 4 \in Nat /\ 1 \in Nat /\ 1 >= 1 /\ 4 = 4 + 32 * (1 - 1)
    OBVIOUS
  <2> QED
    BY <1>1, <1>8, <1>14, <2>1, ArgumentWord
<1>16. AbiWord(args, 2) = z
  <2>1. 36 \in Nat /\ 2 \in Nat /\ 2 >= 1 /\ 36 = 4 + 32 * (2 - 1)
    OBVIOUS
  <2> QED
    BY <1>2, <1>8, <1>13, <2>1, ArgumentWord
<1>17. AbiWord(args, 3) = y
  <2>1. 68 \in Nat /\ 3 \in Nat /\ 3 >= 1 /\ 68 = 4 + 32 * (3 - 1)
    OBVIOUS
  <2> QED
    BY <1>1, <1>8, <1>12, <2>1, ArgumentWord
<1>18. NumberAt(args, 96) = 128 /\ NumberAt(args, 128) = 1 /\ NumberAt(args, 160) = set
  <2>1. Carries(d6, 4 + 96, Word(128)) /\ Carries(d6, 4 + 128, Word(1))
    BY <1>10, <1>11
  <2>2. Carries(d6, 4 + 160, Word(set)) /\ set \in Nat /\ set < 32768 * 65536
    BY <1>9 DEF w
  <2>3. NumberAt(args, 96) = 128
    BY <1>8, <2>1, ArgumentNumber
  <2>4. NumberAt(args, 128) = 1
    BY <1>8, <2>1, ArgumentNumber
  <2>5. NumberAt(args, 160) = set
    BY <1>8, <2>2, ArgumentNumber
  <2> QED
    BY <2>3, <2>4, <2>5
<1>19. AbiArray(args, 4) = <<set>>
  <2>1. 32 * (4 - 1) = 96 /\ 128 + 32 * 1 = 160
    OBVIOUS
  <2> HIDE DEF args
  <2>2. AbiArray(args, 4) = [i \in 1..1 |-> NumberAt(args, 128 + 32 * i)]
    BY <1>18, <2>1 DEF AbiArray
  <2>3. \A i \in 1..1 : NumberAt(args, 128 + 32 * i) = set
    BY <1>18, <2>1
  <2>4. [i \in 1..1 |-> NumberAt(args, 128 + 32 * i)] = [i \in 1..1 |-> set]
    BY <2>3
  <2>5. [i \in 1..1 |-> set] = <<set>>
    OBVIOUS
  <2> QED
    BY <2>2, <2>4, <2>5
<1>20. call.data = d6
  <2>1. 196 \in Nat /\ 196 < 15 * 65536
    OBVIOUS
  <2> QED
    BY <1>7, <2>1, RedemptionTypes, SentIsCall
<1> HIDE DEF call, args
<1>21. CtfReads(call) \in {NoCall, [collateral |-> x, parent |-> z, condition |-> y, sets |-> <<set>>]}
  BY <1>15, <1>16, <1>17, <1>19, <1>20 DEF CtfReads, args
<1> QED
  BY <1>3, <1>21 DEF call, x, y, z

(***************************************************************************)
(* The event of the resolution.                                            *)
(***************************************************************************)
\* A list of two strings is the two, put together.
LEMMA FlattenTwo ==
  ASSUME NEW v \in Seq(Byte), NEW w \in Seq(Byte), NEW items, NEW n, n = 2, Len(items) = n,
         items[1] = v, items[2] = w
  PROVE  FlattenSeq(items) = v \o w
<1>1. \A k \in 1..n : items[k] \in Seq(Byte)
  <2> TAKE k \in 1..n
  <2>1. k = 1 \/ k = 2
    OBVIOUS
  <2> QED
    BY <2>1
<1>2. n \in Nat /\ n # 0
  OBVIOUS
<1>3. PICK f : Joins(f, items, n) /\ FlattenSeq(items) = f[n]
  BY <1>1, <1>2, Flattened
<1>4. f[0] = <<>> /\ f[1] = f[0] \o items[1] /\ f[2] = f[1] \o items[2]
  <2>1. 1 \in 1..n /\ 2 \in 1..n /\ 1 - 1 = 0 /\ 2 - 1 = 1
    OBVIOUS
  <2> QED
    BY <1>3, <2>1 DEF Joins
<1>5. <<>> \o v = v
  BY ConcatEmptySeq
<1> QED
  BY <1>3, <1>4, <1>5

\* The entries of a pair.
LEMMA PairOf ==
  ASSUME NEW S, NEW r \in Seq(S), NEW n, n = 2, Len(r) = n
  PROVE  r[1] \in S /\ r[2] \in S
<1>1. 1 \in 1..n /\ 2 \in 1..n
  OBVIOUS
<1> QED
  BY <1>1, ElementOfSeq

\* A resolution is a pair of eight bytes each.
LEMMA ResolutionTypes ==
  ASSUME NEW r \in Resolutions
  PROVE  /\ r[1] \in Strings(8) /\ r[2] \in Strings(8)
         /\ \E n : n = 2 /\ Len(r) = n /\ DOMAIN r = 1..n
<1>1. r \in Seq(Seq(Byte)) /\ Len(r) = 2 /\ Len(r[1]) = 8 /\ Len(r[2]) = 8
  BY RedemptionAssumption
<1>2. r[1] \in Seq(Byte) /\ r[2] \in Seq(Byte)
  <2> DEFINE S == Seq(Byte)
  <2>1. r \in Seq(S) /\ \E n : n = 2 /\ Len(r) = n
    BY <1>1
  <2> HIDE DEF S
  <2>2. r[1] \in S /\ r[2] \in S
    BY <2>1, PairOf
  <2> QED
    BY <2>2 DEF S
<1> QED
  BY <1>1, <1>2 DEF Strings

\* The log of a resolution decodes, to a slot for each of the two sides that
\* holds what the market pays for it.
LEMMA EventIsDecoded ==
  ASSUME NEW r \in Resolutions, NEW i \in {1, 2}
  PROVE  /\ DecodePayoutNumerators(EventData(r)) # Error
         /\ i \in DOMAIN DecodePayoutNumerators(EventData(r))
         /\ DecodePayoutNumerators(EventData(r))[i] = r[i]
<1> DEFINE x == LeftPad(r[1])  y == LeftPad(r[2])
           w == Word(2)  v == Word(64)  u == x \o y
           d1 == w \o v
           d2 == d1 \o w
           d3 == d2 \o u
<1>1. w \in Strings(32) /\ v \in Strings(32) /\ x \in Strings(32) /\ y \in Strings(32)
  BY ResolutionTypes, PaddedTypes, WordOf
<1>2. EventData(r) = d3
  <2> DEFINE items == [k \in DOMAIN r |-> LeftPad(r[k])]
  <2>1. PICK n : n = 2 /\ Len(r) = n /\ DOMAIN r = 1..n
    BY ResolutionTypes
  <2>2. Len(items) = n /\ items[1] = x /\ items[2] = y
    BY <2>1
  <2>3. x \in Seq(Byte) /\ y \in Seq(Byte)
    BY <1>1 DEF Strings
  <2>4. FlattenSeq(items) = u
    <3> HIDE DEF items, x, y
    <3> QED
      BY <2>1, <2>2, <2>3, FlattenTwo
  <2>5. Len(r) = 2
    BY <2>1
  <2> QED
    BY <2>4, <2>5 DEF EventData
<1>3. Parts(d1, w, v) /\ Parts(d2, d1, w) /\ Parts(d3, d2, u) /\ Parts(u, x, y)
  BY DEF Parts
<1>4. SubSeq(x, 25, 32) = r[1] /\ SubSeq(y, 25, 32) = r[2]
  BY ResolutionTypes, LowBytes
<1> HIDE DEF x, y, w, v, u, d1, d2, d3
<1>5. u \in Strings(64) /\ d1 \in Strings(64)
  BY <1>1, <1>3, Appended
<1>6. d2 \in Strings(96)
  BY <1>1, <1>3, <1>5, Appended
<1>7. d3 \in Strings(160)
  BY <1>3, <1>5, <1>6, Appended
<1>8. d3 \in Seq(Byte) /\ Carries(d3, 0, d3)
  BY <1>7, Whole
<1>9. Carries(d3, 0, d2) /\ Carries(d3, 96, u)
  BY <1>3, <1>5, <1>6, <1>8, Prefixed
<1>10. Carries(d3, 0, d1) /\ Carries(d3, 64, w)
  BY <1>1, <1>3, <1>5, <1>8, <1>9, Prefixed
<1>11. Carries(d3, 32, v)
  BY <1>1, <1>3, <1>8, <1>10, Prefixed
<1>12. Carries(d3, 96, x) /\ Carries(d3, 128, y)
  <2>1. Carries(d3, 96, x \o y)
    BY <1>3, <1>9 DEF Parts
  <2>2. Carries(d3, 96, x) /\ Carries(d3, 96 + 32, y)
    BY <1>1, <1>8, <2>1, CarriesParts
  <2> QED
    BY <2>2
<1>13. UsizeAt(d3, 32) = 64 /\ UsizeAt(d3, 64) = 2
  BY <1>8, <1>10, <1>11, WordIsUsize DEF v, w
<1>14. WordAt(d3, 96) = x /\ WordAt(d3, 128) = y
  BY <1>1, <1>8, <1>12, WordCut
<1>15. DecodePayoutNumerators(d3) = [k \in 1..2 |-> SubSeq(WordAt(d3, 64 + 32 * k), 25, 32)]
  <2>1. Len(d3) = 160
    BY <1>7 DEF Strings
  <2>2. 64 + 32 <= 160 /\ 64 + 32 + 32 * 2 <= 160
    OBVIOUS
  <2>3. DecodePayoutNumerators(d3) =
          IF Len(d3) < 64 \/ Len(d3) < 64 + 32 \/ Len(d3) < 64 + 32 + 32 * 2 THEN Error
          ELSE [k \in 1..2 |-> SubSeq(WordAt(d3, 64 + 32 * k), 25, 32)]
    BY <1>13 DEF DecodePayoutNumerators
  <2> QED
    BY <2>1, <2>2, <2>3
<1>16. DecodePayoutNumerators(d3) # Error /\ i \in DOMAIN DecodePayoutNumerators(d3)
  <2>1. DOMAIN DecodePayoutNumerators(d3) = 1..2
    BY <1>15
  <2>2. DOMAIN Error = {} /\ i \in 1..2
    BY DEF Error
  <2> QED
    BY <2>1, <2>2
<1>17. 64 + 32 * 1 = 96 /\ 64 + 32 * 2 = 128
  OBVIOUS
<1>18. i = 1 => DecodePayoutNumerators(d3)[i] = r[i]
  <2>1. DecodePayoutNumerators(d3)[1] = SubSeq(WordAt(d3, 64 + 32 * 1), 25, 32)
    BY <1>15
  <2> QED
    BY <1>4, <1>14, <1>17, <2>1
<1>19. i = 2 => DecodePayoutNumerators(d3)[i] = r[i]
  <2>1. DecodePayoutNumerators(d3)[2] = SubSeq(WordAt(d3, 64 + 32 * 2), 25, 32)
    BY <1>15
  <2> QED
    BY <1>4, <1>14, <1>17, <2>1
<1> QED
  BY <1>2, <1>16, <1>18, <1>19

(***************************************************************************)
(* The redemption.                                                         *)
(***************************************************************************)
\* An answer to balanceOf is at most a word, and a whole one begins with zeros.
LEMMA ReplyTypes ==
  ASSUME NEW rep \in Replies
  PROVE  \E n \in Nat : /\ n <= 32 /\ rep \in Strings(n) /\ Len(rep) = n
                        /\ n = 32 => \A i \in 1..24 : rep[i] = 0
<1> DEFINE n == Len(rep)
<1>1. rep \in Seq(Byte) /\ n <= 32 /\ (n = 32 => \A i \in 1..24 : rep[i] = 0)
  BY RepliesAssumption
<1>2. n \in Nat /\ rep \in Strings(n) /\ Len(rep) = n
  BY <1>1, StringOf
<1> HIDE DEF n
<1> QED
  BY <1>1, <1>2

\* The balance that is burnt, padded again, is the answer it was read from.
LEMMA BalanceIsReply ==
  ASSUME NEW rep \in Replies, ~IsZero(UsdcBalance(rep))
  PROVE  UsdcBalance(rep) \in Strings(8) /\ LeftPad(UsdcBalance(rep)) = rep
<1> DEFINE from == 25  to == 32  bal == SubSeq(rep, from, to)
<1>1. PICK n \in Nat : /\ n <= 32 /\ rep \in Strings(n) /\ Len(rep) = n
                       /\ n = 32 => \A i \in 1..24 : rep[i] = 0
  BY ReplyTypes
<1>2. UsdcBalance(rep) = IF n < 32 THEN Zeros(8) ELSE bal
  BY <1>1 DEF UsdcBalance
<1>3. IsZero(Zeros(8))
  BY DEF IsZero, Zeros
<1>4. n = 32 /\ UsdcBalance(rep) = bal
  <2> HIDE DEF bal
  <2> QED
    BY <1>1, <1>2, <1>3
<1>5. rep \in Strings(to) /\ (\A i \in 1..24 : rep[i] = 0) /\ \A i \in from..to : rep[i] \in Byte
  <2>1. rep \in Strings(32) /\ \A i \in 1..24 : rep[i] = 0
    BY <1>1, <1>4
  <2>2. \A i \in 1..32 : rep[i] \in Byte
    BY <2>1, InString
  <2> QED
    BY <2>1, <2>2
<1>6. from \in Int /\ to \in Int /\ from <= to /\ (to - from) + 1 = 8
      /\ \A i \in 1..8 : from + i - 1 = 24 + i
  OBVIOUS
<1> HIDE DEF from, to
<1>7. bal \in Strings(8) /\ \A i \in 1..8 : bal[i] = rep[24 + i]
  <2>1. /\ bal \in Seq(Byte) /\ Len(bal) = IF from <= to THEN (to - from) + 1 ELSE 0
        /\ \A i \in 1..(to - from) + 1 : bal[i] = rep[from + i - 1]
    BY <1>5, <1>6, SubSeqProperties
  <2> HIDE DEF bal
  <2>2. Len(bal) = 8 /\ \A i \in 1..8 : bal[i] = rep[from + i - 1]
    BY <1>6, <2>1
  <2> QED
    BY <1>6, <2>1, <2>2 DEF Strings
<1> HIDE DEF bal
<1> DEFINE p == LeftPad(bal)
<1>8. p \in Strings(32) /\ (\A i \in 1..24 : p[i] = 0) /\ \A i \in 1..8 : p[24 + i] = bal[i]
  <2> DEFINE l == 8  z == 32 - l
  <2>1. l \in Nat /\ l <= 32 /\ bal \in Strings(l) /\ z = 24
    BY <1>7
  <2> HIDE DEF l
  <2>2. p \in Strings(32) /\ Carries(p, z, bal) /\ \A i \in 1..z : p[i] = 0
    BY <2>1, LeftPadOf
  <2> HIDE DEF z, p
  <2>3. Len(bal) = l
    BY <2>1 DEF Strings
  <2>4. \A i \in 1..l : p[z + i] = bal[i]
    BY <2>2, <2>3 DEF Carries
  <2> QED
    BY <2>1, <2>2, <2>4 DEF l
<1> HIDE DEF p
<1>9. p = rep
  <2>1. \A i \in 1..32 : p[i] = rep[i]
    <3> TAKE i \in 1..32
    <3>1. CASE i <= 24
      BY <1>5, <1>8, <3>1
    <3>2. CASE i > 24
      <4>1. i - 24 \in 1..8 /\ 24 + (i - 24) = i
        BY <3>2
      <4>2. p[24 + (i - 24)] = bal[i - 24] /\ bal[i - 24] = rep[24 + (i - 24)]
        BY <1>7, <1>8, <4>1
      <4> QED
        BY <4>1, <4>2
    <3> QED
      BY <3>1, <3>2
  <2> DEFINE w == 32
  <2>2. p \in Strings(w) /\ rep \in Strings(w) /\ \A i \in 1..w : p[i] = rep[i]
    BY <1>1, <1>4, <1>8, <2>1
  <2> HIDE DEF w
  <2>3. p \in Seq(Byte) /\ rep \in Seq(Byte) /\ Len(p) = Len(rep) /\ Len(p) = w
    BY <2>2 DEF Strings
  <2> QED
    BY <2>2, <2>3, SeqEqual
<1> QED
  BY <1>4, <1>7, <1>9 DEF p

\* What the contracts read is settled by the step that sends it, and nothing is
\* sent before.
NothingSentBefore ==
  /\ part = "awaiting" => redeemed = NoCall
  /\ part \in {"awaiting", "redeeming"} => approved = NoCall /\ burnt = NoCall

RedemptionInv ==
  RedemptionTypeOK /\ NothingSentBefore /\ RedeemsTheWin /\ BurnsTheBalance

\* Once the market is resolved the log decodes, and there is an index set, that
\* of the side bought, exactly if this side was paid.
LEMMA SetsOfTheWin ==
  ASSUME numerators \in Resolutions \cup {<<>>}, outcome \in {"Yes", "No"},
         IsResolved # None
  PROVE  LET slot == IF outcome = "Yes" THEN 1 ELSE 2
         IN  /\ slot \in {1, 2} /\ 2^(slot - 1) = slot /\ IsResolved # Error
             /\ IndexSetsForOutcome(IsResolved) =
                  IF IsZero(numerators[slot]) THEN Error ELSE <<slot>>
             /\ <<slot>> # Error
<1> DEFINE slot == IF outcome = "Yes" THEN 1 ELSE 2
           found == GetLogs(ConditionResolutionTopic, market)
<1>1. found # <<>> /\ IsResolved = DecodePayoutNumerators(found[1])
  BY DEF IsResolved
<1>2. numerators # <<>> /\ found = <<EventData(numerators)>>
  BY <1>1 DEF GetLogs
<1>3. IsResolved = DecodePayoutNumerators(EventData(numerators)) /\ numerators \in Resolutions
  <2> HIDE DEF found
  <2> QED
    BY <1>1, <1>2
<1>4. slot \in {1, 2}
  OBVIOUS
<1>5. IndexSetsForOutcome(IsResolved) = IF Pays(IsResolved, slot) THEN <<slot>> ELSE Error
  BY DEF IndexSetsForOutcome
<1>10. <<slot>> # Error
  BY DEF Error
<1> HIDE DEF slot
<1>6. IsResolved # Error /\ slot \in DOMAIN IsResolved /\ IsResolved[slot] = numerators[slot]
  BY <1>3, <1>4, EventIsDecoded
<1>7. Pays(IsResolved, slot) <=> ~IsZero(numerators[slot])
  BY <1>6 DEF Pays
<1>8. 2^0 = 1 /\ 2^1 = 2
  OBVIOUS
<1>9. 2^(slot - 1) = slot
  <2>1. CASE slot = 1
    <3>1. slot - 1 = 0
      BY <2>1
    <3> QED
      BY <1>8, <2>1, <3>1
  <2>2. CASE slot = 2
    <3>1. slot - 1 = 1
      BY <2>2
    <3> QED
      BY <1>8, <2>2, <3>1
  <2> QED
    BY <1>4, <2>1, <2>2
<1> QED
  BY <1>4, <1>5, <1>6, <1>7, <1>9, <1>10 DEF slot

\* The invariant holds when a redemption begins.
LEMMA RedemptionStarts == RedemptionInit => RedemptionInv
<1> SUFFICES ASSUME RedemptionInit PROVE RedemptionInv
  OBVIOUS
<1>1. /\ outcome \in {"Yes", "No"} /\ market \in Markets /\ numerators = <<>>
      /\ part = IF leg = "out" THEN "bridging" ELSE "awaiting"
      /\ redeemed = NoCall /\ reply = <<>> /\ approved = NoCall /\ burnt = NoCall
      /\ stage = "start" /\ leg \in {"out", "back"}
  BY DEF RedemptionInit, Init
<1>2. RedemptionTypeOK
  BY <1>1 DEF RedemptionTypeOK
<1> QED
  BY <1>1, <1>2 DEF RedemptionInv, NothingSentBefore, RedeemsTheWin, BurnsTheBalance

\* Every step of a redemption keeps the invariant.
LEMMA RedemptionSteps ==
  ASSUME RedemptionInv, [RedemptionNext]_allVars
  PROVE  RedemptionInv'
<1> USE DEF RedemptionInv, NothingSentBefore
<1>1. CASE Resolve
  BY <1>1 DEF Resolve, vars, RedemptionTypeOK, RedeemsTheWin, BurnsTheBalance
<1>2. CASE AwaitResolution
  <2> DEFINE sets == IF IsResolved = Error THEN Error ELSE IndexSetsForOutcome(IsResolved)
  <2>1. /\ part = "awaiting" /\ redeemed = NoCall
        /\ UNCHANGED <<vars, outcome, market, numerators, reply, approved, burnt>>
    BY <1>2 DEF AwaitResolution
  <2>2. CASE sets = Error /\ part' = "refused" /\ UNCHANGED redeemed
    <3> DEFINE slot == IF outcome = "Yes" THEN 1 ELSE 2
    <3>1. IsZero(numerators[slot])
      <4>1. /\ numerators \in Resolutions \cup {<<>>} /\ outcome \in {"Yes", "No"}
            /\ IsResolved # None
        BY <1>2 DEF AwaitResolution, RedemptionTypeOK
      <4>2. IsResolved # Error /\ <<slot>> # Error
            /\ IndexSetsForOutcome(IsResolved) =
                 IF IsZero(numerators[slot]) THEN Error ELSE <<slot>>
        BY <4>1, SetsOfTheWin
      <4> QED
        BY <2>2, <4>2
    <3>2. RedeemsTheWin'
      <4>1. numerators' = numerators /\ outcome' = outcome /\ redeemed' = NoCall
        BY <2>1, <2>2
      <4> QED
        BY <3>1, <4>1 DEF RedeemsTheWin, IsZero
    <3>3. RedemptionTypeOK' /\ NothingSentBefore' /\ BurnsTheBalance'
      BY <2>1, <2>2 DEF vars, RedemptionTypeOK, BurnsTheBalance
    <3> QED
      BY <3>2, <3>3
  <2>3. CASE /\ sets # Error
             /\ \E env \in Envelopes :
                  redeemed' = CtfReads(Sent(env, Ctf, RedeemCalldata(Usdc, market, sets)))
             /\ part' = IF redeemed' = NoCall THEN "failed" ELSE "redeeming"
    <3> DEFINE slot == IF outcome = "Yes" THEN 1 ELSE 2
               read == [collateral |-> LeftPad(Usdc), parent |-> Zeros(32),
                        condition |-> LeftPad(market), sets |-> <<slot>>]
    <3>1. /\ numerators \in Resolutions \cup {<<>>} /\ outcome \in {"Yes", "No"}
          /\ market \in Markets /\ IsResolved # None
      BY <1>2 DEF AwaitResolution, RedemptionTypeOK
    <3>2. IsResolved # Error /\ IndexSetsForOutcome(IsResolved) # Error
          /\ sets = IndexSetsForOutcome(IsResolved)
      BY <2>3
    <3>3. slot \in {1, 2} /\ 2^(slot - 1) = slot /\ sets = <<slot>> /\ ~IsZero(numerators[slot])
      <4>1. /\ slot \in {1, 2} /\ 2^(slot - 1) = slot
            /\ IndexSetsForOutcome(IsResolved) =
                 IF IsZero(numerators[slot]) THEN Error ELSE <<slot>>
        BY <3>1, SetsOfTheWin
      <4> HIDE DEF slot, sets
      <4> QED
        BY <3>2, <4>1
    <3> HIDE DEF sets
    <3>4. redeemed' \in {NoCall, read}
      <4>1. PICK env \in Envelopes :
              redeemed' = CtfReads(Sent(env, Ctf, RedeemCalldata(Usdc, market, sets)))
        BY <2>3
      <4> HIDE DEF slot
      <4> QED
        BY <3>1, <3>3, <4>1, RedeemIsRead
    <3>5. RedeemsTheWin'
      <4>1. numerators' = numerators /\ outcome' = outcome /\ market' = market
        BY <2>1
      <4>2. redeemed' # NoCall => ~IsZero(numerators[slot]) /\ redeemed' = read
                                  /\ <<slot>> = <<2^(slot - 1)>>
        BY <3>3, <3>4
      <4> QED
        BY <2>3, <4>1, <4>2 DEF RedeemsTheWin, IsZero
    <3>6. RedemptionTypeOK' /\ NothingSentBefore'
      BY <2>1, <2>3 DEF vars, RedemptionTypeOK
    <3>7. BurnsTheBalance'
      BY <2>1 DEF BurnsTheBalance
    <3> QED
      BY <3>5, <3>6, <3>7
  <2> QED
    BY <1>2, <2>2, <2>3 DEF AwaitResolution
<1>3. CASE ReturnBurn
  <2> DEFINE amount == UsdcBalance(reply')
  <2>1. /\ part = "redeeming" /\ approved = NoCall /\ burnt = NoCall
        /\ reply' \in Replies /\ ~IsZero(amount)
        /\ part' \in {"failed", "bridging"}
        /\ UNCHANGED <<vars, outcome, market, numerators, redeemed>>
    BY <1>3 DEF ReturnBurn
  <2>2. PICK env \in Envelopes :
          /\ approved' = UsdcReads(Sent(env, Usdc, ApproveCalldata(TokenMessenger, amount)))
          /\ \/ UNCHANGED burnt
             \/ burnt' = TokenMessengerReads(
                   Sent(env, TokenMessenger, DepositForBurnCalldata(amount, Recipient, Usdc)))
    BY <1>3 DEF ReturnBurn
  <2>3. amount \in Strings(8) /\ LeftPad(amount) = reply'
    BY <2>1, BalanceIsReply
  <2> HIDE DEF amount
  <2>4. approved' = [spender |-> LeftPad(TokenMessenger), amount |-> reply']
    BY <2>2, <2>3, ApproveIsRead
  <2>5. \/ burnt' = NoCall
        \/ burnt' = [amount |-> reply', domain |-> 5, recipient |-> Recipient,
                     token |-> LeftPad(Usdc)]
    BY <2>1, <2>2, <2>3, BurnIsRead
  <2>6. BurnsTheBalance'
    BY <2>4, <2>5 DEF BurnsTheBalance
  <2>7. RedeemsTheWin'
    BY <2>1 DEF RedeemsTheWin
  <2>8. RedemptionTypeOK' /\ NothingSentBefore'
    BY <2>1 DEF vars, RedemptionTypeOK
  <2> QED
    BY <2>6, <2>7, <2>8
<1>4. CASE RequestFails
  BY <1>4 DEF RequestFails, vars, RedemptionTypeOK, RedeemsTheWin, BurnsTheBalance
<1>5. CASE Bridge
  <2>1. part = "bridging" /\ UNCHANGED rvars /\ leg' = leg
    BY <1>5 DEF Bridge, Next, Burn, Read, NoReceipt, Relay, Fail
  <2> QED
    BY <2>1 DEF rvars, RedemptionTypeOK, RedeemsTheWin, BurnsTheBalance
<1>6. CASE UNCHANGED allVars
  BY <1>6 DEF allVars, vars, rvars, RedemptionTypeOK, RedeemsTheWin, BurnsTheBalance
<1> QED
  BY <1>1, <1>2, <1>3, <1>4, <1>5, <1>6 DEF RedemptionNext

\* Over every behaviour the redemption keeps its types and its calls mean what
\* the code meant.
THEOREM RedemptionInvariant == RedemptionSpec => []RedemptionInv
<1> QED
  BY RedemptionStarts, RedemptionSteps, PTL DEF RedemptionSpec

\* Types, and a burnt or bridged return has been redeemed before.
THEOREM RedemptionTypeCorrect == RedemptionSpec => []RedemptionTypeOK
<1>1. RedemptionInv => RedemptionTypeOK
  BY DEF RedemptionInv
<1> QED
  BY <1>1, RedemptionInvariant, PTL

\* Whatever the market, its resolution and the signatures: redeemPositions is
\* executed for the order's own market and side, and only if this side was paid;
\* and a position is refused only if its side was not.
THEOREM ExactlyTheWinIsRedeemed == RedemptionSpec => []RedeemsTheWin
<1>1. RedemptionInv => RedeemsTheWin
  BY DEF RedemptionInv
<1> QED
  BY <1>1, RedemptionInvariant, PTL

\* Whatever the answer to balanceOf: what is approved and what is burnt is that
\* balance to the last unit, for the executor's own account on Solana.
THEOREM BurnsTheWholeBalance == RedemptionSpec => []BurnsTheBalance
<1>1. RedemptionInv => BurnsTheBalance
  BY DEF RedemptionInv
<1> QED
  BY <1>1, RedemptionInvariant, PTL

\* With the redemption in front of it the transfer keeps its invariants: what is
\* relayed was emitted, and the money of a redeemed position does not arrive.
THEOREM TransferOfARedemption ==
  RedemptionSpec => [](TypeOK /\ RelayedIsEmitted /\ OutboundExact /\ NothingReturns)
  BY ImplementsTransfer, TransferTypeCorrect, OnlyEmittedIsRelayed, OutboundIsExact,
     NoTransferReturns, PTL

====
