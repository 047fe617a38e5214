---- MODULE Abi ----
(***************************************************************************)
(* Bytes as sequences of 0..255, the words of the EVM's ABI, and the four  *)
(* calls the router encodes for contracts on Polygon.  A u64 that is not   *)
(* computed with (an amount, a nonce) is its eight bytes, big endian.      *)
(***************************************************************************)
EXTENDS Integers, Sequences, SequencesExt

Byte == 0..255

Zeros(n) == [i \in 1..n |-> 0]

BytesOf(n) == <<n \div 16777216, (n \div 65536) % 256, (n \div 256) % 256, n % 256>>

BigEndian(bytes) ==
  LET value[i \in 0..Len(bytes)] == IF i = 0 THEN 0 ELSE 256 * value[i - 1] + bytes[i]
  IN  value[Len(bytes)]

LittleEndian(bytes) == BigEndian(Reverse(bytes))

\* pad32 of a length, an offset or an index set: all below 2^31.
Word(n) == Zeros(28) \o BytesOf(n)

LeftPad(bytes) == Zeros(32 - Len(bytes)) \o bytes

Pad(n) == ((n + 31) \div 32) * 32

Padded(bytes) == bytes \o Zeros(Pad(Len(bytes)) - Len(bytes))

WordAt(data, at) == SubSeq(data, at + 1, at + 32)

\* What the contracts read in a word; the router encodes no larger number.
NumberAt(data, at) == BigEndian(SubSeq(data, at + 29, at + 32))

\* u256_to_usize: the low half of a word, whatever the rest holds.
UsizeAt(data, at) == BigEndian(SubSeq(data, at + 25, at + 32))

----
\* The selectors, as the four bytes in front of the arguments.
ReceiveMessage  == <<87, 236, 253, 40>>
Approve         == <<9, 94, 167, 179>>
RedeemPositions == <<140, 93, 125, 55>>
DepositForBurn  == <<111, 211, 80, 78>>

\* Fault: the offset of the attestation forgets the padding of the message.
CalldataUnpadded(m, a) ==
  ReceiveMessage \o Word(64) \o Word(96 + Len(m))
    \o Word(Len(m)) \o Padded(m) \o Word(Len(a)) \o Padded(a)

\* receiveMessage(bytes message, bytes attestation)
Calldata(m, a) ==
  ReceiveMessage \o Word(64) \o Word(96 + Pad(Len(m)))
    \o Word(Len(m)) \o Padded(m) \o Word(Len(a)) \o Padded(a)

\* approve(address spender, uint256 amount)
ApproveCalldata(spender, amount) == Approve \o LeftPad(spender) \o LeftPad(amount)

\* depositForBurn(uint256 amount, uint32 domain, bytes32 recipient, address token)
DepositForBurnCalldata(amount, recipient, token) ==
  DepositForBurn \o LeftPad(amount) \o Word(5) \o recipient \o LeftPad(token)

\* redeemPositions(address collateral, bytes32 parent, bytes32 condition, uint256[] sets)
RedeemCalldata(collateral, condition, sets) ==
  RedeemPositions \o LeftPad(collateral) \o Zeros(32) \o LeftPad(condition)
    \o Word(128) \o Word(Len(sets)) \o FlattenSeq([i \in DOMAIN sets |-> Word(sets[i])])

----
(***************************************************************************)
(* How the contracts read the arguments, after the selector.               *)
(***************************************************************************)
Arguments(calldata) == SubSeq(calldata, 5, Len(calldata))

\* The k-th argument, a dynamic byte string.
AbiBytes(args, k) ==
  LET at == NumberAt(args, 32 * (k - 1))
  IN  SubSeq(args, at + 33, at + 32 + NumberAt(args, at))

\* The k-th argument, a dynamic array of numbers.
AbiArray(args, k) ==
  LET at == NumberAt(args, 32 * (k - 1))
  IN  [i \in 1..NumberAt(args, at) |-> NumberAt(args, at + 32 * i)]

\* The k-th argument, of fixed size.
AbiWord(args, k) == WordAt(args, 32 * (k - 1))

====
