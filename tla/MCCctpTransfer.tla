---- MODULE MCCctpTransfer ----
(***************************************************************************)
(* Messages of the real length and around the boundaries of a word and of  *)
(* a byte of the length; one or two signatures of the attesters.  Numbers  *)
(* of an envelope are zero, below 128, or longer than a byte; one of r and *)
(* s begins with a zero.                                                   *)
(***************************************************************************)
EXTENDS Redemption

Bytes(n) == [i \in 1..n |-> i % 251]

SomeMessages == {Bytes(n) : n \in {223, 224, 225, 248, 255, 256, 257}}

TwoSignatures == Bytes(130)

TransactionId == [i \in 1..64 |-> 255]

Address(k) == [i \in 1..20 |-> (k + i) % 256]

TheTransmitter == Address(1)
TheMessenger   == Address(40)
TheCtf         == Address(80)
TheUsdc        == Address(120)
TheRecipient   == [i \in 1..32 |-> 32 - i]

\* Anchor events of other programs, an ERC-20 Transfer, and an empty one.
SomeEvents == {[name |-> "other", data |-> d] :
                 d \in {<<>>, <<3, 0, 0, 0, 7, 7, 7, 7>>, Word(5), Word(32) \o Word(1) \o Word(0)}}

U64(n) == Zeros(4) \o BytesOf(n)

SomeEnvelopes ==
  {[nonce |-> U64(n), price |-> <<0, 0, 0, 8, 97, 196, 104, 0>>, limit |-> U64(66000),
    r |-> Zeros(z) \o [i \in 1..(32 - z) |-> 200 + i], s |-> [i \in 1..32 |-> i], rec |-> n % 2]
     : n \in {0, 127, 128, 256}, z \in {0, 2}}

\* A full condition id, and one whose leading zero byte was left out.
SomeMarkets == {[i \in 1..32 |-> 100 + i], [i \in 1..31 |-> 50 + i]}

Wins        == U64(1)
SomePayouts == {<<Wins, Zeros(8)>>, <<Zeros(8), U64(1000000000)>>, <<Wins, Wins>>}

SomeReplies == {<<>>, Zeros(32), LeftPad(U64(1)), LeftPad(<<0, 0, 1, 0, 0, 0, 0, 255>>)}

====
