---- MODULE RawTransaction ----
(***************************************************************************)
(* A legacy transaction as EvmWallet signs it (RLP, EIP-155) and as a node *)
(* takes it apart.  Numbers are eight bytes, r and s are 32; a signature   *)
(* remembers the payload it was made of, which stands for recovering the   *)
(* sender.                                                                 *)
(***************************************************************************)
EXTENDS Abi

CONSTANTS Envelopes,  \* nonce, price and limit, and the signature r, s, rec
          ChainId     \* of the node and of the wallet

ASSUME ChainAssumption == ChainId \in 1..10000

ASSUME EnvelopeAssumption ==
  \A e \in Envelopes :
    /\ \A n \in {e.nonce, e.price, e.limit} : n \in Seq(Byte) /\ Len(n) = 8
    /\ \A n \in {e.r, e.s} : n \in Seq(Byte) /\ Len(n) = 32
    /\ e.rec \in {0, 1}

StripLeadingZeros(b) ==
  LET first == SelectInSeq(b, LAMBDA x : x # 0)
  IN  IF first = 0 THEN <<>> ELSE SubSeq(b, first, Len(b))

EncodeLength(len, offset) ==
  IF len < 56 THEN <<offset + len>>
  ELSE LET stripped == StripLeadingZeros(BytesOf(len))
       IN  <<offset + 55 + Len(stripped)>> \o stripped

EncodeBytes(b) ==
  IF Len(b) = 1 /\ b[1] < 128 THEN b ELSE EncodeLength(Len(b), 128) \o b

\* encode_uint and BigUint256 both; a number zero is the empty string.
EncodeNumber(b) == EncodeBytes(StripLeadingZeros(b))

RlpEncode(items) ==
  LET payload == FlattenSeq(items) IN EncodeLength(Len(payload), 192) \o payload

Head6(nonce, price, limit, to, data) ==
  <<EncodeNumber(nonce), EncodeNumber(price), EncodeNumber(limit),
    EncodeBytes(to), EncodeNumber(<<0>>), EncodeBytes(data)>>

SigningPayload(nonce, price, limit, to, data) ==
  RlpEncode(Head6(nonce, price, limit, to, data)
              \o <<EncodeNumber(BytesOf(ChainId)), EncodeNumber(<<0>>), EncodeNumber(<<0>>)>>)

V(rec) == ChainId * 2 + 35 + rec

SignTransaction(env, to, data) ==
  [raw   |-> RlpEncode(Head6(env.nonce, env.price, env.limit, to, data)
                         \o <<EncodeNumber(BytesOf(V(env.rec))),
                              EncodeNumber(env.r), EncodeNumber(env.s)>>),
   signs |-> SigningPayload(env.nonce, env.price, env.limit, to, data)]

----
(***************************************************************************)
(* The node.  It accepts canonical encodings only, rebuilds the payload    *)
(* for its own chain id and recovers the sender of the signature.          *)
(***************************************************************************)
\* Where the contents of the item (or list) at p begin and end.
Extent(raw, p, offset) ==
  LET short == raw[p] - offset
      width == short - 55
      len   == BigEndian(SubSeq(raw, p + 1, p + width))
  IN  CASE raw[p] < offset -> [from |-> p, to |-> p, canonical |-> TRUE]
        [] short \in 0..55 -> [from |-> p + 1, to |-> p + short,
                               canonical |-> ~(short = 1 /\ offset = 128 /\ raw[p + 1] < 128)]
        [] OTHER           -> [from |-> p + width + 1, to |-> p + width + len,
                               canonical |-> len >= 56 /\ raw[p + 1] # 0]

\* The extents of the nine fields, one after the other.
Fields(raw) ==
  LET ext[k \in 0..9] == IF k = 0
                         THEN [to |-> Extent(raw, 1, 192).from - 1]
                         ELSE Extent(raw, ext[k - 1].to + 1, 128)
  IN  [k \in 1..9 |-> ext[k]]

Field(raw, k) == LET e == Fields(raw)[k] IN SubSeq(raw, e.from, e.to)

WellFormed(raw) ==
  /\ Extent(raw, 1, 192).canonical /\ Extent(raw, 1, 192).to = Len(raw)
  /\ LET fields == Fields(raw)
     IN  /\ \A k \in 1..9 : fields[k].canonical
         /\ fields[9].to = Len(raw)
         /\ \A k \in {1, 2, 3, 5, 7, 8, 9} :
              fields[k].from <= fields[k].to => raw[fields[k].from] # 0

\* What the node executes: the called contract and the data, or a rejection.
Rejected == [to |-> <<>>, data |-> <<>>]

Executed(tx) ==
  LET F(k) == Field(tx.raw, k)
  IN  IF /\ WellFormed(tx.raw)
         /\ BigEndian(F(7)) \in {V(0), V(1)}
         /\ tx.signs = SigningPayload(F(1), F(2), F(3), F(4), F(6))
      THEN [to |-> F(4), data |-> F(6)] ELSE Rejected

====
