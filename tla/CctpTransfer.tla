---- MODULE CctpTransfer ----
(***************************************************************************)
(* One transfer of USDC between the chains, seen from the bytes: the burn  *)
(* emits a message, the client digs it out of the logs, the attestation    *)
(* service is asked for its hash, and both are encoded for the receiving   *)
(* contract.  Outbound from Solana to Polygon, inbound on the way back.    *)
(*                                                                         *)
(* Executor leaves open whether an attestation ever comes; here it comes   *)
(* for the message that was emitted, and for no other bytes.               *)
(***************************************************************************)
EXTENDS RawTransaction

CONSTANTS Messages,     \* the messages a burn may emit, as byte sequences
          Transmitter,  \* the address of the MessageTransmitter on Polygon
          Attestation,  \* what the service signs a message with
          Signature,    \* the bytes of the burn's transaction id
          OtherEvents   \* events of other programs in the same transaction

ASSUME TransferAssumption ==
  /\ \A m \in Messages : m \in Seq(Byte) /\ m # <<>> /\ Len(m) < 65536
  /\ Attestation \in Seq(Byte) /\ Len(Attestation) < 65536
  /\ Transmitter \in Seq(Byte) /\ Len(Transmitter) = 20
  /\ Signature \notin Messages

\* No other program of the burn's transaction emits an event of that name.
ASSUME OtherEventsAssumption == \A e \in OtherEvents : e.name # "MessageSent"

VARIABLES leg,      \* "out" or "back"
          stage,    \* "start", "burnt", "stored", "relayed" or "failed"
          emitted,  \* the message the chain emitted, if the burn went through
          logs,     \* the events of the burn's transaction
          shown,    \* history: those of them the node showed to the client
          stored,   \* message_bytes of BridgePending and SettlementBridging
          lookup,   \* message_hash of the same
          relayed   \* what the receiving contract decodes

vars == <<leg, stage, emitted, logs, shown, stored, lookup, relayed>>

NoBytes == <<>>
None    == <<"none">>

Init == /\ leg \in {"out", "back"} /\ stage = "start"
        /\ emitted = NoBytes /\ logs = <<>> /\ shown = <<>>
        /\ stored = NoBytes /\ lookup = None /\ relayed = None

----
(***************************************************************************)
(* The encodings that are not Polygon's.                                   *)
(***************************************************************************)
\* receive_message on Solana: two borsh vectors.
InstructionData(m, a) ==
  LET Vec(b) == <<Len(b) % 256, Len(b) \div 256, 0, 0>> \o b
  IN  Vec(m) \o Vec(a)

\* What the program on Solana reads as its arguments.
BorshPair(data) ==
  LET m == LittleEndian(SubSeq(data, 1, 4))
      a == LittleEndian(SubSeq(data, m + 5, m + 8))
  IN  <<SubSeq(data, 5, m + 4), SubSeq(data, m + 9, m + 8 + a)>>

\* The event MessageSent: a borsh vector on Solana, ABI bytes on Polygon.
MessageSent(m) ==
  [name |-> "MessageSent",
   data |-> IF leg = "out" THEN <<Len(m) % 256, Len(m) \div 256, 0, 0>> \o m
                           ELSE Word(32) \o Word(Len(m)) \o Padded(m)]

----
(***************************************************************************)
(* Reading the message back.  Both parsers take the first event that       *)
(* carries the right name and is long enough for the length it states.     *)
(***************************************************************************)
SolanaLength(d)  == LittleEndian(SubSeq(d, 1, 4))

\* The first eight bytes of the second word are taken for the length.
PolygonLength(d) == BigEndian(SubSeq(d, 33, 40))

Header == IF leg = "out" THEN 4 ELSE 64

StatedLength(d) == IF leg = "out" THEN SolanaLength(d) ELSE PolygonLength(d)

\* Fault: an event is recognised by its length alone.
IsMessageAnyName(e) ==
  /\ Len(e.data) >= Header
  /\ Len(e.data) >= Header + StatedLength(e.data)

IsMessage(e) ==
  /\ e.name = "MessageSent"
  /\ Len(e.data) >= Header
  /\ Len(e.data) >= Header + StatedLength(e.data)

\* The bytes of the first message among the events, or the transaction's id.
MessageIn(events) ==
  LET first == SelectInSeq(events, IsMessage)
      d     == events[first].data
  IN  IF first = 0 THEN Signature ELSE SubSeq(d, Header + 1, Header + StatedLength(d))

\* keccak256, without collisions.
Hash(bytes) == <<"keccak256", bytes>>

----
Around(m) == {<<MessageSent(m)>>}
        \cup {<<e, MessageSent(m)>> : e \in OtherEvents}
        \cup {<<MessageSent(m), e>> : e \in OtherEvents}

\* The burn goes through, or (seen on Polygon only, where nobody looks at the
\* receipt's status) is reverted and leaves no event.
Burn ==
  /\ stage = "start" /\ stage' = "burnt"
  /\ \/ \E m \in Messages : emitted' = m /\ logs' \in Around(m)
     \/ leg = "back" /\ UNCHANGED <<emitted, logs>>
  /\ UNCHANGED <<leg, shown, stored, lookup, relayed>>

\* Fault: the hash is taken of the transaction's id, as the README still says.
ReadHashesSignature ==
  /\ stage = "burnt" /\ stage' = "stored"
  /\ \E n \in 0..Len(logs) :
       /\ leg = "back" => n = Len(logs)
       /\ shown' = SubSeq(logs, 1, n)
  /\ stored' = MessageIn(shown')
  /\ lookup' = Hash(Signature)
  /\ UNCHANGED <<leg, emitted, logs, relayed>>

\* The events are read and the status stored.  get_transaction() on Solana may
\* fail, and logs there may be cut short; a receipt on Polygon is complete.
Read ==
  /\ stage = "burnt" /\ stage' = "stored"
  /\ \E n \in 0..Len(logs) :
       /\ leg = "back" => n = Len(logs)
       /\ shown' = SubSeq(logs, 1, n)
  /\ stored' = MessageIn(shown')
  /\ lookup' = Hash(stored')
  /\ UNCHANGED <<leg, emitted, logs, relayed>>

\* No receipt after 30 attempts: the message is not kept anywhere.
NoReceipt ==
  /\ stage = "burnt" /\ leg = "back" /\ stage' = "failed"
  /\ UNCHANGED <<leg, emitted, logs, shown, stored, lookup, relayed>>

\* What the MessageTransmitter on Polygon is called with, if it is called.
Received(call) ==
  LET args == Arguments(call.data)
  IN  IF call.to = Transmitter /\ SubSeq(call.data, 1, 4) = ReceiveMessage
      THEN <<AbiBytes(args, 1), AbiBytes(args, 2)>> ELSE None

\* The service has an attestation for the emitted message, which is relayed.
Relay ==
  /\ stage = "stored" /\ stage' = "relayed"
  /\ emitted # NoBytes /\ lookup = Hash(emitted)
  /\ \/ leg = "out" /\ \E env \in Envelopes :
          relayed' = Received(Executed(
                       SignTransaction(env, Transmitter, Calldata(stored, Attestation))))
     \/ leg = "back" /\ relayed' = BorshPair(InstructionData(stored, Attestation))
  /\ UNCHANGED <<leg, emitted, logs, shown, stored, lookup>>

\* A call before the burn fails, or one of the relaying step; a hash that the
\* service does not know is a 404.
Fail ==
  /\ stage \in {"start", "stored"} /\ stage' = "failed"
  /\ UNCHANGED <<leg, emitted, logs, shown, stored, lookup, relayed>>

Next == Burn \/ Read \/ NoReceipt \/ Relay \/ Fail

Spec == Init /\ [][Next]_vars

----
TypeOK ==
  /\ leg \in {"out", "back"}
  /\ stage \in {"start", "burnt", "stored", "relayed", "failed"}
  /\ emitted \in Messages \cup {NoBytes}
  /\ \A i \in DOMAIN logs : logs[i] \in OtherEvents \cup {MessageSent(emitted)}
  /\ lookup \in {None, Hash(stored)}

\* What the receiving contract decodes is the message that was emitted and its
\* attestation, whatever their lengths: no other bytes are ever relayed, and
\* the padding and offsets of the calldata are right.
RelayedIsEmitted == stage = "relayed" => relayed = <<emitted, Attestation>>

\* On the way out the message is found wherever it was logged and whatever other
\* programs logged around it: the client falls back to the transaction's id
\* exactly if the logs it was shown were cut in front of the message.
OutboundExact ==
  leg = "out" /\ stage \in {"stored", "relayed"} =>
    stored = IF MessageSent(emitted) \in ToSet(shown) THEN emitted ELSE Signature

\* "message_bytes_hex is the raw CCTP message extracted from the receipt": on
\* the way back a burn that went through leaves its message in the status.
InboundExact ==
  leg = "back" /\ stage \in {"stored", "relayed"} /\ emitted # NoBytes =>
    stored = emitted

====
