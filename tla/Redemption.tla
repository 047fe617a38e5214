---- MODULE Redemption ----
(***************************************************************************)
(* The return of one order's money up to its burn on Polygon, in front of  *)
(* the transfer back of CctpTransfer: the event of the market's resolution *)
(* is decoded, the position redeemed, the balance read, approved, burnt.   *)
(* The three transactions are looked at where the node has decoded them    *)
(* and the contracts read their arguments.                                 *)
(***************************************************************************)
EXTENDS CctpTransfer

CONSTANTS
  Markets,      \* condition ids, as bytes; a leading zero may be left out
  Resolutions,  \* the numerators a market may resolve to, eight bytes each
  Replies,      \* what eth_call may answer to balanceOf
  EventTopic,   \* topic of the deployed contract's ConditionResolution event
  RedeemId,     \* selector of the deployed contract's redeemPositions
  Ctf, Usdc, TokenMessenger,  \* addresses on Polygon
  Recipient     \* the executor's token account on Solana

ASSUME RedemptionAssumption ==
  /\ \A m \in Markets : m \in Seq(Byte) /\ Len(m) <= 32
  /\ \A r \in Resolutions : /\ r \in Seq(Seq(Byte)) /\ Len(r) = 2
                            /\ \A i \in 1..2 : Len(r[i]) = 8
  /\ \A a \in {Ctf, Usdc, TokenMessenger} : a \in Seq(Byte) /\ Len(a) = 20
  /\ Recipient \in Seq(Byte) /\ Len(Recipient) = 32

\* No balance of USDC reaches 2^64 units; an answer may be cut short.
ASSUME RepliesAssumption ==
  \A r \in Replies : /\ r \in Seq(Byte) /\ Len(r) <= 32
                     /\ Len(r) = 32 => \A i \in 1..24 : r[i] = 0

VARIABLES
  outcome,      \* the side the order bought, "Yes" or "No"
  market,       \* market_id of the order
  numerators,   \* what the market pays for each side, once resolved
  part,         \* "awaiting", "redeeming", "bridging"; "refused" or "failed"
  redeemed,     \* the call of redeemPositions the contract reads
  reply,        \* the answer to balanceOf the burn is made of
  approved,     \* the call of approve
  burnt         \* the call of depositForBurn

rvars   == <<outcome, market, numerators, part, redeemed, reply, approved, burnt>>
allVars == <<vars, rvars>>

NoCall == [call |-> "none"]

RedemptionInit ==
  /\ Init
  /\ outcome \in {"Yes", "No"} /\ market \in Markets
  /\ numerators = <<>>
  /\ part = IF leg = "out" THEN "bridging" ELSE "awaiting"
  /\ redeemed = NoCall /\ reply = <<>> /\ approved = NoCall /\ burnt = NoCall

----
\* topic0 as resolver.rs has it; keccak-256 of the signature it gives for it is
\* another value.
ConditionResolutionTopic == "b8da7db0"

\* The log of ConditionResolution: a count and an array.
EventData(payouts) ==
  Word(Len(payouts)) \o Word(64) \o Word(Len(payouts))
    \o FlattenSeq([i \in DOMAIN payouts |-> LeftPad(payouts[i])])

\* eth_getLogs with the topic and the market's id, padded to a word.
GetLogs(topic, id) ==
  IF numerators # <<>> /\ topic = EventTopic /\ LeftPad(id) = LeftPad(market)
  THEN <<EventData(numerators)>> ELSE <<>>

\* Err: no slots at all, and no index set.
Error == <<>>

\* Fault: the elements are counted from the word of the length on.
DecodePayoutNumeratorsAtLength(bytes) ==
  LET offset == UsizeAt(bytes, 32)
      len    == UsizeAt(bytes, offset)
  IN  IF Len(bytes) < 64 \/ Len(bytes) < offset + 32 \/ Len(bytes) < offset + 32 + 32 * len
      THEN Error
      ELSE [i \in 1..len |-> SubSeq(WordAt(bytes, offset + 32 * (i - 1)), 25, 32)]

\* decode_payout_numerators(): the offset and the length are those of the data.
DecodePayoutNumerators(bytes) ==
  LET offset == UsizeAt(bytes, 32)
      len    == UsizeAt(bytes, offset)
  IN  IF Len(bytes) < 64 \/ Len(bytes) < offset + 32 \/ Len(bytes) < offset + 32 + 32 * len
      THEN Error
      ELSE [i \in 1..len |-> SubSeq(WordAt(bytes, offset + 32 * i), 25, 32)]

IsZero(bytes) == \A i \in DOMAIN bytes : bytes[i] = 0

\* is_resolved(): None while there is no log, else the first one decoded.
IsResolved ==
  LET found == GetLogs(ConditionResolutionTopic, market)
  IN  IF found = <<>> THEN None ELSE DecodePayoutNumerators(found[1])

Pays(payouts, slot) == slot \in DOMAIN payouts /\ ~IsZero(payouts[slot])

IndexSetsForOutcome(payouts) ==
  CASE outcome = "Yes" /\ Pays(payouts, 1) -> <<1>>
    [] outcome = "No"  /\ Pays(payouts, 2) -> <<2>>
    [] OTHER                               -> Error

\* Fault: the low 32 bits are taken for the balance.
UsdcBalance32(word) == IF Len(word) < 32 THEN Zeros(8) ELSE Zeros(4) \o SubSeq(word, 29, 32)

\* usdc_balance(): the low 64 bits; a reply shorter than a word is zero.
UsdcBalance(word) == IF Len(word) < 32 THEN Zeros(8) ELSE SubSeq(word, 25, 32)

----
(***************************************************************************)
(* The contracts: what each reads of a call that the node executes.  The   *)
(* receiver of an unknown selector reverts, and so does the gas estimate.  *)
(***************************************************************************)
CtfReads(call) ==
  LET args == Arguments(call.data)
  IN  IF call.to = Ctf /\ SubSeq(call.data, 1, 4) = RedeemId
      THEN [collateral |-> AbiWord(args, 1), parent |-> AbiWord(args, 2),
            condition  |-> AbiWord(args, 3), sets   |-> AbiArray(args, 4)]
      ELSE NoCall

UsdcReads(call) ==
  LET args == Arguments(call.data)
  IN  IF call.to = Usdc /\ SubSeq(call.data, 1, 4) = Approve
      THEN [spender |-> AbiWord(args, 1), amount |-> AbiWord(args, 2)] ELSE NoCall

TokenMessengerReads(call) ==
  LET args == Arguments(call.data)
  IN  IF call.to = TokenMessenger /\ SubSeq(call.data, 1, 4) = DepositForBurn
      THEN [amount    |-> AbiWord(args, 1), domain |-> NumberAt(args, 32),
            recipient |-> AbiWord(args, 3), token  |-> AbiWord(args, 4)]
      ELSE NoCall

Sent(env, to, data) == Executed(SignTransaction(env, to, data))

----
Resolve ==
  /\ part = "awaiting" /\ numerators = <<>>
  /\ numerators' \in Resolutions
  /\ UNCHANGED <<vars, outcome, market, part, redeemed, reply, approved, burnt>>

\* step_awaiting_resolution: not resolved, it stays; lost, or the log does not
\* decode, it is refused; won, redeemPositions is sent, and fails if it reverts.
AwaitResolution ==
  /\ part = "awaiting" /\ IsResolved # None
  /\ LET sets == IF IsResolved = Error THEN Error ELSE IndexSetsForOutcome(IsResolved)
     IN  \/ sets = Error /\ part' = "refused" /\ UNCHANGED redeemed
         \/ /\ sets # Error
            /\ \E env \in Envelopes :
                 redeemed' = CtfReads(Sent(env, Ctf, RedeemCalldata(Usdc, market, sets)))
            /\ part' = IF redeemed' = NoCall THEN "failed" ELSE "redeeming"
  /\ UNCHANGED <<vars, outcome, market, numerators, reply, approved, burnt>>

\* step_redeeming: no balance, it stays; else approve, then burn.  The approval
\* is not awaited, and the burn's gas estimate fails without it.
ReturnBurn ==
  /\ part = "redeeming"
  /\ reply' \in Replies /\ ~IsZero(UsdcBalance(reply'))
  /\ LET amount == UsdcBalance(reply')
     IN  \E env \in Envelopes :
           /\ approved' = UsdcReads(
                Sent(env, Usdc, ApproveCalldata(TokenMessenger, amount)))
           /\ \/ part' = "failed" /\ UNCHANGED burnt
              \/ /\ burnt' = TokenMessengerReads(
                      Sent(env, TokenMessenger, DepositForBurnCalldata(amount, Recipient, Usdc)))
                 /\ part' = IF burnt' = NoCall THEN "failed" ELSE "bridging"
  /\ UNCHANGED <<vars, outcome, market, numerators, redeemed>>

\* Any request of the two steps before that fails.
RequestFails ==
  /\ part \in {"awaiting", "redeeming"} /\ part' = "failed"
  /\ UNCHANGED <<vars, outcome, market, numerators, redeemed, reply, approved, burnt>>

\* Fault: the transfer back does not wait for the redemption.
BridgeAtOnce == part \notin {"refused", "failed"} /\ Next /\ UNCHANGED rvars

Bridge == part = "bridging" /\ Next /\ UNCHANGED rvars

RedemptionNext ==
  Resolve \/ AwaitResolution \/ ReturnBurn \/ RequestFails \/ Bridge

RedemptionSpec == RedemptionInit /\ [][RedemptionNext]_allVars

----
RedemptionTypeOK ==
  /\ outcome \in {"Yes", "No"} /\ market \in Markets
  /\ numerators \in Resolutions \cup {<<>>}
  /\ part \in {"awaiting", "redeeming", "bridging", "refused", "failed"}
  /\ reply \in Replies \cup {<<>>}
  /\ part \in {"redeeming", "bridging"} /\ leg = "back" => redeemed # NoCall
  /\ stage # "start" => part = "bridging"

\* The log of the resolution decides, both ways.  A position is redeemed only
\* if its side was paid, and then what the contract reads is the order's own
\* market, USDC.e, no parent, and the one index set of the side bought.  A
\* position is refused (as lost, or because the log does not decode) only if its
\* side was not paid: no winner is turned away by the decoder.
RedeemsTheWin ==
  LET slot == IF outcome = "Yes" THEN 1 ELSE 2
  IN  /\ redeemed # NoCall =>
           /\ ~IsZero(numerators[slot])
           /\ redeemed = [collateral |-> LeftPad(Usdc), parent |-> Zeros(32),
                          condition  |-> LeftPad(market), sets |-> <<2^(slot - 1)>>]
      /\ part = "refused" => IsZero(numerators[slot])

\* What is burnt on the way back is the balance that was read, to the last
\* unit, for the executor's account on Solana, and no more was approved.
BurnsTheBalance ==
  /\ approved # NoCall => approved = [spender |-> LeftPad(TokenMessenger), amount |-> reply]
  /\ burnt # NoCall => burnt = [amount |-> reply, domain |-> 5, recipient |-> Recipient,
                                token |-> LeftPad(Usdc)]

====
