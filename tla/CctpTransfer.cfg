\* Both legs, over every message length and position of the event.
SPECIFICATION RedemptionSpec
CONSTANTS
  Messages <- SomeMessages
  Attestation <- TwoSignatures
  Signature <- TransactionId
  OtherEvents <- SomeEvents
  Transmitter <- TheTransmitter
  Envelopes <- SomeEnvelopes
  ChainId = 137
  Markets <- SomeMarkets
  Resolutions <- SomePayouts
  Replies <- SomeReplies
  EventTopic = "b8da7db0"
  RedeemId <- RedeemPositions
  Ctf <- TheCtf
  Usdc <- TheUsdc
  TokenMessenger <- TheMessenger
  Recipient <- TheRecipient
INVARIANTS
  TypeOK
  RelayedIsEmitted
  OutboundExact
  RedemptionTypeOK
  RedeemsTheWin
  BurnsTheBalance
CHECK_DEADLOCK FALSE
