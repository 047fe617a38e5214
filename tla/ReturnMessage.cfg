\* Is the message of the return leg found?
SPECIFICATION RedemptionSpec
CONSTANTS
  Messages <- SomeMessages
  Attestation <- TwoSignatures
  Signature <- TransactionId
  OtherEvents <- SomeEvents
  Transmitter <- TheTransmitter
  Envelopes <- SomeEnvelopes
  ChainId = 137
  Markets <- SomeMarkets
  Resolutions <- SomePayouts
  Replies <- SomeReplies
  EventTopic = "b8da7db0"
  RedeemId <- RedeemPositions
  Ctf <- TheCtf
  Usdc <- TheUsdc
  TokenMessenger <- TheMessenger
  Recipient <- TheRecipient
INVARIANTS
  InboundExact
CHECK_DEADLOCK FALSE
