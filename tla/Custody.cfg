\* Two orders share the wallets; a swap gives one unit or three, of which two
\* may be bridged at once.  The cap is met only by funds posted a second time.
SPECIFICATION CustodySpec
CONSTANTS
  NoId = NoId
  Orders = {o1, o2}
  Whitelisted = {o1, o2}
  Persistent = FALSE
  IoErrors = FALSE
  TornWrites = FALSE
  Cap = 6
  Threshold = 0
  MaxBalance = 6
  MaxCrashes = 0
  Swaps = {1, 3}
  MaxOrder = 2
  Slippage = 1
  Float = 1
INVARIANTS
  CustodyTypeOK
  PaysWithinSlippage
  PostedWithinCap
  LoneConfirmed
  LonePaidInFull
  LoneFailedWhere
SYMMETRY Symmetric
CHECK_DEADLOCK FALSE
