\* One order, carried through up to three losses of the process.
SPECIFICATION Spec
CONSTANTS
  NoId = NoId
  Orders = {o1}
  Whitelisted = {o1}
  Persistent = TRUE
  IoErrors = FALSE
  TornWrites = FALSE
  Cap = 0
  Threshold = 0
  MaxBalance = 1
  MaxCrashes = 3
INVARIANTS
  EffectBound
  OneRepeatPerCrash
  EffectsInOrder
  FailureStageExact
  CancelSparesRedeemed
PROPERTIES
  FinalIsFinal
