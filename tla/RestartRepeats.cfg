\* Does a restart repeat an effect?
SPECIFICATION Spec
CONSTANTS
  NoId = NoId
  Orders = {o1}
  Whitelisted = {o1}
  Persistent = TRUE
  IoErrors = FALSE
  TornWrites = FALSE
  Cap = 0
  Threshold = 0
  MaxBalance = 1
  MaxCrashes = 1
INVARIANTS
  EffectOnce
