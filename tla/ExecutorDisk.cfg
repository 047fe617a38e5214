\* Failing and torn writes, and a crash; with a truncated file the router cannot start again.
SPECIFICATION Spec
CONSTANTS
  NoId = NoId
  Orders = {o1}
  Whitelisted = {o1}
  Persistent = TRUE
  IoErrors = TRUE
  TornWrites = TRUE
  Cap = 0
  Threshold = 0
  MaxBalance = 1
  MaxCrashes = 1
INVARIANTS
  EffectBound
  EffectsInOrder
  AckedSurvive
PROPERTIES
  FinalIsFinal
  LifecycleSpec
CHECK_DEADLOCK FALSE
