\* Two orders share one router, its counters and its snapshot file, and one crash.
SPECIFICATION VolumeSpec
CONSTANTS
  NoId = NoId
  Orders = {o1, o2}
  Whitelisted = {o1, o2}
  Persistent = TRUE
  IoErrors = FALSE
  TornWrites = FALSE
  Cap = 3
  Threshold = 1
  MaxBalance = 2
  MaxCrashes = 1
INVARIANTS
  TypeOK
  EffectBound
  OneRepeatPerCrash
  PostedPerSlip
PROPERTIES
  BreakerHalts
  BreakerTraps
SYMMETRY Symmetric
