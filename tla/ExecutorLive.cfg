\* run_loop over an in-memory store, under the fairness of its own task and of the clock.
SPECIFICATION FairSpec
CONSTANTS
  NoId = NoId
  Orders = {o1, o2}
  Whitelisted = {o1}
  Persistent = FALSE
  IoErrors = FALSE
  TornWrites = FALSE
  Cap = 1
  Threshold = 2
  MaxBalance = 2
  MaxCrashes = 0
PROPERTIES
  LoopDrains
