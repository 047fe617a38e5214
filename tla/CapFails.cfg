\* Is an order that the cap refused merely paused?
SPECIFICATION Spec
CONSTANTS
  NoId = NoId
  Orders = {o1}
  Whitelisted = {o1}
  Persistent = TRUE
  IoErrors = FALSE
  TornWrites = FALSE
  Cap = 1
  Threshold = 0
  MaxBalance = 2
  MaxCrashes = 0
INVARIANTS
  CapPauses
