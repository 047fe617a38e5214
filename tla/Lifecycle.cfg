\* The abstract specification by itself.
SPECIFICATION Spec
CONSTANTS
  Orders = {o1, o2}
INVARIANTS
  TypeOK
  SavedIsPast
PROPERTIES
  SavedForward
