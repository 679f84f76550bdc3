SPECIFICATION Spec
CONSTANTS
  Limit = 2
  MaxRows = 4
INVARIANT
  WalkShowsEverything
CHECK_DEADLOCK FALSE
