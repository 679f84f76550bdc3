SPECIFICATION MCSpec
CONSTANTS
  Limit = 2
  MaxRows = 6
  Modals = {m1, m2}
  Feed = Feed
  MaxItems = 2
  Faults = TRUE
INVARIANTS
  NewestFirst
  OneMissAtABoundary
  ScreenIsComplete
  HeartIsTrueUnlessLost
  StopsInOrder
PROPERTIES
  WalkEnds
CHECK_DEADLOCK FALSE
