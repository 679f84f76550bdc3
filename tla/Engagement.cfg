SPECIFICATION Spec
CONSTANTS
  Users = {u1}
  Types = {Like, Love}
  Like = Like
  Ids = {i1, i2, i3}
  NoId = NoId
  Requests = {r1, r2}
  NoUser = NoUser
  Reconciles = TRUE
  CountBound = 1
PROPERTIES
  DecisionsOnCurrentRow
  DriftOnlyByOvertakenJob
SYMMETRY Symmetry
