SPECIFICATION Spec
CONSTANTS
  Users = {u1}
  NoUser = NoUser
  Moderators = {u1}
  Requests = {r1, r2}
  MaxPosts = 2
  MaxComments = 2
  CanFail = TRUE
INVARIANTS
  Consistent
  CountersNeverOvercount
PROPERTIES
  DriftOnlyByDoubleRemoval
SYMMETRY Symmetry
