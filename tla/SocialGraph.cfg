SPECIFICATION FairSpec
CONSTANTS
  Users = {u1, u2}
  NoUser = NoUser
  Requests = {r1, r2}
  Operations = {"follow", "unfollow", "block", "unblock"}
  CanFail = TRUE
  CountBound = 2
INVARIANTS
  CountersNeverUndercount
PROPERTIES
  SeveredPairStaysSevered
  EveryRequestEnds
