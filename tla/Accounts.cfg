SPECIFICATION MCSpec
CONSTANTS
  Requests = {r1, r2, r3}
  MaxAttempts = 2
  Ttl = 1
  MaxCodes = 2
  MaxTime = 2
  CanFail = TRUE
  Accounts = {a1, a2}
  NoAccount = NoAccount
  Emails = {e1, e2}
  NoEmail = NoEmail
  GoogleIds = {g1, g2}
  NoGoogle = NoGoogle
  Browsers = {b1, b2}
  Profiles <- MCProfiles
  Flows = {1, 2}
  FlowsCanFail = TRUE
  Calls = {r1, r2, r3}
  CallsCanFail = TRUE
INVARIANTS
  AttemptsBounded
  CalmNewestMailWorks
  LinkedByHolder
  LoneSignInIsNotRefused
  SubscriptionIsLastWord
PROPERTIES
  DeadCodeStaysDead
SYMMETRY Symmetry
CHECK_DEADLOCK FALSE
