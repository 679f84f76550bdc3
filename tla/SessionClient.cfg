SPECIFICATION MCClientFairSpec
CONSTANTS
  NoUser = NoUser
  Users = {u1}
  Visitor = u1
  Requests = {r1, r2}
  MaxTokens = 2
  MaxTime = 1
  Ttl = 1
  MaxPasswords = 0
  CanFail = TRUE
  CanLose = TRUE
INVARIANTS
  OrderlyStoreAgrees
  OrderlyClientNeverReplays
PROPERTIES
  EveryCallSettles
