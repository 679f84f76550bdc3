SPECIFICATION MCClientSpec
CONSTANTS
  NoUser = NoUser
  Users = {u1}
  Visitor = u1
  Requests = {r1, r2}
  MaxTokens = 3
  MaxTime = 0
  Ttl = 1
  MaxPasswords = 0
  CanFail = FALSE
  CanLose = FALSE
INVARIANT
  HonestClientNeverReplays
