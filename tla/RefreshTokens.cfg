SPECIFICATION MCReducedSpec
CONSTANTS
  NoUser = NoUser
  Users = {u1, u2}
  Requests = {r1, r2}
  MaxTokens = 3
  MaxTime = 0
  Ttl = 1
  MaxPasswords = 1
  CanFail = TRUE
INVARIANTS
  Lineage
  PasswordChangeEndsSessions
PROPERTIES
  ForksOnlyByOverlapOrDeath
  ImplementsSessions
  ClosedSessionStaysClosed
  DrainedCredentialStaysOut
SYMMETRY Symmetry
