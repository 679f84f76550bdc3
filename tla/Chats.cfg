SPECIFICATION MCSpec
CONSTANTS
  Users = {u1, u2}
  NoUser = NoUser
  ChatIds = {c1, c2}
  NoChat = NoChat
  Requests = {r1, r2}
  MaxMessages = 2
  CanFail = TRUE
INVARIANTS
  ChatsConsistent
  InOrderUnlessOverlapped
PROPERTIES
  NoChatAcrossBlock
  DeletedAccountFallsSilent
SYMMETRY Symmetry
CHECK_DEADLOCK FALSE
