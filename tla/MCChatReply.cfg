SPECIFICATION ChatFairSpec
CONSTANTS
  d1 = d1
  d2 = d2
  u1 = u1
  u2 = u2
  NoMessage = NoMessage
  Device = {d1, d2}
  User = {u1, u2}
  account <- TwoUsers
  viewer = d1
  partner = u2
  MaxSends = 2
  MaxKills = 0
  MaxRejects = 0
  MaxPendingWrites = 1
  MaxTime = 2
  MaxChats = 1
CHECK_DEADLOCK FALSE
INVARIANTS
  InConversationOrder
  NeverSetBack
PROPERTY
  Appears
