SPECIFICATION ChatSpec
CONSTANTS
  d1 = d1
  d2 = d2
  u1 = u1
  u2 = u2
  NoMessage = NoMessage
  Device = {d1}
  User = {u1, u2}
  account <- OneDevice
  viewer = d1
  partner = u2
  MaxSends = 2
  MaxKills = 1
  MaxRejects = 1
  MaxPendingWrites = 1
  MaxTime = 2
  MaxChats = 2
CHECK_DEADLOCK FALSE
INVARIANTS
  NoRepeat
  Reopened
  ShownIsKept
