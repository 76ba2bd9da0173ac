SPECIFICATION Spec
CONSTANTS
  d1 = d1
  u1 = u1
  u2 = u2
  u3 = u3
  NoMessage = NoMessage
  Device = {d1}
  User = {u1, u2}
  account <- OneDevice
  MaxSends = 1
  MaxKills = 1
  MaxRejects = 0
  MaxPendingWrites = 2
CHECK_DEADLOCK FALSE
INVARIANTS
  RecentForBoth
