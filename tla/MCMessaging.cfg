SPECIFICATION FairSpec
CONSTANTS
  d1 = d1
  u1 = u1
  u2 = u2
  u3 = u3
  NoMessage = NoMessage
  Device = {d1}
  User = {u1, u2, u3}
  account <- OneDevice
  MaxSends = 2
  MaxKills = 2
  MaxRejects = 1
  MaxPendingWrites = 2
CHECK_DEADLOCK FALSE
INVARIANTS
  TypeOK
  PeerCopyBacked
  RecentBacked
  NoSilentLoss
  RecentUpToDate
PROPERTIES
  EventuallySettled
  ClearOnlyDelivered
  ImplementsDelivery
