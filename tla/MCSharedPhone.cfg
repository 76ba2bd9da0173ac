SPECIFICATION SharedFairSpec
CONSTANTS
  a = a
  b = b
  u1 = u1
  u2 = u2
  u3 = u3
  nobody = nobody
  NoMessage = NoMessage
  Device = {a, b, nobody}
  User = {u1, u2, u3}
  account <- TwoUsers
  MaxSends = 2
  MaxMessages = 2
  MaxSignIns = 1
  MaxKills = 1
  MaxRejects = 0
  MaxPendingWrites = 1
CHECK_DEADLOCK FALSE
INVARIANTS
  SharedTypeOK
  NothingForgotten
  OvertakenOnlyAstray
  RecentUnlessAstray
PROPERTIES SettledOrAway ImplementsOwnDelivery
