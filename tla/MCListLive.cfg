SPECIFICATION FairSpec
CONSTANTS
  a = a
  b = b
  c = c
  NoUser = NoUser
  NoMessage = NoMessage
  User = {a, b, c}
  Account = {a}
  Unprofiled = {b}
  MaxChanges = 2
  MaxSignIns = 1
  MaxFailures = 1
  MaxKills = 1
PROPERTIES RowsAppear
CHECK_DEADLOCK FALSE
