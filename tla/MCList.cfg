SPECIFICATION Spec
SYMMETRY UserSymmetry
CONSTANTS
  a = a
  b = b
  c = c
  NoUser = NoUser
  NoMessage = NoMessage
  User = {a, b, c}
  Account = {a, b}
  Unprofiled = {}
  MaxChanges = 3
  MaxSignIns = 1
  MaxFailures = 1
  MaxKills = 1
PROPERTIES RowsAdvance ImplementsListening
INVARIANTS RowsCurrent
CHECK_DEADLOCK FALSE
