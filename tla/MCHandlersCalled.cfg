SPECIFICATION Spec
CONSTANTS
  a = a
  b = b
  ann = ann
  ben = ben
  cid = cid
  Cell = {1, 2}
  KeepsImage = {}
  User = {ann}
  Url = {a}
  None = None
  url <- Urls
  MaxLoads = 2
CHECK_DEADLOCK FALSE
INVARIANT HandlersCalled
