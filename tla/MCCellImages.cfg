SPECIFICATION FairSpec
CONSTANTS
  a = a
  b = b
  ann = ann
  ben = ben
  cid = cid
  Cell = {1, 2}
  KeepsImage = {1}
  User = {ann, ben, cid}
  Url = {a, b}
  None = None
  url <- Urls
  MaxLoads = 2
CHECK_DEADLOCK FALSE
INVARIANTS
  NoForeignImage
  OnlyLateStranded
PROPERTY LoadEnds
