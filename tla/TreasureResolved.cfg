CONSTANTS
  a = a  b = b  c = c
  Char = {a, b}
  Item = {rare}
  Rare = {rare}
  Exclusive = {}
  Unchecked = {}
  Size = 2
  MaxLot = 1
  Capacity = 1
  ZonePool = TRUE
  YoungServer = TRUE
  LatePass = TRUE
  MaxDrops = 2
  None = None
SPECIFICATION FairSpec
CHECK_DEADLOCK FALSE
PROPERTIES Resolved
