CONSTANTS
  a = a  b = b  c = c
  Char = {a, b}
  Item = {plain, rare, ex}
  Rare = {rare}
  Exclusive = {ex}
  Unchecked = {}
  Size = 2
  MaxLot = 2
  Capacity = 1
  ZonePool = FALSE
  YoungServer = FALSE
  LatePass = FALSE
  MaxDrops = 3
  None = None
SPECIFICATION Spec
CHECK_DEADLOCK FALSE
SYMMETRY Perms
PROPERTIES FlushEmpties
