SPECIFICATION Spec
CONSTANTS
  ann = ann  ben = ben  cid = cid  blade = blade  gil = gil  None = None
  Player = {ann, ben}
  Item = {blade, gil}
  Coin = gil
  Belongings <- Purses
  Room = 2
  Visible = 1
  MaxInflight = 1
  MaxSlot = 3
  ListLimit = 1
  Interrupted = {"send", "return", "expire"}
INVARIANTS ItemsKept
CHECK_DEADLOCK FALSE
