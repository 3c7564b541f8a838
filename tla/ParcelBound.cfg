\* By hand: two senders look at the capacity before either delivers.
SPECIFICATION Spec
CONSTANTS
  ann = ann  ben = ben  cid = cid  blade = blade  gil = gil  None = None
  Player = {ann, ben, cid}
  Item = {gil}
  Coin = gil
  Belongings <- Coins
  Room = 2
  Visible = 1
  MaxInflight = 1
  MaxSlot = 3
  ListLimit = 1
  Interrupted = {"send", "return"}
INVARIANTS NearlyBounded
CHECK_DEADLOCK FALSE
