\* An item is put and taken back.
CONSTANTS
  a = a  b = b  c = c
  gil = gil  rare = rare  plain = plain  pearl = pearl
  Player = {a, b, c}
  None = None
  Kind = {gil, rare, plain, pearl}
  Gil = gil
  Rare = {rare}
  Exclusive = {}
  Shell = {pearl}
  Usable = {plain}
  Play <- Withdrawals
  Capacity = 2
  TradeSlots = 2
  GilCap = 1
  CountSize = 256
  MaxCount = 2
SPECIFICATION Spec
CHECK_DEADLOCK FALSE
INVARIANTS SlotsHoldItems
