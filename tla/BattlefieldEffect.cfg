\* The clean-up of one battlefield takes the effect from a player in another.
CONSTANTS
  ann = ann  ben = ben  cid = cid
  Player = {ann, ben}
  Areas = 2
  MaxPlayers = 2
  DelayToExit = 1
  MaxMenus = 2
  MaxAbsences = 1
SPECIFICATION Spec
INVARIANTS InsideHasEffect
CHECK_DEADLOCK FALSE
