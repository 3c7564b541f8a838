\* Liveness: the one area is free again.
CONSTANTS
  ann = ann  ben = ben  cid = cid
  Player = {ann, ben}
  Areas = 1
  MaxPlayers = 2
  DelayToExit = 1
  MaxMenus = 3
  MaxAbsences = 1
SPECIFICATION FairSpec
PROPERTIES Freed
CHECK_DEADLOCK FALSE
