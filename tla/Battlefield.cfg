\* Three players, two areas, two places.
CONSTANTS
  ann = ann  ben = ben  cid = cid
  Player = {ann, ben, cid}
  Areas = 2
  MaxPlayers = 2
  DelayToExit = 1
  MaxMenus = 2
  MaxAbsences = 1
SPECIFICATION Spec
SYMMETRY Alike
INVARIANTS TypeOK Consistent
PROPERTIES NoLateEntry
CHECK_DEADLOCK FALSE
