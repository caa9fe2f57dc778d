SPECIFICATION Spec
CONSTANTS
  Devices = {d1}
  Places <- OnePlace
  Radius = 1
  MaxPosts = 1
  MaxReads = 2
  MaxSheets = 1
  MaxMoves = 0
  MaxFaults = 0
INVARIANTS
  LocalPostIsShown
CHECK_DEADLOCK FALSE
