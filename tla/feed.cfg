SPECIFICATION FairSpec
CONSTANTS
  Devices = {d1}
  Places <- TwoPlaces
  Radius = 1
  MaxPosts = 2
  MaxReads = 2
  MaxSheets = 1
  MaxMoves = 1
  MaxFaults = 1
INVARIANTS
  TypeOK ShownExists PostedIsShown
PROPERTIES
  SpinnerStops
CHECK_DEADLOCK FALSE
