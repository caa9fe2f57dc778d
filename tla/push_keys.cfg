SPECIFICATION Spec
CONSTANTS
  Devices = {d1, d2}
  Lists = {"posts"}
  Draws <- TwoDraws
  Start = 62
  MaxTime = 64
  MaxSkew = 1
  MaxLag = 1
  MaxEntries = 2
  MaxFaults = 1
INVARIANTS
  TypeOK OwnEntriesInOrder SyncedEntriesInOrder OverwrittenByChance
CHECK_DEADLOCK FALSE
SYMMETRY Symmetry
