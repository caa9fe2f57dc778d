SPECIFICATION Spec
CONSTANTS
  Devices = {d1, d2}
  Comments = {}
  MaxRetries = 3
  MaxTransactions = 3
  MaxEvents = 1
INVARIANTS
  EveryCommitCounts
CHECK_DEADLOCK FALSE
