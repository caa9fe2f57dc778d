SPECIFICATION FairSpec
CONSTANTS
  Devices = {d1}
  Comments = {k1, k2}
  MaxRetries = 2
  MaxTransactions = 1
  MaxEvents = 2
PROPERTIES
  EveryTransactionIsTold
CHECK_DEADLOCK FALSE
