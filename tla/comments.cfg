SPECIFICATION FairSpec
CONSTANTS
  MaxComments = 2
  MaxReads = 2
  MaxSheets = 1
  MaxAttempts = 2
  MaxFaults = 1
INVARIANTS
  TypeOK ListedExists ListIsComplete ReplyIsListed
PROPERTIES
  EverythingIsAnswered
CHECK_DEADLOCK FALSE
