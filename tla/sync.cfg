SPECIFICATION FairSpec
CONSTANTS
  Devices = {d1, d2}
  Comments = {k1}
  MaxRetries = 2
  MaxTransactions = 2
  MaxEvents = 2
INVARIANTS
  TypeOK CountIsWhole FailureIsTrue ReadIsWhole QueueIsSent
PROPERTIES
  CommentsStay UndisturbedIsTold
CHECK_DEADLOCK FALSE
