SPECIFICATION FairSpec
CONSTANTS
  d1 = d1
  d2 = d2
  u1 = u1
  Uncast = Uncast
  Devices = {d1}
  Users = {u1}
  UserOf <- OnePhone
  Posts = {p1}
  Cells = {c1}
  MaxTaps = 2
  MaxFaults = 2
  MaxLoads = 2
INVARIANTS
  TypeOK CountedVoteIsRecorded SuccessMeansStored TidyVotesAreCounted
  SettledViewIsRecord SettledCellShowsRecord SettledCountIsExpected
PROPERTIES
  OnlyForgottenTapsWait
CHECK_DEADLOCK FALSE
