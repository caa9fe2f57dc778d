SPECIFICATION Spec
CONSTANTS
  d1 = d1
  d2 = d2
  u1 = u1
  Uncast = Uncast
  Devices = {d1, d2}
  Users = {u1}
  UserOf <- OneAccount
  Posts = {p1}
  Cells = {c1}
  MaxTaps = 2
  MaxFaults = 1
  MaxLoads = 1
INVARIANTS
  TidyVotesAreCounted SettledViewIsRecord SettledCellShowsRecord
PROPERTIES
  LedgerSpec
CHECK_DEADLOCK FALSE
