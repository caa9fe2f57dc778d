SPECIFICATION Spec
CONSTANTS
  d1 = d1
  d2 = d2
  u1 = u1
  Uncast = Uncast
  Devices = {d1}
  Users = {u1}
  UserOf <- OnePhone
  Posts = {p1, p2}
  Cells = {c1, c2}
  MaxTaps = 2
  MaxFaults = 0
  MaxLoads = 3
INVARIANTS
  SettledViewIsRecord SettledCellShowsRecord SettledCountIsExpected
CHECK_DEADLOCK FALSE
