SPECIFICATION Spec
CONSTANTS
  Devices = {d1}
  Emails = {a1}
  Known = {}
  Admins = {a1}
  MaxCalls = 1
  MaxShown = 4
  MaxFaults = 1
INVARIANTS
  WelcomedIsRecorded
CHECK_DEADLOCK FALSE
