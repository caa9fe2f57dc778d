SPECIFICATION FairSpec
CONSTANTS
  Devices = {d1, d2}
  Emails = {a1, a2}
  Known = {a1}
  Admins = {a1}
  MaxCalls = 2
  MaxShown = 4
  MaxFaults = 1
INVARIANTS
  TypeOK FeedIsOfCurrentUser PageIsOfAdministrator EveryAccountIsRecorded
PROPERTIES
  SignedInSeesFeed
CHECK_DEADLOCK FALSE
